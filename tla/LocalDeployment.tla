-------------------------- MODULE LocalDeployment --------------------------
(***************************************************************************)
(* The deployments of one model on the user's own machine:                 *)
(* product/local_deployment.py with the rows of product/state.py, the      *)
(* endpoints that call it and the refresh that polls it.  A deployment is  *)
(* one operating-system process, known to the program by the pid its row   *)
(* records.                                                                *)
(***************************************************************************)
EXTENDS Naturals, FiniteSets

CONSTANTS Deployments,   \* ids of deployments of the model
          Operators,     \* threads of the desktop program and command lines, 1 .. n
          Ports,         \* loopback ports a deployment asks for or is given
          MaxPids,       \* bound: processes started in a behaviour
          MaxOps,        \* bound: operations in a behaviour
          MaxFaults      \* bound: processes that die or hang, operators that die

ASSUME LocalAssumption ==
    /\ IsFiniteSet(Deployments)
    /\ Operators \subseteq Nat
    /\ IsFiniteSet(Ports) /\ Ports \subseteq Nat \ {0}
    /\ MaxPids \in Nat
    /\ MaxOps \in Nat
    /\ MaxFaults \in Nat

VARIABLES
    row,       \* per deployment: its row
    vault,     \* per deployment: the bearer token the client holds
    proc,      \* per pid: the process
    op,        \* per operator: the operation it is in
    check,     \* the refresh's answer for one deployment, not yet written
    history,   \* what has happened so far, for the properties' conditions
    ops, faults

vars == <<row, vault, proc, op, check, history, ops, faults>>

None == "none"
Pids == 1 .. MaxPids
Tokens == 0 .. MaxOps
NoPort == 0
Statuses == {"INSTALLING", "STARTING", "HEALTHY", "DEGRADED", "STOPPED", "FAILED"}
NoRow == [status |-> None, pid |-> 0, port |-> NoPort]
Unused == [dep |-> None, port |-> NoPort, token |-> 0, state |-> "unused"]
\* dep is the operation's own deployment, cur the one it stops or starts now
Idle == [kind |-> "idle", at |-> "end", dep |-> None, cur |-> None, todo |-> {},
         paused |-> {}, pid |-> 0, port |-> NoPort, token |-> 0]
NoCheck == [dep |-> None, expected |-> None]
Events == {"overlap", "crash", "fault", "slow", "started", "stopped", "abandoned", "healthy",
           "late"}

Live(p) == p \in Pids /\ proc[p].state \in {"loading", "serving", "hung"}
Serving(p) == p \in Pids /\ proc[p].state = "serving"
Busy == {o \in Operators : op[o] # Idle}
\* _process_matches: the pid and its creation time
Matches(d) == Live(row[d].pid)
\* _health_ok: whatever process serves the port
HealthOk(port) == \E p \in Pids : Serving(p) /\ proc[p].port = port

Init ==
    /\ row = [d \in Deployments |-> NoRow]
    /\ vault = [d \in Deployments |-> 0]
    /\ proc = [p \in Pids |-> Unused]
    /\ op = [o \in Operators |-> Idle]
    /\ check = NoCheck
    /\ history = {}
    /\ ops = 0
    /\ faults = 0

-----------------------------------------------------------------------------
(* Steps shared by the operations.                                         *)

Note(events) == history' = history \cup events
At(o, at) == op[o].at = at
GoTo(o, at) == op' = [op EXCEPT ![o].at = at]
Finish(o) == op' = [op EXCEPT ![o] = Idle]
Status(d, s) == row' = [row EXCEPT ![d].status = s]
\* _stop_recorded_process
Kill(pid) == proc' = IF Live(pid) THEN [proc EXCEPT ![pid].state = "dead"] ELSE proc

\* an operation is accepted: it may overlap one that another thread is in. The
\* threads are alike, so the first idle one takes it. Bounds:
\* no operation follows an overlap, a crash or a late answer, and no overlap a fault
Begin(o, record, events) ==
    /\ op[o] = Idle /\ \A p \in Operators : p < o => p \in Busy
    /\ ops < MaxOps
    /\ faults # 0 => Busy = {}
    /\ history \cap {"overlap", "crash", "late"} = {}
    /\ ops' = ops + 1
    /\ op' = [op EXCEPT ![o] = record]
    /\ Note(events \cup (IF Busy = {} THEN {} ELSE {"overlap"}))

\* what a failed deployment that gives its paused deployments up leaves behind
Abandon(o) == Note(IF op[o].paused = {} THEN {} ELSE {"abandoned"})

-----------------------------------------------------------------------------
(* deploy                                                                  *)

\* the endpoint answers a healthy deployment without starting it again
BeginDeploy(o, d) ==
    /\ row[d].status # "HEALTHY"
    /\ Begin(o, [Idle EXCEPT !.kind = "deploy", !.at = "enter", !.dep = d, !.cur = d,
                             !.token = ops + 1], {})
    /\ UNCHANGED <<row, vault, proc, check, faults>>

\* one running operation for a job, under the lock; then the package's own checks,
\* which may refuse it; then the list of the deployments it will pause
EnterDeploy(o) ==
    /\ op[o].kind = "deploy" /\ At(o, "enter")
    /\ \/ Finish(o)
       \/ /\ \A p \in Operators \ {o} :
                ~(op[p].kind = "deploy" /\ op[p].dep = op[o].dep /\ ~At(p, "enter"))
          /\ op' = [op EXCEPT ![o].at = "pause",
                              ![o].todo = {c \in Deployments \ {op[o].dep} :
                                              row[c].status = "HEALTHY"}]
    /\ UNCHANGED <<row, vault, proc, check, history, ops, faults>>

\* a healthy deployment of the same model is stopped, for its memory
PauseNext(o) ==
    /\ At(o, "pause")
    /\ \E c \in op[o].todo :
          IF row[c] = NoRow
          THEN Finish(o) /\ Abandon(o) /\ UNCHANGED proc
          ELSE /\ Kill(row[c].pid)
               /\ op' = [op EXCEPT ![o].at = "paused", ![o].cur = c, ![o].todo = @ \ {c}]
               /\ UNCHANGED history
    /\ UNCHANGED <<row, vault, check, ops, faults>>
PauseRecorded_Forgets(o) ==
    /\ At(o, "paused")
    /\ Status(op[o].cur, "STOPPED")
    /\ op' = [op EXCEPT ![o].at = "pause", ![o].cur = op[o].dep]
    /\ UNCHANGED <<vault, proc, check, history, ops, faults>>
PauseRecorded(o) ==
    /\ At(o, "paused")
    /\ IF row[op[o].cur] = NoRow
       THEN Finish(o) /\ Abandon(o) /\ UNCHANGED row
       ELSE /\ Status(op[o].cur, "STOPPED")
            /\ op' = [op EXCEPT ![o].at = "pause", ![o].cur = op[o].dep,
                                ![o].paused = @ \cup {op[o].cur}]
            /\ UNCHANGED history
    /\ UNCHANGED <<vault, proc, check, ops, faults>>

\* no GPU, a bad port, an unreadable package: the paused ones are not started again
DeployAbandoned(o) ==
    /\ At(o, "pause") /\ op[o].todo = {}
    /\ Finish(o)
    /\ Abandon(o)
    /\ UNCHANGED <<row, vault, proc, check, ops, faults>>
\* too little memory: they are
DeployRefused(o) ==
    /\ At(o, "pause") /\ op[o].todo = {}
    /\ op' = [op EXCEPT ![o].at = "restore", ![o].todo = op[o].paused]
    /\ UNCHANGED <<row, vault, proc, check, history, ops, faults>>
\* the new row forgets the pid of the old one. The port was asked for or found free;
\* ports are alike, so one that no row has is the first such
DeployInstalls(o) ==
    /\ At(o, "pause") /\ op[o].todo = {}
    /\ \E port \in Ports :
          /\ \A q \in Ports : q < port => \E c \in Deployments : row[c].port = q
          /\ vault' = [vault EXCEPT ![op[o].dep] = op[o].token]
          /\ row' = [row EXCEPT ![op[o].dep] =
                        [status |-> "INSTALLING", pid |-> 0, port |-> port]]
          /\ op' = [op EXCEPT ![o].at = "spawn", ![o].port = port]
    /\ UNCHANGED <<proc, check, history, ops, faults>>

-----------------------------------------------------------------------------
(* The start of a process, by deploy, by start, or by a deploy that starts a *)
(* deployment it paused.                                                     *)

Restoring(o) == op[o].kind = "deploy" /\ op[o].cur # op[o].dep

Spawn(o) ==
    /\ At(o, "spawn")
    /\ \E p \in Pids :
          /\ proc[p] = Unused /\ \A q \in Pids : q < p => proc[q] # Unused
          /\ proc' = [proc EXCEPT ![p] = [dep |-> op[o].cur, port |-> op[o].port,
                                          token |-> op[o].token, state |-> "loading"]]
          /\ op' = [op EXCEPT ![o].at = "record", ![o].pid = p]
    /\ UNCHANGED <<row, vault, check, history, ops, faults>>

\* deploy changes the row it reads again, and fails without one; start writes back
\* the row it read at its beginning
RecordSpawn_KeepsPid(o) ==
    /\ At(o, "record")
    /\ row[op[o].cur] # NoRow
    /\ Status(op[o].cur, "STARTING")
    /\ GoTo(o, "wait")
    /\ UNCHANGED <<vault, proc, check, history, ops, faults>>
RecordSpawn(o) ==
    /\ At(o, "record")
    /\ LET d == op[o].cur
       IN  IF op[o].kind = "deploy" /\ ~Restoring(o) /\ row[d] = NoRow
           THEN Finish(o) /\ Abandon(o) /\ UNCHANGED row
           ELSE /\ row' = [row EXCEPT ![d] = [status |-> "STARTING", pid |-> op[o].pid,
                                              port |-> op[o].port]]
                /\ GoTo(o, "wait")
                /\ UNCHANGED history
    /\ UNCHANGED <<vault, proc, check, ops, faults>>

\* _wait_for_local_runtime: the process lives, and the port answers a generation
\* with the token
Answered(o) ==
    /\ Live(op[o].pid)
    /\ \E p \in Pids : Serving(p) /\ proc[p].port = op[o].port /\ proc[p].token = op[o].token
Healthy(o) ==
    /\ At(o, "wait")
    /\ Answered(o)
    /\ row[op[o].cur] # NoRow
    /\ Status(op[o].cur, "HEALTHY")
    /\ \/ ~Restoring(o) /\ op[o].kind = "deploy" /\ GoTo(o, "attach")
       \/ op[o].kind = "start" /\ Finish(o)
       \/ Restoring(o) /\ GoTo(o, "restore")
    /\ Note({"healthy"})
    /\ UNCHANGED <<vault, proc, check, ops, faults>>
\* the row deploy returned is written back whole with the chat's metadata
AttachMetadata(o) ==
    /\ At(o, "attach")
    /\ row' = [row EXCEPT ![op[o].dep] = [status |-> "HEALTHY", pid |-> op[o].pid,
                                          port |-> op[o].port]]
    /\ Finish(o)
    /\ UNCHANGED <<vault, proc, check, history, ops, faults>>

\* the process ended, or did not answer within the time limit
Unanswered(o, events) ==
    /\ At(o, "wait") /\ row[op[o].cur] # NoRow
    /\ events = IF Live(op[o].pid) THEN {"slow"} ELSE {}
\* the except clause; the failed start of a candidate is no fault of the machine
DeployFails(o) ==
    /\ op[o].kind = "deploy" /\ ~Restoring(o)
    /\ \E events \in SUBSET {"slow"} : Unanswered(o, events) /\ Note(events)
    /\ Kill(row[op[o].dep].pid)
    /\ Status(op[o].dep, "FAILED")
    /\ op' = [op EXCEPT ![o].at = "restore", ![o].todo = op[o].paused]
    /\ UNCHANGED <<vault, check, ops, faults>>
\* Popen itself may fail
SpawnFails(o) ==
    /\ At(o, "spawn") /\ op[o].kind = "deploy" /\ ~Restoring(o)
    /\ IF row[op[o].dep] = NoRow
       THEN Finish(o) /\ Abandon(o) /\ UNCHANGED <<row, proc>>
       ELSE /\ Kill(row[op[o].dep].pid)
            /\ Status(op[o].dep, "FAILED")
            /\ op' = [op EXCEPT ![o].at = "restore", ![o].todo = op[o].paused]
            /\ UNCHANGED history
    /\ UNCHANGED <<vault, check, ops, faults>>
\* start raises and leaves STARTING
StartFails(o) ==
    /\ op[o].kind = "start"
    /\ \E events \in SUBSET {"slow"} : Unanswered(o, events) /\ Note(events)
    /\ Finish(o)
    /\ UNCHANGED <<row, vault, proc, check, ops, faults>>
\* a paused deployment that does not start again is marked DEGRADED
RestoreFails(o) ==
    /\ Restoring(o)
    /\ \E events \in SUBSET {"slow"} : Unanswered(o, events) /\ Note(events)
    /\ Status(op[o].cur, "DEGRADED")
    /\ GoTo(o, "restore")
    /\ UNCHANGED <<vault, proc, check, ops, faults>>
\* the row went while the operation waited: KeyError, or a broken foreign key
RowGone(o) ==
    /\ At(o, "wait") /\ row[op[o].cur] = NoRow
    /\ Finish(o)
    /\ Abandon(o)
    /\ UNCHANGED <<row, vault, proc, check, ops, faults>>

\* start(c): one that lives and answers is only marked healthy
Starts(o, c) ==
    IF Matches(c) /\ HealthOk(row[c].port)
    THEN /\ Status(c, "HEALTHY")
         /\ Note({"healthy"})
         /\ op' = [op EXCEPT ![o].cur = op[o].dep, ![o].todo = @ \ {c}]
    ELSE /\ op' = [op EXCEPT ![o].at = "spawn", ![o].cur = c, ![o].todo = @ \ {c},
                             ![o].port = row[c].port, ![o].token = vault[c]]
         /\ UNCHANGED <<row, history>>
RestoreNext(o) ==
    /\ At(o, "restore")
    /\ \E c \in op[o].todo :
          IF row[c] = NoRow
          THEN Finish(o) /\ Abandon(o) /\ UNCHANGED row
          ELSE Starts(o, c)
    /\ UNCHANGED <<vault, proc, check, ops, faults>>
RestoreDone(o) ==
    /\ At(o, "restore") /\ op[o].todo = {}
    /\ Finish(o)
    /\ UNCHANGED <<row, vault, proc, check, history, ops, faults>>

-----------------------------------------------------------------------------
(* start, stop, remove; restart is a stop and a start                      *)

BeginStart(o, d) ==
    /\ row[d] # NoRow
    /\ Begin(o, [Idle EXCEPT !.kind = "start", !.at = "begin", !.dep = d, !.cur = d,
                             !.todo = {d}], {"started"})
    /\ UNCHANGED <<row, vault, proc, check, faults>>
StartBegins(o) ==
    /\ op[o].kind = "start" /\ At(o, "begin")
    /\ LET d == op[o].dep
       IN  IF row[d] = NoRow THEN Finish(o) /\ UNCHANGED <<row, history>>
           ELSE IF Matches(d) /\ HealthOk(row[d].port)
                THEN Status(d, "HEALTHY") /\ Finish(o) /\ Note({"healthy"})
                ELSE /\ op' = [op EXCEPT ![o].at = "spawn", ![o].port = row[d].port,
                                         ![o].token = vault[d]]
                     /\ UNCHANGED <<row, history>>
    /\ UNCHANGED <<vault, proc, check, ops, faults>>

\* stop ends the process and records it; remove then deletes files and row
BeginStop(o, d, kind) ==
    /\ row[d] # NoRow
    /\ Begin(o, [Idle EXCEPT !.kind = kind, !.at = "stop", !.dep = d, !.cur = d], {"stopped"})
    /\ Kill(row[d].pid)
    /\ UNCHANGED <<row, vault, check, faults>>
RecordStopped(o) ==
    /\ At(o, "stop")
    /\ IF row[op[o].dep] = NoRow THEN Finish(o) /\ UNCHANGED row
       ELSE /\ Status(op[o].dep, "STOPPED")
            /\ IF op[o].kind = "stop" THEN Finish(o) ELSE GoTo(o, "remove")
    /\ UNCHANGED <<vault, proc, check, history, ops, faults>>
RemoveRow(o) ==
    /\ At(o, "remove")
    /\ \/ row' = [row EXCEPT ![op[o].dep] = NoRow]
       \/ UNCHANGED row                 \* the directory cannot be deleted
    /\ Finish(o)
    /\ UNCHANGED <<vault, proc, check, history, ops, faults>>

-----------------------------------------------------------------------------
(* reconcile_local_deployments, with every refresh of the pages            *)

Reconciled == {"HEALTHY", "DEGRADED", "STOPPED"}
Expected(d) ==
    IF ~Matches(d) THEN "STOPPED" ELSE IF HealthOk(row[d].port) THEN "HEALTHY" ELSE "DEGRADED"

BeginCheck_DegradedOnly(d) ==
    /\ check = NoCheck
    /\ row[d].status = "DEGRADED" /\ row[d].status # Expected(d)
    /\ check' = [dep |-> d, expected |-> Expected(d)]
    /\ UNCHANGED <<row, vault, proc, op, history, ops, faults>>
\* an answer that agrees with the row it read changes nothing
BeginCheck(d) ==
    /\ check = NoCheck
    /\ row[d].status \in Reconciled /\ row[d].status # Expected(d)
    /\ check' = [dep |-> d, expected |-> Expected(d)]
    /\ UNCHANGED <<row, vault, proc, op, history, ops, faults>>
\* an answer that is out of date by now is written all the same
WriteCheck ==
    /\ check # NoCheck
    /\ IF row[check.dep] = NoRow THEN UNCHANGED <<row, history>>
       ELSE /\ Status(check.dep, check.expected)
            /\ Note(IF /\ row[check.dep].status \in Reconciled
                      /\ check.expected = Expected(check.dep) THEN {} ELSE {"late"})
    /\ check' = NoCheck
    /\ UNCHANGED <<vault, proc, op, ops, faults>>

-----------------------------------------------------------------------------
(* The processes, and what fails outside the program.                      *)

\* a process that has loaded its model binds its port, or ends
Loads(p) ==
    /\ proc[p].state = "loading"
    /\ proc' = [proc EXCEPT ![p].state =
                   IF \E q \in Pids : proc[q].state \in {"serving", "hung"}
                                       /\ proc[q].port = proc[p].port
                   THEN "dead" ELSE "serving"]
    /\ UNCHANGED <<row, vault, op, check, history, ops, faults>>
\* it ends while it loads: the candidate's own failure
LoadFails(p) ==
    /\ proc[p].state = "loading"
    /\ \E o \in Operators : op[o].pid = p /\ op[o].kind = "deploy" /\ ~Restoring(o)
    /\ proc' = [proc EXCEPT ![p].state = "dead"]
    /\ UNCHANGED <<row, vault, op, check, history, ops, faults>>

Fault(events) ==
    /\ faults < MaxFaults
    /\ "overlap" \notin history
    /\ faults' = faults + 1
    /\ Note(events)
Dies(p) ==
    /\ Live(p)
    /\ Fault({"fault"})
    /\ proc' = [proc EXCEPT ![p].state = "dead"]
    /\ UNCHANGED <<row, vault, op, check, ops>>
Hangs(p) ==
    /\ Serving(p)
    /\ Fault({"slow"})
    /\ proc' = [proc EXCEPT ![p].state = "hung"]
    /\ UNCHANGED <<row, vault, op, check, ops>>
Recovers(p) ==
    /\ proc[p].state = "hung"
    /\ proc' = [proc EXCEPT ![p].state = "serving"]
    /\ UNCHANGED <<row, vault, op, check, history, ops, faults>>
OperatorDies(o) ==
    /\ op[o] # Idle
    /\ Fault({"crash"})
    /\ Finish(o)
    /\ UNCHANGED <<row, vault, proc, check, ops>>

Step(o) ==
    \/ EnterDeploy(o) \/ PauseNext(o) \/ PauseRecorded(o) \/ DeployAbandoned(o)
    \/ DeployRefused(o) \/ DeployInstalls(o) \/ Spawn(o) \/ RecordSpawn(o) \/ Healthy(o)
    \/ AttachMetadata(o) \/ DeployFails(o) \/ SpawnFails(o) \/ StartFails(o)
    \/ RestoreFails(o) \/ RowGone(o) \/ RestoreNext(o) \/ RestoreDone(o)
    \/ StartBegins(o) \/ RecordStopped(o) \/ RemoveRow(o)
Refresh == WriteCheck \/ \E d \in Deployments : BeginCheck(d)

Next ==
    \/ \E o \in Operators :
          \/ \E d \in Deployments : BeginDeploy(o, d) \/ BeginStart(o, d)
          \/ \E d \in Deployments, kind \in {"stop", "remove"} : BeginStop(o, d, kind)
          \/ Step(o)
          \/ OperatorDies(o)
    \/ Refresh
    \/ \E p \in Pids : Loads(p) \/ LoadFails(p) \/ Dies(p) \/ Hangs(p) \/ Recovers(p)

Spec == Init /\ [][Next]_vars
\* an open page asks for the deployments every two seconds
Fairness == WF_vars(WriteCheck) /\ \A d \in Deployments : WF_vars(BeginCheck(d))
FairSpec == Spec /\ Fairness

-----------------------------------------------------------------------------
(* Properties                                                              *)

Quiet == Busy = {}
Unlike(events) == history \cap events = {}

RowType == [status : Statuses \cup {None}, pid : 0 .. MaxPids, port : Ports \cup {NoPort}]
ProcType == [dep : Deployments \cup {None}, port : Ports \cup {NoPort}, token : Tokens,
             state : {"unused", "loading", "serving", "hung", "dead"}]
OpType == [kind : {"idle", "deploy", "start", "stop", "remove"},
           at : {"end", "enter", "pause", "paused", "spawn", "record", "wait", "attach",
                 "restore", "begin", "stop", "remove"},
           dep : Deployments \cup {None}, cur : Deployments \cup {None},
           todo : SUBSET Deployments, paused : SUBSET Deployments, pid : 0 .. MaxPids,
           port : Ports \cup {NoPort}, token : Tokens]

\* The state has the types the code gives it.
TypeOK ==
    /\ row \in [Deployments -> RowType]
    /\ vault \in [Deployments -> Tokens]
    /\ proc \in [Pids -> ProcType]
    /\ op \in [Operators -> OpType]
    /\ check \in [dep : Deployments \cup {None}, expected : Statuses \cup {None}]
    /\ history \subseteq Events
    /\ ops \in 0 .. MaxOps
    /\ faults \in 0 .. MaxFaults

\* Every process that lives when no operation is under way is the one its
\* deployment's row records, so the user can stop it: no deploy, failed deploy,
\* restore, start or remove leaves a stray that holds memory and a port. Not
\* promised when operations overlap, the program dies, a live process does not
\* answer, or the refresh wrote a late answer: deploy then replaces the pid of a
\* process that lives.
NoStray ==
    (Quiet /\ Unlike({"overlap", "crash", "slow", "late"}))
        => \A p \in Pids : Live(p) => row[proc[p].dep].pid = p

\* As long as the user only deploys, two processes of the model never live at the
\* same time, at any moment of a deployment or of the restore after a failed one:
\* they would not fit in the memory the preflight counted.
OneCopyInMemory ==
    Unlike({"overlap", "crash", "slow", "late", "started"})
        => \A p, q \in Pids : Live(p) /\ Live(q) => p = q

\* Once a deployment has been healthy, some deployment is, and serves, after any
\* later deployment, whether that succeeded or failed in one of the ways that
\* start the paused ones again.
ServiceReturns ==
    (Quiet /\ "healthy" \in history
        /\ Unlike({"overlap", "crash", "fault", "slow", "late", "stopped", "abandoned"}))
        => \E d \in Deployments : row[d].status = "HEALTHY" /\ Serving(row[d].pid)

\* A row that says HEALTHY while nothing is under way records a live process that
\* serves the row's port with the token the chat will present.
HealthyIsServed ==
    \A d \in Deployments :
        (Quiet /\ row[d].status = "HEALTHY" /\ Unlike({"overlap", "crash", "fault", "slow", "late"}))
            => /\ Serving(row[d].pid)
               /\ proc[row[d].pid].port = row[d].port
               /\ proc[row[d].pid].token = vault[d]

\* After any sequence of operations the rows and the processes agree both ways: no
\* process without its row, no healthy row without its process, no second process
\* beside the one the row of a healthy deployment records.
RecordsAgree == TypeOK /\ NoStray /\ HealthyIsServed /\ OneCopyInMemory

\* A row does not contradict its process for good while a page is open, whatever
\* overlaps, dies or hangs: not HEALTHY with a process that ended, not STOPPED with
\* one that serves. The refresh corrects it, its own late answers included.
Contradicts(d) ==
    \/ row[d].status = "HEALTHY" /\ ~Matches(d)
    \/ row[d].status = "STOPPED" /\ Serving(row[d].pid)
RowsAreCorrected == \A d \in Deployments : Contradicts(d) ~> ~Contradicts(d)

=============================================================================
