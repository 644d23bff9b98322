-------------------------- MODULE RemoteDeployment --------------------------
(***************************************************************************)
(* One deployment on a rented server: cloud/hf_deployment.py with the row  *)
(* of product/state.py and the endpoints that call it.  A deployment has   *)
(* versions; each has its files on the server and at most one process.     *)
(* An operation is a sequence of SSH commands and row updates; any command *)
(* may fail, and operations of two requests may overlap.                   *)
(***************************************************************************)
EXTENDS Naturals, FiniteSets

CONSTANTS Versions,      \* version ids a caller may deploy
          Operators,     \* threads of the desktop program and command lines, 1 .. n
          MaxPort,       \* last port the search for a free one reaches
          MaxOps,        \* bound: operations in a behaviour
          MaxOverlapped, \* bound: operations after which an overlap is followed by none
          MaxFaults      \* bound: deaths of a process, of an operator, reboots

ASSUME DeploymentAssumption ==
    /\ IsFiniteSet(Versions) /\ "none" \notin Versions
    /\ Operators \subseteq Nat
    /\ MaxPort \in Nat \ {0}
    /\ MaxOps \in Nat
    /\ MaxOverlapped \in Nat
    /\ MaxFaults \in Nat

VARIABLES
    mode,      \* "docker" or "native", found by the preflight
    server,    \* the server's profile is in the store
    row,       \* the deployment's row
    vault,     \* the bearer token the client holds for the deployment
    files,     \* per version: token and port written in its start files
    running,   \* per version: token and port of its process
    active,    \* the version the active link names
    unit,      \* the systemd unit that starts the active version at boot
    op,        \* per operator: the operation it is in
    probed,    \* versions whose present process answered a generation
    history,   \* what has happened so far, for the properties' conditions
    ops, faults

serverVars == <<files, running, active, unit, probed>>
vars == <<mode, server, row, vault, files, running, active, unit, op, probed,
          history, ops, faults>>

None == "none"
Ports == 1 .. MaxPort
Tokens == 0 .. MaxOps
Launch(p, t) == [port |-> p, token |-> t]
Absent == Launch(0, 0)          \* no file, no process
Statuses == {"UPLOADING", "STARTING", "HEALTHY", "DEGRADED", "STOPPED",
             "FAILED", "ROLLING_BACK"}
NoRow == [status |-> None, version |-> None, port |-> 0, prev |-> None, prevPort |-> 0]
Idle == [kind |-> "idle", at |-> "end", version |-> None, port |-> 0, token |-> 0,
         was |-> NoRow]
\* "ignored": a command failed whose exit code nobody reads; "halfway": a removal
\* began to delete, or a stop or start failed after it took effect
Events == {"overlap", "crash", "fault", "self", "failed", "stopped", "rolled",
           "ignored", "halfway"}

Up(v) == running[v] # Absent
PortFree(p) == \A v \in Versions : running[v].port # p
Healthy(r) == r.status = "HEALTHY"
Busy == {o \in Operators : op[o] # Idle}
\* the answer of /healthz and of a generation with the token in v's runtime.env
Answers(v, p) ==
    \E w \in Versions : Up(w) /\ running[w] = Launch(p, files[v].token)

Init ==
    /\ mode \in {"docker", "native"}
    /\ server = TRUE
    /\ row = NoRow
    /\ vault = 0
    /\ files = [v \in Versions |-> Absent]
    /\ running = [v \in Versions |-> Absent]
    /\ active = None
    /\ unit = FALSE
    /\ op = [o \in Operators |-> Idle]
    /\ probed = {}
    /\ history = {}
    /\ ops = 0
    /\ faults = 0

-----------------------------------------------------------------------------
(* Steps shared by the operations.                                         *)

Note(e) == history' = history \cup e
At(o, kind, at) == op[o].kind = kind /\ op[o].at = at
GoTo(o, at) == op' = [op EXCEPT ![o].at = at]
Finish(o) == op' = [op EXCEPT ![o] = Idle]
Ignores == "overlap" \notin history /\ Note({"ignored"})
\* set_deployment_status; KeyError when the row is gone
SetStatus(s) == row' = IF row = NoRow THEN NoRow ELSE [row EXCEPT !.status = s]

\* an operation is accepted: it may overlap one that another thread is in. The
\* threads are alike, so the first idle one takes it. Bounds: none once the row was
\* removed, none that follows an overlap when MaxOverlapped have begun, and no overlap in
\* a behaviour with a fault or an ignored failure.
Begin(o, record, events) ==
    /\ op[o] = Idle /\ \A p \in Operators : p < o => p \in Busy
    /\ ops < MaxOps
    /\ "overlap" \in history => ops < MaxOverlapped
    /\ "removed" \notin history
    /\ (faults # 0 \/ "ignored" \in history) => Busy = {}
    /\ ops' = ops + 1
    /\ op' = [op EXCEPT ![o] = record]
    /\ Note(events \cup (IF Busy = {} THEN {} ELSE {"overlap"}))

\* start files of v run: compose up replaces a container whose configuration
\* changed, start.sh leaves a process of its pid file alone; a port in use
\* refuses the container, and ends the native process soon after its start
Launches(v) ==
    LET kept == Up(v) /\ (mode = "native" \/ running[v] = files[v])
        taken == \E w \in Versions \ {v} : running[w].port = files[v].port
    IN  running' = IF kept THEN running
                   ELSE [running EXCEPT ![v] = IF taken THEN Absent ELSE files[v]]
Starts(v) ==
    /\ files[v].port # 0
    /\ Launches(v)
    /\ probed' = IF running'[v] = running[v] THEN probed ELSE probed \ {v}
Stops(v) ==
    /\ running' = [running EXCEPT ![v] = Absent]
    /\ probed' = probed \ {v}

-----------------------------------------------------------------------------
(* deploy                                                                  *)

\* the caller draws a token, puts it in the vault and calls deploy; an upgrade
\* asks for the port of the row, the other callers for the default, 1
BeginDeploy(o, v, p) ==
    /\ server
    /\ p = 1 \/ p = row.port
    /\ Begin(o, [Idle EXCEPT !.kind = "deploy", !.at = "preflight", !.version = v,
                             !.port = p, !.token = ops + 1],
             IF Up(v) \/ (Healthy(row) /\ row.version = v) THEN {"self"} ELSE {})
    /\ vault' = ops + 1
    /\ UNCHANGED <<mode, server, row, serverVars, faults>>

\* the package scan, the host's preflight or the capacity check refuses; the
\* upload's own job endpoint records that, the others leave the row alone
DeployRefused(o) ==
    /\ At(o, "deploy", "preflight")
    /\ Finish(o)
    /\ \/ UNCHANGED row
       \/ server /\ row' = IF row = NoRow
                           THEN [NoRow EXCEPT !.status = "FAILED",
                                              !.version = op[o].version,
                                              !.port = op[o].port]
                           ELSE [row EXCEPT !.status = "FAILED"]
    /\ Note({"failed"})
    /\ UNCHANGED <<mode, server, vault, serverVars, ops, faults>>

\* the version that is healthy now becomes the previous one
DeployRecord(o) ==
    LET was == IF Healthy(row) THEN row ELSE NoRow
    IN  /\ At(o, "deploy", "preflight")
        /\ server
        /\ row' = [status |-> "UPLOADING", version |-> op[o].version, port |-> op[o].port,
                   prev |-> was.version, prevPort |-> was.port]
        /\ op' = [op EXCEPT ![o].at = "port", ![o].was = was]
        /\ UNCHANGED <<mode, server, vault, serverVars, history, ops, faults>>

\* a candidate beside a healthy version starts its search one port further
FindPort(o) ==
    /\ At(o, "deploy", "port")
    /\ row # NoRow
    /\ \E p \in Ports :
          LET first == IF op[o].was = NoRow THEN op[o].port ELSE op[o].port + 1
          IN  /\ p >= first /\ PortFree(p)
              /\ \A q \in first .. p - 1 : ~PortFree(q)
              /\ row' = [row EXCEPT !.port = p]
              /\ op' = [op EXCEPT ![o].at = "upload", ![o].port = p]
    /\ UNCHANGED <<mode, server, vault, serverVars, history, ops, faults>>

\* model files, then runtime.env with the token
UploadModel(o) ==
    /\ At(o, "deploy", "upload")
    /\ files' = [files EXCEPT ![op[o].version].token = op[o].token]
    /\ GoTo(o, "launcher")
    /\ UNCHANGED <<mode, server, row, vault, running, active, unit, probed, history,
                   ops, faults>>

\* compose.yaml or start.sh, with the candidate's port
WriteLauncher(o) ==
    /\ At(o, "deploy", "launcher")
    /\ row # NoRow
    /\ files' = [files EXCEPT ![op[o].version].port = op[o].port]
    /\ SetStatus("STARTING")
    /\ GoTo(o, "start")
    /\ UNCHANGED <<mode, server, vault, running, active, unit, probed, history, ops, faults>>

\* cp, daemon-reload and enable, or disable, rm and daemon-reload: ignored exit codes
SetsUnit(installed) ==
    \/ unit' = installed /\ UNCHANGED history
    \/ Ignores /\ UNCHANGED unit

StartCandidate_Swaps(o) ==
    /\ At(o, "deploy", "start")
    /\ files[op[o].version].port # 0
    /\ running' = [v \in Versions |-> IF v = op[o].version THEN files[v]
                                      ELSE IF v = op[o].was.version THEN Absent
                                      ELSE running[v]]
    /\ probed' = probed \ {op[o].version, op[o].was.version}
    /\ SetsUnit(unit \/ mode = "docker")
    /\ GoTo(o, "health")
    /\ UNCHANGED <<mode, server, row, vault, files, active, ops, faults>>
StartCandidate(o) ==
    /\ At(o, "deploy", "start")
    /\ Starts(op[o].version)
    /\ SetsUnit(unit \/ mode = "docker")
    /\ GoTo(o, "health")
    /\ UNCHANGED <<mode, server, row, vault, files, active, ops, faults>>

CandidateHealthy(o) ==
    /\ At(o, "deploy", "health")
    /\ Answers(op[o].version, op[o].port)
    /\ probed' = probed \cup {op[o].version}
    /\ GoTo(o, "activate")
    /\ UNCHANGED <<mode, server, row, vault, files, running, active, unit, history,
                   ops, faults>>

\* ln -sfn, and the stop of the version that was healthy: both exit codes are ignored
Links(v) ==
    \/ active' = v /\ UNCHANGED history
    \/ Ignores /\ UNCHANGED active
Retires(v) ==
    \/ Stops(v) /\ UNCHANGED history
    \/ Ignores /\ UNCHANGED <<running, probed>>

Activate(o) ==
    /\ At(o, "deploy", "activate")
    /\ Links(op[o].version)
    /\ GoTo(o, "retire")
    /\ UNCHANGED <<mode, server, row, vault, files, running, unit, probed, ops, faults>>

StopPrevious(o) ==
    /\ At(o, "deploy", "retire")
    /\ IF op[o].was = NoRow THEN UNCHANGED <<running, probed, history>>
       ELSE Retires(op[o].was.version)
    /\ GoTo(o, "record")
    /\ UNCHANGED <<mode, server, row, vault, files, active, unit, ops, faults>>

\* the record deploy returns is written back whole by its caller, later
RecordHealthy(o) ==
    /\ At(o, "deploy", "record")
    /\ row # NoRow
    /\ SetStatus("HEALTHY")
    /\ op' = [op EXCEPT ![o].at = "attach", ![o].was = row']
    /\ UNCHANGED <<mode, server, vault, serverVars, history, ops, faults>>
AttachMetadata(o) ==
    /\ At(o, "deploy", "attach")
    /\ server
    /\ row' = op[o].was
    /\ Finish(o)
    /\ UNCHANGED <<mode, server, vault, serverVars, history, ops, faults>>

DeployFails_Silently(o) ==
    /\ op[o].kind = "deploy"
    /\ op[o].at \in {"port", "upload", "launcher", "start", "health", "activate",
                     "retire", "record"}
    /\ Finish(o)
    /\ Note({"failed"})
    /\ UNCHANGED <<mode, server, row, vault, serverVars, ops, faults>>
\* the except clause: any command failed, the connection broke, or the row is gone
DeployFails(o) ==
    /\ op[o].kind = "deploy"
    /\ op[o].at \in {"port", "upload", "launcher", "start", "health", "activate",
                     "retire", "record"}
    /\ SetStatus("FAILED")
    /\ Finish(o)
    /\ Note({"failed"})
    /\ unit' = unit \/ (op[o].at = "start" /\ unit' = (unit \/ mode = "docker"))
    /\ UNCHANGED <<mode, server, vault, files, running, active, probed, ops, faults>>

-----------------------------------------------------------------------------
(* stop, start, remove                                                     *)

BeginAction(o, kind) ==
    /\ row # NoRow
    /\ Begin(o, [Idle EXCEPT !.kind = kind, !.at = "run", !.version = row.version,
                             !.port = row.port, !.was = row],
             IF kind \in {"stop", "remove"} THEN {"stopped"} ELSE {})
    /\ UNCHANGED <<mode, server, row, vault, serverVars, faults>>

\* a command that fails leaves the row as it is, also when it is not the first one
\* or failed after it took effect
ActionFails(o) ==
    /\ op[o].kind \in {"stop", "start", "remove"} /\ op[o].at = "run"
    /\ Finish(o)
    /\ Note({"failed"})
    /\ UNCHANGED <<mode, server, row, vault, serverVars, ops, faults>>
ActionBreaks(o) ==
    /\ At(o, "stop", "record") \/ At(o, "start", "health") \/ At(o, "remove", "unit")
    /\ Finish(o)
    /\ Note({"failed", "halfway"})
    /\ UNCHANGED <<mode, server, row, vault, serverVars, ops, faults>>

StopVersion(o) ==
    /\ At(o, "stop", "run")
    /\ Stops(op[o].version)
    /\ GoTo(o, "record")
    /\ UNCHANGED <<mode, server, row, vault, files, active, unit, history, ops, faults>>
RecordStopped(o) ==
    /\ At(o, "stop", "record")
    /\ SetStatus("STOPPED")
    /\ Finish(o)
    /\ UNCHANGED <<mode, server, vault, serverVars, history, ops, faults>>

StartVersion(o) ==
    /\ At(o, "start", "run")
    /\ Starts(op[o].version)
    /\ GoTo(o, "health")
    /\ UNCHANGED <<mode, server, row, vault, files, active, unit, history, ops, faults>>
RecordStarted(o) ==
    /\ At(o, "start", "health")
    /\ \/ /\ Answers(op[o].version, op[o].port)
          /\ probed' = probed \cup {op[o].version}
          /\ SetStatus("HEALTHY")
          /\ UNCHANGED history
       \/ /\ SetStatus("DEGRADED")
          /\ Note({"failed"})
          /\ UNCHANGED probed
    /\ Finish(o)
    /\ UNCHANGED <<mode, server, vault, files, running, active, unit, ops, faults>>

\* the process of the row's version, whose exit code is ignored; every version's files
\* with the link, where find and rm may raise, rm in the midst of them; then the unit,
\* with three ignored exit codes
RemoveProcess(o) ==
    /\ At(o, "remove", "run")
    /\ Retires(op[o].version)
    /\ GoTo(o, "delete")
    /\ UNCHANGED <<mode, server, row, vault, files, active, unit, ops, faults>>
RemoveFiles(o) ==
    /\ At(o, "remove", "delete")
    /\ files' = [v \in Versions |-> Absent]
    /\ active' = None
    /\ GoTo(o, "unit")
    /\ Note({"halfway"})
    /\ UNCHANGED <<mode, server, row, vault, running, unit, probed, ops, faults>>
RemoveFilesFails(o) ==
    /\ At(o, "remove", "delete")
    /\ \E gone \in SUBSET Versions :
          files' = [v \in Versions |-> IF v \in gone THEN Absent ELSE files[v]]
    /\ active' \in {active, None}
    /\ Finish(o)
    /\ Note({"failed", "halfway"})
    /\ UNCHANGED <<mode, server, row, vault, running, unit, probed, ops, faults>>
RemoveUnit(o) ==
    /\ At(o, "remove", "unit")
    /\ SetsUnit(FALSE)
    /\ GoTo(o, "record")
    /\ UNCHANGED <<mode, server, row, vault, files, running, active, probed, ops, faults>>
RecordRemoved(o) ==
    /\ At(o, "remove", "record")
    /\ row' = NoRow
    /\ Finish(o)
    /\ Note({"removed"})
    /\ UNCHANGED <<mode, server, vault, serverVars, ops, faults>>

-----------------------------------------------------------------------------
(* rollback                                                                *)

BeginRollback(o) ==
    /\ row.prev # None
    /\ Begin(o, [Idle EXCEPT !.kind = "rollback", !.at = "run", !.version = row.prev,
                             !.port = row.prevPort, !.was = row],
             {"rolled"})
    /\ row' = [row EXCEPT !.status = "ROLLING_BACK"]
    /\ UNCHANGED <<mode, server, vault, serverVars, faults>>
StartPrevious(o) ==
    /\ At(o, "rollback", "run")
    /\ Starts(op[o].version)
    /\ GoTo(o, "health")
    /\ UNCHANGED <<mode, server, row, vault, files, active, unit, history, ops, faults>>
\* missing files and a failed health check are recorded
RollbackFails(o) ==
    /\ \/ At(o, "rollback", "run") /\ files[op[o].version].port = 0
       \/ At(o, "rollback", "health")
    /\ SetStatus("FAILED")
    /\ Finish(o)
    /\ Note({"failed"})
    /\ UNCHANGED <<mode, server, vault, serverVars, ops, faults>>
\* any other exception leaves ROLLING_BACK
RollbackRaises(o) ==
    /\ op[o].kind = "rollback"
    /\ Finish(o)
    /\ Note({"failed"})
    /\ UNCHANGED <<mode, server, row, vault, serverVars, ops, faults>>
PreviousHealthy(o) ==
    /\ At(o, "rollback", "health")
    /\ Answers(op[o].version, op[o].port)
    /\ probed' = probed \cup {op[o].version}
    /\ GoTo(o, "activate")
    /\ UNCHANGED <<mode, server, row, vault, files, running, active, unit, history,
                   ops, faults>>
ReactivatePrevious(o) ==
    /\ At(o, "rollback", "activate")
    /\ Links(op[o].version)
    /\ GoTo(o, "retire")
    /\ UNCHANGED <<mode, server, row, vault, files, running, unit, probed, ops, faults>>
StopCurrent(o) ==
    /\ At(o, "rollback", "retire")
    /\ Retires(op[o].was.version)
    /\ GoTo(o, "record")
    /\ UNCHANGED <<mode, server, row, vault, files, active, unit, ops, faults>>
RecordRolledBack_KeepsPort(o) ==
    /\ At(o, "rollback", "record")
    /\ server
    /\ row' = [NoRow EXCEPT !.status = "HEALTHY", !.version = op[o].version,
                            !.port = op[o].was.port, !.prevPort = op[o].was.prevPort]
    /\ Finish(o)
    /\ UNCHANGED <<mode, server, vault, serverVars, history, ops, faults>>
\* the record read at the start is written back with the previous version
RecordRolledBack(o) ==
    /\ At(o, "rollback", "record")
    /\ server
    /\ row' = [NoRow EXCEPT !.status = "HEALTHY", !.version = op[o].version,
                            !.port = op[o].port, !.prevPort = op[o].was.prevPort]
    /\ Finish(o)
    /\ UNCHANGED <<mode, server, vault, serverVars, history, ops, faults>>

-----------------------------------------------------------------------------
(* The server's profile, and what fails outside the program.               *)

\* remove_server; a foreign key keeps a row from naming a removed profile
RemoveServer ==
    /\ server
    /\ row = NoRow
    /\ server' = FALSE
    /\ UNCHANGED <<mode, row, vault, serverVars, op, history, ops, faults>>
\* put_deployment breaks the foreign key, and the operation ends with an error
ServerGone(o) ==
    /\ ~server
    /\ op[o].at \in {"preflight", "attach"} \/ At(o, "rollback", "record")
    /\ Finish(o)
    /\ UNCHANGED <<mode, server, row, vault, serverVars, history, ops, faults>>

Fault(event) ==
    /\ faults < MaxFaults
    /\ "overlap" \notin history
    /\ faults' = faults + 1
    /\ Note({event})

OperatorDies(o) ==
    /\ op[o] # Idle
    /\ Fault("crash")
    /\ Finish(o)
    /\ UNCHANGED <<mode, server, row, vault, serverVars, ops>>
ProcessDies(v) ==
    /\ Up(v)
    /\ Fault("fault")
    /\ Stops(v)
    /\ UNCHANGED <<mode, server, row, vault, files, active, unit, op, ops>>
\* containers restart unless stopped, the unit brings the active version up;
\* native processes are gone
Reboot ==
    /\ Fault("fault")
    /\ running' = [v \in Versions |->
                     IF mode = "native" THEN Absent
                     ELSE IF unit /\ v = active /\ files[v].port # 0
                               /\ \A w \in Versions \ {v} : running[w].port # files[v].port
                          THEN files[v] ELSE running[v]]
    /\ probed' = {}
    /\ UNCHANGED <<mode, server, row, vault, files, active, unit, op, ops>>

Deploy(o) ==
    \/ DeployRefused(o) \/ DeployRecord(o) \/ FindPort(o) \/ UploadModel(o)
    \/ WriteLauncher(o) \/ StartCandidate(o) \/ CandidateHealthy(o) \/ Activate(o)
    \/ StopPrevious(o) \/ RecordHealthy(o) \/ AttachMetadata(o) \/ DeployFails(o)
Act(o) ==
    \/ ActionFails(o) \/ ActionBreaks(o) \/ StopVersion(o) \/ RecordStopped(o)
    \/ StartVersion(o) \/ RecordStarted(o) \/ RemoveProcess(o) \/ RemoveFiles(o)
    \/ RemoveFilesFails(o) \/ RemoveUnit(o) \/ RecordRemoved(o)
Rollback(o) ==
    \/ StartPrevious(o) \/ RollbackFails(o) \/ RollbackRaises(o) \/ PreviousHealthy(o)
    \/ ReactivatePrevious(o) \/ StopCurrent(o) \/ RecordRolledBack(o)
Step(o) == Deploy(o) \/ Act(o) \/ Rollback(o) \/ ServerGone(o)

Next ==
    \/ \E o \in Operators :
          \/ \E v \in Versions, p \in Ports : BeginDeploy(o, v, p)
          \/ \E kind \in {"stop", "start", "remove"} : BeginAction(o, kind)
          \/ BeginRollback(o)
          \/ Step(o)
          \/ OperatorDies(o)
    \/ \E v \in Versions : ProcessDies(v)
    \/ Reboot
    \/ RemoveServer

Spec == Init /\ [][Next]_vars
\* an operation's thread runs until it ends; its commands all have a timeout. Operations have
\* finitely many steps, so that one of them after another is as good as each of them
Fairness == WF_vars(\E o \in Operators : Step(o))
FairSpec == Spec /\ Fairness

-----------------------------------------------------------------------------
(* Properties                                                              *)

Quiet == Busy = {}
Unlike(events) == history \cap events = {}

LaunchType == [port : 0 .. MaxPort, token : Tokens]
RowType == [status : Statuses \cup {None}, version : Versions \cup {None},
            port : 0 .. MaxPort, prev : Versions \cup {None}, prevPort : 0 .. MaxPort]
OpType == [kind : {"idle", "deploy", "stop", "start", "remove", "rollback"},
           at : {"end", "preflight", "port", "upload", "launcher", "start", "health",
                 "activate", "retire", "record", "attach", "run", "delete", "unit"},
           version : Versions \cup {None}, port : 0 .. MaxPort, token : Tokens,
           was : RowType]

\* The state has the types the code gives it.
TypeOK ==
    /\ mode \in {"docker", "native"}
    /\ server \in BOOLEAN
    /\ row \in RowType
    /\ vault \in Tokens
    /\ files \in [Versions -> LaunchType]
    /\ running \in [Versions -> LaunchType]
    /\ active \in Versions \cup {None}
    /\ unit \in BOOLEAN
    /\ op \in [Operators -> OpType]
    /\ probed \subseteq Versions
    /\ history \subseteq Events \cup {"removed"}
    /\ ops \in 0 .. MaxOps
    /\ faults \in 0 .. MaxFaults

\* Once a deployment has been healthy, some version that answered a private
\* generation keeps running through every later upgrade and rollback, whatever
\* command of it fails: the old version is stopped after the new one has
\* answered. Not promised when the user stops it, when operations overlap, when
\* the server loses a process, or when the version that runs is deployed again.
ServiceSurvives ==
    (active # None /\ Unlike({"stopped", "overlap", "crash", "fault", "self"}))
        => probed # {}

\* A row that says HEALTHY while nothing is under way names a version that runs, on the
\* port the row names, whatever failed on the way there; except "halfway": a stop or a
\* removal that fails after its process is gone leaves the row HEALTHY.
HealthyServes ==
    (Quiet /\ Healthy(row) /\ Unlike({"overlap", "crash", "fault", "self", "halfway"}))
        => Up(row.version) /\ running[row.version].port = row.port

\* As long as every operation succeeded and none of the commands failed whose exit code
\* is ignored, one version at most runs, it is the one the row names, and the active
\* link, which the boot unit follows, names it too: an upgrade or a rollback leaves no
\* second copy holding GPU memory, and a removal leaves none at all.
OneVersion ==
    (Quiet /\ Unlike({"overlap", "crash", "fault", "self", "failed", "ignored"}))
        => /\ active = row.version
           /\ \A v \in Versions : Up(v) => v = row.version

\* A previous version the row names can be rolled back to: its start files are on
\* the server and open the port the row recorded for it, until a removal begins to delete.
RollbackReady ==
    (row.prev # None /\ Unlike({"overlap", "self", "halfway"}) /\ Quiet)
        => files[row.prev].port = row.prevPort

\* The token in the vault is the one the healthy service was started with, so the
\* chat can authenticate, through any upgrade, stop and start. Not promised after a
\* failed deployment or a rollback: the vault then holds the later token.
CredentialFits ==
    (Quiet /\ Healthy(row) /\ Up(row.version) /\ Unlike({"overlap", "crash", "failed", "rolled"}))
        => running[row.version].token = vault

\* The active link, which the unit starts at boot, never names a version whose
\* files are not there: it is set after the candidate's files were started. A removal that
\* ends halfway may have deleted the files and not the link.
ActiveIsInstalled ==
    (active # None /\ Unlike({"overlap", "halfway"})) => files[active].port # 0

\* A profile that a row names is in the store, whatever overlaps.
LinkedServer == row # NoRow => server

\* A deployment does not stay UPLOADING or STARTING: whatever fails, its thread
\* records an end, as long as it is not killed.
DeploymentSettles ==
    (row.status \in {"UPLOADING", "STARTING"})
        ~> (row.status \notin {"UPLOADING", "STARTING"} \/ "crash" \in history)

\* After any sequence of operations, what the row, the vault and the active link say
\* of the deployment is so on the server, whose profile is kept as long as the row is.
RecordsAgree ==
    /\ TypeOK /\ HealthyServes /\ OneVersion /\ RollbackReady /\ CredentialFits /\ ActiveIsInstalled
    /\ LinkedServer
=============================================================================
