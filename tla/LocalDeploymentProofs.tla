------------------------ MODULE LocalDeploymentProofs ------------------------
(***************************************************************************)
(* Proofs about LocalDeployment, for any number of deployments, operators, *)
(* ports and processes: types, and, as long as no two operations overlap,  *)
(* that rows and processes agree, that one copy of the model is in memory, *)
(* and that a service returns after a deployment.                          *)
(***************************************************************************)
EXTENDS LocalDeployment, TLAPS

\* Two processes never have one port.
Holds(p) == proc[p].state \in {"serving", "hung"}
PortsApart == \A p, q \in Pids : Holds(p) /\ Holds(q) /\ proc[p].port = proc[q].port => p = q

\* What is under way is about deployments there are.
Named ==
  /\ \A o \in Operators : op[o] # Idle => op[o].dep \in Deployments /\ op[o].cur \in Deployments
  /\ check # NoCheck => check.dep \in Deployments /\ check.expected \in Reconciled

\* A pid that is recorded is that of a process there was.
Spent(pid) == pid \in Pids => proc[pid].state # "unused"
PidsSpent ==
  /\ \A d \in Deployments : Spent(row[d].pid)
  /\ \A o \in Operators : Spent(op[o].pid)

Base == TypeOK /\ Named /\ PortsApart /\ PidsSpent

LEMMA BaseStart == Init => Base
<1> SUFFICES ASSUME Init PROVE Base
  OBVIOUS
<1>1. TypeOK
  BY LocalAssumption DEF Init, TypeOK, NoRow, Unused, Idle, NoCheck, RowType, ProcType, OpType,
     Tokens, Pids, None, NoPort
<1>2. Named /\ PortsApart /\ PidsSpent
  BY DEF Init, Named, PortsApart, Holds, Unused, PidsSpent, Spent, Pids, NoRow, Idle
<1> QED BY <1>1, <1>2 DEF Base

\* The functions and records that are changed one entry at a time.
LEMMA Constants ==
  /\ Idle \in OpType /\ NoRow \in RowType
  /\ Statuses \subseteq Statuses \cup {None} /\ NoPort \in Ports \cup {NoPort}
  /\ 0 \in 0 .. MaxPids /\ 0 \in Tokens /\ MaxOps \in Nat /\ MaxFaults \in Nat
  /\ Pids \subseteq 0 .. MaxPids
BY LocalAssumption DEF Idle, NoRow, OpType, RowType, Tokens, Pids, NoPort, None, Statuses

LEMMA StatusType ==
  ASSUME TypeOK, NEW d, NEW s \in Statuses, Status(d, s)
  PROVE  row' \in [Deployments -> RowType]
BY DEF TypeOK, Status, RowType

LEMMA KillType ==
  ASSUME TypeOK, NEW pid, Kill(pid)
  PROVE  proc' \in [Pids -> ProcType]
BY DEF TypeOK, Kill, ProcType, Live

\* An operation that goes on as y.
LEMMA GoesType ==
  ASSUME TypeOK, NEW o \in Operators, NEW y \in OpType, op' = [op EXCEPT ![o] = y]
  PROVE  op' \in [Operators -> OpType]
BY DEF TypeOK

LEMMA OpIsTyped == ASSUME TypeOK, NEW o \in Operators PROVE op[o] \in OpType
BY DEF TypeOK

LEMMA AtType ==
  ASSUME TypeOK, NEW o \in Operators, NEW at, GoTo(o, at),
         at \in {"wait", "attach", "restore", "remove"}
  PROVE  op' \in [Operators -> OpType]
<1> PICK x \in OpType : x = op[o]
  BY OpIsTyped
<1> PICK y : y = [x EXCEPT !.at = at]
  OBVIOUS
<1>1. y \in OpType
  BY DEF OpType
<1> QED BY <1>1, GoesType DEF GoTo

LEMMA FinishType ==
  ASSUME TypeOK, NEW o \in Operators, Finish(o)
  PROVE  op' \in [Operators -> OpType]
BY Constants DEF TypeOK, Finish

LEMMA NoteType ==
  ASSUME TypeOK, NEW E, E \subseteq Events, Note(E)
  PROVE  history' \subseteq Events
BY DEF TypeOK, Note

LEMMA AbandonType ==
  ASSUME TypeOK, NEW o \in Operators, Abandon(o)
  PROVE  history' \subseteq Events
BY DEF TypeOK, Note, Abandon, Events

LEMMA RestoreType ==
  ASSUME TypeOK, NEW o \in Operators,
         op' = [op EXCEPT ![o].at = "restore", ![o].todo = op[o].paused]
  PROVE  op' \in [Operators -> OpType]
<1> PICK x \in OpType : x = op[o]
  BY OpIsTyped
<1> PICK y : y = [x EXCEPT !.at = "restore", !.todo = x.paused]
  OBVIOUS
<1>1. y \in OpType
  BY DEF OpType
<1>2. op' = [op EXCEPT ![o] = y]
  OBVIOUS
<1> QED BY <1>1, <1>2, GoesType

LEMMA BeginType ==
  ASSUME TypeOK, NEW o \in Operators, NEW y \in OpType, NEW E, E \subseteq Events,
         Begin(o, y, E)
  PROVE  /\ op' \in [Operators -> OpType] /\ history' \subseteq Events
         /\ ops' = ops + 1 /\ ops' \in 0 .. MaxOps
BY Constants DEF TypeOK, Begin, Note, Events

LEMMA OperatorTypes ==
  ASSUME TypeOK, Named, NEW o \in Operators,
         \/ \E d \in Deployments : BeginDeploy(o, d) \/ BeginStart(o, d)
         \/ \E d \in Deployments, kind \in {"stop", "remove"} : BeginStop(o, d, kind)
         \/ OperatorDies(o)
  PROVE  TypeOK'
<1>1. ASSUME NEW d \in Deployments, BeginDeploy(o, d) PROVE TypeOK'
  <2> DEFINE y == [Idle EXCEPT !.kind = "deploy", !.at = "enter", !.dep = d, !.cur = d,
                               !.token = ops + 1]
  <2>1. ops < MaxOps /\ ops \in 0 .. MaxOps /\ MaxOps \in Nat
    BY <1>1, Constants DEF BeginDeploy, Begin, TypeOK
  <2>2. y \in OpType
    <3> PICK x \in OpType : x = Idle
      BY Constants
    <3> PICK token \in Tokens : token = ops + 1
      BY <2>1, Constants DEF Tokens
    <3> [x EXCEPT !.kind = "deploy", !.at = "enter", !.dep = d, !.cur = d,
                  !.token = token] \in OpType
      BY DEF OpType
    <3> QED OBVIOUS
  <2>3. Begin(o, y, {}) /\ {} \subseteq Events
    BY <1>1 DEF BeginDeploy
  <2> HIDE DEF y
  <2>4. /\ op' \in [Operators -> OpType] /\ history' \subseteq Events
        /\ ops' \in 0 .. MaxOps
    BY <2>2, <2>3, BeginType
  <2> QED BY <1>1, <2>4 DEF BeginDeploy, TypeOK
<1>2. ASSUME NEW d \in Deployments, BeginStart(o, d) PROVE TypeOK'
  <2> DEFINE y == [Idle EXCEPT !.kind = "start", !.at = "begin", !.dep = d, !.cur = d,
                               !.todo = {d}]
  <2>2. y \in OpType
    <3> PICK x \in OpType : x = Idle
      BY Constants
    <3> [x EXCEPT !.kind = "start", !.at = "begin", !.dep = d, !.cur = d,
                  !.todo = {d}] \in OpType
      BY DEF OpType
    <3> QED OBVIOUS
  <2>3. Begin(o, y, {"started"}) /\ {"started"} \subseteq Events
    BY <1>2 DEF BeginStart, Events
  <2> HIDE DEF y
  <2>4. /\ op' \in [Operators -> OpType] /\ history' \subseteq Events
        /\ ops' \in 0 .. MaxOps
    BY <2>2, <2>3, BeginType
  <2> QED BY <1>2, <2>4 DEF BeginStart, TypeOK
<1>3. ASSUME NEW d \in Deployments, NEW kind \in {"stop", "remove"}, BeginStop(o, d, kind)
      PROVE  TypeOK'
  <2> DEFINE y == [Idle EXCEPT !.kind = kind, !.at = "stop", !.dep = d, !.cur = d]
  <2>2. y \in OpType
    <3> PICK x \in OpType : x = Idle
      BY Constants
    <3> [x EXCEPT !.kind = kind, !.at = "stop", !.dep = d, !.cur = d] \in OpType
      BY DEF OpType
    <3> QED OBVIOUS
  <2>3. Begin(o, y, {"stopped"}) /\ {"stopped"} \subseteq Events
    BY <1>3 DEF BeginStop, Events
  <2> HIDE DEF y
  <2>4. /\ op' \in [Operators -> OpType] /\ history' \subseteq Events
        /\ ops' \in 0 .. MaxOps
    BY <2>2, <2>3, BeginType
  <2> QED BY <1>3, <2>4, KillType DEF BeginStop, TypeOK
<1>4. CASE OperatorDies(o)
  <2>1. faults' \in 0 .. MaxFaults /\ Note({"crash"}) /\ {"crash"} \subseteq Events
    BY <1>4, LocalAssumption DEF OperatorDies, Fault, TypeOK, Events
  <2> QED BY <1>4, <2>1, FinishType, NoteType DEF OperatorDies, TypeOK
<1> QED BY <1>1, <1>2, <1>3, <1>4

LEMMA DeployTypes ==
  ASSUME TypeOK, Named, NEW o \in Operators,
         \/ EnterDeploy(o) \/ PauseNext(o) \/ PauseRecorded(o) \/ DeployAbandoned(o)
         \/ DeployRefused(o) \/ DeployInstalls(o) \/ DeployFails(o) \/ SpawnFails(o)
         \/ AttachMetadata(o)
  PROVE  TypeOK'
<1>1. CASE EnterDeploy(o)
  <2>1. CASE Finish(o)
    BY <1>1, <2>1, FinishType DEF EnterDeploy, TypeOK
  <2>2. CASE op' = [op EXCEPT ![o].at = "pause",
                              ![o].todo = {c \in Deployments \ {op[o].dep} :
                                              row[c].status = "HEALTHY"}]
    <3> PICK x \in OpType : x = op[o]
      BY OpIsTyped
    <3> PICK S \in SUBSET Deployments :
               S = {c \in Deployments \ {op[o].dep} : row[c].status = "HEALTHY"}
      OBVIOUS
    <3> PICK y : y = [x EXCEPT !.at = "pause", !.todo = S]
      OBVIOUS
    <3>1. y \in OpType
      BY DEF OpType
    <3>2. op' = [op EXCEPT ![o] = y]
      BY <2>2
    <3>3. op' \in [Operators -> OpType]
      BY <3>1, <3>2, GoesType
    <3> QED BY <1>1, <3>3 DEF EnterDeploy, TypeOK
  <2> QED BY <1>1, <2>1, <2>2 DEF EnterDeploy
<1>2. CASE PauseNext(o)
  <2> PICK c \in op[o].todo :
          IF row[c] = NoRow
          THEN Finish(o) /\ Abandon(o) /\ UNCHANGED proc
          ELSE /\ Kill(row[c].pid)
               /\ op' = [op EXCEPT ![o].at = "paused", ![o].cur = c, ![o].todo = @ \ {c}]
               /\ UNCHANGED history
    BY <1>2 DEF PauseNext
  <2>1. CASE row[c] = NoRow
    BY <1>2, <2>1, FinishType, AbandonType DEF PauseNext, TypeOK
  <2>2. CASE row[c] # NoRow
    <3>1. c \in Deployments
      BY DEF TypeOK, OpType
    <3> PICK x \in OpType : x = op[o]
      BY OpIsTyped
    <3> PICK y : y = [x EXCEPT !.at = "paused", !.cur = c, !.todo = @ \ {c}]
      OBVIOUS
    <3>2. y \in OpType
      BY <3>1 DEF OpType
    <3>3. op' \in [Operators -> OpType]
      <4> op' = [op EXCEPT ![o] = y]
        BY <2>2
      <4> QED BY <3>2, GoesType
    <3> QED BY <1>2, <2>2, <3>3, KillType DEF PauseNext, TypeOK
  <2> QED BY <2>1, <2>2
<1>3. CASE PauseRecorded(o)
  <2>1. CASE row[op[o].cur] = NoRow
    BY <1>3, <2>1, FinishType, AbandonType DEF PauseRecorded, TypeOK
  <2>2. CASE row[op[o].cur] # NoRow
    <3>1. /\ Status(op[o].cur, "STOPPED") /\ UNCHANGED <<vault, proc, check, ops, faults, history>>
          /\ op' = [op EXCEPT ![o].at = "pause", ![o].cur = op[o].dep,
                              ![o].paused = @ \cup {op[o].cur}]
          /\ op[o] # Idle
      BY <1>3, <2>2 DEF PauseRecorded, At, Idle
    <3> PICK x \in OpType : x = op[o]
      BY OpIsTyped
    <3> PICK y : y = [x EXCEPT !.at = "pause", !.cur = x.dep, !.paused = @ \cup {x.cur}]
      OBVIOUS
    <3>2. x.dep \in Deployments /\ x.cur \in Deployments
      BY <3>1 DEF Named
    <3>3. y \in OpType
      BY <3>2 DEF OpType
    <3>4. op' \in [Operators -> OpType]
      <4> op' = [op EXCEPT ![o] = y]
        BY <3>1
      <4> QED BY <3>3, GoesType
    <3> QED BY <3>1, <3>4, StatusType DEF TypeOK, Statuses
  <2> QED BY <2>1, <2>2
<1>4. CASE DeployAbandoned(o)
  BY <1>4, FinishType, AbandonType DEF DeployAbandoned, TypeOK
<1>5. CASE DeployRefused(o)
  BY <1>5, RestoreType DEF DeployRefused, TypeOK
<1>6. CASE DeployInstalls(o)
  <2> PICK port \in Ports :
          /\ vault' = [vault EXCEPT ![op[o].dep] = op[o].token]
          /\ row' = [row EXCEPT ![op[o].dep] =
                        [status |-> "INSTALLING", pid |-> 0, port |-> port]]
          /\ op' = [op EXCEPT ![o].at = "spawn", ![o].port = port]
    BY <1>6 DEF DeployInstalls
  <2>1. vault' \in [Deployments -> Tokens]
    BY DEF TypeOK, OpType
  <2>2. row' \in [Deployments -> RowType]
    BY Constants DEF TypeOK, RowType, Statuses
  <2> PICK x \in OpType : x = op[o]
    BY OpIsTyped
  <2> PICK y : y = [x EXCEPT !.at = "spawn", !.port = port]
    OBVIOUS
  <2>3. y \in OpType
    BY DEF OpType
  <2>4. op' = [op EXCEPT ![o] = y]
    OBVIOUS
  <2>5. op' \in [Operators -> OpType]
    BY <2>3, <2>4, GoesType
  <2> QED BY <1>6, <2>1, <2>2, <2>5 DEF DeployInstalls, TypeOK
<1>7. CASE DeployFails(o)
  <2> PICK events \in SUBSET {"slow"} : Note(events)
    BY <1>7 DEF DeployFails
  <2>1. events \subseteq Events
    BY DEF Events
  <2> QED BY <1>7, <2>1, NoteType, KillType, StatusType, RestoreType
          DEF DeployFails, TypeOK, Statuses
<1>8. CASE SpawnFails(o)
  BY <1>8, FinishType, AbandonType, KillType, StatusType, RestoreType
  DEF SpawnFails, TypeOK, Statuses
<1>9. CASE AttachMetadata(o)
  <2>1. row' \in [Deployments -> RowType]
    BY <1>9 DEF AttachMetadata, TypeOK, RowType, OpType, Statuses
  <2> QED BY <1>9, <2>1, FinishType DEF AttachMetadata, TypeOK
<1> QED BY <1>1, <1>2, <1>3, <1>4, <1>5, <1>6, <1>7, <1>8, <1>9

LEMMA StartTypes ==
  ASSUME TypeOK, Named, NEW o \in Operators,
         \/ Spawn(o) \/ RecordSpawn(o) \/ Healthy(o) \/ StartFails(o) \/ RestoreFails(o)
         \/ RowGone(o) \/ RestoreNext(o) \/ RestoreDone(o) \/ StartBegins(o)
         \/ RecordStopped(o) \/ RemoveRow(o)
  PROVE  TypeOK'
<1>1. CASE Spawn(o)
  <2> PICK p \in Pids :
        /\ proc' = [proc EXCEPT ![p] = [dep |-> op[o].cur, port |-> op[o].port,
                                        token |-> op[o].token, state |-> "loading"]]
        /\ op' = [op EXCEPT ![o].at = "record", ![o].pid = p]
    BY <1>1 DEF Spawn
  <2>1. proc' \in [Pids -> ProcType]
    BY DEF TypeOK, ProcType, OpType
  <2> PICK x \in OpType : x = op[o]
    BY OpIsTyped
  <2> PICK y : y = [x EXCEPT !.at = "record", !.pid = p]
    OBVIOUS
  <2>2. y \in OpType
    BY Constants DEF OpType
  <2>3. op' = [op EXCEPT ![o] = y]
    OBVIOUS
  <2>4. op' \in [Operators -> OpType]
    BY <2>2, <2>3, GoesType
  <2> QED BY <1>1, <2>1, <2>4 DEF Spawn, TypeOK
<1>2. CASE RecordSpawn(o)
  <2>1. CASE row' = [row EXCEPT ![op[o].cur] = [status |-> "STARTING", pid |-> op[o].pid,
                                              port |-> op[o].port]]
    <3>1. row' \in [Deployments -> RowType]
      BY <2>1 DEF TypeOK, RowType, OpType, Statuses
    <3> QED BY <1>2, <3>1, FinishType, AbandonType, AtType DEF RecordSpawn, TypeOK
  <2>2. CASE Finish(o) /\ Abandon(o) /\ UNCHANGED row
    BY <1>2, <2>2, FinishType, AbandonType DEF RecordSpawn, TypeOK
  <2> QED BY <1>2, <2>1, <2>2 DEF RecordSpawn
<1>3. CASE Healthy(o)
  <2>1. Status(op[o].cur, "HEALTHY") /\ Note({"healthy"}) /\ {"healthy"} \subseteq Events
    BY <1>3 DEF Healthy, Events
  <2>2. op' \in [Operators -> OpType]
    BY <1>3, FinishType, AtType DEF Healthy
  <2> QED BY <1>3, <2>1, <2>2, NoteType, StatusType DEF Healthy, TypeOK, Statuses
<1>4. CASE StartFails(o) \/ RestoreFails(o)
  <2> PICK events \in SUBSET {"slow"} : Note(events)
    BY <1>4 DEF StartFails, RestoreFails
  <2>1. events \subseteq Events
    BY DEF Events
  <2>2. history' \subseteq Events
    BY <2>1, NoteType
  <2> QED BY <1>4, <2>2, FinishType, StatusType, AtType
          DEF StartFails, RestoreFails, TypeOK, Statuses
<1>5. CASE RowGone(o) \/ RestoreDone(o)
  BY <1>5, FinishType, AbandonType DEF RowGone, RestoreDone, TypeOK
<1>6. CASE RestoreNext(o)
  <2> PICK c \in op[o].todo :
          IF row[c] = NoRow THEN Finish(o) /\ Abandon(o) /\ UNCHANGED row ELSE Starts(o, c)
    BY <1>6 DEF RestoreNext
  <2>0. c \in Deployments /\ op[o] # Idle
    BY <1>6 DEF TypeOK, OpType, RestoreNext, At, Idle
  <2>1. CASE Finish(o) /\ Abandon(o) /\ UNCHANGED row
    BY <1>6, <2>1, FinishType, AbandonType DEF RestoreNext, TypeOK
  <2>2. CASE /\ Status(c, "HEALTHY") /\ Note({"healthy"})
             /\ op' = [op EXCEPT ![o].cur = op[o].dep, ![o].todo = @ \ {c}]
    <3> PICK x \in OpType : x = op[o]
      BY OpIsTyped
    <3> PICK y : y = [x EXCEPT !.cur = x.dep, !.todo = @ \ {c}]
      OBVIOUS
    <3>1. y \in OpType
      BY DEF OpType
    <3>2. op' = [op EXCEPT ![o] = y]
      BY <2>2
    <3>3. op' \in [Operators -> OpType]
      BY <3>1, <3>2, GoesType
    <3>4. {"healthy"} \subseteq Events
      BY DEF Events
    <3> QED BY <1>6, <2>2, <3>3, <3>4, StatusType, NoteType DEF RestoreNext, TypeOK, Statuses
  <2>3. CASE /\ op' = [op EXCEPT ![o].at = "spawn", ![o].cur = c, ![o].todo = @ \ {c},
                             ![o].port = row[c].port, ![o].token = vault[c]]
             /\ UNCHANGED <<row, history>>
    <3>1. row[c].port \in Ports \cup {NoPort} /\ vault[c] \in Tokens
      BY <2>0 DEF TypeOK, RowType
    <3> PICK x \in OpType : x = op[o]
      BY OpIsTyped
    <3> PICK y : y = [x EXCEPT !.at = "spawn", !.cur = c, !.todo = @ \ {c},
                               !.port = row[c].port, !.token = vault[c]]
      OBVIOUS
    <3>2. y \in OpType
      BY <2>0, <3>1 DEF OpType
    <3>3. op' \in [Operators -> OpType]
      <4> op' = [op EXCEPT ![o] = y]
        BY <2>3
      <4> QED BY <3>2, GoesType
    <3> QED BY <1>6, <2>3, <3>3 DEF RestoreNext, TypeOK
  <2> QED BY <2>1, <2>2, <2>3 DEF Starts
<1>7. CASE StartBegins(o)
  <2>0. op[o].dep \in Deployments
    BY <1>7 DEF StartBegins, Named, Idle
  <2>1. CASE Finish(o) /\ UNCHANGED <<row, history>>
    BY <1>7, <2>1, FinishType DEF StartBegins, TypeOK
  <2>2. CASE Status(op[o].dep, "HEALTHY") /\ Finish(o) /\ Note({"healthy"})
    <3>1. {"healthy"} \subseteq Events
      BY DEF Events
    <3> QED BY <1>7, <2>2, <3>1, FinishType, StatusType, NoteType
            DEF StartBegins, TypeOK, Statuses
  <2>3. CASE /\ op' = [op EXCEPT ![o].at = "spawn", ![o].port = row[op[o].dep].port,
                                         ![o].token = vault[op[o].dep]]
             /\ UNCHANGED <<row, history>>
    <3>1. row[op[o].dep].port \in Ports \cup {NoPort} /\ vault[op[o].dep] \in Tokens
      BY <2>0 DEF TypeOK, RowType
    <3> PICK x \in OpType : x = op[o]
      BY OpIsTyped
    <3> PICK y : y = [x EXCEPT !.at = "spawn", !.port = row[op[o].dep].port,
                               !.token = vault[op[o].dep]]
      OBVIOUS
    <3>2. y \in OpType
      BY <3>1 DEF OpType
    <3>3. op' \in [Operators -> OpType]
      <4> op' = [op EXCEPT ![o] = y]
        BY <2>3
      <4> QED BY <3>2, GoesType
    <3> QED BY <1>7, <2>3, <3>3 DEF StartBegins, TypeOK
  <2> QED BY <1>7, <2>1, <2>2, <2>3 DEF StartBegins
<1>8. CASE RecordStopped(o)
  BY <1>8, FinishType, StatusType, AtType DEF RecordStopped, TypeOK, Statuses
<1>9. CASE RemoveRow(o)
  <2>1. row' \in [Deployments -> RowType]
    BY <1>9, Constants DEF RemoveRow, TypeOK
  <2> QED BY <1>9, <2>1, FinishType DEF RemoveRow, TypeOK
<1> QED BY <1>1, <1>2, <1>3, <1>4, <1>5, <1>6, <1>7, <1>8, <1>9

LEMMA OutsideTypes ==
  ASSUME TypeOK, Refresh \/ \E p \in Pids : Loads(p) \/ LoadFails(p) \/ Dies(p)
                                            \/ Hangs(p) \/ Recovers(p)
  PROVE  TypeOK'
<1>1. ASSUME NEW p \in Pids, Loads(p) \/ LoadFails(p) \/ Recovers(p)
      PROVE  TypeOK'
  <2>1. proc' \in [Pids -> ProcType]
    BY <1>1 DEF Loads, LoadFails, Recovers, TypeOK, ProcType
  <2> QED BY <1>1, <2>1 DEF Loads, LoadFails, Recovers, TypeOK
<1>2. ASSUME NEW p \in Pids, Dies(p) \/ Hangs(p)
      PROVE  TypeOK'
  <2>1. proc' \in [Pids -> ProcType]
    BY <1>2 DEF Dies, Hangs, TypeOK, ProcType
  <2>2. faults' \in 0 .. MaxFaults /\ history' \subseteq Events
    BY <1>2, LocalAssumption DEF Dies, Hangs, Fault, Note, TypeOK, Events
  <2> QED BY <1>2, <2>1, <2>2 DEF Dies, Hangs, TypeOK
<1>3. ASSUME NEW d \in Deployments, BeginCheck(d)
      PROVE  TypeOK'
  BY <1>3 DEF BeginCheck, Expected, TypeOK, Statuses
<1>4. CASE WriteCheck
  <2>1. row' \in [Deployments -> RowType]
    BY <1>4 DEF WriteCheck, Status, TypeOK, RowType
  <2>2. history' \subseteq Events
    BY <1>4 DEF WriteCheck, Note, TypeOK, Events
  <2>3. NoCheck \in [dep : Deployments \cup {None}, expected : Statuses \cup {None}]
    BY DEF NoCheck
  <2> QED BY <1>4, <2>1, <2>2, <2>3 DEF WriteCheck, TypeOK
<1> QED BY <1>1, <1>2, <1>3, <1>4 DEF Refresh

LEMMA TypesStep ==
  ASSUME TypeOK, Named, Next
  PROVE  TypeOK'
BY OperatorTypes, DeployTypes, StartTypes, OutsideTypes DEF Next, Step

\* A step of an operator is one of the operation it is in, and goes on with the
\* deployments that operation is about.
LEMMA StepMoves ==
  ASSUME TypeOK, NEW o \in Operators, Step(o)
  PROVE  /\ op[o] # Idle /\ \A p \in Operators \ {o} : op'[p] = op[p]
         /\ \/ op'[o] = Idle
            \/ /\ op'[o].dep = op[o].dep
               /\ op'[o].cur \in {op[o].dep, op[o].cur} \cup op[o].todo
<1> PICK x \in OpType : x = op[o]
  BY OpIsTyped
<1>0. Idle.at = "end" /\ Idle.kind = "idle" /\ op \in [Operators -> OpType]
  BY DEF Idle, TypeOK
<1> USE DEF At, GoTo, Finish, OpType
<1>1. CASE EnterDeploy(o)
  BY <1>0, <1>1 DEF EnterDeploy
<1>2. CASE PauseNext(o)
  BY <1>0, <1>2 DEF PauseNext
<1>3. CASE PauseRecorded(o)
  BY <1>0, <1>3 DEF PauseRecorded
<1>4. CASE DeployAbandoned(o)
  BY <1>0, <1>4 DEF DeployAbandoned
<1>5. CASE DeployRefused(o)
  BY <1>0, <1>5 DEF DeployRefused
<1>6. CASE DeployInstalls(o)
  BY <1>0, <1>6 DEF DeployInstalls
<1>7. CASE Spawn(o)
  BY <1>0, <1>7 DEF Spawn
<1>8. CASE RecordSpawn(o)
  BY <1>0, <1>8 DEF RecordSpawn, Restoring
<1>9. CASE Healthy(o)
  BY <1>0, <1>9 DEF Healthy, Restoring
<1>10. CASE AttachMetadata(o)
  BY <1>0, <1>10 DEF AttachMetadata
<1>11. CASE DeployFails(o)
  BY <1>0, <1>11 DEF DeployFails, Unanswered, Restoring
<1>12. CASE SpawnFails(o)
  BY <1>0, <1>12 DEF SpawnFails
<1>13. CASE StartFails(o)
  BY <1>0, <1>13 DEF StartFails, Unanswered
<1>14. CASE RestoreFails(o)
  BY <1>0, <1>14 DEF RestoreFails, Restoring, Unanswered
<1>15. CASE RowGone(o)
  BY <1>0, <1>15 DEF RowGone
<1>16. CASE RestoreNext(o)
  BY <1>0, <1>16 DEF RestoreNext, Starts
<1>17. CASE RestoreDone(o)
  BY <1>0, <1>17 DEF RestoreDone
<1>18. CASE StartBegins(o)
  BY <1>0, <1>18 DEF StartBegins
<1>19. CASE RecordStopped(o)
  BY <1>0, <1>19 DEF RecordStopped
<1>20. CASE RemoveRow(o)
  BY <1>0, <1>20 DEF RemoveRow
<1> QED BY <1>1, <1>2, <1>3, <1>4, <1>5, <1>6, <1>7, <1>8, <1>9, <1>10,
           <1>11, <1>12, <1>13, <1>14, <1>15, <1>16, <1>17, <1>18, <1>19, <1>20 DEF Step

\* The processes it changes are one it ends, or one it starts.
LEMMA StepProcesses ==
  ASSUME TypeOK, NEW o \in Operators, Step(o)
  PROVE  \A p \in Pids : proc'[p] = proc[p] \/ proc'[p].state \in {"dead", "loading"}
<1> USE DEF TypeOK, ProcType
<1>0. ASSUME NEW pid, Kill(pid)
      PROVE  \A p \in Pids : proc'[p] = proc[p] \/ proc'[p].state = "dead"
  BY <1>0 DEF Kill
<1>1. CASE PauseNext(o) \/ DeployFails(o) \/ SpawnFails(o)
  <2>1. UNCHANGED proc \/ \E pid : Kill(pid)
    BY <1>1 DEF PauseNext, DeployFails, SpawnFails
  <2> QED BY <1>0, <2>1
<1>2. CASE Spawn(o)
  BY <1>2 DEF Spawn
<1>3. ASSUME UNCHANGED proc
      PROVE  \A p \in Pids : proc'[p] = proc[p] \/ proc'[p].state \in {"dead", "loading"}
  BY <1>3
<1> QED BY <1>1, <1>2, <1>3 DEF Step, EnterDeploy, PauseRecorded, DeployAbandoned, DeployRefused,
   DeployInstalls, RecordSpawn, Healthy, AttachMetadata, StartFails, RestoreFails, RowGone,
   RestoreNext, RestoreDone, StartBegins, RecordStopped, RemoveRow

\* What begins is about a deployment there is.
LEMMA BeginMoves ==
  ASSUME TypeOK, NEW o \in Operators, NEW d \in Deployments,
         \/ BeginDeploy(o, d) \/ BeginStart(o, d)
         \/ \E kind \in {"stop", "remove"} : BeginStop(o, d, kind)
  PROVE  /\ \A p \in Operators \ {o} : op'[p] = op[p]
         /\ op'[o].dep = d /\ op'[o].cur = d /\ op'[o].pid = 0
         /\ \A p \in Pids : proc'[p] = proc[p] \/ proc'[p].state = "dead"
<1> PICK x \in OpType : x = Idle
  BY Constants
<1>0. op \in [Operators -> OpType] /\ proc \in [Pids -> ProcType] /\ x.pid = 0
  BY DEF TypeOK, Idle
<1>1. ASSUME BeginDeploy(o, d) \/ BeginStart(o, d) PROVE UNCHANGED proc
  BY <1>1 DEF BeginDeploy, BeginStart
<1>2. ASSUME NEW kind, BeginStop(o, d, kind)
      PROVE  \A p \in Pids : proc'[p] = proc[p] \/ proc'[p].state = "dead"
  BY <1>0, <1>2 DEF BeginStop, Kill, ProcType
<1>3. CASE BeginDeploy(o, d)
  BY <1>0, <1>1, <1>3 DEF BeginDeploy, Begin, OpType
<1>4. CASE BeginStart(o, d)
  BY <1>0, <1>1, <1>4 DEF BeginStart, Begin, OpType
<1>5. ASSUME NEW kind, BeginStop(o, d, kind)
      PROVE  /\ \A p \in Operators \ {o} : op'[p] = op[p]
             /\ op'[o].dep = d /\ op'[o].cur = d /\ op'[o].pid = 0
  BY <1>0, <1>5 DEF BeginStop, Begin, OpType
<1> QED BY <1>1, <1>2, <1>3, <1>4, <1>5

LEMMA NamedStep ==
  ASSUME TypeOK, Named, Next
  PROVE  Named'
<1>1. ASSUME NEW o \in Operators, Step(o) PROVE Named'
  <2>1. UNCHANGED check
    <3>1. EnterDeploy(o) \/ PauseNext(o) \/ PauseRecorded(o) \/ DeployAbandoned(o)
            \/ DeployRefused(o) \/ DeployInstalls(o) \/ AttachMetadata(o) => UNCHANGED check
      BY DEF EnterDeploy, PauseNext, PauseRecorded, DeployAbandoned, DeployRefused,
         DeployInstalls, AttachMetadata
    <3>2. Spawn(o) \/ RecordSpawn(o) \/ Healthy(o) \/ DeployFails(o) \/ SpawnFails(o)
            \/ StartFails(o) \/ RestoreFails(o) => UNCHANGED check
      BY DEF Spawn, RecordSpawn, Healthy, DeployFails, SpawnFails, StartFails, RestoreFails
    <3>3. RowGone(o) \/ RestoreNext(o) \/ RestoreDone(o) \/ StartBegins(o) \/ RecordStopped(o)
            \/ RemoveRow(o) => UNCHANGED check
      BY DEF RowGone, RestoreNext, RestoreDone, StartBegins, RecordStopped, RemoveRow
    <3> QED BY <1>1, <3>1, <3>2, <3>3 DEF Step
  <2>2. op[o] \in OpType
    BY OpIsTyped
  <2>3. op[o].todo \subseteq Deployments
    BY <2>2 DEF OpType
  <2>4. \A p \in Operators : op'[p] # Idle =>
          op'[p].dep \in Deployments /\ op'[p].cur \in Deployments
    <3> SUFFICES ASSUME NEW p \in Operators, op'[p] # Idle
                 PROVE  op'[p].dep \in Deployments /\ op'[p].cur \in Deployments
      OBVIOUS
    <3>1. op[o].dep \in Deployments /\ op[o].cur \in Deployments /\ (p # o => op'[p] = op[p])
      BY <1>1, StepMoves DEF Named
    <3>2. CASE p = o
      BY <1>1, <2>3, <3>1, <3>2, StepMoves
    <3> QED BY <3>1, <3>2 DEF Named
  <2> QED BY <2>1, <2>4 DEF Named
<1>2. ASSUME NEW o \in Operators, NEW d \in Deployments,
             \/ BeginDeploy(o, d) \/ BeginStart(o, d)
             \/ \E kind \in {"stop", "remove"} : BeginStop(o, d, kind)
      PROVE  Named'
  <2>1. UNCHANGED check
    BY <1>2 DEF BeginDeploy, BeginStart, BeginStop
  <2> QED BY <1>2, <2>1, BeginMoves DEF Named
<1>3. ASSUME NEW o \in Operators, OperatorDies(o) PROVE Named'
  BY <1>3 DEF OperatorDies, Finish, Named, TypeOK
<1>4. CASE Refresh
  BY <1>4 DEF Refresh, WriteCheck, BeginCheck, Named, NoCheck, Expected, Reconciled
<1>5. ASSUME NEW p \in Pids, Loads(p) \/ LoadFails(p) \/ Dies(p) \/ Hangs(p) \/ Recovers(p)
      PROVE  Named'
  BY <1>5 DEF Loads, LoadFails, Dies, Hangs, Recovers, Named
<1> QED BY <1>1, <1>2, <1>3, <1>4, <1>5 DEF Next

\* A process that loads takes a port only if it is free.
LEMMA PortsStep ==
  ASSUME TypeOK, PortsApart, Next
  PROVE  PortsApart'
<1>1. ASSUME \A p \in Pids : proc'[p] = proc[p] \/ proc'[p].state \in {"dead", "loading"}
      PROVE  PortsApart'
  BY <1>1 DEF PortsApart, Holds
<1>2. ASSUME NEW p \in Pids, Loads(p) \/ LoadFails(p) \/ Dies(p) \/ Hangs(p) \/ Recovers(p)
      PROVE  PortsApart'
  BY <1>2 DEF Loads, LoadFails, Dies, Hangs, Recovers, Serving, PortsApart, Holds, TypeOK, ProcType
<1>3. ASSUME UNCHANGED proc PROVE PortsApart'
  BY <1>3 DEF PortsApart, Holds
<1> QED BY <1>1, <1>2, <1>3, StepProcesses, BeginMoves
        DEF Next, Refresh, OperatorDies, WriteCheck, BeginCheck

\* A row is given the pid of the process its operation has started, or none.
LEMMA RowPids ==
  ASSUME TypeOK, Next
  PROVE  \A d \in Deployments :
           row'[d].pid \in {0, row[d].pid} \cup {op[o].pid : o \in Operators}
<1> DEFINE Kept(d) == row'[d].pid \in {0, row[d].pid} \cup {op[o].pid : o \in Operators}
<1> SUFFICES ASSUME NEW d \in Deployments PROVE Kept(d)
  OBVIOUS
<1>0. row \in [Deployments -> RowType] /\ NoRow.pid = 0
  BY DEF TypeOK, NoRow
<1>1. ASSUME UNCHANGED row PROVE Kept(d)
  BY <1>1
<1>2. ASSUME NEW e, NEW s, Status(e, s) PROVE Kept(d)
  BY <1>0, <1>2 DEF Status, RowType
<1>3. ASSUME NEW o \in Operators, RecordSpawn(o) PROVE Kept(d)
  BY <1>0, <1>1, <1>3 DEF RecordSpawn, RowType
<1>4. ASSUME NEW o \in Operators, AttachMetadata(o) PROVE Kept(d)
  BY <1>0, <1>4 DEF AttachMetadata, RowType
<1>5. ASSUME NEW o \in Operators, DeployInstalls(o) PROVE Kept(d)
  BY <1>0, <1>5 DEF DeployInstalls, RowType
<1>6. ASSUME NEW o \in Operators, RemoveRow(o) PROVE Kept(d)
  <2>1. CASE row' = [row EXCEPT ![op[o].dep] = NoRow]
    BY <1>0, <2>1
  <2> QED BY <1>1, <1>6, <2>1 DEF RemoveRow
<1> HIDE DEF Kept
<1>7. ASSUME NEW o \in Operators, Step(o) PROVE Kept(d)
  <2>1. CASE PauseNext(o) \/ PauseRecorded(o) \/ Healthy(o)
    BY <1>1, <1>2, <2>1 DEF PauseNext, PauseRecorded, Healthy
  <2>2. CASE DeployFails(o) \/ SpawnFails(o) \/ RestoreFails(o)
    BY <1>1, <1>2, <2>2 DEF DeployFails, SpawnFails, RestoreFails
  <2>3. CASE RestoreNext(o) \/ StartBegins(o) \/ RecordStopped(o)
    BY <1>1, <1>2, <2>3 DEF RestoreNext, Starts, StartBegins, RecordStopped
  <2>4. CASE UNCHANGED row
    BY <1>1, <2>4
  <2>5. CASE RecordSpawn(o) \/ AttachMetadata(o) \/ DeployInstalls(o) \/ RemoveRow(o)
    BY <1>3, <1>4, <1>5, <1>6, <2>5
  <2> QED BY <1>7, <2>1, <2>2, <2>3, <2>4, <2>5
          DEF Step, EnterDeploy, DeployAbandoned, DeployRefused, Spawn, StartFails, RowGone,
              RestoreDone
<1>8. CASE Refresh
  BY <1>1, <1>2, <1>8 DEF Refresh, WriteCheck, BeginCheck
<1>9. ASSUME NEW o \in Operators, NEW e \in Deployments,
             \/ BeginDeploy(o, e) \/ BeginStart(o, e)
             \/ \E kind \in {"stop", "remove"} : BeginStop(o, e, kind)
      PROVE  Kept(d)
  BY <1>1, <1>9 DEF BeginDeploy, BeginStart, BeginStop
<1>10. ASSUME NEW o \in Operators, OperatorDies(o) PROVE Kept(d)
  BY <1>1, <1>10 DEF OperatorDies
<1>11. ASSUME NEW p \in Pids, Loads(p) \/ LoadFails(p) \/ Dies(p) \/ Hangs(p) \/ Recovers(p)
      PROVE  Kept(d)
  BY <1>1, <1>11 DEF Loads, LoadFails, Dies, Hangs, Recovers
<1> QED BY <1>7, <1>8, <1>9, <1>10, <1>11 DEF Next

LEMMA OpPids ==
  ASSUME TypeOK, NEW o \in Operators, Step(o)
  PROVE  op'[o].pid \in {0, op[o].pid} \/ proc'[op'[o].pid].state # "unused"
<1> PICK x \in OpType : x = op[o]
  BY OpIsTyped
<1>0. Idle.pid = 0 /\ op \in [Operators -> OpType] /\ proc \in [Pids -> ProcType]
  BY DEF Idle, TypeOK
<1> USE DEF GoTo, Finish, OpType
<1>1. ASSUME Finish(o) PROVE op'[o].pid = 0
  BY <1>0, <1>1
<1>2. ASSUME NEW at, GoTo(o, at) PROVE op'[o].pid = op[o].pid
  BY <1>0, <1>2
<1>4. CASE EnterDeploy(o)
  BY <1>0, <1>1, <1>4 DEF EnterDeploy
<1>5. CASE PauseNext(o)
  BY <1>0, <1>1, <1>5 DEF PauseNext
<1>6. CASE PauseRecorded(o)
  BY <1>0, <1>1, <1>6 DEF PauseRecorded
<1>7. CASE DeployRefused(o) \/ DeployInstalls(o)
  BY <1>0, <1>7 DEF DeployRefused, DeployInstalls
<1>8. CASE Spawn(o)
  <2> PICK p \in Pids :
        /\ proc' = [proc EXCEPT ![p] = [dep |-> op[o].cur, port |-> op[o].port,
                                        token |-> op[o].token, state |-> "loading"]]
        /\ op' = [op EXCEPT ![o].at = "record", ![o].pid = p]
    BY <1>8 DEF Spawn
  <2>1. op'[o].pid = p
    BY <1>0
  <2>2. proc'[p].state = "loading"
    BY <1>0
  <2> QED BY <2>1, <2>2
<1>9. CASE RecordSpawn(o)
  BY <1>1, <1>2, <1>9 DEF RecordSpawn
<1>10. CASE Healthy(o)
  BY <1>1, <1>2, <1>10 DEF Healthy
<1>11. CASE DeployFails(o)
  BY <1>0, <1>11 DEF DeployFails
<1>12. CASE SpawnFails(o)
  BY <1>0, <1>1, <1>12 DEF SpawnFails
<1>13. CASE RestoreFails(o)
  BY <1>2, <1>13 DEF RestoreFails
<1>14. CASE RestoreNext(o)
  BY <1>0, <1>1, <1>14 DEF RestoreNext, Starts
<1>15. CASE StartBegins(o)
  BY <1>0, <1>1, <1>15 DEF StartBegins
<1>16. CASE RecordStopped(o)
  BY <1>1, <1>2, <1>16 DEF RecordStopped
<1> QED BY <1>1, <1>4, <1>5, <1>6, <1>7, <1>8, <1>9, <1>10, <1>11, <1>12, <1>13, <1>14, <1>15,
           <1>16 DEF Step, DeployAbandoned, AttachMetadata, StartFails, RowGone, RestoreDone,
           RemoveRow

LEMMA SpentStep ==
  ASSUME TypeOK, PidsSpent, Next
  PROVE  PidsSpent'
<1>1. \A p \in Pids : proc[p].state # "unused" => proc'[p].state # "unused"
  <2>1. ASSUME \A p \in Pids : proc'[p] = proc[p] \/ proc'[p].state \in {"dead", "loading"}
        PROVE  \A p \in Pids : proc[p].state # "unused" => proc'[p].state # "unused"
    BY <2>1
  <2>2. ASSUME NEW p \in Pids, Loads(p) \/ LoadFails(p) \/ Dies(p) \/ Hangs(p) \/ Recovers(p)
        PROVE  \A q \in Pids : proc[q].state # "unused" => proc'[q].state # "unused"
    BY <2>2 DEF Loads, LoadFails, Dies, Hangs, Recovers, TypeOK, ProcType
  <2> QED BY <2>1, <2>2, StepProcesses, BeginMoves
          DEF Next, Refresh, OperatorDies, WriteCheck, BeginCheck
<1> DEFINE Later(pid) == pid \in Pids => proc'[pid].state # "unused"
<1>2. 0 \notin Pids
  BY DEF Pids
<1>3. \A d \in Deployments : Later(row'[d].pid)
  BY <1>1, <1>2, RowPids DEF PidsSpent, Spent
<1>4. \A o \in Operators : Later(op'[o].pid)
  <2>1. \A o \in Operators : op'[o].pid \in {0, op[o].pid} => Later(op'[o].pid)
    BY <1>1, <1>2 DEF PidsSpent, Spent
  <2>2. ASSUME NEW o \in Operators, Step(o)
        PROVE  \A p \in Operators : Later(op'[p].pid)
    <3>1. \A p \in Operators \ {o} : op'[p] = op[p]
      BY <2>2, StepMoves
    <3>2. op'[o].pid \in {0, op[o].pid} \/ proc'[op'[o].pid].state # "unused"
      BY <2>2, OpPids
    <3> QED BY <2>1, <3>1, <3>2
  <2>3. ASSUME NEW o \in Operators, NEW d \in Deployments,
               \/ BeginDeploy(o, d) \/ BeginStart(o, d)
               \/ \E kind \in {"stop", "remove"} : BeginStop(o, d, kind)
        PROVE  \A p \in Operators : Later(op'[p].pid)
    <3>1. (\A p \in Operators \ {o} : op'[p] = op[p]) /\ op'[o].pid = 0
      BY <2>3, BeginMoves
    <3> QED BY <2>1, <3>1
  <2>4. ASSUME NEW o \in Operators, OperatorDies(o)
        PROVE  \A p \in Operators : Later(op'[p].pid)
    <3>1. Idle.pid = 0
      BY DEF Idle
    <3>2. \A p \in Operators : op'[p] \in {Idle, op[p]}
      BY <2>4 DEF OperatorDies, Finish, TypeOK
    <3> QED BY <2>1, <3>1, <3>2
  <2>5. ASSUME UNCHANGED op
        PROVE  \A p \in Operators : Later(op'[p].pid)
    BY <2>1, <2>5
  <2> HIDE DEF Later
  <2> QED BY <2>2, <2>3, <2>4, <2>5 DEF Next, Refresh, WriteCheck, BeginCheck, Loads, LoadFails,
             Dies, Hangs, Recovers
<1> QED BY <1>3, <1>4 DEF PidsSpent, Spent

LEMMA BaseStep == Base /\ [Next]_vars => Base'
<1>1. ASSUME Base, UNCHANGED vars PROVE Base'
  BY <1>1 DEF Base, vars, TypeOK, Named, PortsApart, Holds, PidsSpent, Spent
<1> QED BY <1>1, TypesStep, NamedStep, PortsStep, SpentStep DEF Base

\* The state has its types, for any number of deployments, operators and processes.
THEOREM LocalTypes == Spec => []TypeOK
<1>1. Base => TypeOK
  BY DEF Base
<1> QED BY <1>1, BaseStart, BaseStep, PTL DEF Spec

-----------------------------------------------------------------------------
(* One operation at a time.                                                 *)

\* The operation under way.
OneAtATime == \A o, p \in Busy : o = p
Current == IF Quiet THEN Idle ELSE op[CHOOSE o \in Operators : o \in Busy]

Deploying == {"enter", "pause", "paused", "spawn", "record", "wait", "attach", "restore"}
Starting == {"spawn", "record", "wait"}
\* A deploy that starts again what it paused.
Back(x) ==
  x.kind = "deploy" /\ (x.at = "restore" \/ (x.at \in Starting /\ x.cur # x.dep))
Forth(x) == x.kind = "deploy" /\ x.at \in Starting /\ x.cur = x.dep
Pausing(x) == x.kind = "deploy" /\ x.at \in {"pause", "paused"}

Placed(x) ==
  /\ x.kind = "idle" => x = Idle
  /\ x.kind = "deploy" => x.at \in Deploying
  /\ x.kind = "start" => x.at \in Starting \cup {"begin"}
  /\ x.kind = "stop" => x.at = "stop"
  /\ x.kind = "remove" => x.at \in {"stop", "remove"}
  /\ x.kind \notin {"deploy", "idle"} => x.paused = {}
  /\ x.kind # "deploy" \/ x.at \in {"enter", "pause", "attach"} => x.cur = x.dep
  /\ x.at = "paused" => x.cur # x.dep
  /\ x.at = "enter" => x.todo = {} /\ x.paused = {}
  /\ Pausing(x) => x.dep \notin x.todo
  /\ x.kind = "deploy" => x.dep \notin x.paused
  /\ Back(x) => x.todo \subseteq x.paused
  /\ Back(x) /\ x.at # "restore" => x.cur \in x.paused \ x.todo

TokensTell(x) ==
  /\ \A d \in Deployments : vault[d] <= ops
  /\ \A d, e \in Deployments : vault[d] # 0 /\ vault[d] = vault[e] => d = e
  /\ \A d \in Deployments : row[d] # NoRow => vault[d] # 0
  /\ x.kind = "deploy" /\ x.at \in {"enter", "pause", "paused"} =>
       x.token = ops /\ ops # 0 /\ \A d \in Deployments : vault[d] # ops
  /\ x.at \in Starting => x.token = vault[x.cur]

HasRows(x) ==
  /\ x.kind # "idle" /\ ~(x.kind = "deploy" /\ x.at \in {"enter", "pause", "restore"}) =>
       row[x.cur] # NoRow
  /\ \A d \in x.todo \cup x.paused : row[d] # NoRow
  /\ x.at \in Starting => x.port = row[x.cur].port

Runs(d) == Live(row[d].pid)
Says(d) == row[d].status = "HEALTHY"
Good(d) ==
  /\ Says(d) /\ Serving(row[d].pid)
  /\ proc[row[d].pid].port = row[d].port /\ proc[row[d].pid].token = vault[d]

\* Every live process is recorded, or about to be.
Recorded(x) ==
  /\ \A p \in Pids : proc[p].state # "hung"
  /\ \A p \in Pids : Live(p) =>
       /\ proc[p].dep \in Deployments
       /\ \/ row[proc[p].dep].pid = p
          \/ x.at = "record" /\ p = x.pid /\ proc[p].dep = x.cur
  /\ \A d \in Deployments : Runs(d) =>
       proc[row[d].pid].dep = d /\ (Good(d) \/ (x.at = "wait" /\ d = x.cur))
  /\ x.at \in {"record", "wait"} =>
       /\ x.pid \in Pids
       /\ proc[x.pid].dep = x.cur /\ proc[x.pid].port = x.port /\ proc[x.pid].token = x.token
  /\ x.at = "wait" => row[x.cur].pid = x.pid /\ row[x.cur].status = "STARTING"
  /\ x.at = "attach" => row[x.dep].pid = x.pid /\ row[x.dep].port = x.port
  /\ x.kind \in {"stop", "remove"} \/ x.at \in {"paused", "spawn", "record"} => ~Runs(x.cur)
  /\ x.at = "remove" => ~Says(x.cur)

\* In a deploy, what runs and what is said to.
Staged(x) ==
  /\ x.kind = "deploy" /\ x.at \in {"enter", "pause", "paused"} => ~Runs(x.dep)
  /\ x.kind = "deploy" /\ x.at = "enter" => ~Says(x.dep)
  /\ Pausing(x) => \A d \in Deployments :
       /\ Says(d) => d \in x.todo \/ (x.at = "paused" /\ d = x.cur)
       /\ Runs(d) => d \in x.todo
  /\ Forth(x) => \A d \in Deployments : ~Says(d) /\ (Runs(d) => d = x.dep)
  /\ x.at = "attach" => \A d \in Deployments : Says(d) \/ Runs(d) => d = x.dep
  /\ Back(x) => \A d \in Deployments :
       /\ Says(d) => d \in x.paused \ x.todo /\ (x.at # "restore" => d # x.cur)
       /\ Runs(d) => d \in x.paused \ x.todo

InTurn(x) == x.todo \cup x.paused \cup (IF x.at = "paused" THEN {x.cur} ELSE {})
\* As long as nothing was started by hand.
Few(x) ==
  /\ x.kind # "start"
  /\ IF x.kind = "deploy" /\ x.at # "enter" THEN \A d, e \in InTurn(x) : d = e
     ELSE \A d, e \in Deployments : Says(d) /\ Says(e) => d = e

\* As long as no process died.
Serves(x) ==
  /\ \A d \in Deployments : Says(d) =>
       Runs(d) \/ (x.at \in {"paused", "stop"} /\ d = x.cur)
  /\ x.kind = "deploy" /\ x.at # "enter" =>
       \A d, e \in InTurn(x) : row[d].port = row[e].port => d = e
  /\ Back(x) =>
       /\ \A d \in x.paused \ x.todo :
            (Says(d) /\ Runs(d)) \/ (x.at \in Starting /\ d = x.cur)
       /\ x.at \in {"record", "wait"} => Live(x.pid)
  /\ x.at = "attach" => Says(x.dep)

SomeServes == \E d \in Deployments : Says(d) /\ Runs(d)
Returns(x) ==
  /\ x.kind \notin {"stop", "remove"}
  /\ x.kind \in {"idle", "start"} \/ x.at \in {"enter", "attach"} => SomeServes
  /\ Pausing(x) => SomeServes \/ InTurn(x) # {}
  /\ Forth(x) \/ Back(x) => x.paused # {}

Agrees(x) ==
  /\ Placed(x) /\ TokensTell(x) /\ HasRows(x)
  /\ Unlike({"crash", "slow", "late"}) => Recorded(x) /\ Staged(x)
  /\ Unlike({"crash", "slow", "late", "started"}) => Few(x)
  /\ Unlike({"crash", "slow", "late", "fault"}) => Serves(x)
  /\ Unlike({"crash", "slow", "late", "fault", "stopped", "abandoned"}) /\ "healthy" \in history
       => Returns(x)

Alone == Unlike({"overlap"})
AgreeState == OneAtATime /\ Agrees(Current)
AgreeInv == Alone => AgreeState

\* Each step is proved from the state before it.
AgreeNow == Base /\ AgreeState

LEMMA CurrentIs ==
  ASSUME OneAtATime, NEW o \in Operators, op[o] # Idle
  PROVE  Current = op[o]
<1>1. o \in Busy /\ \A p \in Operators : p \in Busy => p = o
  BY DEF OneAtATime, Busy
<1>2. (CHOOSE p \in Operators : p \in Busy) = o
  BY <1>1
<1> QED BY <1>1, <1>2 DEF Current, Quiet

\* The operation under way moves on, ends or begins: what remains to be shown is
\* that it agrees itself.
LEMMA AgreeOps ==
  ASSUME AgreeNow, NEW o \in Operators, op[o] # Idle \/ Quiet, NEW y,
         op' = [op EXCEPT ![o] = y], Agrees(y)'
  PROVE  AgreeState'
<1>1. /\ op \in [Operators -> OpType]
      /\ \A p \in Operators \ {o} : op[p] = Idle
  BY DEF AgreeNow, AgreeState, Base, OneAtATime, Busy, Quiet, TypeOK
<1>2. op'[o] = y /\ \A p \in Operators \ {o} : op'[p] = Idle
  BY <1>1
<1>3. OneAtATime'
  BY <1>2 DEF OneAtATime, Busy
<1>4. Current' = y
  <2>1. CASE y = Idle
    <3>1. Quiet'
      BY <1>2, <2>1 DEF Quiet, Busy
    <3> QED BY <2>1, <3>1 DEF Current
  <2>2. CASE y # Idle
    <3>1. o \in Busy' /\ \A p \in Operators : p \in Busy' => p = o
      BY <1>2, <2>2 DEF Busy
    <3>2. (CHOOSE p \in Operators : p \in Busy') = o
      BY <3>1
    <3> QED BY <1>2, <3>1, <3>2 DEF Current, Quiet
  <2> QED BY <2>1, <2>2
<1> QED BY <1>3, <1>4 DEF AgreeState, Agrees, Placed, TokensTell, HasRows, Recorded, Good,
    Staged, Few, Serves, Returns, SomeServes, Says, Runs

\* What is known of the operation under way.
LEMMA UnderWay ==
  ASSUME AgreeNow, NEW o \in Operators, op[o] # Idle
  PROVE  /\ Agrees(op[o]) /\ op[o] \in OpType /\ op[o].kind # "idle"
         /\ op[o].dep \in Deployments /\ op[o].cur \in Deployments
         /\ op[o].todo \subseteq Deployments /\ op[o].paused \subseteq Deployments
         /\ op[o].kind \in {"idle", "deploy", "start", "stop", "remove"}
<1>1. Agrees(op[o])
  BY CurrentIs DEF AgreeNow, AgreeState
<1>2. op[o] \in OpType /\ op[o].kind # "idle"
  BY <1>1 DEF AgreeNow, Base, TypeOK, Agrees, Placed
<1> QED BY <1>1, <1>2 DEF AgreeNow, Base, Named, OpType

LEMMA Typed ==
  ASSUME AgreeNow
  PROVE  /\ row \in [Deployments -> RowType] /\ vault \in [Deployments -> Tokens]
         /\ proc \in [Pids -> ProcType] /\ op \in [Operators -> OpType]
         /\ history \subseteq Events /\ ops \in Nat
         /\ \A d \in Deployments : vault[d] \in Nat
BY Constants DEF AgreeNow, Base, TypeOK, Tokens

LEMMA IdleIs ==
  /\ Idle.kind = "idle" /\ Idle.at = "end" /\ Idle.todo = {} /\ Idle.paused = {}
  /\ Idle.dep = None /\ Idle.cur = None
  /\ Placed(Idle)
BY DEF Idle, Placed, Pausing, Back, Starting

\* What has happened is not forgotten.
LEMMA Remembers ==
  ASSUME NEW E, Note(E)
  PROVE  /\ history' = history \cup E
         /\ \A S : Unlike(S)' => Unlike(S)
         /\ \A S : E \cap S # {} => ~Unlike(S)'
BY DEF Note, Unlike

\* A status is set.
LEMMA StatusSets ==
  ASSUME row \in [Deployments -> RowType], NEW d \in Deployments, NEW s \in Statuses, Status(d, s)
  PROVE  /\ row' \in [Deployments -> RowType]
         /\ \A e \in Deployments : /\ row'[e].pid = row[e].pid
                                   /\ row'[e].port = row[e].port
                                   /\ e # d => row'[e] = row[e]
                                   /\ row[e] # NoRow => row'[e] # NoRow
         /\ row'[d].status = s /\ row'[d] # NoRow
BY DEF Status, RowType, NoRow, Statuses, None

\* A process is ended: nothing else runs or stops running.
LEMMA KillEnds ==
  ASSUME proc \in [Pids -> ProcType], NEW pid, Kill(pid)
  PROVE  /\ \A p \in Pids : /\ proc'[p].dep = proc[p].dep /\ proc'[p].port = proc[p].port
                            /\ proc'[p].token = proc[p].token
                            /\ p # pid => proc'[p] = proc[p]
                            /\ proc'[p].state # proc[p].state => proc'[p].state = "dead"
         /\ \A p : Live(p)' <=> Live(p) /\ p # pid
BY DEF Kill, Live, ProcType

\* The operation ends, and what is stored and runs stays as it is.
LEMMA AgreeEnds ==
  ASSUME AgreeNow, NEW o \in Operators, op[o] # Idle, Finish(o),
         UNCHANGED <<vault, ops>>, TokensTell(Idle)',
         Unlike({"crash", "slow", "late"})' => Recorded(Idle)',
         Unlike({"crash", "slow", "late", "started"})' => Few(Idle)',
         Unlike({"crash", "slow", "late", "fault"})' => Serves(Idle)',
         Unlike({"crash", "slow", "late", "fault", "stopped", "abandoned"})'
             /\ "healthy" \in history' => Returns(Idle)'
  PROVE  AgreeState'
<1>1. HasRows(Idle)' /\ Placed(Idle) /\ Staged(Idle)'
  BY IdleIs DEF HasRows, Staged, Pausing, Forth, Back, Starting
<1>2. Placed(Idle)'
  BY <1>1 DEF Placed, Pausing, Back, Starting
<1>3. Agrees(Idle)'
  BY <1>1, <1>2 DEF Agrees
<1> QED BY <1>3, AgreeOps DEF Finish

\* An operation that ends without a change.
LEMMA EndsStill ==
  ASSUME AgreeNow, NEW o \in Operators, op[o] # Idle, Finish(o),
         UNCHANGED <<row, vault, proc, ops>>, NEW E, Note(E), "healthy" \notin E,
         \/ op[o].at \in {"enter", "remove"}
         \/ op[o].at = "pause" /\ op[o].todo = {}
              /\ (op[o].paused # {} => "abandoned" \in E)
         \/ op[o].kind = "deploy" /\ op[o].at = "restore" /\ op[o].todo = {}
         \/ op[o].kind = "start" /\ op[o].at = "wait" /\ (Live(op[o].pid) => "slow" \in E)
         \/ "crash" \in E
  PROVE  AgreeState'
<1> PICK x \in OpType : x = op[o]
  BY Typed
<1>1. /\ Agrees(x) /\ x.kind # "idle" /\ x.cur \in Deployments
      /\ Placed(x) /\ TokensTell(x)
      /\ x.kind \in {"idle", "deploy", "start", "stop", "remove"}
      /\ x.todo \subseteq Deployments /\ x.paused \subseteq Deployments
  BY UnderWay DEF Agrees, OpType
<1>2. /\ \A S : (Unlike(S)' => Unlike(S)) /\ (E \cap S # {} => ~Unlike(S)')
      /\ history' = history \cup E
  BY Remembers
<1>3. TokensTell(Idle)'
  BY <1>1, IdleIs DEF TokensTell, Starting
<1>4. "crash" \notin E => x.at # "record"
  BY <1>1 DEF Placed
<1>5. Unlike({"crash", "slow", "late"})' => Recorded(Idle)'
  <2> SUFFICES ASSUME Unlike({"crash", "slow", "late"})' PROVE Recorded(Idle)'
    OBVIOUS
  <2>1. Recorded(x) /\ x.at # "record" /\ (x.at = "wait" => ~Live(x.pid))
    BY <1>1, <1>2, <1>4 DEF Agrees
  <2> QED BY <2>1, IdleIs DEF Recorded, Good, Runs, Says, Live, Serving
<1>6. Unlike({"crash", "slow", "late", "started"})' => Few(Idle)'
  <2> SUFFICES ASSUME Unlike({"crash", "slow", "late", "started"})' PROVE Few(Idle)'
    OBVIOUS
  <2>1. /\ Few(x) /\ Staged(x) /\ "crash" \notin E
        /\ Unlike({"crash", "slow", "late"})
    BY <1>1, <1>2 DEF Agrees, Unlike
  <2> QED BY <1>1, <2>1, IdleIs DEF Few, Staged, Placed, Pausing, Back, Says, InTurn, Deploying
<1>7. Unlike({"crash", "slow", "late", "fault"})' => Serves(Idle)'
  <2> SUFFICES ASSUME Unlike({"crash", "slow", "late", "fault"})' PROVE Serves(Idle)'
    OBVIOUS
  <2>1. /\ Serves(x) /\ Staged(x) /\ "crash" \notin E
    BY <1>1, <1>2 DEF Agrees, Unlike
  <2> QED BY <1>1, <2>1, IdleIs DEF Serves, Staged, Placed, Pausing, Back, Says, Runs, Live
<1>8. Unlike({"crash", "slow", "late", "fault", "stopped", "abandoned"})'
         /\ "healthy" \in history' => Returns(Idle)'
  <2> SUFFICES ASSUME Unlike({"crash", "slow", "late", "fault", "stopped", "abandoned"})',
                      "healthy" \in history'
               PROVE  Returns(Idle)'
    OBVIOUS
  <2>1. /\ Serves(x) /\ Staged(x) /\ "crash" \notin E
        /\ Returns(x) /\ (x.at = "pause" => x.paused = {})
    BY <1>1, <1>2 DEF Agrees, Unlike, Placed, Starting
  <2>2. SomeServes
    <3>1. CASE x.at = "restore"
      BY <1>1, <2>1, <3>1 DEF Returns, Serves, SomeServes, Placed, Back, Starting
    <3>2. CASE x.at = "pause"
      BY <1>1, <2>1, <3>2 DEF Returns, SomeServes, Placed, Pausing, InTurn, Starting
    <3> QED BY <1>1, <2>1, <3>1, <3>2 DEF Returns, Placed, Starting, Deploying
  <2> QED BY <2>2, IdleIs DEF Returns, SomeServes, Pausing, Forth, Back, Says, Runs, Live
<1> QED BY <1>3, <1>5, <1>6, <1>7, <1>8, AgreeEnds

LEMMA EndingsAgree ==
  ASSUME AgreeNow, NEW o \in Operators,
         \/ EnterDeploy(o) /\ Finish(o)
         \/ RemoveRow(o) /\ UNCHANGED row
         \/ DeployAbandoned(o) \/ RestoreDone(o) \/ StartFails(o) \/ OperatorDies(o)
  PROVE  AgreeState'
<1>0. \A at : At(o, at) /\ at # "end" => op[o] # Idle
  BY IdleIs DEF At
<1>1. CASE EnterDeploy(o) /\ Finish(o)
  <2>1. Note({})
    BY <1>1 DEF EnterDeploy, Note
  <2> QED BY <1>0, <1>1, <2>1, EndsStill DEF EnterDeploy, At
<1>2. CASE RemoveRow(o) /\ UNCHANGED row
  <2>1. Note({})
    BY <1>2 DEF RemoveRow, Note
  <2> QED BY <1>0, <1>2, <2>1, EndsStill DEF RemoveRow, At
<1>3. CASE DeployAbandoned(o)
  <2> PICK E : E = IF op[o].paused = {} THEN {} ELSE {"abandoned"}
    OBVIOUS
  <2>1. Note(E) /\ "healthy" \notin E /\ (op[o].paused # {} => "abandoned" \in E)
    BY <1>3 DEF DeployAbandoned, Abandon
  <2> QED BY <1>0, <1>3, <2>1, EndsStill DEF DeployAbandoned, At
<1>4. CASE RestoreDone(o)
  <2>1. Note({})
    BY <1>4 DEF RestoreDone, Note
  <2>2. op[o].kind = "deploy"
    BY <1>0, <1>4, UnderWay DEF RestoreDone, At, Agrees, Placed, Starting
  <2> QED BY <1>0, <1>4, <2>1, <2>2, EndsStill DEF RestoreDone, At
<1>5. CASE StartFails(o)
  <2> PICK E \in SUBSET {"slow"} : Unanswered(o, E) /\ Note(E)
    BY <1>5 DEF StartFails
  <2>1. /\ "healthy" \notin E /\ (Live(op[o].pid) => "slow" \in E)
    BY DEF Unanswered
  <2> QED BY <1>0, <1>5, <2>1, EndsStill DEF StartFails, Unanswered, At
<1>6. CASE OperatorDies(o)
  <2>1. Note({"crash"})
    BY <1>6 DEF OperatorDies, Fault
  <2> QED BY <1>6, <2>1, EndsStill DEF OperatorDies
<1> QED BY <1>1, <1>2, <1>3, <1>4, <1>5, <1>6

\* An operation that begins alone finds nothing under way.
LEMMA BeginsAlone ==
  ASSUME AgreeNow, Alone', NEW o \in Operators, NEW y, NEW E, Begin(o, y, E)
  PROVE  /\ Quiet /\ Agrees(Idle) /\ op[o] = Idle /\ ops' = ops + 1
         /\ op' = [op EXCEPT ![o] = y]
         /\ history' = history \cup E
         /\ \A S : (Unlike(S)' => Unlike(S)) /\ (E \cap S # {} => ~Unlike(S)')
BY DEF AgreeNow, AgreeState, Alone, Unlike, Begin, Note, Quiet, Current

LEMMA BeginDeployAgrees ==
  ASSUME AgreeNow, Alone', NEW o \in Operators, NEW d \in Deployments, BeginDeploy(o, d)
  PROVE  AgreeState'
<1> PICK x \in OpType : x = Idle
  BY Constants
<1> PICK y : y = [x EXCEPT !.kind = "deploy", !.at = "enter", !.dep = d, !.cur = d,
                           !.token = ops + 1]
  OBVIOUS
<1>1. /\ Quiet /\ Agrees(Idle) /\ op' = [op EXCEPT ![o] = y] /\ ops' = ops + 1
      /\ history' = history \cup {} /\ (\A S : Unlike(S)' => Unlike(S))
      /\ UNCHANGED <<row, vault, proc>> /\ row[d].status # "HEALTHY"
  <2>1. Begin(o, y, {})
    BY DEF BeginDeploy
  <2> QED BY <2>1, BeginsAlone DEF BeginDeploy
<1>2. /\ y.kind = "deploy" /\ y.at = "enter" /\ y.dep = d /\ y.cur = d /\ y.token = ops + 1
      /\ y.todo = {} /\ y.paused = {}
  BY IdleIs DEF OpType
<1>3. Placed(y)' /\ HasRows(y)'
  BY <1>2 DEF Placed, HasRows, Deploying, Pausing, Back, Starting
<1>4. TokensTell(y)'
  BY <1>1, <1>2, IdleIs, Typed DEF Agrees, TokensTell, Starting
<1>5. Unlike({"crash", "slow", "late"})' => Recorded(y)' /\ Staged(y)'
  <2> SUFFICES ASSUME Unlike({"crash", "slow", "late"}) PROVE Recorded(y)' /\ Staged(y)'
    BY <1>1
  <2>1. Recorded(Idle)
    BY <1>1 DEF Agrees
  <2>2. ~Runs(d)
    BY <1>1, <2>1, IdleIs DEF Recorded, Good, Says
  <2>3. Recorded(y)'
    BY <1>1, <1>2, <2>1, IdleIs DEF Recorded, Good, Says, Runs, Live, Serving
  <2> QED BY <1>1, <1>2, <2>2, <2>3
          DEF Staged, Pausing, Forth, Back, Starting, Runs, Live, Says
<1>6. Unlike({"crash", "slow", "late", "started"})' => Few(y)'
  BY <1>1, <1>2, IdleIs DEF Agrees, Few, Says
<1>7. Unlike({"crash", "slow", "late", "fault"})' => Serves(y)'
  BY <1>1, <1>2, IdleIs DEF Agrees, Serves, Says, Runs, Live, Back, Starting
<1>8. Unlike({"crash", "slow", "late", "fault", "stopped", "abandoned"})'
         /\ "healthy" \in history' => Returns(y)'
  BY <1>1, <1>2, IdleIs
  DEF Agrees, Returns, SomeServes, Says, Runs, Live, Pausing, Forth, Back, Starting
<1>9. Agrees(y)'
  BY <1>3, <1>4, <1>5, <1>6, <1>7, <1>8 DEF Agrees
<1> QED BY <1>1, <1>9, AgreeOps

LEMMA BeginStartAgrees ==
  ASSUME AgreeNow, Alone', NEW o \in Operators, NEW d \in Deployments, BeginStart(o, d)
  PROVE  AgreeState'
<1> PICK x \in OpType : x = Idle
  BY Constants
<1> PICK y : y = [x EXCEPT !.kind = "start", !.at = "begin", !.dep = d, !.cur = d,
                           !.todo = {d}]
  OBVIOUS
<1>1. /\ Quiet /\ Agrees(Idle) /\ op' = [op EXCEPT ![o] = y] /\ ops' = ops + 1
      /\ history' = history \cup {"started"}
      /\ (\A S : (Unlike(S)' => Unlike(S)) /\ ("started" \in S => ~Unlike(S)'))
      /\ UNCHANGED <<row, vault, proc>> /\ row[d] # NoRow
  <2>1. Begin(o, y, {"started"})
    BY DEF BeginStart
  <2> QED BY <2>1, BeginsAlone DEF BeginStart
<1>2. /\ y.kind = "start" /\ y.at = "begin" /\ y.dep = d /\ y.cur = d
      /\ y.todo = {d} /\ y.paused = {}
  BY IdleIs DEF OpType
<1>3. Placed(y)' /\ HasRows(y)'
  BY <1>1, <1>2 DEF Placed, HasRows, Deploying, Pausing, Back, Starting
<1>4. TokensTell(y)'
  BY <1>1, <1>2, IdleIs, Typed DEF Agrees, TokensTell, Starting
<1>5. Unlike({"crash", "slow", "late"})' => Recorded(y)' /\ Staged(y)'
  <2> SUFFICES ASSUME Unlike({"crash", "slow", "late"}) PROVE Recorded(y)' /\ Staged(y)'
    BY <1>1
  <2>1. Recorded(Idle)
    BY <1>1 DEF Agrees
  <2>2. Recorded(y)'
    BY <1>1, <1>2, <2>1, IdleIs DEF Recorded, Good, Says, Runs, Live, Serving
  <2> QED BY <1>2, <2>2 DEF Staged, Pausing, Forth, Back, Starting
<1>6. ~Unlike({"crash", "slow", "late", "started"})'
  BY <1>1
<1>7. Unlike({"crash", "slow", "late", "fault"})' => Serves(y)'
  BY <1>1, <1>2, IdleIs DEF Agrees, Serves, Says, Runs, Live, Back, Starting
<1>8. Unlike({"crash", "slow", "late", "fault", "stopped", "abandoned"})'
         /\ "healthy" \in history' => Returns(y)'
  BY <1>1, <1>2, IdleIs
  DEF Agrees, Returns, SomeServes, Says, Runs, Live, Pausing, Forth, Back, Starting
<1>9. Agrees(y)'
  BY <1>3, <1>4, <1>5, <1>6, <1>7, <1>8 DEF Agrees
<1> QED BY <1>1, <1>9, AgreeOps

LEMMA BeginStopAgrees ==
  ASSUME AgreeNow, Alone', NEW o \in Operators, NEW d \in Deployments,
         NEW kind \in {"stop", "remove"}, BeginStop(o, d, kind)
  PROVE  AgreeState'
<1> PICK x \in OpType : x = Idle
  BY Constants
<1> PICK y : y = [x EXCEPT !.kind = kind, !.at = "stop", !.dep = d, !.cur = d]
  OBVIOUS
<1>1. /\ Quiet /\ Agrees(Idle) /\ op' = [op EXCEPT ![o] = y] /\ ops' = ops + 1
      /\ (\A S : (Unlike(S)' => Unlike(S)) /\ ("stopped" \in S => ~Unlike(S)'))
      /\ UNCHANGED <<row, vault>> /\ row[d] # NoRow /\ Kill(row[d].pid)
  <2>1. Begin(o, y, {"stopped"})
    BY DEF BeginStop
  <2> QED BY <2>1, BeginsAlone DEF BeginStop
<1>2. /\ y.kind = kind /\ y.at = "stop" /\ y.dep = d /\ y.cur = d
      /\ y.todo = {} /\ y.paused = {}
  BY IdleIs DEF OpType
<1>3. Placed(y)' /\ HasRows(y)'
  BY <1>1, <1>2 DEF Placed, HasRows, Deploying, Pausing, Back, Starting
<1>4. TokensTell(y)'
  BY <1>1, <1>2, IdleIs, Typed DEF Agrees, TokensTell, Starting
<1>5. /\ \A p \in Pids : p # row[d].pid => proc'[p] = proc[p]
      /\ \A p : Live(p)' <=> Live(p) /\ p # row[d].pid
      /\ \A p \in Pids : proc'[p].dep = proc[p].dep
      /\ \A p \in Pids : proc'[p].state = "hung" => proc[p].state = "hung"
  BY <1>1, Typed, KillEnds
<1>6. \A e \in Deployments : Runs(e)' <=> Runs(e) /\ row[e].pid # row[d].pid
  BY <1>1, <1>5 DEF Runs
<1>7. Unlike({"crash", "slow", "late"})' => Recorded(y)' /\ Staged(y)'
  <2> SUFFICES ASSUME Unlike({"crash", "slow", "late"}) PROVE Recorded(y)' /\ Staged(y)'
    BY <1>1
  <2>1. Recorded(Idle)
    BY <1>1 DEF Agrees
  <2>2. Recorded(y)'
    BY <1>1, <1>2, <1>5, <1>6, <2>1, IdleIs DEF Recorded, Good, Says, Runs, Live, Serving
  <2> QED BY <1>2, <2>2 DEF Staged, Pausing, Forth, Back, Starting
<1>8. Unlike({"crash", "slow", "late", "started"})' => Few(y)'
  BY <1>1, <1>2, IdleIs DEF Agrees, Few, Says
<1>9. Unlike({"crash", "slow", "late", "fault"})' => Serves(y)'
  <2> SUFFICES ASSUME Unlike({"crash", "slow", "late", "fault"})' PROVE Serves(y)'
    OBVIOUS
  <2>1. Serves(Idle) /\ Recorded(Idle)
    BY <1>1 DEF Agrees, Unlike
  <2>2. \A e \in Deployments : Says(e) => Runs(e)' \/ e = d
    <3> SUFFICES ASSUME NEW e \in Deployments, Says(e) PROVE Runs(e)' \/ e = d
      OBVIOUS
    <3>1. Runs(e) /\ proc[row[e].pid].dep = e
      BY <2>1, IdleIs DEF Serves, Recorded
    <3>2. row[e].pid = row[d].pid => e = d
      BY <2>1, <3>1 DEF Recorded, Runs
    <3> QED BY <1>6, <3>1, <3>2
  <2> QED BY <1>1, <1>2, <2>2 DEF Serves, Says, Back, Starting
<1>10. ~Unlike({"crash", "slow", "late", "fault", "stopped", "abandoned"})'
  BY <1>1
<1>11. Agrees(y)'
  BY <1>3, <1>4, <1>7, <1>8, <1>9, <1>10 DEF Agrees
<1> QED BY <1>1, <1>11, AgreeOps

\* What is known of an operation at a step.
LEMMA Known ==
  ASSUME AgreeNow, NEW o \in Operators, op[o].at # "end"
  PROVE  /\ op[o] # Idle /\ Agrees(op[o]) /\ op[o] \in OpType
         /\ Placed(op[o]) /\ TokensTell(op[o]) /\ HasRows(op[o])
         /\ op[o].kind \in {"deploy", "start", "stop", "remove"}
         /\ op[o].dep \in Deployments /\ op[o].cur \in Deployments
         /\ op[o].todo \subseteq Deployments /\ op[o].paused \subseteq Deployments
         /\ op[o].at \in {"enter", "pause", "paused", "attach", "restore"} => op[o].kind = "deploy"
<1>1. op[o] # Idle
  BY IdleIs
<1> QED BY <1>1, UnderWay DEF Agrees, Placed, Starting

\* Nothing that is promised is lost when what has happened is the same.
LEMMA SameHistory ==
  ASSUME UNCHANGED history
  PROVE  \A S : Unlike(S)' <=> Unlike(S)
BY DEF Unlike

LEMMA EnterAgrees ==
  ASSUME AgreeNow, NEW o \in Operators, EnterDeploy(o)
  PROVE  AgreeState'
<1>1. CASE Finish(o)
  BY <1>1, EndingsAgree
<1>2. CASE ~Finish(o)
  <2> PICK x \in OpType : x = op[o]
    BY Typed
  <2> PICK S \in SUBSET Deployments : S = {c \in Deployments \ {x.dep} : Says(c)}
    OBVIOUS
  <2> PICK y : y = [x EXCEPT !.at = "pause", !.todo = S]
    OBVIOUS
  <2>1. /\ op' = [op EXCEPT ![o] = y] /\ x.at = "enter" /\ x.kind = "deploy"
        /\ UNCHANGED <<row, vault, proc, history, ops>>
    BY <1>2 DEF EnterDeploy, At, Says
  <2>2. /\ y.kind = "deploy" /\ y.at = "pause" /\ y.dep = x.dep /\ y.cur = x.cur /\ y.todo = S
        /\ y.paused = x.paused /\ y.token = x.token /\ y.pid = x.pid
    BY <2>1 DEF OpType
  <2>3. /\ x = op[o] /\ op[o] # Idle /\ Agrees(x) /\ Placed(x) /\ TokensTell(x) /\ HasRows(x)
        /\ x.dep \in Deployments
    BY <2>1, Known
  <2>4. x.cur = x.dep /\ x.todo = {} /\ x.paused = {} /\ InTurn(y) = S
    BY <2>1, <2>2, <2>3 DEF Placed, InTurn
  <2>5. Placed(y)'
    BY <2>2, <2>4 DEF Placed, Deploying, Pausing, Back, Starting
  <2>6. TokensTell(y)' /\ HasRows(y)'
    <3>1. \A d \in S : row[d] # NoRow
      BY DEF Says, NoRow, None
    <3> QED BY <2>1, <2>2, <2>3, <2>4, <3>1 DEF TokensTell, HasRows, Starting
  <2>7. Unlike({"crash", "slow", "late"})' => Recorded(y)' /\ Staged(y)'
    <3> SUFFICES ASSUME Recorded(x), Staged(x) PROVE Recorded(y)' /\ Staged(y)'
      BY <2>1, <2>3, SameHistory DEF Agrees
    <3>1. Recorded(y)'
      BY <2>1, <2>2 DEF Recorded, Good, Says, Runs, Live, Serving
    <3>2. \A d \in Deployments : (Says(d) => d \in S) /\ (Runs(d) => d \in S)
      BY <2>1, <2>3 DEF Staged, Recorded, Good
    <3>3. ~Runs(x.dep) /\ Pausing(y) /\ ~Forth(y) /\ ~Back(y)
      BY <2>1, <2>2 DEF Staged, Pausing, Forth, Back, Starting
    <3>4. \A d \in Deployments : (Says(d)' <=> Says(d)) /\ (Runs(d)' <=> Runs(d))
      BY <2>1 DEF Says, Runs, Live
    <3> QED BY <2>2, <2>3, <3>1, <3>2, <3>3, <3>4 DEF Staged
  <2>8. Unlike({"crash", "slow", "late", "started"})' => Few(y)'
    BY <2>1, <2>2, <2>3, <2>4, SameHistory DEF Agrees, Few, InTurn
  <2>9. Unlike({"crash", "slow", "late", "fault"})' => Serves(y)'
    <3> SUFFICES ASSUME Recorded(x), Serves(x) PROVE Serves(y)'
      BY <2>1, <2>3, SameHistory DEF Agrees, Unlike
    <3>1. \A d \in S : /\ Serving(row[d].pid) /\ proc[row[d].pid].port = row[d].port
                       /\ proc[row[d].pid].dep = d
      BY <2>1 DEF Serves, Recorded, Good
    <3>2. \A d, e \in S : row[d].port = row[e].port => d = e
      BY <3>1 DEF AgreeNow, Base, PortsApart, Holds, Serving
    <3> QED BY <2>1, <2>2, <2>4, <3>2 DEF Serves, InTurn, Says, Runs, Live, Back, Starting
  <2>10. Unlike({"crash", "slow", "late", "fault", "stopped", "abandoned"})'
         /\ "healthy" \in history' => Returns(y)'
    BY <2>1, <2>2, <2>3, SameHistory
    DEF Agrees, Returns, SomeServes, Says, Runs, Live, Pausing, Forth, Back, Starting
  <2>11. Agrees(y)'
    BY <2>5, <2>6, <2>7, <2>8, <2>9, <2>10 DEF Agrees
  <2> QED BY <2>1, <2>3, <2>11, AgreeOps
<1> QED BY <1>1, <1>2

LEMMA PauseAgrees ==
  ASSUME AgreeNow, NEW o \in Operators, PauseNext(o)
  PROVE  AgreeState'
<1> PICK x \in OpType : x = op[o]
  BY Typed
<1>1. /\ x.at = "pause" /\ UNCHANGED <<row, vault, ops>>
  BY DEF PauseNext, At
<1>2. /\ op[o] # Idle /\ Agrees(x) /\ Placed(x) /\ TokensTell(x) /\ HasRows(x)
      /\ x.kind = "deploy" /\ x.dep \in Deployments /\ x.todo \subseteq Deployments
  BY <1>1, Known
<1> PICK c \in x.todo :
        /\ Kill(row[c].pid)
        /\ op' = [op EXCEPT ![o].at = "paused", ![o].cur = c, ![o].todo = @ \ {c}]
        /\ UNCHANGED history
  BY <1>2 DEF PauseNext, HasRows
<1> PICK y : y = [x EXCEPT !.at = "paused", !.cur = c, !.todo = @ \ {c}]
  OBVIOUS
<1>3. op' = [op EXCEPT ![o] = y]
  OBVIOUS
<1>4. /\ y.kind = "deploy" /\ y.at = "paused" /\ y.dep = x.dep /\ y.cur = c
      /\ y.todo = x.todo \ {c} /\ y.paused = x.paused /\ y.token = x.token
  BY <1>2 DEF OpType
<1>5. c \in Deployments /\ c # x.dep /\ InTurn(y) = InTurn(x)
  BY <1>1, <1>2, <1>4 DEF Placed, Pausing, InTurn
<1>6. Placed(y)'
  BY <1>1, <1>2, <1>4, <1>5 DEF Placed, Deploying, Pausing, Back, Starting
<1>7. TokensTell(y)' /\ HasRows(y)'
  BY <1>1, <1>2, <1>4 DEF TokensTell, HasRows, Starting
<1>8. /\ \A p \in Pids : p # row[c].pid => proc'[p] = proc[p]
      /\ \A p : Live(p)' <=> Live(p) /\ p # row[c].pid
      /\ \A p \in Pids : proc'[p].dep = proc[p].dep
      /\ \A p \in Pids : proc'[p].state = "hung" => proc[p].state = "hung"
  BY Typed, KillEnds
<1>9. \A e \in Deployments : Runs(e)' <=> Runs(e) /\ row[e].pid # row[c].pid
  BY <1>1, <1>8 DEF Runs
<1>10. Unlike({"crash", "slow", "late"})' => Recorded(y)' /\ Staged(y)'
  <2> SUFFICES ASSUME Recorded(x), Staged(x) PROVE Recorded(y)' /\ Staged(y)'
    BY <1>2, SameHistory DEF Agrees
  <2>1. Recorded(y)'
    BY <1>1, <1>2, <1>4, <1>5, <1>8, <1>9 DEF Recorded, Good, Says, Runs, Live, Serving
  <2>2. \A d \in Deployments : /\ Says(d) => d \in x.todo
                               /\ Runs(d)' => d \in x.todo \ {c}
    BY <1>1, <1>2, <1>9 DEF Staged, Pausing
  <2>3. ~Runs(x.dep)'
    BY <1>1, <1>2, <1>9 DEF Staged
  <2> QED BY <1>1, <1>4, <2>1, <2>2, <2>3 DEF Staged, Pausing, Forth, Back, Starting, Says
<1>11. Unlike({"crash", "slow", "late", "started"})' => Few(y)'
  BY <1>1, <1>2, <1>4, <1>5, SameHistory DEF Agrees, Few, InTurn
<1>12. Unlike({"crash", "slow", "late", "fault"})' => Serves(y)'
  <2> SUFFICES ASSUME Recorded(x), Serves(x) PROVE Serves(y)'
    BY <1>2, SameHistory DEF Agrees, Unlike
  <2>1. \A e \in Deployments : Says(e) => Runs(e)' \/ e = c
    <3> SUFFICES ASSUME NEW e \in Deployments, Says(e) PROVE Runs(e)' \/ e = c
      OBVIOUS
    <3>1. Runs(e) /\ proc[row[e].pid].dep = e
      BY <1>1 DEF Serves, Recorded
    <3>2. row[e].pid = row[c].pid => e = c
      BY <1>5, <3>1 DEF Recorded, Runs
    <3> QED BY <1>9, <3>1, <3>2
  <2>2. \A d, e \in InTurn(y) : row[d].port = row[e].port => d = e
    BY <1>1, <1>2, <1>5 DEF Serves
  <2> QED BY <1>1, <1>4, <2>1, <2>2 DEF Serves, InTurn, Says, Back, Starting
<1>13. Unlike({"crash", "slow", "late", "fault", "stopped", "abandoned"})'
         /\ "healthy" \in history' => Returns(y)'
  BY <1>4 DEF Returns, InTurn, Pausing, Forth, Back, Starting
<1>14. Agrees(y)'
  BY <1>6, <1>7, <1>10, <1>11, <1>12, <1>13 DEF Agrees
<1> QED BY <1>2, <1>3, <1>14, AgreeOps

LEMMA PausedAgrees ==
  ASSUME AgreeNow, NEW o \in Operators, PauseRecorded(o)
  PROVE  AgreeState'
<1> PICK x \in OpType : x = op[o]
  BY Typed
<1>1. /\ x.at = "paused" /\ UNCHANGED <<vault, proc, ops>>
  BY DEF PauseRecorded, At
<1>2. /\ op[o] # Idle /\ Agrees(x) /\ Placed(x) /\ TokensTell(x) /\ HasRows(x)
      /\ x.kind = "deploy" /\ x.dep \in Deployments /\ x.cur \in Deployments
      /\ x.todo \subseteq Deployments /\ x.paused \subseteq Deployments
  BY <1>1, Known
<1>3. /\ Status(x.cur, "STOPPED") /\ UNCHANGED history
      /\ op' = [op EXCEPT ![o].at = "pause", ![o].cur = op[o].dep,
                          ![o].paused = @ \cup {op[o].cur}]
  BY <1>1, <1>2 DEF PauseRecorded, HasRows
<1> PICK y : y = [x EXCEPT !.at = "pause", !.cur = x.dep, !.paused = @ \cup {x.cur}]
  OBVIOUS
<1>4. op' = [op EXCEPT ![o] = y]
  BY <1>3
<1>5. /\ y.kind = "deploy" /\ y.at = "pause" /\ y.dep = x.dep /\ y.cur = x.dep
      /\ y.todo = x.todo /\ y.paused = x.paused \cup {x.cur} /\ y.token = x.token
  BY <1>2 DEF OpType
<1>6. x.cur # x.dep /\ InTurn(y) = InTurn(x)
  BY <1>1, <1>2, <1>5 DEF Placed, InTurn
<1>7. Placed(y)'
  BY <1>1, <1>2, <1>5, <1>6 DEF Placed, Deploying, Pausing, Back, Starting
<1>8. /\ \A e \in Deployments : /\ row'[e].pid = row[e].pid /\ row'[e].port = row[e].port
                                /\ e # x.cur => row'[e] = row[e]
                                /\ row[e] # NoRow <=> row'[e] # NoRow
      /\ row'[x.cur].status = "STOPPED"
  BY <1>1, <1>2, <1>3, Typed, StatusSets DEF Statuses, HasRows
<1>9. TokensTell(y)' /\ HasRows(y)'
  BY <1>1, <1>2, <1>5, <1>8 DEF TokensTell, HasRows, Starting
<1>10. \A e \in Deployments : (Runs(e)' <=> Runs(e)) /\ (Says(e)' <=> Says(e) /\ e # x.cur)
  BY <1>1, <1>2, <1>8 DEF Runs, Says, Live
<1>11. Unlike({"crash", "slow", "late"})' => Recorded(y)' /\ Staged(y)'
  <2> SUFFICES ASSUME Recorded(x), Staged(x) PROVE Recorded(y)' /\ Staged(y)'
    BY <1>2, <1>3, SameHistory DEF Agrees
  <2>1. ~Runs(x.cur)
    BY <1>1 DEF Recorded
  <2>2. Recorded(y)'
    BY <1>1, <1>2, <1>5, <1>8, <1>10, <2>1 DEF Recorded, Good, Says, Live, Serving
  <2>3. \A d \in Deployments : /\ Says(d)' => d \in x.todo
                               /\ Runs(d)' => d \in x.todo
    BY <1>1, <1>2, <1>10 DEF Staged, Pausing
  <2> QED BY <1>1, <1>2, <1>5, <1>10, <2>2, <2>3 DEF Staged, Pausing, Forth, Back, Starting
<1>12. Unlike({"crash", "slow", "late", "started"})' => Few(y)'
  BY <1>1, <1>2, <1>3, <1>5, <1>6, SameHistory DEF Agrees, Few, InTurn
<1>13. Unlike({"crash", "slow", "late", "fault"})' => Serves(y)'
  <2> SUFFICES ASSUME Serves(x) PROVE Serves(y)'
    BY <1>2, <1>3, SameHistory DEF Agrees, Unlike
  <2>1. \A d, e \in InTurn(y) : row'[d].port = row'[e].port => d = e
    <3>1. InTurn(y) \subseteq Deployments
      BY <1>2, <1>6 DEF InTurn
    <3> QED BY <1>1, <1>2, <1>6, <1>8, <3>1 DEF Serves
  <2> QED BY <1>1, <1>2, <1>5, <1>10, <2>1 DEF Serves, InTurn, Back, Starting
<1>14. Unlike({"crash", "slow", "late", "fault", "stopped", "abandoned"})'
         /\ "healthy" \in history' => Returns(y)'
  BY <1>5 DEF Returns, InTurn, Pausing, Forth, Back, Starting
<1>15. Agrees(y)'
  BY <1>7, <1>9, <1>11, <1>12, <1>13, <1>14 DEF Agrees
<1> QED BY <1>2, <1>4, <1>15, AgreeOps

LEMMA RefusedAgrees ==
  ASSUME AgreeNow, NEW o \in Operators, DeployRefused(o)
  PROVE  AgreeState'
<1> PICK x \in OpType : x = op[o]
  BY Typed
<1> PICK y : y = [x EXCEPT !.at = "restore", !.todo = x.paused]
  OBVIOUS
<1>1. /\ x.at = "pause" /\ x.todo = {} /\ UNCHANGED <<row, vault, proc, history, ops>>
      /\ op' = [op EXCEPT ![o] = y]
  BY DEF DeployRefused, At
<1>2. /\ op[o] # Idle /\ Agrees(x) /\ Placed(x) /\ TokensTell(x) /\ HasRows(x)
      /\ x.kind = "deploy" /\ x.dep \in Deployments /\ x.paused \subseteq Deployments
  BY <1>1, Known
<1>3. /\ y.kind = "deploy" /\ y.at = "restore" /\ y.dep = x.dep /\ y.cur = x.cur
      /\ y.todo = x.paused /\ y.paused = x.paused /\ y.token = x.token
  BY <1>2 DEF OpType
<1>4. Placed(y)' /\ InTurn(y) = InTurn(x)
  BY <1>1, <1>2, <1>3 DEF Placed, Deploying, Pausing, Back, Starting, InTurn
<1>5. TokensTell(y)' /\ HasRows(y)'
  BY <1>1, <1>2, <1>3 DEF TokensTell, HasRows, Starting
<1>6. Unlike({"crash", "slow", "late"})' => Recorded(y)' /\ Staged(y)'
  <2> SUFFICES ASSUME Recorded(x), Staged(x) PROVE Recorded(y)' /\ Staged(y)'
    BY <1>1, <1>2, SameHistory DEF Agrees
  <2>1. Recorded(y)'
    BY <1>1, <1>2, <1>3 DEF Recorded, Good, Says, Runs, Live, Serving
  <2>2. \A d \in Deployments : ~Says(d)' /\ ~Runs(d)'
    BY <1>1, <1>2 DEF Staged, Pausing, Says, Runs, Live
  <2> QED BY <1>3, <2>1, <2>2 DEF Staged, Pausing, Forth, Back, Starting
<1>7. Unlike({"crash", "slow", "late", "started"})' => Few(y)'
  BY <1>1, <1>2, <1>3, <1>4, SameHistory DEF Agrees, Few, InTurn
<1>8. Unlike({"crash", "slow", "late", "fault"})' => Serves(y)'
  BY <1>1, <1>2, <1>3, SameHistory
  DEF Agrees, Serves, InTurn, Back, Starting, Says, Runs, Live
<1>9. Unlike({"crash", "slow", "late", "fault", "stopped", "abandoned"})'
         /\ "healthy" \in history' => Returns(y)'
  <2> SUFFICES ASSUME Returns(x), Staged(x) PROVE Returns(y)'
    BY <1>1, <1>2, SameHistory DEF Agrees, Unlike
  <2>1. x.paused # {}
    BY <1>1, <1>2 DEF Returns, Staged, Pausing, SomeServes, InTurn
  <2> QED BY <1>3, <2>1 DEF Returns, Pausing, Forth, Back
<1>10. Agrees(y)'
  BY <1>4, <1>5, <1>6, <1>7, <1>8, <1>9 DEF Agrees
<1> QED BY <1>1, <1>2, <1>10, AgreeOps

LEMMA InstallAgrees ==
  ASSUME AgreeNow, NEW o \in Operators, DeployInstalls(o)
  PROVE  AgreeState'
<1> PICK x \in OpType : x = op[o]
  BY Typed
<1> PICK port \in Ports :
        /\ vault' = [vault EXCEPT ![x.dep] = x.token]
        /\ row' = [row EXCEPT ![x.dep] = [status |-> "INSTALLING", pid |-> 0, port |-> port]]
        /\ op' = [op EXCEPT ![o].at = "spawn", ![o].port = port]
  BY DEF DeployInstalls
<1> PICK y : y = [x EXCEPT !.at = "spawn", !.port = port]
  OBVIOUS
<1>0. op' = [op EXCEPT ![o] = y]
  OBVIOUS
<1>1. /\ x.at = "pause" /\ x.todo = {} /\ UNCHANGED <<proc, history, ops>>
      /\ op' = [op EXCEPT ![o] = y]
  BY <1>0 DEF DeployInstalls, At
<1>2. /\ op[o] # Idle /\ Agrees(x) /\ Placed(x) /\ TokensTell(x) /\ HasRows(x)
      /\ x.kind = "deploy" /\ x.dep \in Deployments /\ x.paused \subseteq Deployments
  BY <1>1, Known
<1>3. /\ y.kind = "deploy" /\ y.at = "spawn" /\ y.dep = x.dep /\ y.cur = x.dep
      /\ y.todo = {} /\ y.paused = x.paused /\ y.token = x.token /\ y.port = port
  BY <1>1, <1>2 DEF OpType, Placed
<1>4. Placed(y)' /\ InTurn(y) = InTurn(x) /\ x.dep \notin x.paused
  BY <1>1, <1>2, <1>3 DEF Placed, Deploying, Pausing, Back, Starting, InTurn
<1>5. /\ \A e \in Deployments \ {x.dep} : row'[e] = row[e] /\ vault'[e] = vault[e]
      /\ row'[x.dep] = [status |-> "INSTALLING", pid |-> 0, port |-> port]
      /\ vault'[x.dep] = x.token
  BY <1>2, Typed
<1>6. /\ row'[x.dep].status = "INSTALLING" /\ row'[x.dep].pid = 0 /\ row'[x.dep].port = port
      /\ row'[x.dep] # NoRow
  BY <1>5 DEF NoRow, None
<1>7. TokensTell(y)'
  BY <1>1, <1>2, <1>3, <1>5, Typed DEF TokensTell, Starting
<1>8. HasRows(y)'
  BY <1>2, <1>3, <1>4, <1>5, <1>6 DEF HasRows
<1>9. \A e \in Deployments : /\ Runs(e)' <=> Runs(e) /\ e # x.dep
                             /\ Says(e)' <=> Says(e) /\ e # x.dep
  BY <1>1, <1>2, <1>5, <1>6 DEF Runs, Says, Live, Pids
<1>10. Unlike({"crash", "slow", "late"})' => Recorded(y)' /\ Staged(y)'
  <2> SUFFICES ASSUME Recorded(x), Staged(x) PROVE Recorded(y)' /\ Staged(y)'
    BY <1>1, <1>2, SameHistory DEF Agrees
  <2>1. \A d \in Deployments : ~Says(d)' /\ ~Runs(d)' /\ ~Runs(d)
    BY <1>1, <1>2, <1>9 DEF Staged, Pausing
  <2>2. \A p \in Pids : ~Live(p)
    BY <1>1, <1>2, <2>1 DEF Recorded, Runs
  <2>3. Recorded(y)'
    BY <1>1, <1>2, <1>3, <2>1, <2>2 DEF Recorded, Live
  <2> QED BY <1>3, <2>1, <2>3 DEF Staged, Pausing, Forth, Back, Starting
<1>11. Unlike({"crash", "slow", "late", "started"})' => Few(y)'
  BY <1>1, <1>2, <1>3, <1>4, SameHistory DEF Agrees, Few, InTurn
<1>12. Unlike({"crash", "slow", "late", "fault"})' => Serves(y)'
  <2> SUFFICES ASSUME Staged(x), Serves(x) PROVE Serves(y)'
    BY <1>1, <1>2, SameHistory DEF Agrees, Unlike
  <2>1. \A d \in Deployments : ~Says(d)'
    BY <1>1, <1>2, <1>9 DEF Staged, Pausing
  <2>2. \A d, e \in InTurn(y) : row'[d].port = row'[e].port => d = e
    <3>1. InTurn(y) = x.paused
      BY <1>3 DEF InTurn
    <3> QED BY <1>1, <1>2, <1>4, <1>5, <3>1 DEF Serves
  <2> QED BY <1>3, <2>1, <2>2 DEF Serves, InTurn, Back, Starting
<1>13. Unlike({"crash", "slow", "late", "fault", "stopped", "abandoned"})'
         /\ "healthy" \in history' => Returns(y)'
  <2> SUFFICES ASSUME Returns(x), Staged(x) PROVE Returns(y)'
    BY <1>1, <1>2, SameHistory DEF Agrees, Unlike
  <2>1. x.paused # {}
    BY <1>1, <1>2 DEF Returns, Staged, Pausing, SomeServes, InTurn
  <2> QED BY <1>3, <2>1 DEF Returns, Pausing, Forth, Back
<1>14. Agrees(y)'
  BY <1>4, <1>7, <1>8, <1>10, <1>11, <1>12, <1>13 DEF Agrees
<1> QED BY <1>1, <1>2, <1>14, AgreeOps

LEMMA SpawnAgrees ==
  ASSUME AgreeNow, NEW o \in Operators, Spawn(o)
  PROVE  AgreeState'
<1> PICK x \in OpType : x = op[o]
  BY Typed
<1> PICK p \in Pids :
        /\ proc[p] = Unused
        /\ proc' = [proc EXCEPT ![p] = [dep |-> x.cur, port |-> x.port,
                                        token |-> x.token, state |-> "loading"]]
        /\ op' = [op EXCEPT ![o].at = "record", ![o].pid = p]
  BY DEF Spawn
<1> PICK y : y = [x EXCEPT !.at = "record", !.pid = p]
  OBVIOUS
<1>0. op' = [op EXCEPT ![o] = y]
  OBVIOUS
<1>1. /\ x.at = "spawn" /\ UNCHANGED <<row, vault, history, ops>>
      /\ op' = [op EXCEPT ![o] = y]
  BY <1>0 DEF Spawn, At
<1>2. /\ op[o] # Idle /\ Agrees(x) /\ Placed(x) /\ TokensTell(x) /\ HasRows(x)
      /\ x.kind \in {"deploy", "start"} /\ x.cur \in Deployments
  BY <1>1, Known DEF Placed
<1>3. /\ y.kind = x.kind /\ y.at = "record" /\ y.dep = x.dep /\ y.cur = x.cur /\ y.pid = p
      /\ y.todo = x.todo /\ y.paused = x.paused /\ y.token = x.token /\ y.port = x.port
  BY <1>2 DEF OpType
<1>4. /\ \A q \in Pids \ {p} : proc'[q] = proc[q]
      /\ proc'[p].dep = x.cur /\ proc'[p].port = x.port /\ proc'[p].token = x.token
      /\ proc'[p].state = "loading" /\ proc[p].state = "unused"
  BY Typed DEF Unused
<1>5. \A d \in Deployments : row[d].pid # p
  BY <1>4 DEF AgreeNow, Base, PidsSpent, Spent
<1>6. \A d \in Deployments :
        /\ Runs(d)' <=> Runs(d)
        /\ Says(d)' <=> Says(d)
        /\ Good(d) => Good(d)'
  BY <1>1, <1>4, <1>5 DEF Runs, Says, Good, Live, Serving
<1>7. /\ Placed(y)' /\ InTurn(y) = InTurn(x) /\ (Forth(y) <=> Forth(x)) /\ (Back(y) <=> Back(x))
      /\ ~Pausing(y)
  BY <1>1, <1>2, <1>3 DEF Placed, Deploying, Pausing, Back, Forth, Starting, InTurn
<1>8. TokensTell(y)' /\ HasRows(y)'
  BY <1>1, <1>2, <1>3 DEF TokensTell, HasRows, Starting
<1>9. Unlike({"crash", "slow", "late"})' => Recorded(y)' /\ Staged(y)'
  <2> SUFFICES ASSUME Recorded(x), Staged(x) PROVE Recorded(y)' /\ Staged(y)'
    BY <1>1, <1>2, SameHistory DEF Agrees
  <2>1. Recorded(y)'
    <3>1. \A q \in Pids \ {p} : (Live(q)' <=> Live(q)) /\ proc'[q].dep = proc[q].dep
      BY <1>4 DEF Live
    <3>2. \A q \in Pids : proc'[q].state # "hung"
      BY <1>4 DEF Recorded
    <3>3. \A q \in Pids : Live(q)' =>
            /\ proc'[q].dep \in Deployments
            /\ row'[proc'[q].dep].pid = q \/ (q = p /\ proc'[q].dep = x.cur)
      BY <1>1, <1>2, <1>4, <3>1 DEF Recorded
    <3>4. \A d \in Deployments : Runs(d)' => proc'[row'[d].pid].dep = d /\ Good(d)'
      BY <1>1, <1>4, <1>5, <1>6 DEF Recorded, Runs, Live
    <3>5. ~Runs(x.cur)'
      BY <1>1, <1>2, <1>6 DEF Recorded
    <3> QED BY <1>2, <1>3, <1>4, <3>2, <3>3, <3>4, <3>5 DEF Recorded
  <2>2. Staged(y)'
    BY <1>1, <1>2, <1>3, <1>6, <1>7 DEF Staged, Back, Forth, Pausing
  <2> QED BY <2>1, <2>2
<1>10. Unlike({"crash", "slow", "late", "started"})' => Few(y)'
  BY <1>1, <1>2, <1>3, <1>7, SameHistory DEF Agrees, Few, InTurn
<1>11. Unlike({"crash", "slow", "late", "fault"})' => Serves(y)'
  <2> SUFFICES ASSUME Serves(x) PROVE Serves(y)'
    BY <1>1, <1>2, SameHistory DEF Agrees
  <2>1. Live(y.pid)'
    BY <1>3, <1>4 DEF Live
  <2>2. x.paused \subseteq Deployments
    BY DEF OpType
  <2> QED BY <1>1, <1>2, <1>3, <1>6, <1>7, <2>1, <2>2 DEF Serves, InTurn, Back, Starting
<1>12. Unlike({"crash", "slow", "late", "fault", "stopped", "abandoned"})'
         /\ "healthy" \in history' => Returns(y)'
  BY <1>1, <1>2, <1>3, <1>6, <1>7, SameHistory
  DEF Agrees, Returns, SomeServes, Forth, Back, Pausing
<1>13. Agrees(y)'
  BY <1>7, <1>8, <1>9, <1>10, <1>11, <1>12 DEF Agrees
<1> QED BY <1>1, <1>2, <1>13, AgreeOps

LEMMA SpawnedAgrees ==
  ASSUME AgreeNow, NEW o \in Operators, RecordSpawn(o)
  PROVE  AgreeState'
<1> PICK x \in OpType : x = op[o]
  BY Typed
<1> PICK y : y = [x EXCEPT !.at = "wait"]
  OBVIOUS
<1>1. x.at = "record" /\ UNCHANGED <<vault, proc, ops>>
  BY DEF RecordSpawn, At
<1>2. /\ op[o] # Idle /\ Agrees(x) /\ Placed(x) /\ TokensTell(x) /\ HasRows(x)
      /\ x.kind \in {"deploy", "start"} /\ x.cur \in Deployments
      /\ x.todo \subseteq Deployments /\ x.paused \subseteq Deployments
      /\ row[x.cur] # NoRow
  BY <1>1, Known DEF Placed, HasRows
<1>3. /\ row' = [row EXCEPT ![x.cur] = [status |-> "STARTING", pid |-> x.pid, port |-> x.port]]
      /\ op' = [op EXCEPT ![o] = y] /\ UNCHANGED history
  BY <1>2 DEF RecordSpawn, Restoring, GoTo
<1>4. /\ y.kind = x.kind /\ y.at = "wait" /\ y.dep = x.dep /\ y.cur = x.cur /\ y.pid = x.pid
      /\ y.todo = x.todo /\ y.paused = x.paused /\ y.token = x.token /\ y.port = x.port
  BY <1>2 DEF OpType
<1>5. /\ \A d \in Deployments \ {x.cur} : row'[d] = row[d]
      /\ row'[x.cur].status = "STARTING" /\ row'[x.cur].pid = x.pid
      /\ row'[x.cur].port = x.port /\ row'[x.cur] # NoRow
      /\ x.port = row[x.cur].port
  BY <1>1, <1>2, <1>3, Typed DEF HasRows, Starting, NoRow, None
<1>6. /\ \A d \in Deployments \ {x.cur} :
           (Runs(d)' <=> Runs(d)) /\ (Says(d)' <=> Says(d)) /\ (Good(d) => Good(d)')
      /\ ~Says(x.cur)' /\ (Runs(x.cur)' <=> Live(x.pid))
  BY <1>1, <1>5 DEF Runs, Says, Good, Live, Serving
<1>7. /\ Placed(y)' /\ InTurn(y) = InTurn(x) /\ (Forth(y) <=> Forth(x)) /\ (Back(y) <=> Back(x))
      /\ ~Pausing(y)
  BY <1>1, <1>2, <1>4 DEF Placed, Deploying, Pausing, Back, Forth, Starting, InTurn
<1>8. TokensTell(y)' /\ HasRows(y)'
  BY <1>1, <1>2, <1>4, <1>5 DEF TokensTell, HasRows, Starting
<1>9. Unlike({"crash", "slow", "late"})' => Recorded(y)' /\ Staged(y)'
  <2> SUFFICES ASSUME Recorded(x), Staged(x) PROVE Recorded(y)' /\ Staged(y)'
    BY <1>2, <1>3, SameHistory DEF Agrees
  <2>1. Recorded(y)'
    <3>1. \A q \in Pids : Live(q)' =>
            /\ proc'[q].dep \in Deployments /\ row'[proc'[q].dep].pid = q
      BY <1>1, <1>2, <1>5 DEF Recorded, Live, Runs
    <3>2. \A d \in Deployments : Runs(d)' =>
            proc'[row'[d].pid].dep = d /\ (Good(d)' \/ d = x.cur)
      BY <1>1, <1>5, <1>6 DEF Recorded
    <3> QED BY <1>1, <1>2, <1>4, <1>5, <3>1, <3>2 DEF Recorded
  <2>2. Staged(y)'
    BY <1>1, <1>2, <1>4, <1>6, <1>7 DEF Staged, Back, Forth, Pausing, Placed
  <2> QED BY <2>1, <2>2
<1>10. Unlike({"crash", "slow", "late", "started"})' => Few(y)'
  BY <1>1, <1>2, <1>3, <1>4, <1>7, SameHistory DEF Agrees, Few, InTurn
<1>11. Unlike({"crash", "slow", "late", "fault"})' => Serves(y)'
  <2> SUFFICES ASSUME Serves(x) PROVE Serves(y)'
    BY <1>2, <1>3, SameHistory DEF Agrees
  <2>1. \A d \in Deployments : row'[d].port = row[d].port
    BY <1>5
  <2>2. InTurn(x) \subseteq Deployments /\ Live(x.pid)' = Live(x.pid)
    BY <1>1, <1>2 DEF InTurn, Live
  <2> QED BY <1>1, <1>2, <1>4, <1>6, <1>7, <2>1, <2>2 DEF Serves, InTurn, Back, Starting
<1>12. Unlike({"crash", "slow", "late", "fault", "stopped", "abandoned"})'
         /\ "healthy" \in history' => Returns(y)'
  <2> SUFFICES ASSUME Returns(x), Recorded(x) PROVE Returns(y)'
    BY <1>2, <1>3, SameHistory DEF Agrees, Unlike
  <2>1. ~Runs(x.cur)
    BY <1>1 DEF Recorded
  <2>2. SomeServes => SomeServes'
    BY <1>6, <2>1 DEF SomeServes
  <2> QED BY <1>1, <1>2, <1>4, <1>7, <2>2 DEF Returns
<1>13. Agrees(y)'
  BY <1>7, <1>8, <1>9, <1>10, <1>11, <1>12 DEF Agrees
<1> QED BY <1>2, <1>3, <1>13, AgreeOps

\* What answers with the token of a deployment is the process that was started for it.
LEMMA AnswersItself ==
  ASSUME AgreeNow, NEW x, Agrees(x), Recorded(x), x.at = "wait", x.kind # "idle",
         x.kind = "deploy" \/ x.kind = "start", x.cur \in Deployments,
         NEW p \in Pids, Serving(p), proc[p].token = x.token
  PROVE  p = x.pid
<1> PICK d \in Deployments : d = proc[p].dep /\ row[d].pid = p
  BY DEF Recorded, Live, Serving
<1>1. row[x.cur].pid = x.pid /\ x.token = vault[x.cur] /\ vault[x.cur] # 0
  BY DEF Recorded, Agrees, TokensTell, HasRows, Starting
<1>2. d = x.cur \/ vault[d] = vault[x.cur]
  BY <1>1 DEF Recorded, Runs, Good, Live, Serving
<1> QED BY <1>1, <1>2 DEF Agrees, TokensTell

LEMMA HealthyAgrees ==
  ASSUME AgreeNow, NEW o \in Operators, Healthy(o)
  PROVE  AgreeState'
<1> PICK x \in OpType : x = op[o]
  BY Typed
<1>1. /\ x.at = "wait" /\ UNCHANGED <<vault, proc, ops>> /\ Status(x.cur, "HEALTHY")
      /\ Note({"healthy"}) /\ Live(x.pid)
  BY DEF Healthy, At, Answered
<1>2. /\ op[o] # Idle /\ Agrees(x) /\ Placed(x) /\ TokensTell(x) /\ HasRows(x)
      /\ x.kind \in {"deploy", "start"} /\ x.cur \in Deployments /\ x.dep \in Deployments
      /\ x.todo \subseteq Deployments /\ x.paused \subseteq Deployments
  BY <1>1, Known DEF Placed
<1>3. \A S : Unlike(S)' => Unlike(S)
  BY <1>1, Remembers
<1>4. /\ \A e \in Deployments : /\ row'[e].pid = row[e].pid /\ row'[e].port = row[e].port
                                /\ e # x.cur => row'[e] = row[e]
                                /\ row[e] # NoRow <=> row'[e] # NoRow
      /\ row'[x.cur].status = "HEALTHY"
  BY <1>1, <1>2, Typed, StatusSets DEF Statuses, HasRows
<1>5. \A d \in Deployments :
        /\ Runs(d)' <=> Runs(d)
        /\ Says(d)' <=> Says(d) \/ d = x.cur
        /\ d # x.cur /\ Good(d) => Good(d)'
  BY <1>1, <1>4 DEF Runs, Says, Good, Live, Serving
<1>6. Recorded(x) => /\ Runs(x.cur) /\ Good(x.cur)'
                     /\ proc[x.pid].dep = x.cur /\ row[x.cur].pid = x.pid
  <2> SUFFICES ASSUME Recorded(x)
               PROVE  /\ Runs(x.cur) /\ Good(x.cur)'
                      /\ proc[x.pid].dep = x.cur /\ row[x.cur].pid = x.pid
    OBVIOUS
  <2>1. \E p \in Pids : Serving(p) /\ proc[p].token = x.token
    BY DEF Healthy, Answered
  <2>2. Serving(x.pid)
    BY <1>1, <1>2, <2>1, AnswersItself
  <2>3. row[x.cur].pid = x.pid
    BY <1>1 DEF Recorded
  <2>4. proc[x.pid].port = row[x.cur].port /\ proc[x.pid].token = vault[x.cur]
    BY <1>1, <1>2 DEF Recorded, HasRows, TokensTell, Starting
  <2>5. Good(x.cur)'
    BY <1>1, <1>2, <1>4, <2>2, <2>3, <2>4 DEF Good, Says, Serving
  <2> QED BY <1>1, <2>3, <2>5 DEF Recorded, Runs
<1>7. Recorded(x) =>
        /\ \A p \in Pids : proc[p].state # "hung"
        /\ \A p \in Pids : Live(p) => proc[p].dep \in Deployments /\ row[proc[p].dep].pid = p
        /\ \A d \in Deployments : Runs(d)' => proc[row[d].pid].dep = d /\ Good(d)'
        /\ x.port = row[x.cur].port
  <2> SUFFICES ASSUME Recorded(x)
               PROVE  /\ \A p \in Pids : proc[p].state # "hung"
                      /\ \A p \in Pids : Live(p) =>
                           proc[p].dep \in Deployments /\ row[proc[p].dep].pid = p
                      /\ \A d \in Deployments : Runs(d)' => proc[row[d].pid].dep = d /\ Good(d)'
                      /\ x.port = row[x.cur].port
    OBVIOUS
  <2>1. \A p \in Pids : /\ proc[p].state # "hung"
                        /\ Live(p) => proc[p].dep \in Deployments /\ row[proc[p].dep].pid = p
    BY <1>1 DEF Recorded
  <2>2. \A d \in Deployments : Runs(d)' => proc[row[d].pid].dep = d /\ Good(d)'
    BY <1>5, <1>6 DEF Recorded
  <2>3. x.port = row[x.cur].port
    BY <1>1, <1>2 DEF HasRows, Starting
  <2> QED BY <2>1, <2>2, <2>3
<1>8. CASE ~Restoring(o) /\ x.kind = "deploy" /\ GoTo(o, "attach")
  <2> PICK y : y = [x EXCEPT !.at = "attach"]
    OBVIOUS
  <2>1. /\ op' = [op EXCEPT ![o] = y] /\ y.kind = "deploy" /\ y.at = "attach" /\ y.dep = x.dep
        /\ y.cur = x.cur /\ y.pid = x.pid /\ y.port = x.port /\ y.token = x.token
        /\ y.todo = x.todo /\ y.paused = x.paused /\ x.cur = x.dep
    BY <1>2, <1>8 DEF OpType, GoTo, Restoring
  <2>2. Placed(y)' /\ Forth(x) /\ ~Forth(y) /\ ~Back(y) /\ ~Pausing(y) /\ InTurn(y) = InTurn(x)
    BY <1>1, <1>2, <2>1 DEF Placed, Deploying, Pausing, Back, Forth, Starting, InTurn
  <2>3. TokensTell(y)' /\ HasRows(y)'
    BY <1>1, <1>2, <1>4, <2>1 DEF TokensTell, HasRows, Starting
  <2>4. Unlike({"crash", "slow", "late"})' => Recorded(y)' /\ Staged(y)'
    <3> SUFFICES ASSUME Recorded(x), Staged(x) PROVE Recorded(y)' /\ Staged(y)'
      BY <1>2, <1>3 DEF Agrees
    <3>1. Recorded(y)'
      BY <1>1, <1>2, <1>4, <1>6, <1>7, <2>1 DEF Recorded, Live
    <3> QED BY <1>5, <2>1, <2>2, <3>1 DEF Staged, Forth, Back, Pausing
  <2>5. Unlike({"crash", "slow", "late", "started"})' => Few(y)'
    BY <1>1, <1>2, <1>3, <2>1, <2>2 DEF Agrees, Few, InTurn
  <2>6. Unlike({"crash", "slow", "late", "fault"})' => Serves(y)'
    <3> SUFFICES ASSUME Recorded(x), Serves(x) PROVE Serves(y)'
      BY <1>2, <1>3 DEF Agrees, Unlike
    <3>1. \A d \in Deployments : Says(d)' => Runs(d)'
      BY <1>1, <1>5, <1>6 DEF Serves
    <3>2. \A d, e \in InTurn(y) : row'[d].port = row'[e].port => d = e
      BY <1>1, <1>2, <1>4, <2>1, <2>2 DEF Serves, InTurn
    <3> QED BY <1>2, <1>5, <2>1, <2>2, <3>1, <3>2 DEF Serves, InTurn, Back
  <2>7. Unlike({"crash", "slow", "late", "fault", "stopped", "abandoned"})'
           /\ "healthy" \in history' => Returns(y)'
    <3> SUFFICES ASSUME Recorded(x) PROVE Returns(y)'
      BY <1>2, <1>3 DEF Agrees, Unlike
    <3> QED BY <1>2, <1>5, <1>6, <2>1, <2>2 DEF Returns, SomeServes, Forth, Back, Pausing
  <2>8. Agrees(y)'
    BY <2>2, <2>3, <2>4, <2>5, <2>6, <2>7 DEF Agrees
  <2> QED BY <1>2, <2>1, <2>8, AgreeOps
<1>9. CASE x.kind = "start" /\ Finish(o)
  <2>1. TokensTell(Idle)'
    BY <1>1, <1>2, <1>4, IdleIs DEF TokensTell, Starting
  <2>2. Unlike({"crash", "slow", "late"})' => Recorded(Idle)'
    BY <1>1, <1>2, <1>3, <1>4, <1>7, IdleIs DEF Agrees, Recorded, Live
  <2>3. ~Unlike({"crash", "slow", "late", "started"})'
    BY <1>2, <1>3, <1>9 DEF Agrees, Few
  <2>4. Unlike({"crash", "slow", "late", "fault"})' => Serves(Idle)'
    <3> SUFFICES ASSUME Recorded(x), Serves(x) PROVE Serves(Idle)'
      BY <1>2, <1>3 DEF Agrees, Unlike
    <3>1. \A d \in Deployments : Says(d)' => Runs(d)'
      BY <1>1, <1>5, <1>6 DEF Serves
    <3> QED BY <3>1, IdleIs DEF Serves, Back
  <2>5. Unlike({"crash", "slow", "late", "fault", "stopped", "abandoned"})'
           /\ "healthy" \in history' => Returns(Idle)'
    <3> SUFFICES ASSUME Recorded(x) PROVE Returns(Idle)'
      BY <1>2, <1>3 DEF Agrees, Unlike
    <3> QED BY <1>2, <1>5, <1>6, IdleIs DEF Returns, SomeServes, Forth, Back, Pausing
  <2> QED BY <1>1, <1>2, <1>9, <2>1, <2>2, <2>3, <2>4, <2>5, AgreeEnds
<1>10. CASE Restoring(o) /\ GoTo(o, "restore")
  <2> PICK y : y = [x EXCEPT !.at = "restore"]
    OBVIOUS
  <2>1. /\ op' = [op EXCEPT ![o] = y] /\ y.kind = "deploy" /\ y.at = "restore" /\ y.dep = x.dep
        /\ y.cur = x.cur /\ y.token = x.token /\ x.kind = "deploy"
        /\ y.todo = x.todo /\ y.paused = x.paused /\ x.cur # x.dep
    BY <1>2, <1>10 DEF OpType, GoTo, Restoring
  <2>2. /\ Placed(y)' /\ Back(x) /\ Back(y) /\ ~Forth(y) /\ ~Pausing(y)
        /\ InTurn(y) = InTurn(x) /\ x.cur \in x.paused \ x.todo
    BY <1>1, <1>2, <2>1 DEF Placed, Deploying, Pausing, Back, Forth, Starting, InTurn
  <2>3. TokensTell(y)' /\ HasRows(y)'
    BY <1>1, <1>2, <1>4, <2>1 DEF TokensTell, HasRows, Starting
  <2>4. Unlike({"crash", "slow", "late"})' => Recorded(y)' /\ Staged(y)'
    <3> SUFFICES ASSUME Recorded(x), Staged(x) PROVE Recorded(y)' /\ Staged(y)'
      BY <1>2, <1>3 DEF Agrees
    <3>1. Recorded(y)'
      BY <1>1, <1>2, <1>4, <1>6, <1>7, <2>1 DEF Recorded, Live
    <3> QED BY <1>5, <2>1, <2>2, <3>1 DEF Staged, Forth, Back, Pausing
  <2>5. Unlike({"crash", "slow", "late", "started"})' => Few(y)'
    BY <1>1, <1>2, <1>3, <2>1, <2>2 DEF Agrees, Few, InTurn
  <2>6. Unlike({"crash", "slow", "late", "fault"})' => Serves(y)'
    <3> SUFFICES ASSUME Recorded(x), Serves(x) PROVE Serves(y)'
      BY <1>2, <1>3 DEF Agrees, Unlike
    <3>1. \A d \in Deployments : Says(d)' => Runs(d)'
      BY <1>1, <1>5, <1>6 DEF Serves
    <3>2. \A d, e \in InTurn(y) : row'[d].port = row'[e].port => d = e
      BY <1>1, <1>2, <1>4, <2>1, <2>2 DEF Serves, InTurn
    <3>3. \A d \in x.paused \ x.todo : Says(d)' /\ Runs(d)'
      BY <1>2, <1>5, <1>6, <2>2 DEF Serves
    <3> QED BY <1>2, <1>5, <2>1, <2>2, <3>1, <3>2, <3>3 DEF Serves, InTurn, Back
  <2>7. Unlike({"crash", "slow", "late", "fault", "stopped", "abandoned"})'
           /\ "healthy" \in history' => Returns(y)'
    BY <2>1, <2>2 DEF Returns, Forth, Back, Pausing
  <2>8. Agrees(y)'
    BY <2>2, <2>3, <2>4, <2>5, <2>6, <2>7 DEF Agrees
  <2> QED BY <1>2, <2>1, <2>8, AgreeOps
<1> QED BY <1>8, <1>9, <1>10 DEF Healthy

LEMMA AttachAgrees ==
  ASSUME AgreeNow, NEW o \in Operators, AttachMetadata(o)
  PROVE  AgreeState'
<1> PICK x \in OpType : x = op[o]
  BY Typed
<1>1. /\ x.at = "attach" /\ UNCHANGED <<vault, proc, history, ops>> /\ Finish(o)
      /\ row' = [row EXCEPT ![x.dep] = [status |-> "HEALTHY", pid |-> x.pid, port |-> x.port]]
  BY DEF AttachMetadata, At
<1>2. /\ op[o] # Idle /\ Agrees(x) /\ Placed(x) /\ TokensTell(x) /\ HasRows(x)
      /\ x.kind = "deploy" /\ x.dep \in Deployments /\ x.cur = x.dep
  BY <1>1, Known DEF Placed
<1>3. /\ \A d \in Deployments \ {x.dep} : row'[d] = row[d]
      /\ row'[x.dep].status = "HEALTHY" /\ row'[x.dep].pid = x.pid /\ row'[x.dep].port = x.port
  BY <1>1, <1>2, Typed
<1>4. TokensTell(Idle)'
  BY <1>1, <1>2, <1>3, IdleIs DEF TokensTell, HasRows, Starting
<1>5. Recorded(x) =>
        \A d \in Deployments : /\ row'[d].pid = row[d].pid /\ row'[d].port = row[d].port
                               /\ Runs(d)' <=> Runs(d)
                               /\ Says(d)' <=> Says(d) \/ d = x.dep
                               /\ Good(d) => Good(d)'
  BY <1>1, <1>2, <1>3 DEF Recorded, Runs, Says, Good, Live, Serving
<1>6. Unlike({"crash", "slow", "late"})' => Recorded(Idle)'
  <2> SUFFICES ASSUME Recorded(x) PROVE Recorded(Idle)'
    BY <1>1, <1>2, SameHistory DEF Agrees
  <2>1. \A p \in Pids : Live(p) => proc[p].dep \in Deployments /\ row'[proc[p].dep].pid = p
    BY <1>1, <1>5 DEF Recorded
  <2>2. \A d \in Deployments : Runs(d)' => proc[row'[d].pid].dep = d /\ Good(d)'
    BY <1>1, <1>5 DEF Recorded
  <2> QED BY <1>1, <2>1, <2>2, IdleIs DEF Recorded, Live
<1>7. Unlike({"crash", "slow", "late", "started"})' => Few(Idle)'
  <2> SUFFICES ASSUME Recorded(x), Staged(x) PROVE Few(Idle)'
    BY <1>1, <1>2, SameHistory DEF Agrees, Unlike
  <2> QED BY <1>1, <1>5, IdleIs DEF Staged, Few
<1>8. Unlike({"crash", "slow", "late", "fault"})' => Serves(Idle)'
  <2> SUFFICES ASSUME Recorded(x), Serves(x) PROVE Serves(Idle)'
    BY <1>1, <1>2, SameHistory DEF Agrees, Unlike
  <2> QED BY <1>1, <1>2, <1>5, IdleIs DEF Serves, Back
<1>9. Unlike({"crash", "slow", "late", "fault", "stopped", "abandoned"})'
         /\ "healthy" \in history' => Returns(Idle)'
  <2> SUFFICES ASSUME Recorded(x), Returns(x) PROVE Returns(Idle)'
    BY <1>1, <1>2, SameHistory DEF Agrees, Unlike
  <2> QED BY <1>1, <1>5, IdleIs DEF Returns, SomeServes, Pausing, Forth, Back
<1> QED BY <1>1, <1>2, <1>4, <1>6, <1>7, <1>8, <1>9, AgreeEnds

\* A candidate that does not start is ended, and what was paused is started again.
LEMMA FailsAgree ==
  ASSUME AgreeNow, NEW o \in Operators, op[o].kind = "deploy", ~Restoring(o),
         op[o].at \in {"spawn", "wait"}, NEW E, Note(E), "healthy" \notin E,
         Kill(row[op[o].dep].pid), Status(op[o].dep, "FAILED"), UNCHANGED <<vault, ops>>,
         op' = [op EXCEPT ![o].at = "restore", ![o].todo = op[o].paused]
  PROVE  AgreeState'
<1> PICK x \in OpType : x = op[o]
  BY Typed
<1> PICK y : y = [x EXCEPT !.at = "restore", !.todo = x.paused]
  OBVIOUS
<1>1. op' = [op EXCEPT ![o] = y]
  OBVIOUS
<1>2. /\ op[o] # Idle /\ Agrees(x) /\ Placed(x) /\ TokensTell(x) /\ HasRows(x)
      /\ x.kind = "deploy" /\ x.dep \in Deployments /\ x.cur = x.dep /\ x.at \in {"spawn", "wait"}
      /\ x.todo \subseteq Deployments /\ x.paused \subseteq Deployments
  BY Known DEF Restoring
<1>3. /\ y.kind = "deploy" /\ y.at = "restore" /\ y.dep = x.dep /\ y.cur = x.cur
      /\ y.todo = x.paused /\ y.paused = x.paused /\ y.token = x.token
  BY <1>2 DEF OpType
<1>4. /\ Placed(y)' /\ Forth(x) /\ Back(y) /\ ~Forth(y) /\ ~Pausing(y)
      /\ InTurn(y) \subseteq InTurn(x) /\ InTurn(x) \subseteq Deployments
  BY <1>2, <1>3 DEF Placed, Deploying, Pausing, Back, Forth, Starting, InTurn
<1>5. (\A S : Unlike(S)' => Unlike(S)) /\ ("healthy" \in history' => "healthy" \in history)
  BY Remembers
<1>6. /\ \A e \in Deployments : /\ row'[e].pid = row[e].pid /\ row'[e].port = row[e].port
                                /\ e # x.dep => row'[e] = row[e]
                                /\ row[e] # NoRow <=> row'[e] # NoRow
      /\ row'[x.dep].status = "FAILED"
  BY <1>2, Typed, StatusSets DEF Statuses, HasRows
<1>7. /\ \A p \in Pids : p # row[x.dep].pid => proc'[p] = proc[p]
      /\ \A p : Live(p)' <=> Live(p) /\ p # row[x.dep].pid
      /\ \A p \in Pids : proc'[p].dep = proc[p].dep
      /\ \A p \in Pids : proc'[p].state = "hung" => proc[p].state = "hung"
  BY Typed, KillEnds
<1>8. TokensTell(y)' /\ HasRows(y)'
  BY <1>2, <1>3, <1>6 DEF TokensTell, HasRows, Starting
<1>9. \A d \in Deployments : /\ Runs(d)' <=> Runs(d) /\ row[d].pid # row[x.dep].pid
                             /\ Says(d)' <=> Says(d) /\ d # x.dep
  BY <1>2, <1>6, <1>7 DEF Runs, Says
<1>10. Staged(x) => \A d \in Deployments : ~Says(d)' /\ ~Runs(d)'
  BY <1>2, <1>4, <1>9 DEF Staged
<1>11. Unlike({"crash", "slow", "late"})' => Recorded(y)' /\ Staged(y)'
  <2> SUFFICES ASSUME Recorded(x), Staged(x) PROVE Recorded(y)' /\ Staged(y)'
    BY <1>2, <1>5 DEF Agrees
  <2>1. \A p \in Pids : Live(p)' => proc'[p].dep \in Deployments /\ row'[proc'[p].dep].pid = p
    BY <1>2, <1>6, <1>7 DEF Recorded
  <2>2. Recorded(y)'
    BY <1>3, <1>7, <1>10, <2>1 DEF Recorded
  <2> QED BY <1>3, <1>4, <1>10, <2>2 DEF Staged
<1>12. Unlike({"crash", "slow", "late", "started"})' => Few(y)'
  BY <1>2, <1>3, <1>4, <1>5 DEF Agrees, Few, InTurn
<1>13. Unlike({"crash", "slow", "late", "fault"})' => Serves(y)'
  <2> SUFFICES ASSUME Staged(x), Serves(x) PROVE Serves(y)'
    BY <1>2, <1>5 DEF Agrees, Unlike
  <2>1. \A d, e \in InTurn(y) : row'[d].port = row'[e].port => d = e
    BY <1>2, <1>4, <1>6 DEF Serves
  <2> QED BY <1>3, <1>4, <1>10, <2>1 DEF Serves, InTurn, Starting
<1>14. Unlike({"crash", "slow", "late", "fault", "stopped", "abandoned"})'
         /\ "healthy" \in history' => Returns(y)'
  BY <1>2, <1>3, <1>4, <1>5 DEF Agrees, Returns, Forth, Back, Pausing
<1>15. Agrees(y)'
  BY <1>4, <1>8, <1>11, <1>12, <1>13, <1>14 DEF Agrees
<1> QED BY <1>1, <1>2, <1>15, AgreeOps

\* A deploy that fails, before it has started the process or after.
LEMMA DeployFailsAgrees ==
  ASSUME AgreeNow, NEW o \in Operators, DeployFails(o) \/ SpawnFails(o)
  PROVE  AgreeState'
<1>1. CASE DeployFails(o)
  <2> PICK E \in SUBSET {"slow"} : Unanswered(o, E) /\ Note(E)
    BY <1>1 DEF DeployFails
  <2>1. "healthy" \notin E /\ op[o].at = "wait"
    BY DEF Unanswered, At
  <2> QED BY <1>1, <2>1, FailsAgree DEF DeployFails
<1>2. CASE SpawnFails(o)
  <2>1. /\ op[o].at = "spawn" /\ op[o].kind = "deploy" /\ op[o].cur = op[o].dep
    BY <1>2 DEF SpawnFails, At, Restoring
  <2>2. row[op[o].dep] # NoRow
    BY <2>1, Known DEF HasRows
  <2>3. Note({})
    BY <1>2, <2>2 DEF SpawnFails, Note
  <2> QED BY <1>2, <2>1, <2>2, <2>3, FailsAgree DEF SpawnFails
<1> QED BY <1>1, <1>2

LEMMA RestoreFailsAgrees ==
  ASSUME AgreeNow, NEW o \in Operators, RestoreFails(o)
  PROVE  AgreeState'
<1> PICK x \in OpType : x = op[o]
  BY Typed
<1> PICK E \in SUBSET {"slow"} : Unanswered(o, E) /\ Note(E)
  BY DEF RestoreFails
<1> PICK y : y = [x EXCEPT !.at = "restore"]
  OBVIOUS
<1>1. /\ x.at = "wait" /\ x.kind = "deploy" /\ x.cur # x.dep /\ UNCHANGED <<vault, proc, ops>>
      /\ Status(x.cur, "DEGRADED") /\ op' = [op EXCEPT ![o] = y]
      /\ Live(x.pid) => "slow" \in E
  BY DEF RestoreFails, Unanswered, At, Restoring, GoTo
<1>2. /\ op[o] # Idle /\ Agrees(x) /\ Placed(x) /\ TokensTell(x) /\ HasRows(x)
      /\ x.cur \in Deployments /\ x.dep \in Deployments
      /\ x.todo \subseteq Deployments /\ x.paused \subseteq Deployments
  BY <1>1, Known
<1>3. /\ y.kind = "deploy" /\ y.at = "restore" /\ y.dep = x.dep /\ y.cur = x.cur
      /\ y.todo = x.todo /\ y.paused = x.paused /\ y.token = x.token
  BY <1>1, <1>2 DEF OpType
<1>4. /\ Placed(y)' /\ Back(x) /\ Back(y) /\ ~Forth(y) /\ ~Pausing(y) /\ InTurn(y) = InTurn(x)
  BY <1>1, <1>2, <1>3 DEF Placed, Deploying, Pausing, Back, Forth, Starting, InTurn
<1>5. \A S : (Unlike(S)' => Unlike(S)) /\ ("slow" \in S /\ Unlike(S)' => ~Live(x.pid))
  BY <1>1, Remembers
<1>6. /\ \A e \in Deployments : /\ row'[e].pid = row[e].pid /\ row'[e].port = row[e].port
                                /\ e # x.cur => row'[e] = row[e]
                                /\ row[e] # NoRow <=> row'[e] # NoRow
      /\ row'[x.cur].status = "DEGRADED"
  BY <1>1, <1>2, Typed, StatusSets DEF Statuses, HasRows
<1>7. TokensTell(y)' /\ HasRows(y)'
  BY <1>1, <1>2, <1>3, <1>6 DEF TokensTell, HasRows, Starting
<1>8. \A d \in Deployments : /\ Runs(d)' <=> Runs(d)
                             /\ Says(d)' <=> Says(d) /\ d # x.cur
                             /\ d # x.cur /\ Good(d) => Good(d)'
  BY <1>1, <1>2, <1>6 DEF Runs, Says, Good, Live, Serving
<1>9. Unlike({"crash", "slow", "late"})' => Recorded(y)' /\ Staged(y)'
  <2> SUFFICES ASSUME Recorded(x), Staged(x), ~Live(x.pid) PROVE Recorded(y)' /\ Staged(y)'
    BY <1>2, <1>5 DEF Agrees
  <2>1. ~Runs(x.cur)
    BY <1>1 DEF Recorded, Runs
  <2>2. \A p \in Pids : Live(p) => proc[p].dep \in Deployments /\ row'[proc[p].dep].pid = p
    BY <1>1, <1>6 DEF Recorded
  <2>3. \A d \in Deployments : Runs(d)' => proc[row'[d].pid].dep = d /\ Good(d)'
    BY <1>1, <1>6, <1>8, <2>1 DEF Recorded
  <2>4. Recorded(y)'
    BY <1>1, <1>3, <2>2, <2>3 DEF Recorded, Live
  <2> QED BY <1>3, <1>4, <1>8, <2>4 DEF Staged
<1>10. Unlike({"crash", "slow", "late", "started"})' => Few(y)'
  BY <1>1, <1>2, <1>3, <1>4, <1>5 DEF Agrees, Few, InTurn
<1>11. ~Unlike({"crash", "slow", "late", "fault"})'
  BY <1>1, <1>2, <1>4, <1>5 DEF Agrees, Serves
<1>12. ~Unlike({"crash", "slow", "late", "fault", "stopped", "abandoned"})'
  BY <1>11 DEF Unlike
<1>13. Agrees(y)'
  BY <1>4, <1>7, <1>9, <1>10, <1>11, <1>12 DEF Agrees
<1> QED BY <1>1, <1>2, <1>13, AgreeOps

LEMMA RestoreAgrees ==
  ASSUME AgreeNow, NEW o \in Operators, RestoreNext(o)
  PROVE  AgreeState'
<1> PICK x \in OpType : x = op[o]
  BY Typed
<1>1. x.at = "restore" /\ UNCHANGED <<vault, proc, ops>>
  BY DEF RestoreNext, At
<1>2. /\ op[o] # Idle /\ Agrees(x) /\ Placed(x) /\ TokensTell(x) /\ HasRows(x)
      /\ x.kind = "deploy" /\ x.dep \in Deployments
      /\ x.todo \subseteq Deployments /\ x.paused \subseteq Deployments
  BY <1>1, Known
<1> PICK c \in x.todo : Starts(o, c)
  BY <1>2 DEF RestoreNext, HasRows
<1>3. c \in Deployments /\ c # x.dep /\ c \in x.paused /\ row[c] # NoRow /\ Back(x)
  BY <1>1, <1>2 DEF Placed, Back, HasRows
<1>4. Recorded(x) /\ Staged(x) => ~Runs(c)
  BY <1>3 DEF Staged
<1>5. CASE Matches(c) /\ HealthOk(row[c].port)
  <2> PICK y : y = [x EXCEPT !.cur = x.dep, !.todo = @ \ {c}]
    OBVIOUS
  <2>1. /\ op' = [op EXCEPT ![o] = y] /\ Status(c, "HEALTHY") /\ Note({"healthy"})
    BY <1>5 DEF Starts
  <2>2. /\ y.kind = "deploy" /\ y.at = "restore" /\ y.dep = x.dep /\ y.cur = x.dep
        /\ y.todo = x.todo \ {c} /\ y.paused = x.paused /\ y.token = x.token
    BY <1>1, <1>2 DEF OpType
  <2>3. \A e \in Deployments : row[e] # NoRow <=> row'[e] # NoRow
    BY <1>3, <2>1, Typed, StatusSets DEF Statuses
  <2>4. Placed(y)'
    BY <1>1, <1>2, <1>3, <2>2 DEF Placed, Deploying, Pausing, Back, Starting
  <2>5. TokensTell(y)' /\ HasRows(y)'
    BY <1>1, <1>2, <2>2, <2>3 DEF TokensTell, HasRows, Starting
  <2>6. ~Unlike({"crash", "slow", "late"})'
    <3>1. Runs(c)
      BY <1>5 DEF Matches, Runs
    <3> QED BY <1>2, <1>4, <2>1, <3>1, Remembers DEF Agrees
  <2>7. Agrees(y)'
    BY <2>4, <2>5, <2>6 DEF Agrees, Unlike
  <2> QED BY <1>2, <2>1, <2>7, AgreeOps
<1>6. CASE ~(Matches(c) /\ HealthOk(row[c].port))
  <2> PICK y : y = [x EXCEPT !.at = "spawn", !.cur = c, !.todo = @ \ {c},
                             !.port = row[c].port, !.token = vault[c]]
    OBVIOUS
  <2>1. op' = [op EXCEPT ![o] = y] /\ UNCHANGED <<row, history>>
    BY <1>6 DEF Starts
  <2>2. /\ y.kind = "deploy" /\ y.at = "spawn" /\ y.dep = x.dep /\ y.cur = c
        /\ y.todo = x.todo \ {c} /\ y.paused = x.paused
        /\ y.port = row[c].port /\ y.token = vault[c]
    BY <1>1, <1>2 DEF OpType
  <2>3. /\ Placed(y)' /\ Back(y) /\ ~Forth(y) /\ ~Pausing(y)
        /\ InTurn(y) \subseteq InTurn(x) /\ InTurn(x) \subseteq Deployments
    BY <1>1, <1>2, <1>3, <2>2 DEF Placed, Deploying, Pausing, Back, Forth, Starting, InTurn
  <2>4. TokensTell(y)' /\ HasRows(y)'
    BY <1>1, <1>2, <1>3, <2>1, <2>2 DEF TokensTell, HasRows, Starting
  <2>5. \A d \in Deployments : (Runs(d)' <=> Runs(d)) /\ (Says(d)' <=> Says(d))
    BY <1>1, <2>1 DEF Runs, Says, Live
  <2>6. Unlike({"crash", "slow", "late"})' => Recorded(y)' /\ Staged(y)'
    <3> SUFFICES ASSUME Recorded(x), Staged(x) PROVE Recorded(y)' /\ Staged(y)'
      BY <1>2, <2>1, SameHistory DEF Agrees
    <3>1. Recorded(y)'
      BY <1>1, <1>2, <1>3, <1>4, <2>1, <2>2 DEF Recorded, Good, Says, Runs, Live, Serving
    <3> QED BY <1>1, <1>3, <2>2, <2>3, <2>5, <3>1 DEF Staged
  <2>7. Unlike({"crash", "slow", "late", "started"})' => Few(y)'
    BY <1>1, <1>2, <2>1, <2>2, <2>3, SameHistory DEF Agrees, Few, InTurn
  <2>8. Unlike({"crash", "slow", "late", "fault"})' => Serves(y)'
    <3> SUFFICES ASSUME Serves(x) PROVE Serves(y)'
      BY <1>2, <2>1, SameHistory DEF Agrees, Unlike
    <3>1. \A d, e \in InTurn(y) : row'[d].port = row'[e].port => d = e
      BY <1>1, <1>2, <2>1, <2>3 DEF Serves
    <3>2. \A d \in Deployments : Says(d)' => Runs(d)'
      BY <1>1, <2>5 DEF Serves
    <3>3. \A d \in x.paused \ x.todo : Says(d)' /\ Runs(d)'
      BY <1>1, <1>2, <1>3, <2>5 DEF Serves, Starting
    <3> QED BY <2>2, <2>3, <3>1, <3>2, <3>3 DEF Serves, InTurn, Starting
  <2>9. Unlike({"crash", "slow", "late", "fault", "stopped", "abandoned"})'
           /\ "healthy" \in history' => Returns(y)'
    BY <1>3, <2>2, <2>3 DEF Returns, Forth, Back, Pausing
  <2>10. Agrees(y)'
    BY <2>3, <2>4, <2>6, <2>7, <2>8, <2>9 DEF Agrees
  <2> QED BY <1>2, <2>1, <2>10, AgreeOps
<1> QED BY <1>5, <1>6

LEMMA StartAgrees ==
  ASSUME AgreeNow, NEW o \in Operators, StartBegins(o)
  PROVE  AgreeState'
<1> PICK x \in OpType : x = op[o]
  BY Typed
<1>1. x.at = "begin" /\ x.kind = "start" /\ UNCHANGED <<vault, proc, ops>>
  BY DEF StartBegins, At
<1>2. /\ op[o] # Idle /\ Agrees(x) /\ Placed(x) /\ TokensTell(x) /\ HasRows(x)
      /\ x.cur \in Deployments /\ x.cur = x.dep /\ row[x.cur] # NoRow
      /\ x.todo \subseteq Deployments /\ x.paused \subseteq Deployments
  BY <1>1, Known DEF Placed, HasRows
<1> PICK d \in Deployments : d = x.dep
  BY <1>2
<1>3. (\A S : Unlike(S)' => Unlike(S)) /\ ~Unlike({"started", "crash", "slow", "late"})
  <2>1. \A S : Unlike(S)' => Unlike(S)
    BY SameHistory, Remembers DEF StartBegins
  <2> QED BY <1>1, <1>2, <2>1 DEF Agrees, Few, Unlike
<1>4. ~Unlike({"crash", "slow", "late", "started"})'
  BY <1>3 DEF Unlike
<1>5. CASE Matches(d) /\ HealthOk(row[d].port)
  <2>1. Status(d, "HEALTHY") /\ Finish(o) /\ Note({"healthy"})
    BY <1>2, <1>5 DEF StartBegins
  <2>2. /\ \A e \in Deployments : /\ row'[e].pid = row[e].pid /\ row'[e].port = row[e].port
                                  /\ e # d => row'[e] = row[e]
                                  /\ row[e] # NoRow <=> row'[e] # NoRow
        /\ row'[d].status = "HEALTHY"
    BY <1>2, <2>1, Typed, StatusSets DEF Statuses
  <2>3. TokensTell(Idle)'
    BY <1>1, <1>2, <2>2, IdleIs DEF TokensTell, Starting
  <2>4. Runs(d) /\ \A e \in Deployments : /\ Runs(e)' <=> Runs(e)
                                          /\ Says(e)' <=> Says(e) \/ e = d
                                          /\ Good(e) => Good(e)'
    BY <1>1, <1>5, <2>2 DEF Runs, Says, Good, Live, Serving, Matches
  <2>5. Unlike({"crash", "slow", "late"})' => Recorded(Idle)'
    <3> SUFFICES ASSUME Recorded(x) PROVE Recorded(Idle)'
      BY <1>2, <1>3 DEF Agrees
    <3>1. \A p \in Pids : Live(p) => proc[p].dep \in Deployments /\ row'[proc[p].dep].pid = p
      BY <1>1, <2>2 DEF Recorded
    <3>2. \A e \in Deployments : Runs(e)' => proc[row'[e].pid].dep = e /\ Good(e)'
      BY <1>1, <2>2, <2>4 DEF Recorded
    <3> QED BY <1>1, <3>1, <3>2, IdleIs DEF Recorded, Live
  <2>6. Unlike({"crash", "slow", "late", "fault"})' => Serves(Idle)'
    <3> SUFFICES ASSUME Serves(x) PROVE Serves(Idle)'
      BY <1>2, <1>3 DEF Agrees
    <3> QED BY <1>1, <2>4, IdleIs DEF Serves, Back
  <2>7. Unlike({"crash", "slow", "late", "fault", "stopped", "abandoned"})'
           /\ "healthy" \in history' => Returns(Idle)'
    BY <2>4, IdleIs DEF Returns, SomeServes, Pausing, Forth, Back
  <2> QED BY <1>1, <1>2, <1>4, <2>1, <2>3, <2>5, <2>6, <2>7, AgreeEnds
<1>6. CASE ~(Matches(d) /\ HealthOk(row[d].port))
  <2> PICK y : y = [x EXCEPT !.at = "spawn", !.port = row[d].port, !.token = vault[d]]
    OBVIOUS
  <2>1. op' = [op EXCEPT ![o] = y] /\ UNCHANGED <<row, history>>
    BY <1>2, <1>6 DEF StartBegins
  <2>2. /\ y.kind = "start" /\ y.at = "spawn" /\ y.dep = d /\ y.cur = d
        /\ y.todo = x.todo /\ y.paused = x.paused
        /\ y.port = row[d].port /\ y.token = vault[d]
    BY <1>1, <1>2 DEF OpType
  <2>3. /\ Placed(y)' /\ ~Back(y) /\ ~Forth(y) /\ ~Pausing(y)
    BY <1>1, <1>2, <2>2 DEF Placed, Deploying, Pausing, Back, Forth, Starting
  <2>4. TokensTell(y)' /\ HasRows(y)'
    BY <1>1, <1>2, <2>1, <2>2 DEF TokensTell, HasRows, Starting
  <2>5. \A e \in Deployments : (Runs(e)' <=> Runs(e)) /\ (Says(e)' <=> Says(e))
    BY <1>1, <2>1 DEF Runs, Says, Live
  <2>6. Unlike({"crash", "slow", "late"})' => Recorded(y)' /\ Staged(y)'
    <3> SUFFICES ASSUME Recorded(x) PROVE Recorded(y)' /\ Staged(y)'
      BY <1>2, <2>1, SameHistory DEF Agrees
    <3>1. ~Runs(d)
      <4>1. Runs(d) => Good(d)
        BY <1>1 DEF Recorded
      <4> QED BY <1>6, <4>1 DEF Good, Runs, Matches, HealthOk, Serving
    <3>2. \A e \in Deployments : Runs(e)' => proc'[row'[e].pid].dep = e /\ Good(e)'
      BY <1>1, <2>1 DEF Recorded, Good, Says, Runs, Live, Serving
    <3>3. \A p \in Pids : /\ proc'[p].state # "hung"
                          /\ Live(p)' => proc'[p].dep \in Deployments /\ row'[proc'[p].dep].pid = p
      BY <1>1, <2>1 DEF Recorded, Live
    <3>4. Recorded(y)'
      BY <2>2, <2>5, <3>1, <3>2, <3>3 DEF Recorded
    <3> QED BY <2>2, <2>3, <3>4 DEF Staged
  <2>7. Unlike({"crash", "slow", "late", "fault"})' => Serves(y)'
    BY <1>1, <1>2, <2>1, <2>2, <2>3, <2>5, SameHistory DEF Agrees, Serves
  <2>8. Unlike({"crash", "slow", "late", "fault", "stopped", "abandoned"})'
           /\ "healthy" \in history' => Returns(y)'
    BY <1>1, <1>2, <2>1, <2>2, <2>3, <2>5, SameHistory DEF Agrees, Returns, SomeServes
  <2>9. Agrees(y)'
    BY <1>4, <2>3, <2>4, <2>6, <2>7, <2>8 DEF Agrees
  <2> QED BY <1>2, <2>1, <2>9, AgreeOps
<1> QED BY <1>5, <1>6

LEMMA StoppedAgrees ==
  ASSUME AgreeNow, NEW o \in Operators, RecordStopped(o)
  PROVE  AgreeState'
<1> PICK x \in OpType : x = op[o]
  BY Typed
<1>1. x.at = "stop" /\ UNCHANGED <<vault, proc, history, ops>>
  BY DEF RecordStopped, At
<1>2. /\ op[o] # Idle /\ Agrees(x) /\ Placed(x) /\ TokensTell(x) /\ HasRows(x)
      /\ x.kind \in {"stop", "remove"}
      /\ x.cur \in Deployments /\ x.cur = x.dep /\ row[x.cur] # NoRow
      /\ x.todo \subseteq Deployments /\ x.paused \subseteq Deployments
  BY <1>1, Known DEF Placed, HasRows, Deploying, Starting
<1>3. Status(x.cur, "STOPPED") /\ IF x.kind = "stop" THEN Finish(o) ELSE GoTo(o, "remove")
  BY <1>2 DEF RecordStopped
<1>4. /\ \A e \in Deployments : /\ row'[e].pid = row[e].pid /\ row'[e].port = row[e].port
                                /\ e # x.cur => row'[e] = row[e]
                                /\ row[e] # NoRow <=> row'[e] # NoRow
      /\ row'[x.cur].status = "STOPPED"
  BY <1>2, <1>3, Typed, StatusSets DEF Statuses
<1>5. \A e \in Deployments : /\ Runs(e)' <=> Runs(e)
                             /\ Says(e)' <=> Says(e) /\ e # x.cur
                             /\ e # x.cur /\ Good(e) => Good(e)'
  BY <1>1, <1>2, <1>4 DEF Runs, Says, Good, Live, Serving
<1>6. Recorded(x) =>
        /\ \A p \in Pids : Live(p) => proc[p].dep \in Deployments /\ row'[proc[p].dep].pid = p
        /\ \A e \in Deployments : Runs(e)' => proc[row'[e].pid].dep = e /\ Good(e)'
        /\ ~Runs(x.cur)
  BY <1>1, <1>2, <1>4, <1>5 DEF Recorded
<1>7. \A S : Unlike(S)' <=> Unlike(S)
  BY <1>1, SameHistory
<1>8. ~(Unlike({"crash", "slow", "late", "fault", "stopped", "abandoned"})'
          /\ "healthy" \in history')
  BY <1>1, <1>2, <1>7 DEF Agrees, Returns
<1>9. CASE x.kind = "stop"
  <2>1. TokensTell(Idle)'
    BY <1>1, <1>2, <1>4, IdleIs DEF TokensTell, Starting
  <2>2. Unlike({"crash", "slow", "late"})' => Recorded(Idle)'
    BY <1>1, <1>2, <1>6, <1>7, IdleIs DEF Agrees, Recorded, Live
  <2>3. Unlike({"crash", "slow", "late", "started"})' => Few(Idle)'
    BY <1>2, <1>5, <1>7, IdleIs DEF Agrees, Few
  <2>4. Unlike({"crash", "slow", "late", "fault"})' => Serves(Idle)'
    BY <1>1, <1>2, <1>5, <1>7, IdleIs DEF Agrees, Serves, Back
  <2> QED BY <1>1, <1>2, <1>3, <1>8, <1>9, <2>1, <2>2, <2>3, <2>4, AgreeEnds
<1>10. CASE x.kind = "remove"
  <2> PICK y : y = [x EXCEPT !.at = "remove"]
    OBVIOUS
  <2>1. /\ op' = [op EXCEPT ![o] = y] /\ y.kind = "remove" /\ y.at = "remove" /\ y.dep = x.dep
        /\ y.cur = x.cur /\ y.todo = x.todo /\ y.paused = x.paused
    BY <1>3, <1>10 DEF GoTo, OpType
  <2>2. Placed(y)' /\ ~Back(y) /\ ~Forth(y) /\ ~Pausing(y)
    BY <1>2, <2>1 DEF Placed, Deploying, Pausing, Back, Forth, Starting
  <2>3. TokensTell(y)' /\ HasRows(y)'
    BY <1>1, <1>2, <1>4, <2>1 DEF TokensTell, HasRows, Starting
  <2>4. Unlike({"crash", "slow", "late"})' => Recorded(y)' /\ Staged(y)'
    <3> SUFFICES ASSUME Recorded(x) PROVE Recorded(y)' /\ Staged(y)'
      BY <1>2, <1>7 DEF Agrees
    <3>1. Recorded(y)'
      BY <1>1, <1>2, <1>5, <1>6, <2>1 DEF Recorded, Live
    <3> QED BY <2>1, <2>2, <3>1 DEF Staged
  <2>5. Unlike({"crash", "slow", "late", "started"})' => Few(y)'
    BY <1>2, <1>5, <1>7, <2>1 DEF Agrees, Few
  <2>6. Unlike({"crash", "slow", "late", "fault"})' => Serves(y)'
    BY <1>1, <1>2, <1>5, <1>7, <2>1, <2>2 DEF Agrees, Serves
  <2>7. Agrees(y)'
    BY <1>8, <2>2, <2>3, <2>4, <2>5, <2>6 DEF Agrees
  <2> QED BY <1>2, <2>1, <2>7, AgreeOps
<1> QED BY <1>2, <1>9, <1>10

LEMMA RemovedAgrees ==
  ASSUME AgreeNow, NEW o \in Operators, RemoveRow(o)
  PROVE  AgreeState'
<1> PICK x \in OpType : x = op[o]
  BY Typed
<1>1. x.at = "remove" /\ UNCHANGED <<vault, proc, history, ops>> /\ Finish(o)
  BY DEF RemoveRow, At
<1>2. /\ op[o] # Idle /\ Agrees(x) /\ Placed(x) /\ TokensTell(x) /\ x.kind = "remove"
      /\ x.cur \in Deployments /\ x.cur = x.dep
  BY <1>1, Known DEF Placed, Deploying, Starting
<1>3. CASE UNCHANGED row
  BY <1>3, EndingsAgree
<1>4. CASE row' = [row EXCEPT ![x.dep] = NoRow]
  <2>1. /\ \A e \in Deployments \ {x.cur} : row'[e] = row[e]
        /\ row'[x.cur] = NoRow /\ NoRow.pid = 0 /\ NoRow.status = None
    BY <1>2, <1>4, Typed DEF NoRow
  <2>2. TokensTell(Idle)'
    BY <1>1, <1>2, <2>1, IdleIs DEF TokensTell, Starting
  <2>3. \A e \in Deployments : /\ Runs(e)' <=> Runs(e) /\ e # x.cur
                               /\ Says(e)' <=> Says(e) /\ e # x.cur
                               /\ e # x.cur /\ Good(e) => Good(e)'
    BY <1>1, <1>2, <2>1 DEF Runs, Says, Good, Live, Serving, Pids, None
  <2>4. \A S : Unlike(S)' <=> Unlike(S)
    BY <1>1, SameHistory
  <2>5. Unlike({"crash", "slow", "late"})' => Recorded(Idle)'
    <3> SUFFICES ASSUME Recorded(x) PROVE Recorded(Idle)'
      BY <1>2, <2>4 DEF Agrees
    <3>1. \A p \in Pids : Live(p) => proc[p].dep \in Deployments /\ row'[proc[p].dep].pid = p
      BY <1>1, <1>2, <2>1 DEF Recorded, Runs
    <3>2. \A e \in Deployments : Runs(e)' => proc[row'[e].pid].dep = e /\ Good(e)'
      BY <1>1, <2>1, <2>3 DEF Recorded
    <3> QED BY <1>1, <3>1, <3>2, IdleIs DEF Recorded, Live
  <2>6. Unlike({"crash", "slow", "late", "started"})' => Few(Idle)'
    BY <1>2, <2>3, <2>4, IdleIs DEF Agrees, Few
  <2>7. Unlike({"crash", "slow", "late", "fault"})' => Serves(Idle)'
    BY <1>1, <1>2, <2>3, <2>4, IdleIs DEF Agrees, Serves, Back
  <2>8. ~(Unlike({"crash", "slow", "late", "fault", "stopped", "abandoned"})'
            /\ "healthy" \in history')
    BY <1>1, <1>2, <2>4 DEF Agrees, Returns
  <2> QED BY <1>1, <1>2, <2>2, <2>5, <2>6, <2>7, <2>8, AgreeEnds
<1> QED BY <1>3, <1>4 DEF RemoveRow

\* A row does not go while its operation waits.
LEMMA RowStays ==
  ASSUME AgreeNow, NEW o \in Operators
  PROVE  ~RowGone(o)
<1> SUFFICES ASSUME op[o].at = "wait" PROVE row[op[o].cur] # NoRow
  BY DEF RowGone, At
<1> QED BY Known DEF HasRows

-----------------------------------------------------------------------------
(* What no operation does: the refresh, the processes, and what fails.      *)

\* x is the operation under way, if any.
LEMMA AgreeOutside ==
  ASSUME AgreeNow, UNCHANGED op, NEW x, x = Current, Agrees(x)'
  PROVE  AgreeState'
<1>1. Current' = x /\ OneAtATime'
  BY DEF AgreeNow, AgreeState, Current, Quiet, Busy, OneAtATime
<1> QED BY <1>1 DEF AgreeState, Agrees, Placed, TokensTell, HasRows, Recorded, Good,
    Staged, Few, Serves, Returns, SomeServes, Says, Runs

LEMMA CurrentNamed ==
  ASSUME AgreeNow, NEW x, x = Current
  PROVE  /\ Agrees(x) /\ Placed(x) /\ TokensTell(x) /\ HasRows(x)
         /\ x.todo \subseteq Deployments /\ x.paused \subseteq Deployments
         /\ x.kind \in {"idle", "deploy", "start", "stop", "remove"}
         /\ x.kind # "idle" => x.dep \in Deployments /\ x.cur \in Deployments
         /\ x.at # "end" => x.kind # "idle"
<1>1. CASE Quiet
  BY <1>1, IdleIs DEF AgreeNow, AgreeState, Current, Agrees
<1>2. CASE ~Quiet
  <2> PICK o \in Operators : o \in Busy
    BY <1>2 DEF Quiet, Busy
  <2>1. op[o] # Idle
    BY DEF Busy
  <2>2. x = op[o]
    BY <2>1, CurrentIs DEF AgreeNow, AgreeState
  <2> QED BY <2>1, <2>2, UnderWay DEF Agrees
<1> QED BY <1>1, <1>2

\* After a crash, a slow answer or a late one nothing is promised of the processes.
LEMMA AgreeLost ==
  ASSUME AgreeNow, UNCHANGED <<vault, op, ops>>, ~Unlike({"crash", "slow", "late"})',
         \A d \in Deployments : row'[d].port = row[d].port /\ (row[d] = NoRow <=> row'[d] = NoRow)
  PROVE  AgreeState'
<1> PICK x : x = Current
  OBVIOUS
<1>1. /\ Agrees(x) /\ Placed(x) /\ TokensTell(x) /\ HasRows(x)
      /\ x.todo \subseteq Deployments /\ x.paused \subseteq Deployments
      /\ x.kind # "idle" => x.cur \in Deployments
      /\ x.at \in Starting => x.kind # "idle"
  BY CurrentNamed DEF Starting
<1>2. Placed(x)'
  BY <1>1 DEF Placed, Pausing, Back
<1>3. TokensTell(x)' /\ HasRows(x)'
  BY <1>1 DEF TokensTell, HasRows
<1>4. Agrees(x)'
  BY <1>2, <1>3 DEF Agrees, Unlike
<1> QED BY <1>4, AgreeOutside

LEMMA SameAgrees ==
  ASSUME AgreeState, UNCHANGED <<row, vault, proc, op, history, ops>>
  PROVE  AgreeState'
<1> PICK x : x = Current
  OBVIOUS
<1>1. Current' = x /\ OneAtATime'
  BY DEF AgreeState, Current, Quiet, Busy, OneAtATime
<1> QED BY <1>1 DEF AgreeState, Agrees, Placed, TokensTell, HasRows, Recorded, Good,
    Staged, Few, Serves, Returns, SomeServes, Says, Runs, Live, Serving, Unlike

\* In time, the refresh only tells that a process has ended.
LEMMA WriteAgrees ==
  ASSUME AgreeNow, WriteCheck
  PROVE  AgreeState'
<1> PICK x : x = Current
  OBVIOUS
<1> PICK d \in Deployments : d = check.dep
  BY DEF WriteCheck, AgreeNow, Base, Named
<1>1. /\ UNCHANGED <<vault, proc, op, ops>>
      /\ check.expected \in Reconciled
  BY DEF WriteCheck, AgreeNow, Base, Named
<1>2. CASE row[d] = NoRow
  BY <1>1, <1>2, SameAgrees DEF WriteCheck, AgreeNow
<1>3. CASE row[d] # NoRow
  <2>1. Status(d, check.expected) /\ \E E : Note(E)
    BY <1>3 DEF WriteCheck
  <2>2. /\ \A e \in Deployments : /\ row'[e].pid = row[e].pid /\ row'[e].port = row[e].port
                                  /\ e # d => row'[e] = row[e]
                                  /\ row[e] # NoRow <=> row'[e] # NoRow
        /\ row'[d].status = check.expected
    BY <1>1, <1>3, <2>1, Typed, StatusSets DEF Statuses, Reconciled
  <2>3. CASE ~(row[d].status \in Reconciled /\ check.expected = Expected(d))
    <3>1. Note({"late"})
      BY <1>3, <2>3 DEF WriteCheck
    <3>2. ~Unlike({"crash", "slow", "late"})'
      BY <3>1, Remembers
    <3> QED BY <1>1, <2>2, <3>2, AgreeLost
  <2>4. CASE row[d].status \in Reconciled /\ check.expected = Expected(d)
    <3>1. UNCHANGED history
      BY <1>3, <2>4 DEF WriteCheck, Note
    <3>2. /\ Agrees(x) /\ Placed(x) /\ TokensTell(x) /\ HasRows(x)
          /\ x.todo \subseteq Deployments /\ x.paused \subseteq Deployments
          /\ x.kind # "idle" => x.cur \in Deployments /\ x.dep \in Deployments
          /\ x.at \in Starting \cup {"attach"} => x.kind # "idle"
      BY CurrentNamed DEF Starting
    <3>3. Placed(x)' /\ TokensTell(x)' /\ HasRows(x)'
      BY <1>1, <2>2, <3>2 DEF Placed, Pausing, Back, TokensTell, HasRows
    <3>4. \A e \in Deployments : Runs(e)' <=> Runs(e)
      BY <1>1, <2>2 DEF Runs, Live
    <3>5. Recorded(x) => /\ Runs(d) => Good(d) /\ check.expected = "HEALTHY"
                         /\ x.at = "wait" => d # x.cur
      BY <2>4, <3>2 DEF Recorded, Expected, Matches, HealthOk, Good, Runs, Reconciled, Serving, Live
    <3>6. ~Runs(d) => check.expected = "STOPPED"
      BY <2>4 DEF Expected, Matches, Runs
    <3>7. Recorded(x) =>
            \A e \in Deployments : /\ Says(e)' => Says(e)
                                   /\ Says(e) /\ Runs(e) => Says(e)'
                                   /\ Good(e) => Good(e)'
      BY <1>1, <2>2, <3>5, <3>6 DEF Says, Good, Runs, Live, Serving
    <3>8. \A S : Unlike(S)' <=> Unlike(S)
      BY <3>1, SameHistory
    <3>9. Unlike({"crash", "slow", "late"})' => Recorded(x)' /\ Staged(x)'
      <4> SUFFICES ASSUME Recorded(x), Staged(x) PROVE Recorded(x)' /\ Staged(x)'
        BY <3>2, <3>8 DEF Agrees
      <4>1. \A p \in Pids : Live(p)' =>
              /\ proc'[p].dep \in Deployments
              /\ \/ row'[proc'[p].dep].pid = p
                 \/ x.at = "record" /\ p = x.pid /\ proc'[p].dep = x.cur
        BY <1>1, <2>2 DEF Recorded, Live
      <4>2. \A e \in Deployments : Runs(e)' =>
              proc'[row'[e].pid].dep = e /\ (Good(e)' \/ (x.at = "wait" /\ e = x.cur))
        BY <1>1, <2>2, <3>4, <3>7 DEF Recorded
      <4>3. x.at = "wait" => row'[x.cur].pid = x.pid /\ row'[x.cur].status = "STARTING"
        BY <2>2, <3>2, <3>5 DEF Recorded, Starting
      <4>4. x.at = "attach" => row'[x.dep].pid = x.pid /\ row'[x.dep].port = x.port
        BY <2>2, <3>2 DEF Recorded
      <4>5. x.kind \in {"stop", "remove"} \/ x.at \in {"paused", "spawn", "record"} =>
              ~Runs(x.cur)'
        BY <3>2, <3>4, IdleIs DEF Recorded, Placed
      <4>6. x.at = "remove" => ~Says(x.cur)'
        BY <3>2, <3>7, IdleIs DEF Recorded, Placed
      <4>7. Recorded(x)'
        BY <1>1, <4>1, <4>2, <4>3, <4>4, <4>5, <4>6 DEF Recorded
      <4>8. Staged(x)'
        BY <3>2, <3>4, <3>7 DEF Staged, Pausing, Forth, Back
      <4> QED BY <4>7, <4>8
    <3>10. Unlike({"crash", "slow", "late", "started"})' => Few(x)'
      <4> SUFFICES ASSUME Recorded(x), Few(x) PROVE Few(x)'
        BY <3>2, <3>8 DEF Agrees, Unlike
      <4> QED BY <3>7 DEF Few, InTurn
    <3>11. Unlike({"crash", "slow", "late", "fault"})' => Serves(x)'
      <4> SUFFICES ASSUME Recorded(x), Serves(x) PROVE Serves(x)'
        BY <3>2, <3>8 DEF Agrees, Unlike
      <4>1. \A e \in Deployments : Says(e)' =>
              Runs(e)' \/ (x.at \in {"paused", "stop"} /\ e = x.cur)
        BY <3>4, <3>7 DEF Serves
      <4>2. x.kind = "deploy" /\ x.at # "enter" =>
              \A e, f \in InTurn(x) : row'[e].port = row'[f].port => e = f
        <5>1. x.kind = "deploy" => InTurn(x) \subseteq Deployments
          BY <3>2 DEF InTurn
        <5> QED BY <2>2, <5>1 DEF Serves
      <4>3. Back(x) => /\ \A e \in x.paused \ x.todo :
                            (Says(e)' /\ Runs(e)') \/ (x.at \in Starting /\ e = x.cur)
                       /\ x.at \in {"record", "wait"} => Live(x.pid)'
        BY <1>1, <3>2, <3>4, <3>7 DEF Serves, Live
      <4>4. x.at = "attach" => Says(x.dep)'
        BY <3>2, <3>7 DEF Serves
      <4> QED BY <4>1, <4>2, <4>3, <4>4 DEF Serves, InTurn, Back
    <3>12. Unlike({"crash", "slow", "late", "fault", "stopped", "abandoned"})'
             /\ "healthy" \in history' => Returns(x)'
      <4> SUFFICES ASSUME Recorded(x), Returns(x) PROVE Returns(x)'
        BY <3>1, <3>2, <3>8 DEF Agrees, Unlike
      <4>1. SomeServes => SomeServes'
        BY <3>4, <3>7 DEF SomeServes
      <4> QED BY <4>1 DEF Returns, InTurn, Pausing, Forth, Back
    <3>13. Agrees(x)'
      BY <3>3, <3>9, <3>10, <3>11, <3>12 DEF Agrees
    <3> QED BY <1>1, <3>13, AgreeOutside
  <2> QED BY <2>3, <2>4
<1> QED BY <1>2, <1>3

\* A process that loads its model is the one the operation under way has started.
LEMMA LoadingIs ==
  ASSUME AgreeNow, NEW x, Recorded(x), NEW p \in Pids, proc[p].state = "loading"
  PROVE  /\ p = x.pid /\ x.at \in {"record", "wait"}
         /\ \A d \in Deployments : row[d].pid = p => x.at = "wait" /\ d = x.cur /\ ~Says(d)
<1>1. /\ Live(p) /\ ~Serving(p)
  BY DEF Live, Serving
<1>2. \A d \in Deployments : row[d].pid = p => x.at = "wait" /\ d = x.cur
  BY <1>1 DEF Recorded, Runs, Good
<1>3. \A d \in Deployments : row[d].pid = p => p = x.pid /\ ~Says(d)
  BY <1>2 DEF Recorded, Says
<1> QED BY <1>1, <1>2, <1>3 DEF Recorded

\* A process ends.
LEMMA EndedAgrees ==
  ASSUME AgreeNow, UNCHANGED <<row, vault, op, ops>>, NEW E, Note(E), "healthy" \notin E,
         NEW p \in Pids, Live(p), proc' = [proc EXCEPT ![p].state = "dead"],
         NEW x, x = Current,
         \/ "fault" \in E
         \/ /\ proc[p].state = "loading"
            /\ Recorded(x) /\ Staged(x) /\ Serves(x) => ~Back(x)
  PROVE  AgreeState'
<1>1. /\ Agrees(x) /\ Placed(x) /\ TokensTell(x) /\ HasRows(x)
      /\ x.todo \subseteq Deployments /\ x.paused \subseteq Deployments
      /\ x.kind # "idle" => x.cur \in Deployments /\ x.dep \in Deployments
      /\ x.at # "end" => x.kind # "idle"
  BY CurrentNamed
<1>2. /\ \A q \in Pids : /\ proc'[q].dep = proc[q].dep /\ proc'[q].port = proc[q].port
                         /\ proc'[q].token = proc[q].token
                         /\ q # p => proc'[q] = proc[q]
      /\ proc'[p].state = "dead"
      /\ \A q : Live(q)' <=> Live(q) /\ q # p
  BY Typed DEF Live, ProcType
<1>3. /\ \A S : (Unlike(S)' => Unlike(S)) /\ (E \cap S # {} => ~Unlike(S)')
      /\ "healthy" \in history' => "healthy" \in history
  BY Remembers
<1>4. Placed(x)' /\ TokensTell(x)' /\ HasRows(x)'
  BY <1>1 DEF Placed, Pausing, Back, TokensTell, HasRows
<1>5. \A d \in Deployments : /\ Runs(d)' <=> Runs(d) /\ row[d].pid # p
                             /\ Says(d)' <=> Says(d)
                             /\ Good(d) /\ row[d].pid # p => Good(d)'
  BY <1>2 DEF Runs, Says, Good, Live, Serving
<1>6. Unlike({"crash", "slow", "late"})' => Recorded(x)' /\ Staged(x)'
  <2> SUFFICES ASSUME Recorded(x), Staged(x) PROVE Recorded(x)' /\ Staged(x)'
    BY <1>1, <1>3 DEF Agrees
  <2>1. \A q \in Pids : /\ proc'[q].state # "hung"
                        /\ Live(q)' =>
                             /\ proc'[q].dep \in Deployments
                             /\ \/ row'[proc'[q].dep].pid = q
                                \/ x.at = "record" /\ q = x.pid /\ proc'[q].dep = x.cur
    BY <1>2 DEF Recorded
  <2>2. \A d \in Deployments : Runs(d)' =>
          proc'[row'[d].pid].dep = d /\ (Good(d)' \/ (x.at = "wait" /\ d = x.cur))
    <3> SUFFICES ASSUME NEW d \in Deployments, Runs(d)'
                 PROVE  proc'[row[d].pid].dep = d /\ (Good(d)' \/ (x.at = "wait" /\ d = x.cur))
      OBVIOUS
    <3>1. Runs(d) /\ row[d].pid # p /\ row[d].pid \in Pids
      BY <1>5 DEF Runs, Live
    <3>2. proc[row[d].pid].dep = d /\ (Good(d) \/ (x.at = "wait" /\ d = x.cur))
      BY <3>1 DEF Recorded
    <3> QED BY <1>2, <1>5, <3>1, <3>2
  <2>3. x.at \in {"record", "wait"} =>
          /\ x.pid \in Pids
          /\ proc'[x.pid].dep = x.cur /\ proc'[x.pid].port = x.port
          /\ proc'[x.pid].token = x.token
    BY <1>2 DEF Recorded
  <2>4. /\ x.kind \in {"stop", "remove"} \/ x.at \in {"paused", "spawn", "record"} =>
              ~Runs(x.cur)'
        /\ x.at = "remove" => ~Says(x.cur)'
    BY <1>1, <1>5 DEF Recorded
  <2>5. Recorded(x)'
    BY <2>1, <2>2, <2>3, <2>4 DEF Recorded
  <2>6. Staged(x)'
    BY <1>1, <1>5 DEF Staged, Pausing, Forth, Back
  <2> QED BY <2>5, <2>6
<1>7. Unlike({"crash", "slow", "late", "started"})' => Few(x)'
  BY <1>1, <1>3 DEF Agrees, Few, InTurn, Says
<1>8. Unlike({"crash", "slow", "late", "fault"})'
        => /\ Recorded(x) /\ Serves(x) /\ ~Back(x)
           /\ \A d \in Deployments : Says(d) => row[d].pid # p
  <2> SUFFICES ASSUME Unlike({"crash", "slow", "late", "fault"})'
               PROVE  /\ Recorded(x) /\ Serves(x) /\ ~Back(x)
                      /\ \A d \in Deployments : Says(d) => row[d].pid # p
    OBVIOUS
  <2>1. proc[p].state = "loading" /\ (Recorded(x) /\ Staged(x) /\ Serves(x) => ~Back(x))
    BY <1>3
  <2>2. Unlike({"crash", "slow", "late", "fault"}) /\ Unlike({"crash", "slow", "late"})
    <3>1. Unlike({"crash", "slow", "late", "fault"})
      BY <1>3
    <3> QED BY <3>1 DEF Unlike
  <2>3. Recorded(x) /\ Staged(x) /\ Serves(x)
    BY <1>1, <2>2 DEF Agrees
  <2> QED BY <2>1, <2>3, LoadingIs
<1>9. Unlike({"crash", "slow", "late", "fault"})' => Serves(x)'
  <2> SUFFICES ASSUME Serves(x), ~Back(x), \A d \in Deployments : Says(d) => row[d].pid # p
               PROVE  Serves(x)'
    BY <1>8
  <2>1. \A d \in Deployments : Says(d)' =>
              Runs(d)' \/ (x.at \in {"paused", "stop"} /\ d = x.cur)
    BY <1>5 DEF Serves
  <2>2. x.at = "attach" => Says(x.dep)'
    BY <1>1, <1>5 DEF Serves
  <2> QED BY <2>1, <2>2 DEF Serves, InTurn, Back
<1>10. Unlike({"crash", "slow", "late", "fault", "stopped", "abandoned"})'
             /\ "healthy" \in history' => Returns(x)'
  <2> SUFFICES ASSUME Unlike({"crash", "slow", "late", "fault", "stopped", "abandoned"})',
                      "healthy" \in history'
               PROVE  Returns(x)'
    OBVIOUS
  <2>1. Returns(x)
    BY <1>1, <1>3 DEF Agrees
  <2>2. Unlike({"crash", "slow", "late", "fault"})'
    BY DEF Unlike
  <2>3. SomeServes => SomeServes'
    BY <1>5, <1>8, <2>2 DEF SomeServes
  <2> QED BY <2>1, <2>3 DEF Returns, InTurn, Pausing, Forth, Back
<1>11. Agrees(x)'
  BY <1>4, <1>6, <1>7, <1>9, <1>10 DEF Agrees
<1> QED BY <1>11, AgreeOutside

\* A process has loaded. If another holds its port it ends, which a deployment that
\* was paused, and starts again, does not meet: the others it paused had other ports.
LEMMA LoadedAgrees ==
  ASSUME AgreeNow, NEW p \in Pids, Loads(p)
  PROVE  AgreeState'
<1> PICK x : x = Current
  OBVIOUS
<1>1. /\ proc[p].state = "loading" /\ Live(p) /\ UNCHANGED <<row, vault, op, history, ops>>
  BY DEF Loads, Live
<1>2. /\ Agrees(x) /\ Placed(x) /\ TokensTell(x) /\ HasRows(x)
      /\ x.todo \subseteq Deployments /\ x.paused \subseteq Deployments
      /\ x.kind # "idle" => x.cur \in Deployments /\ x.dep \in Deployments
      /\ x.at # "end" => x.kind # "idle"
  BY CurrentNamed
<1>3. CASE \E q \in Pids : Holds(q) /\ proc[q].port = proc[p].port
  <2> PICK q \in Pids : Holds(q) /\ proc[q].port = proc[p].port
    BY <1>3
  <2>1. proc' = [proc EXCEPT ![p].state = "dead"]
    BY DEF Loads, Holds
  <2>2. ASSUME Recorded(x), Staged(x), Serves(x), Back(x) PROVE FALSE
    <3>1. p = x.pid /\ x.at \in {"record", "wait"} /\ q # p
      BY <1>1, <2>2, LoadingIs DEF Holds
    <3>2. Live(q)
      BY DEF Live, Holds
    <3> PICK d \in Deployments : d = proc[q].dep /\ row[d].pid = q /\ Runs(d)
      BY <2>2, <3>1, <3>2 DEF Recorded, Runs
    <3>3. d # x.cur
      BY <2>2, <3>1 DEF Recorded
    <3>4. row[d].port = row[x.cur].port
      <4>1. proc[q].port = row[d].port
        BY <2>2, <3>3 DEF Recorded, Good
      <4>2. proc[p].port = x.port /\ x.port = row[x.cur].port
        BY <1>2, <2>2, <3>1 DEF Recorded, HasRows, Starting
      <4> QED BY <4>1, <4>2
    <3>5. d \in InTurn(x) /\ x.cur \in InTurn(x)
      BY <1>2, <2>2, <3>1 DEF Staged, Placed, InTurn, Back
    <3> QED BY <2>2, <3>1, <3>3, <3>4, <3>5 DEF Serves, Back
  <2>3. Note({}) /\ "healthy" \notin {}
    BY <1>1 DEF Note
  <2> QED BY <1>1, <2>1, <2>2, <2>3, EndedAgrees
<1>4. CASE ~\E q \in Pids : Holds(q) /\ proc[q].port = proc[p].port
  <2>1. proc' = [proc EXCEPT ![p].state = "serving"]
    BY <1>4 DEF Loads, Holds
  <2>2. /\ \A q \in Pids : /\ proc'[q].dep = proc[q].dep /\ proc'[q].port = proc[q].port
                           /\ proc'[q].token = proc[q].token
                           /\ q # p => proc'[q] = proc[q]
        /\ proc'[p].state = "serving"
        /\ \A q : Live(q)' <=> Live(q)
        /\ \A q : Serving(q) => Serving(q)'
    BY <1>1, <2>1, Typed DEF Live, Serving, ProcType
  <2>3. Placed(x)' /\ TokensTell(x)' /\ HasRows(x)'
    BY <1>1, <1>2 DEF Placed, Pausing, Back, TokensTell, HasRows
  <2>4. \A d \in Deployments : /\ Runs(d)' <=> Runs(d)
                               /\ Says(d)' <=> Says(d)
                               /\ Good(d) => Good(d)'
    BY <1>1, <2>2 DEF Runs, Says, Good, Serving
  <2>5. \A S : Unlike(S)' <=> Unlike(S)
    BY <1>1, SameHistory
  <2>6. Unlike({"crash", "slow", "late"})' => Recorded(x)' /\ Staged(x)'
    <3> SUFFICES ASSUME Recorded(x), Staged(x) PROVE Recorded(x)' /\ Staged(x)'
      BY <1>2, <2>5 DEF Agrees
    <3>1. \A q \in Pids : /\ proc'[q].state # "hung"
                          /\ Live(q)' =>
                               /\ proc'[q].dep \in Deployments
                               /\ \/ row'[proc'[q].dep].pid = q
                                  \/ x.at = "record" /\ q = x.pid /\ proc'[q].dep = x.cur
      BY <1>1, <2>2 DEF Recorded
    <3>2. \A d \in Deployments : Runs(d)' =>
            proc'[row'[d].pid].dep = d /\ (Good(d)' \/ (x.at = "wait" /\ d = x.cur))
      BY <1>1, <2>2, <2>4 DEF Recorded, Runs, Live
    <3>3. x.at \in {"record", "wait"} =>
            /\ x.pid \in Pids
            /\ proc'[x.pid].dep = x.cur /\ proc'[x.pid].port = x.port
            /\ proc'[x.pid].token = x.token
      BY <2>2 DEF Recorded
    <3>4. /\ x.kind \in {"stop", "remove"} \/ x.at \in {"paused", "spawn", "record"} =>
                ~Runs(x.cur)'
          /\ x.at = "remove" => ~Says(x.cur)'
      BY <1>2, <2>4 DEF Recorded
    <3>5. Recorded(x)'
      BY <1>1, <3>1, <3>2, <3>3, <3>4 DEF Recorded
    <3>6. Staged(x)'
      BY <1>2, <2>4 DEF Staged, Pausing, Forth, Back
    <3> QED BY <3>5, <3>6
  <2>7. Unlike({"crash", "slow", "late", "started"})' => Few(x)'
    BY <1>1, <1>2, <2>5 DEF Agrees, Few, InTurn, Says
  <2>8. Unlike({"crash", "slow", "late", "fault"})' => Serves(x)'
    <3> SUFFICES ASSUME Serves(x) PROVE Serves(x)'
      BY <1>2, <2>5 DEF Agrees
    <3>1. \A d \in Deployments : Says(d)' =>
                Runs(d)' \/ (x.at \in {"paused", "stop"} /\ d = x.cur)
      BY <2>4 DEF Serves
    <3>2. Back(x) => /\ \A e \in x.paused \ x.todo :
                          (Says(e)' /\ Runs(e)') \/ (x.at \in Starting /\ e = x.cur)
                     /\ x.at \in {"record", "wait"} => Live(x.pid)'
      BY <1>2, <2>2, <2>4 DEF Serves
    <3>3. x.at = "attach" => Says(x.dep)'
      BY <1>2, <2>4 DEF Serves
    <3> QED BY <1>1, <3>1, <3>2, <3>3 DEF Serves, InTurn, Back
  <2>9. Unlike({"crash", "slow", "late", "fault", "stopped", "abandoned"})'
               /\ "healthy" \in history' => Returns(x)'
    <3>1. SomeServes => SomeServes'
      BY <2>4 DEF SomeServes
    <3> QED BY <1>1, <1>2, <2>5, <3>1 DEF Agrees, Returns, InTurn, Pausing, Forth, Back
  <2>10. Agrees(x)'
    BY <2>3, <2>6, <2>7, <2>8, <2>9 DEF Agrees
  <2> QED BY <1>1, <2>10, AgreeOutside
<1> QED BY <1>3, <1>4

LEMMA ProcessAgrees ==
  ASSUME AgreeNow, NEW p \in Pids, Loads(p) \/ LoadFails(p) \/ Dies(p) \/ Hangs(p) \/ Recovers(p)
  PROVE  AgreeState'
<1> PICK x : x = Current
  OBVIOUS
<1>1. CASE LoadFails(p)
  <2> PICK o \in Operators : op[o].pid = p /\ op[o].kind = "deploy" /\ ~Restoring(o)
    BY <1>1 DEF LoadFails
  <2>1. op[o] # Idle /\ x = op[o]
    BY CurrentIs, IdleIs DEF AgreeNow, AgreeState
  <2>2. Recorded(x) => ~Back(x)
    <3>1. Recorded(x) => x.at \in {"record", "wait"}
      BY <1>1, LoadingIs DEF LoadFails
    <3> QED BY <2>1, <3>1 DEF Back, Restoring
  <2>3. /\ Note({}) /\ "healthy" \notin {} /\ proc[p].state = "loading" /\ Live(p)
        /\ proc' = [proc EXCEPT ![p].state = "dead"] /\ UNCHANGED <<row, vault, op, ops>>
    BY <1>1 DEF LoadFails, Note, Live
  <2> QED BY <2>2, <2>3, EndedAgrees
<1>2. CASE Dies(p)
  <2>1. Note({"fault"}) /\ "healthy" \notin {"fault"} /\ "fault" \in {"fault"}
    BY <1>2 DEF Dies, Fault
  <2> QED BY <1>2, <2>1, EndedAgrees DEF Dies
<1>3. CASE Hangs(p)
  <2>1. Note({"slow"})
    BY <1>3 DEF Hangs, Fault
  <2>2. ~Unlike({"crash", "slow", "late"})'
    BY <2>1, Remembers
  <2> QED BY <1>3, <2>2, AgreeLost DEF Hangs
<1>4. CASE Recovers(p)
  <2>1. ~Unlike({"crash", "slow", "late"})
    BY <1>4, CurrentNamed DEF Recovers, Agrees, Recorded
  <2>2. ~Unlike({"crash", "slow", "late"})'
    BY <1>4, <2>1, SameHistory DEF Recovers
  <2> QED BY <1>4, <2>2, AgreeLost DEF Recovers
<1> QED BY <1>1, <1>2, <1>3, <1>4, LoadedAgrees

LEMMA StepAgrees ==
  ASSUME AgreeNow, NEW o \in Operators, Step(o)
  PROVE  AgreeState'
BY EnterAgrees, PauseAgrees, PausedAgrees, EndingsAgree, RefusedAgrees, InstallAgrees, SpawnAgrees,
   SpawnedAgrees, HealthyAgrees, AttachAgrees, DeployFailsAgrees, RestoreFailsAgrees, RowStays,
   RestoreAgrees, StartAgrees, StoppedAgrees, RemovedAgrees DEF Step

\* What has happened has happened.
LEMMA HistoryGrows ==
  ASSUME Next
  PROVE  history \subseteq history'
<1>1. \A E : Note(E) => history \subseteq history'
  BY DEF Note
<1>2. ASSUME NEW o \in Operators, Step(o) PROVE history \subseteq history'
  <2>1. Abandon(o) => history \subseteq history'
    BY <1>1 DEF Abandon
  <2>2. CASE PauseNext(o)
    BY <2>1, <2>2 DEF PauseNext
  <2>3. CASE PauseRecorded(o)
    BY <2>1, <2>3 DEF PauseRecorded
  <2>4. CASE DeployAbandoned(o) \/ RowGone(o)
    BY <2>1, <2>4 DEF DeployAbandoned, RowGone
  <2>5. CASE SpawnFails(o)
    BY <2>1, <2>5 DEF SpawnFails
  <2>6. CASE RecordSpawn(o)
    BY <2>1, <2>6 DEF RecordSpawn
  <2>7. CASE Healthy(o)
    BY <1>1, <2>7 DEF Healthy
  <2>8. CASE StartBegins(o)
    BY <1>1, <2>8 DEF StartBegins
  <2>9. CASE RestoreNext(o)
    BY <1>1, <2>1, <2>9 DEF RestoreNext, Starts
  <2>10. CASE DeployFails(o) \/ StartFails(o) \/ RestoreFails(o)
    BY <1>1, <2>10 DEF DeployFails, StartFails, RestoreFails
  <2>11. CASE UNCHANGED history
    BY <2>11
  <2> QED BY <1>2, <2>2, <2>3, <2>4, <2>5, <2>6, <2>7, <2>8, <2>9, <2>10, <2>11
          DEF Step, EnterDeploy, DeployRefused, DeployInstalls, Spawn, AttachMetadata,
              RestoreDone, RecordStopped, RemoveRow
<1>3. ASSUME NEW o \in Operators, NEW d \in Deployments,
             \/ BeginDeploy(o, d) \/ BeginStart(o, d)
             \/ \E kind \in {"stop", "remove"} : BeginStop(o, d, kind)
      PROVE  history \subseteq history'
  BY <1>1, <1>3 DEF BeginDeploy, BeginStart, BeginStop, Begin
<1>4. ASSUME NEW o \in Operators, OperatorDies(o) PROVE history \subseteq history'
  BY <1>1, <1>4 DEF OperatorDies, Fault
<1>5. CASE Refresh
  BY <1>1, <1>5 DEF Refresh, WriteCheck, BeginCheck
<1>6. ASSUME NEW p \in Pids, Loads(p) \/ LoadFails(p) \/ Dies(p) \/ Hangs(p) \/ Recovers(p)
      PROVE  history \subseteq history'
  BY <1>1, <1>6 DEF Loads, LoadFails, Dies, Hangs, Recovers, Fault
<1> QED BY <1>2, <1>3, <1>4, <1>5, <1>6 DEF Next

LocalAgree == Base /\ AgreeInv

LEMMA LocalAgreeStart == Init => LocalAgree
<1> SUFFICES ASSUME Init PROVE LocalAgree
  OBVIOUS
<1>1. Current = Idle /\ OneAtATime
  BY DEF Init, Current, Quiet, Busy, OneAtATime
<1>2. \A d \in Deployments : /\ row[d] = NoRow /\ vault[d] = 0 /\ ~Says(d)
                             /\ ~Runs(d)
  BY DEF Init, Says, Runs, Live, NoRow, None, Pids
<1>3. \A p \in Pids : ~Live(p) /\ proc[p].state # "hung"
  BY DEF Init, Live, Unused
<1>4. TokensTell(Idle) /\ HasRows(Idle) /\ Recorded(Idle)
  BY <1>2, <1>3, IdleIs DEF Init, TokensTell, HasRows, Recorded, Starting
<1>5. Staged(Idle) /\ Few(Idle) /\ Serves(Idle)
  BY <1>2, IdleIs DEF Staged, Few, Serves, Pausing, Forth, Back
<1>6. "healthy" \notin history
  BY DEF Init
<1>7. AgreeState
  BY <1>1, <1>4, <1>5, <1>6, IdleIs DEF AgreeState, Agrees
<1> QED BY <1>7, BaseStart DEF LocalAgree, AgreeInv

LEMMA LocalAgreeStep == LocalAgree /\ [Next]_vars => LocalAgree'
<1> SUFFICES ASSUME LocalAgree, [Next]_vars PROVE LocalAgree'
  OBVIOUS
<1>1. Base'
  BY BaseStep DEF LocalAgree
<1>2. ASSUME Next, Alone' PROVE AgreeState'
  <2>1. AgreeNow
    BY <1>2, HistoryGrows DEF LocalAgree, AgreeInv, Alone, Unlike, AgreeNow
  <2>2. ASSUME NEW o \in Operators, OperatorDies(o) PROVE AgreeState'
    BY <2>1, <2>2, EndingsAgree
  <2>3. CASE Refresh
    <3>1. ASSUME NEW d \in Deployments, BeginCheck(d) PROVE AgreeState'
      BY <2>1, <3>1, SameAgrees DEF BeginCheck, AgreeNow
    <3> QED BY <2>1, <2>3, <3>1, WriteAgrees DEF Refresh
  <2>4. ASSUME NEW o \in Operators, NEW d \in Deployments,
               \/ BeginDeploy(o, d) \/ BeginStart(o, d)
               \/ \E kind \in {"stop", "remove"} : BeginStop(o, d, kind)
        PROVE  AgreeState'
    BY <1>2, <2>1, <2>4, BeginDeployAgrees, BeginStartAgrees, BeginStopAgrees
  <2> QED BY <1>2, <2>1, <2>2, <2>3, <2>4, StepAgrees, ProcessAgrees DEF Next
<1>3. ASSUME UNCHANGED vars, Alone' PROVE AgreeState'
  <2>1. AgreeState
    BY <1>3 DEF LocalAgree, AgreeInv, Alone, Unlike, vars
  <2> QED BY <1>3, <2>1, SameAgrees DEF vars
<1> QED BY <1>1, <1>2, <1>3 DEF LocalAgree, AgreeInv

\* Two processes never live at once: the one that runs is the one in turn.
LEMMA OneLives ==
  ASSUME AgreeNow, NEW x, x = Current, Recorded(x), Staged(x), Few(x)
  PROVE  \A p, q \in Pids : Live(p) /\ Live(q) => p = q
<1>1. /\ Placed(x) /\ x.kind \in {"idle", "deploy", "stop", "remove"}
      /\ x.todo \subseteq Deployments /\ x.paused \subseteq Deployments
      /\ x.kind # "idle" => x.cur \in Deployments /\ x.dep \in Deployments
      /\ x.at # "end" => x.kind # "idle"
  BY CurrentNamed DEF Few
<1>2. (\A d, e \in Deployments : Runs(d) /\ Runs(e) => d = e)
      /\ (x.at = "record" => \A d \in Deployments : ~Runs(d))
  <2>1. CASE x.kind # "deploy" \/ x.at = "enter"
    <3>1. x.at \notin {"record", "wait"}
      BY <1>1, <2>1, IdleIs DEF Placed
    <3>2. \A d \in Deployments : Runs(d) => Says(d)
      BY <3>1 DEF Recorded, Good
    <3> QED BY <2>1, <3>1, <3>2 DEF Few
  <2>2. CASE Pausing(x)
    BY <1>1, <2>2 DEF Staged, Few, InTurn, Pausing
  <2>3. CASE x.at = "attach"
    BY <2>3 DEF Staged
  <2>4. CASE Forth(x)
    BY <1>1, <2>4 DEF Staged, Forth, Recorded
  <2>5. CASE Back(x)
    <3>1. \A d \in Deployments : Runs(d) => d \in InTurn(x)
      BY <1>1, <2>5 DEF Staged, InTurn
    <3>2. x.at = "record" => x.cur \in InTurn(x) /\ ~Runs(x.cur)
      BY <1>1, <2>5 DEF Recorded, Placed, InTurn
    <3>3. \A d, e \in InTurn(x) : d = e
      BY <2>5 DEF Few, Back, Starting
    <3> QED BY <3>1, <3>2, <3>3
  <2> QED BY <1>1, <2>1, <2>2, <2>3, <2>4, <2>5
          DEF Placed, Deploying, Pausing, Forth, Back, Starting
<1>3. \A p \in Pids : Live(p) =>
        \/ proc[p].dep \in Deployments /\ row[proc[p].dep].pid = p /\ Runs(proc[p].dep)
        \/ x.at = "record" /\ p = x.pid
  BY DEF Recorded, Runs
<1> QED BY <1>2, <1>3

\* What is promised when nothing is under way, and of memory at every moment.
LEMMA AgreeImplies == LocalAgree => RecordsAgree /\ ServiceReturns
<1> SUFFICES ASSUME LocalAgree PROVE RecordsAgree /\ ServiceReturns
  OBVIOUS
<1>1. TypeOK
  BY DEF LocalAgree, Base
<1>2. ASSUME "overlap" \notin history PROVE AgreeNow /\ Agrees(Current)
  BY <1>2 DEF LocalAgree, AgreeInv, Alone, Unlike, AgreeNow, AgreeState
<1>3. Quiet => Current = Idle
  BY DEF Current
<1>4. NoStray
  BY <1>2, <1>3, IdleIs DEF NoStray, Unlike, Agrees, Recorded
<1>5. HealthyIsServed
  <2> SUFFICES ASSUME NEW d \in Deployments, Quiet, Says(d),
                      Unlike({"overlap", "crash", "fault", "slow", "late"})
               PROVE  Good(d)
    BY DEF HealthyIsServed, Good, Says
  <2>1. Recorded(Idle) /\ Serves(Idle)
    BY <1>2, <1>3 DEF Unlike, Agrees
  <2> QED BY <2>1, IdleIs DEF Recorded, Serves
<1>6. OneCopyInMemory
  <2> SUFFICES ASSUME Unlike({"overlap", "crash", "slow", "late", "started"})
               PROVE  \A p, q \in Pids : Live(p) /\ Live(q) => p = q
    BY DEF OneCopyInMemory
  <2>1. AgreeNow /\ Recorded(Current) /\ Staged(Current) /\ Few(Current)
    BY <1>2 DEF Unlike, Agrees
  <2> QED BY <2>1, OneLives
<1>7. ServiceReturns
  <2> SUFFICES ASSUME Quiet, "healthy" \in history,
                      Unlike({"overlap", "crash", "fault", "slow", "late", "stopped", "abandoned"})
               PROVE  \E d \in Deployments : row[d].status = "HEALTHY" /\ Serving(row[d].pid)
    BY DEF ServiceReturns
  <2>1. Recorded(Idle) /\ Returns(Idle)
    BY <1>2, <1>3 DEF Unlike, Agrees
  <2> PICK d \in Deployments : Says(d) /\ Runs(d)
    BY <2>1, IdleIs DEF Returns, SomeServes
  <2>2. Good(d)
    BY <2>1, IdleIs DEF Recorded
  <2> QED BY <2>2 DEF Good, Says
<1> QED BY <1>1, <1>4, <1>5, <1>6, <1>7 DEF RecordsAgree

\* Whatever is deployed, started, stopped or removed one operation at a time, and
\* however a deployment fails, the rows and the processes agree: no process that no
\* row records, no healthy row that nothing serves, no second copy in memory while
\* the user only deploys, each as far as RecordsAgree promises it.
THEOREM LocalRecordsAgree == Spec => []RecordsAgree
<1>1. LocalAgree => RecordsAgree
  BY AgreeImplies
<1> QED BY <1>1, LocalAgreeStart, LocalAgreeStep, PTL DEF Spec

\* Once a deployment has served, one serves again after any later deployment that
\* succeeds, or fails in a way that starts the paused ones again.
THEOREM LocalServiceReturns == Spec => []ServiceReturns
<1>1. LocalAgree => ServiceReturns
  BY AgreeImplies
<1> QED BY <1>1, LocalAgreeStart, LocalAgreeStep, PTL DEF Spec
=============================================================================
