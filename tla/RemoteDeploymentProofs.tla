----------------------- MODULE RemoteDeploymentProofs -----------------------
(***************************************************************************)
(* Proofs about RemoteDeployment, for any number of versions, operators,   *)
(* ports, operations and faults: a healthy service survives its upgrades,  *)
(* and what the row, the vault and the active link say is so.              *)
(***************************************************************************)
EXTENDS RemoteDeployment, TLAPS

-----------------------------------------------------------------------------
(* Type correctness.                                                        *)

LEMMA NoRowType == NoRow \in RowType
BY DeploymentAssumption DEF NoRow, None, RowType

LEMMA IdleType == Idle \in OpType
BY NoRowType, DeploymentAssumption DEF Idle, None, OpType, Tokens

LEMMA AbsentType == Absent \in LaunchType
BY DeploymentAssumption DEF Absent, Launch, LaunchType, Tokens

\* The parts of a row and of an operation.
LEMMA RowParts ==
  ASSUME NEW r \in RowType
  PROVE  /\ r.status \in Statuses \cup {None} /\ r.version \in Versions \cup {None}
         /\ r.port \in 0 .. MaxPort
         /\ r.prev \in Versions \cup {None} /\ r.prevPort \in 0 .. MaxPort
         /\ \A s \in Statuses : [r EXCEPT !.status = s] \in RowType
         /\ \A p \in 0 .. MaxPort : [r EXCEPT !.port = p] \in RowType
BY DEF RowType

LEMMA OpParts ==
  ASSUME NEW x \in OpType
  PROVE  /\ x.version \in Versions \cup {None} /\ x.port \in 0 .. MaxPort
         /\ x.token \in Tokens /\ x.was \in RowType
         /\ \A at \in {"port", "upload", "launcher", "start", "health", "activate",
                        "retire", "record", "attach", "delete", "unit"} :
              /\ [x EXCEPT !.at = at] \in OpType
              /\ \A r \in RowType : [x EXCEPT !.at = at, !.was = r] \in OpType
              /\ \A p \in 0 .. MaxPort : [x EXCEPT !.at = at, !.port = p] \in OpType
<1> DEFINE Places == {"port", "upload", "launcher", "start", "health", "activate",
                      "retire", "record", "attach", "delete", "unit"}
<1>1. /\ x.version \in Versions \cup {None} /\ x.port \in 0 .. MaxPort
      /\ x.token \in Tokens /\ x.was \in RowType
  BY DEF OpType
<1>2. ASSUME NEW at \in Places
      PROVE  [x EXCEPT !.at = at] \in OpType
  BY <1>2 DEF OpType
<1>3. ASSUME NEW at \in Places, NEW r \in RowType
      PROVE  [x EXCEPT !.at = at, !.was = r] \in OpType
  BY <1>3 DEF OpType
<1>4. ASSUME NEW at \in Places, NEW p \in 0 .. MaxPort
      PROVE  [x EXCEPT !.at = at, !.port = p] \in OpType
  BY <1>4 DEF OpType
<1> QED BY <1>1, <1>2, <1>3, <1>4

\* set_deployment_status keeps a row a row.
LEMMA SetStatusType ==
  ASSUME TypeOK, NEW s \in Statuses, SetStatus(s)
  PROVE  row' \in RowType
BY RowParts DEF TypeOK, SetStatus

\* An operation that moves on, and one that ends.
LEMMA GoToType ==
  ASSUME TypeOK, NEW o \in Operators,
         NEW at \in {"port", "upload", "launcher", "start", "health", "activate",
                     "retire", "record", "attach", "delete", "unit"},
         GoTo(o, at)
  PROVE  op' \in [Operators -> OpType]
<1>1. [op[o] EXCEPT !.at = at] \in OpType
  BY OpParts DEF TypeOK
<1>2. op' = [op EXCEPT ![o] = [op[o] EXCEPT !.at = at]]
  BY DEF TypeOK, GoTo, OpType
<1> QED BY <1>1, <1>2 DEF TypeOK

LEMMA FinishType ==
  ASSUME TypeOK, NEW o \in Operators, Finish(o)
  PROVE  op' \in [Operators -> OpType]
BY IdleType DEF TypeOK, Finish

\* A started or stopped version keeps the launches typed.
LEMMA StartsType ==
  ASSUME TypeOK, NEW v, Starts(v)
  PROVE  running' \in [Versions -> LaunchType] /\ probed' \subseteq Versions
<1> DEFINE kept == Up(v) /\ (mode = "native" \/ running[v] = files[v])
           taken == \E w \in Versions \ {v} : running[w].port = files[v].port
<1>1. /\ running' = IF kept THEN running
                    ELSE [running EXCEPT ![v] = IF taken THEN Absent ELSE files[v]]
      /\ probed' = probed \/ probed' = probed \ {v}
  BY DEF Starts, Launches
<1> HIDE DEF kept, taken
<1>2. CASE v \in Versions
  BY <1>1, <1>2, AbsentType DEF TypeOK
<1>3. CASE v \notin Versions
  BY <1>1, <1>3 DEF TypeOK
<1> QED BY <1>2, <1>3

LEMMA StopsType ==
  ASSUME TypeOK, NEW v, Stops(v)
  PROVE  running' \in [Versions -> LaunchType] /\ probed' \subseteq Versions
BY AbsentType DEF TypeOK, Stops

\* Commands whose exit code is ignored: they take effect, or do not.
LEMMA LinksType ==
  ASSUME TypeOK, NEW v \in Versions \cup {None}, Links(v)
  PROVE  active' \in Versions \cup {None} /\ history' \subseteq Events \cup {"removed"}
BY DEF TypeOK, Links, Ignores, Note, Events

LEMMA RetiresType ==
  ASSUME TypeOK, NEW v, Retires(v)
  PROVE  /\ running' \in [Versions -> LaunchType] /\ probed' \subseteq Versions
         /\ history' \subseteq Events \cup {"removed"}
BY StopsType DEF TypeOK, Retires, Ignores, Note, Events

LEMMA UnitType ==
  ASSUME TypeOK, NEW installed \in BOOLEAN, SetsUnit(installed)
  PROVE  unit' \in BOOLEAN /\ history' \subseteq Events \cup {"removed"}
BY DEF TypeOK, SetsUnit, Ignores, Note, Events

\* A row names a version, and so does an operation; TypeOK allows "none".
Named ==
  /\ row # NoRow => row.version \in Versions
  /\ \A o \in Operators :
       /\ op[o].kind # "idle" => op[o].version \in Versions
       /\ op[o].at = "attach" => op[o].was.version \in Versions

\* What no step of an operation changes.
LEMMA KeepsType ==
  ASSUME TypeOK, UNCHANGED <<mode, server, vault, ops, faults>>
  PROVE  /\ mode' \in {"docker", "native"} /\ server' \in BOOLEAN /\ vault' \in Tokens
         /\ ops' \in 0 .. MaxOps /\ faults' \in 0 .. MaxFaults
BY DEF TypeOK

LEMMA DeployType ==
  ASSUME TypeOK, Named, NEW o \in Operators, Deploy(o)
  PROVE  TypeOK'
<1> USE DEF serverVars
<1>0. op[o] \in OpType /\ row \in RowType /\ files \in [Versions -> LaunchType]
  BY DEF TypeOK
<1>1. CASE DeployRefused(o)
  <2>1. row' \in RowType
    <3>1. [NoRow EXCEPT !.status = "FAILED", !.version = op[o].version,
                        !.port = op[o].port] \in RowType
      BY <1>0, OpParts, NoRowType DEF RowType, Statuses
    <3>2. [row EXCEPT !.status = "FAILED"] \in RowType
      BY <1>0, RowParts DEF Statuses
    <3> QED BY <1>0, <1>1, <3>1, <3>2 DEF DeployRefused
  <2> QED BY <1>1, <2>1, FinishType, KeepsType DEF DeployRefused, TypeOK, Note, Events
<1>2. CASE DeployRecord(o)
  <2> DEFINE was == IF Healthy(row) THEN row ELSE NoRow
             r == [op[o] EXCEPT !.at = "port", !.was = was]
  <2>1. was \in RowType
    BY <1>0, NoRowType
  <2>2. row' = [status |-> "UPLOADING", version |-> op[o].version, port |-> op[o].port,
                prev |-> was.version, prevPort |-> was.port]
    BY <1>2 DEF DeployRecord
  <2>3. op' = [op EXCEPT ![o] = r]
    BY <1>2 DEF DeployRecord, TypeOK, OpType
  <2> HIDE DEF was
  <2>4. r \in OpType
    BY <1>0, <2>1, OpParts
  <2>5. row' \in RowType
    <3>1. /\ was.version \in Versions \cup {None} /\ was.port \in 0 .. MaxPort
          /\ op[o].version \in Versions \cup {None} /\ op[o].port \in 0 .. MaxPort
      BY <1>0, <2>1, OpParts, RowParts
    <3> QED BY <2>2, <3>1 DEF RowType, Statuses
  <2> HIDE DEF r
  <2>6. op' \in [Operators -> OpType]
    BY <2>3, <2>4 DEF TypeOK
  <2> QED BY <1>2, <2>5, <2>6 DEF DeployRecord, TypeOK
<1>3. CASE FindPort(o)
  <2>1. PICK p \in Ports :
            /\ row' = [row EXCEPT !.port = p]
            /\ op' = [op EXCEPT ![o].at = "upload", ![o].port = p]
    BY <1>3 DEF FindPort
  <2>2. p \in 0 .. MaxPort
    BY DeploymentAssumption DEF Ports
  <2> DEFINE r == [op[o] EXCEPT !.at = "upload", !.port = p]
  <2>3. r \in OpType
    BY <1>0, <2>2, OpParts
  <2>4. op' = [op EXCEPT ![o] = r]
    BY <2>1 DEF TypeOK, OpType
  <2>5. row' \in RowType
    BY <1>0, <2>1, <2>2, RowParts
  <2> HIDE DEF r
  <2>6. op' \in [Operators -> OpType]
    BY <2>3, <2>4 DEF TypeOK
  <2> QED BY <1>3, <2>5, <2>6 DEF FindPort, TypeOK
<1>4. CASE UploadModel(o)
  <2>1. files' \in [Versions -> LaunchType]
    <3> DEFINE v == op[o].version
               l == [files[v] EXCEPT !.token = op[o].token]
    <3>1. v \in Versions /\ op[o].token \in Tokens
      BY <1>0, <1>4, OpParts DEF UploadModel, At, Named
    <3>2. l \in LaunchType /\ files' = [files EXCEPT ![v] = l]
      BY <1>0, <1>4, <3>1 DEF UploadModel, LaunchType
    <3> HIDE DEF v, l
    <3> QED BY <1>0, <3>1, <3>2
  <2>2. op' \in [Operators -> OpType]
    BY <1>4, GoToType DEF UploadModel
  <2> QED BY <1>4, <2>1, <2>2 DEF UploadModel, TypeOK
<1>5. CASE WriteLauncher(o)
  <2>1. files' \in [Versions -> LaunchType]
    <3> DEFINE v == op[o].version
               l == [files[v] EXCEPT !.port = op[o].port]
    <3>1. v \in Versions /\ op[o].port \in 0 .. MaxPort
      BY <1>0, <1>5, OpParts DEF WriteLauncher, At, Named
    <3>2. l \in LaunchType /\ files' = [files EXCEPT ![v] = l]
      BY <1>0, <1>5, <3>1 DEF WriteLauncher, LaunchType
    <3> HIDE DEF v, l
    <3> QED BY <1>0, <3>1, <3>2
  <2>2. op' \in [Operators -> OpType]
    BY <1>5, GoToType DEF WriteLauncher
  <2>3. row' \in RowType
    BY <1>5, SetStatusType DEF WriteLauncher, Statuses
  <2> QED BY <1>5, <2>1, <2>2, <2>3 DEF WriteLauncher, TypeOK
<1>6. CASE StartCandidate(o)
  <2>1. op' \in [Operators -> OpType]
    BY <1>6, GoToType DEF StartCandidate
  <2>2. unit' \in BOOLEAN /\ history' \subseteq Events \cup {"removed"}
    BY <1>6, UnitType DEF StartCandidate, TypeOK
  <2> QED BY <1>6, <2>1, <2>2, StartsType DEF StartCandidate, TypeOK
<1>7. CASE CandidateHealthy(o)
  <2>1. op' \in [Operators -> OpType]
    BY <1>7, GoToType DEF CandidateHealthy
  <2>2. op[o].version \in Versions \cup {None}
    BY <1>0, OpParts
  <2>3. probed' \subseteq Versions
    <3>1. op[o].kind = "deploy" /\ op[o].kind # "idle"
      BY <1>7 DEF CandidateHealthy, At
    <3> QED BY <1>7, <2>2, <3>1 DEF CandidateHealthy, TypeOK, Named
  <2> QED BY <1>7, <2>1, <2>3 DEF CandidateHealthy, TypeOK
<1>8. CASE Activate(o)
  <2>1. op' \in [Operators -> OpType]
    BY <1>8, GoToType DEF Activate
  <2>2. active' \in Versions \cup {None} /\ history' \subseteq Events \cup {"removed"}
    BY <1>0, <1>8, OpParts, LinksType DEF Activate
  <2> QED BY <1>8, <2>1, <2>2 DEF Activate, TypeOK
<1>9. CASE StopPrevious(o)
  <2>1. op' \in [Operators -> OpType]
    BY <1>9, GoToType DEF StopPrevious
  <2>2. /\ running' \in [Versions -> LaunchType] /\ probed' \subseteq Versions
        /\ history' \subseteq Events \cup {"removed"}
    BY <1>9, RetiresType DEF StopPrevious, TypeOK
  <2> QED BY <1>9, <2>1, <2>2 DEF StopPrevious, TypeOK
<1>10. CASE RecordHealthy(o)
  <2> DEFINE r == [op[o] EXCEPT !.at = "attach", !.was = row']
  <2>1. row' \in RowType
    BY <1>10, SetStatusType DEF RecordHealthy, Statuses
  <2>2. r \in OpType
    BY <1>0, <2>1, OpParts
  <2>3. op' = [op EXCEPT ![o] = r]
    BY <1>10 DEF RecordHealthy, TypeOK, OpType
  <2> HIDE DEF r
  <2>4. op' \in [Operators -> OpType]
    BY <2>2, <2>3 DEF TypeOK
  <2> QED BY <1>10, <2>1, <2>4 DEF RecordHealthy, TypeOK
<1>11. CASE AttachMetadata(o)
  <2>1. row' \in RowType
    BY <1>0, <1>11, OpParts DEF AttachMetadata
  <2> QED BY <1>11, <2>1, FinishType DEF AttachMetadata, TypeOK
<1>12. CASE DeployFails(o)
  <2>1. row' \in RowType
    BY <1>12, SetStatusType DEF DeployFails, Statuses
  <2>2. unit' \in BOOLEAN
    BY <1>12 DEF DeployFails, TypeOK
  <2> QED BY <1>12, <2>1, <2>2, FinishType DEF DeployFails, TypeOK, Note, Events
<1> QED BY <1>1, <1>2, <1>3, <1>4, <1>5, <1>6, <1>7, <1>8, <1>9, <1>10, <1>11, <1>12, Deploy(o) DEF Deploy

LEMMA ActType ==
  ASSUME TypeOK, Named, NEW o \in Operators, Act(o)
  PROVE  TypeOK'
<1> USE DEF serverVars
<1>0. op[o] \in OpType /\ row \in RowType /\ files \in [Versions -> LaunchType]
  BY DEF TypeOK
<1>1. CASE ActionFails(o)
  BY <1>1, FinishType DEF ActionFails, TypeOK, Note, Events
<1>2. CASE StopVersion(o)
  <2>1. op' \in [Operators -> OpType]
    BY <1>2, GoToType DEF StopVersion
  <2> QED BY <1>2, <2>1, StopsType DEF StopVersion, TypeOK
<1>3. CASE RecordStopped(o)
  <2>1. row' \in RowType
    BY <1>3, SetStatusType DEF RecordStopped, Statuses
  <2> QED BY <1>3, <2>1, FinishType DEF RecordStopped, TypeOK
<1>4. CASE StartVersion(o)
  <2>1. op' \in [Operators -> OpType]
    BY <1>4, GoToType DEF StartVersion
  <2> QED BY <1>4, <2>1, StartsType DEF StartVersion, TypeOK
<1>5. CASE RecordStarted(o)
  <2>1. row' \in RowType
    BY <1>5, SetStatusType DEF RecordStarted, Statuses
  <2>2. op[o].version \in Versions
    BY <1>5 DEF RecordStarted, At, Named
  <2> QED BY <1>5, <2>1, <2>2, FinishType DEF RecordStarted, TypeOK, Note, Events
<1>6. CASE RemoveProcess(o)
  <2>1. op' \in [Operators -> OpType]
    BY <1>6, GoToType DEF RemoveProcess
  <2> QED BY <1>6, <2>1, RetiresType DEF RemoveProcess, TypeOK
<1>7. CASE RemoveFiles(o)
  <2>1. op' \in [Operators -> OpType]
    BY <1>7, GoToType DEF RemoveFiles
  <2>2. files' \in [Versions -> LaunchType]
    BY <1>7, AbsentType DEF RemoveFiles
  <2> QED BY <1>7, <2>1, <2>2 DEF RemoveFiles, TypeOK, Note, Events, None
<1>8. CASE RemoveFilesFails(o)
  <2>1. files' \in [Versions -> LaunchType]
    BY <1>0, <1>8, AbsentType DEF RemoveFilesFails
  <2> QED BY <1>8, <2>1, FinishType DEF RemoveFilesFails, TypeOK, Note, Events, None
<1>9. CASE RemoveUnit(o)
  <2>1. op' \in [Operators -> OpType]
    BY <1>9, GoToType DEF RemoveUnit
  <2>2. unit' \in BOOLEAN /\ history' \subseteq Events \cup {"removed"}
    BY <1>9, UnitType DEF RemoveUnit
  <2> QED BY <1>9, <2>1, <2>2 DEF RemoveUnit, TypeOK
<1>10. CASE RecordRemoved(o)
  BY <1>10, NoRowType, FinishType DEF RecordRemoved, TypeOK, Note
<1>11. CASE ActionBreaks(o)
  BY <1>11, FinishType DEF ActionBreaks, TypeOK, Note, Events
<1> QED BY <1>1, <1>2, <1>3, <1>4, <1>5, <1>6, <1>7, <1>8, <1>9, <1>10, <1>11, Act(o) DEF Act

LEMMA RollbackType ==
  ASSUME TypeOK, Named, NEW o \in Operators, Rollback(o)
  PROVE  TypeOK'
<1> USE DEF serverVars
<1>0. op[o] \in OpType /\ row \in RowType /\ files \in [Versions -> LaunchType]
  BY DEF TypeOK
<1>1. CASE StartPrevious(o)
  <2>1. op' \in [Operators -> OpType]
    BY <1>1, GoToType DEF StartPrevious
  <2> QED BY <1>1, <2>1, StartsType DEF StartPrevious, TypeOK
<1>2. CASE RollbackFails(o)
  <2>1. row' \in RowType
    BY <1>2, SetStatusType DEF RollbackFails, Statuses
  <2> QED BY <1>2, <2>1, FinishType DEF RollbackFails, TypeOK, Note, Events
<1>3. CASE RollbackRaises(o)
  BY <1>3, FinishType DEF RollbackRaises, TypeOK, Note, Events
<1>4. CASE PreviousHealthy(o)
  <2>1. op' \in [Operators -> OpType]
    BY <1>4, GoToType DEF PreviousHealthy
  <2>2. op[o].version \in Versions
    BY <1>4 DEF PreviousHealthy, At, Named
  <2> QED BY <1>4, <2>1, <2>2 DEF PreviousHealthy, TypeOK
<1>5. CASE ReactivatePrevious(o)
  <2>1. op' \in [Operators -> OpType]
    BY <1>5, GoToType DEF ReactivatePrevious
  <2>2. active' \in Versions \cup {None} /\ history' \subseteq Events \cup {"removed"}
    BY <1>0, <1>5, OpParts, LinksType DEF ReactivatePrevious
  <2> QED BY <1>5, <2>1, <2>2 DEF ReactivatePrevious, TypeOK
<1>6. CASE StopCurrent(o)
  <2>1. op' \in [Operators -> OpType]
    BY <1>6, GoToType DEF StopCurrent
  <2> QED BY <1>6, <2>1, RetiresType DEF StopCurrent, TypeOK
<1>7. CASE RecordRolledBack(o)
  <2>1. row' \in RowType
    <3>1. /\ op[o].version \in Versions \cup {None} /\ op[o].port \in 0 .. MaxPort
          /\ op[o].was.prevPort \in 0 .. MaxPort
      BY <1>0, OpParts, RowParts
    <3> QED BY <1>7, <3>1, NoRowType DEF RecordRolledBack, RowType, Statuses
  <2> QED BY <1>7, <2>1, FinishType DEF RecordRolledBack, TypeOK
<1> QED BY <1>1, <1>2, <1>3, <1>4, <1>5, <1>6, <1>7, Rollback(o) DEF Rollback

\* An operation that is accepted.
LEMMA BeginType ==
  ASSUME TypeOK, NEW o \in Operators, NEW record \in OpType, NEW events \in SUBSET Events,
         Begin(o, record, events)
  PROVE  /\ op' \in [Operators -> OpType] /\ ops' \in 0 .. MaxOps
         /\ ops + 1 \in Tokens /\ history' \subseteq Events \cup {"removed"}
BY DeploymentAssumption DEF TypeOK, Begin, Note, Events, Tokens

LEMMA RequestType ==
  ASSUME TypeOK, Named, NEW o \in Operators,
         \/ \E v \in Versions, p \in Ports : BeginDeploy(o, v, p)
         \/ \E kind \in {"stop", "start", "remove"} : BeginAction(o, kind)
         \/ BeginRollback(o)
  PROVE  TypeOK'
<1> USE DEF serverVars
<1>0. row \in RowType /\ Idle \in OpType
  BY IdleType DEF TypeOK
<1>1. ASSUME NEW v \in Versions, NEW p \in Ports, BeginDeploy(o, v, p) PROVE TypeOK'
  <2> DEFINE r == [Idle EXCEPT !.kind = "deploy", !.at = "preflight", !.version = v,
                               !.port = p, !.token = ops + 1]
             e == IF Up(v) \/ (Healthy(row) /\ row.version = v) THEN {"self"} ELSE {}
  <2>1. p \in 0 .. MaxPort /\ ops + 1 \in Tokens
    <3>1. ops < MaxOps /\ ops \in 0 .. MaxOps
      BY <1>1 DEF BeginDeploy, Begin, TypeOK
    <3> QED BY <3>1, DeploymentAssumption DEF Ports, Tokens
  <2>2. r \in OpType
    BY <1>0, <2>1 DEF OpType
  <2>3. e \in SUBSET Events
    BY DEF Events
  <2>4. Begin(o, r, e)
    BY <1>1 DEF BeginDeploy
  <2> HIDE DEF r, e
  <2> QED BY <1>1, <2>1, <2>2, <2>3, <2>4, BeginType DEF BeginDeploy, TypeOK
<1>2. ASSUME NEW kind \in {"stop", "start", "remove"}, BeginAction(o, kind) PROVE TypeOK'
  <2> DEFINE r == [Idle EXCEPT !.kind = kind, !.at = "run", !.version = row.version,
                               !.port = row.port, !.was = row]
             e == IF kind \in {"stop", "remove"} THEN {"stopped"} ELSE {}
  <2>2. r \in OpType
    BY <1>0, RowParts DEF OpType
  <2>3. e \in SUBSET Events
    BY DEF Events
  <2>4. Begin(o, r, e)
    BY <1>2 DEF BeginAction
  <2> HIDE DEF r, e
  <2> QED BY <1>2, <2>2, <2>3, <2>4, BeginType DEF BeginAction, TypeOK
<1>3. ASSUME BeginRollback(o) PROVE TypeOK'
  <2> DEFINE r == [Idle EXCEPT !.kind = "rollback", !.at = "run", !.version = row.prev,
                               !.port = row.prevPort, !.was = row]
  <2>2. r \in OpType
    BY <1>0, RowParts DEF OpType
  <2>3. {"rolled"} \in SUBSET Events
    BY DEF Events
  <2>4. Begin(o, r, {"rolled"})
    BY <1>3 DEF BeginRollback
  <2>5. row' \in RowType
    BY <1>0, <1>3, RowParts DEF BeginRollback, Statuses
  <2> HIDE DEF r
  <2> QED BY <1>3, <2>2, <2>3, <2>4, <2>5, BeginType DEF BeginRollback, TypeOK
<1> QED BY <1>1, <1>2, <1>3

LEMMA FaultType ==
  ASSUME TypeOK, NEW event \in Events, Fault(event)
  PROVE  faults' \in 0 .. MaxFaults /\ history' \subseteq Events \cup {"removed"}
<1>1. faults \in 0 .. MaxFaults /\ faults < MaxFaults /\ faults' = faults + 1
  BY DEF TypeOK, Fault
<1>2. faults' \in 0 .. MaxFaults
  BY <1>1, DeploymentAssumption
<1>3. history' \subseteq Events \cup {"removed"}
  BY DEF TypeOK, Fault, Note
<1> QED BY <1>2, <1>3

\* What fails outside the program, and the store of servers.
LEMMA OutsideType ==
  ASSUME TypeOK,
         \/ \E o \in Operators : ServerGone(o) \/ OperatorDies(o)
         \/ \E v \in Versions : ProcessDies(v)
         \/ Reboot
         \/ RemoveServer
  PROVE  TypeOK'
<1> USE DEF serverVars
<1>1. ASSUME NEW o \in Operators, ServerGone(o) PROVE TypeOK'
  BY <1>1, FinishType DEF ServerGone, TypeOK
<1>2. ASSUME NEW o \in Operators, OperatorDies(o) PROVE TypeOK'
  <2>1. "crash" \in Events /\ Fault("crash")
    BY <1>2 DEF OperatorDies, Events
  <2> QED BY <1>2, <2>1, FaultType, FinishType DEF OperatorDies, TypeOK
<1>3. ASSUME NEW v \in Versions, ProcessDies(v) PROVE TypeOK'
  <2>1. "fault" \in Events /\ Fault("fault")
    BY <1>3 DEF ProcessDies, Events
  <2> QED BY <1>3, <2>1, FaultType, StopsType DEF ProcessDies, TypeOK
<1>4. CASE Reboot
  <2>1. "fault" \in Events /\ Fault("fault")
    BY <1>4 DEF Reboot, Events
  <2>2. running' \in [Versions -> LaunchType]
    BY <1>4, AbsentType DEF Reboot, TypeOK
  <2>3. probed' \subseteq Versions
    BY <1>4 DEF Reboot
  <2> QED BY <1>4, <2>1, <2>2, <2>3, FaultType DEF Reboot, TypeOK
<1>5. CASE RemoveServer
  BY <1>5 DEF RemoveServer, TypeOK
<1> QED BY <1>1, <1>2, <1>3, <1>4, <1>5

-----------------------------------------------------------------------------
(* A row keeps its server and names a version.                              *)

\* What every step does to the row: it leaves it, changes its status or port,
\* removes it, or writes one that names a version, which the store of servers
\* allows only while the profile is there.
RowStep ==
  \/ row' = row
  \/ row # NoRow /\ row'.version = row.version
  \/ row' = NoRow
  \/ server /\ row'.version \in Versions

LEMMA StatusStep ==
  ASSUME TypeOK, NEW s \in Statuses, SetStatus(s)
  PROVE  RowStep
BY DEF TypeOK, RowType, SetStatus, RowStep

LEMMA StepRow ==
  ASSUME TypeOK, Named, NEW o \in Operators, Step(o)
  PROVE  RowStep /\ server' = server
<1> USE DEF serverVars
<1>0. row \in RowType /\ op[o] \in OpType
  BY DEF TypeOK
<1>1. CASE Deploy(o)
  <2>1. CASE DeployRefused(o)
    <3>1. op[o].version \in Versions
      BY <2>1 DEF DeployRefused, At, Named
    <3>2. row = NoRow \/ [row EXCEPT !.status = "FAILED"].version = row.version
      BY <1>0 DEF RowType
    <3>3. [NoRow EXCEPT !.status = "FAILED", !.version = op[o].version,
                        !.port = op[o].port].version = op[o].version
      BY DEF NoRow
    <3> QED BY <2>1, <3>1, <3>2, <3>3 DEF DeployRefused, RowStep
  <2>2. CASE DeployRecord(o)
    <3>1. op[o].version \in Versions
      BY <2>2 DEF DeployRecord, At, Named
    <3> QED BY <2>2, <3>1 DEF DeployRecord, RowStep
  <2>3. CASE FindPort(o)
    BY <1>0, <2>3 DEF FindPort, RowStep, RowType
  <2>4. CASE WriteLauncher(o)
    BY <2>4, StatusStep DEF WriteLauncher, Statuses
  <2>5. CASE RecordHealthy(o)
    BY <2>5, StatusStep DEF RecordHealthy, Statuses
  <2>6. CASE AttachMetadata(o)
    BY <2>6 DEF AttachMetadata, At, Named, RowStep
  <2>7. CASE DeployFails(o)
    BY <2>7, StatusStep DEF DeployFails, Statuses
  <2> QED BY <1>1, <2>1, <2>2, <2>3, <2>4, <2>5, <2>6, <2>7
        DEF Deploy, RowStep, UploadModel, StartCandidate, CandidateHealthy, Activate, StopPrevious
<1>2. CASE Act(o)
  <2>1. CASE RecordStopped(o)
    BY <2>1, StatusStep DEF RecordStopped, Statuses
  <2>2. CASE RecordStarted(o)
    BY <2>2, StatusStep DEF RecordStarted, Statuses
  <2> QED BY <1>2, <2>1, <2>2
        DEF Act, RowStep, ActionFails, ActionBreaks, StopVersion, StartVersion,
            RemoveProcess, RemoveFiles, RemoveFilesFails, RemoveUnit, RecordRemoved
<1>3. CASE Rollback(o)
  <2>1. CASE RollbackFails(o)
    BY <2>1, StatusStep DEF RollbackFails, Statuses
  <2>2. CASE RecordRolledBack(o)
    <3>1. op[o].version \in Versions
      BY <2>2 DEF RecordRolledBack, At, Named
    <3> QED BY <2>2, <3>1 DEF RecordRolledBack, RowStep, NoRow
  <2> QED BY <1>3, <2>1, <2>2
        DEF Rollback, RowStep, StartPrevious, RollbackRaises, PreviousHealthy,
            ReactivatePrevious, StopCurrent
<1>4. CASE ServerGone(o)
  BY <1>4 DEF ServerGone, RowStep
<1> QED BY <1>1, <1>2, <1>3, <1>4, Step(o) DEF Step

LEMMA NextRow ==
  ASSUME TypeOK, Named, Next
  PROVE  RowStep /\ (server' = server \/ row' = NoRow)
<1> USE DEF serverVars
<1>1. ASSUME NEW o \in Operators, BeginRollback(o)
      PROVE  RowStep /\ server' = server
  <2>1. row \in RowType /\ row.prev # None
    BY <1>1 DEF BeginRollback, TypeOK
  <2>2. row # NoRow
    BY <2>1 DEF NoRow
  <2> QED BY <1>1, <2>1, <2>2 DEF BeginRollback, RowStep, RowType
<1>2. ASSUME NEW o \in Operators, Step(o) PROVE RowStep /\ server' = server
  BY <1>2, StepRow
<1> QED BY <1>1, <1>2 DEF Next, RowStep, BeginDeploy, BeginAction, OperatorDies, ProcessDies,
                          Reboot, RemoveServer

\* What every step does to an operation: nothing, an end, a move, or a start.
OpStep ==
  \A o \in Operators :
    \/ op'[o] = op[o] \/ op'[o] = Idle
    \/ op[o].kind # "idle" /\ op'[o].version = op[o].version /\ op'[o].at # "attach"
    \/ /\ op[o].kind # "idle" /\ op'[o].version = op[o].version
       /\ op'[o].was = row' /\ row' # NoRow
    \/ op'[o].version \in Versions /\ op'[o].at # "attach"

LEMMA GoToStep ==
  ASSUME TypeOK, NEW o \in Operators, NEW at, at # "attach", op[o].kind # "idle", GoTo(o, at)
  PROVE  OpStep
BY DEF TypeOK, OpType, GoTo, OpStep

LEMMA FinishStep ==
  ASSUME TypeOK, NEW o \in Operators, Finish(o)
  PROVE  OpStep
BY DEF TypeOK, Finish, OpStep

LEMMA DeployStep ==
  ASSUME TypeOK, NEW o \in Operators, Deploy(o)
  PROVE  OpStep
<1>1. CASE DeployRecord(o)
  BY <1>1 DEF DeployRecord, OpStep, TypeOK, OpType, At
<1>2. CASE FindPort(o)
  BY <1>2 DEF FindPort, OpStep, TypeOK, OpType, At
<1>3. CASE RecordHealthy(o)
  <2>1. row' # NoRow
    BY <1>3 DEF RecordHealthy, SetStatus, TypeOK, RowType, NoRow, None
  <2> QED BY <1>3, <2>1 DEF RecordHealthy, OpStep, TypeOK, OpType, At
<1>4. CASE UploadModel(o) \/ WriteLauncher(o)
  BY <1>4, GoToStep DEF UploadModel, WriteLauncher, At
<1>5. CASE StartCandidate(o) \/ CandidateHealthy(o)
  BY <1>5, GoToStep DEF StartCandidate, CandidateHealthy, At
<1>6. CASE Activate(o) \/ StopPrevious(o)
  BY <1>6, GoToStep DEF Activate, StopPrevious, At
<1>7. CASE DeployRefused(o) \/ AttachMetadata(o) \/ DeployFails(o)
  BY <1>7, FinishStep DEF DeployRefused, AttachMetadata, DeployFails
<1> QED BY <1>1, <1>2, <1>3, <1>4, <1>5, <1>6, <1>7, Deploy(o) DEF Deploy

LEMMA ActStep ==
  ASSUME TypeOK, NEW o \in Operators, Act(o) \/ ServerGone(o)
  PROVE  OpStep
<1>1. CASE StopVersion(o) \/ StartVersion(o)
  BY <1>1, GoToStep DEF StopVersion, StartVersion, At
<1>2. CASE RemoveProcess(o) \/ RemoveFiles(o) \/ RemoveUnit(o)
  BY <1>2, GoToStep DEF RemoveProcess, RemoveFiles, RemoveUnit, At
<1>3. CASE \/ ActionFails(o) \/ RecordStopped(o) \/ RecordStarted(o) \/ RecordRemoved(o)
           \/ ServerGone(o)
  BY <1>3, FinishStep DEF ActionFails, RecordStopped, RecordStarted, RecordRemoved, ServerGone
<1>4. CASE ActionBreaks(o) \/ RemoveFilesFails(o)
  BY <1>4, FinishStep DEF ActionBreaks, RemoveFilesFails
<1> QED BY <1>1, <1>2, <1>3, <1>4 DEF Act

LEMMA RollbackStep ==
  ASSUME TypeOK, NEW o \in Operators, Rollback(o)
  PROVE  OpStep
<1>1. CASE StartPrevious(o) \/ PreviousHealthy(o)
  BY <1>1, GoToStep DEF StartPrevious, PreviousHealthy, At
<1>2. CASE ReactivatePrevious(o) \/ StopCurrent(o)
  BY <1>2, GoToStep DEF ReactivatePrevious, StopCurrent, At
<1>3. CASE RollbackFails(o) \/ RollbackRaises(o) \/ RecordRolledBack(o)
  BY <1>3, FinishStep DEF RollbackFails, RollbackRaises, RecordRolledBack
<1> QED BY <1>1, <1>2, <1>3, Rollback(o) DEF Rollback

\* The operation that is accepted names the version of the request, of the row, or
\* of the row's previous one.
LEMMA BeginStep ==
  ASSUME TypeOK, NEW o \in Operators, NEW record, NEW events, Begin(o, record, events),
         record.version \in Versions, record.at # "attach"
  PROVE  OpStep
BY DEF TypeOK, Begin, OpStep

LEMMA RequestStep ==
  ASSUME TypeOK, Named, NEW o \in Operators,
         \/ \E v \in Versions, p \in Ports : BeginDeploy(o, v, p)
         \/ \E kind \in {"stop", "start", "remove"} : BeginAction(o, kind)
         \/ BeginRollback(o)
  PROVE  OpStep
<1>1. ASSUME NEW v \in Versions, NEW p \in Ports, BeginDeploy(o, v, p) PROVE OpStep
  <2> DEFINE r == [Idle EXCEPT !.kind = "deploy", !.at = "preflight", !.version = v,
                               !.port = p, !.token = ops + 1]
             e == IF Up(v) \/ (Healthy(row) /\ row.version = v) THEN {"self"} ELSE {}
  <2>1. Begin(o, r, e)
    BY <1>1 DEF BeginDeploy
  <2>2. r.version \in Versions /\ r.at # "attach"
    BY DEF Idle
  <2> HIDE DEF r, e
  <2> QED BY <2>1, <2>2, BeginStep
<1>2. ASSUME NEW kind \in {"stop", "start", "remove"}, BeginAction(o, kind) PROVE OpStep
  <2> DEFINE r == [Idle EXCEPT !.kind = kind, !.at = "run", !.version = row.version,
                               !.port = row.port, !.was = row]
             e == IF kind \in {"stop", "remove"} THEN {"stopped"} ELSE {}
  <2>1. Begin(o, r, e)
    BY <1>2 DEF BeginAction
  <2>2. r.version \in Versions /\ r.at # "attach"
    BY <1>2 DEF Idle, BeginAction, Named
  <2> HIDE DEF r, e
  <2> QED BY <2>1, <2>2, BeginStep
<1>3. ASSUME BeginRollback(o) PROVE OpStep
  <2> DEFINE r == [Idle EXCEPT !.kind = "rollback", !.at = "run", !.version = row.prev,
                               !.port = row.prevPort, !.was = row]
  <2>1. Begin(o, r, {"rolled"})
    BY <1>3 DEF BeginRollback
  <2>2. r.version \in Versions /\ r.at # "attach"
    BY <1>3, RowParts DEF Idle, BeginRollback, TypeOK
  <2> HIDE DEF r
  <2> QED BY <2>1, <2>2, BeginStep
<1> QED BY <1>1, <1>2, <1>3

LEMMA NextOp ==
  ASSUME TypeOK, Named, Next
  PROVE  OpStep
<1>1. ASSUME NEW o \in Operators, Step(o) PROVE OpStep
  BY <1>1, DeployStep, ActStep, RollbackStep DEF Step
<1>2. ASSUME NEW o \in Operators, OperatorDies(o) PROVE OpStep
  BY <1>2, FinishStep DEF OperatorDies
<1> QED BY <1>1, <1>2, RequestStep DEF Next, OpStep, ProcessDies, Reboot, RemoveServer

RemoteInv == TypeOK /\ Named /\ LinkedServer

LEMMA RemoteStart == Init => RemoteInv
<1> SUFFICES ASSUME Init PROVE RemoteInv
  OBVIOUS
<1>1. Absent \in LaunchType /\ NoRow \in RowType /\ Idle \in OpType
  BY AbsentType, NoRowType, IdleType
<1>2. TypeOK
  <2>1. 0 \in Tokens /\ 0 \in 0 .. MaxOps /\ 0 \in 0 .. MaxFaults
    BY DeploymentAssumption DEF Tokens
  <2> QED BY <1>1, <2>1 DEF Init, TypeOK
<1>3. Named /\ LinkedServer
  BY DEF Init, Named, LinkedServer, Idle, NoRow
<1> QED BY <1>2, <1>3 DEF RemoteInv

LEMMA RemoteStep == RemoteInv /\ [Next]_vars => RemoteInv'
<1> SUFFICES ASSUME RemoteInv, [Next]_vars PROVE RemoteInv'
  OBVIOUS
<1>1. CASE Next
  <2>1. TypeOK'
    <3>1. ASSUME NEW o \in Operators, Step(o) PROVE TypeOK'
      BY <3>1, DeployType, ActType, RollbackType, OutsideType DEF Step, RemoteInv
    <3> QED BY <1>1, <3>1, RequestType, OutsideType DEF Next, RemoteInv
  <2>2. RowStep /\ (server' = server \/ row' = NoRow)
    BY <1>1, NextRow DEF RemoteInv
  <2>3. row' # NoRow => row'.version \in Versions
    BY <2>2 DEF RowStep, RemoteInv, Named
  <2>4. OpStep
    BY <1>1, NextOp DEF RemoteInv
  <2>5. Named'
    BY <2>3, <2>4 DEF OpStep, RemoteInv, Named, Idle
  <2>6. LinkedServer'
    BY <2>2 DEF RowStep, RemoteInv, LinkedServer
  <2> QED BY <2>1, <2>5, <2>6 DEF RemoteInv
<1>2. CASE UNCHANGED vars
  BY <1>2 DEF vars, serverVars, RemoteInv, TypeOK, Named, LinkedServer
<1> QED BY <1>1, <1>2

THEOREM RemoteInvariant == Spec => []RemoteInv
BY RemoteStart, RemoteStep, PTL DEF Spec

\* The state keeps its types, and a row and an operation always name a version.
THEOREM RemoteTypes == Spec => []TypeOK
<1>1. RemoteInv => TypeOK
  BY DEF RemoteInv
<1> QED BY <1>1, RemoteInvariant, PTL

\* remove_server never takes the profile of a deployment away, whichever
\* operations overlap (LinkedServer).
THEOREM ServersStayLinked == Spec => []LinkedServer
<1>1. RemoteInv => LinkedServer
  BY DEF RemoteInv
<1> QED BY <1>1, RemoteInvariant, PTL

-----------------------------------------------------------------------------
(* Why a healthy service survives its upgrades.                             *)

\* What ServiceSurvives asks: no stop, overlap, crash or fault, and no
\* deployment of a version that runs.
Calm == Unlike({"stopped", "overlap", "crash", "fault", "self"})

OneAtATime == \A o, p \in Busy : o = p

\* A process was started from the files that are there, and every token is
\* the one of the deployment that wrote it: no version can answer in place of
\* another.
FilesTell ==
  /\ \A v \in Versions : Up(v) => running[v] = files[v]
  /\ \A v \in Versions : files[v].port # 0 => files[v].token # 0
  /\ \A v, w \in Versions :
       files[v].token # 0 /\ files[v].token = files[w].token => v = w
  /\ \A v \in Versions : files[v].token <= ops

\* A row's previous version is not its version.
Differ(r) == r.prev # None => r.prev # r.version

\* What answered runs, and once a version was made active some version answered.
ActiveAnswers ==
  /\ \A v \in probed : Up(v)
  /\ active # None => probed # {}

\* A deployment's token is the newest, its candidate is not the version that
\* is stopped afterwards and does not run before it is started, and the other
\* one is stopped only after it has answered.
DeployCalm(x) ==
  /\ x.token = ops /\ ops # 0
  /\ x.at \in {"preflight", "port", "upload"} => \A v \in Versions : files[v].token # ops
  /\ x.at \notin {"preflight", "port", "upload"} => files[x.version].token # 0
  /\ x.at = "preflight" => ~(Healthy(row) /\ row.version = x.version)
  /\ x.at \notin {"preflight", "attach"} => x.was.version # x.version
  /\ x.at = "attach" => Differ(x.was)
  /\ x.at \in {"preflight", "port", "upload", "launcher", "start"} => ~Up(x.version)
RollbackCalm(x) == x.was.version # x.version
Calmly(x) ==
  /\ x.kind \notin {"stop", "remove"}
  /\ x.kind = "deploy" => DeployCalm(x)
  /\ x.kind = "rollback" => RollbackCalm(x)
  /\ x.kind \in {"deploy", "rollback"} /\ x.at \in {"activate", "retire"} =>
       x.version \in probed

CalmState ==
  /\ OneAtATime /\ FilesTell /\ Differ(row) /\ ActiveAnswers
  /\ \A o \in Operators : Calmly(op[o])
CalmInv == Calm => CalmState

\* Each step is proved from the state before it.
CalmNow == TypeOK /\ Named /\ CalmState

LEMMA CalmParts ==
  ASSUME CalmNow, NEW o \in Operators, op[o] # Idle
  PROVE  /\ \A p \in Operators \ {o} : op[p] = Idle
         /\ op \in [Operators -> OpType] /\ op[o] \in OpType /\ Calmly(op[o])
BY DEF CalmNow, CalmState, OneAtATime, Busy, TypeOK

\* The operation under way moves on or ends: what remains to be shown is that it
\* stays calm itself.
LEMMA CalmOps ==
  ASSUME CalmNow, NEW o \in Operators, op[o] # Idle, NEW r,
         op' = [op EXCEPT ![o] = r], Calmly(r)'
  PROVE  OneAtATime' /\ \A p \in Operators : Calmly(op[p])'
<1>1. /\ \A p \in Operators \ {o} : op'[p] = Idle
      /\ op'[o] = r
  BY CalmParts DEF CalmNow, TypeOK
<1>2. OneAtATime'
  BY <1>1 DEF OneAtATime, Busy
<1>3. Calmly(Idle)'
  BY DEF Calmly, Idle
<1> QED BY <1>1, <1>2, <1>3

LEMMA GoToRecord ==
  ASSUME TypeOK, NEW o \in Operators, NEW at, GoTo(o, at)
  PROVE  /\ op' = [op EXCEPT ![o] = [op[o] EXCEPT !.at = at]]
         /\ LET r == [op[o] EXCEPT !.at = at]
            IN  /\ r.at = at /\ r.kind = op[o].kind /\ r.version = op[o].version
                /\ r.port = op[o].port /\ r.token = op[o].token /\ r.was = op[o].was
BY DEF TypeOK, OpType, GoTo

\* An operation that ends and leaves the server alone.
LEMMA EndsCalm ==
  ASSUME CalmNow, NEW o \in Operators, op[o] # Idle, Finish(o),
         UNCHANGED <<files, running, active, ops>>,
         \A v \in probed' : Up(v), probed \subseteq probed', Differ(row')
  PROVE  CalmState'
<1>1. Calmly(Idle)'
  BY DEF Calmly, Idle
<1>2. op' = [op EXCEPT ![o] = Idle]
  BY DEF Finish
<1>3. OneAtATime' /\ \A p \in Operators : Calmly(op[p])'
  BY <1>1, <1>2, CalmOps
<1>4. FilesTell'
  BY DEF CalmNow, CalmState, FilesTell, Up, Absent
<1>5. ActiveAnswers'
  BY DEF CalmNow, CalmState, ActiveAnswers, Up, Absent
<1>6. Differ(row)'
  BY DEF Differ
<1> QED BY <1>3, <1>4, <1>5, <1>6 DEF CalmState

LEMMA SetStatusDiffer ==
  ASSUME TypeOK, NEW s, SetStatus(s), Differ(row)
  PROVE  Differ(row') /\ row'.version = row.version
BY DEF TypeOK, RowType, SetStatus, Differ

\* No operation under way is idle.
LEMMA NotIdle ==
  ASSUME NEW x, x.kind # "idle"
  PROVE  x # Idle
BY DEF Idle

\* Starting the files of a version that runs changes nothing, and a version that
\* does not run had not answered.
LEMMA CalmStarts ==
  ASSUME CalmNow, NEW v \in Versions, Starts(v)
  PROVE  /\ probed' = probed
         /\ \A w \in Versions : Up(w) => running'[w] = running[w]
         /\ \A w \in Versions : running'[w] # Absent => running'[w] = files[w]
<1> DEFINE taken == \E w \in Versions \ {v} : running[w].port = files[v].port
<1>1. /\ \A w \in Versions : Up(w) => running[w] = files[w]
      /\ \A w \in probed : Up(w)
      /\ running \in [Versions -> LaunchType]
  BY DEF CalmNow, CalmState, FilesTell, ActiveAnswers, TypeOK
<1>2. CASE Up(v)
  <2>1. running' = running /\ probed' = probed
    BY <1>1, <1>2 DEF Starts, Launches
  <2> QED BY <1>1, <2>1 DEF Up
<1>3. CASE ~Up(v)
  <2>1. running' = [running EXCEPT ![v] = IF taken THEN Absent ELSE files[v]]
    BY <1>3 DEF Starts, Launches
  <2> HIDE DEF taken
  <2>2. probed \ {v} = probed
    BY <1>1, <1>3
  <2>3. probed' = probed
    BY <2>2 DEF Starts
  <2> QED BY <1>1, <1>3, <2>1, <2>3 DEF Up
<1> QED BY <1>2, <1>3

\* Only the candidate knows the candidate's token.
LEMMA AnswersUp ==
  ASSUME CalmNow, NEW v \in Versions, NEW p, Answers(v, p)
  PROVE  Up(v)
<1>1. PICK w \in Versions : Up(w) /\ running[w] = Launch(p, files[v].token)
  BY DEF Answers
<1>2. running[w] = files[w] /\ files[w] # Absent /\ files[w] \in LaunchType
  BY <1>1 DEF CalmNow, CalmState, FilesTell, TypeOK, Up
<1>3. files[w].token # 0
  <2>1. files[w].port # 0 \/ files[w].token # 0
    BY <1>2 DEF Absent, Launch, LaunchType
  <2> QED BY <2>1 DEF CalmNow, CalmState, FilesTell
<1>4. files[w].token = files[v].token
  BY <1>1, <1>2 DEF Launch
<1>5. v = w
  BY <1>3, <1>4 DEF CalmNow, CalmState, FilesTell
<1> QED BY <1>1, <1>5

\* A step that only moves the operation: nothing its calm depends on changes.
LEMMA DeployPlans ==
  ASSUME CalmNow, NEW o \in Operators, DeployRecord(o) \/ FindPort(o)
  PROVE  CalmState'
<1> USE DEF serverVars
<1>0. /\ op[o] # Idle /\ op[o].kind = "deploy" /\ op[o].at \in {"preflight", "port"}
      /\ UNCHANGED <<files, running, active, probed, ops, history>>
  BY NotIdle DEF DeployRecord, FindPort, At
<1>1. /\ op[o] \in OpType /\ DeployCalm(op[o]) /\ op[o].version \in Versions
      /\ row \in RowType /\ op \in [Operators -> OpType]
  BY <1>0, CalmParts DEF CalmNow, Calmly, Named, TypeOK
<1>2. \E r : op' = [op EXCEPT ![o] = r] /\ Calmly(r)' /\ Differ(row')
  <2>1. CASE DeployRecord(o)
    <3> DEFINE was == IF Healthy(row) THEN row ELSE NoRow
    <3> PICK r : r = [op[o] EXCEPT !.at = "port", !.was = was]
      OBVIOUS
    <3>1. was.version # op[o].version
      <4>1. Healthy(row) => row.version # op[o].version
        BY <1>1, <2>1 DEF DeployRecord, At, DeployCalm
      <4>2. NoRow.version # op[o].version
        BY <1>1, DeploymentAssumption DEF NoRow, None
      <4> QED BY <4>1, <4>2
    <3>2. op' = [op EXCEPT ![o] = r]
      BY <1>1, <2>1 DEF DeployRecord, OpType
    <3>3. Differ(row')
      BY <2>1, <3>1 DEF DeployRecord, Differ
    <3> HIDE DEF was
    <3>4. /\ r.at = "port" /\ r.kind = "deploy" /\ r.version = op[o].version
          /\ r.token = op[o].token /\ r.was = was
      BY <1>0, <1>1 DEF OpType
    <3>5. /\ op[o].token = ops /\ ops # 0 /\ ~Up(op[o].version)
          /\ \A v \in Versions : files[v].token # ops
      BY <1>1, <2>1 DEF DeployRecord, At, DeployCalm
    <3>6. Calmly(r)'
      BY <1>0, <3>1, <3>4, <3>5 DEF Calmly, DeployCalm, Up, Absent
    <3> QED BY <3>2, <3>3, <3>6
  <2>2. CASE FindPort(o)
    <3>1. PICK p \in Ports :
              /\ row' = [row EXCEPT !.port = p]
              /\ op' = [op EXCEPT ![o].at = "upload", ![o].port = p]
      BY <2>2 DEF FindPort
    <3> PICK r : r = [op[o] EXCEPT !.at = "upload", !.port = p]
      OBVIOUS
    <3>2. op' = [op EXCEPT ![o] = r]
      BY <1>1, <3>1 DEF OpType
    <3>3. Differ(row')
      BY <1>1, <3>1 DEF CalmNow, CalmState, Differ, RowType
    <3>4. /\ r.at = "upload" /\ r.kind = "deploy" /\ r.version = op[o].version
          /\ r.token = op[o].token /\ r.was = op[o].was
      BY <1>0, <1>1 DEF OpType
    <3>5. /\ op[o].token = ops /\ ops # 0 /\ ~Up(op[o].version)
          /\ op[o].was.version # op[o].version
          /\ \A v \in Versions : files[v].token # ops
      BY <1>1, <2>2 DEF FindPort, At, DeployCalm
    <3>6. Calmly(r)'
      BY <1>0, <3>4, <3>5 DEF Calmly, DeployCalm, Up, Absent
    <3> QED BY <3>2, <3>3, <3>6
  <2> QED BY <2>1, <2>2, DeployRecord(o) \/ FindPort(o)
<1>3. OneAtATime' /\ \A p \in Operators : Calmly(op[p])'
  BY <1>0, <1>2, CalmOps
<1>4. FilesTell' /\ ActiveAnswers'
  BY <1>0 DEF CalmNow, CalmState, FilesTell, ActiveAnswers, Up, Absent
<1>5. Differ(row)'
  BY <1>2 DEF Differ
<1> QED BY <1>3, <1>4, <1>5 DEF CalmState

\* The candidate's files are written while it does not run.
LEMMA DeployWrites ==
  ASSUME CalmNow, NEW o \in Operators, UploadModel(o) \/ WriteLauncher(o)
  PROVE  CalmState'
<1> DEFINE v == op[o].version
<1>0. /\ op[o] # Idle /\ op[o].kind = "deploy" /\ op[o].at \in {"upload", "launcher"}
      /\ UNCHANGED <<running, active, probed, ops>>
  BY NotIdle DEF UploadModel, WriteLauncher, At
<1>1. /\ op[o] \in OpType /\ DeployCalm(op[o]) /\ v \in Versions /\ row \in RowType
      /\ op \in [Operators -> OpType] /\ files \in [Versions -> LaunchType]
  BY <1>0, CalmParts DEF CalmNow, Calmly, Named, TypeOK
<1>2. op[o].token = ops /\ ops # 0 /\ ~Up(v) /\ op[o].was.version # v
  BY <1>0, <1>1 DEF DeployCalm
<1>3. ops \in Nat /\ ops <= ops
  BY DeploymentAssumption DEF CalmNow, TypeOK
<1>4. CASE UploadModel(o)
  <2> DEFINE l == [files[v] EXCEPT !.token = ops]
  <2>1. files' = [files EXCEPT ![v] = l] /\ l.token = ops /\ row' = row
    BY <1>1, <1>2, <1>4 DEF UploadModel, LaunchType
  <2>2. \A w \in Versions : files[w].token # ops
    BY <1>1, <1>4 DEF UploadModel, At, DeployCalm
  <2> HIDE DEF l
  <2>3. FilesTell'
    BY <1>0, <1>1, <1>2, <1>3, <2>1, <2>2 DEF CalmNow, CalmState, FilesTell, Up, Absent
  <2>4. GoTo(o, "launcher")
    BY <1>4 DEF UploadModel
  <2> PICK r : r = [op[o] EXCEPT !.at = "launcher"]
    OBVIOUS
  <2>5. /\ op' = [op EXCEPT ![o] = r] /\ r.at = "launcher" /\ r.kind = "deploy"
        /\ r.version = v /\ r.token = op[o].token /\ r.was = op[o].was
    BY <1>0, <2>4, GoToRecord DEF CalmNow
  <2> HIDE DEF v
  <2>6. Calmly(r)'
    BY <1>0, <1>1, <1>2, <2>1, <2>5 DEF Calmly, DeployCalm, Up, Absent
  <2>7. OneAtATime' /\ \A p \in Operators : Calmly(op[p])'
    BY <1>0, <2>5, <2>6, CalmOps
  <2>8. ActiveAnswers' /\ Differ(row)'
    BY <1>0, <2>1 DEF CalmNow, CalmState, ActiveAnswers, Up, Absent, Differ
  <2> QED BY <2>3, <2>7, <2>8 DEF CalmState
<1>5. CASE WriteLauncher(o)
  <2> DEFINE l == [files[v] EXCEPT !.port = op[o].port]
  <2>1. files' = [files EXCEPT ![v] = l] /\ l.token = files[v].token
    BY <1>1, <1>2, <1>5 DEF WriteLauncher, LaunchType
  <2>2. files[v].token # 0
    BY <1>1, <1>5 DEF WriteLauncher, At, DeployCalm
  <2> HIDE DEF l
  <2>3. FilesTell'
    BY <1>0, <1>1, <1>2, <1>3, <2>1, <2>2 DEF CalmNow, CalmState, FilesTell, Up, Absent
  <2>4. GoTo(o, "start") /\ SetStatus("STARTING")
    BY <1>5 DEF WriteLauncher
  <2> PICK r : r = [op[o] EXCEPT !.at = "start"]
    OBVIOUS
  <2>5. /\ op' = [op EXCEPT ![o] = r] /\ r.at = "start" /\ r.kind = "deploy"
        /\ r.version = v /\ r.token = op[o].token /\ r.was = op[o].was
    BY <1>0, <2>4, GoToRecord DEF CalmNow
  <2> HIDE DEF v
  <2>6. Calmly(r)'
    BY <1>0, <1>1, <1>2, <2>1, <2>2, <2>5 DEF Calmly, DeployCalm, Up, Absent
  <2>7. OneAtATime' /\ \A p \in Operators : Calmly(op[p])'
    BY <1>0, <2>5, <2>6, CalmOps
  <2>8. Differ(row')
    BY <2>4, SetStatusDiffer DEF CalmNow, CalmState
  <2>9. ActiveAnswers' /\ Differ(row)'
    BY <1>0, <2>8 DEF CalmNow, CalmState, ActiveAnswers, Up, Absent, Differ
  <2> QED BY <2>3, <2>7, <2>9 DEF CalmState
<1> QED BY <1>4, <1>5, UploadModel(o) \/ WriteLauncher(o)

\* What the steps of an upgrade and of a rollback have in common: the files of the
\* new version are started, ...
LEMMA CandidateStarts ==
  ASSUME CalmNow, NEW o \in Operators, op[o].kind \in {"deploy", "start", "rollback"},
         op[o].kind = "deploy" => op[o].at = "start",
         Starts(op[o].version), GoTo(o, "health"), UNCHANGED <<row, files, active, ops>>
  PROVE  CalmState'
<1>0. op[o] # Idle
  BY NotIdle
<1>1. /\ op[o] \in OpType /\ Calmly(op[o]) /\ op[o].version \in Versions
  BY <1>0, CalmParts DEF CalmNow, Named
<1> PICK v : v = op[o].version
  OBVIOUS
<1> PICK r : r = [op[o] EXCEPT !.at = "health"]
  OBVIOUS
<1>2. /\ op' = [op EXCEPT ![o] = r] /\ r.at = "health" /\ r.kind = op[o].kind
      /\ r.version = v /\ r.token = op[o].token /\ r.was = op[o].was
  BY GoToRecord DEF CalmNow
<1>3. /\ probed' = probed
      /\ \A w \in Versions : Up(w) => running'[w] = running[w]
      /\ \A w \in Versions : running'[w] # Absent => running'[w] = files[w]
  BY <1>1, CalmStarts
<1>4. Calmly(r)'
  <2>1. op[o].kind = "deploy" => /\ op[o].token = ops /\ ops # 0
                                 /\ files[v].token # 0 /\ op[o].was.version # v
    BY <1>1 DEF Calmly, DeployCalm
  <2>2. op[o].kind = "rollback" => op[o].was.version # v
    BY <1>1 DEF Calmly, RollbackCalm
  <2> QED BY <1>2, <2>1, <2>2 DEF Calmly, DeployCalm, RollbackCalm
<1>5. OneAtATime' /\ \A p \in Operators : Calmly(op[p])'
  BY <1>0, <1>2, <1>4, CalmOps
<1>6. FilesTell'
  BY <1>3 DEF CalmNow, CalmState, FilesTell, Up, Absent
<1>7. ActiveAnswers'
  BY <1>3 DEF CalmNow, CalmState, ActiveAnswers, Up, Absent, TypeOK
<1>8. Differ(row)'
  BY DEF CalmNow, CalmState, Differ
<1> QED BY <1>5, <1>6, <1>7, <1>8 DEF CalmState

\* ... it answers, ...
LEMMA CandidateAnswers ==
  ASSUME CalmNow, NEW o \in Operators, op[o].kind \in {"deploy", "rollback"},
         op[o].at = "health",
         Answers(op[o].version, op[o].port), probed' = probed \cup {op[o].version},
         GoTo(o, "activate"), UNCHANGED <<row, files, running, active, ops>>
  PROVE  CalmState'
<1>0. op[o] # Idle
  BY NotIdle
<1>1. /\ op[o] \in OpType /\ Calmly(op[o]) /\ op[o].version \in Versions
  BY <1>0, CalmParts DEF CalmNow, Named
<1> PICK v : v = op[o].version
  OBVIOUS
<1> PICK r : r = [op[o] EXCEPT !.at = "activate"]
  OBVIOUS
<1>2. /\ op' = [op EXCEPT ![o] = r] /\ r.at = "activate" /\ r.kind = op[o].kind
      /\ r.version = v /\ r.token = op[o].token /\ r.was = op[o].was
  BY GoToRecord DEF CalmNow
<1>3. Up(v) /\ v \in probed'
  BY <1>1, AnswersUp
<1>4. Calmly(r)'
  <2>1. op[o].kind = "deploy" => /\ op[o].token = ops /\ ops # 0
                                 /\ files[v].token # 0 /\ op[o].was.version # v
    BY <1>1 DEF Calmly, DeployCalm
  <2>2. op[o].kind = "rollback" => op[o].was.version # v
    BY <1>1 DEF Calmly, RollbackCalm
  <2> QED BY <1>2, <1>3, <2>1, <2>2 DEF Calmly, DeployCalm, RollbackCalm
<1>5. OneAtATime' /\ \A p \in Operators : Calmly(op[p])'
  BY <1>0, <1>2, <1>4, CalmOps
<1>6. FilesTell' /\ ActiveAnswers'
  BY <1>3 DEF CalmNow, CalmState, FilesTell, ActiveAnswers, Up, Absent
<1>7. Differ(row)'
  BY DEF CalmNow, CalmState, Differ
<1> QED BY <1>5, <1>6, <1>7 DEF CalmState

\* ... it becomes the active one, ...
LEMMA CandidateActivates ==
  ASSUME CalmNow, NEW o \in Operators, op[o].kind \in {"deploy", "rollback"},
         op[o].at = "activate", Links(op[o].version),
         GoTo(o, "retire"), UNCHANGED <<row, files, running, probed, ops>>
  PROVE  CalmState'
<1>0. op[o] # Idle
  BY NotIdle
<1>1. /\ op[o] \in OpType /\ Calmly(op[o]) /\ op[o].version \in Versions
  BY <1>0, CalmParts DEF CalmNow, Named
<1> PICK v : v = op[o].version
  OBVIOUS
<1> PICK r : r = [op[o] EXCEPT !.at = "retire"]
  OBVIOUS
<1>2. /\ op' = [op EXCEPT ![o] = r] /\ r.at = "retire" /\ r.kind = op[o].kind
      /\ r.version = v /\ r.token = op[o].token /\ r.was = op[o].was
  BY GoToRecord DEF CalmNow
<1>3. v \in probed
  BY <1>1 DEF Calmly
<1>4. Calmly(r)'
  <2>1. op[o].kind = "deploy" => /\ op[o].token = ops /\ ops # 0
                                 /\ files[v].token # 0 /\ op[o].was.version # v
    BY <1>1 DEF Calmly, DeployCalm
  <2>2. op[o].kind = "rollback" => op[o].was.version # v
    BY <1>1 DEF Calmly, RollbackCalm
  <2> QED BY <1>2, <1>3, <2>1, <2>2 DEF Calmly, DeployCalm, RollbackCalm
<1>5. OneAtATime' /\ \A p \in Operators : Calmly(op[p])'
  BY <1>0, <1>2, <1>4, CalmOps
<1>6. FilesTell' /\ ActiveAnswers'
  BY <1>3 DEF CalmNow, CalmState, FilesTell, ActiveAnswers, Up, Absent
<1>7. Differ(row)'
  BY DEF CalmNow, CalmState, Differ
<1> QED BY <1>5, <1>6, <1>7 DEF CalmState

\* ... and then the other one is stopped.
LEMMA OtherStops ==
  ASSUME CalmNow, NEW o \in Operators, op[o].kind \in {"deploy", "rollback"},
         op[o].at = "retire",
         Stops(op[o].was.version) \/ UNCHANGED <<running, probed>>,
         GoTo(o, "record"), UNCHANGED <<row, files, active, ops>>
  PROVE  CalmState'
<1>0. op[o] # Idle
  BY NotIdle
<1>1. /\ op[o] \in OpType /\ Calmly(op[o]) /\ op[o].version \in Versions
      /\ running \in [Versions -> LaunchType]
  BY <1>0, CalmParts DEF CalmNow, Named, TypeOK
<1> PICK v : v = op[o].version
  OBVIOUS
<1> PICK w : w = op[o].was.version
  OBVIOUS
<1> PICK r : r = [op[o] EXCEPT !.at = "record"]
  OBVIOUS
<1>2. /\ op' = [op EXCEPT ![o] = r] /\ r.at = "record" /\ r.kind = op[o].kind
      /\ r.version = v /\ r.token = op[o].token /\ r.was = op[o].was
  BY GoToRecord DEF CalmNow
<1>3. v \in probed /\ w # v
  BY <1>1 DEF Calmly, DeployCalm, RollbackCalm
<1>4. Calmly(r)'
  <2>1. op[o].kind = "deploy" => op[o].token = ops /\ ops # 0 /\ files[v].token # 0
    BY <1>1 DEF Calmly, DeployCalm
  <2> QED BY <1>2, <1>3, <2>1 DEF Calmly, DeployCalm, RollbackCalm
<1>5. OneAtATime' /\ \A p \in Operators : Calmly(op[p])'
  BY <1>0, <1>2, <1>4, CalmOps
<1>6. \A u \in Versions : running'[u] = running[u] \/ (u = w /\ running'[u] = Absent)
  BY <1>1 DEF Stops, CalmNow, TypeOK
<1>7. FilesTell'
  BY <1>6 DEF CalmNow, CalmState, FilesTell, Up, Absent
<1>8. ActiveAnswers'
  <2>1. probed \subseteq Versions /\ (\A u \in probed : Up(u))
    BY DEF CalmNow, CalmState, ActiveAnswers, TypeOK
  <2>2. CASE Stops(op[o].was.version)
    BY <1>1, <1>3, <2>1, <2>2 DEF Stops, ActiveAnswers, Up, Absent
  <2>3. CASE UNCHANGED <<running, probed>>
    BY <1>3, <2>1, <2>3 DEF ActiveAnswers, Up, Absent
  <2> QED BY <2>2, <2>3
<1>9. Differ(row)'
  BY DEF CalmNow, CalmState, Differ
<1> QED BY <1>5, <1>7, <1>8, <1>9 DEF CalmState

LEMMA DeployKeepsCalm ==
  ASSUME CalmNow, NEW o \in Operators, Deploy(o)
  PROVE  CalmState'
<1> USE DEF serverVars
<1>0. op[o].kind = "deploy" /\ op[o] # Idle /\ row \in RowType
  <2>1. op[o].kind = "deploy"
    BY DEF Deploy, DeployRefused, DeployRecord, FindPort, UploadModel, WriteLauncher,
           StartCandidate, CandidateHealthy, Activate, StopPrevious, RecordHealthy,
           AttachMetadata, DeployFails, At
  <2> QED BY <2>1, NotIdle DEF CalmNow, TypeOK
<1>1. Calmly(op[o]) /\ Differ(row) /\ \A v \in probed : Up(v)
  BY <1>0, CalmParts DEF CalmNow, CalmState, ActiveAnswers
<1>2. CASE DeployRecord(o) \/ FindPort(o)
  BY <1>2, DeployPlans
<1>3. CASE UploadModel(o) \/ WriteLauncher(o)
  BY <1>3, DeployWrites
<1>4. CASE StartCandidate(o)
  BY <1>0, <1>4, CandidateStarts DEF StartCandidate, At
<1>5. CASE CandidateHealthy(o)
  BY <1>0, <1>5, CandidateAnswers DEF CandidateHealthy, At
<1>6. CASE Activate(o)
  BY <1>0, <1>6, CandidateActivates DEF Activate, At
<1>7. CASE StopPrevious(o)
  <2>1. Stops(op[o].was.version) \/ UNCHANGED <<running, probed>>
    BY <1>7 DEF StopPrevious, Retires
  <2> QED BY <1>0, <1>7, <2>1, OtherStops DEF StopPrevious, At
<1>8. CASE RecordHealthy(o)
  <2>1. Differ(row') /\ op[o].at = "record"
    BY <1>1, <1>8, SetStatusDiffer DEF RecordHealthy, At, CalmNow
  <2> PICK new : new = row'
    OBVIOUS
  <2> PICK r : r = [op[o] EXCEPT !.at = "attach", !.was = new]
    OBVIOUS
  <2>2. /\ op' = [op EXCEPT ![o] = r] /\ r.at = "attach" /\ r.kind = "deploy"
        /\ r.version = op[o].version /\ r.token = op[o].token /\ r.was = new
    BY <1>0, <1>8 DEF RecordHealthy, CalmNow, TypeOK, OpType
  <2>3. Calmly(r)'
    <3>1. op[o].token = ops /\ ops # 0 /\ files[op[o].version].token # 0
      BY <1>0, <1>1, <2>1 DEF Calmly, DeployCalm
    <3> QED BY <1>8, <2>1, <2>2, <3>1 DEF RecordHealthy, Calmly, DeployCalm, Differ
  <2>4. OneAtATime' /\ \A p \in Operators : Calmly(op[p])'
    BY <1>0, <2>2, <2>3, CalmOps
  <2>5. FilesTell' /\ ActiveAnswers' /\ Differ(row)'
    BY <1>8, <2>1 DEF RecordHealthy, CalmNow, CalmState, FilesTell, ActiveAnswers, Up, Absent, Differ
  <2> QED BY <2>4, <2>5 DEF CalmState
<1>9. CASE DeployRefused(o)
  <2>1. Differ(row')
    BY <1>0, <1>1, <1>9 DEF DeployRefused, Differ, RowType, NoRow
  <2> QED BY <1>0, <1>1, <1>9, <2>1, EndsCalm DEF DeployRefused
<1>10. CASE AttachMetadata(o)
  <2>1. Differ(row')
    BY <1>0, <1>1, <1>10 DEF AttachMetadata, At, Calmly, DeployCalm
  <2> QED BY <1>0, <1>1, <1>10, <2>1, EndsCalm DEF AttachMetadata
<1>11. CASE DeployFails(o)
  <2>1. Differ(row')
    BY <1>1, <1>11, SetStatusDiffer DEF DeployFails, CalmNow
  <2> QED BY <1>0, <1>1, <1>11, <2>1, EndsCalm DEF DeployFails
<1> QED BY <1>2, <1>3, <1>4, <1>5, <1>6, <1>7, <1>8, <1>9, <1>10, <1>11, Deploy(o) DEF Deploy

LEMMA ActKeepsCalm ==
  ASSUME CalmNow, NEW o \in Operators, Act(o) \/ ServerGone(o)
  PROVE  CalmState'
<1> USE DEF serverVars
<1>0. op[o] # Idle
  <2>1. CASE ServerGone(o)
    BY <2>1 DEF ServerGone, At, Idle
  <2>2. CASE Act(o)
    <3>1. op[o].kind \in {"stop", "start", "remove"}
      BY <2>2 DEF Act, ActionFails, ActionBreaks, StopVersion, RecordStopped, StartVersion,
         RecordStarted, RemoveProcess, RemoveFiles, RemoveFilesFails, RemoveUnit, RecordRemoved, At
    <3> QED BY <3>1, NotIdle
  <2> QED BY <2>1, <2>2
<1>1. /\ op[o].kind \notin {"stop", "remove"} /\ Differ(row) /\ \A v \in probed : Up(v)
      /\ Differ(NoRow)
  BY <1>0, CalmParts DEF CalmNow, CalmState, ActiveAnswers, Calmly, Differ, NoRow
<1>2. CASE StartVersion(o)
  BY <1>2, CandidateStarts DEF StartVersion, At
<1>3. CASE RecordStarted(o)
  <2>1. Differ(row')
    BY <1>1, <1>3, SetStatusDiffer DEF RecordStarted, CalmNow
  <2>2. op[o].version \in Versions
    BY <1>3 DEF RecordStarted, At, CalmNow, Named
  <2>3. \A v \in probed' : Up(v)
    BY <1>1, <1>3, <2>2, AnswersUp DEF RecordStarted
  <2>4. probed \subseteq probed'
    BY <1>3 DEF RecordStarted
  <2> QED BY <1>0, <1>3, <2>1, <2>3, <2>4, EndsCalm DEF RecordStarted
<1>4. CASE ActionFails(o) \/ ActionBreaks(o) \/ ServerGone(o)
  BY <1>0, <1>1, <1>4, EndsCalm DEF ActionFails, ActionBreaks, ServerGone
<1> QED BY <1>1, <1>2, <1>3, <1>4
    DEF Act, StopVersion, RecordStopped, RemoveProcess, RemoveFiles, RemoveFilesFails,
        RemoveUnit, RecordRemoved, At

LEMMA RollbackKeepsCalm ==
  ASSUME CalmNow, NEW o \in Operators, Rollback(o)
  PROVE  CalmState'
<1> USE DEF serverVars
<1>0. op[o].kind = "rollback" /\ op[o] # Idle
  <2>1. op[o].kind = "rollback"
    BY DEF Rollback, StartPrevious, RollbackFails, RollbackRaises, PreviousHealthy,
           ReactivatePrevious, StopCurrent, RecordRolledBack, At
  <2> QED BY <2>1, NotIdle
<1>1. Differ(row) /\ \A v \in probed : Up(v)
  BY DEF CalmNow, CalmState, ActiveAnswers
<1>2. CASE StartPrevious(o)
  BY <1>0, <1>2, CandidateStarts DEF StartPrevious, At
<1>3. CASE PreviousHealthy(o)
  BY <1>0, <1>3, CandidateAnswers DEF PreviousHealthy, At
<1>4. CASE ReactivatePrevious(o)
  BY <1>0, <1>4, CandidateActivates DEF ReactivatePrevious, At
<1>5. CASE StopCurrent(o)
  BY <1>0, <1>5, OtherStops DEF StopCurrent, At, Retires
<1>6. CASE RollbackFails(o)
  <2>1. Differ(row')
    BY <1>1, <1>6, SetStatusDiffer DEF RollbackFails, CalmNow
  <2> QED BY <1>0, <1>1, <1>6, <2>1, EndsCalm DEF RollbackFails
<1>7. CASE RollbackRaises(o)
  BY <1>0, <1>1, <1>7, EndsCalm DEF RollbackRaises
<1>8. CASE RecordRolledBack(o)
  <2>1. Differ(row')
    BY <1>8 DEF RecordRolledBack, Differ, NoRow
  <2> QED BY <1>0, <1>1, <1>8, <2>1, EndsCalm DEF RecordRolledBack
<1> QED BY <1>2, <1>3, <1>4, <1>5, <1>6, <1>7, <1>8, Rollback(o) DEF Rollback

\* An operation that is accepted while nothing else is under way.
LEMMA BeginCalm ==
  ASSUME CalmNow, NEW o \in Operators, NEW record, NEW events, Begin(o, record, events),
         "overlap" \notin history', Calmly(record)',
         UNCHANGED <<files, running, active, probed>>, Differ(row')
  PROVE  CalmState'
<1>1. /\ Busy = {} /\ op' = [op EXCEPT ![o] = record] /\ ops' = ops + 1
      /\ op \in [Operators -> OpType]
  BY DEF Begin, Note, CalmNow, TypeOK
<1>2. \A p \in Operators \ {o} : op'[p] = Idle
  BY <1>1 DEF Busy
<1>3. OneAtATime'
  BY <1>2 DEF OneAtATime, Busy
<1>4. \A p \in Operators : Calmly(op[p])'
  <2>1. Calmly(Idle)'
    BY DEF Calmly, Idle
  <2> QED BY <1>1, <1>2, <2>1
<1>5. FilesTell'
  <2>1. \A v \in Versions : files[v].token \in Nat /\ files[v].token <= ops /\ ops \in Nat
    BY DeploymentAssumption DEF CalmNow, CalmState, FilesTell, TypeOK, LaunchType, Tokens
  <2>2. \A v \in Versions : files[v].token <= ops + 1
    BY <2>1
  <2> QED BY <1>1, <2>2 DEF CalmNow, CalmState, FilesTell, Up, Absent
<1>6. ActiveAnswers' /\ Differ(row)'
  BY DEF CalmNow, CalmState, ActiveAnswers, Up, Absent, Differ
<1> QED BY <1>3, <1>4, <1>5, <1>6 DEF CalmState

LEMMA RequestKeepsCalm ==
  ASSUME CalmNow, Calm', NEW o \in Operators,
         \/ \E v \in Versions, p \in Ports : BeginDeploy(o, v, p)
         \/ \E kind \in {"stop", "start", "remove"} : BeginAction(o, kind)
         \/ BeginRollback(o)
  PROVE  CalmState'
<1> USE DEF serverVars
<1>0. /\ "overlap" \notin history' /\ "self" \notin history' /\ "stopped" \notin history'
      /\ Differ(row) /\ row \in RowType
  BY DEF Calm, Unlike, CalmNow, CalmState, TypeOK
<1>1. ASSUME NEW v \in Versions, NEW p \in Ports, BeginDeploy(o, v, p) PROVE CalmState'
  <2> DEFINE e == IF Up(v) \/ (Healthy(row) /\ row.version = v) THEN {"self"} ELSE {}
  <2> PICK n : n = ops + 1
    OBVIOUS
  <2> DEFINE r == [Idle EXCEPT !.kind = "deploy", !.at = "preflight", !.version = v,
                               !.port = p, !.token = n]
  <2>1. Begin(o, r, e)
    BY <1>1 DEF BeginDeploy
  <2>2. ~Up(v) /\ ~(Healthy(row) /\ row.version = v)
    BY <1>0, <2>1 DEF Begin, Note
  <2>3. ops' = n /\ n # 0 /\ \A w \in Versions : files[w].token # n
    <3>1. \A w \in Versions : files[w].token \in Nat /\ files[w].token <= ops
      BY DeploymentAssumption DEF CalmNow, CalmState, FilesTell, TypeOK, LaunchType, Tokens
    <3>2. ops \in Nat /\ ops' = ops + 1
      BY <2>1, DeploymentAssumption DEF CalmNow, TypeOK, Begin
    <3> QED BY <3>1, <3>2
  <2>4. r.kind = "deploy" /\ r.at = "preflight" /\ r.version = v /\ r.token = n
    BY DEF Idle
  <2>5. UNCHANGED <<files, running, active, probed, row>>
    BY <1>1 DEF BeginDeploy
  <2> HIDE DEF r
  <2>6. Calmly(r)'
    BY <2>2, <2>3, <2>4, <2>5 DEF Calmly, DeployCalm, Up, Absent
  <2> HIDE DEF e
  <2> QED BY <1>0, <2>1, <2>5, <2>6, BeginCalm
<1>2. ASSUME NEW kind \in {"stop", "start", "remove"}, BeginAction(o, kind) PROVE CalmState'
  <2> DEFINE e == IF kind \in {"stop", "remove"} THEN {"stopped"} ELSE {}
  <2> PICK r : r = [Idle EXCEPT !.kind = kind, !.at = "run", !.version = row.version,
                                !.port = row.port, !.was = row]
    OBVIOUS
  <2>1. Begin(o, r, e)
    BY <1>2 DEF BeginAction
  <2>2. kind = "start"
    BY <1>0, <2>1 DEF Begin, Note
  <2>3. r.kind = "start"
    BY <2>2 DEF Idle
  <2>4. Calmly(r)'
    BY <2>3 DEF Calmly
  <2> HIDE DEF e
  <2> QED BY <1>0, <1>2, <2>1, <2>4, BeginCalm DEF BeginAction
<1>3. ASSUME BeginRollback(o) PROVE CalmState'
  <2> PICK r : r = [Idle EXCEPT !.kind = "rollback", !.at = "run", !.version = row.prev,
                                !.port = row.prevPort, !.was = row]
    OBVIOUS
  <2>1. Begin(o, r, {"rolled"})
    BY <1>3 DEF BeginRollback
  <2>2. r.kind = "rollback" /\ r.at = "run" /\ r.version = row.prev /\ r.was = row
    BY DEF Idle
  <2>3. Calmly(r)'
    BY <1>0, <1>3, <2>2 DEF Calmly, RollbackCalm, Differ, BeginRollback
  <2>4. Differ(row')
    BY <1>0, <1>3 DEF BeginRollback, Differ, RowType
  <2> QED BY <1>0, <1>3, <2>1, <2>3, <2>4, BeginCalm DEF BeginRollback
<1> QED BY <1>1, <1>2, <1>3

RemoteCalm == RemoteInv /\ CalmInv

\* What has happened is not forgotten.
LEMMA HistoryGrows ==
  ASSUME Next
  PROVE  history \subseteq history'
<1> USE DEF serverVars
<1>1. ASSUME NEW o \in Operators, Step(o) PROVE history \subseteq history'
  BY <1>1 DEF Step, Deploy, Act, Rollback, ServerGone, Note,
       DeployRefused, DeployRecord, FindPort, UploadModel, WriteLauncher, StartCandidate,
       CandidateHealthy, Activate, StopPrevious, RecordHealthy, AttachMetadata, DeployFails,
       ActionFails, ActionBreaks, StopVersion, RecordStopped, StartVersion, RecordStarted,
       RemoveProcess, RemoveFiles, RemoveFilesFails, RemoveUnit,
       RecordRemoved, StartPrevious, RollbackFails, RollbackRaises, PreviousHealthy,
       ReactivatePrevious, StopCurrent, RecordRolledBack, Links, Retires, SetsUnit, Ignores
<1> QED BY <1>1 DEF Next, BeginDeploy, BeginAction, BeginRollback, Begin, OperatorDies,
                    ProcessDies, Reboot, Fault, RemoveServer, Note

LEMMA RemoteCalmStart == Init => RemoteCalm
<1> SUFFICES ASSUME Init PROVE RemoteCalm
  OBVIOUS
<1>1. CalmState
  BY DeploymentAssumption DEF Init, CalmState, OneAtATime, Busy, FilesTell, Up, Absent, Launch,
     Differ, NoRow, ActiveAnswers, Calmly, Idle
<1> QED BY <1>1, RemoteStart DEF RemoteCalm, CalmInv

LEMMA RemoteCalmStep == RemoteCalm /\ [Next]_vars => RemoteCalm'
<1> SUFFICES ASSUME RemoteCalm, [Next]_vars PROVE RemoteCalm'
  OBVIOUS
<1>1. RemoteInv'
  BY RemoteStep DEF RemoteCalm
<1>2. ASSUME Next, Calm' PROVE CalmState'
  <2>1. CalmNow
    BY <1>2, HistoryGrows DEF RemoteCalm, RemoteInv, CalmInv, Calm, Unlike, CalmNow
  <2>2. ASSUME NEW o \in Operators, Step(o) PROVE CalmState'
    BY <2>1, <2>2, DeployKeepsCalm, ActKeepsCalm, RollbackKeepsCalm DEF Step
  <2>3. ASSUME RemoveServer PROVE CalmState'
    BY <2>1, <2>3 DEF RemoveServer, serverVars, CalmNow, CalmState, OneAtATime, Busy, FilesTell,
       Up, Absent, Differ, ActiveAnswers, Calmly, DeployCalm, RollbackCalm
  <2>4. ASSUME NEW o \in Operators PROVE ~OperatorDies(o)
    BY <1>2 DEF OperatorDies, Fault, Note, Calm, Unlike
  <2>5. (\A v \in Versions : ~ProcessDies(v)) /\ ~Reboot
    BY <1>2 DEF ProcessDies, Reboot, Fault, Note, Calm, Unlike
  <2> QED BY <1>2, <2>1, <2>2, <2>3, <2>4, <2>5, RequestKeepsCalm DEF Next
<1>3. ASSUME UNCHANGED vars, Calm' PROVE CalmState'
  BY <1>3 DEF vars, serverVars, RemoteCalm, CalmInv, CalmState, OneAtATime, Busy, FilesTell,
     Up, Absent, Differ, ActiveAnswers, Calmly, DeployCalm, RollbackCalm, Calm, Unlike
<1> QED BY <1>1, <1>2, <1>3 DEF RemoteCalm, CalmInv

\* Without a stop, an overlap, a crash or a fault, and as long as the version that
\* runs is not deployed again, some version that answered keeps running from the
\* first activation on, whichever command of an upgrade or a rollback fails.
THEOREM ServiceKeepsRunning == Spec => []ServiceSurvives
<1>1. RemoteCalm => ServiceSurvives
  BY DEF RemoteCalm, CalmInv, CalmState, ActiveAnswers, Calm, ServiceSurvives
<1> QED BY <1>1, RemoteCalmStart, RemoteCalmStep, PTL DEF Spec

-----------------------------------------------------------------------------
(* Why what is recorded is so: one operation at a time.                     *)

\* The operation under way.
Current == IF Quiet THEN Idle ELSE op[CHOOSE o \in Operators : o \in Busy]

Planning == {"preflight", "port", "upload"}
Answered == {"activate", "retire", "record"}
Written == {"start", "health"} \cup Answered

\* The kinds of operation go through their own steps.
Placed(x) ==
  /\ x.kind = "idle" => x = Idle
  /\ x.kind = "deploy" => x.at \in Planning \cup {"launcher", "attach"} \cup Written
  /\ x.kind = "stop" => x.at \in {"run", "record"}
  /\ x.kind = "remove" => x.at \in {"run", "delete", "unit", "record"}
  /\ x.kind = "start" => x.at \in {"run", "health"}
  /\ x.kind = "rollback" => x.at \in {"run", "health"} \cup Answered

\* A token is that of one deployment of one version, in its files and in its
\* process. A process has the port of its files if it has their token; in docker
\* the boot may start files that are being rewritten, until they are started again.
TokensTell(x) ==
  /\ \A v \in Versions : files[v].port # 0 => files[v].token # 0
  /\ \A v, w \in Versions : files[v].token # 0 /\ files[v].token = files[w].token => v = w
  /\ \A v \in Versions : files[v].token <= ops /\ running[v].token <= ops
  /\ \A v \in Versions : Up(v) => running[v].token # 0
  /\ \A v, w \in Versions : Up(w) /\ running[w].token = files[v].token => v = w
  /\ \A v \in Versions :
       /\ Up(v) /\ running[v].token = files[v].token
       /\ mode = "native" \/ (x.at = "health" /\ x.version = v)
       => running[v] = files[v]
  /\ x.kind = "deploy" =>
       /\ x.token = ops /\ ops # 0
       /\ x.at \in Planning =>
            \A v \in Versions : files[v].token # ops /\ running[v].token # ops
       /\ x.at = "launcher" /\ mode = "native" => \A v \in Versions : running[v].token # ops
       /\ x.at \notin Planning => files[x.version].token = ops

\* The row says of an operation what the operation knows.
Follows(x) ==
  /\ x.kind = "deploy" /\ x.at # "preflight" =>
       /\ row # NoRow /\ row.version = x.version /\ row.port = x.port
       /\ x.at = "attach" => x.was = row /\ Healthy(row)
       /\ x.at # "attach" => ~Healthy(row) /\ row.prev = x.was.version
  /\ x.kind \in {"stop", "start", "remove"} =>
       row # NoRow /\ row.version = x.version /\ row.port = x.port
  /\ x.kind = "rollback" =>
       /\ row # NoRow /\ ~Healthy(row)
       /\ x.version = row.prev /\ x.port = row.prevPort /\ x.was.version = row.version

\* The active version, and one that is started, has start files.
Installed(x) ==
  /\ Unlike({"halfway"}) /\ active # None => files[active].port # 0
  /\ x.kind = "deploy" /\ x.at \in {"upload", "launcher"} => x.port # 0
  /\ \/ x.kind = "deploy" /\ x.at \in Written
     \/ x.kind = "rollback" /\ x.at # "run"
     => files[x.version].port # 0

\* The version that runs is not the one that is deployed.
Apart(x) ==
  /\ Differ(row)
  /\ x.kind = "deploy" /\ x.at = "preflight" => ~(Healthy(row) /\ row.version = x.version)

\* Start files have the ports that are recorded.
Kept(x) ==
  /\ row.prev # None => files[row.prev].port = row.prevPort
  /\ Healthy(row) => files[row.version].port = row.port
  /\ x.kind = "deploy" /\ x.at \in Written => files[x.version].port = x.port

\* A healthy row is served, except while a stop, a removal or a start has begun
\* and is not recorded.
Open(v, p) == Up(v) /\ running[v].port = p
Serves(x) ==
  /\ Healthy(row) =>
       \/ Open(row.version, row.port)
       \/ x.kind \in {"stop", "remove"} /\ x.at # "run"
       \/ x.kind = "start" /\ x.at = "health"
  /\ x.kind \in {"deploy", "rollback"} /\ x.at \in Answered => Open(x.version, x.port)

\* The version of the row has the token of the vault, except while another is deployed.
KnowsToken(v) == files[v].token = vault /\ (Up(v) => running[v].token = vault)
Fits(x) ==
  /\ x.kind # "rollback"
  /\ x.kind = "deploy" =>
       /\ x.token = vault
       /\ x.at \in Answered \cup {"attach"} => KnowsToken(x.version)
  /\ x.kind # "deploy" /\ row # NoRow =>
       (x.kind = "remove" /\ x.at \in {"unit", "record"}) \/ KnowsToken(row.version)

\* What may run, and what the active link names, at each step.
OnlyUp(S) == \A v \in Versions : Up(v) => v \in S
ActiveIsRow == active = row.version
Single(x) ==
  /\ x.kind = "idle" \/ x.at \in {"preflight", "run"} =>
       /\ OnlyUp({row.version}) /\ ActiveIsRow
       /\ x.kind # "rollback" /\ ~Healthy(row) => OnlyUp({})
  /\ x.kind \in {"stop", "remove"} /\ x.at # "run" => OnlyUp({})
  /\ x.kind = "remove" /\ x.at \in {"unit", "record"} => active = None
  /\ x.kind = "stop" => ActiveIsRow
  /\ x.kind = "start" => OnlyUp({row.version}) /\ ActiveIsRow
  /\ x.kind = "deploy" /\ x.at \in {"port", "upload", "launcher", "start"} =>
       OnlyUp({x.was.version})
  /\ x.kind \in {"deploy", "rollback"} /\ x.at \in {"health", "activate", "retire"} =>
       OnlyUp({x.was.version, x.version})
  /\ x.kind \in {"deploy", "rollback"} /\ x.at \in {"retire", "record", "attach"} =>
       active = x.version
  /\ x.kind \in {"deploy", "rollback"} /\ x.at \in {"record", "attach"} =>
       OnlyUp({x.version})

Agrees(x) ==
  /\ Placed(x) /\ TokensTell(x) /\ Follows(x) /\ Installed(x)
  /\ Unlike({"self"}) => Apart(x)
  /\ Unlike({"self", "halfway"}) => Kept(x)
  /\ Unlike({"crash", "fault", "self", "halfway"}) => Serves(x)
  /\ Unlike({"crash", "failed", "rolled"}) => Fits(x)
  /\ Unlike({"crash", "fault", "self", "failed", "ignored"}) => Single(x)

Alone == Unlike({"overlap"})
AgreeState == OneAtATime /\ Agrees(Current)
AgreeInv == Alone => AgreeState

\* Each step is proved from the state before it.
AgreeNow == TypeOK /\ Named /\ LinkedServer /\ AgreeState

LEMMA CurrentIs ==
  ASSUME OneAtATime, NEW o \in Operators, op[o] # Idle
  PROVE  Current = op[o]
<1>1. o \in Busy /\ \A p \in Operators : p \in Busy => p = o
  BY DEF OneAtATime, Busy
<1>2. (CHOOSE p \in Operators : p \in Busy) = o
  BY <1>1
<1> QED BY <1>1, <1>2 DEF Current, Quiet

\* The operation under way moves on, ends or begins: what remains to be shown is
\* that it agrees itself.
LEMMA AgreeOps ==
  ASSUME AgreeNow, NEW o \in Operators, op[o] # Idle \/ Quiet, NEW y,
         op' = [op EXCEPT ![o] = y], Agrees(y)'
  PROVE  AgreeState'
<1>1. /\ op \in [Operators -> OpType]
      /\ \A p \in Operators \ {o} : op[p] = Idle
  BY DEF AgreeNow, AgreeState, OneAtATime, Busy, Quiet, TypeOK
<1>2. op'[o] = y /\ \A p \in Operators \ {o} : op'[p] = Idle
  BY <1>1
<1>3. OneAtATime'
  BY <1>2 DEF OneAtATime, Busy
<1>4. Current' = y
  <2>1. CASE y = Idle
    <3>1. Quiet'
      BY <1>2, <2>1 DEF Quiet, Busy
    <3> QED BY <2>1, <3>1 DEF Current
  <2>2. CASE y # Idle
    <3>1. o \in Busy' /\ \A p \in Operators : p \in Busy' => p = o
      BY <1>2, <2>2 DEF Busy
    <3>2. (CHOOSE p \in Operators : p \in Busy') = o
      BY <3>1
    <3> QED BY <1>2, <3>1, <3>2 DEF Current, Quiet
  <2> QED BY <2>1, <2>2
<1> QED BY <1>3, <1>4 DEF AgreeState, Agrees, Placed, TokensTell, Follows, Installed,
    Apart, Kept, Serves, Open, Fits, KnowsToken, Single, OnlyUp, ActiveIsRow

\* What is known of the operation under way.
LEMMA UnderWay ==
  ASSUME AgreeNow, NEW o \in Operators, op[o] # Idle
  PROVE  /\ Agrees(op[o]) /\ op[o] \in OpType /\ op[o].kind # "idle"
         /\ op[o].version \in Versions
<1>1. Agrees(op[o])
  BY CurrentIs DEF AgreeNow, AgreeState
<1>2. op[o] \in OpType /\ op[o].kind # "idle"
  BY <1>1 DEF AgreeNow, TypeOK, Agrees, Placed
<1> QED BY <1>1, <1>2 DEF AgreeNow, Named

\* What is typed, as the solvers need it.
LEMMA Typed ==
  ASSUME AgreeNow
  PROVE  /\ row \in RowType /\ ops \in Nat /\ op \in [Operators -> OpType]
         /\ files \in [Versions -> LaunchType] /\ running \in [Versions -> LaunchType]
         /\ \A v \in Versions : files[v].token \in Nat /\ running[v].token \in Nat
         /\ None \notin Versions /\ Idle.kind = "idle" /\ Idle.at = "end"
         /\ row # NoRow => row.version \in Versions
BY DeploymentAssumption
DEF AgreeNow, TypeOK, Named, LaunchType, Tokens, None, Idle

\* An operation that ends and leaves the server alone: what remains is what it says
\* in the row.
LEMMA AgreeEnds ==
  ASSUME AgreeNow, NEW o \in Operators, op[o] # Idle, Finish(o),
         UNCHANGED <<mode, files, running, active, ops>>,
         Unlike({"halfway"})' => Unlike({"halfway"}),
         Unlike({"self"})' => Apart(Idle)',
         Unlike({"self", "halfway"})' => Kept(Idle)',
         Unlike({"crash", "fault", "self", "halfway"})' => Serves(Idle)',
         Unlike({"crash", "failed", "rolled"})' => Fits(Idle)',
         Unlike({"crash", "fault", "self", "failed", "ignored"})' => Single(Idle)'
  PROVE  AgreeState'
<1>1. Agrees(op[o])
  BY UnderWay
<1>2. Idle.kind = "idle" /\ Idle.at = "end"
  BY DEF Idle
<1>3. TokensTell(Idle)'
  BY <1>1, <1>2 DEF Agrees, TokensTell, Up, Absent
<1>4. Installed(Idle)'
  BY <1>1, <1>2 DEF Agrees, Installed
<1>5. Follows(Idle)' /\ Placed(Idle)'
  BY <1>2 DEF Follows, Placed
<1>6. Agrees(Idle)'
  BY <1>3, <1>4, <1>5 DEF Agrees
<1>7. op' = [op EXCEPT ![o] = Idle]
  BY DEF Finish
<1> QED BY <1>6, <1>7, AgreeOps

\* A status that is set changes nothing else of the row.
LEMMA StatusParts ==
  ASSUME TypeOK, NEW s \in Statuses, SetStatus(s)
  PROVE  /\ row' # NoRow <=> row # NoRow
         /\ row'.version = row.version /\ row'.port = row.port
         /\ row'.prev = row.prev /\ row'.prevPort = row.prevPort
         /\ row # NoRow => row'.status = s
         /\ row = NoRow => row' = NoRow
BY DEF TypeOK, RowType, SetStatus, Statuses, NoRow, None

\* A failure that is recorded, or not recorded at all.
LEMMA AgreeFails ==
  ASSUME AgreeNow, NEW o \in Operators, op[o] # Idle, Finish(o), Note({"failed"}),
         UNCHANGED <<mode, vault, files, running, active, ops>>,
         \/ SetStatus("FAILED")
         \/ UNCHANGED row /\ op[o].at \in {"run", "preflight"}
         \/ UNCHANGED row /\ ~Healthy(row)
         \/ row = NoRow /\ row'.prev = None /\ row'.status = "FAILED"
  PROVE  AgreeState'
<1>0. Agrees(op[o])
  BY UnderWay
<1>1. /\ "failed" \in history' /\ \A E : Unlike(E)' => Unlike(E)
      /\ Idle.kind = "idle"
  BY DEF Note, Unlike, Idle
<1>2. /\ row'.prev = row.prev \/ row'.prev = None
      /\ row'.prev # None => row'.prevPort = row.prevPort /\ row'.version = row.version
      /\ Healthy(row') => row' = row /\ op[o].at \in {"run", "preflight"}
  BY StatusParts DEF AgreeNow, Healthy, Statuses, NoRow, None, SetStatus
<1>3. Unlike({"self"})' => Apart(Idle)'
  BY <1>0, <1>1, <1>2 DEF Agrees, Apart, Differ
<1>4. Unlike({"self", "halfway"})' => Kept(Idle)'
  BY <1>0, <1>1, <1>2 DEF Agrees, Kept
<1>5. Unlike({"crash", "fault", "self", "halfway"})' => Serves(Idle)'
  BY <1>0, <1>1, <1>2 DEF Agrees, Placed, Serves, Open, Up, Absent
<1>6. /\ ~Unlike({"crash", "failed", "rolled"})'
      /\ ~Unlike({"crash", "fault", "self", "failed", "ignored"})'
  BY <1>1 DEF Unlike
<1>7. Unlike({"halfway"})' => Unlike({"halfway"})
  BY <1>1
<1> QED BY <1>3, <1>4, <1>5, <1>6, <1>7, AgreeEnds

\* An operation that ends after some of its commands took effect: with a removal, some
\* of the files are gone, and perhaps the link. The row may say what is no longer so.
LEMMA BreaksAgree ==
  ASSUME AgreeNow, NEW o \in Operators, ActionBreaks(o) \/ RemoveFilesFails(o)
  PROVE  AgreeState'
<1> USE DEF serverVars
<1>0. /\ op[o] # Idle /\ Agrees(op[o]) /\ Finish(o)
      /\ UNCHANGED <<mode, row, vault, running, ops>>
      /\ "failed" \in history' /\ "halfway" \in history' /\ \A E : Unlike(E)' => Unlike(E)
      /\ Idle.kind = "idle" /\ Idle.at = "end"
  <2>1. op[o] # Idle
    BY DEF ActionBreaks, RemoveFilesFails, At, Idle
  <2> QED BY <2>1, UnderWay DEF ActionBreaks, RemoveFilesFails, Note, Unlike, Idle
<1>1. \A v \in Versions : files'[v] = files[v] \/ files'[v] = Absent
  BY DEF ActionBreaks, RemoveFilesFails
<1>2. TokensTell(Idle)'
  <2>1. Absent.token = 0 /\ Absent.port = 0 /\ ops \in Nat
    BY Typed DEF Absent, Launch
  <2>2. TokensTell(op[o])
    BY <1>0 DEF Agrees
  <2>3. \A v \in Versions : files'[v].token # 0 => files'[v] = files[v]
    BY <1>1, <2>1
  <2>4. \A v \in Versions : files'[v].token <= ops /\ running'[v].token <= ops
    BY <1>0, <1>1, <2>1, <2>2, Typed DEF TokensTell
  <2>5. \A v \in Versions : files'[v].port # 0 => files'[v].token # 0
    BY <1>1, <2>1, <2>2 DEF TokensTell
  <2>6. \A v, w \in Versions : Up(w)' /\ running'[w].token = files'[v].token =>
                               v = w /\ files'[v] = files[v]
    BY <1>0, <2>2, <2>3 DEF TokensTell, Up, Absent
  <2>7. \A v, w \in Versions :
          files'[v].token # 0 /\ files'[v].token = files'[w].token => v = w
    BY <2>2, <2>3 DEF TokensTell
  <2> QED BY <1>0, <2>2, <2>4, <2>5, <2>6, <2>7 DEF TokensTell, Up, Absent
<1>3. Placed(Idle)' /\ Follows(Idle)' /\ Installed(Idle)'
  BY <1>0 DEF Placed, Follows, Installed, Unlike
<1>4. Unlike({"self"})' => Apart(Idle)'
  BY <1>0 DEF Agrees, Apart, Differ
<1>5. /\ ~Unlike({"self", "halfway"})' /\ ~Unlike({"crash", "fault", "self", "halfway"})'
      /\ ~Unlike({"crash", "failed", "rolled"})'
      /\ ~Unlike({"crash", "fault", "self", "failed", "ignored"})'
  BY <1>0 DEF Unlike
<1>6. Agrees(Idle)'
  BY <1>2, <1>3, <1>4, <1>5 DEF Agrees
<1>7. op' = [op EXCEPT ![o] = Idle]
  BY <1>0 DEF Finish
<1> QED BY <1>0, <1>6, <1>7, AgreeOps

LEMMA EndingsAgree ==
  ASSUME AgreeNow, NEW o \in Operators,
         \/ DeployRefused(o) \/ DeployFails(o) \/ ActionFails(o)
         \/ RollbackFails(o) \/ RollbackRaises(o)
  PROVE  AgreeState'
<1> USE DEF serverVars
<1>1. CASE DeployRefused(o)
  <2>1. op[o] # Idle
    BY <1>1 DEF DeployRefused, At, Idle
  <2>2. \/ SetStatus("FAILED")
        \/ UNCHANGED row /\ op[o].at \in {"run", "preflight"}
        \/ row = NoRow /\ row'.prev = None /\ row'.status = "FAILED"
    BY <1>1 DEF DeployRefused, At, SetStatus, NoRow
  <2> QED BY <1>1, <2>1, <2>2, AgreeFails DEF DeployRefused
<1>2. CASE DeployFails(o)
  BY <1>2, AgreeFails DEF DeployFails, Idle
<1>3. CASE ActionFails(o)
  BY <1>3, AgreeFails DEF ActionFails, Idle
<1>4. CASE RollbackFails(o)
  <2>1. op[o] # Idle
    BY <1>4 DEF RollbackFails, At, Idle
  <2> QED BY <1>4, <2>1, AgreeFails DEF RollbackFails
<1>5. CASE RollbackRaises(o)
  <2>1. op[o] # Idle
    BY <1>5 DEF RollbackRaises, Idle
  <2>2. ~Healthy(row)
    BY <1>5, <2>1, UnderWay DEF RollbackRaises, Agrees, Follows
  <2> QED BY <1>5, <2>1, <2>2, AgreeFails DEF RollbackRaises
<1> QED BY <1>1, <1>2, <1>3, <1>4, <1>5

\* The row a deployment returns is written back as it is.
LEMMA AttachAgrees ==
  ASSUME AgreeNow, NEW o \in Operators, AttachMetadata(o)
  PROVE  AgreeState'
<1> USE DEF serverVars
<1>0. /\ op[o] # Idle /\ op[o].kind = "deploy" /\ op[o].at = "attach" /\ Agrees(op[o])
      /\ UNCHANGED <<mode, vault, files, running, active, ops, history>> /\ Finish(o)
  BY UnderWay DEF AttachMetadata, At, Idle
<1>1. row' = row /\ row # NoRow /\ row.version = op[o].version
  BY <1>0 DEF AttachMetadata, Agrees, Follows
<1>2. Idle.kind = "idle" /\ Idle.at = "end" /\ op[o].version \in Versions
  BY <1>0, UnderWay DEF Idle
<1>3. Unlike({"self"})' => Apart(Idle)'
  BY <1>0, <1>1, <1>2 DEF Agrees, Apart, Differ, Unlike
<1>4. Unlike({"self", "halfway"})' => Kept(Idle)'
  BY <1>0, <1>1, <1>2 DEF Agrees, Kept, Unlike
<1>5. Unlike({"crash", "fault", "self", "halfway"})' => Serves(Idle)'
  BY <1>0, <1>1, <1>2 DEF Agrees, Serves, Open, Up, Absent, Unlike
<1>6. Unlike({"crash", "failed", "rolled"})' => Fits(Idle)'
  BY <1>0, <1>1, <1>2 DEF Agrees, Fits, KnowsToken, Up, Absent, Unlike
<1>7. Unlike({"crash", "fault", "self", "failed", "ignored"})' => Single(Idle)'
  <2>1. Healthy(row)
    BY <1>0 DEF Agrees, Follows
  <2> QED BY <1>0, <1>1, <1>2, <2>1 DEF Agrees, Single, OnlyUp, ActiveIsRow, Up, Absent, Unlike
<1>8. Unlike({"halfway"})' => Unlike({"halfway"})
  BY <1>0 DEF Unlike
<1> QED BY <1>0, <1>3, <1>4, <1>5, <1>6, <1>7, <1>8, AgreeEnds

LEMMA RecordsAgreeWithActs ==
  ASSUME AgreeNow, NEW o \in Operators,
         RecordStopped(o) \/ RecordStarted(o) \/ RecordRemoved(o)
  PROVE  AgreeState'
<1> USE DEF serverVars
<1>0. /\ op[o] # Idle /\ Agrees(op[o]) /\ Finish(o) /\ op[o].version \in Versions
      /\ UNCHANGED <<mode, vault, files, running, active, ops>>
      /\ Idle.kind = "idle" /\ Idle.at = "end"
      /\ Unlike({"halfway"})' => Unlike({"halfway"})
  <2>1. op[o] # Idle
    BY DEF RecordStopped, RecordStarted, RecordRemoved, At, Idle
  <2>2. Unlike({"halfway"})' => Unlike({"halfway"})
    BY DEF RecordStopped, RecordStarted, RecordRemoved, Note, Unlike
  <2> QED BY <2>1, <2>2, UnderWay DEF RecordStopped, RecordStarted, RecordRemoved, Idle
<1>1. CASE RecordStopped(o)
  <2>1. /\ row'.version = row.version /\ row'.prev = row.prev /\ row'.prevPort = row.prevPort
        /\ row # NoRow /\ row' # NoRow /\ ~Healthy(row') /\ history' = history
        /\ op[o].kind = "stop" /\ op[o].at = "record"
    BY <1>0, <1>1, StatusParts DEF RecordStopped, At, Agrees, Follows, AgreeNow, Healthy, Statuses
  <2>2. Unlike({"self"})' => Apart(Idle)'
    BY <1>0, <2>1 DEF Agrees, Apart, Differ, Unlike
  <2>3. Unlike({"self", "halfway"})' => Kept(Idle)'
    BY <1>0, <2>1 DEF Agrees, Kept, Unlike
  <2>4. Unlike({"crash", "fault", "self", "halfway"})' => Serves(Idle)'
    BY <1>0, <2>1 DEF Serves
  <2>5. Unlike({"crash", "failed", "rolled"})' => Fits(Idle)'
    BY <1>0, <2>1 DEF Agrees, Fits, KnowsToken, Up, Absent, Unlike
  <2>6. Unlike({"crash", "fault", "self", "failed", "ignored"})' => Single(Idle)'
    BY <1>0, <2>1 DEF Agrees, Single, OnlyUp, ActiveIsRow, Up, Absent, Unlike
  <2> QED BY <1>0, <2>2, <2>3, <2>4, <2>5, <2>6, AgreeEnds
<1>2. CASE RecordStarted(o)
  <2>1. /\ row'.version = row.version /\ row'.prev = row.prev /\ row'.prevPort = row.prevPort
        /\ row'.port = row.port /\ row # NoRow /\ row' # NoRow
        /\ op[o].kind = "start" /\ op[o].at = "health"
        /\ row.version = op[o].version /\ row.port = op[o].port
    BY <1>0, <1>2, StatusParts DEF RecordStarted, At, Agrees, Follows, AgreeNow, Statuses
  <2>2. \/ /\ history' = history
           /\ Open(row.version, row.port)
           /\ files[row.version].port = row.port
        \/ "failed" \in history' /\ ~Healthy(row')
    <3>1. CASE Answers(op[o].version, op[o].port) /\ UNCHANGED history
      <4>1. PICK w \in Versions :
               Up(w) /\ running[w] = Launch(op[o].port, files[op[o].version].token)
        BY <3>1 DEF Answers
      <4>2. running[w].port = op[o].port /\ running[w].token = files[op[o].version].token
        BY <4>1 DEF Launch
      <4>3. w = op[o].version
        BY <1>0, <4>1, <4>2 DEF Agrees, TokensTell
      <4>4. running[w] = files[w]
        BY <1>0, <2>1, <4>1, <4>2, <4>3 DEF Agrees, TokensTell
      <4> QED BY <2>1, <3>1, <4>1, <4>2, <4>3, <4>4 DEF Open
    <3>2. CASE SetStatus("DEGRADED") /\ Note({"failed"})
      BY <2>1, <3>2, StatusParts DEF AgreeNow, Statuses, Note, Healthy
    <3> QED BY <1>2, <3>1, <3>2 DEF RecordStarted
  <2>3. \A E : Unlike(E)' => Unlike(E)
    BY <1>2 DEF RecordStarted, Note, Unlike
  <2>4. Unlike({"self"})' => Apart(Idle)'
    BY <1>0, <2>1, <2>3 DEF Agrees, Apart, Differ
  <2>5. Unlike({"self", "halfway"})' => Kept(Idle)'
    BY <1>0, <2>1, <2>2, <2>3 DEF Agrees, Kept
  <2>6. Unlike({"crash", "fault", "self", "halfway"})' => Serves(Idle)'
    BY <1>0, <2>1, <2>2, <2>3 DEF Agrees, Serves, Open, Up, Absent
  <2>7. Unlike({"crash", "failed", "rolled"})' => Fits(Idle)'
    BY <1>0, <2>1, <2>3 DEF Agrees, Fits, KnowsToken, Up, Absent
  <2>8. Unlike({"crash", "fault", "self", "failed", "ignored"})' => Single(Idle)'
    <3>1. "failed" \notin history' => Healthy(row')
      BY <1>2, <2>1, StatusParts DEF RecordStarted, Note, Healthy, AgreeNow, Statuses
    <3> QED BY <1>0, <2>1, <2>3, <3>1 DEF Agrees, Single, OnlyUp, ActiveIsRow, Up, Absent, Unlike
  <2> QED BY <1>0, <2>4, <2>5, <2>6, <2>7, <2>8, AgreeEnds
<1>3. CASE RecordRemoved(o)
  <2>1. /\ row' = NoRow /\ NoRow.prev = None /\ NoRow.status = None /\ NoRow.version = None
        /\ op[o].kind = "remove" /\ op[o].at = "record"
        /\ \A E : Unlike(E)' => Unlike(E)
    BY <1>3 DEF RecordRemoved, At, NoRow, Note, Unlike
  <2>2. Apart(Idle)' /\ Kept(Idle)' /\ Serves(Idle)' /\ Fits(Idle)'
    BY <1>0, <2>1 DEF Apart, Differ, Kept, Serves, Fits, Healthy, None
  <2>3. Unlike({"crash", "fault", "self", "failed", "ignored"})' => Single(Idle)'
    BY <1>0, <2>1 DEF Agrees, Single, OnlyUp, ActiveIsRow, Up, Absent
  <2> QED BY <1>0, <2>2, <2>3, AgreeEnds
<1> QED BY <1>1, <1>2, <1>3

LEMMA RolledBackAgrees ==
  ASSUME AgreeNow, NEW o \in Operators, RecordRolledBack(o)
  PROVE  AgreeState'
<1> USE DEF serverVars
<1>0. /\ op[o] # Idle /\ op[o].kind = "rollback" /\ op[o].at = "record" /\ Agrees(op[o])
      /\ op[o].version \in Versions /\ Finish(o)
      /\ UNCHANGED <<mode, vault, files, running, active, ops, history>>
      /\ Idle.kind = "idle" /\ Idle.at = "end"
  BY UnderWay DEF RecordRolledBack, At, Idle
<1>1. /\ row'.version = op[o].version /\ row'.port = op[o].port /\ row'.prev = None
      /\ Healthy(row')
  BY DEF RecordRolledBack, NoRow, Healthy
<1>2. Unlike({"self"})' => Apart(Idle)'
  BY <1>0, <1>1 DEF Apart, Differ
<1>3. Unlike({"self", "halfway"})' => Kept(Idle)'
  <2>1. row.prev = op[o].version /\ row.prevPort = op[o].port /\ row.prev # None
    BY <1>0, DeploymentAssumption DEF Agrees, Follows, None
  <2> QED BY <1>0, <1>1, <2>1 DEF Agrees, Kept, Unlike
<1>4. Unlike({"crash", "fault", "self", "halfway"})' => Serves(Idle)'
  BY <1>0, <1>1 DEF Agrees, Serves, Open, Up, Absent, Unlike, Answered
<1>5. Unlike({"crash", "failed", "rolled"})' => Fits(Idle)'
  BY <1>0 DEF Agrees, Fits, Unlike
<1>6. Unlike({"crash", "fault", "self", "failed", "ignored"})' => Single(Idle)'
  BY <1>0, <1>1 DEF Agrees, Single, OnlyUp, ActiveIsRow, Up, Absent, Unlike
<1>7. Unlike({"halfway"})' => Unlike({"halfway"})
  BY <1>0 DEF Unlike
<1> QED BY <1>0, <1>2, <1>3, <1>4, <1>5, <1>6, <1>7, AgreeEnds

\* An operation that dies, and one whose server is gone, leave everything alone.
LEMMA LeavingAgrees ==
  ASSUME AgreeNow, NEW o \in Operators, ServerGone(o) \/ OperatorDies(o)
  PROVE  AgreeState'
<1> USE DEF serverVars
<1>0. /\ op[o] # Idle /\ Agrees(op[o]) /\ op[o].version \in Versions /\ Finish(o)
      /\ UNCHANGED <<mode, vault, files, running, active, ops, row>>
      /\ Idle.kind = "idle" /\ Idle.at = "end"
      /\ \A E : Unlike(E)' => Unlike(E)
  <2>1. op[o] # Idle
    BY DEF ServerGone, OperatorDies, At, Idle
  <2> QED BY <2>1, UnderWay DEF ServerGone, OperatorDies, Fault, Note, Unlike, Idle
<1>1. Unlike({"self"})' => Apart(Idle)'
  BY <1>0 DEF Agrees, Apart, Differ
<1>2. Unlike({"self", "halfway"})' => Kept(Idle)'
  BY <1>0 DEF Agrees, Kept
<1>3. \/ "crash" \in history'
      \/ row = NoRow /\ op[o].kind = "deploy" /\ op[o].at = "preflight"
  <2>1. CASE ServerGone(o)
    <3>1. row = NoRow
      BY <2>1 DEF ServerGone, AgreeNow, LinkedServer
    <3> QED BY <1>0, <2>1, <3>1, UnderWay
        DEF ServerGone, At, Agrees, Follows, Placed, Planning, Written, Answered, OpType
  <2>2. CASE OperatorDies(o)
    BY <2>2 DEF OperatorDies, Fault, Note
  <2> QED BY <2>1, <2>2
<1>4. NoRow.status # "HEALTHY" /\ NoRow.version = None /\ None \notin Versions
  BY DeploymentAssumption DEF NoRow, None
<1>5. Unlike({"crash", "fault", "self", "halfway"})' => Serves(Idle)'
  BY <1>0, <1>3, <1>4 DEF Serves, Unlike, Healthy
<1>6. Unlike({"crash", "failed", "rolled"})' => Fits(Idle)'
  BY <1>0, <1>3 DEF Fits, Unlike
<1>7. Unlike({"crash", "fault", "self", "failed", "ignored"})' => Single(Idle)'
  <2>1. Unlike({"crash", "fault", "self", "failed", "ignored"})' =>
          row = NoRow /\ OnlyUp({None}) /\ active = None
    BY <1>0, <1>3, <1>4 DEF Agrees, Single, ActiveIsRow, Unlike
  <2> QED BY <1>0, <1>4, <2>1 DEF Single, OnlyUp, ActiveIsRow, Up, Absent
<1> QED BY <1>0, <1>1, <1>2, <1>5, <1>6, <1>7, AgreeEnds

LEMMA PlansAgree ==
  ASSUME AgreeNow, NEW o \in Operators, DeployRecord(o) \/ FindPort(o)
  PROVE  AgreeState'
<1> USE DEF serverVars
<1> PICK x : x = op[o]
  OBVIOUS
<1>0. /\ op[o] # Idle /\ x.kind = "deploy" /\ Agrees(x) /\ x.version \in Versions /\ x \in OpType
      /\ UNCHANGED <<mode, vault, files, running, active, ops, history>>
  BY UnderWay DEF DeployRecord, FindPort, At, Idle
<1>1. \A E : Unlike(E)' <=> Unlike(E)
  BY <1>0 DEF Unlike
<1>2. CASE DeployRecord(o)
  <2> DEFINE was == IF Healthy(row) THEN row ELSE NoRow
  <2> PICK y : y = [x EXCEPT !.at = "port", !.was = was]
    OBVIOUS
  <2>1. /\ op' = [op EXCEPT ![o] = y] /\ x.at = "preflight"
        /\ y.at = "port" /\ y.kind = "deploy" /\ y.version = x.version /\ y.port = x.port
        /\ y.token = x.token /\ y.was = was
    BY <1>0, <1>2, Typed DEF DeployRecord, At, OpType
  <2>2. /\ row'.version = x.version /\ row'.port = x.port /\ row'.prev = was.version
        /\ row'.prevPort = was.port /\ ~Healthy(row') /\ row' # NoRow
    BY <1>0, <1>2, Typed DEF DeployRecord, Healthy, NoRow
  <2>3. /\ Healthy(row) => was = row
        /\ ~Healthy(row) => was.version = None
        /\ None \notin Versions
    BY Typed DEF NoRow
  <2> HIDE DEF was
  <2>4. Placed(y)' /\ Installed(y)'
    BY <1>0, <1>1, <2>1 DEF Agrees, Placed, Installed, Planning, Written, Answered
  <2>5. TokensTell(y)'
    BY <1>0, <2>1 DEF Agrees, TokensTell, Up, Absent, Planning
  <2>6. Follows(y)'
    BY <2>1, <2>2 DEF Follows
  <2>7. Unlike({"self"})' => Apart(y)'
    BY <1>0, <1>1, <2>1, <2>2, <2>3 DEF Agrees, Apart, Differ
  <2>8. Unlike({"self", "halfway"})' => Kept(y)'
    BY <1>0, <1>1, <2>1, <2>2, <2>3 DEF Agrees, Kept, Written, Answered
  <2>9. Unlike({"crash", "fault", "self", "halfway"})' => Serves(y)'
    BY <2>1, <2>2 DEF Serves, Answered
  <2>10. Unlike({"crash", "failed", "rolled"})' => Fits(y)'
    BY <1>0, <1>1, <2>1 DEF Agrees, Fits, Answered
  <2>11. Unlike({"crash", "fault", "self", "failed", "ignored"})' => Single(y)'
    BY <1>0, <1>1, <2>1, <2>3 DEF Agrees, Single, OnlyUp, Up, Absent
  <2>12. Agrees(y)'
    BY <2>4, <2>5, <2>6, <2>7, <2>8, <2>9, <2>10, <2>11 DEF Agrees
  <2> QED BY <1>0, <2>1, <2>12, AgreeOps
<1>3. CASE FindPort(o)
  <2> PICK p \in Ports :
            /\ row' = [row EXCEPT !.port = p]
            /\ op' = [op EXCEPT ![o].at = "upload", ![o].port = p]
    BY <1>3 DEF FindPort
  <2> PICK y : y = [x EXCEPT !.at = "upload", !.port = p]
    OBVIOUS
  <2>1. /\ op' = [op EXCEPT ![o] = y] /\ x.at = "port"
        /\ y.at = "upload" /\ y.kind = "deploy" /\ y.version = x.version /\ y.port = p
        /\ y.token = x.token /\ y.was = x.was /\ p # 0
    <3>1. p # 0
      BY DeploymentAssumption DEF Ports
    <3>2. op' = [op EXCEPT ![o] = y]
      BY Typed DEF OpType
    <3> QED BY <1>0, <1>3, <3>1, <3>2 DEF FindPort, At, OpType
  <2>2. /\ row'.version = row.version /\ row'.port = p /\ row'.prev = row.prev
        /\ row'.prevPort = row.prevPort /\ row'.status = row.status /\ row' # NoRow
    <3>1. /\ row'.version = row.version /\ row'.port = p /\ row'.prev = row.prev
          /\ row'.prevPort = row.prevPort /\ row'.status = row.status
      BY Typed DEF RowType
    <3> QED BY <2>1, <3>1 DEF NoRow
  <2>3. ~Healthy(row) /\ row # NoRow
    BY <1>0, <2>1 DEF Agrees, Follows
  <2>4. Placed(y)' /\ Installed(y)'
    BY <1>0, <1>1, <2>1 DEF Agrees, Placed, Installed, Planning, Written, Answered
  <2>5. TokensTell(y)'
    BY <1>0, <2>1 DEF Agrees, TokensTell, Up, Absent, Planning
  <2>6. Follows(y)'
    <3>1. row.version = x.version /\ row.prev = x.was.version
      BY <1>0, <2>1 DEF Agrees, Follows
    <3> QED BY <2>1, <2>2, <2>3, <3>1 DEF Follows, Healthy
  <2>7. Unlike({"self"})' => Apart(y)'
    BY <1>0, <1>1, <2>1, <2>2 DEF Agrees, Apart, Differ
  <2>8. Unlike({"self", "halfway"})' => Kept(y)'
    BY <1>0, <1>1, <2>1, <2>2, <2>3 DEF Agrees, Kept, Written, Answered, Healthy
  <2>9. Unlike({"crash", "fault", "self", "halfway"})' => Serves(y)'
    BY <2>1, <2>2, <2>3 DEF Serves, Answered, Healthy
  <2>10. Unlike({"crash", "failed", "rolled"})' => Fits(y)'
    BY <1>0, <1>1, <2>1 DEF Agrees, Fits, Answered
  <2>11. Unlike({"crash", "fault", "self", "failed", "ignored"})' => Single(y)'
    BY <1>0, <1>1, <2>1 DEF Agrees, Single, OnlyUp, Up, Absent
  <2>12. Agrees(y)'
    BY <2>4, <2>5, <2>6, <2>7, <2>8, <2>9, <2>10, <2>11 DEF Agrees
  <2> QED BY <1>0, <2>1, <2>12, AgreeOps
<1> QED BY <1>2, <1>3

LEMMA WritesAgree ==
  ASSUME AgreeNow, NEW o \in Operators, UploadModel(o) \/ WriteLauncher(o)
  PROVE  AgreeState'
<1> USE DEF serverVars
<1> PICK x : x = op[o]
  OBVIOUS
<1> PICK v : v = x.version
  OBVIOUS
<1>0. /\ op[o] # Idle /\ x.kind = "deploy" /\ Agrees(x) /\ v \in Versions /\ x \in OpType
      /\ UNCHANGED <<mode, vault, running, active, ops, history>>
  BY UnderWay DEF UploadModel, WriteLauncher, At, Idle
<1>1. \A E : Unlike(E)' <=> Unlike(E)
  BY <1>0 DEF Unlike
<1>2. CASE UploadModel(o)
  <2> PICK y : y = [x EXCEPT !.at = "launcher"]
    OBVIOUS
  <2> DEFINE l == [files[v] EXCEPT !.token = x.token]
  <2>1. /\ op' = [op EXCEPT ![o] = y] /\ x.at = "upload" /\ row' = row
        /\ y.at = "launcher" /\ y.kind = "deploy" /\ y.version = v /\ y.port = x.port
        /\ y.token = x.token /\ y.was = x.was
    BY <1>0, <1>2, GoToRecord DEF UploadModel, At, AgreeNow
  <2>2. files' = [files EXCEPT ![v] = l] /\ l.token = x.token /\ l.port = files[v].port
    BY <1>0, <1>2, Typed DEF UploadModel, LaunchType
  <2>3. /\ \A w \in Versions : files'[w].port = files[w].port
        /\ \A w \in Versions \ {v} : files'[w] = files[w]
        /\ files'[v].token = x.token
    BY <1>0, <2>2, Typed
  <2> HIDE DEF l
  <2>4. Placed(y)' /\ Installed(y)'
    BY <1>0, <1>1, <2>1, <2>3, Typed DEF Agrees, Placed, Installed, Planning, Written, Answered,
       AgreeNow, TypeOK
  <2>5. TokensTell(y)'
    <3>1. /\ x.token = ops /\ ops # 0 /\ ops \in Nat /\ ops <= ops
          /\ \A w \in Versions : files[w].token # ops /\ running[w].token # ops
      BY <1>0, <2>1, Typed DEF Agrees, TokensTell, Planning
    <3>2. \A w \in Versions : files'[w].token # 0 => w = v \/ files[w].token # 0
      BY <2>3
    <3> QED BY <1>0, <2>1, <2>3, <3>1, <3>2 DEF Agrees, TokensTell, Up, Absent, Planning
  <2>6. Follows(y)'
    BY <1>0, <2>1 DEF Agrees, Follows
  <2>7. Unlike({"self"})' => Apart(y)'
    BY <1>0, <1>1, <2>1 DEF Agrees, Apart, Differ
  <2>8. Unlike({"self", "halfway"})' => Kept(y)'
    BY <1>0, <1>1, <2>1, <2>3, Typed DEF Agrees, Kept, Written, Answered, RowType,
       Healthy, NoRow, Follows
  <2>9. Unlike({"crash", "fault", "self", "halfway"})' => Serves(y)'
    BY <1>0, <2>1 DEF Agrees, Follows, Serves, Answered
  <2>10. Unlike({"crash", "failed", "rolled"})' => Fits(y)'
    BY <1>0, <1>1, <2>1 DEF Agrees, Fits, Answered
  <2>11. Unlike({"crash", "fault", "self", "failed", "ignored"})' => Single(y)'
    BY <1>0, <1>1, <2>1 DEF Agrees, Single, OnlyUp, Up, Absent
  <2>12. Agrees(y)'
    BY <2>4, <2>5, <2>6, <2>7, <2>8, <2>9, <2>10, <2>11 DEF Agrees
  <2> QED BY <1>0, <2>1, <2>12, AgreeOps
<1>3. CASE WriteLauncher(o)
  <2> PICK y : y = [x EXCEPT !.at = "start"]
    OBVIOUS
  <2> DEFINE l == [files[v] EXCEPT !.port = x.port]
  <2>1. /\ op' = [op EXCEPT ![o] = y] /\ x.at = "launcher" /\ SetStatus("STARTING")
        /\ y.at = "start" /\ y.kind = "deploy" /\ y.version = v /\ y.port = x.port
        /\ y.token = x.token /\ y.was = x.was
    BY <1>0, <1>3, GoToRecord DEF WriteLauncher, At, AgreeNow
  <2>2. files' = [files EXCEPT ![v] = l] /\ l.token = files[v].token /\ l.port = x.port
    BY <1>0, <1>3, Typed DEF WriteLauncher, LaunchType
  <2>3. /\ \A w \in Versions : files'[w].token = files[w].token
        /\ \A w \in Versions \ {v} : files'[w] = files[w]
        /\ files'[v].port = x.port
    BY <1>0, <2>2, Typed
  <2> HIDE DEF l
  <2>4. /\ row'.version = row.version /\ row'.port = row.port /\ row'.prev = row.prev
        /\ row'.prevPort = row.prevPort /\ ~Healthy(row') /\ row' # NoRow /\ row # NoRow
        /\ row.version = v
    BY <1>0, <2>1, StatusParts DEF Agrees, Follows, AgreeNow, Statuses, Healthy
  <2>5. Placed(y)' /\ Installed(y)'
    BY <1>0, <1>1, <2>1, <2>3 DEF Agrees, Placed, Installed, Planning, Written, Answered,
       AgreeNow, TypeOK
  <2>6. TokensTell(y)'
    <3>1. files[v].token = ops /\ ops # 0 /\ x.token = ops
      BY <1>0, <2>1 DEF Agrees, TokensTell, Planning
    <3>2. mode = "native" => \A w \in Versions : running[w].token # ops
      BY <1>0, <2>1 DEF Agrees, TokensTell
    <3> QED BY <1>0, <2>1, <2>3, <3>1, <3>2 DEF Agrees, TokensTell, Up, Absent, Planning
  <2>7. Follows(y)'
    BY <1>0, <2>1, <2>4 DEF Agrees, Follows, Healthy
  <2>8. Unlike({"self"})' => Apart(y)'
    BY <1>0, <1>1, <2>1, <2>4 DEF Agrees, Apart, Differ
  <2>9. Unlike({"self", "halfway"})' => Kept(y)'
    <3>1. Unlike({"self", "halfway"})' /\ row.prev # None => row.prev \in Versions \ {v}
      BY <1>0, <1>1, <2>4, Typed DEF Agrees, Apart, Differ, RowType, Unlike
    <3> QED BY <1>0, <1>1, <2>1, <2>3, <2>4, <3>1 DEF Agrees, Kept, Written, Answered
  <2>10. Unlike({"crash", "fault", "self", "halfway"})' => Serves(y)'
    BY <2>1, <2>4 DEF Serves, Answered
  <2>11. Unlike({"crash", "failed", "rolled"})' => Fits(y)'
    BY <1>0, <1>1, <2>1 DEF Agrees, Fits, Answered
  <2>12. Unlike({"crash", "fault", "self", "failed", "ignored"})' => Single(y)'
    BY <1>0, <1>1, <2>1 DEF Agrees, Single, OnlyUp, Up, Absent
  <2>13. Agrees(y)'
    BY <2>5, <2>6, <2>7, <2>8, <2>9, <2>10, <2>11, <2>12 DEF Agrees
  <2> QED BY <1>0, <2>1, <2>13, AgreeOps
<1> QED BY <1>2, <1>3

\* What answered is recorded as healthy.
LEMMA HealthyAgrees ==
  ASSUME AgreeNow, NEW o \in Operators, RecordHealthy(o)
  PROVE  AgreeState'
<1> USE DEF serverVars
<1> PICK x : x = op[o]
  OBVIOUS
<1> PICK y : y = [x EXCEPT !.at = "attach", !.was = row']
  OBVIOUS
<1>0. /\ op[o] # Idle /\ x.kind = "deploy" /\ x.at = "record" /\ Agrees(x)
      /\ x.version \in Versions /\ x \in OpType
      /\ UNCHANGED <<mode, vault, files, running, active, ops, history>>
  BY UnderWay DEF RecordHealthy, At, Idle
<1>1. \A E : Unlike(E)' <=> Unlike(E)
  BY <1>0 DEF Unlike
<1>2. /\ op' = [op EXCEPT ![o] = y]
      /\ y.at = "attach" /\ y.kind = "deploy" /\ y.version = x.version /\ y.port = x.port
      /\ y.token = x.token /\ y.was = row'
  BY <1>0, Typed DEF RecordHealthy, OpType
<1>3. /\ row'.version = x.version /\ row'.port = x.port /\ row'.prev = row.prev
      /\ row'.prevPort = row.prevPort /\ Healthy(row') /\ row' # NoRow /\ row.version = x.version
  BY <1>0, StatusParts DEF RecordHealthy, Agrees, Follows, AgreeNow, Statuses, Healthy
<1>4. Placed(y)' /\ Installed(y)' /\ Follows(y)'
  BY <1>0, <1>1, <1>2, <1>3 DEF Agrees, Placed, Installed, Follows, Planning, Written, Answered
<1>5. TokensTell(y)'
  BY <1>0, <1>2 DEF Agrees, TokensTell, Up, Absent, Planning
<1>6. Unlike({"self"})' => Apart(y)'
  BY <1>0, <1>1, <1>2, <1>3 DEF Agrees, Apart, Differ
<1>7. Unlike({"self", "halfway"})' => Kept(y)'
  BY <1>0, <1>1, <1>2, <1>3 DEF Agrees, Kept, Written, Answered
<1>8. Unlike({"crash", "fault", "self", "halfway"})' => Serves(y)'
  BY <1>0, <1>1, <1>2, <1>3 DEF Agrees, Serves, Open, Up, Absent, Answered
<1>9. Unlike({"crash", "failed", "rolled"})' => Fits(y)'
  BY <1>0, <1>1, <1>2, <1>3 DEF Agrees, Fits, KnowsToken, Up, Absent, Answered
<1>10. Unlike({"crash", "fault", "self", "failed", "ignored"})' => Single(y)'
  BY <1>0, <1>1, <1>2 DEF Agrees, Single, OnlyUp, Up, Absent
<1>11. Agrees(y)'
  BY <1>4, <1>5, <1>6, <1>7, <1>8, <1>9, <1>10 DEF Agrees
<1> QED BY <1>0, <1>2, <1>11, AgreeOps

LEMMA StartsWhat ==
  ASSUME AgreeNow, NEW v \in Versions, Starts(v)
  PROVE  /\ files[v].port # 0
         /\ \A w \in Versions \ {v} : running'[w] = running[w]
         /\ \/ running'[v] = running[v] /\ Up(v) /\ (mode = "native" \/ running[v] = files[v])
            \/ running'[v] = files[v]
            \/ running'[v] = Absent
<1> DEFINE kept == Up(v) /\ (mode = "native" \/ running[v] = files[v])
           taken == \E w \in Versions \ {v} : running[w].port = files[v].port
<1>1. /\ running' = IF kept THEN running
                    ELSE [running EXCEPT ![v] = IF taken THEN Absent ELSE files[v]]
      /\ files[v].port # 0
  BY DEF Starts, Launches
<1>2. CASE kept
  BY <1>1, <1>2
<1>3. CASE ~kept
  <2> HIDE DEF taken
  <2> QED BY <1>1, <1>3, Typed
<1> QED BY <1>2, <1>3

LEMMA StopsWhat ==
  ASSUME AgreeNow, NEW v, Stops(v)
  PROVE  /\ \A w \in Versions \ {v} : running'[w] = running[w]
         /\ v \in Versions => running'[v] = Absent
BY Typed DEF Stops

\* What the steps of an upgrade and of a rollback have in common: the files of the
\* version are started, ...
LEMMA StartsAgree ==
  ASSUME AgreeNow, NEW o \in Operators, op[o].kind \in {"deploy", "start", "rollback"},
         op[o].at = IF op[o].kind = "deploy" THEN "start" ELSE "run",
         Starts(op[o].version), GoTo(o, "health"), \A E : Unlike(E)' => Unlike(E),
         UNCHANGED <<mode, row, vault, files, active, ops>>
  PROVE  AgreeState'
<1> PICK x : x = op[o]
  OBVIOUS
<1> PICK v : v = x.version
  OBVIOUS
<1> PICK y : y = [x EXCEPT !.at = "health"]
  OBVIOUS
<1>0. op[o] # Idle /\ Agrees(x) /\ v \in Versions /\ x \in OpType
  BY UnderWay DEF Idle
<1>1. \A E : Unlike(E)' => Unlike(E)
  OBVIOUS
<1>2. /\ op' = [op EXCEPT ![o] = y] /\ y.at = "health" /\ y.kind = x.kind /\ y.version = v
      /\ y.port = x.port /\ y.token = x.token /\ y.was = x.was
  BY GoToRecord DEF AgreeNow
<1>3. /\ files[v].port # 0 /\ files[v].token # 0
      /\ \A w \in Versions \ {v} : running'[w] = running[w]
      /\ \/ running'[v] = running[v] /\ Up(v) /\ (mode = "native" \/ running[v] = files[v])
         \/ running'[v] = files[v]
         \/ running'[v] = Absent
  BY <1>0, StartsWhat DEF Agrees, TokensTell
<1>4. /\ x.kind = "deploy" => x.at = "start"
      /\ x.kind # "deploy" => x.at = "run"
      /\ x.kind \in {"deploy", "start", "rollback"} /\ x.kind # "idle"
  OBVIOUS
<1>5. Placed(y)' /\ Installed(y)' /\ Follows(y)'
  BY <1>0, <1>1, <1>2, <1>3, <1>4
  DEF Agrees, Placed, Installed, Follows, Planning, Written, Answered
<1>6. TokensTell(y)'
  <2>1. Absent.token = 0 /\ ops \in Nat
    BY Typed DEF Absent, Launch
  <2>2. \A w \in Versions : Up(w)' =>
          \/ Up(w) /\ running'[w] = running[w]
          \/ w = v /\ running'[w] = files[v]
    BY <1>3 DEF Up, Absent
  <2>3. \A w \in Versions : running'[w].token <= ops
    BY <1>0, <1>3, <2>1, Typed DEF Agrees, TokensTell
  <2>4. /\ \A w \in Versions : Up(w)' => running'[w].token # 0
        /\ \A u, w \in Versions : Up(w)' /\ running'[w].token = files[u].token => u = w
    BY <1>0, <1>3, <2>2 DEF Agrees, TokensTell
  <2>5. \A w \in Versions :
          /\ Up(w)' /\ running'[w].token = files[w].token
          /\ mode = "native" \/ (y.at = "health" /\ y.version = w)
          => running'[w] = files[w]
    BY <1>0, <1>2, <1>3, <2>2 DEF Agrees, TokensTell, Up, Absent
  <2>6. x.kind = "deploy" => x.token = ops /\ ops # 0 /\ files[v].token = ops
    BY <1>0, <1>4 DEF Agrees, TokensTell, Planning
  <2> QED BY <1>0, <1>2, <2>3, <2>4, <2>5, <2>6 DEF Agrees, TokensTell, Planning
<1>7. Unlike({"self"})' => Apart(y)'
  BY <1>0, <1>1, <1>2 DEF Agrees, Apart, Differ
<1>8. Unlike({"self", "halfway"})' => Kept(y)'
  BY <1>0, <1>1, <1>2, <1>4 DEF Agrees, Kept, Written, Answered
<1>9. Unlike({"crash", "fault", "self", "halfway"})' => Serves(y)'
  <2>1. x.kind # "start" => ~Healthy(row)
    BY <1>0, <1>4 DEF Agrees, Follows
  <2> QED BY <1>2, <1>4, <2>1 DEF Serves, Answered, Healthy
<1>10. Unlike({"crash", "failed", "rolled"})' => Fits(y)'
  <2>1. x.kind = "start" => row.version = v
    BY <1>0 DEF Agrees, Follows
  <2> QED BY <1>0, <1>1, <1>2, <1>3, <1>4, <2>1 DEF Agrees, Fits, KnowsToken, Up, Absent, Answered
<1>11. Unlike({"crash", "fault", "self", "failed", "ignored"})' => Single(y)'
  <2>1. /\ x.kind = "start" => row.version = v
        /\ x.kind = "rollback" => row.version = x.was.version
    BY <1>0 DEF Agrees, Follows
  <2>2. \A w \in Versions : Up(w)' => Up(w) \/ w = v
    BY <1>3 DEF Up, Absent
  <2> QED BY <1>0, <1>1, <1>2, <1>4, <2>1, <2>2 DEF Agrees, Single, OnlyUp, ActiveIsRow
<1>12. Agrees(y)'
  BY <1>5, <1>6, <1>7, <1>8, <1>9, <1>10, <1>11 DEF Agrees
<1> QED BY <1>0, <1>2, <1>12, AgreeOps

\* ... it answers, with the token of its files on the port it was started for, ...
LEMMA AnswersAgree ==
  ASSUME AgreeNow, NEW o \in Operators, op[o].kind \in {"deploy", "rollback"},
         op[o].at = "health", Answers(op[o].version, op[o].port), GoTo(o, "activate"),
         UNCHANGED <<mode, row, vault, files, running, active, history, ops>>
  PROVE  AgreeState'
<1> PICK x : x = op[o]
  OBVIOUS
<1> PICK v : v = x.version
  OBVIOUS
<1> PICK y : y = [x EXCEPT !.at = "activate"]
  OBVIOUS
<1>0. op[o] # Idle /\ Agrees(x) /\ v \in Versions /\ x \in OpType
  BY UnderWay DEF Idle
<1>1. \A E : Unlike(E)' <=> Unlike(E)
  BY DEF Unlike
<1>2. /\ op' = [op EXCEPT ![o] = y] /\ y.at = "activate" /\ y.kind = x.kind /\ y.version = v
      /\ y.port = x.port /\ y.token = x.token /\ y.was = x.was
      /\ x.at = "health" /\ x.kind \in {"deploy", "rollback"}
  BY GoToRecord DEF AgreeNow
<1>3. Up(v) /\ running[v].port = x.port /\ running[v].token = files[v].token
  <2>1. PICK w \in Versions : Up(w) /\ running[w] = Launch(x.port, files[v].token)
    BY DEF Answers
  <2>2. running[w].port = x.port /\ running[w].token = files[v].token
    BY <2>1 DEF Launch
  <2>3. w = v
    BY <1>0, <2>1, <2>2 DEF Agrees, TokensTell
  <2> QED BY <2>1, <2>2, <2>3
<1>4. Placed(y)' /\ Installed(y)' /\ Follows(y)'
  BY <1>0, <1>1, <1>2 DEF Agrees, Placed, Installed, Follows, Planning, Written, Answered, Healthy
<1>5. TokensTell(y)'
  BY <1>0, <1>2 DEF Agrees, TokensTell, Up, Absent, Planning
<1>6. Unlike({"self"})' => Apart(y)'
  BY <1>0, <1>1, <1>2 DEF Agrees, Apart, Differ
<1>7. Unlike({"self", "halfway"})' => Kept(y)'
  BY <1>0, <1>1, <1>2 DEF Agrees, Kept, Written, Answered
<1>8. Unlike({"crash", "fault", "self", "halfway"})' => Serves(y)'
  BY <1>0, <1>1, <1>2, <1>3 DEF Agrees, Follows, Serves, Open, Up, Absent, Answered, Healthy
<1>9. Unlike({"crash", "failed", "rolled"})' => Fits(y)'
  <2>1. x.kind = "deploy" => files[v].token = x.token
    BY <1>0, <1>2 DEF Agrees, TokensTell, Planning
  <2> QED BY <1>0, <1>1, <1>2, <1>3, <2>1 DEF Agrees, Fits, KnowsToken, Up, Absent
<1>10. Unlike({"crash", "fault", "self", "failed", "ignored"})' => Single(y)'
  BY <1>0, <1>1, <1>2 DEF Agrees, Single, OnlyUp, ActiveIsRow, Up, Absent
<1>11. Agrees(y)'
  BY <1>4, <1>5, <1>6, <1>7, <1>8, <1>9, <1>10 DEF Agrees
<1> QED BY <1>0, <1>2, <1>11, AgreeOps

\* ... the link names it, ...
LEMMA ActivatesAgree ==
  ASSUME AgreeNow, NEW o \in Operators, op[o].kind \in {"deploy", "rollback"},
         op[o].at = "activate", Links(op[o].version), GoTo(o, "retire"),
         UNCHANGED <<mode, row, vault, files, running, ops>>
  PROVE  AgreeState'
<1> PICK x : x = op[o]
  OBVIOUS
<1> PICK v : v = x.version
  OBVIOUS
<1> PICK y : y = [x EXCEPT !.at = "retire"]
  OBVIOUS
<1>0. op[o] # Idle /\ Agrees(x) /\ v \in Versions /\ x \in OpType
  BY UnderWay DEF Idle
<1>1. \A E : Unlike(E)' => Unlike(E)
  BY DEF Unlike, Links, Ignores, Note
<1>2. /\ op' = [op EXCEPT ![o] = y] /\ y.at = "retire" /\ y.kind = x.kind /\ y.version = v
      /\ y.port = x.port /\ y.token = x.token /\ y.was = x.was
      /\ x.at = "activate" /\ x.kind \in {"deploy", "rollback"}
      /\ active' = v \/ (active' = active /\ "ignored" \in history')
  BY GoToRecord DEF AgreeNow, Links, Ignores, Note
<1>3. Placed(y)' /\ Installed(y)' /\ Follows(y)'
  BY <1>0, <1>1, <1>2 DEF Agrees, Placed, Installed, Follows, Planning, Written, Answered, Healthy
<1>4. TokensTell(y)'
  BY <1>0, <1>2 DEF Agrees, TokensTell, Up, Absent, Planning
<1>5. Unlike({"self"})' => Apart(y)'
  BY <1>0, <1>1, <1>2 DEF Agrees, Apart, Differ
<1>6. Unlike({"self", "halfway"})' => Kept(y)'
  BY <1>0, <1>1, <1>2 DEF Agrees, Kept, Written, Answered
<1>7. Unlike({"crash", "fault", "self", "halfway"})' => Serves(y)'
  BY <1>0, <1>1, <1>2 DEF Agrees, Follows, Serves, Open, Up, Absent, Answered, Healthy
<1>8. Unlike({"crash", "failed", "rolled"})' => Fits(y)'
  BY <1>0, <1>1, <1>2 DEF Agrees, Fits, KnowsToken, Up, Absent, Answered
<1>9. Unlike({"crash", "fault", "self", "failed", "ignored"})' => Single(y)'
  BY <1>0, <1>1, <1>2 DEF Agrees, Single, OnlyUp, ActiveIsRow, Up, Absent, Unlike
<1>10. Agrees(y)'
  BY <1>3, <1>4, <1>5, <1>6, <1>7, <1>8, <1>9 DEF Agrees
<1> QED BY <1>0, <1>2, <1>10, AgreeOps

\* What does not run any more changes little.
LEMMA StopsTell ==
  ASSUME AgreeNow, NEW x, TokensTell(x), NEW v, Stops(v), UNCHANGED <<mode, files, ops>>
  PROVE  /\ TokensTell(x)'
         /\ \A w \in Versions : Up(w)' => Up(w) /\ w # v /\ running'[w] = running[w]
<1>1. /\ \A w \in Versions : running'[w] = running[w] \/ running'[w] = Absent
      /\ \A w \in Versions : Up(w)' => Up(w) /\ w # v /\ running'[w] = running[w]
  BY StopsWhat DEF Up, Absent
<1>2. Absent.token = 0 /\ ops \in Nat
  BY Typed DEF Absent, Launch
<1>3. \A w \in Versions : running'[w].token <= ops
  BY <1>1, <1>2, Typed DEF TokensTell
<1>4. \A n \in Nat \ {0} : \A w \in Versions : running[w].token # n => running'[w].token # n
  BY <1>1, <1>2
<1>5. TokensTell(x)'
  BY <1>1, <1>2, <1>3, <1>4 DEF TokensTell
<1> QED BY <1>1, <1>5

\* ... and the one before it is stopped.
LEMMA RetiresAgree ==
  ASSUME AgreeNow, NEW o \in Operators, StopPrevious(o) \/ StopCurrent(o)
  PROVE  AgreeState'
<1> USE DEF serverVars
<1> PICK x : x = op[o]
  OBVIOUS
<1> PICK v : v = x.version
  OBVIOUS
<1> PICK y : y = [x EXCEPT !.at = "record"]
  OBVIOUS
<1>0. op[o] # Idle /\ Agrees(x) /\ v \in Versions /\ x \in OpType
  <2>1. op[o] # Idle
    BY DEF StopPrevious, StopCurrent, At, Idle
  <2> QED BY <2>1, UnderWay
<1>1. \A E : Unlike(E)' => Unlike(E)
  BY DEF Unlike, StopPrevious, StopCurrent, Retires, Ignores, Note
<1>2. /\ op' = [op EXCEPT ![o] = y] /\ y.at = "record" /\ y.kind = x.kind /\ y.version = v
      /\ y.port = x.port /\ y.token = x.token /\ y.was = x.was
      /\ x.at = "retire" /\ x.kind \in {"deploy", "rollback"}
      /\ UNCHANGED <<mode, row, vault, files, active, ops>>
  BY GoToRecord DEF AgreeNow, StopPrevious, StopCurrent, At
<1>3. \/ UNCHANGED running /\ x.was.version = None /\ x.kind = "deploy"
      \/ UNCHANGED running /\ "ignored" \in history'
      \/ Stops(x.was.version)
  <2>1. x.was = NoRow => x.was.version = None
    BY DEF NoRow
  <2> QED BY <2>1 DEF StopPrevious, StopCurrent, At, Retires, Ignores, Note
<1>4. \A w \in Versions : Up(w)' =>
        /\ Up(w) /\ running'[w] = running[w]
        /\ w # x.was.version \/ "ignored" \in history'
  <2>1. CASE UNCHANGED running
    BY <1>3, <2>1, StopsWhat, Typed DEF Up, Absent
  <2>2. CASE Stops(x.was.version)
    BY <1>0, <1>2, <2>2, StopsTell DEF Agrees
  <2> QED BY <1>3, <2>1, <2>2
<1>5. TokensTell(x)'
  <2>1. CASE UNCHANGED running
    BY <1>0, <1>2, <2>1 DEF Agrees, TokensTell, Up, Absent
  <2>2. CASE Stops(x.was.version)
    BY <1>0, <1>2, <2>2, StopsTell DEF Agrees
  <2> QED BY <1>3, <2>1, <2>2
<1>6. TokensTell(y)'
  BY <1>2, <1>5 DEF TokensTell, Planning
<1>7. Placed(y)' /\ Installed(y)' /\ Follows(y)'
  BY <1>0, <1>1, <1>2 DEF Agrees, Placed, Installed, Follows, Planning, Written, Answered, Healthy
<1>8. Unlike({"self"})' => Apart(y)'
  BY <1>0, <1>1, <1>2 DEF Agrees, Apart, Differ
<1>9. Unlike({"self", "halfway"})' => Kept(y)'
  BY <1>0, <1>1, <1>2 DEF Agrees, Kept, Written, Answered
<1>10. Unlike({"crash", "fault", "self", "halfway"})' => Serves(y)'
  <2>1. ~Healthy(row) /\ Unlike({"crash", "fault", "self", "halfway"})' => Open(v, x.port)
    BY <1>0, <1>1, <1>2 DEF Agrees, Serves, Answered
  <2>2. ~Healthy(row)
    BY <1>0, <1>2 DEF Agrees, Follows
  <2>3. Unlike({"crash", "fault", "self", "halfway"})' => v # x.was.version
    <3>1. Unlike({"crash", "fault", "self", "halfway"})' => Differ(row)
      BY <1>0, <1>1 DEF Agrees, Apart, Unlike
    <3>2. /\ x.kind = "deploy" => row.version = v /\ row.prev = x.was.version
          /\ x.kind = "rollback" => row.version = x.was.version /\ row.prev = v
      BY <1>0, <1>2 DEF Agrees, Follows
    <3> QED BY <1>0, <1>2, <3>1, <3>2, Typed DEF Differ
  <2>4. running'[v] = running[v] \/ v = x.was.version
    BY <1>0, <1>3, StopsWhat
  <2> QED BY <1>2, <2>1, <2>2, <2>3, <2>4 DEF Serves, Open, Up, Absent, Healthy
<1>11. Unlike({"crash", "failed", "rolled"})' => Fits(y)'
  <2>1. /\ Unlike({"crash", "failed", "rolled"})' => Fits(x)
        /\ x.at \in Answered
    BY <1>0, <1>1, <1>2 DEF Agrees, Answered
  <2>2. Fits(x) => x.kind = "deploy" /\ x.token = vault /\ KnowsToken(v)
    BY <1>2, <2>1 DEF Fits
  <2>3. KnowsToken(v) => KnowsToken(v)'
    BY <1>0, <1>2, <1>4 DEF KnowsToken
  <2> QED BY <1>2, <2>1, <2>2, <2>3 DEF Fits
<1>12. Unlike({"crash", "fault", "self", "failed", "ignored"})' => Single(y)'
  <2>1. /\ Unlike({"crash", "fault", "self", "failed", "ignored"})' => Single(x)
    BY <1>0, <1>1 DEF Agrees
  <2> QED BY <1>2, <1>4, <2>1 DEF Single, OnlyUp, ActiveIsRow, Unlike
<1>13. Agrees(y)'
  BY <1>6, <1>7, <1>8, <1>9, <1>10, <1>11, <1>12 DEF Agrees
<1> QED BY <1>0, <1>2, <1>13, AgreeOps

\* The process of the row's version is stopped, or a removal goes on although it was not.
LEMMA StopAgrees ==
  ASSUME AgreeNow, NEW o \in Operators, StopVersion(o) \/ RemoveProcess(o)
  PROVE  AgreeState'
<1> USE DEF serverVars
<1> PICK x : x = op[o]
  OBVIOUS
<1> PICK v : v = x.version
  OBVIOUS
<1> PICK at : at = IF x.kind = "stop" THEN "record" ELSE "delete"
  OBVIOUS
<1> PICK y : y = [x EXCEPT !.at = at]
  OBVIOUS
<1>0. op[o] # Idle /\ Agrees(x) /\ v \in Versions /\ x \in OpType
  <2>1. op[o] # Idle
    BY DEF StopVersion, RemoveProcess, At, Idle
  <2> QED BY <2>1, UnderWay
<1>1. /\ op' = [op EXCEPT ![o] = y] /\ y.at = at /\ y.kind = x.kind /\ y.version = v
      /\ y.port = x.port /\ y.token = x.token /\ y.was = x.was
      /\ x.at = "run" /\ x.kind \in {"stop", "remove"}
      /\ UNCHANGED <<mode, row, vault, files, active, ops>>
  BY GoToRecord DEF AgreeNow, StopVersion, RemoveProcess, At
<1>2. /\ \A E : Unlike(E)' => Unlike(E)
      /\ row.version = v /\ row # NoRow
  BY <1>0, <1>1 DEF Unlike, Note, StopVersion, RemoveProcess, Retires, Ignores, Agrees, Follows
<1>3. Stops(v) \/ (UNCHANGED running /\ "ignored" \in history')
  BY DEF StopVersion, RemoveProcess, Retires, Ignores, Note
<1>4. \A w \in Versions : Up(w)' => /\ Up(w) /\ running'[w] = running[w]
                                    /\ w # v \/ "ignored" \in history'
  BY <1>3, StopsWhat DEF Up, Absent
<1>5. TokensTell(x)'
  <2>1. CASE UNCHANGED running
    BY <1>0, <1>1, <2>1 DEF Agrees, TokensTell, Up, Absent
  <2>2. CASE Stops(v)
    BY <1>0, <1>1, <2>2, StopsTell DEF Agrees
  <2> QED BY <1>3, <2>1, <2>2
<1>6. TokensTell(y)'
  BY <1>1, <1>5 DEF TokensTell
<1>7. Placed(y)' /\ Follows(y)' /\ Installed(y)'
  BY <1>0, <1>1, <1>2 DEF Agrees, Placed, Installed, Follows
<1>8. Unlike({"self"})' => Apart(y)'
  BY <1>0, <1>1, <1>2 DEF Agrees, Apart, Differ
<1>9. Unlike({"self", "halfway"})' => Kept(y)'
  BY <1>0, <1>1, <1>2 DEF Agrees, Kept
<1>10. Serves(y)'
  BY <1>1 DEF Serves
<1>11. Unlike({"crash", "failed", "rolled"})' => Fits(y)'
  BY <1>0, <1>1, <1>2, <1>4 DEF Agrees, Fits, KnowsToken
<1>12. Unlike({"crash", "fault", "self", "failed", "ignored"})' => Single(y)'
  <2>1. Unlike({"crash", "fault", "self", "failed", "ignored"})' =>
          "ignored" \notin history' /\ Single(x)
    BY <1>0, <1>2 DEF Agrees, Unlike
  <2> QED BY <1>1, <1>2, <1>4, <2>1 DEF Single, OnlyUp, ActiveIsRow
<1>13. Agrees(y)'
  BY <1>6, <1>7, <1>8, <1>9, <1>10, <1>11, <1>12 DEF Agrees
<1> QED BY <1>0, <1>1, <1>13, AgreeOps

\* A removal deletes the files with the link, and then the unit.
LEMMA RemovesAgree ==
  ASSUME AgreeNow, NEW o \in Operators, RemoveFiles(o) \/ RemoveUnit(o)
  PROVE  AgreeState'
<1> USE DEF serverVars
<1> PICK x : x = op[o]
  OBVIOUS
<1> PICK at : at = IF x.at = "delete" THEN "unit" ELSE "record"
  OBVIOUS
<1> PICK y : y = [x EXCEPT !.at = at]
  OBVIOUS
<1>0. op[o] # Idle /\ Agrees(x) /\ x.version \in Versions /\ x \in OpType
  <2>1. op[o].kind = "remove"
    BY DEF RemoveFiles, RemoveUnit, At
  <2> QED BY <2>1, NotIdle, UnderWay
<1>1. /\ op' = [op EXCEPT ![o] = y] /\ y.at = at /\ y.kind = "remove" /\ x.kind = "remove"
      /\ y.version = x.version /\ y.port = x.port
      /\ UNCHANGED <<mode, row, vault, running, ops>>
      /\ x.at = "delete" \/ x.at = "unit"
  <2>1. /\ x.kind = "remove" /\ UNCHANGED <<mode, row, vault, running, ops>>
        /\ \/ x.at = "delete" /\ GoTo(o, "unit")
           \/ x.at = "unit" /\ GoTo(o, "record")
    BY DEF RemoveFiles, RemoveUnit, At
  <2>2. TypeOK /\ GoTo(o, at)
    BY <2>1 DEF AgreeNow
  <2> QED BY <2>1, <2>2, GoToRecord
<1>2. \A E : Unlike(E)' => Unlike(E)
  BY DEF Unlike, Note, RemoveFiles, RemoveUnit, SetsUnit, Ignores
<1>3. \/ /\ x.at = "delete" /\ files' = [w \in Versions |-> Absent] /\ active' = None
         /\ "halfway" \in history'
      \/ x.at = "unit" /\ UNCHANGED <<files, active>>
  BY <1>1 DEF RemoveFiles, RemoveUnit, Note, At
<1>4. TokensTell(y)'
  <2>1. CASE UNCHANGED files
    BY <1>0, <1>1, <2>1 DEF Agrees, TokensTell, Up, Absent
  <2>2. CASE files' = [w \in Versions |-> Absent]
    <3>1. \A w \in Versions : files'[w] = Absent
      BY <2>2
    <3>2. Absent.token = 0 /\ Absent.port = 0 /\ ops \in Nat
      BY Typed DEF Absent, Launch
    <3> QED BY <1>0, <1>1, <3>1, <3>2 DEF Agrees, TokensTell, Up, Absent
  <2> QED BY <1>3, <2>1, <2>2
<1>5. Placed(y)' /\ Follows(y)' /\ Installed(y)'
  BY <1>0, <1>1, <1>2, <1>3 DEF Agrees, Placed, Installed, Follows
<1>6. Unlike({"self"})' => Apart(y)'
  BY <1>0, <1>1, <1>2 DEF Agrees, Apart, Differ
<1>7. Unlike({"self", "halfway"})' => Kept(y)'
  BY <1>0, <1>1, <1>2, <1>3 DEF Agrees, Kept, Unlike
<1>8. Serves(y)'
  BY <1>1 DEF Serves
<1>9. Unlike({"crash", "failed", "rolled"})' => Fits(y)'
  BY <1>1 DEF Fits
<1>10. Unlike({"crash", "fault", "self", "failed", "ignored"})' => Single(y)'
  BY <1>0, <1>1, <1>2, <1>3 DEF Agrees, Single, OnlyUp, ActiveIsRow, Up, Absent
<1>11. Agrees(y)'
  BY <1>4, <1>5, <1>6, <1>7, <1>8, <1>9, <1>10 DEF Agrees
<1> QED BY <1>0, <1>1, <1>11, AgreeOps

\* An operation that is accepted while nothing else is under way.
LEMMA QuietNow ==
  ASSUME AgreeNow, NEW o \in Operators, NEW record, NEW events, Begin(o, record, events),
         "overlap" \notin history'
  PROVE  /\ Quiet /\ Agrees(Idle) /\ Idle.kind = "idle" /\ Idle.at = "end"
         /\ op' = [op EXCEPT ![o] = record] /\ ops' = ops + 1
         /\ \A E : Unlike(E)' => Unlike(E)
         /\ \A e \in events : e \in history'
<1>1. Quiet /\ op' = [op EXCEPT ![o] = record] /\ ops' = ops + 1
  BY DEF Begin, Note, Quiet
<1>2. Agrees(Idle)
  BY <1>1 DEF AgreeNow, AgreeState, Current
<1> QED BY <1>1, <1>2 DEF Begin, Note, Unlike, Idle

LEMMA BeginDeployAgrees ==
  ASSUME AgreeNow, NEW o \in Operators, NEW v \in Versions, NEW p \in Ports,
         BeginDeploy(o, v, p), "overlap" \notin history'
  PROVE  AgreeState'
<1> USE DEF serverVars
<1> DEFINE e == IF Up(v) \/ (Healthy(row) /\ row.version = v) THEN {"self"} ELSE {}
<1> PICK n : n = ops + 1
  OBVIOUS
<1> PICK y : y = [Idle EXCEPT !.kind = "deploy", !.at = "preflight", !.version = v,
                              !.port = p, !.token = n]
  OBVIOUS
<1>1. Begin(o, y, e)
  BY DEF BeginDeploy
<1>2. /\ Healthy(row) /\ row.version = v => "self" \in history'
      /\ UNCHANGED <<mode, row, files, running, active>> /\ vault' = n
  BY <1>1 DEF Begin, Note, BeginDeploy
<1>3. y.kind = "deploy" /\ y.at = "preflight" /\ y.version = v /\ y.port = p /\ y.token = n
  BY DEF Idle
<1> HIDE DEF e
<1>4. /\ Quiet /\ Agrees(Idle) /\ Idle.kind = "idle" /\ Idle.at = "end"
      /\ op' = [op EXCEPT ![o] = y] /\ ops' = n /\ \A E : Unlike(E)' => Unlike(E)
  BY <1>1, QuietNow
<1>5. /\ n \in Nat /\ n # 0 /\ ops <= n
      /\ \A w \in Versions : /\ files[w].token # n /\ running[w].token # n
                             /\ files[w].token <= n /\ running[w].token <= n
  <2>1. ops \in Nat /\ n = ops + 1
    BY Typed
  <2>2. \A w \in Versions : files[w].token <= ops /\ running[w].token <= ops
    BY <1>4 DEF Agrees, TokensTell
  <2> QED BY <2>1, <2>2, Typed
<1>6. TokensTell(y)'
  BY <1>2, <1>3, <1>4, <1>5 DEF Agrees, TokensTell, Up, Absent, Planning
<1>7. Placed(y)' /\ Installed(y)' /\ Follows(y)'
  BY <1>2, <1>3, <1>4 DEF Agrees, Placed, Installed, Follows, Planning, Written, Answered
<1>8. Unlike({"self"})' => Apart(y)'
  BY <1>2, <1>3, <1>4 DEF Agrees, Apart, Differ, Unlike
<1>9. Unlike({"self", "halfway"})' => Kept(y)'
  BY <1>2, <1>3, <1>4 DEF Agrees, Kept, Written, Answered
<1>10. Unlike({"crash", "fault", "self", "halfway"})' => Serves(y)'
  BY <1>2, <1>3, <1>4 DEF Agrees, Serves, Open, Up, Absent, Answered
<1>11. Fits(y)'
  BY <1>2, <1>3 DEF Fits, Answered
<1>12. Unlike({"crash", "fault", "self", "failed", "ignored"})' => Single(y)'
  BY <1>2, <1>3, <1>4 DEF Agrees, Single, OnlyUp, ActiveIsRow, Up, Absent
<1>13. Agrees(y)'
  BY <1>6, <1>7, <1>8, <1>9, <1>10, <1>11, <1>12 DEF Agrees
<1> QED BY <1>4, <1>13, AgreeOps

LEMMA BeginActionAgrees ==
  ASSUME AgreeNow, NEW o \in Operators, NEW kind \in {"stop", "start", "remove"},
         BeginAction(o, kind), "overlap" \notin history'
  PROVE  AgreeState'
<1> USE DEF serverVars
<1> DEFINE e == IF kind \in {"stop", "remove"} THEN {"stopped"} ELSE {}
<1> PICK y : y = [Idle EXCEPT !.kind = kind, !.at = "run", !.version = row.version,
                              !.port = row.port, !.was = row]
  OBVIOUS
<1>1. Begin(o, y, e)
  BY DEF BeginAction
<1>2. /\ UNCHANGED <<mode, row, vault, files, running, active>> /\ row # NoRow
  BY DEF BeginAction
<1>3. /\ y.kind = kind /\ y.at = "run" /\ y.version = row.version /\ y.port = row.port
  BY DEF Idle
<1> HIDE DEF e
<1>4. /\ Quiet /\ Agrees(Idle) /\ Idle.kind = "idle" /\ Idle.at = "end"
      /\ op' = [op EXCEPT ![o] = y] /\ ops' = ops + 1 /\ \A E : Unlike(E)' => Unlike(E)
  BY <1>1, QuietNow
<1>5. \A w \in Versions : files[w].token <= ops + 1 /\ running[w].token <= ops + 1
  <2>1. \A w \in Versions : files[w].token <= ops /\ running[w].token <= ops
    BY <1>4 DEF Agrees, TokensTell
  <2> QED BY <2>1, Typed
<1>6. TokensTell(y)'
  BY <1>2, <1>3, <1>4, <1>5 DEF Agrees, TokensTell, Up, Absent
<1>7. Placed(y)' /\ Installed(y)' /\ Follows(y)'
  BY <1>2, <1>3, <1>4 DEF Agrees, Placed, Installed, Follows
<1>8. Unlike({"self"})' => Apart(y)'
  BY <1>2, <1>3, <1>4 DEF Agrees, Apart, Differ
<1>9. Unlike({"self", "halfway"})' => Kept(y)'
  BY <1>2, <1>3, <1>4 DEF Agrees, Kept
<1>10. Unlike({"crash", "fault", "self", "halfway"})' => Serves(y)'
  BY <1>2, <1>3, <1>4 DEF Agrees, Serves, Open, Up, Absent
<1>11. Unlike({"crash", "failed", "rolled"})' => Fits(y)'
  BY <1>2, <1>3, <1>4 DEF Agrees, Fits, KnowsToken, Up, Absent
<1>12. Unlike({"crash", "fault", "self", "failed", "ignored"})' => Single(y)'
  BY <1>2, <1>3, <1>4 DEF Agrees, Single, OnlyUp, ActiveIsRow, Up, Absent
<1>13. Agrees(y)'
  BY <1>6, <1>7, <1>8, <1>9, <1>10, <1>11, <1>12 DEF Agrees
<1> QED BY <1>4, <1>13, AgreeOps

LEMMA BeginRollbackAgrees ==
  ASSUME AgreeNow, NEW o \in Operators, BeginRollback(o), "overlap" \notin history'
  PROVE  AgreeState'
<1> USE DEF serverVars
<1> PICK y : y = [Idle EXCEPT !.kind = "rollback", !.at = "run", !.version = row.prev,
                              !.port = row.prevPort, !.was = row]
  OBVIOUS
<1>1. Begin(o, y, {"rolled"})
  BY DEF BeginRollback
<1>2. /\ UNCHANGED <<mode, vault, files, running, active>> /\ row # NoRow /\ row' # NoRow
      /\ row'.version = row.version /\ row'.port = row.port /\ row'.prev = row.prev
      /\ row'.prevPort = row.prevPort /\ ~Healthy(row')
  BY Typed DEF BeginRollback, RowType, NoRow, Healthy
<1>3. /\ y.kind = "rollback" /\ y.at = "run" /\ y.version = row.prev /\ y.port = row.prevPort
      /\ y.was = row
  BY DEF Idle
<1>4. /\ Quiet /\ Agrees(Idle) /\ Idle.kind = "idle" /\ Idle.at = "end" /\ "rolled" \in history'
      /\ op' = [op EXCEPT ![o] = y] /\ ops' = ops + 1 /\ \A E : Unlike(E)' => Unlike(E)
  BY <1>1, QuietNow
<1>5. \A w \in Versions : files[w].token <= ops + 1 /\ running[w].token <= ops + 1
  <2>1. \A w \in Versions : files[w].token <= ops /\ running[w].token <= ops
    BY <1>4 DEF Agrees, TokensTell
  <2> QED BY <2>1, Typed
<1>6. TokensTell(y)'
  BY <1>2, <1>3, <1>4, <1>5 DEF Agrees, TokensTell, Up, Absent
<1>7. Placed(y)' /\ Installed(y)' /\ Follows(y)'
  BY <1>2, <1>3, <1>4 DEF Agrees, Placed, Installed, Follows
<1>8. Unlike({"self"})' => Apart(y)'
  BY <1>2, <1>3, <1>4 DEF Agrees, Apart, Differ
<1>9. Unlike({"self", "halfway"})' => Kept(y)'
  BY <1>2, <1>3, <1>4 DEF Agrees, Kept
<1>10. Serves(y)'
  BY <1>2, <1>3 DEF Serves, Answered
<1>11. ~Unlike({"crash", "failed", "rolled"})'
  BY <1>4 DEF Unlike
<1>12. Unlike({"crash", "fault", "self", "failed", "ignored"})' => Single(y)'
  BY <1>2, <1>3, <1>4 DEF Agrees, Single, OnlyUp, ActiveIsRow, Up, Absent
<1>13. Agrees(y)'
  BY <1>6, <1>7, <1>8, <1>9, <1>10, <1>11, <1>12 DEF Agrees
<1> QED BY <1>4, <1>13, AgreeOps

\* What no operation does: every part that is still promised then is about what has
\* not changed. x is the operation under way, if any.
LEMMA AgreeOutside ==
  ASSUME AgreeNow, UNCHANGED op, Agrees(Current)'
  PROVE  AgreeState'
BY DEF AgreeNow, AgreeState, OneAtATime, Busy

LEMMA CurrentNamed ==
  ASSUME AgreeNow
  PROVE  Agrees(Current) /\ (Current.kind # "idle" => Current.version \in Versions)
<1>1. CASE Quiet
  BY <1>1 DEF AgreeNow, AgreeState, Current, Idle
<1>2. CASE ~Quiet
  <2> PICK o \in Operators : o \in Busy
    BY <1>2 DEF Quiet, Busy
  <2>1. op[o] # Idle
    BY DEF Busy
  <2> QED BY <2>1, CurrentIs, UnderWay DEF AgreeNow, AgreeState
<1> QED BY <1>1, <1>2

LEMMA DiesAgrees ==
  ASSUME AgreeNow, NEW v \in Versions, ProcessDies(v)
  PROVE  AgreeState'
<1> USE DEF serverVars
<1> PICK x : x = Current
  OBVIOUS
<1>1. /\ UNCHANGED <<mode, row, vault, files, active, op, ops>> /\ Stops(v)
      /\ "fault" \in history' /\ \A E : Unlike(E)' => Unlike(E) 
  BY DEF ProcessDies, Fault, Note, Unlike
<1>2. Agrees(x) /\ (x.kind # "idle" => x.version \in Versions)
  BY CurrentNamed
<1>3. /\ TokensTell(x)'
      /\ \A w \in Versions : Up(w)' => Up(w) /\ w # v /\ running'[w] = running[w]
  BY <1>1, <1>2, StopsTell DEF Agrees
<1>4. Placed(x)' /\ Installed(x)' /\ Follows(x)'
  BY <1>1, <1>2 DEF Agrees, Placed, Installed, Follows
<1>5. Unlike({"self"})' => Apart(x)'
  BY <1>1, <1>2 DEF Agrees, Apart
<1>6. Unlike({"self", "halfway"})' => Kept(x)'
  BY <1>1, <1>2 DEF Agrees, Kept
<1>7. /\ ~Unlike({"crash", "fault", "self", "halfway"})'
      /\ ~Unlike({"crash", "fault", "self", "failed", "ignored"})'
  BY <1>1 DEF Unlike
<1>8. Unlike({"crash", "failed", "rolled"})' => Fits(x)'
  <2>1. Fits(x) => Fits(x)'
    BY <1>1, <1>2, <1>3, Typed DEF Fits, KnowsToken, Answered
  <2> QED BY <1>1, <1>2, <2>1 DEF Agrees
<1>9. Agrees(x)'
  BY <1>3, <1>4, <1>5, <1>6, <1>7, <1>8 DEF Agrees
<1>10. Current' = x
  BY <1>1 DEF Current, Quiet, Busy
<1>11. Agrees(Current)'
  BY <1>9, <1>10 DEF Agrees, Placed, TokensTell, Follows, Installed,
     Apart, Kept, Serves, Open, Fits, KnowsToken, Single, OnlyUp, ActiveIsRow
<1> QED BY <1>1, <1>11, AgreeOutside

\* After a boot a version runs with what it ran with, or with its files, if it is
\* the active one; in native mode nothing runs.
LEMMA RebootAgrees ==
  ASSUME AgreeNow, Reboot
  PROVE  AgreeState'
<1> USE DEF serverVars
<1> PICK x : x = Current
  OBVIOUS
<1>1. /\ UNCHANGED <<mode, row, vault, files, active, op, ops>>
      /\ "fault" \in history' /\ \A E : Unlike(E)' => Unlike(E)
  BY DEF Reboot, Fault, Note, Unlike
<1>2. Agrees(x) /\ (x.kind # "idle" => x.version \in Versions)
  BY CurrentNamed
<1>3. \A w \in Versions :
        \/ running'[w] = Absent
        \/ running'[w] = running[w] /\ mode # "native"
        \/ /\ running'[w] = files[w] /\ mode # "native"
           /\ files[w].port # 0 /\ files[w].token # 0
  <2> SUFFICES ASSUME NEW w \in Versions
               PROVE  \/ running'[w] = Absent
                      \/ running'[w] = running[w] /\ mode # "native"
                      \/ /\ running'[w] = files[w] /\ mode # "native"
                         /\ files[w].port # 0 /\ files[w].token # 0
    OBVIOUS
  <2> DEFINE boots(v) == /\ unit /\ v = active /\ files[v].port # 0
                         /\ \A u \in Versions \ {v} : running[u].port # files[v].port
  <2>1. running'[w] = IF mode = "native" THEN Absent
                      ELSE IF boots(w) THEN files[w] ELSE running[w]
    BY DEF Reboot
  <2>2. boots(w) => files[w].port # 0 /\ files[w].token # 0
    BY <1>2, Typed DEF Agrees, Installed, TokensTell, None
  <2> HIDE DEF boots
  <2> QED BY <2>1, <2>2
<1>4. Absent.token = 0 /\ ops \in Nat
  BY Typed DEF Absent, Launch
<1>5. TokensTell(x)'
  <2>1. \A w \in Versions : running'[w].token <= ops
    BY <1>2, <1>3, <1>4 DEF Agrees, TokensTell
  <2>2. \A w \in Versions : Up(w)' =>
          /\ mode # "native"
          /\ \/ Up(w) /\ running'[w] = running[w]
             \/ running'[w] = files[w] /\ files[w].token # 0
    BY <1>3 DEF Up, Absent
  <2>3. /\ \A w \in Versions : Up(w)' => running'[w].token # 0
        /\ \A u, w \in Versions : Up(w)' /\ running'[w].token = files[u].token => u = w
    BY <1>2, <2>2 DEF Agrees, TokensTell
  <2>4. \A w \in Versions :
          /\ Up(w)' /\ running'[w].token = files[w].token
          /\ mode = "native" \/ (x.at = "health" /\ x.version = w)
          => running'[w] = files[w]
    BY <1>2, <2>2 DEF Agrees, TokensTell
  <2>5. x.kind = "deploy" =>
          /\ x.token = ops /\ ops # 0
          /\ x.at \in Planning =>
               \A w \in Versions : files[w].token # ops /\ running'[w].token # ops
          /\ x.at = "launcher" /\ mode = "native" => \A w \in Versions : running'[w].token # ops
          /\ x.at \notin Planning => files[x.version].token = ops
    BY <1>2, <1>3, <1>4 DEF Agrees, TokensTell
  <2> QED BY <1>1, <1>2, <2>1, <2>3, <2>4, <2>5 DEF Agrees, TokensTell
<1>6. Placed(x)' /\ Installed(x)' /\ Follows(x)'
  BY <1>1, <1>2 DEF Agrees, Placed, Installed, Follows
<1>7. Unlike({"self"})' => Apart(x)'
  BY <1>1, <1>2 DEF Agrees, Apart
<1>8. Unlike({"self", "halfway"})' => Kept(x)'
  BY <1>1, <1>2 DEF Agrees, Kept
<1>9. /\ ~Unlike({"crash", "fault", "self", "halfway"})'
      /\ ~Unlike({"crash", "fault", "self", "failed", "ignored"})'
  BY <1>1 DEF Unlike
<1>10. Unlike({"crash", "failed", "rolled"})' => Fits(x)'
  <2>1. \A w \in Versions : KnowsToken(w) => KnowsToken(w)'
    BY <1>1, <1>3 DEF KnowsToken, Up, Absent
  <2>2. Fits(x) => Fits(x)'
    BY <1>1, <1>2, <2>1, Typed DEF Fits, Answered
  <2> QED BY <1>1, <1>2, <2>2 DEF Agrees
<1>11. Agrees(x)'
  BY <1>5, <1>6, <1>7, <1>8, <1>9, <1>10 DEF Agrees
<1>12. Current' = x
  BY <1>1 DEF Current, Quiet, Busy
<1>13. Agrees(Current)'
  BY <1>11, <1>12 DEF Agrees, Placed, TokensTell, Follows, Installed,
     Apart, Kept, Serves, Open, Fits, KnowsToken, Single, OnlyUp, ActiveIsRow
<1> QED BY <1>1, <1>13, AgreeOutside

\* Nothing the records are about changes.
LEMMA SameAgrees ==
  ASSUME AgreeState, UNCHANGED <<mode, row, vault, files, running, active, op, ops, history>>
  PROVE  AgreeState'
<1>1. Current' = Current /\ OneAtATime'
  BY DEF AgreeState, Current, Quiet, Busy, OneAtATime
<1> QED BY <1>1 DEF AgreeState, Agrees, Placed, TokensTell, Follows, Installed, Apart, Differ, Kept,
    Serves, Open, Fits, KnowsToken, Single, OnlyUp, ActiveIsRow, Up, Absent, Unlike

LEMMA StepAgrees ==
  ASSUME AgreeNow, NEW o \in Operators, Step(o)
  PROVE  AgreeState'
<1> USE DEF serverVars
<1>1. CASE Deploy(o)
  <2>1. CASE StartCandidate(o)
    <3>1. \A E : Unlike(E)' => Unlike(E)
      BY <2>1 DEF StartCandidate, SetsUnit, Ignores, Note, Unlike
    <3> QED BY <2>1, <3>1, StartsAgree DEF StartCandidate, At
  <2>2. CASE CandidateHealthy(o)
    BY <2>2, AnswersAgree DEF CandidateHealthy, At
  <2>3. CASE Activate(o)
    BY <2>3, ActivatesAgree DEF Activate, At
  <2> QED BY <1>1, <2>1, <2>2, <2>3, EndingsAgree, PlansAgree, WritesAgree, RetiresAgree,
             HealthyAgrees, AttachAgrees DEF Deploy
<1>2. CASE Act(o)
  <2>1. CASE StartVersion(o)
    BY <2>1, StartsAgree DEF StartVersion, At, Unlike
  <2> QED BY <1>2, <2>1, EndingsAgree, BreaksAgree, StopAgrees, RemovesAgree,
             RecordsAgreeWithActs DEF Act
<1>3. CASE Rollback(o)
  <2>1. CASE StartPrevious(o)
    BY <2>1, StartsAgree DEF StartPrevious, At, Unlike
  <2>2. CASE PreviousHealthy(o)
    BY <2>2, AnswersAgree DEF PreviousHealthy, At
  <2>3. CASE ReactivatePrevious(o)
    BY <2>3, ActivatesAgree DEF ReactivatePrevious, At
  <2> QED BY <1>3, <2>1, <2>2, <2>3, EndingsAgree, RetiresAgree, RolledBackAgrees DEF Rollback
<1> QED BY <1>1, <1>2, <1>3, LeavingAgrees DEF Step

RemoteAgree == RemoteInv /\ AgreeInv

LEMMA RemoteAgreeStart == Init => RemoteAgree
<1> SUFFICES ASSUME Init PROVE RemoteAgree
  OBVIOUS
<1>1. /\ Current = Idle /\ OneAtATime
      /\ Idle.kind = "idle" /\ Idle.at = "end"
  BY DEF Init, Current, Quiet, Busy, OneAtATime, Idle
<1>2. /\ row.prev = None /\ row.version = None /\ row.status = None /\ row = NoRow
      /\ None \notin Versions
  BY DeploymentAssumption DEF Init, NoRow, None
<1>3. \A v \in Versions :
        /\ files[v] = Absent /\ running[v] = Absent /\ ~Up(v)
        /\ files[v].port = 0 /\ files[v].token = 0 /\ running[v].token = 0
  BY DEF Init, Up, Absent, Launch
<1>4. TokensTell(Idle)
  BY <1>1, <1>3 DEF Init, TokensTell
<1>5. Placed(Idle) /\ Follows(Idle) /\ Installed(Idle) /\ Apart(Idle) /\ Kept(Idle)
  BY <1>1, <1>2 DEF Init, Placed, Follows, Installed, Apart, Differ, Kept, Healthy, None
<1>6. Serves(Idle) /\ Fits(Idle) /\ Single(Idle)
  BY <1>1, <1>2, <1>3 DEF Init, Serves, Fits, Single, OnlyUp, ActiveIsRow, Healthy, None
<1>7. AgreeState
  BY <1>1, <1>4, <1>5, <1>6 DEF AgreeState, Agrees
<1> QED BY <1>7, RemoteStart DEF RemoteAgree, AgreeInv

LEMMA RemoteAgreeStep == RemoteAgree /\ [Next]_vars => RemoteAgree'
<1> SUFFICES ASSUME RemoteAgree, [Next]_vars PROVE RemoteAgree'
  OBVIOUS
<1>1. RemoteInv'
  BY RemoteStep DEF RemoteAgree
<1>2. ASSUME Next, Alone' PROVE AgreeState'
  <2>1. AgreeNow /\ "overlap" \notin history'
    BY <1>2, HistoryGrows DEF RemoteAgree, RemoteInv, AgreeInv, Alone, Unlike, AgreeNow
  <2>2. ASSUME RemoveServer PROVE AgreeState'
    BY <2>1, <2>2, SameAgrees DEF RemoveServer, serverVars, AgreeNow
  <2> QED BY <1>2, <2>1, <2>2, StepAgrees, LeavingAgrees, DiesAgrees, RebootAgrees,
             BeginDeployAgrees, BeginActionAgrees, BeginRollbackAgrees DEF Next
<1>3. ASSUME UNCHANGED vars, Alone' PROVE AgreeState'
  <2>1. AgreeState
    BY <1>3 DEF RemoteAgree, AgreeInv, Alone, Unlike, vars
  <2> QED BY <1>3, <2>1, SameAgrees DEF vars, serverVars
<1> QED BY <1>1, <1>2, <1>3 DEF RemoteAgree, AgreeInv

\* What each part of RecordsAgree promises follows when nothing is under way.
LEMMA AgreeImplies == RemoteAgree => RecordsAgree
<1> SUFFICES ASSUME RemoteAgree PROVE RecordsAgree
  OBVIOUS
<1>1. TypeOK /\ Named /\ LinkedServer
  BY DEF RemoteAgree, RemoteInv
<1>2. ASSUME "overlap" \notin history PROVE AgreeNow /\ Agrees(Current)
  BY <1>1, <1>2 DEF RemoteAgree, AgreeInv, Alone, Unlike, AgreeNow, AgreeState
<1>3. /\ Quiet => Current = Idle
      /\ Idle.kind = "idle" /\ Idle.at = "end"
  BY DEF Current, Idle
<1>4. HealthyServes
  BY <1>2, <1>3 DEF HealthyServes, Unlike, Agrees, Serves, Open
<1>5. OneVersion
  BY <1>2, <1>3 DEF OneVersion, Unlike, Agrees, Single, OnlyUp, ActiveIsRow
<1>6. RollbackReady
  BY <1>2, <1>3 DEF RollbackReady, Unlike, Agrees, Kept
<1>7. CredentialFits
  <2>1. ASSUME Quiet, Healthy(row), Up(row.version),
               Unlike({"overlap", "crash", "failed", "rolled"})
        PROVE  running[row.version].token = vault
    <3>1. row # NoRow
      BY <2>1 DEF Healthy, NoRow, None
    <3>2. Fits(Idle)
      BY <1>2, <1>3, <2>1 DEF Unlike, Agrees
    <3> QED BY <1>3, <2>1, <3>1, <3>2 DEF Fits, KnowsToken
  <2> QED BY <2>1 DEF CredentialFits
<1>8. ActiveIsInstalled
  BY <1>2 DEF ActiveIsInstalled, Unlike, Agrees, Installed
<1> QED BY <1>1, <1>4, <1>5, <1>6, <1>7, <1>8 DEF RecordsAgree

\* Whatever is deployed, started, stopped, rolled back or removed one operation at a
\* time, with any command failing, ignored or not, what the row, the vault and the active
\* link say is so on the server, each part under the conditions it names in RecordsAgree.
THEOREM RemoteRecordsAgree == Spec => []RecordsAgree
BY RemoteAgreeStart, RemoteAgreeStep, AgreeImplies, PTL DEF Spec
=============================================================================
