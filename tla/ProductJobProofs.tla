--------------------------- MODULE ProductJobProofs ---------------------------
(***************************************************************************)
(* What holds of a product job for any number of source shards, artifacts, *)
(* runners, requests and crashes: types, and that source data outlives the *)
(* local cache only on the server; and, of the desktop alone, that a       *)
(* completed job can be deployed and a paused one has no runner.           *)
(***************************************************************************)
EXTENDS ProductJob, TLAPS

-----------------------------------------------------------------------------
(* The tables are typed. *)

\* Every call of transition_job asks for a status and leads to known points.
LEMMA TransitionTable ==
  \A p \in DOMAIN TransitionAt :
    /\ TransitionAt[p].to \in JobStatus
    /\ TransitionAt[p].then \in Points
    /\ TransitionAt[p].raises \in Points
PROOF BY DEF TransitionAt, Call, JobStatus, Points

\* The status that was read sends a runner to a point of the pipeline.
LEMMA EntryTable == \A s \in DOMAIN Entry : Entry[s] \in Points
PROOF BY DEF Entry, Points

\* Only the call at "completing" asks for COMPLETED.
LEMMA CompletingTable ==
  \A p \in DOMAIN TransitionAt :
    TransitionAt[p].to = "COMPLETED" => p = "completing"
PROOF BY DEF TransitionAt, Call

\* No table entry jumps into the upload or beyond it, but for the two calls
\* that end the run.
LEMMA TransitionTargets ==
  \A p \in DOMAIN TransitionAt :
    /\ p \in {"confirm", "preflight", "run", "pausing", "verifying", "completing",
              "failing", "outerfailing"}
    /\ TransitionAt[p].raises \in {"outer", "except", "idle"}
    /\ TransitionAt[p].then \in {"preflight", "run", "begin", "outer", "completing",
                                 "deploy", "idle"}
    /\ TransitionAt[p].then = "completing" => p = "verifying"
PROOF BY DEF TransitionAt, Call

LEMMA EntryTargets == \A s \in DOMAIN Entry : Entry[s] \in {"confirm", "preflight", "run", "begin"}
PROOF BY DEF Entry
-----------------------------------------------------------------------------
(* Types. *)

\* A runner that holds a shard or an artifact has a valid index.
LEMMA IndexInRange ==
  ASSUME TypeOK, NEW w \in Workers
  PROVE  /\ at[w] \in Fetching => item[w] \in Sources
         /\ at[w] \in Uploading => item[w] \in Artifacts
PROOF BY DEF TypeOK, RunnersTyped

\* The loop index moves on by one or starts over.
LEMMA Counted ==
  ASSUME TypeOK, NEW w \in Workers, NextItem(w) \/ StartLoop(w)
  PROVE  /\ item' \in [Workers -> Nat \ {0}]
         /\ \A v \in Workers \ {w} : item'[v] = item[v]
PROOF BY DEF TypeOK, RunnersTyped, NextItem, StartLoop

\* A runner's step leaves every runner at a point it knows, with an index in range.
LEMMA RunnersStayTyped ==
  ASSUME TypeOK, NEW w \in Workers, WorkerStep(w)
  PROVE  RunnersTyped'
PROOF
  <1> USE DEF TypeOK, RunnersTyped, runVars
  <1> w \in Actors
    BY DEF Actors
  <1>1. CASE TransitionRead(w)
    BY <1>1 DEF TransitionRead, ReadRow, Points, Fetching, Uploading
  <1>2. CASE TransitionWrite(w)
    BY <1>2, TransitionTable, TransitionTargets DEF TransitionWrite, Goto, Points, Fetching, Uploading
  <1>3. CASE TransitionRaises(w)
    BY <1>3, TransitionTable, TransitionTargets DEF TransitionRaises, Jump, Goto, Points, Fetching, Uploading
  <1>4. CASE HostPreflight(w)
    BY <1>4 DEF HostPreflight, Goto, Points, Fetching, Uploading
  <1>5. CASE Load(w)
    BY <1>5 DEF Load, Goto, Points, Fetching, Uploading
  <1>6. CASE Choose(w)
    BY <1>6, EntryTargets DEF Choose, Jump, Goto, Points, Fetching, Uploading
  <1>7. CASE Begin(w)
    BY <1>7, Counted DEF Begin, Interrupt, Goto, Points, Fetching, Uploading
  <1>8. CASE SourcesDone(w)
    BY <1>8 DEF SourcesDone, Jump, Goto, Points, Fetching, Uploading
  <1>9. CASE SkipSource(w)
    BY <1>9, Counted DEF SkipSource, Points, Fetching, Uploading
  <1>10. CASE StartSource(w)
    BY <1>10 DEF StartSource, Interrupt, Goto, Points, Fetching, Uploading
  <1>11. CASE Download(w)
    BY <1>11 DEF Download, Goto, Points, Fetching, Uploading
  <1>12. CASE RecordSource(w)
    BY <1>12, Counted DEF RecordSource, Goto, Points, Fetching, Uploading
  <1>13. CASE Inspect(w)
    BY <1>13 DEF Inspect, Jump, Goto, Points, Fetching, Uploading
  <1>14. CASE Convert(w)
    BY <1>14 DEF Convert, Goto, Points, Fetching, Uploading
  <1>15. CASE Verify(w)
    BY <1>15, Counted DEF Verify, Goto, Points, Fetching, Uploading
  <1>16. CASE ArtifactsDone(w)
    BY <1>16 DEF ArtifactsDone, Jump, Goto, Points, Fetching, Uploading
  <1>17. CASE SkipArtifact(w)
    BY <1>17, Counted DEF SkipArtifact, Points, Fetching, Uploading
  <1>18. CASE StartArtifact(w)
    BY <1>18, Counted DEF StartArtifact, Interrupt, Goto, Points, Fetching, Uploading
  <1>19. CASE StartUpload(w)
    BY <1>19 DEF StartUpload, Goto, Points, Fetching, Uploading
  <1>20. CASE Commit(w)
    BY <1>20 DEF Commit, Goto, Points, Fetching, Uploading
  <1>21. CASE RecordCommit(w)
    BY <1>21, Counted DEF RecordCommit, Goto, Points, Fetching, Uploading
  <1>22. CASE Clean(w)
    BY <1>22, Counted DEF Clean, Goto, Points, Fetching, Uploading
  <1>23. CASE Unlink(w)
    BY <1>23 DEF Unlink, Goto, Points, Fetching, Uploading
  <1>24. CASE RecordUnlink(w)
    BY <1>24, Counted DEF RecordUnlink, Goto, Points, Fetching, Uploading
  <1>25. CASE CleanDone(w)
    BY <1>25 DEF CleanDone, Jump, Goto, Points, Fetching, Uploading
  <1>26. CASE HandleError(w)
    BY <1>26 DEF HandleError, Jump, Goto, Points, Fetching, Uploading
  <1>27. CASE Deploy(w)
    BY <1>27 DEF Deploy, Jump, Goto, Points, Fetching, Uploading
  <1>28. CASE OuterHandler(w)
    BY <1>28 DEF OuterHandler, Jump, Goto, Points, Fetching, Uploading
  <1>29. QED
    BY <1>1, <1>2, <1>3, <1>4, <1>5, <1>6, <1>7, <1>8, <1>9, <1>10, <1>11, <1>12, <1>13, <1>14, <1>15, <1>16, <1>17, <1>18, <1>19, <1>20, <1>21, <1>22, <1>23, <1>24, <1>25, <1>26, <1>27, <1>28 DEF WorkerStep

\* A runner's step keeps the rows and the disks in their types.
LEMMA DataStaysTyped ==
  ASSUME TypeOK, NEW w \in Workers, WorkerStep(w)
  PROVE  DataTyped'
PROOF
  <1> USE DEF TypeOK, DataTyped, jobVars, shardVars, diskVars
  <1> w \in Actors
    BY DEF Actors
  <1>1. CASE TransitionRead(w)
    BY <1>1 DEF TransitionRead
  <1>2. CASE TransitionWrite(w)
    BY <1>2 DEF TransitionWrite, WriteRow, Moves, Nothing, RequestsTyped
  <1>3. CASE TransitionRaises(w)
    BY <1>3 DEF TransitionRaises, Jump
  <1>4. CASE Load(w)
    BY <1>4 DEF Load, CreateRows, JobStatus, SourceStatus
  <1>5. CASE Choose(w)
    BY <1>5 DEF Choose, Jump
  <1>6. CASE SourcesDone(w)
    BY <1>6 DEF SourcesDone, Jump
  <1>7. CASE StartSource(w)
    BY <1>7 DEF StartSource, SourceStatus
  <1>8. CASE Download(w)
    BY <1>8, IndexInRange DEF Download, Fetching
  <1>9. CASE RecordSource(w)
    BY <1>9 DEF RecordSource, SourceStatus
  <1>10. CASE Inspect(w)
    BY <1>10 DEF Inspect, Jump
  <1>11. CASE ArtifactsDone(w)
    BY <1>11 DEF ArtifactsDone, Jump
  <1>12. CASE StartArtifact(w)
    BY <1>12 DEF StartArtifact, ArtifactStatus
  <1>13. CASE StartUpload(w)
    BY <1>13 DEF StartUpload, ArtifactStatus
  <1>14. CASE Commit(w)
    BY <1>14, IndexInRange DEF Commit, Uploading
  <1>15. CASE RecordCommit(w)
    BY <1>15 DEF RecordCommit, ArtifactStatus
  <1>16. CASE RecordUnlink(w)
    BY <1>16 DEF RecordUnlink, SourceStatus
  <1>17. CASE CleanDone(w)
    BY <1>17 DEF CleanDone, Jump
  <1>18. CASE HandleError(w)
    BY <1>18 DEF HandleError, Jump
  <1>19. CASE Deploy(w)
    BY <1>19 DEF Deploy, Jump
  <1>20. CASE OuterHandler(w)
    BY <1>20 DEF OuterHandler, Jump
  <1>21. CASE \/ HostPreflight(w)
              \/ Begin(w)
              \/ SkipSource(w)
              \/ Convert(w)
              \/ Verify(w)
              \/ SkipArtifact(w)
              \/ Clean(w)
              \/ Unlink(w)
    BY <1>21 DEF HostPreflight, Begin, SkipSource, Convert, Verify, SkipArtifact, Clean, Unlink
  <1>22. QED
    BY <1>1, <1>2, <1>3, <1>4, <1>5, <1>6, <1>7, <1>8, <1>9, <1>10, <1>11, <1>12, <1>13, <1>14, <1>15, <1>16, <1>17, <1>18, <1>19, <1>20, <1>21 DEF WorkerStep

\* A runner's step keeps pending moves and requests in their types.
LEMMA RequestsStayTyped ==
  ASSUME TypeOK, NEW w \in Workers, WorkerStep(w)
  PROVE  RequestsTyped'
PROOF
  <1> USE DEF TypeOK, RequestsTyped
  <1> w \in Actors
    BY DEF Actors
  <1>1. CASE TransitionRead(w)
    BY <1>1, TransitionTable DEF TransitionRead, ReadRow, Moves, DataTyped
  <1>2. CASE TransitionWrite(w)
    BY <1>2 DEF TransitionWrite, WriteRow, Moves
  <1>3. CASE TransitionRaises(w)
    BY <1>3 DEF TransitionRaises, Jump
  <1>4. CASE Choose(w)
    BY <1>4 DEF Choose, Jump
  <1>5. CASE SourcesDone(w)
    BY <1>5 DEF SourcesDone, Jump
  <1>6. CASE Inspect(w)
    BY <1>6 DEF Inspect, Jump
  <1>7. CASE ArtifactsDone(w)
    BY <1>7 DEF ArtifactsDone, Jump
  <1>8. CASE CleanDone(w)
    BY <1>8 DEF CleanDone, Jump
  <1>9. CASE HandleError(w)
    BY <1>9 DEF HandleError, Jump
  <1>10. CASE Deploy(w)
    BY <1>10 DEF Deploy, Jump
  <1>11. CASE OuterHandler(w)
    BY <1>11 DEF OuterHandler, Jump
  <1>12. CASE \/ HostPreflight(w)
              \/ Load(w)
              \/ Begin(w)
              \/ SkipSource(w)
              \/ StartSource(w)
              \/ Download(w)
              \/ RecordSource(w)
              \/ Convert(w)
              \/ Verify(w)
              \/ SkipArtifact(w)
              \/ StartArtifact(w)
              \/ StartUpload(w)
              \/ Commit(w)
              \/ RecordCommit(w)
              \/ Clean(w)
              \/ Unlink(w)
              \/ RecordUnlink(w)
    BY <1>12 DEF HostPreflight, Load, Begin, SkipSource, StartSource, Download, RecordSource, Convert, Verify, SkipArtifact, StartArtifact, StartUpload, Commit, RecordCommit, Clean, Unlink, RecordUnlink
  <1>13. QED
    BY <1>1, <1>2, <1>3, <1>4, <1>5, <1>6, <1>7, <1>8, <1>9, <1>10, <1>11, <1>12 DEF WorkerStep

\* A request changes the row, its own pending move and, at a launch, an idle
\* desktop runner.
LEMMA TypeOfUserStep ==
  ASSUME TypeOK, NEW u \in Users, UserStep(u)
  PROVE  TypeOK'
PROOF
  <1> USE DEF TypeOK, DataTyped, RequestsTyped
  <1> u \in Actors
    BY DEF Actors
  <1>1. CASE Pause(u)
    BY <1>1 DEF Pause, RequestMove, ReadRow, LegalMove, Moves, JobStatus, RunnersTyped, jobVars, shardVars, diskVars, runVars
  <1>2. CASE Cancel(u)
    BY <1>2 DEF Cancel, RequestMove, ReadRow, LegalMove, Moves, JobStatus, RunnersTyped, jobVars, shardVars, diskVars, runVars
  <1>3. CASE RequestWrite(u)
    BY <1>3 DEF RequestWrite, WriteRow, Moves, Nothing, RunnersTyped, jobVars, shardVars, diskVars, runVars
  <1>4. CASE PlanOnly(u)
    BY <1>4 DEF PlanOnly, JobStatus, RunnersTyped, jobVars, shardVars, diskVars, runVars
  <1>5. CASE AskConfirmation(u)
    BY <1>5 DEF AskConfirmation, ReadRow, LegalMove, Moves, JobStatus, RunnersTyped, jobVars, shardVars, diskVars, runVars
  <1>6. CASE Start(u)
    BY <1>6 DEF Start, JobStatus, RunnersTyped, jobVars, shardVars, diskVars, runVars
  <1>7. CASE Resume(u)
    BY <1>7 DEF Resume, RunnersTyped, jobVars, shardVars, diskVars, runVars
  <1>8. CASE Launch(u)
    <2>1. RunnersTyped'
      BY <1>8 DEF Launch, Goto, Workers, RunnersTyped, Points, Fetching, Uploading
    <2>2. QED
      BY <1>8, <2>1 DEF Launch, jobVars, shardVars, diskVars
  <1>9. QED
    BY <1>1, <1>2, <1>3, <1>4, <1>5, <1>6, <1>7, <1>8 DEF UserStep

LEMMA TypeOfCrash ==
  ASSUME TypeOK, NEW w \in Workers, Crash(w)
  PROVE  TypeOK'
PROOF
  <1>1. RunnersTyped'
    BY DEF TypeOK, RunnersTyped, Crash, Goto, Points, Fetching, Uploading
  <1>2. DataTyped'
    BY DEF TypeOK, DataTyped, Crash, jobVars, shardVars, diskVars
  <1>3. RequestsTyped'
    <2>1. asked' \in [Users -> {"none", "confirm", "launch"}] /\ crashes' \in Nat
      BY DEF TypeOK, RequestsTyped, Crash
    <2>2. move' \in [Actors -> Moves]
      BY DEF TypeOK, RequestsTyped, Crash, Moves
    <2>3. QED
      BY <2>1, <2>2 DEF RequestsTyped
  <1>4. QED
    BY <1>1, <1>2, <1>3 DEF TypeOK

LEMMA TypeOfCommandLineRun ==
  ASSUME TypeOK, NEW w \in Workers, CommandLineRun(w)
  PROVE  TypeOK'
PROOF
  <1>1. RunnersTyped'
    BY DEF TypeOK, RunnersTyped, CommandLineRun, Jump, Goto, Points, Fetching, Uploading
  <1>2. DataTyped' /\ RequestsTyped'
    BY DEF TypeOK, DataTyped, RequestsTyped, CommandLineRun, Jump
  <1>3. QED
    BY <1>1, <1>2 DEF TypeOK

LEMMA TypeOfInit == Init => TypeOK
PROOF
  <1> SUFFICES ASSUME Init PROVE TypeOK
    OBVIOUS
  <1>1. DataTyped
    BY PlansAssumption DEF Init, DataTyped, SourceStatus, ArtifactStatus
  <1>2. RunnersTyped
    BY DEF Init, RunnersTyped, Points, Fetching, Uploading
  <1>3. RequestsTyped
    BY DEF Init, RequestsTyped, Moves
  <1>4. QED
    BY <1>1, <1>2, <1>3 DEF TypeOK

LEMMA TypeOfNext == TypeOK /\ [Next]_vars => TypeOK'
PROOF
  <1> SUFFICES ASSUME TypeOK, [Next]_vars PROVE TypeOK'
    OBVIOUS
  <1>1. CASE \E w \in Workers : WorkerStep(w)
    BY <1>1, RunnersStayTyped, DataStaysTyped, RequestsStayTyped DEF TypeOK
  <1>2. CASE \E w \in Workers : Crash(w)
    BY <1>2, TypeOfCrash
  <1>3. CASE \E w \in Workers : CommandLineRun(w)
    BY <1>3, TypeOfCommandLineRun
  <1>4. CASE \E u \in Users : UserStep(u)
    BY <1>4, TypeOfUserStep
  <1>5. CASE UNCHANGED vars
    BY <1>5 DEF TypeOK, DataTyped, RunnersTyped, RequestsTyped, vars
  <1>6. QED
    BY <1>1, <1>2, <1>3, <1>4, <1>5 DEF Next

\* Every reachable state is typed, and no loop index leaves its list, whatever
\* the runners, requests and crashes.
THEOREM TypeCorrect == Spec => []TypeOK
PROOF BY TypeOfInit, TypeOfNext, PTL DEF Spec

-----------------------------------------------------------------------------
(* Source data outlives the cache only on the server. *)

\* What a step may do to the data the other runners rely on: artifacts stay on
\* the server, the plan stays, and a shard leaves the cache only at the end.
Kept ==
  /\ plan' = plan
  /\ \A a \in Artifacts : OnServer(a) => OnServer(a)'
  /\ files \subseteq files' \/ AllOnServer

LEMMA AllStaysOnServer == Kept /\ AllOnServer => AllOnServer'
PROOF BY DEF Kept, AllOnServer

\* What a runner knows stays true while it does not move.
LEMMA KnowledgeKept ==
  ASSUME TypeOK, NEW v \in Workers, RunnerKnows(v), Kept,
         at'[v] = at[v], item'[v] = item[v]
  PROVE  RunnerKnows(v)'
PROOF BY AllStaysOnServer, IndexInRange DEF RunnerKnows, Kept, Uploading

\* A runner leaves the others where they are and keeps what they rely on.
LEMMA WorkerKeeps ==
  ASSUME NEW w \in Workers, WorkerStep(w), TypeOK, RunnerKnows(w)
  PROVE  /\ Kept
         /\ \A v \in Workers \ {w} : at'[v] = at[v] /\ item'[v] = item[v]
PROOF
  <1> at \in [Workers -> Points] /\ item \in [Workers -> Nat \ {0}]
    BY DEF TypeOK, RunnersTyped
  <1> USE DEF Kept, jobVars, shardVars, diskVars, runVars, Goto
  <1>1. CASE TransitionRead(w)
    BY <1>1 DEF TransitionRead, OnServer
  <1>2. CASE TransitionWrite(w)
    BY <1>2 DEF TransitionWrite, OnServer
  <1>3. CASE Begin(w)
    BY <1>3 DEF Begin, Interrupt, StartLoop, OnServer
  <1>4. CASE StartSource(w)
    BY <1>4 DEF StartSource, Interrupt, OnServer
  <1>5. CASE Download(w)
    BY <1>5 DEF Download, OnServer
  <1>6. CASE Verify(w)
    BY <1>6 DEF Verify, StartLoop, OnServer
  <1>7. CASE StartArtifact(w)
    BY <1>7 DEF StartArtifact, Interrupt, NextItem, OnServer
  <1>8. CASE Commit(w)
    BY <1>8 DEF Commit, OnServer, TypeOK, DataTyped, RunnersTyped
  <1>9. CASE Clean(w)
    BY <1>9 DEF Clean, StartLoop, OnServer
  <1>10. CASE Unlink(w)
    BY <1>10 DEF Unlink, RunnerKnows, Uploaded, OnServer
  <1>11. CASE TransitionRaises(w) \/ HostPreflight(w) \/ Load(w)
            \/ Choose(w) \/ SourcesDone(w) \/ SkipSource(w)
            \/ RecordSource(w) \/ Inspect(w) \/ Convert(w)
            \/ ArtifactsDone(w) \/ SkipArtifact(w) \/ StartUpload(w)
            \/ RecordCommit(w) \/ RecordUnlink(w) \/ CleanDone(w)
            \/ HandleError(w) \/ Deploy(w) \/ OuterHandler(w)
    BY <1>11
       DEF TransitionRaises, HostPreflight, Load, Choose, SourcesDone,
           SkipSource, RecordSource, Inspect, Convert, ArtifactsDone,
           SkipArtifact, StartUpload, RecordCommit, RecordUnlink,
           CleanDone, HandleError, Deploy, OuterHandler, Jump, NextItem,
           OnServer
  <1>12. QED
    BY <1>1, <1>2, <1>3, <1>4, <1>5, <1>6, <1>7, <1>8, <1>9, <1>10, <1>11 DEF WorkerStep

\* What the runner itself knows after its step.
LEMMA WorkerLearns ==
  ASSUME NEW w \in Workers, WorkerStep(w), TypeOK, RunnerKnows(w), CommittedRowIsOnServer, Kept
  PROVE  RunnerKnows(w)'
PROOF
  <1> at \in [Workers -> Points] /\ item \in [Workers -> Nat \ {0}]
    BY DEF TypeOK, RunnersTyped
  <1> USE AllStaysOnServer, CountsAssumption DEF RunnerKnows, Kept, Goto, Uploading, Uploaded
  <1>1. CASE TransitionRead(w)
    BY <1>1, KnowledgeKept DEF TransitionRead, runVars
  <1>2. CASE TransitionWrite(w)
    BY <1>2, TransitionTargets DEF TransitionWrite
  <1>3. CASE TransitionRaises(w)
    BY <1>3, TransitionTargets DEF TransitionRaises, Jump
  <1>4. CASE HostPreflight(w)
    BY <1>4 DEF HostPreflight
  <1>5. CASE Load(w)
    BY <1>5 DEF Load
  <1>6. CASE Choose(w)
    BY <1>6, EntryTargets DEF Choose, Jump
  <1>7. CASE Begin(w)
    BY <1>7 DEF Begin, Interrupt
  <1>8. CASE SkipSource(w)
    BY <1>8 DEF SkipSource
  <1>9. CASE StartSource(w)
    BY <1>9 DEF StartSource, Interrupt
  <1>10. CASE Download(w)
    BY <1>10 DEF Download, Fetching
  <1>11. CASE RecordSource(w)
    BY <1>11 DEF RecordSource
  <1>12. CASE Verify(w)
    BY <1>12 DEF Verify, StartLoop, Artifacts
  <1>13. CASE ArtifactsDone(w)
    BY <1>13 DEF ArtifactsDone, Jump, AllOnServer, Artifacts
  <1>14. CASE SkipArtifact(w)
    BY <1>14 DEF SkipArtifact, CommittedRowIsOnServer, NextItem, Artifacts
  <1>15. CASE StartArtifact(w)
    BY <1>15 DEF StartArtifact, Interrupt, NextItem, Artifacts
  <1>16. CASE StartUpload(w)
    BY <1>16 DEF StartUpload
  <1>17. CASE Commit(w)
    BY <1>17, IndexInRange DEF Commit, OnServer, TypeOK, DataTyped, Roots, RootOf
  <1>18. CASE RecordCommit(w)
    BY <1>18 DEF RecordCommit, NextItem, Artifacts
  <1>19. CASE Clean(w)
    BY <1>19 DEF Clean
  <1>20. CASE Unlink(w)
    BY <1>20 DEF Unlink
  <1>21. CASE RecordUnlink(w)
    BY <1>21 DEF RecordUnlink
  <1>22. CASE SourcesDone(w) \/ Inspect(w) \/ Convert(w) \/ CleanDone(w)
            \/ HandleError(w) \/ Deploy(w) \/ OuterHandler(w)
    BY <1>22
       DEF SourcesDone, Inspect, Convert, CleanDone, HandleError, Deploy,
           OuterHandler, Jump
  <1>23. QED
    BY <1>1, <1>2, <1>3, <1>4, <1>5, <1>6, <1>7, <1>8, <1>9, <1>10, <1>11,
       <1>12, <1>13, <1>14, <1>15, <1>16, <1>17, <1>18, <1>19, <1>20,
       <1>21, <1>22 DEF WorkerStep

\* A row says committed only of what is on the server.
LEMMA RowsFollowServer ==
  ASSUME NEW w \in Workers, WorkerStep(w), TypeOK, RunnerKnows(w), CommittedRowIsOnServer, Kept
  PROVE  CommittedRowIsOnServer'
PROOF
  <1> USE DEF CommittedRowIsOnServer, Kept, TypeOK, DataTyped, shardVars
  <1>1. CASE StartArtifact(w)
    BY <1>1 DEF StartArtifact
  <1>2. CASE StartUpload(w)
    BY <1>2 DEF StartUpload
  <1>3. CASE RecordCommit(w)
    BY <1>3 DEF RecordCommit, RunnerKnows
  <1>4. CASE TransitionRead(w) \/ TransitionWrite(w)
            \/ TransitionRaises(w) \/ HostPreflight(w) \/ Load(w)
            \/ Choose(w) \/ Begin(w) \/ SourcesDone(w) \/ SkipSource(w)
            \/ StartSource(w) \/ Download(w) \/ RecordSource(w)
            \/ Inspect(w) \/ Convert(w) \/ Verify(w) \/ ArtifactsDone(w)
            \/ SkipArtifact(w) \/ Commit(w) \/ Clean(w) \/ Unlink(w)
            \/ RecordUnlink(w) \/ CleanDone(w) \/ HandleError(w)
            \/ Deploy(w) \/ OuterHandler(w)
    BY <1>4
       DEF TransitionRead, TransitionWrite, TransitionRaises,
           HostPreflight, Load, Choose, Begin, SourcesDone, SkipSource,
           StartSource, Download, RecordSource, Inspect, Convert, Verify,
           ArtifactsDone, SkipArtifact, Commit, Clean, Unlink,
           RecordUnlink, CleanDone, HandleError, Deploy, OuterHandler,
           Jump
  <1>5. QED
    BY <1>1, <1>2, <1>3, <1>4 DEF WorkerStep

\* Neither a shard recorded nor a shard deleted loses source data.
LEMMA SourcesStay ==
  ASSUME NEW w \in Workers, WorkerStep(w), TypeOK, RunnerKnows(w), NoSourceLost, Kept
  PROVE  NoSourceLost'
PROOF
  <1> USE AllStaysOnServer DEF NoSourceLost, SourceRecorded, Kept, TypeOK, DataTyped, shardVars
  <1>1. CASE TransitionWrite(w)
    BY <1>1 DEF TransitionWrite
  <1>2. CASE Load(w)
    BY <1>2 DEF Load, CreateRows
  <1>3. CASE StartSource(w)
    BY <1>3 DEF StartSource
  <1>4. CASE RecordSource(w)
    BY <1>4 DEF RecordSource, RunnerKnows, Uploading, Uploaded
  <1>5. CASE RecordUnlink(w)
    BY <1>5 DEF RecordUnlink, RunnerKnows, Uploaded
  <1>6. CASE TransitionRead(w) \/ TransitionRaises(w)
            \/ HostPreflight(w) \/ Choose(w) \/ Begin(w)
            \/ SourcesDone(w) \/ SkipSource(w) \/ Download(w)
            \/ Inspect(w) \/ Convert(w) \/ Verify(w) \/ ArtifactsDone(w)
            \/ SkipArtifact(w) \/ StartArtifact(w) \/ StartUpload(w)
            \/ Commit(w) \/ RecordCommit(w) \/ Clean(w) \/ Unlink(w)
            \/ CleanDone(w) \/ HandleError(w) \/ Deploy(w)
            \/ OuterHandler(w)
    BY <1>6
       DEF TransitionRead, TransitionRaises, HostPreflight, Choose, Begin,
           SourcesDone, SkipSource, Download, Inspect, Convert, Verify,
           ArtifactsDone, SkipArtifact, StartArtifact, StartUpload,
           Commit, RecordCommit, Clean, Unlink, CleanDone, HandleError,
           Deploy, OuterHandler, Jump
  <1>7. QED
    BY <1>1, <1>2, <1>3, <1>4, <1>5, <1>6 DEF WorkerStep

\* The row turns COMPLETED only after the last upload.
LEMMA CompletionIsHonest ==
  ASSUME NEW w \in Workers, WorkerStep(w), TypeOK, RunnerKnows(w), CompletedIsUploaded, OnlyFinishersComplete, Kept
  PROVE  CompletedIsUploaded'
PROOF
  <1> USE AllStaysOnServer DEF CompletedIsUploaded, Kept, jobVars
  <1>1. CASE TransitionWrite(w)
    BY <1>1 DEF TransitionWrite, WriteRow, OnlyFinishersComplete, RunnerKnows, Uploaded
  <1>2. CASE Load(w)
    BY <1>2 DEF Load, CreateRows
  <1>3. CASE TransitionRead(w) \/ TransitionRaises(w)
            \/ HostPreflight(w) \/ Choose(w) \/ Begin(w)
            \/ SourcesDone(w) \/ SkipSource(w) \/ StartSource(w)
            \/ Download(w) \/ RecordSource(w) \/ Inspect(w) \/ Convert(w)
            \/ Verify(w) \/ ArtifactsDone(w) \/ SkipArtifact(w)
            \/ StartArtifact(w) \/ StartUpload(w) \/ Commit(w)
            \/ RecordCommit(w) \/ Clean(w) \/ Unlink(w)
            \/ RecordUnlink(w) \/ CleanDone(w) \/ HandleError(w)
            \/ Deploy(w) \/ OuterHandler(w)
    BY <1>3
       DEF TransitionRead, TransitionRaises, HostPreflight, Choose, Begin,
           SourcesDone, SkipSource, StartSource, Download, RecordSource,
           Inspect, Convert, Verify, ArtifactsDone, SkipArtifact,
           StartArtifact, StartUpload, Commit, RecordCommit, Clean,
           Unlink, RecordUnlink, CleanDone, HandleError, Deploy,
           OuterHandler, Jump
  <1>4. QED
    BY <1>1, <1>2, <1>3 DEF WorkerStep

\* Between transitions a runner leaves the pending moves alone.
LEMMA MoveUntouched ==
  ASSUME NEW w \in Workers, WorkerStep(w), at[w] \notin DOMAIN TransitionAt
  PROVE  move' = move
PROOF
  <1>1. CASE TransitionRead(w) \/ TransitionWrite(w)
            \/ TransitionRaises(w) \/ HostPreflight(w) \/ Load(w)
            \/ Choose(w) \/ Begin(w) \/ SourcesDone(w) \/ SkipSource(w)
            \/ StartSource(w) \/ Download(w) \/ RecordSource(w)
            \/ Inspect(w) \/ Convert(w) \/ Verify(w) \/ ArtifactsDone(w)
            \/ SkipArtifact(w) \/ StartArtifact(w) \/ StartUpload(w)
            \/ Commit(w) \/ RecordCommit(w) \/ Clean(w) \/ Unlink(w)
            \/ RecordUnlink(w) \/ CleanDone(w) \/ HandleError(w)
            \/ Deploy(w) \/ OuterHandler(w)
    BY <1>1
       DEF TransitionRead, TransitionWrite, TransitionRaises,
           HostPreflight, Load, Choose, Begin, SourcesDone, SkipSource,
           StartSource, Download, RecordSource, Inspect, Convert, Verify,
           ArtifactsDone, SkipArtifact, StartArtifact, StartUpload,
           Commit, RecordCommit, Clean, Unlink, RecordUnlink, CleanDone,
           HandleError, Deploy, OuterHandler, Jump
  <1>2. QED
    BY <1>1 DEF WorkerStep

\* Only a runner at its last transition is about to complete the job.
LEMMA FinishersOnly ==
  ASSUME NEW w \in Workers, WorkerStep(w), TypeOK, OnlyFinishersComplete,
         \A v \in Workers \ {w} : at'[v] = at[v]
  PROVE  OnlyFinishersComplete'
PROOF
  <1>0. w \in Actors /\ w \notin Users
    BY ActorsAssumption DEF Actors
  <1>1. "completing" \in DOMAIN TransitionAt
    BY DEF TransitionAt
  <1>2. CASE at[w] \notin DOMAIN TransitionAt
    <2>1. move' = move
      BY <1>2, MoveUntouched
    <2>2. at[w] # "completing"
      BY <1>1, <1>2
    <2>3. QED
      BY <2>1, <2>2 DEF OnlyFinishersComplete
  <1>3. CASE TransitionRead(w)
    BY <1>0, <1>3, CompletingTable
       DEF TransitionRead, ReadRow, runVars, OnlyFinishersComplete, TypeOK,
           RequestsTyped, Actors
  <1>4. CASE TransitionWrite(w)
    BY <1>0, <1>4
       DEF TransitionWrite, WriteRow, Nothing, OnlyFinishersComplete, TypeOK,
           RequestsTyped, Actors
  <1>5. CASE TransitionRaises(w)
    BY <1>0, <1>5
       DEF TransitionRaises, Jump, Nothing, OnlyFinishersComplete
  <1>6. at[w] \in DOMAIN TransitionAt =>
          TransitionRead(w) \/ TransitionWrite(w) \/ TransitionRaises(w)
    <2> USE DEF WorkerStep, TransitionAt
    <2> QED
      BY DEF HostPreflight, Load, Choose, Begin, SourcesDone, SkipSource,
             StartSource, Download, RecordSource, Inspect, Convert, Verify,
             ArtifactsDone, SkipArtifact, StartArtifact, StartUpload, Commit,
             RecordCommit, Clean, Unlink, RecordUnlink, CleanDone, HandleError,
             Deploy, OuterHandler
  <1>7. QED
    BY <1>2, <1>3, <1>4, <1>5, <1>6

\* A runner's step keeps the invariant.
LEMMA UploadInvOfWorkerStep ==
  ASSUME NEW w \in Workers, WorkerStep(w), TypeOK, UploadInv
  PROVE  UploadInv'
PROOF
  <1>1. RunnerKnows(w)
    BY DEF UploadInv
  <1>2. Kept /\ \A v \in Workers \ {w} : at'[v] = at[v] /\ item'[v] = item[v]
    BY <1>1, WorkerKeeps
  <1>3. CommittedRowIsOnServer' /\ NoSourceLost' /\ CompletedIsUploaded'
    BY <1>1, <1>2, RowsFollowServer, SourcesStay, CompletionIsHonest DEF UploadInv
  <1>4. OnlyFinishersComplete'
    BY <1>2, FinishersOnly DEF UploadInv
  <1>5. RunnerKnows(w)'
    BY <1>1, <1>2, WorkerLearns DEF UploadInv
  <1>6. ASSUME NEW v \in Workers PROVE RunnerKnows(v)'
    <2>1. CASE v = w
      BY <2>1, <1>5
    <2>2. CASE v # w
      BY <2>2, <1>2, KnowledgeKept DEF UploadInv
    <2>3. QED
      BY <2>1, <2>2
  <1>7. QED
    BY <1>3, <1>4, <1>6 DEF UploadInv

\* A request moves no runner that works, and completes no job.
LEMMA UploadInvOfUserStep ==
  ASSUME NEW u \in Users, UserStep(u), TypeOK, UploadInv
  PROVE  UploadInv'
PROOF
  <1>0. u \in Actors /\ u \notin Workers /\ Workers \subseteq Actors
    BY ActorsAssumption DEF Actors
  <1>1. /\ plan' = plan /\ art' = art /\ remote' = remote /\ item' = item
        /\ files' = files /\ shard' = shard
    BY DEF UserStep, Pause, Cancel, RequestMove, RequestWrite, PlanOnly,
           AskConfirmation, Start, Resume, Launch, shardVars, diskVars, runVars
  <1>2. /\ \A a \in Artifacts : OnServer(a)' = OnServer(a)
        /\ AllOnServer' = AllOnServer
        /\ Kept
    BY <1>1 DEF OnServer, AllOnServer, Kept
  <1>3. CommittedRowIsOnServer' /\ NoSourceLost'
    BY <1>1, <1>2 DEF UploadInv, CommittedRowIsOnServer, NoSourceLost, SourceRecorded
  <1>4. move[u].to # "COMPLETED"
    BY DEF UploadInv, OnlyFinishersComplete
  <1>5. row' # "COMPLETED" \/ row' = row
    BY <1>4
       DEF UserStep, Pause, Cancel, RequestMove, RequestWrite, WriteRow, PlanOnly,
           AskConfirmation, Start, Resume, Launch, jobVars
  <1>6. CompletedIsUploaded'
    BY <1>1, <1>2, <1>5 DEF UploadInv, CompletedIsUploaded
  <1>7. ASSUME NEW v \in Workers
        PROVE  /\ RunnerKnows(v)'
               /\ move[v].to = "COMPLETED" => at'[v] = "completing"
    <2>1. CASE at' = at
      BY <1>1, <1>2, <2>1, KnowledgeKept DEF UploadInv, OnlyFinishersComplete
    <2>2. CASE at' # at
      <3>1. Launch(u)
        BY <2>2 DEF UserStep, Pause, Cancel, RequestMove, RequestWrite, PlanOnly,
                    AskConfirmation, Start, Resume, runVars
      <3>2. at'[v] = at[v] \/ (at[v] = "idle" /\ at'[v] \in {"host", "load"})
        BY <3>1 DEF Launch, DesktopBusy, Goto, TypeOK, RunnersTyped, Workers
      <3>3. CASE at'[v] = at[v]
        BY <1>1, <1>2, <3>3, KnowledgeKept DEF UploadInv, OnlyFinishersComplete
      <3>4. CASE at[v] = "idle" /\ at'[v] \in {"host", "load"}
        BY <3>4 DEF RunnerKnows, Uploading, Uploaded, UploadInv, OnlyFinishersComplete
      <3>5. QED
        BY <3>2, <3>3, <3>4
    <2>3. QED
      BY <2>1, <2>2
  <1>8. /\ \A v \in Workers : move'[v] = move[v]
        /\ \A v \in Users : move'[v].to # "COMPLETED"
    <2> USE <1>0 DEF TypeOK, RequestsTyped, Actors, UploadInv, OnlyFinishersComplete
    <2>1. CASE RequestWrite(u)
      BY <2>1 DEF RequestWrite, WriteRow, Nothing
    <2>2. CASE Pause(u) \/ Cancel(u) \/ AskConfirmation(u)
      BY <2>2 DEF Pause, Cancel, RequestMove, AskConfirmation, ReadRow
    <2>3. CASE PlanOnly(u) \/ Start(u) \/ Resume(u) \/ Launch(u)
      BY <2>3 DEF PlanOnly, Start, Resume, Launch
    <2>4. QED
      BY <2>1, <2>2, <2>3 DEF UserStep
  <1>9. QED
    BY <1>3, <1>6, <1>7, <1>8 DEF UploadInv, OnlyFinishersComplete

\* A crash forgets a runner's position and its pending move; a command line
\* starts from nothing.
LEMMA UploadInvOfCrash ==
  ASSUME NEW w \in Workers, Crash(w) \/ CommandLineRun(w), TypeOK, UploadInv
  PROVE  UploadInv'
PROOF
  <1>0. w \in Actors /\ w \notin Users
    BY ActorsAssumption DEF Actors
  <1>1. /\ plan' = plan /\ art' = art /\ remote' = remote /\ item' = item
        /\ files' = files /\ shard' = shard /\ row' = row
        /\ \A v \in Workers \ {w} : at'[v] = at[v]
        /\ at'[w] \in {"idle", "load"}
    BY DEF Crash, CommandLineRun, Jump, Goto, jobVars, shardVars, diskVars, TypeOK,
           RunnersTyped
  <1>2. /\ \A a \in Artifacts : OnServer(a)' = OnServer(a)
        /\ AllOnServer' = AllOnServer
        /\ Kept
    BY <1>1 DEF OnServer, AllOnServer, Kept
  <1>3. CommittedRowIsOnServer' /\ NoSourceLost' /\ CompletedIsUploaded'
    BY <1>1, <1>2
       DEF UploadInv, CommittedRowIsOnServer, NoSourceLost, SourceRecorded,
           CompletedIsUploaded
  <1>4. ASSUME NEW v \in Workers PROVE RunnerKnows(v)'
    <2>1. CASE v = w
      BY <1>1, <2>1 DEF RunnerKnows, Uploading, Uploaded
    <2>2. CASE v # w
      BY <1>1, <1>2, <2>2, KnowledgeKept DEF UploadInv
    <2>3. QED
      BY <2>1, <2>2
  <1>5. move'[w].to # "COMPLETED"
    BY <1>0 DEF Crash, CommandLineRun, Jump, Nothing, UploadInv, OnlyFinishersComplete,
                TypeOK, RequestsTyped
  <1>6. \A a \in Actors \ {w} : move'[a] = move[a]
    BY DEF Crash, CommandLineRun, Jump, TypeOK, RequestsTyped
  <1>7. OnlyFinishersComplete'
    BY <1>0, <1>1, <1>5, <1>6 DEF OnlyFinishersComplete, UploadInv, Actors
  <1>8. QED
    BY <1>3, <1>4, <1>7 DEF UploadInv

LEMMA UploadInvOfInit == Init => UploadInv
PROOF
  <1> SUFFICES ASSUME Init PROVE UploadInv
    OBVIOUS
  <1>1. CommittedRowIsOnServer /\ NoSourceLost /\ CompletedIsUploaded
    BY DEF Init, CommittedRowIsOnServer, NoSourceLost, SourceRecorded,
           CompletedIsUploaded, NoRow, NoJob
  <1>2. OnlyFinishersComplete
    BY DEF Init, OnlyFinishersComplete, Nothing, Actors
  <1>3. ASSUME NEW w \in Workers PROVE RunnerKnows(w)
    BY DEF Init, RunnerKnows, Uploading, Uploaded
  <1>4. QED
    BY <1>1, <1>2, <1>3 DEF UploadInv

LEMMA UploadInvOfNext == TypeOK /\ UploadInv /\ [Next]_vars => UploadInv'
PROOF
  <1> SUFFICES ASSUME TypeOK, UploadInv, [Next]_vars PROVE UploadInv'
    OBVIOUS
  <1>1. CASE \E w \in Workers : WorkerStep(w)
    BY <1>1, UploadInvOfWorkerStep
  <1>2. CASE \E w \in Workers : Crash(w) \/ CommandLineRun(w)
    BY <1>2, UploadInvOfCrash
  <1>3. CASE \E u \in Users : UserStep(u)
    BY <1>3, UploadInvOfUserStep
  <1>4. CASE UNCHANGED vars
    BY <1>4
       DEF UploadInv, CommittedRowIsOnServer, NoSourceLost, SourceRecorded,
           CompletedIsUploaded, OnlyFinishersComplete, RunnerKnows, OnServer,
           AllOnServer, vars
  <1>5. QED
    BY <1>1, <1>2, <1>3, <1>4 DEF Next

\* The inductive invariant holds for any number of runners and requests.
THEOREM UploadInvariant == Spec => []UploadInv
PROOF BY UploadInvOfInit, UploadInvOfNext, TypeCorrect, PTL DEF Spec

\* No interleaving of runners, requests and crashes loses source data: a shard
\* the rows call present is in the cache or the whole package is uploaded.
THEOREM SourcesAreSafe == Spec => []NoSourceLost
PROOF
  <1>1. UploadInv => NoSourceLost
    BY DEF UploadInv
  <1>2. QED
    BY <1>1, UploadInvariant, PTL

\* No direct-deploy job is ever COMPLETED with an artifact missing remotely.
THEOREM CompletionIsUploaded == Spec => []CompletedIsUploaded
PROOF
  <1>1. UploadInv => CompletedIsUploaded
    BY DEF UploadInv
  <1>2. QED
    BY <1>1, UploadInvariant, PTL

\* An artifact's row never runs ahead of the server.
THEOREM CommittedRowsAreOnServer == Spec => []CommittedRowIsOnServer
PROOF
  <1>1. UploadInv => CommittedRowIsOnServer
    BY DEF UploadInv
  <1>2. QED
    BY <1>1, UploadInvariant, PTL
-----------------------------------------------------------------------------
(* With the desktop as the only runner: rest and deployability. *)

\* The calls of transition_job that pause and complete a job end the work.
LEMMA TransitionRows ==
  \A p \in DOMAIN TransitionAt :
    /\ TransitionAt[p].to = "PAUSED" => TransitionAt[p].then = "outer"
    /\ TransitionAt[p].to = "COMPLETED" => p = "completing" /\ TransitionAt[p].then = "deploy"
    /\ p = "completing" => TransitionAt[p].to = "COMPLETED" /\ TransitionAt[p].then = "deploy"
    /\ p = "confirm" => TransitionAt[p].to = "AWAITING_CONFIRMATION"
    /\ TransitionAt[p].then = "idle" => p = "outerfailing"
PROOF BY DEF TransitionAt, Call

\* A step belongs to a runner that is in the job, and moves no other.
LEMMA StepIsOwn ==
  ASSUME TypeOK, NEW w \in Workers, WorkerStep(w)
  PROVE  /\ at[w] # "idle"
         /\ plan' = plan
         /\ \A v \in Workers \ {w} : at'[v] = at[v]
PROOF
  <1> at \in [Workers -> Points]
    BY DEF TypeOK, RunnersTyped
  <1> USE TransitionTargets DEF Goto, Jump, Interrupt, runVars
  <1>1. CASE TransitionRead(w) \/ TransitionWrite(w) \/ TransitionRaises(w)
    BY <1>1 DEF TransitionRead, TransitionWrite, TransitionRaises
  <1>2. CASE HostPreflight(w) \/ Load(w) \/ Choose(w) \/ Begin(w) \/ SourcesDone(w)
            \/ SkipSource(w) \/ StartSource(w) \/ Download(w) \/ RecordSource(w)
            \/ Inspect(w) \/ Convert(w) \/ Verify(w)
    BY <1>2
       DEF HostPreflight, Load, Choose, Begin, SourcesDone, SkipSource, StartSource,
           Download, RecordSource, Inspect, Convert, Verify
  <1>3. CASE ArtifactsDone(w) \/ SkipArtifact(w) \/ StartArtifact(w) \/ StartUpload(w)
            \/ Commit(w) \/ RecordCommit(w) \/ Clean(w) \/ Unlink(w) \/ RecordUnlink(w)
            \/ CleanDone(w) \/ HandleError(w) \/ Deploy(w) \/ OuterHandler(w)
    BY <1>3
       DEF ArtifactsDone, SkipArtifact, StartArtifact, StartUpload, Commit, RecordCommit,
           Clean, Unlink, RecordUnlink, CleanDone, HandleError, Deploy, OuterHandler
  <1>4. QED
    BY <1>1, <1>2, <1>3 DEF WorkerStep

\* At the call of transition_job a runner can only read, write or see it raise;
\* the row changes by the write, and by the creation of a row that is missing.
LEMMA RowWriters ==
  ASSUME NEW w \in Workers, WorkerStep(w)
  PROVE  /\ at[w] \in DOMAIN TransitionAt =>
              TransitionRead(w) \/ TransitionWrite(w) \/ TransitionRaises(w)
         /\ row' = row \/ TransitionWrite(w) \/ row' = "CREATED"
PROOF
  <1>1. at[w] \in DOMAIN TransitionAt =>
          TransitionRead(w) \/ TransitionWrite(w) \/ TransitionRaises(w)
    BY DEF WorkerStep, TransitionAt, HostPreflight, Load, Choose, Begin, SourcesDone,
           SkipSource, StartSource, Download, RecordSource, Inspect, Convert, Verify,
           ArtifactsDone, SkipArtifact, StartArtifact, StartUpload, Commit, RecordCommit,
           Clean, Unlink, RecordUnlink, CleanDone, HandleError, Deploy, OuterHandler
  <1>2. row' = row \/ TransitionWrite(w) \/ row' = "CREATED"
    BY DEF WorkerStep, TransitionRead, TransitionRaises, HostPreflight, Load, CreateRows,
           Choose, Begin, SourcesDone, SkipSource, StartSource, Download, RecordSource,
           Inspect, Convert, Verify, ArtifactsDone, SkipArtifact, StartArtifact,
           StartUpload, Commit, RecordCommit, Clean, Unlink, RecordUnlink, CleanDone,
           HandleError, Deploy, OuterHandler, Jump, jobVars
  <1>3. QED
    BY <1>1, <1>2

\* A runner that writes the row writes what its point asks for.
LEMMA WritesOwnMove ==
  ASSUME NEW w \in Workers, TransitionWrite(w), MovesAreOwn
  PROVE  /\ row' = TransitionAt[at[w]].to
         /\ at[w] \in DOMAIN TransitionAt
PROOF BY DEF TransitionWrite, WriteRow, MovesAreOwn

\* Where a runner goes that neither works nor is about to write the row.
LEMMA RestingSteps ==
  ASSUME TypeOK, NEW w \in Workers, WorkerStep(w), ~TransitionWrite(w),
         at[w] \notin Working
  PROVE  /\ row = "PAUSED" => at'[w] \notin Working
         /\ (row = "COMPLETED"
             /\ at[w] \in {"idle", "host", "load", "choose", "deploy", "outer"}) =>
                at'[w] \in {"idle", "host", "load", "choose", "deploy", "outer"}
PROOF
  <1> at \in [Workers -> Points]
    BY DEF TypeOK, RunnersTyped
  <1> USE DEF Goto, Jump, Working
  <1>1. CASE TransitionRead(w)
    BY <1>1, TransitionTargets DEF TransitionRead, runVars
  <1>2. CASE TransitionRaises(w)
    BY <1>2, TransitionTargets DEF TransitionRaises
  <1>3. CASE HostPreflight(w) \/ Load(w)
    BY <1>3 DEF HostPreflight, Load
  <1>4. CASE Choose(w)
    BY <1>4 DEF Choose, Entry
  <1>5. CASE HandleError(w) \/ Deploy(w) \/ OuterHandler(w)
    BY <1>5 DEF HandleError, Deploy, OuterHandler, Settled
  <1>6. QED
    BY <1>1, <1>2, <1>3, <1>4, <1>5
       DEF WorkerStep, Begin, SourcesDone, SkipSource, StartSource, Download,
           RecordSource, Inspect, Convert, Verify, ArtifactsDone, SkipArtifact,
           StartArtifact, StartUpload, Commit, RecordCommit, Clean, Unlink,
           RecordUnlink, CleanDone

\* What a runner has read for belongs to its point.
LEMMA OwnMoves ==
  ASSUME TypeOK, NEW w \in Workers, WorkerStep(w), MovesAreOwn
  PROVE  MovesAreOwn'
PROOF
  <1>0. w \in Actors /\ w \notin Users /\ Workers \subseteq Actors /\ Users \subseteq Actors
    BY ActorsAssumption DEF Actors
  <1>1. \A v \in Workers \ {w} : at'[v] = at[v]
    BY StepIsOwn
  <1>2. CASE at[w] \notin DOMAIN TransitionAt
    <2>1. move' = move /\ move[w] = Nothing
      BY <1>2, MoveUntouched DEF MovesAreOwn
    <2>2. QED
      BY <1>1, <2>1 DEF MovesAreOwn
  <1>3. CASE TransitionRead(w)
    BY <1>0, <1>3
       DEF TransitionRead, ReadRow, runVars, MovesAreOwn, TypeOK, RequestsTyped
  <1>4. CASE TransitionWrite(w)
    BY <1>0, <1>1, <1>4
       DEF TransitionWrite, WriteRow, MovesAreOwn, TypeOK, RequestsTyped
  <1>5. CASE TransitionRaises(w)
    BY <1>0, <1>1, <1>5 DEF TransitionRaises, Jump, MovesAreOwn
  <1>6. QED
    BY <1>2, <1>3, <1>4, <1>5, RowWriters

\* The row says PAUSED only of a job nobody works on, COMPLETED only of one that
\* is over.
LEMMA RestKept ==
  ASSUME TypeOK, NEW w \in Workers, WorkerStep(w), SoleRunner, MovesAreOwn,
         PausedIsQuiescent, CompletedIsOver
  PROVE  PausedIsQuiescent' /\ CompletedIsOver'
PROOF
  <1>1. /\ \A v \in Workers \ {w} : at[v] = "idle" /\ at'[v] = "idle"
        /\ at[w] # "idle" /\ w \in DOMAIN at'
    <2>1. \A v \in Workers \ {w} : at[v] = "idle" /\ at'[v] = at[v]
      BY StepIsOwn DEF SoleRunner
    <2>2. TypeOK'
      BY TypeOfNext DEF Next
    <2>3. QED
      BY <2>1, <2>2, StepIsOwn DEF TypeOK, RunnersTyped
  <1>2. CASE TransitionWrite(w)
    <2>1. row' = TransitionAt[at[w]].to /\ at[w] \in DOMAIN TransitionAt
      BY <1>2, WritesOwnMove
    <2>2. at'[w] = TransitionAt[at[w]].then
      BY <1>2 DEF TransitionWrite, Goto, TypeOK, RunnersTyped
    <2>3. QED
      BY <1>1, <2>1, <2>2, TransitionRows DEF PausedIsQuiescent, CompletedIsOver, Working
  <1>3. CASE ~TransitionWrite(w)
    <2>1. row' = row \/ row' = "CREATED"
      BY <1>3, RowWriters
    <2>2. row' = "PAUSED" => at[w] \notin Working /\ row = "PAUSED"
      BY <2>1 DEF PausedIsQuiescent
    <2>3. row' = "COMPLETED" => /\ at[w] \notin Working /\ row = "COMPLETED"
                               /\ at[w] \in {"idle", "host", "load", "choose", "deploy", "outer"}
      BY <2>1 DEF CompletedIsOver, Working
    <2>4. QED
      BY <1>1, <1>3, <2>2, <2>3, RestingSteps DEF PausedIsQuiescent, CompletedIsOver, Working
  <1>4. QED
    BY <1>2, <1>3

\* An artifact recorded as committed is below the root the desktop deploys from.
LEMMA DeliveryRecorded ==
  ASSUME TypeOK, NEW w \in Workers, WorkerStep(w), RecordedIsDelivered, RunnerDelivers(w)
  PROVE  RecordedIsDelivered' /\ remote["incoming"] \subseteq remote'["incoming"]
PROOF
  <1> remote \in [Roots -> SUBSET Artifacts] /\ "incoming" \in Roots
      /\ art \in [Artifacts -> ArtifactStatus]
    BY DEF TypeOK, DataTyped, Roots
  <1> USE DEF RecordedIsDelivered, shardVars, diskVars
  <1>1. CASE StartArtifact(w)
    BY <1>1 DEF StartArtifact
  <1>2. CASE StartUpload(w)
    BY <1>2 DEF StartUpload
  <1>3. CASE RecordCommit(w)
    BY <1>3 DEF RecordCommit, RunnerDelivers
  <1>4. CASE Commit(w)
    BY <1>4 DEF Commit
  <1>5. CASE TransitionRead(w) \/ TransitionWrite(w)
            \/ TransitionRaises(w) \/ HostPreflight(w) \/ Load(w)
            \/ Choose(w) \/ Begin(w) \/ SourcesDone(w) \/ SkipSource(w)
            \/ StartSource(w) \/ Download(w) \/ RecordSource(w)
            \/ Inspect(w) \/ Convert(w) \/ Verify(w) \/ ArtifactsDone(w)
            \/ SkipArtifact(w) \/ Clean(w) \/ Unlink(w)
            \/ RecordUnlink(w) \/ CleanDone(w) \/ HandleError(w)
            \/ Deploy(w) \/ OuterHandler(w)
    BY <1>5
       DEF TransitionRead, TransitionWrite, TransitionRaises,
           HostPreflight, Load, Choose, Begin, SourcesDone, SkipSource,
           StartSource, Download, RecordSource, Inspect, Convert, Verify,
           ArtifactsDone, SkipArtifact, Clean, Unlink,
           RecordUnlink, CleanDone, HandleError, Deploy, OuterHandler,
           Jump
  <1>6. QED
    BY <1>1, <1>2, <1>3, <1>4, <1>5 DEF WorkerStep

\* What a desktop runner has uploaded and recorded stays so while it goes on.
LEMMA RunnerDelivering ==
  ASSUME TypeOK, CommandLine = {}, NEW w \in Workers, WorkerStep(w), RunnerDelivers(w),
         remote["incoming"] \subseteq remote'["incoming"]
  PROVE  RunnerDelivers(w)'
PROOF
  <1> at \in [Workers -> Points] /\ item \in [Workers -> Nat \ {0}]
      /\ art \in [Artifacts -> ArtifactStatus]
    BY DEF TypeOK, RunnersTyped, DataTyped
  <1> USE CountsAssumption DEF RunnerDelivers, Goto, Uploading, Uploaded, shardVars
  <1>1. CASE TransitionRead(w)
    BY <1>1 DEF TransitionRead, runVars, diskVars
  <1>2. CASE TransitionWrite(w)
    BY <1>2, TransitionTargets DEF TransitionWrite
  <1>3. CASE TransitionRaises(w)
    BY <1>3, TransitionTargets DEF TransitionRaises, Jump
  <1>4. CASE HostPreflight(w) \/ Load(w)
    BY <1>4 DEF HostPreflight, Load
  <1>5. CASE Choose(w)
    BY <1>5, EntryTargets DEF Choose, Jump
  <1>6. CASE Begin(w)
    BY <1>6 DEF Begin, Interrupt
  <1>7. CASE SkipSource(w) \/ StartSource(w) \/ Download(w) \/ RecordSource(w)
    BY <1>7 DEF SkipSource, StartSource, Download, RecordSource, Interrupt
  <1>8. CASE Verify(w)
    BY <1>8 DEF Verify, StartLoop, Artifacts
  <1>9. CASE ArtifactsDone(w)
    BY <1>9 DEF ArtifactsDone, Jump, Artifacts
  <1>10. CASE SkipArtifact(w)
    BY <1>10 DEF SkipArtifact, NextItem, Artifacts
  <1>11. CASE StartArtifact(w)
    BY <1>11 DEF StartArtifact, Interrupt, NextItem, Artifacts
  <1>12. CASE StartUpload(w)
    BY <1>12 DEF StartUpload, Artifacts
  <1>13. CASE Commit(w)
    <2>1. RootOf(w) = "incoming" /\ w \in Desktop
      BY DEF RootOf, Workers
    <2>2. at'[w] = "committed" => item[w] \in remote'["incoming"]
      BY <1>13, <2>1 DEF Commit, TypeOK, DataTyped, Roots
    <2>3. QED
      BY <1>13, <2>2 DEF Commit
  <1>14. CASE RecordCommit(w)
    BY <1>14 DEF RecordCommit, NextItem, Artifacts
  <1>15. CASE Clean(w) \/ Unlink(w) \/ RecordUnlink(w)
    BY <1>15 DEF Clean, Unlink, RecordUnlink
  <1>16. CASE SourcesDone(w) \/ Inspect(w) \/ Convert(w) \/ CleanDone(w)
            \/ HandleError(w) \/ Deploy(w) \/ OuterHandler(w)
    BY <1>16
       DEF SourcesDone, Inspect, Convert, CleanDone, HandleError, Deploy,
           OuterHandler, Jump
  <1>17. QED
    BY <1>1, <1>2, <1>3, <1>4, <1>5, <1>6, <1>7, <1>8, <1>9, <1>10, <1>11,
       <1>12, <1>13, <1>14, <1>15, <1>16 DEF WorkerStep

\* A completed job stays deployable: its runner has delivered everything, and who comes
\* later leaves its rows alone, and its result too unless it reports a preflight.
LEMMA DeployableKept ==
  ASSUME TypeOK, NEW w \in Workers, WorkerStep(w), SoleRunner, MovesAreOwn, CompletedIsOver,
         CompletedIsDeployable, RecordedIsDelivered, RecordedIsDelivered', RunnerDelivers(w)
  PROVE  CompletedIsDeployable'
PROOF
  <1>0. plan' = plan
    BY StepIsOwn
  <1>1. CASE TransitionWrite(w)
    <2>1. row' = TransitionAt[at[w]].to /\ at[w] \in DOMAIN TransitionAt
      BY <1>1, WritesOwnMove
    <2>2. row' = "COMPLETED" => at[w] = "completing"
      BY <2>1, TransitionRows
    <2>3. /\ row' = "COMPLETED" => result'
          /\ art' = art
      BY <1>1 DEF TransitionWrite, WriteRow, shardVars
    <2>4. QED
      BY <1>0, <2>2, <2>3 DEF CompletedIsDeployable, RunnerDelivers, Uploaded, RecordedIsDelivered
  <1>2. CASE ~TransitionWrite(w) /\ row' = "COMPLETED"
    <2>1. row = "COMPLETED"
      BY <1>2, RowWriters
    <2>2. at[w] \in {"idle", "host", "load", "choose", "deploy", "outer"}
      BY <2>1 DEF CompletedIsOver
    <2>3. HostPreflight(w) \/ Load(w) \/ Choose(w) \/ Deploy(w) \/ OuterHandler(w)
      BY <1>2, <2>2
         DEF WorkerStep, TransitionRead, TransitionRaises, TransitionAt, Begin, SourcesDone,
             SkipSource, StartSource, Download, RecordSource, Inspect, Convert, Verify,
             ArtifactsDone, SkipArtifact, StartArtifact, StartUpload, Commit, RecordCommit,
             Clean, Unlink, RecordUnlink, CleanDone, HandleError
    <2>4. /\ art' = art /\ remote' = remote
          /\ HostPreflight(w) \/ (result' = result /\ replaced' = replaced)
      BY <2>3
         DEF HostPreflight, Load, Choose, Deploy, OuterHandler, Jump, shardVars, diskVars
    <2>5. CASE HostPreflight(w)
      <3>1. plan.sink
        BY <2>5 DEF HostPreflight, RunnerDelivers
      <3>2. result' \/ replaced'
        BY <2>1, <2>5 DEF HostPreflight, CompletedIsDeployable
      <3>3. QED
        BY <1>0, <2>1, <2>4, <3>1, <3>2 DEF CompletedIsDeployable
    <2>6. QED
      BY <1>0, <2>1, <2>4, <2>5 DEF CompletedIsDeployable
  <1>3. QED
    BY <1>1, <1>2 DEF CompletedIsDeployable

LEMMA DesktopInvOfWorkerStep ==
  ASSUME CommandLine = {}, NEW w \in Workers, WorkerStep(w), TypeOK, DesktopInv
  PROVE  DesktopInv'
PROOF
  <1> USE DEF DesktopInv
  <1>1. at[w] # "idle" /\ plan' = plan /\ \A v \in Workers \ {w} : at'[v] = at[v]
    BY StepIsOwn
  <1>2. \A v \in Workers \ {w} : at[v] = "idle" /\ at'[v] = "idle"
    BY <1>1 DEF SoleRunner
  <1>3. SoleRunner'
    BY <1>2 DEF SoleRunner
  <1>4. MovesAreOwn'
    BY OwnMoves
  <1>5. PausedIsQuiescent' /\ CompletedIsOver'
    BY RestKept
  <1>6. RecordedIsDelivered' /\ remote["incoming"] \subseteq remote'["incoming"]
    BY DeliveryRecorded
  <1>7. CompletedIsDeployable'
    BY <1>6, DeployableKept
  <1>8. RunnerDelivers(w)'
    BY <1>6, RunnerDelivering
  <1>9. \A v \in Workers \ {w} : RunnerDelivers(v)'
    BY <1>2 DEF RunnerDelivers, Uploading, Uploaded
  <1>10. QED
    BY <1>3, <1>4, <1>5, <1>6, <1>7, <1>8, <1>9

\* What a request may change: the row, but never to PAUSED or COMPLETED, its own
\* pending move, and at a launch a desktop runner that is idle as all others are.
LEMMA DesktopInvOfUserStep ==
  ASSUME CommandLine = {}, NEW u \in Users, UserStep(u), TypeOK, DesktopInv
  PROVE  DesktopInv'
PROOF
  <1> USE DEF DesktopInv
  <1>0. u \in Actors /\ u \notin Workers /\ Workers \subseteq Actors /\ Users \subseteq Actors
        /\ Workers = Desktop
    BY ActorsAssumption DEF Actors, Workers
  <1>1. plan' = plan /\ art' = art /\ remote' = remote /\ item' = item
    BY DEF UserStep, Pause, Cancel, RequestMove, RequestWrite, PlanOnly, AskConfirmation,
           Start, Resume, Launch, shardVars, diskVars, runVars
  <1>2. \/ row' = row /\ result' = result /\ replaced' = replaced
        \/ row' \in {"CREATED", "PAUSING", "CANCELLED", "AWAITING_CONFIRMATION"}
    <2>1. CASE RequestWrite(u)
      BY <2>1 DEF RequestWrite, WriteRow, MovesAreOwn
    <2>2. CASE ~RequestWrite(u)
      BY <2>2 DEF UserStep, Pause, Cancel, RequestMove, PlanOnly, AskConfirmation, Start,
                  Resume, Launch, jobVars
    <2>3. QED
      BY <2>1, <2>2
  <1>3. MovesAreOwn' /\ (at' = at \/ Launch(u))
    <2> USE <1>0 DEF TypeOK, RequestsTyped, MovesAreOwn
    <2>1. CASE RequestWrite(u)
      BY <2>1 DEF RequestWrite, WriteRow, runVars
    <2>2. CASE Pause(u) \/ Cancel(u)
      BY <2>2 DEF Pause, Cancel, RequestMove, ReadRow, runVars
    <2>3. CASE AskConfirmation(u)
      BY <2>3 DEF AskConfirmation, ReadRow, runVars
    <2>4. CASE PlanOnly(u) \/ Start(u) \/ Resume(u)
      BY <2>4 DEF PlanOnly, Start, Resume, runVars
    <2>5. CASE Launch(u)
      <3>1. move' = move /\ \A w \in Workers : at'[w] = at[w] \/ at[w] = "idle"
        BY <2>5 DEF Launch, Goto, DesktopBusy, RunnersTyped
      <3>2. "idle" \notin DOMAIN TransitionAt
        BY DEF TransitionAt
      <3>3. QED
        BY <2>5, <3>1, <3>2
    <2>6. QED
      BY <2>1, <2>2, <2>3, <2>4, <2>5 DEF UserStep
  <1>4. CASE at' = at
    <2>1. SoleRunner' /\ PausedIsQuiescent' /\ CompletedIsOver'
      BY <1>2, <1>4 DEF SoleRunner, PausedIsQuiescent, CompletedIsOver
    <2>2. CompletedIsDeployable' /\ RecordedIsDelivered'
      BY <1>1, <1>2 DEF CompletedIsDeployable, RecordedIsDelivered
    <2>3. \A w \in Workers : RunnerDelivers(w)'
      BY <1>1, <1>4 DEF RunnerDelivers
    <2>4. QED
      BY <1>3, <2>1, <2>2, <2>3
  <1>5. CASE Launch(u) /\ at' # at
    <2>1. \A v \in Workers : at[v] = "idle"
      BY <1>0, <1>5 DEF Launch, DesktopBusy
    <2>2. PICK w \in Workers : at' = [at EXCEPT ![w] = IF plan.sink THEN "host" ELSE "load"]
      BY <1>0, <1>5 DEF Launch, Goto
    <2>3. /\ at'[w] = IF plan.sink THEN "host" ELSE "load"
          /\ \A v \in Workers \ {w} : at'[v] = "idle"
      BY <2>1, <2>2 DEF TypeOK, RunnersTyped
    <2>4. row' = row /\ result' = result /\ replaced' = replaced
      BY <1>5 DEF Launch, jobVars
    <2>5. SoleRunner' /\ PausedIsQuiescent' /\ CompletedIsOver'
      BY <2>3 DEF SoleRunner, PausedIsQuiescent, CompletedIsOver, Working
    <2>6. CompletedIsDeployable' /\ RecordedIsDelivered'
      BY <1>1, <2>4 DEF CompletedIsDeployable, RecordedIsDelivered
    <2>7. \A v \in Workers : RunnerDelivers(v)'
      BY <1>1, <2>3 DEF RunnerDelivers, Uploading, Uploaded
    <2>8. QED
      BY <1>3, <2>5, <2>6, <2>7
  <1>6. QED
    BY <1>3, <1>4, <1>5

\* A crash leaves nobody in the job: its runner was the only one.
LEMMA DesktopInvOfCrash ==
  ASSUME CommandLine = {}, NEW w \in Workers, Crash(w), TypeOK, DesktopInv
  PROVE  DesktopInv'
PROOF
  <1> USE DEF DesktopInv
  <1>0. w \in Actors /\ w \notin Users /\ Workers \subseteq Actors /\ Users \subseteq Actors
    BY ActorsAssumption DEF Actors
  <1>1. /\ plan' = plan /\ art' = art /\ remote' = remote /\ item' = item
        /\ row' = row /\ result' = result /\ replaced' = replaced
        /\ at' = [at EXCEPT ![w] = "idle"] /\ move' = [move EXCEPT ![w] = Nothing]
    BY DEF Crash, Goto, jobVars, shardVars, diskVars
  <1>2. \A v \in Workers : at'[v] = "idle"
    BY <1>1 DEF Crash, SoleRunner, TypeOK, RunnersTyped
  <1>3. SoleRunner' /\ PausedIsQuiescent' /\ CompletedIsOver'
    BY <1>2 DEF SoleRunner, PausedIsQuiescent, CompletedIsOver, Working
  <1>4. CompletedIsDeployable' /\ RecordedIsDelivered'
    BY <1>1 DEF CompletedIsDeployable, RecordedIsDelivered
  <1>5. \A v \in Workers : RunnerDelivers(v)'
    BY <1>2 DEF RunnerDelivers, Uploading, Uploaded
  <1>6. MovesAreOwn'
    BY <1>0, <1>1 DEF MovesAreOwn, TypeOK, RequestsTyped, RunnersTyped
  <1>7. QED
    BY <1>3, <1>4, <1>5, <1>6

LEMMA DesktopInvOfInit == Init => DesktopInv
PROOF
  <1> SUFFICES ASSUME Init PROVE DesktopInv
    OBVIOUS
  <1> USE DEF Init
  <1>1. SoleRunner /\ MovesAreOwn
    BY DEF SoleRunner, MovesAreOwn, Actors
  <1>2. PausedIsQuiescent /\ CompletedIsOver /\ CompletedIsDeployable
    BY DEF PausedIsQuiescent, CompletedIsOver, CompletedIsDeployable, NoJob
  <1>3. RecordedIsDelivered /\ \A w \in Workers : RunnerDelivers(w)
    BY DEF RecordedIsDelivered, RunnerDelivers, Uploading, Uploaded, NoRow
  <1>4. QED
    BY <1>1, <1>2, <1>3 DEF DesktopInv

LEMMA DesktopInvOfNext ==
  ASSUME CommandLine = {}
  PROVE  TypeOK /\ DesktopInv /\ [Next]_vars => DesktopInv'
PROOF
  <1> SUFFICES ASSUME TypeOK, DesktopInv, [Next]_vars PROVE DesktopInv'
    OBVIOUS
  <1>1. CASE \E w \in Workers : WorkerStep(w)
    BY <1>1, DesktopInvOfWorkerStep
  <1>2. CASE \E w \in Workers : Crash(w)
    BY <1>2, DesktopInvOfCrash
  <1>3. CASE \E w \in Workers : CommandLineRun(w)
    BY <1>3 DEF CommandLineRun
  <1>4. CASE \E u \in Users : UserStep(u)
    BY <1>4, DesktopInvOfUserStep
  <1>5. CASE UNCHANGED vars
    BY <1>5
       DEF vars, DesktopInv, SoleRunner, MovesAreOwn, PausedIsQuiescent, CompletedIsOver,
           CompletedIsDeployable, RecordedIsDelivered, RunnerDelivers
  <1>6. QED
    BY <1>1, <1>2, <1>3, <1>4, <1>5 DEF Next

\* The inductive invariant of a job that only the desktop runs, for any number of
\* its threads, requests, crashes, shards and artifacts.
THEOREM DesktopInvariant == ASSUME CommandLine = {} PROVE Spec => []DesktopInv
PROOF BY DesktopInvOfInit, DesktopInvOfNext, TypeCorrect, PTL DEF Spec

\* A job the desktop completed can be deployed, whatever requests and crashes came
\* in between, and remains so.
THEOREM CompletedJobsDeploy == ASSUME CommandLine = {} PROVE Spec => []CompletedIsDeployable
PROOF
  <1>1. DesktopInv => CompletedIsDeployable
    BY DEF DesktopInv
  <1>2. QED
    BY <1>1, DesktopInvariant, PTL

\* While the row says PAUSED, no thread of the desktop works on the job.
THEOREM PausedJobsRest == ASSUME CommandLine = {} PROVE Spec => []PausedIsQuiescent
PROOF
  <1>1. DesktopInv => PausedIsQuiescent
    BY DEF DesktopInv
  <1>2. QED
    BY <1>1, DesktopInvariant, PTL
=============================================================================
