------------------------------ MODULE ProductJob ------------------------------
(***************************************************************************)
(* One conversion job of the product: the SQLite rows that describe it,    *)
(* the threads and processes that run it through the progressive pipeline, *)
(* and the pause, cancel, resume and start requests that race with them.   *)
(*                                                                         *)
(* A step is at most one SQLite transaction.  ProductStore.transition_job  *)
(* reads the row in one transaction and writes it in another, so a move is *)
(* two steps here (ReadRow, WriteRow) and others may act in between.  The  *)
(* row keeps its status and whether its progress still holds the result of *)
(* the conversion; phase, wording and event log are left out.              *)
(***************************************************************************)
EXTENDS Naturals, JobStates

CONSTANTS
  NumSources,     \* source weight shards in the pinned snapshot
  NumArtifacts,   \* files of the converted private package
  Desktop,        \* runners inside the desktop application (a thread per job)
  CommandLine,    \* runners that are a command-line process of their own
  Users,          \* requests in flight, from the desktop or the command line
  Plans,          \* the plans the job may have been created with
  MaxCrashes      \* bound on how often a runner's process dies

Workers == Desktop \cup CommandLine
Actors  == Workers \cup Users
Sources == 1..NumSources
Artifacts == 1..NumArtifacts

\* kind: where the source model comes from; sink: "direct-deploy" uploads each
\* artifact; clean: delete source shards once the upload is complete, which
\* only a catalog job does (the desktop refuses it of a local one).
PlanSpace == [kind : {"catalog", "local"}, sink : BOOLEAN, clean : BOOLEAN]

ASSUME CountsAssumption == NumSources \in Nat /\ NumArtifacts \in Nat
ASSUME ActorsAssumption ==
  /\ Desktop \cap CommandLine = {}
  /\ Workers \cap Users = {}
ASSUME PlansAssumption == Plans \subseteq PlanSpace
ASSUME CrashAssumption == MaxCrashes \in Nat

VARIABLES
  plan,      \* the job's stored plan
  row,       \* status of the product_jobs row
  result,    \* does progress_json hold the finished conversion's result?
  replaced,  \* has a host preflight's report replaced a COMPLETED job's result?
  shard,     \* status of each source shard's row
  art,       \* status of each private artifact's row
  files,     \* source shards present in the local cache
  output,    \* does the converted package exist on disk?
  remote,    \* artifacts committed below each upload root of the server
  at,        \* where each runner is in the pipeline
  item,      \* loop index of each runner
  move,      \* the row update an actor has read for but not yet written
  asked,     \* the request each user is in the middle of
  crashes    \* how many runner processes have died

jobVars   == <<row, result, replaced>>
shardVars == <<shard, art>>
diskVars  == <<files, output, remote>>
runVars   == <<at, item>>
vars == <<plan, row, result, replaced, shard, art, files, output, remote, at, item,
          move, asked, crashes>>

(***************************************************************************)
(* The desktop uploads below incoming/<job>, both command lines below      *)
(* uploads/<job>.                                                          *)
(***************************************************************************)
Roots == {"incoming", "uploads"}
RootOf_Shared(w) == "uploads"

RootOf(w) == IF w \in Desktop THEN "incoming" ELSE "uploads"

\* The pipeline's points.  "idle" is a runner that does not run the job.
Points == {"idle", "host", "load", "choose", "confirm", "preflight", "run",
           "begin", "source", "download", "downloaded", "inspect", "convert",
           "verify", "artifact", "upload", "commit", "committed", "clean",
           "unlink", "unlinked", "verifying", "completing", "deploy",
           "pausing", "except", "failing", "outer", "outerfailing"}

(***************************************************************************)
(* The calls of transition_job in the pipeline: the status asked for, the  *)
(* point that follows, and the one its ValueError leads to.  Points before *)
(* "begin" are outside the pipeline's try block.                           *)
(***************************************************************************)
Call(to, then, raises) == [to |-> to, then |-> then, raises |-> raises]

TransitionAt ==
  [confirm      |-> Call("AWAITING_CONFIRMATION", "preflight", "outer"),
   preflight    |-> Call("PREFLIGHT", "run", "outer"),
   run          |-> Call("RUNNING", "begin", "outer"),
   pausing      |-> Call("PAUSED", "outer", "except"),
   verifying    |-> Call("VERIFYING", "completing", "except"),
   completing   |-> Call("COMPLETED", "deploy", "except"),
   failing      |-> Call("FAILED", "outer", "outer"),
   outerfailing |-> Call("FAILED", "idle", "idle")]

\* A move read but not yet written, with the progress its writer copies back.
Nothing == [to |-> "None", result |-> FALSE]
Moves == [to : JobStatus, result : BOOLEAN] \cup {Nothing}

-----------------------------------------------------------------------------
Init ==
  /\ plan \in Plans
  /\ row = NoJob /\ result = FALSE /\ replaced = FALSE
  /\ shard = [s \in Sources |-> NoRow]
  /\ art = [a \in Artifacts |-> NoRow]
  /\ files = {} /\ output = FALSE
  /\ remote = [r \in Roots |-> {}]
  /\ at = [w \in Workers |-> "idle"]
  /\ item = [w \in Workers |-> 1]
  /\ move = [a \in Actors |-> Nothing]
  /\ asked = [u \in Users |-> "none"]
  /\ crashes = 0

Goto(w, p) == at' = [at EXCEPT ![w] = p]
StartLoop(w) == item' = [item EXCEPT ![w] = 1]
NextItem(w) == item' = [item EXCEPT ![w] = @ + 1]

\* The runner leaves its point for p and touches nothing else.
Jump(w, p) ==
  /\ Goto(w, p)
  /\ UNCHANGED <<plan, row, result, replaced, shard, art, files, output, remote, item,
                 move, asked, crashes>>

-----------------------------------------------------------------------------
(***************************************************************************)
(* transition_job: read and check, then write the status and the progress  *)
(* that was read (COMPLETED alone brings a progress of its own).           *)
(***************************************************************************)
ReadRow(a, to) ==
  /\ move[a] = Nothing
  /\ LegalMove(row, to)
  /\ move' = [move EXCEPT ![a] = [to |-> to, result |-> result]]

WriteRow(a) ==
  /\ move[a] # Nothing
  /\ row' = move[a].to
  /\ result' = (move[a].to = "COMPLETED" \/ move[a].result)
  /\ replaced' = (replaced /\ move[a].to # "COMPLETED")
  /\ move' = [move EXCEPT ![a] = Nothing]

TransitionRead(w) ==
  /\ at[w] \in DOMAIN TransitionAt
  /\ ReadRow(w, TransitionAt[at[w]].to)
  /\ UNCHANGED <<plan, jobVars, shardVars, diskVars, runVars, asked, crashes>>

TransitionWrite(w) ==
  /\ at[w] \in DOMAIN TransitionAt
  /\ WriteRow(w)
  /\ Goto(w, TransitionAt[at[w]].then)
  /\ UNCHANGED <<plan, shardVars, diskVars, item, asked, crashes>>

TransitionRaises(w) ==
  /\ at[w] \in DOMAIN TransitionAt
  /\ move[w] = Nothing
  /\ ~LegalMove(row, TransitionAt[at[w]].to)
  /\ Jump(w, TransitionAt[at[w]].raises)

-----------------------------------------------------------------------------
(* Entering the pipeline. *)

\* A deployment host that lacks its runtime is installed first, and every report
\* of the installation overwrites the row's progress, a COMPLETED job's too.
HostPreflight(w) ==
  /\ at[w] = "host"
  /\ result' \in {result, FALSE}
  /\ replaced' = (replaced \/ (row = "COMPLETED" /\ result /\ ~result'))
  /\ \E p \in {"load", "outer"} : Goto(w, p)
  /\ UNCHANGED <<plan, row, shardVars, diskVars, item, move, asked, crashes>>

\* Create the job's row and its shards' rows unless they exist.
CreateRows ==
  /\ row' = IF row = NoJob THEN "CREATED" ELSE row
  /\ shard' = IF plan.kind = "catalog"
              THEN [s \in Sources |-> IF shard[s] = NoRow THEN "PENDING" ELSE shard[s]]
              ELSE shard

\* prepare_catalog_job or the local checks, then the disk and memory limits:
\* an error here is raised outside the pipeline's try block.
Load(w) ==
  /\ at[w] = "load"
  /\ \/ ~(w \in Desktop /\ plan.kind = "local" /\ plan.clean) /\ CreateRows /\ Goto(w, "choose")
     \/ plan.kind = "catalog" /\ CreateRows /\ Goto(w, "outer")
     \/ UNCHANGED <<row, shard>> /\ Goto(w, "outer")
  /\ UNCHANGED <<plan, result, replaced, art, diskVars, item, move, asked, crashes>>

\* Where the status that was read sends a runner; any other one is an error.
Entry == [CREATED |-> "confirm", AWAITING_CONFIRMATION |-> "preflight",
          FAILED |-> "preflight", PAUSED |-> "run", RUNNING |-> "begin"]

Choose(w) ==
  /\ at[w] = "choose"
  /\ Jump(w, IF row \in DOMAIN Entry THEN Entry[row] ELSE "outer")

-----------------------------------------------------------------------------
(* _check_control: the safe boundary at which a pause or a cancel bites. *)

Interrupted == row \in {"PAUSING", "CANCELLED"}
Interrupt(w) == Goto(w, IF row = "PAUSING" THEN "pausing" ELSE "except")

\* A local job looks once before it converts; a catalog job fetches metadata
\* and checks the licence, which may fail.
Begin(w) ==
  /\ at[w] = "begin"
  /\ \/ /\ plan.kind = "local"
        /\ result' = FALSE
        /\ IF Interrupted THEN Interrupt(w) ELSE Goto(w, "convert")
     \/ /\ plan.kind = "catalog"
        /\ \E p \in {"source", "except"} : Goto(w, p)
        /\ UNCHANGED result
  /\ StartLoop(w)
  /\ UNCHANGED <<plan, row, replaced, shardVars, diskVars, move, asked, crashes>>

-----------------------------------------------------------------------------
(* Source shards of a catalog job. *)

\* A shard the rows call verified or cleaned is not looked at again.
SourceRecorded(s) == shard[s] \in {"SOURCE_VERIFIED", "SOURCE_CLEANED"}

SourcesDone(w) ==
  /\ at[w] = "source" /\ item[w] > NumSources
  /\ Jump(w, "inspect")

SkipSource(w) ==
  /\ at[w] = "source" /\ item[w] \in Sources
  /\ SourceRecorded(item[w])
  /\ NextItem(w)
  /\ UNCHANGED <<plan, jobVars, shardVars, diskVars, at, move, asked, crashes>>

StartSource(w) ==
  /\ at[w] = "source" /\ item[w] \in Sources
  /\ ~SourceRecorded(item[w])
  /\ IF Interrupted
     THEN Interrupt(w) /\ UNCHANGED <<result, shard>>
     ELSE /\ shard' = [shard EXCEPT ![item[w]] = "DOWNLOADING"]
          /\ result' = FALSE
          /\ Goto(w, "download")
  /\ UNCHANGED <<plan, row, replaced, art, diskVars, item, move, asked, crashes>>

Download_RetriesForever(w) ==
  /\ at[w] = "download"
  /\ \/ files' = files \cup {item[w]} /\ Goto(w, "downloaded")
     \/ UNCHANGED files /\ Goto(w, "source")
  /\ result' = FALSE
  /\ UNCHANGED <<plan, row, replaced, shardVars, output, remote, item, move, asked, crashes>>

\* download_snapshot_file leaves the verified file in the cache, or raises.
Download(w) ==
  /\ at[w] = "download"
  /\ \/ files' = files \cup {item[w]} /\ Goto(w, "downloaded")
     \/ UNCHANGED files /\ Goto(w, "except")
  /\ result' = FALSE
  /\ UNCHANGED <<plan, row, replaced, shardVars, output, remote, item, move, asked, crashes>>

RecordSource(w) ==
  /\ at[w] = "downloaded"
  /\ shard' = [shard EXCEPT ![item[w]] = "SOURCE_VERIFIED"]
  /\ NextItem(w) /\ Goto(w, "source")
  /\ UNCHANGED <<plan, jobVars, art, diskVars, move, asked, crashes>>

\* inspect_local_checkpoint and the adapter's checks: every shard the index
\* names has to be on disk.
Inspect(w) ==
  /\ at[w] = "inspect"
  /\ \/ files = Sources /\ Jump(w, "convert")
     \/ Jump(w, "except")

-----------------------------------------------------------------------------
(* Conversion and the private package. *)

\* convert_model_checkpoint runs only when the package does not exist.
Convert(w) ==
  /\ at[w] = "convert"
  /\ result' = FALSE
  /\ \/ output' = TRUE /\ Goto(w, "verify")
     \/ ~output /\ UNCHANGED output /\ Goto(w, "except")
  /\ UNCHANGED <<plan, row, replaced, shardVars, files, remote, item, move, asked, crashes>>

\* Key finalisation, the package scan and the online key's sealing.
Verify(w) ==
  /\ at[w] = "verify"
  /\ \/ result' = FALSE /\ Goto(w, "artifact")
     \/ UNCHANGED result /\ Goto(w, "except")
  /\ StartLoop(w)
  /\ UNCHANGED <<plan, row, replaced, shardVars, diskVars, move, asked, crashes>>

ArtifactsDone_OffByOne(w) ==
  /\ at[w] = "artifact" /\ item[w] >= NumArtifacts
  /\ Jump(w, IF plan.kind = "catalog" /\ plan.clean THEN "clean" ELSE "verifying")

ArtifactsDone(w) ==
  /\ at[w] = "artifact" /\ item[w] > NumArtifacts
  /\ Jump(w, IF plan.kind = "catalog" /\ plan.clean THEN "clean" ELSE "verifying")

SkipArtifact_AnyRow(w) ==
  /\ at[w] = "artifact" /\ item[w] \in Artifacts
  /\ plan.kind = "catalog"
  /\ art[item[w]] # NoRow
  /\ NextItem(w)
  /\ UNCHANGED <<plan, jobVars, shardVars, diskVars, at, move, asked, crashes>>

\* Only a catalog job skips an artifact whose row and digests are committed.
SkipArtifact(w) ==
  /\ at[w] = "artifact" /\ item[w] \in Artifacts
  /\ plan.kind = "catalog"
  /\ art[item[w]] = "REMOTE_COMMITTED"
  /\ NextItem(w)
  /\ UNCHANGED <<plan, jobVars, shardVars, diskVars, at, move, asked, crashes>>

\* Only a local job looks for a pause or a cancel before an artifact.
StartArtifact(w) ==
  /\ at[w] = "artifact" /\ item[w] \in Artifacts
  /\ plan.kind = "catalog" => art[item[w]] # "REMOTE_COMMITTED"
  /\ IF plan.kind = "local" /\ Interrupted
     THEN Interrupt(w) /\ UNCHANGED <<art, item>>
     ELSE /\ art' = [art EXCEPT ![item[w]] = "PRIVATE_VERIFIED"]
          /\ IF plan.sink
             THEN Goto(w, "upload") /\ UNCHANGED item
             ELSE NextItem(w) /\ UNCHANGED at
  /\ UNCHANGED <<plan, jobVars, shard, diskVars, move, asked, crashes>>

StartUpload(w) ==
  /\ at[w] = "upload"
  /\ art' = [art EXCEPT ![item[w]] = "UPLOADING"]
  /\ result' = FALSE
  /\ Goto(w, "commit")
  /\ UNCHANGED <<plan, row, replaced, shard, diskVars, item, move, asked, crashes>>

Commit_IgnoresErrors(w) ==
  /\ at[w] = "commit"
  /\ \/ remote' = [remote EXCEPT ![RootOf(w)] = @ \cup {item[w]}]
     \/ UNCHANGED remote
  /\ Goto(w, "committed")
  /\ UNCHANGED <<plan, jobVars, shardVars, files, output, item, move, asked, crashes>>

\* SSHDirectorySink.commit leaves the verified file on the server, or raises.
Commit(w) ==
  /\ at[w] = "commit"
  /\ \/ /\ remote' = [remote EXCEPT ![RootOf(w)] = @ \cup {item[w]}]
        /\ Goto(w, "committed")
     \/ UNCHANGED remote /\ Goto(w, "except")
  /\ UNCHANGED <<plan, jobVars, shardVars, files, output, item, move, asked, crashes>>

RecordCommit(w) ==
  /\ at[w] = "committed"
  /\ art' = [art EXCEPT ![item[w]] = "REMOTE_COMMITTED"]
  /\ NextItem(w) /\ Goto(w, "artifact")
  /\ UNCHANGED <<plan, jobVars, shard, diskVars, move, asked, crashes>>

-----------------------------------------------------------------------------
(* Source cleaning, errors and the end of a run. *)

Clean(w) ==
  /\ at[w] = "clean"
  /\ Goto(w, IF plan.sink THEN "unlink" ELSE "except")
  /\ StartLoop(w)
  /\ UNCHANGED <<plan, jobVars, shardVars, diskVars, move, asked, crashes>>

Unlink(w) ==
  /\ at[w] = "unlink" /\ item[w] \in Sources
  /\ files' = files \ {item[w]}
  /\ Goto(w, "unlinked")
  /\ UNCHANGED <<plan, jobVars, shardVars, output, remote, item, move, asked, crashes>>

RecordUnlink(w) ==
  /\ at[w] = "unlinked"
  /\ shard' = [shard EXCEPT ![item[w]] = "SOURCE_CLEANED"]
  /\ NextItem(w) /\ Goto(w, "unlink")
  /\ UNCHANGED <<plan, jobVars, art, diskVars, move, asked, crashes>>

CleanDone(w) ==
  /\ at[w] = "unlink" /\ item[w] > NumSources
  /\ Jump(w, "verifying")

\* The pipeline's except clause fails a job it still finds RUNNING.
HandleError(w) ==
  /\ at[w] = "except"
  /\ Jump(w, IF row = "RUNNING" THEN "failing" ELSE "outer")

\* The desktop goes on to deploy a completed job; its errors reach the outer
\* handler.  The command line stops.
Deploy(w) ==
  /\ at[w] = "deploy"
  /\ \/ Jump(w, "idle")
     \/ w \in Desktop /\ Jump(w, "outer")

\* Only the desktop's thread has an outer handler: it fails a job that no
\* exception handler has settled.
OuterHandler(w) ==
  /\ at[w] = "outer"
  /\ Jump(w, IF w \in Desktop /\ row \notin Settled \cup {NoJob}
             THEN "outerfailing" ELSE "idle")

\* The runner's process dies: its memory and the desktop's requests are gone.
Crash(w) ==
  /\ at[w] # "idle"
  /\ crashes < MaxCrashes
  /\ crashes' = crashes + 1
  /\ Goto(w, "idle")
  /\ move' = [move EXCEPT ![w] = Nothing]
  /\ asked' = IF w \in Desktop THEN [u \in Users |-> "none"] ELSE asked
  /\ UNCHANGED <<plan, jobVars, shardVars, diskVars, item>>

-----------------------------------------------------------------------------
(* Requests. *)

\* Pause and cancel are transition_job called from another thread or process.
RequestMove(u, to) ==
  /\ asked[u] = "none"
  /\ ReadRow(u, to)
  /\ UNCHANGED <<plan, jobVars, shardVars, diskVars, runVars, asked, crashes>>

Pause(u)  == RequestMove(u, "PAUSING")
Cancel(u) == RequestMove(u, "CANCELLED")

RequestWrite(u) ==
  /\ WriteRow(u)
  /\ UNCHANGED <<plan, shardVars, diskVars, runVars, asked, crashes>>

\* "convert" without execution creates the job and asks for confirmation.
PlanOnly(u) ==
  /\ row = NoJob /\ plan.kind = "catalog"
  /\ asked[u] = "none" /\ move[u] = Nothing
  /\ row' = "CREATED"
  /\ asked' = [asked EXCEPT ![u] = "confirm"]
  /\ UNCHANGED <<plan, result, replaced, shardVars, diskVars, runVars, move, crashes>>

AskConfirmation(u) ==
  /\ asked[u] = "confirm"
  /\ asked' = [asked EXCEPT ![u] = "none"]
  /\ IF LegalMove(row, "AWAITING_CONFIRMATION")
     THEN ReadRow(u, "AWAITING_CONFIRMATION")
     ELSE UNCHANGED move
  /\ UNCHANGED <<plan, jobVars, shardVars, diskVars, runVars, crashes>>

\* POST /api/jobs creates the row when there is none.
Start(u) ==
  /\ asked[u] = "none" /\ move[u] = Nothing
  /\ row' = IF row = NoJob THEN "CREATED" ELSE row
  /\ asked' = [asked EXCEPT ![u] = "launch"]
  /\ UNCHANGED <<plan, result, replaced, shardVars, diskVars, runVars, move, crashes>>

\* The desktop's resume rewrites the plan first, which only some statuses allow.
Resume(u) ==
  /\ asked[u] = "none" /\ move[u] = Nothing
  /\ row \in PlanCanChange
  /\ asked' = [asked EXCEPT ![u] = "launch"]
  /\ UNCHANGED <<plan, jobVars, shardVars, diskVars, runVars, move, crashes>>

\* One thread per job: the launch is refused while one is alive.
DesktopBusy_Never == FALSE
DesktopBusy == \E w \in Desktop : at[w] # "idle"

Launch(u) ==
  /\ asked[u] = "launch"
  /\ asked' = [asked EXCEPT ![u] = "none"]
  /\ IF DesktopBusy
     THEN UNCHANGED at
     ELSE \E w \in Desktop : Goto(w, IF plan.sink THEN "host" ELSE "load")
  /\ UNCHANGED <<plan, jobVars, shardVars, diskVars, item, move, crashes>>

\* "convert --execute" runs a catalog job from any status, "jobs resume" any
\* job from a paused or failed one; neither knows of the desktop's threads.
CommandLineRun(w) ==
  /\ w \in CommandLine /\ at[w] = "idle"
  /\ plan.kind = "catalog" \/ row \in CommandLineCanResume
  /\ Jump(w, "load")

-----------------------------------------------------------------------------
WorkerStep(w) ==
  \/ TransitionRead(w) \/ TransitionWrite(w) \/ TransitionRaises(w)
  \/ HostPreflight(w) \/ Load(w) \/ Choose(w) \/ Begin(w)
  \/ SourcesDone(w) \/ SkipSource(w) \/ StartSource(w) \/ Download(w)
  \/ RecordSource(w) \/ Inspect(w)
  \/ Convert(w) \/ Verify(w)
  \/ ArtifactsDone(w) \/ SkipArtifact(w) \/ StartArtifact(w) \/ StartUpload(w)
  \/ Commit(w) \/ RecordCommit(w)
  \/ Clean(w) \/ Unlink(w) \/ RecordUnlink(w) \/ CleanDone(w)
  \/ HandleError(w) \/ Deploy(w) \/ OuterHandler(w)

UserStep(u) ==
  \/ Pause(u) \/ Cancel(u) \/ RequestWrite(u)
  \/ PlanOnly(u) \/ AskConfirmation(u) \/ Start(u) \/ Resume(u) \/ Launch(u)

Next ==
  \/ \E w \in Workers : WorkerStep(w) \/ Crash(w) \/ CommandLineRun(w)
  \/ \E u \in Users : UserStep(u)

Spec == Init /\ [][Next]_vars

\* A runner that is not killed keeps executing; nobody has to ask anything,
\* but a request that has been read is written.
Fairness ==
  /\ \A w \in Workers : WF_vars(WorkerStep(w))
  /\ \A u \in Users : WF_vars(RequestWrite(u))

FairSpec == Spec /\ Fairness
-----------------------------------------------------------------------------
(* Properties. *)

\* Where a runner holds a shard, and where it holds an artifact, by its index.
Fetching  == {"download", "downloaded", "unlinked"}
Uploading == {"upload", "commit", "committed"}

DataTyped ==
  /\ plan \in PlanSpace
  /\ row \in JobStatus \cup {NoJob}
  /\ result \in BOOLEAN /\ replaced \in BOOLEAN
  /\ shard \in [Sources -> SourceStatus]
  /\ art \in [Artifacts -> ArtifactStatus]
  /\ files \subseteq Sources
  /\ output \in BOOLEAN
  /\ remote \in [Roots -> SUBSET Artifacts]

RunnersTyped ==
  /\ at \in [Workers -> Points]
  /\ item \in [Workers -> Nat \ {0}]
  /\ \A w \in Workers :
       /\ at[w] \in Fetching => item[w] \in Sources
       /\ at[w] \in Uploading => item[w] \in Artifacts

RequestsTyped ==
  /\ move \in [Actors -> Moves]
  /\ asked \in [Users -> {"none", "confirm", "launch"}]
  /\ crashes \in Nat

TypeOK == DataTyped /\ RunnersTyped /\ RequestsTyped

OnServer(a) == \E r \in Roots : a \in remote[r]
AllOnServer == \A a \in Artifacts : OnServer(a)

\* A row that says an artifact is committed is never ahead of the server, even
\* when two runners (a thread and a command line) upload the same package.
CommittedRowIsOnServer ==
  \A a \in Artifacts : art[a] = "REMOTE_COMMITTED" => OnServer(a)

\* Source data is never lost: a shard the job believes it has is in the cache,
\* or the whole private package is already on the server.  Cleaning happens
\* while other runners, crashes and cancellations interfere.
NoSourceLost ==
  \A s \in Sources : SourceRecorded(s) => s \in files \/ AllOnServer

\* A direct-deploy job is only ever COMPLETED with its whole package uploaded.
CompletedIsUploaded == row = "COMPLETED" /\ plan.sink => AllOnServer

\* What a runner's position says of the server and of the cache, and that only a
\* runner past its last artifact completes the job.
Uploaded  == {"clean", "unlink", "unlinked", "verifying", "completing"}
RunnerKnows(w) ==
  /\ at[w] \in Uploading \cup {"artifact"} /\ plan.sink =>
       \A a \in Artifacts : a < item[w] => OnServer(a)
  /\ at[w] = "committed" => OnServer(item[w])
  /\ at[w] \in Uploading \cup {"unlink", "unlinked"} => plan.sink
  /\ at[w] \in Uploaded /\ plan.sink => AllOnServer
  /\ at[w] = "downloaded" => item[w] \in files \/ AllOnServer

OnlyFinishersComplete ==
  /\ \A w \in Workers : move[w].to = "COMPLETED" => at[w] = "completing"
  /\ \A u \in Users : move[u].to # "COMPLETED"

\* The inductive strengthening of the three invariants above.
UploadInv ==
  /\ CommittedRowIsOnServer /\ NoSourceLost /\ CompletedIsUploaded
  /\ OnlyFinishersComplete
  /\ \A w \in Workers : RunnerKnows(w)

\* With the desktop as the only runner, what a deployment of a COMPLETED job reads
\* stays there while pauses, cancels, resumes and starts arrive.  progress_json keeps
\* the conversion's result, whose "output" both deployments look up (progress["output"]
\* raises KeyError without it); and a job that uploads has every artifact row committed
\* and every file below incoming/.  One thing takes the result away, and only of a job
\* that uploads: starting the finished job again, when the preflight installs the
\* host's runtime and reports it into the row's progress.
CompletedIsDeployable ==
  row = "COMPLETED" =>
    /\ result \/ (plan.sink /\ replaced)
    /\ plan.sink =>
         \A a \in Artifacts : art[a] = "REMOTE_COMMITTED" /\ a \in remote["incoming"]

\* PAUSED is a promise of rest: no desktop thread is downloading, converting,
\* uploading or deleting while the row says so.
Working == {"begin", "source", "download", "downloaded", "inspect", "convert",
            "verify", "artifact", "upload", "commit", "committed", "clean",
            "unlink", "unlinked", "verifying", "completing"}
PausedIsQuiescent == row = "PAUSED" => \A w \in Workers : at[w] \notin Working

\* The inductive strengthening of the two invariants above, with the desktop as the
\* only runner.  One thread at a time runs the job; what it has read it writes at
\* the point where it read it; nobody works on a completed job; and its position
\* tells how much of the package is uploaded and recorded.
SoleRunner == \A v, w \in Workers : at[v] # "idle" /\ at[w] # "idle" => v = w

MovesAreOwn ==
  /\ \A w \in Workers : move[w] # Nothing =>
       at[w] \in DOMAIN TransitionAt /\ move[w].to = TransitionAt[at[w]].to
  /\ \A u \in Users : move[u] # Nothing =>
       move[u].to \in {"PAUSING", "CANCELLED", "AWAITING_CONFIRMATION"}

CompletedIsOver ==
  row = "COMPLETED" =>
    \A w \in Workers : at[w] \in {"idle", "host", "load", "choose", "deploy", "outer"}

RecordedIsDelivered ==
  \A a \in Artifacts : art[a] = "REMOTE_COMMITTED" => a \in remote["incoming"]

RunnerDelivers(w) ==
  /\ at[w] \in Uploading \cup {"host"} => plan.sink
  /\ at[w] \in Uploading \cup {"artifact"} /\ plan.sink =>
       \A a \in Artifacts : a < item[w] => art[a] = "REMOTE_COMMITTED"
  /\ at[w] = "committed" => item[w] \in remote["incoming"]
  /\ at[w] \in Uploaded /\ plan.sink => \A a \in Artifacts : art[a] = "REMOTE_COMMITTED"

DesktopInv ==
  /\ SoleRunner /\ MovesAreOwn
  /\ PausedIsQuiescent
  /\ CompletedIsOver /\ CompletedIsDeployable
  /\ RecordedIsDelivered /\ \A w \in Workers : RunnerDelivers(w)

\* With no crash, a desktop job does not stay in a running status for ever.
Active == {"PREFLIGHT", "RUNNING", "VERIFYING"}
ActiveEnds == row \in Active ~> (row \notin Active \/ crashes > 0)
=============================================================================
