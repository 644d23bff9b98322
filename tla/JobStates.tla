------------------------------ MODULE JobStates ------------------------------
(***************************************************************************)
(* The statuses a product job row can hold and the table of legal moves    *)
(* between them (aloepri/product/state.py).  There is no state here: the   *)
(* modules that write the row decide when the table is consulted.          *)
(***************************************************************************)

\* ProductJobStatus.
JobStatus == {"CREATED", "AWAITING_CONFIRMATION", "PREFLIGHT", "RUNNING",
              "PAUSING", "PAUSED", "VERIFYING", "COMPLETED", "FAILED",
              "CANCELLED"}

\* No row for the job in product_jobs yet.
NoJob == "NoJob"

\* _JOB_TRANSITIONS: the statuses a row may move to from the status it holds.
JobTransitions ==
  [CREATED               |-> {"AWAITING_CONFIRMATION", "FAILED", "CANCELLED"},
   AWAITING_CONFIRMATION |-> {"PREFLIGHT", "FAILED", "CANCELLED"},
   PREFLIGHT             |-> {"RUNNING", "FAILED", "CANCELLED"},
   RUNNING               |-> {"PAUSING", "VERIFYING", "FAILED", "CANCELLED"},
   PAUSING               |-> {"PAUSED", "FAILED", "CANCELLED"},
   PAUSED                |-> {"RUNNING", "CANCELLED"},
   VERIFYING             |-> {"COMPLETED", "FAILED"},
   FAILED                |-> {"PREFLIGHT", "CANCELLED"},
   COMPLETED             |-> {},
   CANCELLED             |-> {}]

\* ShardStatus, for a source shard and for a private artifact.  "NoRow" is a
\* shard without a row; the pipeline never writes CONVERTING or FAILED.
NoRow == "NoRow"
SourceStatus == {NoRow, "PENDING", "DOWNLOADING", "SOURCE_VERIFIED",
                 "SOURCE_CLEANED"}
ArtifactStatus == {NoRow, "PRIVATE_VERIFIED", "UPLOADING", "REMOTE_COMMITTED"}

\* transition_job raises unless this holds of the status it has read.
LegalMove(from, to) == from \in JobStatus /\ to \in JobTransitions[from]

\* update_job_plan, the first thing the desktop's resume does, raises elsewhere.
PlanCanChange == {"CREATED", "PAUSED", "FAILED"}

\* The command line's resume refuses any other status.
CommandLineCanResume == {"PAUSED", "FAILED"}

\* A job in one of these never leaves it through transition_job.
Terminal == {s \in JobStatus : JobTransitions[s] = {}}

\* The statuses the desktop's outer exception handler leaves alone.
Settled == {"PAUSED", "CANCELLED", "COMPLETED", "FAILED"}
=============================================================================
