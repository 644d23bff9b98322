------------------------------ MODULE AtomicFile ------------------------------
(***************************************************************************)
(* What a committed file promises, whoever transfers it: it may start with *)
(* anything (an earlier revision, an edited copy) or be missing, it is     *)
(* replaced only by the complete content, and once complete it stays so.   *)
(* download_snapshot_file and SSHSession.upload_resumable implement it.    *)
(***************************************************************************)
CONSTANTS
  Complete,  \* the content the caller's size and digest describe
  Absent     \* there is no such file

VARIABLE file

Init == TRUE

\* A file that is not the complete one may be removed.
Discard == file # Complete /\ file' = Absent

\* The complete content appears in one step.
Publish == file' = Complete

Next == Discard \/ Publish

Spec == Init /\ [][Next]_file
=============================================================================
