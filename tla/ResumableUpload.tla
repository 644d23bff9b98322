---------------------------- MODULE ResumableUpload ----------------------------
(***************************************************************************)
(* cloud/ssh.py, SSHSession.upload_resumable: one file is sent to a server *)
(* over SFTP into destination.partial, from where an earlier call stopped  *)
(* if that prefix is intact, and renamed to the destination once the size  *)
(* and the digest computed on the server are right.  Each step is a remote *)
(* call, and the connection or the local process may go before any of them.*)
(*                                                                         *)
(* A file is a sequence of blocks, block k of the expected content being   *)
(* k.  fsync and the SFTP channel's own life are left out.                 *)
(***************************************************************************)
EXTENDS Naturals, Sequences

CONSTANTS
  Size,       \* blocks of the expected content
  Missing,       \* no such file
  Servers,    \* the servers it may be sent to
  MaxFaults   \* bound on the number of faults

ASSUME SizeAssumption == Size \in Nat \ {0}
ASSUME MissingAssumption == Missing \notin Seq(Nat)
\* renames: what the server supports of a rename over a file.
ASSUME ServersAssumption ==
  Servers \subseteq [renames : SUBSET {"posix", "fallback"},
                     faults : SUBSET {"lost", "torn", "digest"}]
ASSUME FaultsAssumption == MaxFaults \in Nat

VARIABLES
  server,   \* the server of this behaviour: it never changes
  source,   \* the local file
  target,   \* the destination on the server
  partial,  \* the destination's .partial on the server
  pc,       \* where the call is
  offset,   \* blocks sent or found in place
  faults    \* how many faults have happened

uploadVars == <<server, source, target, partial, pc, offset, faults>>

Bad == 0
Good == [k \in 1..Size |-> k]
BytesOf(f) == IF f = Missing THEN 0 ELSE Len(f)

\* A file of the right size with a block that is not the expected one.
Damaged == [Good EXCEPT ![Size] = Bad]
Truncated == SubSeq(Good, 1, Size - 1)
LocalFiles == {Good, Damaged, Truncated}

\* The expected digest was recorded when the file was made: the local file may
\* have been damaged since, and the server may hold another one.
UploadInit ==
  /\ server \in Servers
  /\ source \in LocalFiles
  /\ target \in {Missing, Damaged, Truncated}
  /\ partial = Missing
  /\ pc = "idle"
  /\ offset = 0
  /\ faults = 0

UploadFault(kind) ==
  /\ kind \in server.faults
  /\ faults < MaxFaults
  /\ faults' = faults + 1

\* sha256sum on the server: it may exit with an error.
Digest(f, expected, same, other) ==
  \/ /\ f = expected
     /\ pc' = same
     /\ UNCHANGED faults
  \/ /\ f # expected
     /\ pc' = other
     /\ UNCHANGED faults
  \/ /\ UploadFault("digest")
     /\ pc' = other

-----------------------------------------------------------------------------
\* stat of the destination.
Start ==
  /\ pc = "idle"
  /\ pc' = IF target # Missing /\ Len(target) = Len(source)
           THEN "committed" ELSE "stat"
  /\ UNCHANGED <<source, target, partial, offset, faults>>

CheckCommitted_SizeOnly ==
  /\ pc = "committed"
  /\ pc' = "tidy"
  /\ UNCHANGED <<source, target, partial, offset, faults>>

CheckCommitted ==
  /\ pc = "committed"
  /\ Digest(target, Good, "tidy", "stat")
  /\ UNCHANGED <<source, target, partial, offset>>

\* Already committed: what is left of an earlier attempt goes.
Tidy ==
  /\ pc = "tidy"
  /\ partial' = Missing
  /\ pc' = "done"
  /\ UNCHANGED <<source, target, offset, faults>>

\* stat of the partial, and the removal of one longer than the file.
StatPartial ==
  /\ pc = "stat"
  /\ LET found == BytesOf(partial)
         keep  == found <= Len(source)
     IN /\ partial' = IF keep THEN partial ELSE Missing
        /\ offset' = IF keep THEN found ELSE 0
        /\ pc' = IF keep /\ found > 0 THEN "prefix" ELSE "open"
  /\ UNCHANGED <<source, target, faults>>

CheckPrefix_Trusts ==
  /\ pc = "prefix"
  /\ pc' = "open"
  /\ UNCHANGED <<source, target, partial, offset, faults>>

\* The partial's digest against that of as much of the local file.
CheckPrefix ==
  /\ pc = "prefix"
  /\ Digest(partial, SubSeq(source, 1, offset), "open", "discard")
  /\ UNCHANGED <<source, target, partial, offset>>

DiscardPartial ==
  /\ pc = "discard"
  /\ partial' = Missing
  /\ offset' = 0
  /\ pc' = "open"
  /\ UNCHANGED <<source, target, faults>>

OpenPartial_Truncates ==
  /\ pc = "open"
  /\ partial' = <<>>
  /\ offset' = 0
  /\ pc' = "write"
  /\ UNCHANGED <<source, target, faults>>

\* "ab" from an intact prefix, otherwise "wb".
OpenPartial ==
  /\ pc = "open"
  /\ partial' = IF offset > 0 THEN partial ELSE <<>>
  /\ pc' = "write"
  /\ UNCHANGED <<source, target, offset, faults>>

WriteBlock ==
  /\ pc = "write" /\ offset < Len(source)
  /\ partial' = Append(partial, source[offset + 1])
  /\ offset' = offset + 1
  /\ UNCHANGED <<source, target, pc, faults>>

\* The connection goes while a block's requests are in flight, and the server
\* has applied some of them.
Tear ==
  /\ pc = "write" /\ offset < Len(source)
  /\ UploadFault("torn")
  /\ partial' = Append(partial, Bad)
  /\ pc' = "idle"
  /\ UNCHANGED <<source, target, offset>>

EndWrite ==
  /\ pc = "write" /\ offset = Len(source)
  /\ pc' = "size"
  /\ UNCHANGED <<source, target, partial, offset, faults>>

CheckSize ==
  /\ pc = "size"
  /\ pc' = IF BytesOf(partial) = Len(source) THEN "hash" ELSE "idle"
  /\ UNCHANGED <<source, target, partial, offset, faults>>

CheckHash ==
  /\ pc = "hash"
  /\ Digest(partial, Good, "rename", "idle")
  /\ UNCHANGED <<source, target, partial, offset>>

\* posix-rename@openssh.com replaces the destination in one step.
PosixRename ==
  /\ pc = "rename" /\ "posix" \in server.renames
  /\ target' = partial /\ partial' = Missing
  /\ pc' = "done"
  /\ UNCHANGED <<source, offset, faults>>

\* A server without it: remove the destination, then rename.
RemoveTarget ==
  /\ pc = "rename" /\ "fallback" \in server.renames
  /\ target' = Missing
  /\ pc' = "removed"
  /\ UNCHANGED <<source, partial, offset, faults>>

Rename ==
  /\ pc = "removed"
  /\ target' = partial /\ partial' = Missing
  /\ pc' = "done"
  /\ UNCHANGED <<source, offset, faults>>

\* The call has returned; the file may be sent again.
Return ==
  /\ pc = "done"
  /\ pc' = "idle"
  /\ UNCHANGED <<source, target, partial, offset, faults>>

\* The connection or the local process is gone.
Lose ==
  /\ pc \notin {"idle", "done"}
  /\ UploadFault("lost")
  /\ pc' = "idle"
  /\ UNCHANGED <<source, target, partial, offset>>

Step ==
  \/ Start \/ CheckCommitted \/ Tidy \/ StatPartial \/ CheckPrefix
  \/ DiscardPartial \/ OpenPartial \/ WriteBlock \/ Tear \/ EndWrite \/ CheckSize
  \/ CheckHash \/ PosixRename \/ RemoveTarget \/ Rename \/ Return

UploadNext == (Step \/ Lose) /\ UNCHANGED server

UploadSpec == UploadInit /\ [][UploadNext]_uploadVars

\* The call's coroutine keeps executing, and the caller tries again.
FairUploadSpec == UploadSpec /\ WF_uploadVars(Step /\ UNCHANGED server)

-----------------------------------------------------------------------------
Points == {"idle", "committed", "tidy", "stat", "prefix", "discard", "open",
           "write", "size", "hash", "rename", "removed", "done"}
Contents == Seq(Nat) \cup {Missing}

\* Every variable has its type: the one type invariant of the module.
UploadTypeOK ==
  /\ server \in Servers
  /\ source \in LocalFiles
  /\ target \in Contents /\ partial \in Contents
  /\ pc \in Points
  /\ offset \in 0..Size
  /\ faults \in 0..MaxFaults

\* A call that returns leaves the expected content at the destination, even
\* when the local file is no longer what was recorded.
ReceiptIsTrue == pc = "done" => target = Good

\* A resumed call sends no byte of an intact prefix again: the partial shrinks
\* only when it holds a wrong block or the destination is already committed.
\* A sha256sum that fails is taken for a wrong block.
IsIntact(f) == \A k \in 1..Len(f) : f[k] = source[k]
KeepsIntactPrefix ==
  [][(/\ "digest" \notin server.faults
      /\ partial # Missing /\ Len(partial) <= Len(source) /\ IsIntact(partial))
       => \/ BytesOf(partial') >= Len(partial)
          \/ target' = Good]_uploadVars

\* A server that keeps its destination until the rename, or a digest that
\* never fails: otherwise a committed file may be taken for a stale one.
Careful == "fallback" \notin server.renames \/ "digest" \notin server.faults

\* Then the upload implements the atomic file at the destination.
Atomic == INSTANCE AtomicFile WITH file <- IF Careful THEN target ELSE Missing,
                                   Complete <- Good, Absent <- Missing
CommitsAtomically == Atomic!Spec

\* A caller that keeps trying delivers an undamaged file, once the faults end:
\* a torn block or a whole partial left by a lost connection is no obstacle.
Uploads == source = Good => <>(target = Good)
=============================================================================
