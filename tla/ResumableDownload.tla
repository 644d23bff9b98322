--------------------------- MODULE ResumableDownload ---------------------------
(***************************************************************************)
(* catalog/download.py, download_snapshot_file: one file of a pinned       *)
(* snapshot is fetched into target.partial, with range requests that       *)
(* continue what an earlier call left there, and renamed to its name once  *)
(* its size and digest are right.  The source cache is one directory per   *)
(* catalog model, so several jobs and commands may run it on one file.     *)
(*                                                                         *)
(* A file is a sequence of blocks, block k of the true content being k.    *)
(* Files behave as on Windows, the product's platform: another caller's    *)
(* open handle makes an unlink or a rename fail.                           *)
(***************************************************************************)
EXTENDS Naturals, Sequences, FiniteSets

CONSTANTS
  Size,        \* blocks of the true content
  BytesKnown,  \* does the snapshot's record name the size?
  ShaKnown,    \* does it name the digest?
  Callers,     \* threads and processes that may download this file
  Tries,       \* rounds times endpoints of one call
  None,        \* no such file
  Settings     \* who downloads, and which faults may happen how often

FaultKinds == {"refused", "norange", "badrange", "short", "other", "break",
               "crash"}

ASSUME SizeAssumption == Size \in Nat \ {0}
ASSUME TriesAssumption == Tries \in Nat \ {0}
ASSUME SettingsAssumption ==
  Settings \subseteq [callers : SUBSET Callers, faults : SUBSET FaultKinds,
                      max : Nat]
ASSUME NoneAssumption == None \notin Seq(Nat)

VARIABLES
  setting,  \* the setting of this behaviour: it never changes
  target,   \* the file under its own name
  partial,  \* the file under its .partial name
  pc,       \* where each caller is
  try,      \* rounds and endpoints it has begun
  again,    \* is this its second request to the endpoint?
  offset,   \* where its request starts
  digest,   \* what it read the target's digest from
  body,     \* what it has yet to receive of the answer
  written,  \* blocks of the answer it has written
  faults    \* how many faults have happened

callVars == <<try, again, offset, digest, body, written>>
vars == <<setting, target, partial, pc, callVars, faults>>

Bad == 0
Good == [k \in 1..Size |-> k]
BytesOf(f) == IF f = None THEN 0 ELSE Len(f)
From(f, n) == SubSeq(f, n + 1, Len(f))
Wrong(n) == [k \in 1..n |-> Bad]

\* What the digest comparison accepts.
DigestOK(f) == ShaKnown => f = Good

\* Another caller has the partial open.
Held(c) == \E d \in Callers \ {c} : pc[d] = "write"

\* Another caller has the target open: it computes the digest.
Read(c) == \E d \in Callers \ {c} : pc[d] = "judge"

Stale == IF ShaKnown THEN {Wrong(Size)} ELSE {}

Init ==
  /\ setting \in Settings
  /\ target \in {None} \cup Stale
  /\ partial = None
  /\ pc = [c \in Callers |-> "idle"]
  /\ try = [c \in Callers |-> 0]
  /\ again = [c \in Callers |-> FALSE]
  /\ offset = [c \in Callers |-> 0]
  /\ digest = [c \in Callers |-> None]
  /\ body = [c \in Callers |-> <<>>]
  /\ written = [c \in Callers |-> 0]
  /\ faults = 0

Goto(c, point) == pc' = [pc EXCEPT ![c] = point]

Fault(kind) ==
  /\ kind \in setting.faults
  /\ faults < setting.max
  /\ faults' = faults + 1

\* The call raises: ConnectionError, OSError or FileNotFoundError.
Raise(c) == Goto(c, "idle") /\ UNCHANGED callVars

\* The next endpoint or the next round, until both loops are over.
NextTry(c) ==
  IF try[c] = Tries
  THEN Raise(c)
  ELSE /\ Goto(c, "ask")
       /\ try' = [try EXCEPT ![c] = @ + 1]
       /\ again' = [again EXCEPT ![c] = FALSE]
       /\ UNCHANGED <<offset, digest, body, written>>

-----------------------------------------------------------------------------
(***************************************************************************)
(* Before the first request: reuse a target of the right digest, unlink    *)
(* one that failed it (another caller may have replaced it by then, or     *)
(* unlinked it: an error), and unlink a partial longer than the file.      *)
(***************************************************************************)
Look(c) ==
  /\ pc[c] = "idle"
  /\ Goto(c, IF target = None THEN "prune" ELSE "judge")
  /\ UNCHANGED <<target, partial, callVars, faults>>

Judge_Distrusts(c) ==
  /\ pc[c] = "judge"
  /\ digest' = [digest EXCEPT ![c] = target]
  /\ Goto(c, "unlink")
  /\ UNCHANGED <<target, partial, try, again, offset, body, written, faults>>

Judge(c) ==
  /\ pc[c] = "judge"
  /\ digest' = [digest EXCEPT ![c] = target]
  /\ Goto(c, IF DigestOK(target) THEN "done" ELSE "unlink")
  /\ UNCHANGED <<target, partial, try, again, offset, body, written, faults>>

UnlinkTarget(c) ==
  /\ pc[c] = "unlink"
  /\ IF target = None \/ Read(c)
     THEN Raise(c) /\ UNCHANGED target
     ELSE target' = None /\ Goto(c, "prune") /\ UNCHANGED callVars
  /\ UNCHANGED <<partial, faults>>

Oversize == BytesKnown /\ BytesOf(partial) > Size

FirstTry(c) ==
  /\ Goto(c, "ask")
  /\ try' = [try EXCEPT ![c] = 1]
  /\ again' = [again EXCEPT ![c] = FALSE]
  /\ UNCHANGED <<offset, digest, body, written>>

Prune(c) ==
  /\ pc[c] = "prune"
  /\ \/ ~Oversize /\ UNCHANGED partial /\ FirstTry(c)
     \/ Oversize /\ ~Held(c) /\ partial' = None /\ FirstTry(c)
     \/ Oversize /\ Held(c) /\ UNCHANGED partial /\ Raise(c)
  /\ UNCHANGED <<target, faults>>

Ask_SkipsOne(c) ==
  /\ pc[c] = "ask"
  /\ offset' = [offset EXCEPT ![c] =
                  IF BytesOf(partial) = 0 THEN 0 ELSE BytesOf(partial) + 1]
  /\ Goto(c, "answer")
  /\ UNCHANGED <<target, partial, try, again, digest, body, written, faults>>

Ask(c) ==
  /\ pc[c] = "ask"
  /\ offset' = [offset EXCEPT ![c] = BytesOf(partial)]
  /\ Goto(c, "answer")
  /\ UNCHANGED <<target, partial, try, again, digest, body, written, faults>>

-----------------------------------------------------------------------------
(***************************************************************************)
(* The answer.  A server has nothing to send from the end of the file on   *)
(* and answers such a range with 416; any request may meet a network error *)
(* or an error status.                                                     *)
(***************************************************************************)
Refused(c) ==
  /\ pc[c] = "answer"
  /\ IF offset[c] >= Size THEN UNCHANGED faults ELSE Fault("refused")
  /\ NextTry(c)
  /\ UNCHANGED <<target, partial>>

\* The bodies a server may send from block n on, with the fault each one is:
\* a mirror may hold another file, longer or shorter, and a 206 may cover less
\* than what was asked.
Bodies(n) ==
  {<<From(Good, n), "none">>}
  \cup {<<SubSeq(Good, n + 1, m), "short">> : m \in n..(Size - 1)}
  \cup {<<Wrong(m), "other">> : m \in 1..(Size + 1 - n)}


\* The blocks follow, and the file is open for them.
Receive(c, n) ==
  \E b \in Bodies(n) :
    /\ IF b[2] = "none" THEN UNCHANGED faults ELSE Fault(b[2])
    /\ body' = [body EXCEPT ![c] = b[1]]
    /\ written' = [written EXCEPT ![c] = 0]
    /\ Goto(c, "write")
    /\ UNCHANGED <<target, try, again, offset, digest>>

\* The answer to a request for the whole file: opened with "wb".
Fresh(c) ==
  /\ pc[c] = "restarted" \/ (pc[c] = "answer" /\ offset[c] = 0)
  /\ partial' = <<>>
  /\ Receive(c, 0)

\* 206 with the Content-Range asked for: opened with "ab".
Continue(c) ==
  /\ pc[c] = "answer" /\ offset[c] \in 1..(Size - 1)
  /\ partial' = IF partial = None THEN <<>> ELSE partial
  /\ Receive(c, offset[c])

\* 200: this server sends the whole file whatever the range.
Restart(c) ==
  /\ pc[c] = "answer" /\ offset[c] > 0
  /\ Fault("norange")
  /\ \/ /\ Held(c)
        /\ Raise(c)
        /\ UNCHANGED partial
     \/ /\ ~Held(c)
        /\ partial' = None
        /\ offset' = [offset EXCEPT ![c] = 0]
        /\ Goto(c, "restarted")
        /\ UNCHANGED <<try, again, digest, body, written>>
  /\ UNCHANGED target

BadRange_Appended(c) ==
  /\ pc[c] = "answer" /\ offset[c] > 0
  /\ Fault("badrange")
  /\ body' = [body EXCEPT ![c] = Good]
  /\ written' = [written EXCEPT ![c] = 0]
  /\ Goto(c, "write")
  /\ UNCHANGED <<target, partial, try, again, offset, digest>>

\* 206 with another Content-Range: unlink, and ask the endpoint once more.
BadRange(c) ==
  /\ pc[c] = "answer" /\ offset[c] > 0
  /\ Fault("badrange")
  /\ \/ /\ Held(c)
        /\ Raise(c)
        /\ UNCHANGED partial
     \/ /\ ~Held(c)
        /\ partial' = None
        /\ IF again[c]
           THEN NextTry(c)
           ELSE /\ again' = [again EXCEPT ![c] = TRUE]
                /\ Goto(c, "ask")
                /\ UNCHANGED <<try, offset, digest, body, written>>
  /\ UNCHANGED target

-----------------------------------------------------------------------------
\* The file with block b in place n; a place skipped reads as zeros.
Put(f, n, b) ==
  [k \in 1..(IF n > Len(f) THEN n ELSE Len(f)) |->
     IF k = n THEN b ELSE IF k <= Len(f) THEN f[k] ELSE Bad]

Write(c) ==
  /\ pc[c] = "write" /\ body[c] # <<>>
  /\ partial' = Put(partial, IF offset[c] > 0 THEN Len(partial) + 1
                             ELSE written[c] + 1, Head(body[c]))
  /\ body' = [body EXCEPT ![c] = Tail(@)]
  /\ written' = [written EXCEPT ![c] = @ + 1]
  /\ UNCHANGED <<target, pc, try, again, offset, digest, faults>>

\* The connection breaks before the announced length: a TransportError.
Break(c) ==
  /\ pc[c] = "write" /\ body[c] # <<>>
  /\ Fault("break")
  /\ NextTry(c)
  /\ UNCHANGED <<target, partial>>

Finish(c) ==
  /\ pc[c] = "write" /\ body[c] = <<>>
  /\ Goto(c, "size")
  /\ UNCHANGED <<target, partial, callVars, faults>>

CheckSize(c) ==
  /\ pc[c] = "size"
  /\ IF partial # None /\ (BytesKnown => Len(partial) = Size)
     THEN Goto(c, "hash") /\ UNCHANGED callVars
     ELSE Raise(c)
  /\ UNCHANGED <<target, partial, faults>>

CheckHash_Skipped(c) ==
  /\ pc[c] = "hash"
  /\ Goto(c, "rename") /\ UNCHANGED callVars
  /\ UNCHANGED <<target, partial, faults>>

CheckHash(c) ==
  /\ pc[c] = "hash"
  /\ IF partial # None /\ DigestOK(partial)
     THEN Goto(c, "rename") /\ UNCHANGED callVars
     ELSE Raise(c)
  /\ UNCHANGED <<target, partial, faults>>

Commit_InPlace(c) ==
  /\ pc[c] = "rename"
  /\ IF target = partial
     THEN partial' = None /\ Goto(c, "done") /\ UNCHANGED <<target, callVars>>
     ELSE /\ target' = SubSeq(partial, 1, BytesOf(target) + 1)
          /\ UNCHANGED <<partial, pc, callVars>>
  /\ UNCHANGED faults

Commit(c) ==
  /\ pc[c] = "rename"
  /\ \/ /\ partial # None /\ ~Held(c) /\ ~Read(c)
        /\ target' = partial /\ partial' = None
        /\ Goto(c, "done") /\ UNCHANGED callVars
     \/ /\ partial = None \/ Held(c) \/ Read(c)
        /\ Raise(c)
        /\ UNCHANGED <<target, partial>>
  /\ UNCHANGED faults

\* The call has returned; the file may be asked for again.
Return(c) ==
  /\ pc[c] = "done"
  /\ Goto(c, "idle")
  /\ UNCHANGED <<target, partial, callVars, faults>>

\* The process dies; what it has written stays.
Crash(c) ==
  /\ pc[c] \notin {"idle", "done"}
  /\ Fault("crash")
  /\ Raise(c)
  /\ UNCHANGED <<target, partial>>

Answer(c) ==
  Refused(c) \/ Fresh(c) \/ Continue(c) \/ Restart(c) \/ BadRange(c)

Step(c) ==
  \/ Look(c) \/ Judge(c) \/ UnlinkTarget(c) \/ Prune(c)
  \/ Ask(c) \/ Answer(c)
  \/ Write(c) \/ Break(c) \/ Finish(c)
  \/ CheckSize(c) \/ CheckHash(c) \/ Commit(c) \/ Return(c)

Next ==
  /\ \E c \in setting.callers : Step(c) \/ Crash(c)
  /\ UNCHANGED setting

Spec == Init /\ [][Next]_vars

\* A caller's thread keeps executing, and whoever wants the file asks again.
Fairness ==
  \A c \in Callers : WF_vars(c \in setting.callers /\ Step(c) /\ UNCHANGED setting)
FairSpec == Spec /\ Fairness

-----------------------------------------------------------------------------
Points == {"idle", "judge", "unlink", "prune", "ask", "answer",
           "restarted", "write", "size", "hash", "rename", "done"}
Contents == Seq(Nat) \cup {None}
Attempts == 0..Tries

\* Every variable has its type: the one type invariant of the module.
TypeOK ==
  /\ setting \in Settings
  /\ target \in Contents /\ partial \in Contents
  /\ pc \in [Callers -> Points]
  /\ try \in [Callers -> Attempts]
  /\ again \in [Callers -> BOOLEAN]
  /\ offset \in [Callers -> Nat]
  /\ digest \in [Callers -> Contents]
  /\ body \in [Callers -> Seq(Nat)]
  /\ written \in [Callers -> Nat]
  /\ faults \in 0..setting.max

\* One caller at a time, which the desktop ensures for a job but nobody does
\* for the jobs and commands that share a model's cache.
Alone == \A c, d \in setting.callers : c = d

\* A call that returns a receipt leaves the pinned content under the file's
\* own name, whatever the mirrors answered and whoever died on the way.
ReceiptIsTrue ==
  Alone /\ ShaKnown => \A c \in setting.callers : pc[c] = "done" => target = Good

\* A resumed download never puts a block where another belongs: what the
\* partial holds in place k is block k, unless a mirror sent another file.
BlocksInPlace ==
  Alone /\ partial # None =>
    \A k \in 1..Len(partial) : partial[k] \in {Bad, k}

\* A caller alone on its file implements the atomic file: the target changes
\* only from something stale to nothing, or to the complete content.
Atomic == INSTANCE AtomicFile WITH file <- IF Alone THEN target ELSE None,
                                   Complete <- Good, Absent <- None
CommitsAtomically == Atomic!Spec

\* The caller is about to unlink the target for a digest that is not the pinned one.
FoundStale(c) == pc[c] = "unlink" /\ digest[c] # Good

\* Two callers that share the cache may spoil each other's partial, but what either
\* of them has never replaces a complete target, and in one way only is it taken
\* away: by a caller that read the digest of what lay there before, and unlinks
\* what the other has put in its place.
KeepsStep ==
  target = Good =>
    \/ target' = Good
    \/ target' = None /\ \E c \in setting.callers : FoundStale(c) /\ pc'[c] = "prune"
KeepsComplete == [][KeepsStep]_target

\* A caller that keeps asking gets the file after any mixture of refusals,
\* ignored or wrong ranges, short bodies and broken connections.
NetworkFaults == {"refused", "norange", "badrange", "short", "break"}
Downloads == Alone /\ setting.faults \subseteq NetworkFaults => <>(target = Good)
=============================================================================
