------------------------ MODULE ResumableDownloadProofs ------------------------
(***************************************************************************)
(* TLAPS proofs about ResumableDownload, for every file size, number of    *)
(* tries and kind and number of faults: the type invariant whoever shares  *)
(* the cache; that a caller alone on its file commits atomically and puts  *)
(* no block where another belongs; how two callers can lose a complete     *)
(* file to each other.                                                     *)
(***************************************************************************)
EXTENDS ResumableDownload, SequenceTheorems, TLAPS

LEMMA GoodType == Good \in Seq(Nat) /\ Len(Good) = Size /\ Good # None
  BY SizeAssumption, NoneAssumption DEF Good

LEMMA WrongType == \A n \in Nat : Wrong(n) \in Seq(Nat) /\ Len(Wrong(n)) = n
  BY DEF Wrong, Bad

\* Every body a server may send from a block of the file is a sequence.
LEMMA BodiesType ==
  ASSUME NEW n \in 0..Size, NEW b \in Bodies(n)
  PROVE  b[1] \in Seq(Nat)
<1>1. CASE b = <<From(Good, n), "none">>
  BY <1>1, GoodType, SizeAssumption DEF From
<1>2. ASSUME NEW m \in n..(Size - 1), b = <<SubSeq(Good, n + 1, m), "short">>
      PROVE  b[1] \in Seq(Nat)
  BY <1>2, GoodType, SizeAssumption
<1>3. ASSUME NEW m \in 1..(Size + 1 - n), b = <<Wrong(m), "other">>
      PROVE  b[1] \in Seq(Nat)
  BY <1>3, WrongType, SizeAssumption
<1>4. QED
  BY <1>1, <1>2, <1>3 DEF Bodies

\* What a behaviour's setting is, and who it lets act.
LEMMA SettingType ==
  ASSUME setting \in Settings
  PROVE  /\ setting.callers \subseteq Callers
         /\ setting.max \in Nat
  BY SettingsAssumption

\* Writing one block keeps a file a sequence of blocks.
LEMMA PutType ==
  ASSUME NEW f \in Seq(Nat), NEW n \in Nat \ {0}, NEW b \in Nat
  PROVE  Put(f, n, b) \in Seq(Nat)
  BY DEF Put, Bad

LEMMA BytesType == \A f \in Contents : BytesOf(f) \in Nat
  BY DEF Contents, BytesOf

-----------------------------------------------------------------------------
\* A caller that writes has the partial open: nobody else can unlink it or
\* rename it away.
WritersHaveFile == \A c \in Callers : pc[c] = "write" => partial # None
TypeInv == TypeOK /\ WritersHaveFile

USE DEF callVars

LEMMA InitType == Init => TypeInv
<1>1. Stale \subseteq Contents
  BY WrongType, SizeAssumption DEF Stale, Contents
<1>2. QED
  BY <1>1, SettingType, TriesAssumption
  DEF Attempts, Init, TypeInv, TypeOK, WritersHaveFile, Contents, Points

\* The type of what one call keeps for itself.
CallType ==
  /\ pc \in [Callers -> Points]
  /\ try \in [Callers -> Attempts]
  /\ again \in [Callers -> BOOLEAN]
  /\ offset \in [Callers -> Nat]
  /\ digest \in [Callers -> Contents]
  /\ body \in [Callers -> Seq(Nat)]
  /\ written \in [Callers -> Nat]

\* Nobody starts to write in this step.
NoNewWriter == \A d \in Callers : pc'[d] = "write" => pc[d] = "write"

LEMMA FaultType ==
  ASSUME setting \in Settings, UNCHANGED setting, faults \in 0..setting.max,
         NEW kind, Fault(kind)
  PROVE  faults' \in 0..setting'.max
  BY SettingType DEF Fault

LEMMA GotoType ==
  ASSUME pc \in [Callers -> Points], NEW c \in Callers,
         NEW p \in Points \ {"write"}, Goto(c, p)
  PROVE  pc' \in [Callers -> Points] /\ NoNewWriter
  BY DEF Goto, NoNewWriter

LEMMA RaiseType ==
  ASSUME CallType, NEW c \in Callers, Raise(c)
  PROVE  CallType' /\ NoNewWriter
  BY GotoType DEF Raise, CallType, Points

LEMMA NextTryType ==
  ASSUME CallType, NEW c \in Callers, NextTry(c)
  PROVE  CallType' /\ NoNewWriter
<1>1. CASE try[c] = Tries
  BY <1>1, RaiseType DEF NextTry
<1>2. CASE try[c] # Tries
  <2>1. pc' \in [Callers -> Points] /\ NoNewWriter
    BY <1>2, GotoType DEF NextTry, CallType, Points
  <2>2. /\ try' = [try EXCEPT ![c] = @ + 1]
        /\ again' = [again EXCEPT ![c] = FALSE]
        /\ UNCHANGED <<offset, digest, body, written>>
    BY <1>2 DEF NextTry
  <2>3. try' \in [Callers -> Attempts]
    BY <1>2, <2>2, TriesAssumption DEF CallType, Attempts
  <2>4. again' \in [Callers -> BOOLEAN]
    BY <2>2 DEF CallType
  <2>5. QED
    BY <2>1, <2>2, <2>3, <2>4 DEF CallType
<1>3. QED
  BY <1>1, <1>2

LEMMA NextTypes == TypeInv /\ [Next]_vars => TypeInv'
<1> SUFFICES ASSUME TypeInv, [Next]_vars PROVE TypeInv'
  OBVIOUS
<1> USE SizeAssumption, NoneAssumption
    DEF TypeInv, TypeOK, WritersHaveFile
<1>0. UNCHANGED setting /\ setting \in Settings
  BY DEF Next, vars
<1>1. CASE UNCHANGED vars
  BY <1>1 DEF vars
<1>2. ASSUME NEW c \in Callers, Look(c) \/ Judge(c) \/ UnlinkTarget(c) PROVE TypeInv'
  <2>1. CASE Look(c)
    BY <1>0, <2>1 DEF Look, Points, Goto
  <2>2. CASE Judge(c)
    BY <1>0, <2>2 DEF Judge, Points, Goto
  <2>3. CASE UnlinkTarget(c)
    BY <1>0, <2>3 DEF UnlinkTarget, Raise, Points, Goto, Contents
  <2>4. QED
    BY <1>2, <2>1, <2>2, <2>3
<1>3. ASSUME NEW c \in Callers, Prune(c) PROVE TypeInv'
  <2>1. CASE FirstTry(c)
    <3>1. pc' \in [Callers -> Points] /\ NoNewWriter
      BY <2>1, GotoType DEF FirstTry, Points
    <3>2. QED
      <4>1. try' \in [Callers -> Attempts] /\ again' \in [Callers -> BOOLEAN]
        BY <2>1, TriesAssumption DEF FirstTry, Attempts
      <4>2. QED
        BY <1>0, <1>3, <2>1, <3>1, <4>1 DEF Prune, FirstTry, NoNewWriter, Held, Contents
  <2>2. CASE Raise(c)
    <3>1. CallType' /\ NoNewWriter
      BY <2>2, RaiseType DEF CallType
    <3>2. QED
      BY <1>0, <1>3, <3>1 DEF Prune, CallType, NoNewWriter, Held, Contents
  <2>3. QED
    BY <1>0, <1>3, <2>1, <2>2 DEF Prune
<1>4. ASSUME NEW c \in Callers, Ask(c) PROVE TypeInv'
  BY <1>0, <1>4, BytesType DEF Ask, Points, Goto, Raise, Fault
<1>5. ASSUME NEW c \in Callers, Refused(c) PROVE TypeInv'
  <2>1. CallType' /\ NoNewWriter
    BY <1>0, <1>5, NextTryType DEF Refused, CallType
  <2>2. faults' \in 0..setting'.max
    BY <1>0, <1>5, FaultType DEF Refused
  <2>3. QED
    BY <1>0, <1>5, <2>1, <2>2 DEF Refused, CallType, NoNewWriter
<1>6. ASSUME NEW c \in Callers, NEW n \in 0..Size, Receive(c, n),
             partial' \in Seq(Nat)
      PROVE  TypeInv'
  <2>1. PICK b \in Bodies(n) :
          /\ (faults' = faults \/ Fault(b[2]))
          /\ body' = [body EXCEPT ![c] = b[1]]
          /\ written' = [written EXCEPT ![c] = 0]
          /\ Goto(c, "write")
          /\ UNCHANGED <<target, try, again, offset, digest>>
    BY <1>0, <1>6 DEF Receive
  <2>2. b[1] \in Seq(Nat)
    BY BodiesType
  <2>3. faults' \in 0..setting'.max
    BY <1>0, <2>1, FaultType
  <2>4. QED
    BY <1>0, <1>6, <2>1, <2>2, <2>3 DEF Contents, Goto, Points
<1>7. ASSUME NEW c \in Callers, Fresh(c) PROVE TypeInv'
  BY <1>0, <1>6, <1>7 DEF Fresh, Points
<1>8. ASSUME NEW c \in Callers, Continue(c) PROVE TypeInv'
  BY <1>0, <1>6, <1>8 DEF Continue, Contents, Points
<1>9. ASSUME NEW c \in Callers, Restart(c) PROVE TypeInv'
  <2>1. faults' \in 0..setting'.max
    BY <1>0, <1>9, FaultType DEF Restart
  <2>2. CASE Held(c) /\ Raise(c) /\ UNCHANGED partial
    BY <1>0, <1>9, <2>1, <2>2, RaiseType DEF Restart, CallType, NoNewWriter
  <2>3. CASE /\ ~Held(c) /\ partial' = None /\ Goto(c, "restarted")
             /\ offset' = [offset EXCEPT ![c] = 0]
             /\ UNCHANGED <<try, again, digest, body, written>>
    <3>1. pc' \in [Callers -> Points] /\ NoNewWriter
      BY <2>3, GotoType DEF Points
    <3>2. QED
      BY <1>0, <1>9, <2>1, <2>3, <3>1 DEF Restart, Held, Contents, NoNewWriter
  <2>4. QED
    BY <1>0, <1>9, <2>2, <2>3 DEF Restart
<1>10. ASSUME NEW c \in Callers, BadRange(c) PROVE TypeInv'
  <2>1. faults' \in 0..setting'.max
    BY <1>0, <1>10, FaultType DEF BadRange
  <2>2. CASE Held(c) /\ Raise(c) /\ UNCHANGED partial
    BY <1>0, <1>10, <2>1, <2>2, RaiseType DEF BadRange, CallType, NoNewWriter
  <2>3. CASE ~Held(c) /\ partial' = None /\ again[c] /\ NextTry(c)
    <3>1. CallType' /\ NoNewWriter
      BY <2>3, NextTryType DEF CallType
    <3>2. QED
      BY <1>0, <1>10, <2>1, <2>3, <3>1 DEF BadRange, Held, Contents, CallType, NoNewWriter
  <2>4. CASE /\ ~Held(c) /\ partial' = None /\ Goto(c, "ask")
             /\ again' = [again EXCEPT ![c] = TRUE]
             /\ UNCHANGED <<try, offset, digest, body, written>>
    <3>1. pc' \in [Callers -> Points] /\ NoNewWriter
      BY <2>4, GotoType DEF Points
    <3>2. QED
      BY <1>0, <1>10, <2>1, <2>4, <3>1 DEF BadRange, Held, Contents, NoNewWriter
  <2>5. QED
    BY <1>0, <1>10, <2>2, <2>3, <2>4 DEF BadRange
<1>11. ASSUME NEW c \in Callers, Write(c) PROVE TypeInv'
  <2>1. partial \in Seq(Nat) /\ body[c] \in Seq(Nat) /\ body[c] # <<>>
    BY <1>0, <1>11 DEF Write, Contents
  <2>2. Head(body[c]) \in Nat /\ Tail(body[c]) \in Seq(Nat)
    BY <2>1
  <2>3. (IF offset[c] > 0 THEN Len(partial) + 1 ELSE written[c] + 1) \in Nat \ {0}
    BY <2>1
  <2>4. partial' \in Seq(Nat)
    BY <1>0, <1>11, <2>1, <2>2, <2>3, PutType DEF Write
  <2>5. QED
    BY <1>0, <1>11, <2>2, <2>4, NoneAssumption DEF Write, Contents
<1>12. ASSUME NEW c \in Callers, Break(c) PROVE TypeInv'
  <2>1. CallType' /\ NoNewWriter
    BY <1>0, <1>12, NextTryType DEF Break, CallType
  <2>2. faults' \in 0..setting'.max
    BY <1>0, <1>12, FaultType DEF Break
  <2>3. QED
    BY <1>0, <1>12, <2>1, <2>2 DEF Break, CallType, NoNewWriter
<1>13. ASSUME NEW c \in Callers, Finish(c) PROVE TypeInv'
  BY <1>0, <1>13 DEF Finish, Points, Goto, Raise, Fault
<1>14. ASSUME NEW c \in Callers, CheckSize(c) PROVE TypeInv'
  BY <1>0, <1>14 DEF CheckSize, Points, Goto, Raise, Fault
<1>15. ASSUME NEW c \in Callers, CheckHash(c) PROVE TypeInv'
  BY <1>0, <1>15 DEF CheckHash, Points, Goto, Raise, Fault
<1>16. ASSUME NEW c \in Callers, Commit(c) PROVE TypeInv'
  BY <1>0, <1>16 DEF Commit, Held, Contents, Points, Goto, Raise
<1>17. ASSUME NEW c \in Callers, Return(c) PROVE TypeInv'
  BY <1>0, <1>17 DEF Return, Points, Goto, Raise, Fault
<1>18. ASSUME NEW c \in Callers, Crash(c) PROVE TypeInv'
  <2>1. faults' \in 0..setting'.max
    BY <1>0, <1>18, FaultType DEF Crash
  <2>2. QED
    BY <1>0, <1>18, <2>1 DEF Crash, Points, Goto, Raise
<1>19. QED
  BY SettingType, <1>0, <1>1, <1>2, <1>3, <1>4, <1>5, <1>7, <1>8, <1>9, <1>10, <1>11, <1>12,
     <1>13, <1>14, <1>15, <1>16, <1>17, <1>18 DEF Next, Step, Answer

\* Every variable keeps its type, however many callers share the cache: the
\* lengths the code computes with are lengths of files that exist.
THEOREM DownloadTypes == Spec => []TypeOK
<1>1. TypeInv => TypeOK
  BY DEF TypeInv
<1>2. QED
  BY InitType, NextTypes, <1>1, PTL DEF Spec

-----------------------------------------------------------------------------
(***************************************************************************)
(* A caller alone on its file.  Between the digest check and the rename    *)
(* nobody else touches the partial, so what is renamed is what was         *)
(* checked; with two callers this is false, and the shared run shows how.  *)
(***************************************************************************)
\* What the rename publishes has been verified, what a receipt describes is in
\* place, and what is about to be unlinked is not the pinned content.
VerifiedInv ==
  Alone /\ ShaKnown => \A c \in setting.callers :
                         /\ pc[c] = "rename" => partial = Good
                         /\ pc[c] = "done" => target = Good
                         /\ pc[c] = "unlink" => target # Good

Inductive == TypeInv /\ VerifiedInv

LEMMA InitVerified == Init => VerifiedInv
  BY SettingType DEF Init, VerifiedInv

\* A step that leaves its caller before the digest check, or sends it back,
\* publishes nothing and promises nothing.
LEMMA QuietStep ==
  ASSUME Alone, UNCHANGED setting, NEW c \in setting.callers,
         pc'[c] \notin {"rename", "done", "unlink"}
  PROVE  VerifiedInv'
  BY DEF Alone, VerifiedInv

LEMMA QuietNextTry ==
  ASSUME TypeInv, NEW c \in Callers, NextTry(c)
  PROVE  pc'[c] \notin {"rename", "done", "unlink"}
  BY DEF NextTry, Raise, Goto, TypeInv, TypeOK

LEMMA NextVerified ==
  ASSUME Alone, ShaKnown, Inductive, [Next]_vars
  PROVE  VerifiedInv' /\ (Atomic!Next \/ UNCHANGED target)
<1> USE DEF Inductive
<1>0. /\ pc \in [Callers -> Points] /\ pc' \in [Callers -> Points]
      /\ UNCHANGED setting /\ setting.callers \subseteq Callers
  BY NextTypes, SettingType DEF TypeInv, TypeOK, Next, vars
<1>1. CASE UNCHANGED vars
  BY <1>1 DEF vars, VerifiedInv
<1>2. ASSUME NEW c \in setting.callers, UNCHANGED target,
             pc'[c] \notin {"rename", "done", "unlink"}
      PROVE  VerifiedInv' /\ (Atomic!Next \/ UNCHANGED target)
  BY <1>0, <1>2, QuietStep
<1>3. ASSUME NEW c \in setting.callers, Judge(c)
      PROVE  VerifiedInv' /\ (Atomic!Next \/ UNCHANGED target)
  BY <1>0, <1>3, GoodType DEF Judge, Goto, DigestOK, VerifiedInv, Alone
<1>4. ASSUME NEW c \in setting.callers, UnlinkTarget(c)
      PROVE  VerifiedInv' /\ (Atomic!Next \/ UNCHANGED target)
  <2>1. pc'[c] \notin {"rename", "done", "unlink"}
    BY <1>0, <1>4 DEF UnlinkTarget, Raise, Goto
  <2>2. target # Good /\ (target' = None \/ UNCHANGED target)
    BY <1>0, <1>4 DEF UnlinkTarget, VerifiedInv
  <2>3. Atomic!Next \/ UNCHANGED target
    BY <2>2 DEF Atomic!Next, Atomic!Discard
  <2>4. QED
    BY <1>0, <2>1, <2>3, QuietStep
<1>5. ASSUME NEW c \in setting.callers, Look(c) \/ Ask(c) \/ Finish(c) \/ Return(c)
      PROVE  UNCHANGED target /\ pc'[c] \notin {"rename", "done", "unlink"}
  BY <1>0, <1>5 DEF Look, Ask, Finish, Return, Goto
<1>6. ASSUME NEW c \in setting.callers, Refused(c) \/ Break(c)
      PROVE  UNCHANGED target /\ pc'[c] \notin {"rename", "done", "unlink"}
  BY <1>0, <1>6, QuietNextTry DEF Refused, Break
<1>7. ASSUME NEW c \in setting.callers, Fresh(c) \/ Continue(c)
      PROVE  UNCHANGED target /\ pc'[c] \notin {"rename", "done", "unlink"}
  BY <1>0, <1>7 DEF Fresh, Continue, Receive, Goto
<1>8. ASSUME NEW c \in setting.callers, Restart(c) \/ BadRange(c)
      PROVE  UNCHANGED target /\ pc'[c] \notin {"rename", "done", "unlink"}
  BY <1>0, <1>8, QuietNextTry DEF Restart, BadRange, Raise, Goto
<1>9. ASSUME NEW c \in setting.callers, Write(c)
      PROVE  UNCHANGED target /\ pc'[c] \notin {"rename", "done", "unlink"}
  BY <1>0, <1>9 DEF Write
<1>10. ASSUME NEW c \in setting.callers, CheckSize(c) \/ Prune(c) \/ Crash(c)
       PROVE  UNCHANGED target /\ pc'[c] \notin {"rename", "done", "unlink"}
  BY <1>0, <1>10 DEF CheckSize, Prune, FirstTry, Crash, Raise, Goto
<1>11. ASSUME NEW c \in setting.callers, CheckHash(c)
       PROVE  VerifiedInv' /\ (Atomic!Next \/ UNCHANGED target)
  <2>1. CASE partial # None /\ DigestOK(partial)
    BY <1>0, <1>11, <2>1 DEF CheckHash, Goto, DigestOK, VerifiedInv, Alone
  <2>2. CASE ~(partial # None /\ DigestOK(partial))
    <3>1. UNCHANGED target /\ pc'[c] = "idle"
      BY <1>0, <1>11, <2>2 DEF CheckHash, Raise, Goto
    <3>2. QED
      BY <1>2, <3>1
  <2>3. QED
    BY <2>1, <2>2
<1>12. ASSUME NEW c \in setting.callers, Commit(c)
       PROVE  VerifiedInv' /\ (Atomic!Next \/ UNCHANGED target)
  <2>1. CASE target' = partial /\ Goto(c, "done")
    <3>1. target' = Good
      BY <1>12, <2>1 DEF Commit, VerifiedInv
    <3>2. Atomic!Next
      BY <1>0, <3>1 DEF Atomic!Next, Atomic!Publish, Alone
    <3>3. VerifiedInv'
      BY <1>0, <2>1, <3>1 DEF Goto, VerifiedInv, Alone
    <3>4. QED
      BY <3>2, <3>3
  <2>2. CASE Raise(c) /\ UNCHANGED target
    <3>1. pc'[c] = "idle"
      BY <1>0, <2>2 DEF Raise, Goto
    <3>2. QED
      BY <1>2, <2>2, <3>1
  <2>3. QED
    BY <1>12, <2>1, <2>2 DEF Commit
<1>13. QED
  <2>1. ASSUME NEW c \in setting.callers, Step(c) \/ Crash(c)
        PROVE  VerifiedInv' /\ (Atomic!Next \/ UNCHANGED target)
    BY <2>1, <1>2, <1>3, <1>4, <1>5, <1>6, <1>7, <1>8, <1>9, <1>10, <1>11,
       <1>12 DEF Step, Answer
  <2>2. QED
    BY <1>1, <2>1 DEF Next, vars

LEMMA NextInductive ==
  ASSUME ShaKnown, Inductive, [Next]_vars
  PROVE  Inductive' /\ [Atomic!Next]_(IF Alone THEN target ELSE None)
<1>1. Alone' = Alone
  BY DEF Next, vars, Alone
<1>2. CASE Alone
  BY <1>1, <1>2, NextTypes, NextVerified DEF Inductive
<1>3. CASE ~Alone
  BY <1>1, <1>3, NextTypes DEF Inductive, VerifiedInv
<1>4. QED
  BY <1>2, <1>3

\* A caller alone on its file, whatever the network does and however often
\* its process dies, returns a receipt only for the pinned content.
THEOREM ReceiptsAreTrue ==
  ASSUME ShaKnown
  PROVE  Spec => []ReceiptIsTrue
<1>1. Init => Inductive
  BY InitType, InitVerified DEF Inductive
<1>2. Inductive => ReceiptIsTrue
  BY DEF Inductive, VerifiedInv, ReceiptIsTrue
<1>3. QED
  BY <1>1, NextInductive, <1>2, PTL DEF Spec

\* Alone on its file, the download implements the atomic file: no step shows
\* a target that is neither what was there, nothing, nor the whole content.
THEOREM DownloadIsAtomic ==
  ASSUME ShaKnown
  PROVE  Spec => CommitsAtomically
<1>1. Init => Inductive /\ Atomic!Init
  BY InitType, InitVerified DEF Inductive, Atomic!Init
<1>2. QED
  BY <1>1, NextInductive, PTL DEF Spec, Atomic!Spec, CommitsAtomically
-----------------------------------------------------------------------------
(***************************************************************************)
(* Where the blocks of a resumed download lie, for a caller alone on its   *)
(* file: what it has yet to receive continues what the partial holds.      *)
(***************************************************************************)
\* The blocks of f belong behind the first n of the file, or are a mirror's own.
Fits(f, n) == \A j \in 1..Len(f) : f[j] \in {Bad, n + j}

PlacesInv ==
  Alone =>
    /\ partial # None => Fits(partial, 0)
    /\ \A c \in setting.callers :
         /\ pc[c] = "answer" => offset[c] = BytesOf(partial)
         /\ pc[c] = "restarted" => offset[c] = 0
         /\ pc[c] = "write" =>
              /\ Fits(body[c], Len(partial))
              /\ offset[c] = 0 => written[c] = Len(partial)

\* Whatever a server sends from block n on fits there.
LEMMA BodiesFit ==
  ASSUME NEW n \in 0..Size, NEW b \in Bodies(n)
  PROVE  Fits(b[1], n)
<1> USE SizeAssumption
<1>1. CASE b = <<From(Good, n), "none">>
  BY <1>1 DEF From, Good, Fits
<1>2. ASSUME NEW m \in n..(Size - 1), b = <<SubSeq(Good, n + 1, m), "short">>
      PROVE  Fits(b[1], n)
  BY <1>2 DEF Good, Fits
<1>3. ASSUME NEW m \in 1..(Size + 1 - n), b = <<Wrong(m), "other">>
      PROVE  Fits(b[1], n)
  BY <1>3 DEF Wrong, Fits
<1>4. QED
  BY <1>1, <1>2, <1>3 DEF Bodies

\* A block appended to blocks in place is in place if it fits behind them, and
\* what follows it fits behind both.
LEMMA PutFits ==
  ASSUME NEW f \in Seq(Nat), Fits(f, 0), NEW g \in Seq(Nat), g # <<>>, Fits(g, Len(f))
  PROVE  LET h == Put(f, Len(f) + 1, Head(g))
         IN  /\ h \in Seq(Nat) /\ Len(h) = Len(f) + 1
             /\ Fits(h, 0)
             /\ Fits(Tail(g), Len(h))
<1> DEFINE h == Put(f, Len(f) + 1, Head(g))
<1>1. h = [k \in 1..(Len(f) + 1) |-> IF k = Len(f) + 1 THEN Head(g)
                                     ELSE IF k <= Len(f) THEN f[k] ELSE Bad]
  BY DEF Put
<1>2. /\ Head(g) = g[1] /\ 1 \in 1..Len(g) /\ Head(g) \in Nat
      /\ Len(f) \in Nat /\ Len(g) \in Nat
  OBVIOUS
<1>3. h \in Seq(Nat) /\ Len(h) = Len(f) + 1
  BY <1>1, <1>2 DEF Bad
<1>4. Fits(h, 0)
  <2>1. g[1] \in {Bad, Len(f) + 1} /\ Len(f) + 1 \in 1..(Len(f) + 1)
    BY <1>2 DEF Fits
  <2>2. ASSUME NEW j \in 1..(Len(f) + 1) PROVE h[j] \in {Bad, 0 + j}
    <3>1. CASE j = Len(f) + 1
      <4>1. h[j] = Head(g)
        BY <1>1, <3>1
      <4>2. 0 + j = Len(f) + 1
        BY <3>1
      <4>3. QED
        BY <1>2, <2>1, <4>1, <4>2
    <3>2. CASE j # Len(f) + 1
      <4>1. j \in 1..Len(f) /\ j <= Len(f)
        BY <1>2, <3>2
      <4>2. h[j] = f[j]
        BY <1>1, <3>2, <4>1
      <4>3. f[j] \in {Bad, 0 + j}
        BY <4>1 DEF Fits
      <4>4. QED
        BY <4>2, <4>3
    <3>3. QED
      BY <3>1, <3>2
  <2>3. QED
    <3>1. 1..Len(h) = 1..(Len(f) + 1)
      BY <1>3
    <3>2. QED
      BY <2>2, <3>1 DEF Fits
<1>5. Fits(Tail(g), Len(h))
  <2>1. /\ Len(Tail(g)) = Len(g) - 1
        /\ \A i \in 1..(Len(g) - 1) : Tail(g)[i] = g[i + 1]
    BY HeadTailProperties
  <2>2. ASSUME NEW j \in 1..Len(Tail(g)) PROVE Tail(g)[j] \in {Bad, Len(h) + j}
    <3>1. j \in 1..(Len(g) - 1) /\ j + 1 \in 1..Len(g)
      BY <1>2, <2>1
    <3>2. Tail(g)[j] = g[j + 1]
      BY <2>1, <3>1
    <3>3. g[j + 1] \in {Bad, Len(f) + (j + 1)}
      BY <3>1 DEF Fits
    <3>4. Len(f) + (j + 1) = Len(h) + j
      <4>1. Len(f) \in Nat /\ j \in Nat
        BY <1>2, <3>1
      <4>2. (Len(f) + 1) + j = Len(f) + (j + 1)
        BY <4>1
      <4>3. QED
        BY <1>3, <4>2
    <3>5. QED
      BY <3>2, <3>3, <3>4
  <2>3. QED
    BY <2>2 DEF Fits
<1>6. QED
  BY <1>3, <1>4, <1>5

\* A caller that leaves the point where it reads or writes, the partial as it was.
LEMMA BlocksUntouched ==
  ASSUME Alone, PlacesInv, UNCHANGED setting, NEW c \in setting.callers,
         partial' = partial \/ partial' = None,
         pc'[c] \notin {"answer", "restarted", "write"}
  PROVE  PlacesInv'
BY DEF PlacesInv, Alone

LEMMA NextTryPoints ==
  ASSUME CallType, NEW c \in Callers, NextTry(c) \/ Raise(c)
  PROVE  pc'[c] \in {"ask", "idle"}
BY DEF CallType, NextTry, Raise, Goto

LEMMA NextPlaces ==
  ASSUME TypeInv, PlacesInv, [Next]_vars
  PROVE  PlacesInv'
<1> USE SizeAssumption, NoneAssumption
<1>0. /\ UNCHANGED setting /\ Alone' = Alone /\ setting.callers \subseteq Callers
      /\ CallType /\ partial \in Contents
  BY SettingType DEF Next, vars, Alone, TypeInv, TypeOK, CallType
<1>1. CASE UNCHANGED vars \/ ~Alone
  BY <1>0, <1>1 DEF vars, PlacesInv, BytesOf
<1>2. CASE Alone /\ \E c \in setting.callers : Step(c) \/ Crash(c)
  <2> PICK c \in setting.callers : Step(c) \/ Crash(c)
    BY <1>2
  <2>0. c \in Callers /\ Alone
    BY <1>0, <1>2
  <2>1. CASE Look(c) \/ Judge(c) \/ UnlinkTarget(c) \/ Prune(c)
    BY <1>0, <2>0, <2>1, BlocksUntouched
       DEF Look, Judge, UnlinkTarget, Prune, FirstTry, Raise, Goto, CallType
  <2>2. CASE Ask(c)
    <3>1. pc'[c] = "answer" /\ offset'[c] = BytesOf(partial) /\ partial' = partial
      BY <1>0, <2>0, <2>2 DEF Ask, Goto, CallType
    <3>2. QED
      BY <1>0, <2>0, <3>1 DEF PlacesInv, Alone, BytesOf
  <2>3. CASE Refused(c) \/ Break(c)
    BY <1>0, <2>0, <2>3, BlocksUntouched, NextTryPoints DEF Refused, Break
  <2>4. ASSUME NEW n \in 0..Size, Receive(c, n), partial' \in Seq(Nat), Len(partial') = n,
               Fits(partial', 0), offset[c] = n
        PROVE  PlacesInv'
    <3>1. PICK b \in Bodies(n) :
            /\ body' = [body EXCEPT ![c] = b[1]]
            /\ written' = [written EXCEPT ![c] = 0]
            /\ Goto(c, "write")
            /\ UNCHANGED offset
      BY <2>4 DEF Receive
    <3>2. pc'[c] = "write" /\ body'[c] = b[1] /\ written'[c] = 0 /\ offset'[c] = n
      BY <1>0, <2>0, <2>4, <3>1 DEF CallType, Goto
    <3>3. Fits(body'[c], Len(partial'))
      BY <2>4, <3>2, BodiesFit
    <3>4. QED
      BY <1>0, <2>0, <2>4, <3>2, <3>3 DEF PlacesInv, Alone
  <2>5. CASE Fresh(c)
    <3>1. offset[c] = 0
      BY <2>0, <2>5 DEF Fresh, PlacesInv
    <3>2. partial' = <<>> /\ Receive(c, 0) /\ Fits(<<>>, 0)
      BY <2>5 DEF Fresh, Fits
    <3>3. QED
      BY <2>4, <3>1, <3>2
  <2>6. CASE Continue(c)
    <3>1. offset[c] = BytesOf(partial) /\ offset[c] \in 1..(Size - 1)
      BY <2>0, <2>6 DEF Continue, PlacesInv
    <3>2. partial # None /\ partial' = partial /\ Len(partial) = offset[c] /\ partial \in Seq(Nat)
      BY <1>0, <2>6, <3>1 DEF Continue, BytesOf, Contents
    <3>3. Fits(partial', 0) /\ Receive(c, offset[c])
      BY <2>0, <2>6, <3>2 DEF PlacesInv, Continue
    <3>4. QED
      BY <2>4, <3>1, <3>2, <3>3
  <2>7. CASE Restart(c)
    <3>1. CASE Raise(c) /\ UNCHANGED partial
      BY <1>0, <2>0, <3>1, BlocksUntouched, NextTryPoints
    <3>2. CASE partial' = None /\ offset' = [offset EXCEPT ![c] = 0] /\ Goto(c, "restarted")
      BY <1>0, <2>0, <3>2 DEF PlacesInv, Alone, Goto, CallType
    <3>3. QED
      BY <2>7, <3>1, <3>2 DEF Restart
  <2>8. CASE BadRange(c)
    <3>1. pc'[c] \in {"ask", "idle"}
      BY <1>0, <2>0, <2>8, NextTryPoints DEF BadRange, Goto, CallType
    <3>2. QED
      BY <1>0, <2>0, <2>8, <3>1, BlocksUntouched DEF BadRange
  <2>9. CASE Write(c)
    <3>1. /\ pc[c] = "write" /\ partial \in Seq(Nat) /\ partial # None
          /\ body[c] \in Seq(Nat) /\ body[c] # <<>> /\ offset[c] \in Nat /\ written[c] \in Nat
      BY <1>0, <2>0, <2>9 DEF Write, TypeInv, WritersHaveFile, CallType, Contents
    <3>2. /\ Fits(partial, 0) /\ Fits(body[c], Len(partial))
          /\ offset[c] = 0 => written[c] = Len(partial)
      BY <2>0, <3>1 DEF PlacesInv
    <3>3. (IF offset[c] > 0 THEN Len(partial) + 1 ELSE written[c] + 1) = Len(partial) + 1
      BY <3>1, <3>2
    <3>4. /\ partial' = Put(partial, Len(partial) + 1, Head(body[c]))
          /\ body'[c] = Tail(body[c]) /\ written'[c] = written[c] + 1
          /\ pc' = pc /\ offset' = offset
      BY <1>0, <2>0, <2>9, <3>3 DEF Write, CallType
    <3>5. Len(partial') = Len(partial) + 1 /\ Fits(partial', 0) /\ Fits(body'[c], Len(partial'))
      BY <3>1, <3>2, <3>4, PutFits
    <3>6. QED
      BY <1>0, <2>0, <3>1, <3>2, <3>4, <3>5 DEF PlacesInv, Alone
  <2>10. CASE Finish(c) \/ CheckSize(c) \/ CheckHash(c) \/ Return(c) \/ Crash(c)
    BY <1>0, <2>0, <2>10, BlocksUntouched
       DEF Finish, CheckSize, CheckHash, Return, Crash, Raise, Goto, CallType
  <2>11. CASE Commit(c)
    BY <1>0, <2>0, <2>11, BlocksUntouched DEF Commit, Raise, Goto, CallType
  <2>12. QED
    BY <2>1, <2>2, <2>3, <2>5, <2>6, <2>7, <2>8, <2>9, <2>10, <2>11 DEF Step, Answer
<1>3. QED
  BY <1>1, <1>2 DEF Next

LEMMA InitPlaces == Init => PlacesInv
BY SettingType DEF Init, PlacesInv

\* A download that is resumed by a caller alone on its file (the condition of
\* BlocksInPlace) never puts a block where another belongs, for every
\* size, number of tries and kind of fault, with or without a pinned digest.
THEOREM BlocksAreInPlace == Spec => []BlocksInPlace
<1>1. PlacesInv => BlocksInPlace
  BY DEF PlacesInv, BlocksInPlace, Fits
<1>2. QED
  BY InitType, NextTypes, InitPlaces, NextPlaces, <1>1, PTL DEF Spec

-----------------------------------------------------------------------------
(***************************************************************************)
(* Two callers of one file.  Once the target is complete one of them is    *)
(* through, or finds it right; what the other has checked nobody else      *)
(* writes.  With a third caller one truncates what another checked.  What  *)
(* the two cannot rule out is a verdict on the file that was there before. *)
(***************************************************************************)
Through == {"idle", "judge", "done"}
PairInv ==
  /\ \A c \in setting.callers : pc[c] = "unlink" => digest[c] # Good
  /\ target = Good =>
       \E c \in setting.callers :
         /\ pc[c] \in Through
         /\ \A d \in setting.callers \ {c} : pc[d] = "rename" => partial \in {None, Good}

\* What a step may do to the target: unlink it, which only a caller that failed its
\* digest does, or replace it by the partial.  Only the digest check leads to the rename.
LEMMA TargetStep ==
  ASSUME ShaKnown, CallType, NEW c \in Callers, Step(c) \/ Crash(c)
  PROVE  /\ \A d \in Callers \ {c} : pc'[d] = pc[d] /\ digest'[d] = digest[d]
         /\ \/ target' = target
            \/ target' = None /\ pc[c] = "unlink" /\ pc'[c] = "prune"
            \/ target' = partial /\ partial # None /\ partial' = None /\ pc[c] = "rename"
               /\ pc'[c] = "done"
         /\ target = Good /\ pc[c] \in Through =>
              pc'[c] \in Through /\ UNCHANGED <<target, partial>>
         /\ pc'[c] = "rename" => partial' = Good
         /\ pc'[c] = "unlink" => digest'[c] # Good
<1> USE DEF CallType, Through
<1>1. CASE Look(c) \/ Finish(c) \/ Return(c) \/ Ask(c) \/ CheckSize(c)
  BY <1>1, GoodType DEF Look, Finish, Return, Ask, CheckSize, Raise, Goto
<1>2. CASE Judge(c)
  BY <1>2 DEF Judge, Goto, DigestOK
<1>3. CASE UnlinkTarget(c)
  BY <1>3 DEF UnlinkTarget, Raise, Goto
<1>4. CASE Prune(c)
  BY <1>4 DEF Prune, FirstTry, Raise, Goto
<1>5. CASE Refused(c) \/ Break(c)
  BY <1>5 DEF Refused, Break, NextTry, Raise, Goto
<1>6. CASE Fresh(c) \/ Continue(c)
  BY <1>6 DEF Fresh, Continue, Receive, Goto
<1>7. CASE Restart(c) \/ BadRange(c)
  BY <1>7 DEF Restart, BadRange, NextTry, Raise, Goto
<1>8. CASE Write(c)
  BY <1>8 DEF Write
<1>9. CASE CheckHash(c)
  BY <1>9 DEF CheckHash, Raise, Goto, DigestOK
<1>10. CASE Commit(c)
  BY <1>10 DEF Commit, Raise, Goto
<1>11. CASE Crash(c)
  BY <1>11 DEF Crash, Raise, Goto
<1>12. QED
  BY <1>1, <1>2, <1>3, <1>4, <1>5, <1>6, <1>7, <1>8, <1>9, <1>10, <1>11 DEF Step, Answer

LEMMA NextPair ==
  ASSUME ShaKnown, NEW a, NEW b, setting.callers \subseteq {a, b},
         TypeInv, PairInv, [Next]_vars
  PROVE  PairInv' /\ KeepsStep
<1>0. UNCHANGED setting /\ setting.callers \subseteq Callers /\ CallType
  BY SettingType DEF Next, vars, TypeInv, TypeOK, CallType
<1>1. CASE UNCHANGED vars
  BY <1>1 DEF vars, PairInv, KeepsStep
<1>2. ASSUME NEW e \in setting.callers, Step(e) \/ Crash(e)
      PROVE  PairInv' /\ KeepsStep
  <2>0. /\ \A d \in setting.callers \ {e} : pc'[d] = pc[d] /\ digest'[d] = digest[d]
        /\ \/ target' = target
           \/ target' = None /\ pc[e] = "unlink" /\ pc'[e] = "prune"
           \/ target' = partial /\ partial # None /\ partial' = None /\ pc[e] = "rename"
              /\ pc'[e] = "done"
        /\ target = Good /\ pc[e] \in Through =>
             pc'[e] \in Through /\ UNCHANGED <<target, partial>>
        /\ pc'[e] = "rename" => partial' = Good
        /\ pc'[e] = "unlink" => digest'[e] # Good
    BY <1>0, <1>2, TargetStep
  <2>1. \A c \in setting.callers : pc'[c] = "unlink" => digest'[c] # Good
    BY <2>0 DEF PairInv
  <2>2. CASE target = Good
    <3>1. PICK c \in setting.callers :
            /\ pc[c] \in Through
            /\ \A d \in setting.callers \ {c} : pc[d] = "rename" => partial \in {None, Good}
      BY <2>2 DEF PairInv
    <3>2. CASE target' = None /\ pc[e] = "unlink" /\ pc'[e] = "prune"
      BY <1>0, <2>1, <3>2, GoodType DEF PairInv, KeepsStep, FoundStale
    <3>3. CASE e = c
      BY <1>0, <2>0, <2>1, <2>2, <3>1, <3>3 DEF PairInv, KeepsStep
    <3>4. CASE e # c /\ pc[e] # "unlink"
      <4>1. target' = Good
        BY <2>0, <2>2, <3>1, <3>4
      <4>2. pc'[c] \in Through
        BY <2>0, <3>1, <3>4
      <4>3. \A d \in setting.callers \ {c} : d = e
        BY <3>4
      <4>4. QED
        BY <1>0, <2>0, <2>1, <4>1, <4>2, <4>3 DEF PairInv, KeepsStep
    <3>5. CASE e # c /\ pc[e] = "unlink" /\ target' = target
      <4>1. pc'[c] \in Through /\ \A d \in setting.callers \ {c} : d = e
        BY <2>0, <3>1, <3>5
      <4>2. QED
        BY <1>0, <2>0, <2>1, <2>2, <3>5, <4>1 DEF PairInv, KeepsStep
    <3>6. QED
      BY <2>0, <3>2, <3>3, <3>4, <3>5
  <2>3. CASE target # Good
    <3>1. target' = Good => partial' = None /\ pc'[e] = "done"
      BY <2>0, <2>3, GoodType
    <3>2. QED
      BY <1>0, <2>1, <2>3, <3>1 DEF PairInv, KeepsStep, Through
  <2>4. QED
    BY <2>2, <2>3
<1>3. QED
  BY <1>1, <1>2 DEF Next

LEMMA InitPair == Init => PairInv
<1>1. ASSUME Init, target = Good PROVE FALSE
  <2>1. target = Wrong(Size)
    BY <1>1, GoodType DEF Init, Stale
  <2>2. Good[1] = 1 /\ Wrong(Size)[1] = 0
    BY SizeAssumption DEF Good, Wrong, Bad
  <2>3. QED
    BY <1>1, <2>1, <2>2
<1>2. ASSUME Init PROVE \A c \in setting.callers : pc[c] # "unlink"
  BY <1>2, SettingType DEF Init
<1>3. QED
  BY <1>1, <1>2 DEF PairInv

\* Two callers that share the cache never replace a complete target by anything that
\* is not complete, and take it away only by the unlink of a caller whose digest was
\* of the file that lay there before.
THEOREM PairsKeepComplete ==
  ASSUME ShaKnown, \A s \in Settings : \E a, b : s.callers \subseteq {a, b}
  PROVE  Spec => KeepsComplete
<1>1. TypeInv /\ PairInv /\ [Next]_vars => PairInv' /\ [KeepsStep]_target
  <2> SUFFICES ASSUME TypeInv, PairInv, [Next]_vars
               PROVE  PairInv' /\ [KeepsStep]_target
    OBVIOUS
  <2>1. PICK a, b : setting.callers \subseteq {a, b}
    BY DEF TypeInv, TypeOK
  <2>2. QED
    BY <2>1, NextPair
<1>2. [KeepsStep]_target => [KeepsStep]_target
  BY DEF KeepsStep, KeepsStep
<1>3. QED
  BY InitType, NextTypes, InitPair, <1>1, <1>2, PTL DEF Spec, KeepsComplete
=============================================================================
