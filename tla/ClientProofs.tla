------------------------------ MODULE ClientProofs ------------------------------
(***************************************************************************)
(* TLAPS proofs about what the client machine does on its own account: a   *)
(* file it sends (ResumableUpload) and the conversations it holds          *)
(* (ChatDesktop), which share no state.                                    *)
(*                                                                         *)
(* The upload, for every file size and any number of faults: types, true   *)
(* receipts, an atomic destination unless a digest fails on a server       *)
(* without posix-rename, and that what a partial already has is kept.      *)
(*                                                                         *)
(* The chat, for any deployments, pages, settings, tunnels and prompts:    *)
(* types, readable answers, true histories, and tunnels that are held.     *)
(***************************************************************************)
EXTENDS ResumableUpload, ChatDesktop, SequenceTheorems, WellFoundedInduction, TLAPS

(* The upload.                                                             *)

LEMMA FileTypes ==
  /\ Good \in Seq(Nat) /\ Len(Good) = Size
  /\ Damaged \in Seq(Nat) /\ Len(Damaged) = Size /\ Damaged # Good
  /\ Truncated \in Seq(Nat) /\ Len(Truncated) = Size - 1
<1>1. Good \in Seq(Nat) /\ Len(Good) = Size
  BY SizeAssumption DEF Good
<1>2. Damaged \in Seq(Nat) /\ Len(Damaged) = Size /\ Damaged[Size] = 0
  BY <1>1, SizeAssumption DEF Damaged, Bad
<1>3. Good[Size] = Size
  BY SizeAssumption DEF Good
<1>4. Truncated \in Seq(Nat) /\ Len(Truncated) = Size - 1
  BY <1>1, SizeAssumption DEF Truncated
<1>5. QED
  BY <1>1, <1>2, <1>3, <1>4, SizeAssumption

\* What is read of a local file.
LEMMA SourceType ==
  ASSUME NEW f \in LocalFiles
  PROVE  f \in Seq(Nat) /\ Len(f) \in 0..Size
  BY FileTypes, SizeAssumption DEF LocalFiles

LEMMA BytesType ==
  ASSUME NEW f \in Contents
  PROVE  BytesOf(f) \in Nat /\ (BytesOf(f) > 0 => f \in Seq(Nat))
  BY MissingAssumption DEF Contents, BytesOf

LEMMA EmptyIsAFile == <<>> \in Seq(Nat) /\ <<>> # Missing
<1>1. <<>> \in Seq(Nat)
  OBVIOUS
<1>2. QED
  BY <1>1, MissingAssumption

-----------------------------------------------------------------------------
\* The partial is there while the call appends to it.
HasPartial ==
  /\ pc \in {"prefix", "write"} => partial # Missing
  /\ pc = "open" /\ offset > 0 => partial # Missing
TypeInv == UploadTypeOK /\ HasPartial

\* What the rename publishes has been verified, what a receipt describes is in
\* place, and a call that sends has not found the destination committed.
VerifiedInv ==
  /\ pc \in {"rename", "removed"} => partial = Good
  /\ pc \in {"tidy", "done"} => target = Good

\* A call that sends has not found the destination committed, and renames only
\* as much as the local file has.
SendsWhatIsMissing ==
  /\ pc \in {"hash", "rename"} => BytesOf(partial) = Len(source)
  /\ (Careful /\ "fallback" \in server.renames
      /\ pc \notin {"idle", "committed", "tidy", "done"} /\ target = Good)
       => Len(source) # Size

Inductive == TypeInv /\ VerifiedInv /\ SendsWhatIsMissing

LEMMA InitInductive == UploadInit => Inductive
  BY FileTypes, SizeAssumption, FaultsAssumption
  DEF UploadInit, Inductive, TypeInv, UploadTypeOK, HasPartial, VerifiedInv, Contents,
      SendsWhatIsMissing, Points

LEMMA FaultType ==
  ASSUME faults \in 0..MaxFaults, NEW kind, UploadFault(kind)
  PROVE  faults' \in 0..MaxFaults
  BY FaultsAssumption DEF UploadFault

LEMMA DigestType ==
  ASSUME UploadTypeOK, NEW f, NEW e, NEW s \in Points, NEW o \in Points,
         Digest(f, e, s, o)
  PROVE  /\ pc' \in Points /\ faults' \in 0..MaxFaults
         /\ pc' \in {s, o}
         /\ pc' = s /\ s # o => f = e
         /\ pc' = o /\ s # o => f # e \/ "digest" \in server.faults
  BY FaultType DEF Digest, UploadTypeOK, UploadFault

LEMMA NextTypes == TypeInv /\ [UploadNext]_uploadVars => TypeInv'
<1> SUFFICES ASSUME TypeInv, [UploadNext]_uploadVars PROVE TypeInv'
  OBVIOUS
<1> USE DEF TypeInv, UploadTypeOK, HasPartial
<1>0. /\ source \in Seq(Nat) /\ Len(source) \in 0..Size
      /\ UNCHANGED server
  BY SourceType DEF UploadNext, uploadVars
<1>1. CASE UNCHANGED uploadVars
  BY <1>1 DEF uploadVars
<1>2. CASE Start \/ Return \/ EndWrite \/ CheckSize
  BY <1>0, <1>2 DEF Start, Return, EndWrite, CheckSize, Points
<1>3. CASE CheckCommitted
  BY <1>0, <1>3, DigestType DEF CheckCommitted, Points
<1>4. CASE Tidy
  BY <1>0, <1>4 DEF Tidy, Points, Contents
<1>5. CASE StatPartial
  BY <1>0, <1>5, BytesType, SizeAssumption, MissingAssumption
  DEF StatPartial, Points, Contents, BytesOf
<1>6. CASE CheckPrefix
  BY <1>0, <1>6, DigestType DEF CheckPrefix, Points
<1>7. CASE DiscardPartial
  BY <1>0, <1>7, SizeAssumption DEF DiscardPartial, Points, Contents
<1>8. CASE OpenPartial
  <2>1. <<>> # Missing
    BY EmptyIsAFile
  <2>2. partial' \in Contents /\ partial' # Missing
    BY <1>0, <1>8, <2>1, EmptyIsAFile DEF OpenPartial, Contents
  <2>3. QED
    BY <1>0, <1>8, <2>2 DEF OpenPartial, Points
<1>9. CASE WriteBlock
  <2>1. source[offset + 1] \in Nat
    BY <1>0, <1>9 DEF WriteBlock
  <2>2. partial' \in Seq(Nat)
    BY <1>0, <1>9, <2>1 DEF WriteBlock, Contents
  <2>3. offset' \in 0..Size
    BY <1>0, <1>9, SizeAssumption DEF WriteBlock
  <2>4. QED
    BY <1>0, <1>9, <2>2, <2>3, MissingAssumption DEF WriteBlock, Contents
<1>10. CASE Tear
  <2>1. partial' \in Seq(Nat)
    BY <1>0, <1>10 DEF Tear, Contents, Bad
  <2>2. QED
    BY <1>0, <1>10, <2>1, FaultType DEF Tear, Contents, Points
<1>11. CASE CheckHash
  BY <1>0, <1>11, DigestType DEF CheckHash, Points
<1>12. CASE PosixRename \/ RemoveTarget \/ Rename
  BY <1>0, <1>12 DEF PosixRename, RemoveTarget, Rename, Points, Contents
<1>13. CASE Lose
  BY <1>0, <1>13, FaultType DEF Lose, Points
<1>14. QED
  BY <1>0, <1>1, <1>2, <1>3, <1>4, <1>5, <1>6, <1>7, <1>8, <1>9, <1>10, <1>11,
     <1>12, <1>13 DEF UploadNext, Step

LEMMA NextVerified == Inductive /\ [UploadNext]_uploadVars => VerifiedInv'
<1> SUFFICES ASSUME Inductive, [UploadNext]_uploadVars PROVE VerifiedInv'
  OBVIOUS
<1> USE DEF Inductive, VerifiedInv, TypeInv
<1>1. CASE UNCHANGED uploadVars
  BY <1>1 DEF uploadVars
<1>2. CASE Start \/ StatPartial \/ DiscardPartial \/ OpenPartial \/ WriteBlock \/ Tear
           \/ EndWrite \/ CheckSize \/ Lose \/ Return
  BY <1>2 DEF Start, StatPartial, DiscardPartial, OpenPartial, WriteBlock, Tear, EndWrite,
              CheckSize, Lose, Return
<1>3. CASE CheckCommitted
  BY <1>3, DigestType DEF CheckCommitted, Points
<1>4. CASE CheckPrefix
  BY <1>4, DigestType DEF CheckPrefix, Points
<1>5. CASE CheckHash
  BY <1>5, DigestType DEF CheckHash, Points
<1>6. CASE Tidy \/ PosixRename \/ RemoveTarget \/ Rename
  BY <1>6 DEF Tidy, PosixRename, RemoveTarget, Rename
<1>7. QED
  BY <1>1, <1>2, <1>3, <1>4, <1>5, <1>6 DEF UploadNext, Step

LEMMA NextSends == Inductive /\ [UploadNext]_uploadVars => SendsWhatIsMissing'
<1> SUFFICES ASSUME Inductive, [UploadNext]_uploadVars PROVE SendsWhatIsMissing'
  OBVIOUS
<1> USE DEF Inductive, TypeInv, SendsWhatIsMissing
<1>0. Len(Good) = Size /\ Good # Missing /\ UNCHANGED <<source, server>>
  BY FileTypes, MissingAssumption
  DEF UploadNext, Step, uploadVars, Start, CheckCommitted, Tidy, StatPartial, CheckPrefix,
      DiscardPartial, OpenPartial, WriteBlock, Tear, EndWrite, CheckSize, CheckHash,
      PosixRename, RemoveTarget, Rename, Return, Lose
<1>11. Careful' = Careful
  BY <1>0 DEF Careful
<1>1. CASE UNCHANGED uploadVars
  BY <1>11, <1>1 DEF uploadVars, BytesOf
<1>2. CASE Start
  BY <1>0, <1>11, <1>2 DEF Start
<1>3. CASE CheckCommitted
  BY <1>0, <1>11, <1>3, DigestType DEF CheckCommitted, Points, Careful
<1>4. CASE Tidy \/ StatPartial \/ DiscardPartial \/ OpenPartial \/ WriteBlock \/ Tear
           \/ EndWrite \/ Return \/ Lose
  BY <1>0, <1>11, <1>4 DEF Tidy, StatPartial, DiscardPartial, OpenPartial, WriteBlock, Tear,
                           EndWrite, Return, Lose, BytesOf
<1>5. CASE CheckPrefix
  BY <1>0, <1>11, <1>5, DigestType DEF CheckPrefix, Points, BytesOf
<1>6. CASE CheckSize
  BY <1>0, <1>11, <1>6 DEF CheckSize, BytesOf
<1>7. CASE CheckHash
  BY <1>0, <1>11, <1>7, DigestType DEF CheckHash, Points, BytesOf
<1>8. CASE PosixRename \/ RemoveTarget \/ Rename
  BY <1>0, <1>11, <1>8 DEF PosixRename, RemoveTarget, Rename
<1>9. QED
  BY <1>1, <1>2, <1>3, <1>4, <1>5, <1>6, <1>7, <1>8 DEF UploadNext, Step

LEMMA NextInductive == Inductive /\ [UploadNext]_uploadVars => Inductive'
  BY NextTypes, NextVerified, NextSends DEF Inductive

-----------------------------------------------------------------------------
\* Every variable keeps its type: the call never appends to a partial that is
\* not there and never reads past the end of the local file.
THEOREM UploadTypes == UploadSpec => []UploadTypeOK
<1>1. Inductive => UploadTypeOK
  BY DEF Inductive, TypeInv
<1>2. QED
  BY InitInductive, NextInductive, <1>1, PTL DEF UploadSpec

\* Whatever the faults and the state of the local file, a call that returns has
\* left the expected content at the destination.
THEOREM UploadReceiptsAreTrue == UploadSpec => []ReceiptIsTrue
<1>1. Inductive => ReceiptIsTrue
  BY DEF Inductive, VerifiedInv, ReceiptIsTrue
<1>2. QED
  BY InitInductive, NextInductive, <1>1, PTL DEF UploadSpec

LEMMA NextAtomic ==
  ASSUME Inductive, [UploadNext]_uploadVars
  PROVE  [Atomic!Next]_(IF Careful THEN target ELSE Missing)
<1> USE DEF Inductive
<1>0. UNCHANGED server /\ Careful' = Careful
  BY DEF UploadNext, uploadVars, Careful
<1>1. CASE PosixRename \/ Rename
  BY <1>0, <1>1
  DEF PosixRename, Rename, VerifiedInv, Atomic!Next, Atomic!Publish
<1>2. CASE Careful /\ RemoveTarget
  <2>1. Len(source) = Size
    BY <1>2, FileTypes, MissingAssumption
    DEF RemoveTarget, VerifiedInv, SendsWhatIsMissing, BytesOf
  <2>2. target # Good
    BY <1>2, <2>1 DEF RemoveTarget, SendsWhatIsMissing
  <2>3. QED
    BY <1>0, <1>2, <2>2 DEF RemoveTarget, Atomic!Next, Atomic!Discard
<1>3. CASE UNCHANGED target \/ ~Careful
  BY <1>0, <1>3
<1>4. QED
  BY <1>1, <1>2, <1>3
  DEF UploadNext, Step, uploadVars, Start, CheckCommitted, Tidy, StatPartial, CheckPrefix,
      DiscardPartial, OpenPartial, WriteBlock, Tear, EndWrite, CheckSize, CheckHash, Return,
      Lose

\* On a server that supports posix-rename, or whose sha256sum does not fail,
\* the destination changes only to nothing, from something stale, or to the
\* whole expected content.
THEOREM UploadIsAtomic == UploadSpec => CommitsAtomically
<1>1. UploadInit => Inductive /\ Atomic!Init
  BY InitInductive DEF Atomic!Init
<1>2. QED
  BY <1>1, NextInductive, NextAtomic, PTL DEF UploadSpec, Atomic!Spec, CommitsAtomically

-----------------------------------------------------------------------------
\* The offset is what was found, and what is discarded was compared with it.
FoundInv ==
  /\ pc \in {"prefix", "discard", "open"} => offset = BytesOf(partial)
  /\ pc = "discard" /\ "digest" \notin server.faults
       => partial # SubSeq(source, 1, offset)

\* A partial whose blocks are the source's is a prefix of it.
LEMMA IntactIsPrefix ==
  ASSUME NEW f \in Seq(Nat), source \in Seq(Nat), Len(f) <= Len(source), IsIntact(f)
  PROVE  f = SubSeq(source, 1, Len(f))
<1>1. /\ SubSeq(source, 1, Len(f)) \in Seq(Nat)
      /\ Len(SubSeq(source, 1, Len(f))) = Len(f)
      /\ \A k \in 1..Len(f) : SubSeq(source, 1, Len(f))[k] = source[k]
  OBVIOUS
<1>2. \A k \in 1..Len(f) : f[k] = SubSeq(source, 1, Len(f))[k]
  BY <1>1 DEF IsIntact
<1>3. QED
  BY <1>1, <1>2, SeqEqual

LEMMA NextFound == Inductive /\ FoundInv /\ [UploadNext]_uploadVars => FoundInv'
<1> SUFFICES ASSUME Inductive, FoundInv, [UploadNext]_uploadVars PROVE FoundInv'
  OBVIOUS
<1> USE DEF FoundInv
<1>0. UNCHANGED <<source, server>> /\ UploadTypeOK /\ BytesOf(Missing) = 0
  BY DEF Inductive, TypeInv, BytesOf, UploadNext, Step, uploadVars, Start, CheckCommitted,
         Tidy, StatPartial, CheckPrefix, DiscardPartial, OpenPartial, WriteBlock, Tear,
         EndWrite, CheckSize, CheckHash, PosixRename, RemoveTarget, Rename, Return,
         Lose
<1>1. CASE UNCHANGED uploadVars
  BY <1>1 DEF uploadVars, BytesOf
<1>2. CASE StatPartial
  BY <1>0, <1>2 DEF StatPartial
<1>3. CASE CheckPrefix
  BY <1>0, <1>3, DigestType DEF CheckPrefix, Points, BytesOf
<1>4. CASE DiscardPartial
  BY <1>0, <1>4 DEF DiscardPartial
<1>5. CASE CheckCommitted
  BY <1>0, <1>5, DigestType DEF CheckCommitted, Points
<1>6. CASE CheckHash
  BY <1>0, <1>6, DigestType DEF CheckHash, Points
<1>7. CASE Start \/ Tidy \/ OpenPartial \/ WriteBlock \/ Tear \/ EndWrite \/ CheckSize
  BY <1>7 DEF Start, Tidy, OpenPartial, WriteBlock, Tear, EndWrite, CheckSize
<1>8. CASE PosixRename \/ RemoveTarget \/ Rename \/ Return \/ Lose
  BY <1>8 DEF PosixRename, RemoveTarget, Rename, Return, Lose
<1>9. QED
  BY <1>1, <1>2, <1>3, <1>4, <1>5, <1>6, <1>7, <1>8 DEF UploadNext, Step

\* A step that makes an intact partial shorter follows a committed destination.
LEMMA NextKeepsPrefix ==
  ASSUME Inductive, FoundInv, [UploadNext]_uploadVars, "digest" \notin server.faults,
         partial # Missing, Len(partial) <= Len(source), IsIntact(partial)
  PROVE  BytesOf(partial') >= Len(partial) \/ target' = Good
<1>0. /\ partial \in Seq(Nat) /\ source \in Seq(Nat)
      /\ BytesOf(partial) = Len(partial) /\ Len(partial) \in Nat
      /\ offset \in Nat
  BY SourceType, SizeAssumption DEF Inductive, TypeInv, UploadTypeOK, Contents, BytesOf
<1>1. CASE UNCHANGED partial
  BY <1>0, <1>1
<1>2. CASE Tidy \/ PosixRename \/ Rename
  BY <1>2 DEF Tidy, PosixRename, Rename, Inductive, VerifiedInv
<1>3. CASE StatPartial
  BY <1>0, <1>3 DEF StatPartial
<1>4. CASE DiscardPartial
  <2>1. offset = Len(partial) /\ partial # SubSeq(source, 1, offset)
    BY <1>0, <1>4 DEF DiscardPartial, FoundInv
  <2>2. QED
    BY <1>0, <2>1, IntactIsPrefix
<1>5. CASE OpenPartial
  <2>1. offset = Len(partial)
    BY <1>0, <1>5 DEF OpenPartial, FoundInv
  <2>2. CASE offset > 0
    BY <1>0, <1>5, <2>2 DEF OpenPartial
  <2>3. CASE ~(offset > 0)
    <3>1. Len(partial) = 0 /\ partial' = <<>>
      BY <1>0, <1>5, <2>1, <2>3 DEF OpenPartial
    <3>2. BytesOf(partial') = 0
      BY <3>1, EmptyIsAFile DEF BytesOf
    <3>3. QED
      BY <3>1, <3>2
  <2>4. QED
    BY <2>2, <2>3
<1>6. ASSUME NEW b \in Nat, partial' = Append(partial, b)
      PROVE  BytesOf(partial') >= Len(partial)
  <2>1. partial' \in Seq(Nat) /\ Len(partial') = Len(partial) + 1
    BY <1>0, <1>6
  <2>2. QED
    BY <1>0, <2>1, MissingAssumption DEF BytesOf
<1>7. CASE WriteBlock
  BY <1>0, <1>6, <1>7 DEF WriteBlock
<1>8. CASE Tear
  BY <1>6, <1>8 DEF Tear, Bad
<1>9. CASE Start \/ CheckCommitted \/ CheckPrefix \/ EndWrite \/ CheckSize \/ CheckHash
           \/ RemoveTarget \/ Return \/ Lose \/ UNCHANGED uploadVars
  BY <1>1, <1>9 DEF Start, CheckCommitted, CheckPrefix, EndWrite, CheckSize,
     CheckHash, RemoveTarget, Return, Lose, uploadVars
<1>10. QED
  BY <1>2, <1>3, <1>4, <1>5, <1>7, <1>8, <1>9 DEF UploadNext, Step

\* Where sha256sum does not fail, no call sends an intact prefix again: what it
\* discards it has compared with the source, over exactly the blocks it found.
THEOREM UploadsKeepPrefixes == UploadSpec => KeepsIntactPrefix
<1>1. UploadInit => Inductive /\ FoundInv
  BY InitInductive DEF UploadInit, FoundInv
<1>2. Inductive /\ FoundInv /\ [UploadNext]_uploadVars
        => [("digest" \notin server.faults
             /\ partial # Missing /\ Len(partial) <= Len(source) /\ IsIntact(partial))
              => \/ BytesOf(partial') >= Len(partial)
                 \/ target' = Good]_uploadVars
  BY NextKeepsPrefix
<1>3. QED
  BY <1>1, <1>2, NextInductive, NextFound, PTL DEF UploadSpec, KeepsIntactPrefix

-----------------------------------------------------------------------------
(* The chat: types, and answers that can be read.                          *)

\* The shape of what the variables hold.
IsGateway(g) ==
  /\ DOMAIN g = {"id", "dep", "token", "direct", "port", "closed"}
  /\ g.dep \in Deployments \cup {None}
\* No list ever holds anything but answers of words: HistoryTyped, with what IsPage says, is
\* the invariant behind AnswersAreReadable, and rests on what IsRun says of one that reads.
ReadableTurns == [by : Deployments \cup {None}, text : {"words"}]
Lists == Seq(ReadableTurns)
Snapshots == [dep : Deployments, list : Lists]
IsPage(q, n) ==
  /\ DOMAIN q = {"at", "dep", "want", "row", "tries", "gateway", "run", "list"}
  /\ q.dep \in Deployments \cup {None} /\ q.want \in Deployments \cup {None}
  /\ q.tries \in 0 .. 2
  /\ q.run \in 0 .. n
  /\ IsGateway(q.gateway)
  /\ q.list \in Lists
IsRun(x) ==
  /\ DOMAIN x = {"page", "at", "gateway", "service", "link", "end", "told"}
  /\ x.at \in {"queued", "picked", "reading", "over"}
  /\ x.end \in {None, "words", "error"}
  /\ IsGateway(x.gateway)
  /\ x.at = "reading" => x.service.dep = x.gateway.dep
IsSetting(s) ==
  /\ DOMAIN s = {"mode", "initial", "local", "guarded", "stored", "repair", "place", "tabs",
                 "left", "turns"}
  /\ s.initial \in Deployments \cup {None}
  /\ s.stored \in BOOLEAN /\ s.repair \subseteq Deployments
SettingTyped == IsSetting(set)
ServiceTyped ==
  /\ DOMAIN service = RemotePorts
  /\ \A r \in RemotePorts : service[r].dep \in Deployments \cup {None}
PagesTyped == DOMAIN page = Pages /\ \A p \in Pages : IsPage(page[p], Len(runs))
RouterTyped == IsGateway(router) /\ chosen \in Deployments \cup {None}
RunsTyped ==
  /\ Len(runs) \in Nat /\ DOMAIN runs = 1 .. Len(runs)
  /\ \A r \in DOMAIN runs : IsRun(runs[r])
HistoryTyped == saved \in [Deployments -> Lists] /\ puts \in Seq(Snapshots)
\* None of what the history is not protected from has happened.
Trusted == unlucky \cap Doubts = {}
ChatInv ==
  SettingTyped /\ ServiceTyped /\ PagesTyped /\ RouterTyped /\ RunsTyped /\ HistoryTyped

-----------------------------------------------------------------------------
LEMMA AppendRuns ==
  ASSUME RunsTyped, NEW f, f = [r \in DOMAIN runs |-> f[r]], NEW x
  PROVE  /\ Len(Append(f, x)) = Len(runs) + 1
         /\ DOMAIN Append(f, x) = 1 .. Len(runs) + 1
         /\ Append(f, x)[Len(runs) + 1] = x
         /\ \A r \in DOMAIN runs : Append(f, x)[r] = f[r]
<1> DEFINE S == {f[r] : r \in DOMAIN runs} \cup {x}
<1>1. f \in Seq(S)
  <2>1. f \in [1 .. Len(runs) -> S]
    BY DEF RunsTyped
  <2>2. QED
    BY <2>1 DEF RunsTyped
<1>2. Len(f) = Len(runs)
  BY <1>1, LenProperties DEF RunsTyped
<1>3. QED
  BY <1>1, <1>2 DEF RunsTyped

LEMMA GatewayFacts ==
  /\ IsGateway(NoGateway) /\ NoGateway.dep = None
  /\ \A g : IsGateway(g) => IsGateway([g EXCEPT !.closed = TRUE])
                            /\ [g EXCEPT !.closed = TRUE].dep = g.dep
<1>1. IsGateway(NoGateway) /\ NoGateway.dep = None
  BY DEF IsGateway, NoGateway
<1>2. ASSUME NEW g, IsGateway(g)
      PROVE  IsGateway([g EXCEPT !.closed = TRUE]) /\ [g EXCEPT !.closed = TRUE].dep = g.dep
  BY <1>2 DEF IsGateway
<1>3. QED
  BY <1>1, <1>2

LEMMA SpentRun == IsRun(Spent)
  BY GatewayFacts DEF IsRun, Spent

LEMMA EmptyList == <<>> \in Lists
  BY DEF Lists

LEMMA InitChat == Init => ChatInv
<1> SUFFICES ASSUME Init PROVE ChatInv
  OBVIOUS
<1>1. SettingTyped
  BY ChatAssumption DEF Init, SettingTyped, IsSetting
<1>2. ServiceTyped
  <2>1. ASSUME NEW r \in RemotePorts PROVE service[r].dep \in Deployments \cup {None}
    <3>1. CASE \E d \in Deployments : set.place[d] = r
      BY <3>1 DEF Init
    <3>2. CASE ~\E d \in Deployments : set.place[d] = r
      BY <3>2 DEF Init, NoService
    <3>3. QED
      BY <3>1, <3>2
  <2>2. QED
    BY <2>1 DEF Init, ServiceTyped
<1>3. RunsTyped
  BY DEF Init, RunsTyped
<1>4. PagesTyped
  <2>1. IsPage(Blank, 0) /\ IsPage([Blank EXCEPT !.at = "ready"], 0)
    <3>1. IsPage(Blank, 0)
      BY GatewayFacts, EmptyList DEF IsPage, Blank, NoRun
    <3>2. QED
      BY <3>1 DEF IsPage
  <2>2. QED
    BY <2>1 DEF Init, PagesTyped
<1>5. RouterTyped
  <2>1. Demo \in Deployments
    BY ChatAssumption DEF Demo
  <2>2. QED
    BY <2>1, GatewayFacts DEF Init, RouterTyped, IsGateway, NoGateway
<1>6. HistoryTyped
  BY EmptyList DEF Init, HistoryTyped
<1>7. QED
  BY <1>1, <1>2, <1>3, <1>4, <1>5, <1>6 DEF ChatInv

LEMMA StutterChat ==
  ASSUME ChatInv, UNCHANGED Serving
  PROVE  ChatInv'
  BY DEF ChatInv, Serving, serviceVars, chatVars, SettingTyped, ServiceTyped, PagesTyped,
         RouterTyped, RunsTyped, HistoryTyped

LEMMA PageStays ==
  ASSUME PagesTyped, NEW p \in Pages, NEW q,
         page' = [page EXCEPT ![p] = q], IsPage(q, Len(runs')), Len(runs) \in Nat,
         Len(runs') \in Nat, Len(runs') >= Len(runs)
  PROVE  PagesTyped'
<1>1. ASSUME NEW r \in Pages PROVE IsPage(page'[r], Len(runs'))
  BY DEF PagesTyped, IsPage
<1>2. QED
  BY <1>1 DEF PagesTyped

LEMMA RunsStay ==
  ASSUME RunsTyped, DOMAIN runs' = DOMAIN runs, Len(runs') = Len(runs),
         \A r \in DOMAIN runs : IsRun(runs'[r])
  PROVE  RunsTyped'
  BY DEF RunsTyped

ServiceStays == UNCHANGED <<set, service>>
HistoryStays == UNCHANGED <<saved, puts>>

LEMMA ServicesChat ==
  ASSUME ChatInv, NEW d \in Deployments, Redeploy(d) \/ Stop(d)
  PROVE  ChatInv'
<1>1. ServiceTyped'
  <2>1. DOMAIN Without(d) = RemotePorts
        /\ \A r \in RemotePorts : Without(d)[r].dep \in Deployments \cup {None}
    BY DEF ChatInv, ServiceTyped, Without, NoService
  <2>2. CASE Redeploy(d)
    BY <2>1, <2>2 DEF Redeploy, ServiceTyped
  <2>3. CASE Stop(d)
    BY <2>1, <2>3 DEF Stop, ServiceTyped
  <2>4. QED
    BY <2>2, <2>3
<1>2. QED
  BY <1>1 DEF Redeploy, Stop, chatVars, ChatInv, SettingTyped, PagesTyped, RouterTyped,
              RunsTyped, HistoryTyped

\* A step that turns a page, and leaves all else but the settings and the router as they are.
LEMMA PageTurns ==
  ASSUME ChatInv, NEW p \in Pages, NEW q, page' = [page EXCEPT ![p] = q],
         IsPage(q, Len(runs)), SettingTyped', RouterTyped', UNCHANGED service, UNCHANGED runs,
         HistoryTyped'
  PROVE  ChatInv'
<1>1. PagesTyped'
  <2>1. IsPage(q, Len(runs')) /\ Len(runs) \in Nat /\ Len(runs') \in Nat
        /\ Len(runs') >= Len(runs) /\ PagesTyped
    BY DEF ChatInv, RunsTyped
  <2>2. QED
    BY <2>1, PageStays
<1>2. QED
  BY <1>1 DEF ChatInv, ServiceTyped, RunsTyped

LEMMA TypedAppend ==
  ASSUME HistoryTyped, NEW d \in Deployments, NEW list \in Lists
  PROVE  Append(puts, [dep |-> d, list |-> list]) \in Seq(Snapshots)
  BY DEF HistoryTyped, Snapshots

LEMMA PersistTyped ==
  ASSUME HistoryTyped, NEW p, page'[p].dep \in Deployments \cup {None}, NEW list \in Lists,
         Persist(p, list)
  PROVE  puts' \in Seq(Snapshots)
  BY TypedAppend DEF Persist, HistoryTyped

\* What a page that loads shows: the history of its deployment, or nothing.
LEMMA LoadFinds ==
  ASSUME ChatInv, NEW p \in Pages, Load(p)
  PROVE  \E named \in Deployments \cup {None}, list \in Lists :
          /\ chosen' = named
          /\ page' = [page EXCEPT ![p] = [Blank EXCEPT !.at = "list", !.dep = named,
                                                      !.list = list]]
          /\ IF list = <<>> THEN UNCHANGED puts ELSE Persist(p, list)
          /\ Trusted' => /\ list = IF named = None THEN <<>> ELSE saved[named]
                         /\ \A q \in Pages \ {p} : page[q].at = "closed"
                         /\ \A i \in DOMAIN puts : puts[i].dep # named
<1>1. PICK named \in Deployments \cup {None} :
        \E list \in {IF named = None THEN <<>> ELSE saved[named], <<>>} :
          /\ chosen' = named
          /\ page' = [page EXCEPT ![p] = [Blank EXCEPT !.at = "list", !.dep = named,
                                                      !.list = list]]
          /\ IF list = <<>> THEN UNCHANGED puts ELSE Persist(p, list)
          /\ Note((IF \E q \in Pages \ {p} : ~At(q, "closed") THEN {"tabs"} ELSE {})
                  \cup (IF \E i \in DOMAIN puts : puts[i].dep = named THEN {"unsaved"} ELSE {})
                  \cup (IF list # IF named = None THEN <<>> ELSE saved[named]
                        THEN {"unloaded"} ELSE {}))
  <2>1. PICK d \in {chosen} \cup Healthy :
         LET name == IF set.initial = None THEN d ELSE set.initial
             history == IF name = None THEN <<>> ELSE saved[name]
         IN \E list \in {history, <<>>} :
          /\ chosen' = name
          /\ page' = [page EXCEPT ![p] = [Blank EXCEPT !.at = "list", !.dep = name,
                                                      !.list = list]]
          /\ IF list = <<>> THEN UNCHANGED puts ELSE Persist(p, list)
          /\ Note((IF \E q \in Pages \ {p} : ~At(q, "closed") THEN {"tabs"} ELSE {})
                  \cup (IF \E i \in DOMAIN puts : puts[i].dep = name THEN {"unsaved"} ELSE {})
                  \cup (IF list # history THEN {"unloaded"} ELSE {}))
    BY DEF Load
  <2>2. PICK name : name = IF set.initial = None THEN d ELSE set.initial
    OBVIOUS
  <2>3. name \in Deployments \cup {None}
    BY <2>2 DEF ChatInv, SettingTyped, IsSetting, RouterTyped, Healthy
  <2>4. QED
    BY <2>1, <2>2, <2>3
<1> PICK list \in {IF named = None THEN <<>> ELSE saved[named], <<>>} :
          /\ chosen' = named
          /\ page' = [page EXCEPT ![p] = [Blank EXCEPT !.at = "list", !.dep = named,
                                                      !.list = list]]
          /\ IF list = <<>> THEN UNCHANGED puts ELSE Persist(p, list)
          /\ Note((IF \E q \in Pages \ {p} : ~At(q, "closed") THEN {"tabs"} ELSE {})
                  \cup (IF \E i \in DOMAIN puts : puts[i].dep = named THEN {"unsaved"} ELSE {})
                  \cup (IF list # IF named = None THEN <<>> ELSE saved[named]
                        THEN {"unloaded"} ELSE {}))
  BY <1>1
<1>2. list \in Lists
  BY EmptyList DEF ChatInv, HistoryTyped
<1>3. ASSUME Trusted'
      PROVE  /\ list = IF named = None THEN <<>> ELSE saved[named]
             /\ \A q \in Pages \ {p} : page[q].at = "closed"
             /\ \A i \in DOMAIN puts : puts[i].dep # named
  BY <1>3 DEF Note, Trusted, Doubts, At
<1>4. QED
  BY <1>2, <1>3

LEMMA LoadChat ==
  ASSUME ChatInv, NEW p \in Pages, Load(p)
  PROVE  ChatInv'
<1>1. PICK named \in Deployments \cup {None}, list \in Lists :
          /\ chosen' = named
          /\ page' = [page EXCEPT ![p] = [Blank EXCEPT !.at = "list", !.dep = named,
                                                      !.list = list]]
          /\ IF list = <<>> THEN UNCHANGED puts ELSE Persist(p, list)
  BY LoadFinds
<1> DEFINE q == [Blank EXCEPT !.at = "list", !.dep = named, !.list = list]
<1>3. runs' = [r \in DOMAIN runs |-> IF runs[r].page = p THEN Spent ELSE runs[r]]
  BY DEF Load
<1>4. RunsTyped' /\ Len(runs') = Len(runs)
  <2>1. DOMAIN runs' = 1 .. Len(runs) /\ Len(runs') = Len(runs)
    BY <1>3 DEF ChatInv, RunsTyped
  <2>2. QED
    BY <2>1, <1>3, SpentRun, RunsStay DEF ChatInv, RunsTyped
<1>5. IsPage(q, Len(runs)) /\ q.dep = named /\ q.list = list
  BY GatewayFacts DEF IsPage, Blank, NoRun, ChatInv, RunsTyped
<1>6. page' = [page EXCEPT ![p] = q] /\ page'[p] = q
  BY <1>1 DEF ChatInv, PagesTyped
<1>7. PagesTyped'
  <2> HIDE DEF q
  <2>1. IsPage(q, Len(runs')) /\ Len(runs) \in Nat /\ Len(runs') \in Nat
        /\ Len(runs') >= Len(runs) /\ PagesTyped
    BY <1>4, <1>5 DEF ChatInv, RunsTyped
  <2>2. QED
    BY <2>1, <1>6, PageStays
<1>8. HistoryTyped'
  <2>1. saved' = saved
    BY DEF Load
  <2>2. CASE puts' = puts
    BY <2>1, <2>2 DEF ChatInv, HistoryTyped
  <2>3. CASE Persist(p, list)
    <3>1. page'[p].dep \in Deployments \cup {None}
      BY <1>5, <1>6
    <3>2. puts' \in Seq(Snapshots)
      BY <2>3, <3>1, PersistTyped DEF ChatInv
    <3>3. QED
      BY <2>1, <3>2 DEF ChatInv, HistoryTyped
  <2>4. QED
    BY <1>1, <2>2, <2>3
<1>9. QED
  BY <1>1, <1>4, <1>7, <1>8 DEF Load, ChatInv, SettingTyped, ServiceTyped, RouterTyped

\* The steps of a page that leave its run and its conversation alone.
Turned(q, new) ==
  /\ DOMAIN new = DOMAIN q /\ new.run = q.run /\ new.list = q.list /\ new.dep = q.dep
  /\ new.want \in Deployments \cup {None} /\ new.tries \in 0 .. 2 /\ IsGateway(new.gateway)

LEMMA TurnedPage ==
  ASSUME NEW n, NEW q, IsPage(q, n), NEW new, Turned(q, new)
  PROVE  IsPage(new, n)
  BY DEF IsPage, Turned

LEMMA RefusedPage ==
  ASSUME NEW n, NEW q, IsPage(q, n)
  PROVE  Turned(q, [q EXCEPT !.at = IF q.tries = 0 THEN "open" ELSE "failed",
                             !.tries = IF q.tries = 0 THEN 1 ELSE q.tries])
  BY DEF IsPage, Turned

LEMMA RefuseTurns ==
  ASSUME PagesTyped, NEW p \in Pages, Refuse(p)
  PROVE  /\ page' = [page EXCEPT ![p] = page'[p]] /\ Turned(page[p], page'[p])
         /\ page'[p].at \in {"open", "failed"} /\ page'[p].want = page[p].want
<1> DEFINE q == page[p]
           new == [q EXCEPT !.at = IF q.tries = 0 THEN "open" ELSE "failed",
                            !.tries = IF q.tries = 0 THEN 1 ELSE q.tries]
<1>1. page' = [page EXCEPT ![p] = new]
  BY DEF PagesTyped, IsPage, Refuse
<1>2. IsPage(q, Len(runs))
  BY DEF PagesTyped
<1>3. Turned(q, new) /\ new.at \in {"open", "failed"} /\ new.want = q.want
  BY <1>2, RefusedPage DEF IsPage
<1> HIDE DEF new
<1>4. page'[p] = new
  BY <1>1 DEF PagesTyped
<1>5. QED
  BY <1>1, <1>3, <1>4

LEMMA TurnTurns ==
  ASSUME PagesTyped, NEW p \in Pages, NEW from, NEW to, Turn(p, from, to)
  PROVE  /\ page' = [page EXCEPT ![p] = page'[p]] /\ Turned(page[p], page'[p])
         /\ page'[p].at = to /\ page'[p].want = page[p].want
  BY DEF PagesTyped, Turn, IsPage, Turned

\* What the steps of an activation do to their page.
LEMMA PageStepTurns ==
  ASSUME ChatInv, NEW p \in Pages, PageStep(p)
  PROVE  /\ page' = [page EXCEPT ![p] = page'[p]] /\ Turned(page[p], page'[p])
         /\ UNCHANGED <<saved, puts>>
<1> USE DEF ChatInv
<1>1. CASE List(p)
  BY <1>1, TurnTurns DEF List, Turned, PagesTyped, IsPage, Healthy
<1>2. CASE Select(p)
  BY <1>2, RefuseTurns DEF Select, Turned, PagesTyped, IsPage
<1>3. CASE Build(p)
  BY <1>3, RefuseTurns, GatewayFacts
  DEF Build, Turned, PagesTyped, IsPage, IsGateway, NoGateway, Blank
<1>e. CASE Equip(p)
  <2>1. IsPage(page[p], Len(runs)) /\ DOMAIN page = Pages
    BY DEF PagesTyped
  <2>2. IsGateway([page[p].gateway EXCEPT !.id = NewGateway, !.token = bearer[page[p].want]])
    BY <2>1 DEF IsPage, IsGateway
  <2>3. PICK at, g : page' = [page EXCEPT ![p].at = at, ![p].gateway = g] /\ IsGateway(g)
    <3>1. PICK id, token : id = NewGateway /\ token = bearer[page[p].want]
      OBVIOUS
    <3>2. \/ page' = [page EXCEPT ![p].at = "swap", ![p].gateway.id = id,
                                  ![p].gateway.token = token]
          \/ page' = [page EXCEPT ![p].at = "failed", ![p].gateway = NoGateway]
      BY <1>e, <3>1 DEF Equip
    <3>3. IsGateway([page[p].gateway EXCEPT !.id = id, !.token = token])
      BY <2>2, <3>1
    <3>4. CASE page' = [page EXCEPT ![p].at = "swap", ![p].gateway.id = id,
                                    ![p].gateway.token = token]
      <4>1. PICK g : g = [page[p].gateway EXCEPT !.id = id, !.token = token]
        OBVIOUS
      <4>2. page' = [page EXCEPT ![p].at = "swap", ![p].gateway = g]
        BY <2>1, <3>4, <4>1 DEF IsPage
      <4>3. QED
        BY <3>3, <4>1, <4>2
    <3>5. QED
      BY <3>2, <3>4, GatewayFacts
  <2>4. QED
    BY <1>e, <2>1, <2>3 DEF Equip, Turned, IsPage
<1>4. CASE Swap(p)
  BY <1>4 DEF Swap, Turned, PagesTyped, IsPage, RouterTyped
<1>5. CASE Retire(p)
  <2> DEFINE new == [page[p] EXCEPT !.at = "ready", !.gateway = NoGateway, !.tries = 0]
  <2>1. page' = [page EXCEPT ![p] = new]
    BY <1>5 DEF PagesTyped, IsPage, Retire
  <2>2. Turned(page[p], new)
    BY GatewayFacts DEF Turned, PagesTyped, IsPage
  <2> HIDE DEF new
  <2>3. QED
    BY <1>5, <2>1, <2>2 DEF Retire, PagesTyped
<1>6. CASE Open(p)
  BY <1>6, TurnTurns DEF Open
<1>7. CASE Opened(p)
  BY <1>7, TurnTurns DEF Opened
<1>8. CASE OpenFailed(p)
  BY <1>8, TurnTurns DEF OpenFailed, Turned, PagesTyped, IsPage
<1>9. QED
  BY <1>1, <1>2, <1>3, <1>e, <1>4, <1>5, <1>6, <1>7, <1>8 DEF PageStep

LEMMA PageStepChat ==
  ASSUME ChatInv, NEW p \in Pages, PageStep(p)
  PROVE  ChatInv'
<1>1. /\ page' = [page EXCEPT ![p] = page'[p]] /\ Turned(page[p], page'[p])
      /\ UNCHANGED <<saved, puts>>
  BY PageStepTurns
<1>2. IsPage(page'[p], Len(runs))
  BY <1>1, TurnedPage DEF ChatInv, PagesTyped
<1>3. UNCHANGED <<service, runs>> \/ Retire(p)
  BY DEF PageStep, List, Select, Build, Equip, Swap, Open, Opened, OpenFailed, serviceVars
<1>4. SettingTyped'
  <2>1. CASE Opened(p)
    BY <2>1 DEF Opened, ChatInv, SettingTyped, IsSetting
  <2>2. CASE Build(p)
    BY <2>2 DEF Build, ChatInv, SettingTyped, IsSetting
  <2>3. CASE UNCHANGED set
    BY <2>3 DEF ChatInv, SettingTyped
  <2>4. QED
    BY <2>1, <2>2, <2>3
    DEF PageStep, List, Select, Equip, Swap, Retire, Open, OpenFailed, serviceVars
<1>5. RouterTyped'
  <2>1. CASE Swap(p)
    BY <2>1 DEF Swap, ChatInv, RouterTyped, PagesTyped, IsPage
  <2>2. CASE Retire(p)
    BY <2>2 DEF Retire, ChatInv, RouterTyped, PagesTyped, IsPage
  <2>3. CASE UNCHANGED <<router, chosen>>
    BY <2>3 DEF ChatInv, RouterTyped
  <2>4. QED
    BY <2>1, <2>2, <2>3 DEF PageStep, List, Select, Build, Equip, Open, Opened, OpenFailed
<1>6. HistoryTyped'
  BY <1>1 DEF ChatInv, HistoryTyped
<1>7. CASE ~Retire(p)
  BY <1>1, <1>2, <1>3, <1>4, <1>5, <1>6, <1>7, PageTurns
<1>8. CASE Retire(p)
  <2>1. DOMAIN runs' = DOMAIN runs /\ Len(runs') = Len(runs) /\ UNCHANGED service
    BY <1>8 DEF Retire, ChatInv, RunsTyped, serviceVars
  <2>2. ASSUME NEW r \in DOMAIN runs PROVE IsRun(runs'[r])
    <3>1. runs'[r] = runs[r] \/ runs'[r] = [runs[r] EXCEPT !.gateway.closed = TRUE]
      BY <1>8 DEF Retire
    <3>2. IsRun(runs[r])
      BY DEF ChatInv, RunsTyped
    <3>3. IsRun([runs[r] EXCEPT !.gateway = [@ EXCEPT !.closed = TRUE]])
      BY <3>2, GatewayFacts DEF IsRun
    <3>4. QED
      BY <3>1, <3>2, <3>3
  <2>3. RunsTyped'
    BY <2>1, <2>2, RunsStay DEF ChatInv
  <2>4. PagesTyped'
    <3>1. IsPage(page'[p], Len(runs')) /\ Len(runs) \in Nat /\ Len(runs') \in Nat
          /\ Len(runs') >= Len(runs) /\ PagesTyped
      BY <1>2, <2>1 DEF ChatInv, RunsTyped
    <3>2. QED
      BY <3>1, <1>1, PageStays
  <2>5. QED
    BY <1>4, <1>5, <1>6, <2>1, <2>3, <2>4 DEF ChatInv, ServiceTyped
<1>9. QED
  BY <1>7, <1>8

LEMMA RunTyped ==
  ASSUME ChatInv, NEW r \in DOMAIN runs, NEW x, IsRun(x), Run(r, x)
  PROVE  ChatInv'
<1>1. RunsTyped'
  BY RunsStay DEF Run, ChatInv, RunsTyped
<1>2. Len(runs') = Len(runs)
  BY DEF Run, ChatInv, RunsTyped
<1>3. QED
  BY <1>1, <1>2 DEF Run, ChatInv, serviceVars, SettingTyped, ServiceTyped, PagesTyped,
                    RouterTyped, HistoryTyped

LEMMA ErrorTyped ==
  ASSUME ChatInv, NEW r \in DOMAIN runs, Error(r)
  PROVE  ChatInv'
<1> DEFINE x == [runs[r] EXCEPT !.at = "over", !.end = "error", !.service = NoService,
                                !.link = NoThread]
<1>1. IsRun(x)
  BY DEF ChatInv, RunsTyped, IsRun
<1>2. QED
  BY <1>1, RunTyped DEF Error

\* A request is admitted by the service its gateway's key belongs to, and an answer read
\* from that service is decoded with that key.
LEMMA RunStepChat ==
  ASSUME ChatInv, NEW r \in DOMAIN runs, RunStep(r)
  PROVE  ChatInv'
<1>0. IsRun(runs[r])
  BY DEF ChatInv, RunsTyped
<1>1. CASE Pick(r)
  <2> DEFINE x == [runs[r] EXCEPT !.at = "picked", !.gateway = router]
  <2>1. IsRun(x)
    BY <1>0 DEF ChatInv, RouterTyped, IsRun
  <2>2. QED
    BY <1>1, <2>1, RunTyped, ErrorTyped DEF Pick
<1>2. CASE Send(r)
  <2> DEFINE g == runs[r].gateway
             x == [runs[r] EXCEPT !.at = "reading", !.service = Behind(g), !.link = Link(g)]
  <2>1. ASSUME Admitted(g) PROVE IsRun(x)
    <3>1. Behind(g).dep = g.dep
      BY <2>1 DEF Admitted, Validated
    <3>2. QED
      BY <1>0, <3>1 DEF IsRun
  <2>2. QED
    BY <1>2, <2>1, RunTyped, ErrorTyped DEF Send
<1>3. CASE Finish(r)
  <2> DEFINE x == [runs[r] EXCEPT !.at = "over", !.service = NoService, !.link = NoThread,
              !.end = IF runs[r].service.dep = runs[r].gateway.dep THEN "words" ELSE "noise"]
  <2>1. IsRun(x)
    BY <1>0, <1>3 DEF Finish, RunAt, IsRun
  <2>2. QED
    BY <1>3, <2>1, RunTyped DEF Finish
<1>4. CASE Break(r)
  BY <1>4, ErrorTyped DEF Break
<1>5. CASE Tell(r)
  <2>1. IsRun([runs[r] EXCEPT !.told = TRUE])
    BY <1>0 DEF IsRun
  <2>2. QED
    BY <1>5, <2>1, RunTyped DEF Tell
<1>6. QED
  BY <1>1, <1>2, <1>3, <1>4, <1>5 DEF RunStep

LEMMA AskChat ==
  ASSUME ChatInv, NEW p \in Pages, Ask(p)
  PROVE  ChatInv'
<1> DEFINE n == Len(runs) + 1
           x == [Spent EXCEPT !.page = p, !.at = "queued", !.told = FALSE]
<1>1. PICK gone : runs' = Append([r \in DOMAIN runs |-> IF r \in gone THEN Spent ELSE runs[r]], x)
  BY DEF Ask
<1> DEFINE f == [r \in DOMAIN runs |-> IF r \in gone THEN Spent ELSE runs[r]]
<1>2. /\ Len(runs') = n /\ DOMAIN runs' = 1 .. n /\ runs'[n] = x
      /\ \A r \in DOMAIN runs : runs'[r] = f[r]
  <2> HIDE DEF x
  <2>1. f = [r \in DOMAIN runs |-> f[r]]
    OBVIOUS
  <2> HIDE DEF f
  <2>2. QED
    BY <1>1, <2>1, AppendRuns DEF ChatInv, f
<1>3. IsRun(x)
  BY SpentRun, GatewayFacts DEF IsRun, Spent
<1>4. Len(runs) \in Nat /\ DOMAIN runs = 1 .. Len(runs)
  BY DEF ChatInv, RunsTyped
<1>5. RunsTyped'
  <2>1. ASSUME NEW r \in 1 .. n PROVE IsRun(runs'[r])
    <3>1. CASE r = n
      BY <1>2, <1>3, <3>1
    <3>2. CASE r \in DOMAIN runs
      BY <1>2, <3>2, SpentRun DEF ChatInv, RunsTyped
    <3>3. QED
      BY <1>4, <3>1, <3>2
  <2>2. QED
    BY <1>2, <1>4, <2>1 DEF RunsTyped
<1>6. PagesTyped'
  <2> DEFINE q == [page[p] EXCEPT !.run = n]
  <2>1. page' = [page EXCEPT ![p] = q]
    BY DEF Ask, ChatInv, PagesTyped
  <2>2. IsPage(q, n)
    BY <1>4 DEF ChatInv, PagesTyped, IsPage
  <2> HIDE DEF q
  <2>3. IsPage(q, Len(runs')) /\ Len(runs) \in Nat /\ Len(runs') \in Nat
        /\ Len(runs') >= Len(runs) /\ PagesTyped
    BY <1>2, <1>4, <2>2 DEF ChatInv
  <2>4. QED
    BY <2>1, <2>3, PageStays
<1>7. QED
  BY <1>5, <1>6 DEF Ask, ChatInv, serviceVars, SettingTyped, ServiceTyped, RouterTyped,
                    HistoryTyped

\* A conversation that is cut has no turn it had not before.
LEMMA KeptIsPart ==
  ASSUME NEW S, NEW s \in Seq(S)
  PROVE  /\ Kept(s) \in Seq(S)
         /\ \A i \in DOMAIN Kept(s) : \E j \in DOMAIN s : Kept(s)[i] = s[j]
<1>1. CASE Len(s) > MaxKept
  <2>1. s # <<>> /\ Len(s) \in Nat /\ DOMAIN s = 1 .. Len(s)
    BY <1>1, ChatAssumption
  <2>2. /\ Tail(s) \in Seq(S) /\ Len(Tail(s)) = Len(s) - 1
        /\ \A i \in 1 .. Len(Tail(s)) : Tail(s)[i] = s[i + 1]
    BY <2>1, HeadTailProperties
  <2>3. DOMAIN Tail(s) = 1 .. Len(s) - 1
    BY <2>2, LenProperties
  <2>4. QED
    BY <1>1, <2>1, <2>2, <2>3 DEF Kept
<1>2. CASE ~(Len(s) > MaxKept)
  BY <1>2 DEF Kept
<1>3. QED
  BY <1>1, <1>2

LEMMA ReadChat ==
  ASSUME ChatInv, NEW p \in Pages, Read(p)
  PROVE  ChatInv'
<1> DEFINE r == page[p].run
           job == runs[r]
           list == Kept(Append(page[p].list, [by |-> job.gateway.dep, text |-> job.end]))
<1>1. r \in DOMAIN runs /\ Len(runs) \in Nat
  BY DEF Read, ChatInv, PagesTyped, IsPage, RunsTyped, NoRun
<1>2. IsRun(job) /\ IsPage(page[p], Len(runs))
  BY <1>1 DEF ChatInv, RunsTyped, PagesTyped
<1>3. /\ RunsTyped' /\ Len(runs') = Len(runs)
  <2>1. ASSUME NEW x, IsRun(x), runs' = [runs EXCEPT ![r] = x]
        PROVE  RunsTyped' /\ Len(runs') = Len(runs)
    <3>1. DOMAIN runs' = DOMAIN runs /\ Len(runs') = Len(runs)
      BY <2>1 DEF ChatInv, RunsTyped
    <3>2. \A i \in DOMAIN runs : IsRun(runs'[i])
      BY <2>1 DEF ChatInv, RunsTyped
    <3>3. QED
      BY <3>1, <3>2, RunsStay DEF ChatInv
  <2>2. IsRun([job EXCEPT !.page = None])
    BY <1>2 DEF IsRun
  <2>3. \/ runs' = [runs EXCEPT ![r] = Spent]
        \/ runs' = [runs EXCEPT ![r] = [job EXCEPT !.page = None]]
    BY DEF Read
  <2>4. QED
    BY <2>1, <2>2, <2>3, SpentRun
<1>4. CASE /\ job.end \in {"words", "noise"}
           /\ page' = [page EXCEPT ![p].run = NoRun, ![p].list = list]
           /\ Persist(p, list)
  <2>1. list \in Lists
    <3>1. [by |-> job.gateway.dep, text |-> job.end] \in ReadableTurns
      BY <1>2, <1>4 DEF IsRun, IsGateway, ReadableTurns, None
    <3>2. Append(page[p].list, [by |-> job.gateway.dep, text |-> job.end]) \in Lists
      BY <1>2, <3>1 DEF IsPage, Lists
    <3>3. QED
      BY <3>2, KeptIsPart DEF Lists
  <2> DEFINE q == [page[p] EXCEPT !.run = NoRun, !.list = list]
  <2>2. page' = [page EXCEPT ![p] = q]
    BY <1>4 DEF ChatInv, PagesTyped
  <2>3. IsPage(q, Len(runs))
    BY <1>2, <1>1, <2>1 DEF IsPage, NoRun
  <2>4. q.dep \in Deployments \cup {None}
    BY <2>3 DEF IsPage
  <2> HIDE DEF q, list
  <2>5. PagesTyped'
    <3>1. IsPage(q, Len(runs')) /\ Len(runs) \in Nat /\ Len(runs') \in Nat
          /\ Len(runs') >= Len(runs) /\ PagesTyped
      BY <1>1, <1>3, <2>3 DEF ChatInv
    <3>2. QED
      BY <3>1, <2>2, PageStays
  <2>6. HistoryTyped'
    <3>1. page'[p] = q
      BY <2>2 DEF ChatInv, PagesTyped
    <3>2. puts' \in Seq(Snapshots)
      BY <1>4, <2>1, <2>4, <3>1, PersistTyped DEF ChatInv
    <3>3. QED
      BY <3>2 DEF Read, ChatInv, HistoryTyped
  <2>7. QED
    BY <1>3, <2>5, <2>6 DEF Read, ChatInv, serviceVars, SettingTyped, ServiceTyped, RouterTyped
<1>5. CASE page' = [page EXCEPT ![p].run = NoRun] /\ UNCHANGED puts
  <2> DEFINE q == [page[p] EXCEPT !.run = NoRun]
  <2>1. IsPage(q, Len(runs)) /\ page' = [page EXCEPT ![p] = q]
    BY <1>1, <1>2, <1>5 DEF IsPage, NoRun, ChatInv, PagesTyped
  <2> HIDE DEF q
  <2>2. IsPage(q, Len(runs')) /\ Len(runs) \in Nat /\ Len(runs') \in Nat
        /\ Len(runs') >= Len(runs) /\ PagesTyped
    BY <1>1, <1>3, <2>1 DEF ChatInv
  <2>3. PagesTyped'
    BY <2>1, <2>2, PageStays
  <2>4. QED
    BY <1>3, <1>5, <2>3 DEF Read, ChatInv, serviceVars, SettingTyped, ServiceTyped, RouterTyped,
                            HistoryTyped
<1>6. QED
  BY <1>4, <1>5 DEF Read

LEMMA ForgetChat ==
  ASSUME ChatInv, NEW p \in Pages, Forget(p)
  PROVE  ChatInv'
<1> DEFINE q == [page[p] EXCEPT !.list = <<>>]
<1>1. page' = [page EXCEPT ![p] = q]
  BY DEF Forget, ChatInv, PagesTyped
<1>2. IsPage(q, Len(runs)) /\ q.dep \in Deployments \cup {None}
  BY EmptyList DEF ChatInv, PagesTyped, IsPage
<1> HIDE DEF q
<1>3. page'[p] = q
  BY <1>1 DEF ChatInv, PagesTyped
<1>4. HistoryTyped'
  <2>1. puts' \in Seq(Snapshots)
    BY <1>2, <1>3, EmptyList, PersistTyped DEF ChatInv, Forget
  <2>2. QED
    BY <2>1 DEF Forget, ChatInv, HistoryTyped
<1>5. QED
  BY <1>1, <1>2, <1>4, PageTurns DEF Forget, serviceVars, ChatInv, SettingTyped, RouterTyped

LEMMA Removed ==
  ASSUME NEW S, NEW s \in Seq(S), NEW i \in DOMAIN s
  PROVE  /\ RemoveAt(s, i) \in Seq(S) /\ Len(RemoveAt(s, i)) = Len(s) - 1
         /\ \A j \in 1 .. Len(s) - 1 : RemoveAt(s, i)[j] = IF j < i THEN s[j] ELSE s[j + 1]
<1> DEFINE a == SubSeq(s, 1, i - 1)
           b == SubSeq(s, i + 1, Len(s))
<1>0. Len(s) \in Nat /\ DOMAIN s = 1 .. Len(s) /\ i \in 1 .. Len(s)
  BY LenProperties
<1>1. /\ a \in Seq(S) /\ Len(a) = i - 1
      /\ \A j \in 1 .. i - 1 : a[j] = s[j]
  <2>1. \A j \in 1 .. i - 1 : s[j] \in S
    BY <1>0
  <2>2. a \in Seq(S) /\ Len(a) = (IF 1 <= i - 1 THEN (i - 1) - 1 + 1 ELSE 0)
        /\ \A j \in 1 .. (i - 1) - 1 + 1 : a[j] = s[1 + j - 1]
    BY <1>0, <2>1, SubSeqProperties
  <2>3. QED
    BY <1>0, <2>2
<1>2. /\ b \in Seq(S) /\ Len(b) = Len(s) - i
      /\ \A j \in 1 .. Len(s) - i : b[j] = s[i + j]
  <2>1. \A j \in i + 1 .. Len(s) : s[j] \in S
    BY <1>0
  <2>2. b \in Seq(S) /\ Len(b) = (IF i + 1 <= Len(s) THEN Len(s) - (i + 1) + 1 ELSE 0)
        /\ \A j \in 1 .. Len(s) - (i + 1) + 1 : b[j] = s[(i + 1) + j - 1]
    BY <1>0, <2>1, SubSeqProperties
  <2>3. QED
    BY <1>0, <2>2
<1> HIDE DEF a, b
<1>3. /\ a \o b \in Seq(S) /\ Len(a \o b) = Len(a) + Len(b)
      /\ \A j \in 1 .. Len(a) + Len(b) : (a \o b)[j] =
             IF j <= Len(a) THEN a[j] ELSE b[j - Len(a)]
  BY <1>1, <1>2, ConcatProperties
<1>4. RemoveAt(s, i) = a \o b
  BY DEF RemoveAt, a, b
<1>5. ASSUME NEW j \in 1 .. Len(s) - 1
      PROVE  (a \o b)[j] = IF j < i THEN s[j] ELSE s[j + 1]
  <2>1. (a \o b)[j] = IF j <= i - 1 THEN a[j] ELSE b[j - (i - 1)]
    BY <1>0, <1>1, <1>2, <1>3, SMTT(30)
  <2>2. CASE j < i
    BY <1>0, <1>1, <2>1, <2>2
  <2>3. CASE j >= i
    <3>1. j - (i - 1) \in 1 .. Len(s) - i /\ i + (j - (i - 1)) = j + 1
      BY <1>0, <2>3
    <3>2. b[j - (i - 1)] = s[j + 1]
      BY <1>2, <3>1
    <3>3. QED
      BY <1>0, <2>1, <2>3, <3>2
  <2>4. j < i \/ j >= i
    BY <1>0
  <2>5. QED
    BY <2>2, <2>3, <2>4
<1>6. Len(a) + Len(b) = Len(s) - 1
  BY <1>0, <1>1, <1>2
<1>7. QED
  BY <1>3, <1>4, <1>5, <1>6

LEMMA LandChat ==
  ASSUME ChatInv, NEW i \in DOMAIN puts, Land(i) \/ Drop(i)
  PROVE  ChatInv'
<1>1. puts[i] \in Snapshots /\ puts' \in Seq(Snapshots)
  BY Removed DEF Land, Drop, ChatInv, HistoryTyped
<1>2. HistoryTyped'
  BY <1>1 DEF Land, Drop, ChatInv, HistoryTyped, Snapshots
<1>3. QED
  BY <1>2 DEF Land, Drop, ChatInv, serviceVars, SettingTyped, ServiceTyped, PagesTyped, RouterTyped,
              RunsTyped

LEMMA NextChat == ChatInv /\ [Next]_vars => ChatInv'
<1> SUFFICES ASSUME ChatInv, [Next]_vars PROVE ChatInv'
  OBVIOUS
<1>1. ASSUME NEW p \in Pages, Load(p) \/ PageStep(p) \/ Ask(p) \/ Read(p) \/ Forget(p)
      PROVE  ChatInv'
  BY <1>1, LoadChat, PageStepChat, AskChat, ReadChat, ForgetChat
<1>2. ASSUME NEW c \in Requests, NEW d \in Deployments, Close(c, d) \/ Closed(c)
      PROVE  ChatInv'
  BY <1>2, StutterChat DEF Close, Closed, Serving, serviceVars, Move, Fault
<1>3. ASSUME NEW r \in DOMAIN runs, RunStep(r)
      PROVE  ChatInv'
  BY <1>3, RunStepChat
<1>4. ASSUME NEW i \in DOMAIN puts, Land(i) \/ Drop(i)
      PROVE  ChatInv'
  BY <1>4, LandChat
<1>5. ASSUME NEW d \in Deployments, Redeploy(d) \/ Stop(d)
      PROVE  ChatInv'
  BY <1>5, ServicesChat
<1>6. CASE UNCHANGED Serving
  BY <1>6, StutterChat
<1>7. QED
  BY <1>1, <1>2, <1>3, <1>4, <1>5, <1>6 DEF Next, vars, Serving

\* The pages, gateways, generations and snapshots of the chat have their types, a generation
\* that reads does so from the service its gateway is for, and no list holds noise.
THEOREM ChatTypes == Spec => []ChatInv
  BY InitChat, NextChat, PTL DEF Spec

\* Every answer a page keeps, or the history holds, was decoded with the key its model was
\* converted with, whatever is stopped, started anew, closed or moved meanwhile.
THEOREM AnswersReadable == Spec => []AnswersAreReadable
<1>1. ChatInv => AnswersAreReadable
  <2> SUFFICES ASSUME ChatInv PROVE AnswersAreReadable
    OBVIOUS
  <2>1. ASSUME NEW list \in Lists PROVE Readable(list)
    <3>1. \A i \in DOMAIN list : list[i] \in ReadableTurns
      BY <2>1 DEF Lists
    <3>2. QED
      BY <3>1 DEF Readable, Range, ReadableTurns
  <2>2. \A d \in Deployments : saved[d] \in Lists
    BY DEF ChatInv, HistoryTyped
  <2>3. \A p \in Pages : page[p].list \in Lists
    BY DEF ChatInv, PagesTyped, IsPage
  <2>4. QED
    BY <2>1, <2>2, <2>3 DEF AnswersAreReadable
<1>2. QED
  BY <1>1, ChatTypes, PTL

-----------------------------------------------------------------------------
(* The chat: histories.                                                    *)

Active(p) == page[p].at # "closed"
Of(list, d) == \A i \in DOMAIN list : list[i].by = d
IsLast(i) == \A j \in DOMAIN puts : j > i => puts[j].dep # puts[i].dep
\* A page not yet opened has no part in this.
ClosedPages ==
  \A p \in Pages : ~Active(p) => page[p].dep = None /\ page[p].run = NoRun /\ page[p].list = <<>>
\* One page at most is at work on the desktop; the public page has no deployment.
OneTab ==
  IF set.mode = "desktop"
  THEN \A p, q \in Pages : Active(p) /\ Active(q) => p = q
  ELSE \A p \in Pages : page[p].dep = None
\* What is saved, on its way or shown under a deployment's name it has answered.
ListsAreTrue ==
  /\ \A d \in Deployments : Of(saved[d], d)
  /\ \A i \in DOMAIN puts : Of(puts[i].list, puts[i].dep)
  /\ \A p \in Pages : page[p].dep # None => Of(page[p].list, page[p].dep)
\* The last snapshot on its way is what the page shows; without one, what is saved is.
PageIsSaved(p) ==
  /\ \A i \in DOMAIN puts :
        puts[i].dep = page[p].dep /\ IsLast(i) => puts[i].list = page[p].list
  /\ (\A i \in DOMAIN puts : puts[i].dep # page[p].dep) => saved[page[p].dep] = page[p].list
\* From the selection on, the gateway a prompt will take is of the page's deployment ...
GatewayIsWanted(p) ==
  /\ page[p].at \notin {"list", "off"} => page[p].want = page[p].dep
  /\ page[p].at \in {"equip", "swap"} => page[p].gateway.dep = page[p].dep
  /\ page[p].at \in {"retire", "ready"} => router.dep = page[p].dep
Void(x) == x.at = "over" /\ x.end = None
Answered(x) == x.at \in {"picked", "reading"} \/ x.end = "words"
\* ... and one that was taken is, while its answer may still be read.
RunIsThePages(p) ==
  page[p].run # NoRun /\ ~Void(runs[page[p].run]) =>
     /\ runs[page[p].run].page = p /\ page[p].at = "ready"
     /\ Answered(runs[page[p].run]) => runs[page[p].run].gateway.dep = page[p].dep
PageIsTrue(p) ==
  page[p].dep # None => PageIsSaved(p) /\ GatewayIsWanted(p) /\ RunIsThePages(p)
History == OneTab /\ ListsAreTrue /\ \A p \in Pages : PageIsTrue(p)
HistoryInv == ClosedPages /\ (Trusted => History)

-----------------------------------------------------------------------------
LEMMA InitHistory == Init => HistoryInv
<1> SUFFICES ASSUME Init PROVE HistoryInv
  OBVIOUS
<1>1. \A p \in Pages : page[p].dep = None /\ page[p].run = NoRun /\ page[p].list = <<>>
  BY DEF Init, Blank
<1>2. OneTab
  <2>1. CASE set.mode = "desktop"
    BY <2>1 DEF Init, OneTab, Active, Blank
  <2>2. QED
    BY <1>1, <2>1 DEF OneTab
<1>3. ListsAreTrue /\ \A p \in Pages : PageIsTrue(p)
  BY <1>1 DEF Init, ListsAreTrue, Of, PageIsTrue
<1>4. QED
  BY <1>1, <1>2, <1>3 DEF HistoryInv, History, ClosedPages

\* What has happened stays noted.
LEMMA UnluckyGrows == [Next]_vars => unlucky \subseteq unlucky'
<1> SUFFICES ASSUME [Next]_vars PROVE unlucky \subseteq unlucky'
  OBVIOUS
<1>1. ASSUME NEW events, Note(events) PROVE unlucky \subseteq unlucky'
  BY <1>1 DEF Note
<1>2. ASSUME NEW c \in Callers, CallStep(c) \/ WaitExpires(c) PROVE unlucky \subseteq unlucky'
  BY <1>1, <1>2 DEF CallStep, WaitExpires, Lookup, OpenCheck, OpenStart, OpenWait, Pop,
                    CloseStop, CloseJoin
<1>3. ASSUME NEW w \in Threads, ThreadStep(w) \/ LoseSession(w) PROVE unlucky \subseteq unlucky'
  BY <1>3 DEF ThreadStep, LoseSession, Connect, ConnectFails, Listen, StopThread
<1>4. ASSUME NEW x \in Commands, CommandStep(x) \/ WorkerStep(x) \/ WorkerDies(x)
      PROVE  unlucky \subseteq unlucky'
  BY <1>4 DEF CommandStep, WorkerStep, WorkerDies, PollOpen, PollClose, WorkerStart,
              WorkerOpened, WorkerFails, WorkerStops, WorkerEnds
<1>5. ASSUME NEW x, NEW d \in Deployments, CommandOpen(x, d) \/ CommandClose(x, d)
      PROVE  unlucky \subseteq unlucky'
  BY <1>1, <1>5 DEF CommandOpen, CommandClose
<1>6. ASSUME NEW p \in Pages, Load(p) \/ PageStep(p) \/ Ask(p) \/ Read(p) \/ Forget(p)
      PROVE  unlucky \subseteq unlucky'
  <2>1. CASE Load(p)
    BY <1>1, <2>1 DEF Load
  <2>2. CASE Ask(p)
    BY <1>1, <2>2 DEF Ask
  <2>3. CASE Read(p) \/ Forget(p)
    BY <2>3 DEF Read, Forget, tunnelVars
  <2>4. CASE List(p)
    BY <1>1, <2>4 DEF List
  <2>5. CASE Open(p)
    BY <1>1, <2>5 DEF Open, Call
  <2>6. CASE Select(p) \/ Build(p) \/ Equip(p) \/ Swap(p) \/ Retire(p) \/ Opened(p)
             \/ OpenFailed(p)
    BY <2>6 DEF Select, Build, Equip, Swap, Retire, Opened, OpenFailed, tunnelVars
  <2>7. QED
    BY <1>6, <2>1, <2>2, <2>3, <2>4, <2>5, <2>6 DEF PageStep
<1>7. ASSUME NEW c \in Requests, NEW d \in Deployments, Close(c, d) \/ Closed(c)
      PROVE  unlucky \subseteq unlucky'
  BY <1>1, <1>7 DEF Close, Closed, Call
<1>8. ASSUME NEW r \in DOMAIN runs, RunStep(r)
      PROVE  unlucky \subseteq unlucky'
  BY <1>8 DEF RunStep, Pick, Send, Finish, Break, Tell, Error, Run, tunnelVars
<1>9. ASSUME NEW i \in DOMAIN puts, Land(i) \/ Drop(i)
      PROVE  unlucky \subseteq unlucky'
  BY <1>1, <1>9 DEF Land, Drop
<1>10. ASSUME NEW d \in Deployments, Redeploy(d) \/ Stop(d)
       PROVE  unlucky \subseteq unlucky'
  BY <1>10 DEF Redeploy, Stop
<1>11. CASE UNCHANGED vars
  BY <1>11 DEF vars, tunnelVars
<1>12. CASE TunnelNext
  BY <1>2, <1>3, <1>4, <1>12 DEF TunnelNext
<1>13. QED
  BY <1>5, <1>6, <1>7, <1>8, <1>9, <1>10, <1>11, <1>12 DEF Next

LEMMA StillTrusted ==
  ASSUME HistoryInv, [Next]_vars, Trusted'
  PROVE  History
  BY UnluckyGrows DEF HistoryInv, Trusted, Doubts

LEMMA StutterHistory ==
  ASSUME History, UNCHANGED <<set, router, page, runs, saved, puts>>
  PROVE  History'
  BY DEF History, OneTab, ListsAreTrue, PageIsTrue, PageIsSaved, GatewayIsWanted,
         RunIsThePages, Active, IsLast, Of, Void, Answered

\* A page that is open is the only one with a deployment.
LEMMA OnlyPage ==
  ASSUME ClosedPages, OneTab, NEW p \in Pages, Active(p), NEW q \in Pages, page[q].dep # None
  PROVE  q = p /\ set.mode = "desktop"
  BY DEF ClosedPages, OneTab

LEMMA ClosedStay ==
  ASSUME ChatInv, ClosedPages, NEW p \in Pages, NEW q, page' = [page EXCEPT ![p] = q],
         q.at # "closed"
  PROVE  ClosedPages'
  BY DEF ClosedPages, Active, ChatInv, PagesTyped

LEMMA OneTabStays ==
  ASSUME ChatInv, OneTab, NEW p \in Pages, NEW q, page' = [page EXCEPT ![p] = q],
         Active(p), q.dep = page[p].dep, set'.mode = set.mode
  PROVE  OneTab'
  BY DEF OneTab, Active, ChatInv, PagesTyped

\* What an activation does to a page of a deployment, the gateway and the generations.
StepGateway(p) ==
  /\ Active(p) /\ page[p].at # "ready" /\ page'[p].at # "closed" /\ set'.mode = set.mode
  /\ page'[p].at \notin {"list", "off"} =>
        page'[p].want = IF page[p].at = "list" THEN page[p].dep ELSE page[p].want
  /\ page[p].at # "off"
  /\ page'[p].at = "equip" => page[p].at = "build" /\ page'[p].gateway.dep = page[p].want
  /\ page'[p].at = "swap" =>
        page[p].at = "equip" /\ page'[p].gateway.dep = page[p].gateway.dep
  /\ page'[p].at = "retire" => page[p].at = "swap" /\ router' = page[p].gateway
  /\ page'[p].at = "ready" => page[p].at = "retire" /\ router' = router
  /\ DOMAIN runs' = DOMAIN runs
  /\ \A r \in DOMAIN runs : runs'[r] = runs[r]
                             \/ runs'[r] = [runs[r] EXCEPT !.gateway.closed = TRUE]

LEMMA StepsGateway ==
  ASSUME ChatInv, NEW p \in Pages, PageStep(p), Trusted', page[p].dep # None
  PROVE  StepGateway(p)
<1> USE DEF StepGateway, Active, At, ChatInv
<1>1. CASE List(p)
  <2>1. CASE Turn(p, "list", "off") /\ UNCHANGED unlucky
    BY <1>1, <2>1, TurnTurns DEF List, serviceVars
  <2>2. CASE \E d \in Deployments :
                /\ page' = [page EXCEPT ![p].at = "select", ![p].want = d]
                /\ Note(IF page[p].dep \in {d, None} THEN {} ELSE {"fallback"})
    <3>1. PICK d \in Deployments :
                /\ page' = [page EXCEPT ![p].at = "select", ![p].want = d]
                /\ Note(IF page[p].dep \in {d, None} THEN {} ELSE {"fallback"})
      BY <2>2
    <3>2. d = page[p].dep
      BY <3>1 DEF Note, Trusted, Doubts
    <3>3. QED
      BY <1>1, <3>1, <3>2 DEF List, serviceVars, PagesTyped, IsPage
  <2>3. QED
    BY <1>1, <2>1, <2>2 DEF List, Healthy
<1>2. CASE Select(p)
  BY <1>2, RefuseTurns DEF Select, PagesTyped, IsPage, serviceVars
<1>3. CASE Build(p)
  <2>1. set'.mode = set.mode /\ UNCHANGED <<router, runs>> /\ page[p].at = "build"
    BY <1>3 DEF Build, SettingTyped, IsSetting
  <2>2. CASE Refuse(p)
    BY <2>1, <2>2, RefuseTurns
  <2>3. CASE ~Refuse(p)
    <3>1. PICK g : page' = [page EXCEPT ![p].at = "equip", ![p].row = Blank.row,
                                        ![p].gateway = g]
                   /\ g.dep = page[p].want
      <4> DEFINE d == page[p].want
                 h == [NoGateway EXCEPT
                            !.dep = d, !.direct = d \in set.local,
                            !.port = IF d \in set.local THEN page[p].row.port
                                     ELSE tunnel[registry[d]].local]
      <4>1. page' = [page EXCEPT ![p].at = "equip", ![p].row = Blank.row, ![p].gateway = h]
        BY <1>3, <2>3 DEF Build
      <4>2. h.dep = d
        BY DEF NoGateway
      <4> HIDE DEF h
      <4>3. QED
        BY <4>1, <4>2
    <3>2. page'[p].at = "equip" /\ page'[p].gateway = g /\ page'[p].want = page[p].want
      BY <3>1 DEF PagesTyped, IsPage
    <3>3. QED
      BY <2>1, <3>1, <3>2
  <2>4. QED
    BY <2>2, <2>3
<1>e. CASE Equip(p)
  <2>1. /\ page[p].at = "equip" /\ page'[p].at \in {"swap", "failed"}
        /\ page'[p].want = page[p].want
        /\ page'[p].at = "swap" => page'[p].gateway.dep = page[p].gateway.dep
    BY <1>e DEF Equip, PagesTyped, IsPage, IsGateway
  <2>2. QED
    BY <1>e, <2>1 DEF Equip, serviceVars
<1>4. CASE Swap(p)
  BY <1>4 DEF Swap, PagesTyped, IsPage, serviceVars
<1>5. CASE Retire(p)
  <2>1. /\ page'[p].at = "ready" /\ page'[p].want = page[p].want
    BY <1>5 DEF Retire, PagesTyped, IsPage
  <2>2. /\ DOMAIN runs' = DOMAIN runs
        /\ \A r \in DOMAIN runs : runs'[r] = runs[r]
              \/ runs'[r] = [runs[r] EXCEPT !.gateway.closed = TRUE]
    BY <1>5 DEF Retire
  <2>3. QED
    BY <1>5, <2>1, <2>2 DEF Retire, serviceVars
<1>6. CASE Open(p)
  BY <1>6, TurnTurns DEF Open, serviceVars
<1>7. CASE Opened(p)
  <2>1. set'.mode = set.mode /\ UNCHANGED <<router, runs>>
    BY <1>7 DEF Opened, SettingTyped, IsSetting
  <2>2. page[p].at = "answer" /\ page'[p].at = "select" /\ page'[p].want = page[p].want
    BY <1>7, TurnTurns DEF Opened, Turn
  <2>3. QED
    BY <2>1, <2>2
<1>8. CASE OpenFailed(p)
  BY <1>8, TurnTurns DEF OpenFailed, PagesTyped, IsPage, serviceVars
<1>9. QED
  BY <1>1, <1>2, <1>3, <1>e, <1>4, <1>5, <1>6, <1>7, <1>8 DEF PageStep

\* An activation step leaves its page open.
LEMMA StepsClosed ==
  ASSUME ChatInv, ClosedPages, NEW p \in Pages, PageStep(p)
  PROVE  ClosedPages'
<1>1. page' = [page EXCEPT ![p] = page'[p]]
  BY PageStepTurns
<1>2. page'[p].at # "closed"
  <2> USE DEF ChatInv, PagesTyped, IsPage
  <2>1. CASE List(p) \/ Open(p) \/ Opened(p)
    BY <2>1, TurnTurns DEF List, Open, Opened
  <2>2. CASE Select(p) \/ Build(p)
    BY <2>2, RefuseTurns DEF Select, Build
  <2>3. CASE Equip(p) \/ Swap(p) \/ Retire(p)
    BY <2>3 DEF Equip, Swap, Retire
  <2>4. CASE OpenFailed(p)
    BY <2>4, TurnTurns DEF OpenFailed
  <2>5. QED
    BY <2>1, <2>2, <2>3, <2>4 DEF PageStep
<1>3. QED
  BY <1>1, <1>2, ClosedStay

\* The lists and the puts stay; a page of a deployment gains nothing but its gateway.
LEMMA ListsStay ==
  ASSUME ListsAreTrue, ChatInv, UNCHANGED <<saved, puts>>,
         \A q \in Pages : page'[q].dep = page[q].dep /\ page'[q].list = page[q].list
  PROVE  ListsAreTrue' /\ \A q \in Pages : PageIsSaved(q) => PageIsSaved(q)'
  BY DEF ListsAreTrue, Of, PageIsSaved, IsLast

LEMMA StepsTrue ==
  ASSUME ChatInv, ClosedPages, History, Trusted', NEW p \in Pages, PageStep(p)
  PROVE  History'
<1>1. /\ page' = [page EXCEPT ![p] = page'[p]] /\ Turned(page[p], page'[p])
      /\ UNCHANGED <<saved, puts>>
  BY PageStepTurns
<1>2. Active(p)
  BY DEF PageStep, List, Select, Build, Equip, Swap, Retire, Open, Opened, OpenFailed, At, Turn,
         Active
<1>3. set'.mode = set.mode
  BY DEF PageStep, List, Select, Build, Equip, Swap, Retire, Open, Opened, OpenFailed, serviceVars,
         ChatInv, SettingTyped, IsSetting
<1>4. OneTab'
  BY <1>1, <1>2, <1>3, OneTabStays DEF History, Turned
<1>5. \A q \in Pages : /\ page'[q].dep = page[q].dep /\ page'[q].list = page[q].list
                       /\ page'[q].run = page[q].run
  BY <1>1 DEF Turned, ChatInv, PagesTyped
<1>6. ListsAreTrue' /\ \A q \in Pages : PageIsSaved(q) => PageIsSaved(q)'
  BY <1>1, <1>5, ListsStay DEF History
<1>7. ASSUME NEW q \in Pages, page'[q].dep # None PROVE PageIsTrue(q)'
  <2>1. q = p /\ page[p].dep # None
    BY <1>2, <1>5, <1>7, OnlyPage DEF History
  <2>2. StepGateway(p) /\ PageIsTrue(p)
    BY <2>1, StepsGateway DEF History
  <2>3. GatewayIsWanted(p)'
    <3>1. GatewayIsWanted(p) /\ page'[p].dep = page[p].dep /\ page[p].at \notin {"off", "ready"}
      BY <2>1, <2>2, <1>5 DEF StepGateway, PageIsTrue
    <3>2. page'[p].at \notin {"list", "off"} => page'[p].want = page[p].dep
      BY <2>2, <3>1 DEF StepGateway, GatewayIsWanted
    <3>3. page'[p].at \in {"equip", "swap"} => page'[p].gateway.dep = page[p].dep
      BY <2>2, <3>1 DEF StepGateway, GatewayIsWanted
    <3>4. page'[p].at \in {"retire", "ready"} => router'.dep = page[p].dep
      BY <2>2, <3>1 DEF StepGateway, GatewayIsWanted
    <3>5. QED
      BY <3>1, <3>2, <3>3, <3>4 DEF GatewayIsWanted
  <2>4. RunIsThePages(p)'
    <3>1. SUFFICES ASSUME page'[p].run # NoRun, ~Void(runs'[page[p].run])
                   PROVE  FALSE
      BY <1>5 DEF RunIsThePages, Void
    <3>2. page[p].run \in DOMAIN runs
      BY <1>5, <3>1 DEF ChatInv, PagesTyped, IsPage, RunsTyped, NoRun
    <3>3. ~Void(runs[page[p].run])
      BY <2>2, <3>1, <3>2 DEF StepGateway, Void, ChatInv, RunsTyped, IsRun
    <3>4. QED
      BY <1>5, <2>1, <2>2, <3>1, <3>3 DEF StepGateway, PageIsTrue, RunIsThePages
  <2>5. QED
    BY <1>6, <2>1, <2>2, <2>3, <2>4 DEF PageIsTrue
<1>8. QED
  BY <1>4, <1>6, <1>7 DEF History, PageIsTrue

LEMMA AskTrue ==
  ASSUME ChatInv, ClosedPages, NEW p \in Pages, Ask(p)
  PROVE  ClosedPages' /\ (History /\ Trusted' => History')
<1> DEFINE n == Len(runs) + 1
           x == [Spent EXCEPT !.page = p, !.at = "queued", !.told = FALSE]
           new == [page[p] EXCEPT !.run = n]
<1>1. PICK gone : runs' = Append([r \in DOMAIN runs |-> IF r \in gone THEN Spent ELSE runs[r]], x)
  BY DEF Ask
<1> DEFINE f == [r \in DOMAIN runs |-> IF r \in gone THEN Spent ELSE runs[r]]
<1>2. runs'[n] = x /\ \A r \in DOMAIN runs : runs'[r] = f[r]
  <2> HIDE DEF x
  <2>1. f = [r \in DOMAIN runs |-> f[r]]
    OBVIOUS
  <2> HIDE DEF f
  <2>2. QED
    BY <1>1, <2>1, AppendRuns DEF ChatInv, f
<1>3. page' = [page EXCEPT ![p] = new] /\ Active(p)
  BY DEF Ask, ChatInv, PagesTyped, Active
<1>4. /\ new.at = page[p].at /\ new.run = n /\ new.dep = page[p].dep /\ new.want = page[p].want
      /\ new.gateway = page[p].gateway /\ new.list = page[p].list
  BY DEF ChatInv, PagesTyped, IsPage
<1>5. ClosedPages'
  BY <1>3, <1>4, ClosedStay DEF Active
<1>6. ASSUME History, Trusted' PROVE History'
  <2>1. page[p].at = "ready"
    BY <1>6 DEF Ask, At, Note, Trusted, Doubts
  <2>2. OneTab'
    <3>1. set' = set
      BY DEF Ask, serviceVars
    <3>2. QED
      BY <1>3, <1>4, <1>6, <3>1, OneTabStays DEF History
  <2> HIDE DEF new
  <2>3. \A q \in Pages : page'[q].dep = page[q].dep /\ page'[q].list = page[q].list
    BY <1>3, <1>4 DEF ChatInv, PagesTyped
  <2>4. ListsAreTrue' /\ \A q \in Pages : PageIsSaved(q) => PageIsSaved(q)'
    BY <1>6, <2>3, ListsStay DEF History, Ask
  <2>5. ASSUME NEW q \in Pages, page'[q].dep # None PROVE PageIsTrue(q)'
    <3>1. q = p /\ page[p].dep # None /\ page'[p] = new
      BY <1>3, <2>3, <2>5, <1>6, OnlyPage DEF History, ChatInv, PagesTyped
    <3>2. PageIsTrue(p)
      BY <1>6 DEF History
    <3>3. GatewayIsWanted(p)'
      BY <1>4, <3>1, <3>2 DEF GatewayIsWanted, PageIsTrue, Ask
    <3>4. RunIsThePages(p)'
      BY <1>2, <1>4, <2>1, <3>1, ZenonT(30) DEF RunIsThePages, Void, Answered, Spent, None
    <3>5. QED
      BY <2>4, <3>1, <3>2, <3>3, <3>4 DEF PageIsTrue
  <2>6. QED
    BY <2>2, <2>4, <2>5 DEF History, PageIsTrue
<1>7. QED
  BY <1>5, <1>6

\* A generation is decoded with the key of the gateway it was sent by, which is the one
\* selected when it is picked.
LEMMA RunTrue ==
  ASSUME ChatInv, History, NEW r \in DOMAIN runs, NEW x, Run(r, x), x.page = runs[r].page,
         Void(runs[r]) => Void(x),
         Answered(x) => \/ Answered(runs[r]) /\ x.gateway.dep = runs[r].gateway.dep
                        \/ x.gateway = router
  PROVE  History'
<1>1. \A i \in DOMAIN runs : runs'[i] = IF i = r THEN x ELSE runs[i]
  BY DEF Run
<1>2. UNCHANGED <<set, router, page, saved, puts>>
  BY DEF Run, serviceVars
<1>3. OneTab' /\ ListsAreTrue' /\ \A q \in Pages : PageIsSaved(q) => PageIsSaved(q)'
  BY <1>2 DEF History, OneTab, Active, ListsAreTrue, Of, PageIsSaved, IsLast
<1>4. ASSUME NEW q \in Pages, page'[q].dep # None PROVE PageIsTrue(q)'
  <2>1. page[q].dep # None /\ PageIsTrue(q)
    BY <1>2, <1>4 DEF History
  <2>2. GatewayIsWanted(q)'
    BY <1>2, <2>1 DEF PageIsTrue, GatewayIsWanted
  <2>3. RunIsThePages(q)'
    <3>1. SUFFICES ASSUME page[q].run # NoRun, ~Void(runs'[page[q].run])
                   PROVE  /\ runs'[page[q].run].page = q /\ page[q].at = "ready"
                          /\ Answered(runs'[page[q].run]) =>
                               runs'[page[q].run].gateway.dep = page[q].dep
      BY <1>2 DEF RunIsThePages, Void, Answered
    <3>2. page[q].run \in DOMAIN runs
      BY <3>1 DEF ChatInv, PagesTyped, IsPage, RunsTyped, NoRun
    <3>3. CASE page[q].run # r
      BY <1>1, <2>1, <3>1, <3>2, <3>3 DEF PageIsTrue, RunIsThePages
    <3>4. CASE page[q].run = r
      BY <1>1, <2>1, <3>1, <3>2, <3>4 DEF PageIsTrue, RunIsThePages, GatewayIsWanted
    <3>5. QED
      BY <3>3, <3>4
  <2>4. QED
    BY <1>3, <2>1, <2>2, <2>3 DEF PageIsTrue
<1>5. QED
  BY <1>3, <1>4 DEF History, PageIsTrue

LEMMA RunStepTrue ==
  ASSUME ChatInv, ClosedPages, NEW r \in DOMAIN runs, RunStep(r)
  PROVE  ClosedPages' /\ (History => History')
<1>1. IsRun(runs[r])
  BY DEF ChatInv, RunsTyped
<1>2. ClosedPages'
  BY DEF RunStep, Pick, Send, Finish, Break, Tell, Error, Run, ClosedPages, Active
<1>3. ASSUME History PROVE History'
  <2>1. CASE Error(r) /\ ~RunAt(r, "over")
    <3> DEFINE x == [runs[r] EXCEPT !.at = "over", !.end = "error", !.service = NoService,
                                    !.link = NoThread]
    <3>1. x.page = runs[r].page /\ x.at = "over" /\ x.end = "error"
      BY <1>1 DEF IsRun
    <3>2. Run(r, x) /\ ~Void(runs[r]) /\ ~Answered(x)
      BY <2>1, <3>1 DEF Error, RunAt, Void, Answered
    <3> HIDE DEF x
    <3>3. QED
      BY <1>3, <3>1, <3>2, RunTrue
  <2>2. CASE Pick(r) /\ ~Error(r)
    <3> DEFINE x == [runs[r] EXCEPT !.at = "picked", !.gateway = router]
    <3>1. x.page = runs[r].page /\ x.gateway = router
      BY <1>1 DEF IsRun
    <3>2. Run(r, x) /\ ~Void(runs[r])
      BY <2>2 DEF Pick, RunAt, Void
    <3> HIDE DEF x
    <3>3. QED
      BY <1>3, <3>1, <3>2, RunTrue
  <2>3. CASE Send(r) /\ ~Error(r)
    <3> DEFINE g == runs[r].gateway
               x == [runs[r] EXCEPT !.at = "reading", !.service = Behind(g), !.link = Link(g)]
    <3>1. x.page = runs[r].page /\ x.gateway = g
      BY <1>1 DEF IsRun
    <3>2. Run(r, x) /\ ~Void(runs[r]) /\ Answered(runs[r])
      BY <2>3 DEF Send, RunAt, Void, Answered
    <3> HIDE DEF x
    <3>3. QED
      BY <1>3, <3>1, <3>2, RunTrue
  <2>4. CASE Finish(r)
    <3> DEFINE x == [runs[r] EXCEPT !.at = "over", !.service = NoService, !.link = NoThread,
              !.end = IF runs[r].service.dep = runs[r].gateway.dep THEN "words" ELSE "noise"]
    <3>1. x.page = runs[r].page /\ x.gateway = runs[r].gateway
      BY <1>1 DEF IsRun
    <3>2. Run(r, x) /\ ~Void(runs[r]) /\ Answered(runs[r])
      BY <2>4 DEF Finish, RunAt, Void, Answered
    <3> HIDE DEF x
    <3>3. QED
      BY <1>3, <3>1, <3>2, RunTrue
  <2>5. CASE Tell(r)
    <3> DEFINE x == [runs[r] EXCEPT !.told = TRUE]
    <3>1. /\ x.page = runs[r].page /\ x.gateway = runs[r].gateway
          /\ x.at = runs[r].at /\ x.end = runs[r].end
      BY <1>1 DEF IsRun
    <3>2. /\ Run(r, x) /\ (Void(runs[r]) => Void(x))
          /\ (Answered(x) => Answered(runs[r]))
      BY <2>5, <3>1 DEF Tell, Void, Answered
    <3> HIDE DEF x
    <3>3. QED
      BY <1>3, <3>1, <3>2, RunTrue
  <2>6. QED
    BY <2>1, <2>2, <2>3, <2>4, <2>5 DEF RunStep, Pick, Send, Break, RunAt
<1>4. QED
  BY <1>2, <1>3

LEMMA AppendPuts ==
  ASSUME ChatInv, NEW x, x \in Snapshots
  PROVE  /\ DOMAIN puts = 1 .. Len(puts) /\ Len(puts) \in Nat
         /\ DOMAIN Append(puts, x) = 1 .. Len(puts) + 1
         /\ Append(puts, x)[Len(puts) + 1] = x
         /\ \A i \in DOMAIN puts : Append(puts, x)[i] = puts[i]
  BY DEF ChatInv, HistoryTyped

\* A snapshot a page sends is the last one of its deployment.
LEMMA PersistTrue ==
  ASSUME ChatInv, ListsAreTrue, NEW p \in Pages, NEW list \in Lists,
         NEW d \in Deployments \cup {None},
         page'[p].dep = d, page'[p].list = list, d # None => Of(list, d), Persist(p, list),
         saved' = saved,
         \A q \in Pages \ {p} : page'[q].dep = page[q].dep /\ page'[q].list = page[q].list
  PROVE  ListsAreTrue' /\ (d # None => PageIsSaved(p)')
<1>1. CASE d = None
  BY <1>1 DEF Persist, ListsAreTrue, Of
<1>2. CASE d # None
  <2> DEFINE x == [dep |-> d, list |-> list]
             n == Len(puts) + 1
  <2>1. puts' = Append(puts, x) /\ x \in Snapshots /\ x.dep = d /\ x.list = list
    BY <1>2 DEF Persist, Snapshots
  <2> HIDE DEF x
  <2>2. /\ DOMAIN puts = 1 .. n - 1 /\ n \in Nat /\ n \in DOMAIN puts' /\ DOMAIN puts' = 1 .. n
        /\ puts'[n] = x
        /\ \A i \in DOMAIN puts : puts'[i] = puts[i]
    BY <2>1, AppendPuts
  <2> HIDE DEF n
  <2>3. ListsAreTrue'
    <3>1. ASSUME NEW i \in DOMAIN puts' PROVE Of(puts'[i].list, puts'[i].dep)
      <4>1. CASE i = n
        BY <1>2, <2>1, <2>2, <4>1
      <4>2. CASE i \in DOMAIN puts
        BY <2>2, <4>2 DEF ListsAreTrue
      <4>3. QED
        BY <2>2, <4>1, <4>2
    <3>2. ASSUME NEW q \in Pages, page'[q].dep # None PROVE Of(page'[q].list, page'[q].dep)
      BY <1>2, <3>2 DEF ListsAreTrue
    <3>3. QED
      BY <3>1, <3>2 DEF ListsAreTrue, Of
  <2>4. PageIsSaved(p)'
    <3>1. ASSUME NEW i \in DOMAIN puts', puts'[i].dep = d, IsLast(i)'
          PROVE  puts'[i].list = list
      <4>1. i = n
        BY <2>1, <2>2, <3>1 DEF IsLast
      <4>2. QED
        BY <2>1, <2>2, <4>1
    <3>2. QED
      BY <2>1, <2>2, <3>1 DEF PageIsSaved
  <2>5. QED
    BY <2>3, <2>4
<1>3. QED
  BY <1>1, <1>2

LEMMA ReadTrue ==
  ASSUME ChatInv, ClosedPages, NEW p \in Pages, Read(p)
  PROVE  ClosedPages' /\ (History => History')
<1> DEFINE r == page[p].run
           job == runs[r]
           list == Kept(Append(page[p].list, [by |-> job.gateway.dep, text |-> job.end]))
<1>1. r \in DOMAIN runs /\ Active(p)
  BY DEF Read, ChatInv, PagesTyped, IsPage, RunsTyped, NoRun, ClosedPages
<1>2. IsRun(job) /\ IsPage(page[p], Len(runs))
  BY <1>1 DEF ChatInv, RunsTyped, PagesTyped
<1>3. UNCHANGED <<set, router, saved>>
  BY DEF Read, serviceVars
<1>4. PICK new :
        /\ page' = [page EXCEPT ![p] = new]
        /\ new.run = NoRun /\ new.at = page[p].at /\ new.dep = page[p].dep
        /\ new.want = page[p].want /\ new.gateway = page[p].gateway
        /\ \/ job.end = "words" /\ new.list = list /\ Persist(p, list)
           \/ new.list = page[p].list /\ UNCHANGED puts
  <2>1. CASE /\ job.end \in {"words", "noise"} /\ job.told
             /\ page' = [page EXCEPT ![p].run = NoRun, ![p].list = list]
             /\ Persist(p, list)
    <3> DEFINE new == [page[p] EXCEPT !.run = NoRun, !.list = list]
    <3>1. page' = [page EXCEPT ![p] = new]
      BY <2>1 DEF ChatInv, PagesTyped
    <3>2. job.end = "words"
      BY <1>2, <2>1 DEF IsRun, None
    <3>3. /\ new.run = NoRun /\ new.at = page[p].at /\ new.dep = page[p].dep
          /\ new.want = page[p].want /\ new.gateway = page[p].gateway /\ new.list = list
      <4> HIDE DEF list
      <4>1. QED
        BY <1>2 DEF IsPage
    <3> HIDE DEF new, list
    <3>4. QED
      BY <2>1, <3>1, <3>2, <3>3
  <2>2. CASE page' = [page EXCEPT ![p].run = NoRun] /\ UNCHANGED puts
    <3> DEFINE new == [page[p] EXCEPT !.run = NoRun]
    <3>1. page' = [page EXCEPT ![p] = new]
      BY <2>2 DEF ChatInv, PagesTyped
    <3>2. /\ new.run = NoRun /\ new.at = page[p].at /\ new.dep = page[p].dep
          /\ new.want = page[p].want /\ new.gateway = page[p].gateway
          /\ new.list = page[p].list
      BY <1>2 DEF IsPage
    <3> HIDE DEF new
    <3>3. QED
      BY <2>2, <3>1, <3>2
  <2>3. QED
    BY <2>1, <2>2 DEF Read
<1>5. page'[p] = new /\ \A q \in Pages \ {p} : page'[q] = page[q]
  BY <1>4 DEF ChatInv, PagesTyped
<1>6. ClosedPages'
  BY <1>1, <1>4, ClosedStay DEF Active
<1>7. ASSUME History PROVE History'
  <2>1. OneTab'
    BY <1>1, <1>3, <1>4, <1>7, OneTabStays DEF History
  <2>2. PageIsTrue(p) /\ ListsAreTrue
    BY <1>7 DEF History
  <2>3. ListsAreTrue' /\ (page[p].dep # None => PageIsSaved(p)')
    <3>1. CASE new.list = page[p].list /\ UNCHANGED puts
      <4>1. \A q \in Pages : page'[q].dep = page[q].dep /\ page'[q].list = page[q].list
        BY <1>4, <1>5, <3>1
      <4>2. QED
        BY <1>3, <2>2, <3>1, <4>1, ListsStay DEF PageIsTrue
    <3>2. CASE job.end = "words" /\ new.list = list /\ Persist(p, list)
      <4> DEFINE turn == [by |-> job.gateway.dep, text |-> job.end]
      <4>1. turn \in ReadableTurns
        BY <1>2, <3>2 DEF IsRun, IsGateway, ReadableTurns
      <4>2. ASSUME page[p].dep # None PROVE turn.by = page[p].dep
        <5>1. ~Void(job) /\ Answered(job)
          BY <3>2 DEF Void, Answered, None
        <5>2. page[p].run # NoRun
          BY DEF Read
        <5>3. QED
          BY <2>2, <4>2, <5>1, <5>2 DEF PageIsTrue, RunIsThePages
      <4> DEFINE all == Append(page[p].list, turn)
      <4>3. list = Kept(all) /\ page[p].list \in Seq(ReadableTurns)
        BY <1>2 DEF IsPage, Lists
      <4> HIDE DEF turn
      <4>4. list \in Lists /\ \A i \in DOMAIN list : \E j \in DOMAIN all : list[i] = all[j]
        <5>1. all \in Seq(ReadableTurns)
          BY <4>1, <4>3
        <5> HIDE DEF all, list
        <5>2. QED
          BY <4>3, <5>1, KeptIsPart DEF Lists
      <4>5. page[p].dep # None => Of(list, page[p].dep)
        <5> SUFFICES ASSUME page[p].dep # None, NEW i \in DOMAIN all
                     PROVE  all[i].by = page[p].dep
          <6> HIDE DEF all, list
          <6> QED BY <4>4 DEF Of
        <5>1. CASE i \in DOMAIN page[p].list
          <6>1. all[i] = page[p].list[i]
            BY <4>1, <4>3, <5>1
          <6>2. QED
            BY <2>2, <5>1, <6>1 DEF ListsAreTrue, Of
        <5>2. CASE i = Len(page[p].list) + 1
          <6>1. all[i] = turn
            BY <4>1, <4>3, <5>2
          <6>2. QED
            BY <4>2, <6>1
        <5>3. QED
          BY <4>1, <4>3, <5>1, <5>2
      <4>6. page[p].dep \in Deployments \cup {None}
        BY <1>2 DEF IsPage
      <4> HIDE DEF list
      <4>7. QED
        BY <1>3, <1>4, <1>5, <2>2, <3>2, <4>4, <4>5, <4>6, PersistTrue
    <3>3. QED
      BY <1>4, <3>1, <3>2
  <2>4. ASSUME NEW q \in Pages, page'[q].dep # None PROVE PageIsTrue(q)'
    <3>1. page[q].dep # None
      BY <1>4, <1>5, <2>4
    <3>2. q = p
      BY <1>1, <1>7, <3>1, OnlyPage DEF History
    <3>3. GatewayIsWanted(p)'
      BY <1>3, <1>4, <1>5, <2>2, <3>1, <3>2 DEF PageIsTrue, GatewayIsWanted
    <3>4. RunIsThePages(p)'
      BY <1>4, <1>5 DEF RunIsThePages
    <3>5. QED
      BY <2>3, <3>1, <3>2, <3>3, <3>4 DEF PageIsTrue
  <2>5. QED
    BY <2>1, <2>3, <2>4 DEF History, PageIsTrue
<1>8. QED
  BY <1>6, <1>7

LEMMA ForgetTrue ==
  ASSUME ChatInv, ClosedPages, NEW p \in Pages, Forget(p)
  PROVE  ClosedPages' /\ (History => History')
<1> DEFINE new == [page[p] EXCEPT !.list = <<>>]
<1>1. page' = [page EXCEPT ![p] = new] /\ Persist(p, <<>>)
  BY DEF Forget, ChatInv, PagesTyped
<1>2. Active(p) /\ page[p].run = NoRun /\ UNCHANGED <<set, router, saved>>
  BY DEF Forget, ClosedPages, serviceVars
<1>3. /\ new.run = NoRun /\ new.at = page[p].at /\ new.dep = page[p].dep
      /\ new.want = page[p].want /\ new.gateway = page[p].gateway /\ new.list = <<>>
      /\ page[p].dep \in Deployments \cup {None}
  BY <1>2 DEF ChatInv, PagesTyped, IsPage
<1> HIDE DEF new
<1>4. page'[p] = new /\ \A q \in Pages \ {p} : page'[q] = page[q]
  BY <1>1 DEF ChatInv, PagesTyped
<1>5. ClosedPages'
  BY <1>1, <1>2, <1>3, ClosedStay DEF Active
<1>6. ASSUME History PROVE History'
  <2>1. OneTab'
    BY <1>1, <1>2, <1>3, <1>6, OneTabStays DEF History
  <2>2. PageIsTrue(p) /\ ListsAreTrue
    BY <1>6 DEF History
  <2>3. ListsAreTrue' /\ (page[p].dep # None => PageIsSaved(p)')
    <3>1. Of(<<>>, page[p].dep)
      BY DEF Of
    <3>2. QED
      BY <1>1, <1>2, <1>3, <1>4, <2>2, <3>1, EmptyList, PersistTrue
  <2>4. ASSUME NEW q \in Pages, page'[q].dep # None PROVE PageIsTrue(q)'
    <3>1. page[q].dep # None
      BY <1>3, <1>4, <2>4
    <3>2. q = p
      BY <1>2, <1>6, <3>1, OnlyPage DEF History
    <3>3. GatewayIsWanted(p)'
      BY <1>2, <1>3, <1>4, <2>2, <3>1, <3>2 DEF PageIsTrue, GatewayIsWanted
    <3>4. RunIsThePages(p)'
      BY <1>3, <1>4 DEF RunIsThePages
    <3>5. QED
      BY <2>3, <3>1, <3>2, <3>3, <3>4 DEF PageIsTrue
  <2>5. QED
    BY <2>1, <2>3, <2>4 DEF History, PageIsTrue
<1>7. QED
  BY <1>5, <1>6

\* A page that loads when it is alone and nothing of its deployment is on the way finds all of
\* the history, and sends it again.
LEMMA LoadTrue ==
  ASSUME ChatInv, ClosedPages, NEW p \in Pages, Load(p)
  PROVE  ClosedPages' /\ (History /\ Trusted' => History')
<1>1. PICK named \in Deployments \cup {None}, list \in Lists :
          /\ page' = [page EXCEPT ![p] = [Blank EXCEPT !.at = "list", !.dep = named,
                                                      !.list = list]]
          /\ IF list = <<>> THEN UNCHANGED puts ELSE Persist(p, list)
          /\ Trusted' => /\ list = IF named = None THEN <<>> ELSE saved[named]
                         /\ \A q \in Pages \ {p} : page[q].at = "closed"
                         /\ \A i \in DOMAIN puts : puts[i].dep # named
  BY LoadFinds
<1> DEFINE new == [Blank EXCEPT !.at = "list", !.dep = named, !.list = list]
<1>3. page' = [page EXCEPT ![p] = new]
  BY <1>1
<1>4. new.at = "list" /\ new.dep = named /\ new.list = list /\ new.run = NoRun
  BY DEF Blank
<1> HIDE DEF new
<1>6. page'[p] = new /\ \A q \in Pages \ {p} : page'[q] = page[q]
  BY <1>3 DEF ChatInv, PagesTyped
<1>7. UNCHANGED <<set, router, saved>> /\ set.mode = "desktop"
  BY DEF Load
<1>8. ClosedPages'
  BY <1>3, <1>4, ClosedStay
<1>9. ASSUME History, Trusted' PROVE History'
  <2>1. /\ \A q \in Pages \ {p} : ~Active(q)
        /\ \A i \in DOMAIN puts : puts[i].dep # named
    BY <1>1, <1>9 DEF Active
  <2>2. OneTab'
    BY <1>6, <1>7, <2>1 DEF OneTab, Active
  <2>3. ListsAreTrue
    BY <1>9 DEF History
  <2>4. ListsAreTrue' /\ (named # None => PageIsSaved(p)')
    <3>1. named # None => Of(list, named) /\ list = saved[named]
      BY <1>1, <1>9, <2>3 DEF ListsAreTrue
    <3>2. CASE UNCHANGED puts
      <4>1. ListsAreTrue'
        <5>1. ASSUME NEW q \in Pages, page'[q].dep # None PROVE Of(page'[q].list, page'[q].dep)
          BY <1>4, <1>6, <2>3, <3>1, <5>1 DEF ListsAreTrue
        <5>2. QED
          BY <1>7, <2>3, <3>2, <5>1 DEF ListsAreTrue, Of
      <4>2. named # None => PageIsSaved(p)'
        BY <1>4, <1>6, <1>7, <2>1, <3>1, <3>2 DEF PageIsSaved
      <4>3. QED
        BY <4>1, <4>2
    <3>3. CASE Persist(p, list)
      BY <1>4, <1>6, <1>7, <2>3, <3>1, <3>3, PersistTrue
    <3>4. QED
      BY <1>1, <3>2, <3>3
  <2>5. ASSUME NEW q \in Pages, page'[q].dep # None PROVE PageIsTrue(q)'
    <3>1. q = p
      BY <1>6, <1>8, <2>1, <2>5 DEF ClosedPages, Active
    <3>2. GatewayIsWanted(p)' /\ RunIsThePages(p)'
      BY <1>4, <1>6 DEF GatewayIsWanted, RunIsThePages
    <3>3. QED
      BY <1>4, <1>6, <2>4, <2>5, <3>1, <3>2 DEF PageIsTrue
  <2>6. QED
    BY <2>2, <2>4, <2>5 DEF History, PageIsTrue
<1>10. QED
  BY <1>8, <1>9

\* The last snapshot of a deployment lands last.
LEMMA LandTrue ==
  ASSUME ChatInv, ClosedPages, NEW i \in DOMAIN puts, Land(i)
  PROVE  ClosedPages' /\ (History /\ Trusted' => History')
<1> DEFINE n == Len(puts)
<1>1. puts \in Seq(Snapshots) /\ n \in Nat /\ DOMAIN puts = 1 .. n /\ i \in 1 .. n
  BY DEF ChatInv, HistoryTyped
<1>2. /\ DOMAIN puts' = 1 .. n - 1
      /\ \A j \in 1 .. n - 1 : puts'[j] = IF j < i THEN puts[j] ELSE puts[j + 1]
  <2>1. puts' = RemoveAt(puts, i)
    BY DEF Land
  <2>2. RemoveAt(puts, i) \in Seq(Snapshots) /\ Len(RemoveAt(puts, i)) = n - 1
        /\ \A j \in 1 .. n - 1 : RemoveAt(puts, i)[j] = IF j < i THEN puts[j] ELSE puts[j + 1]
    BY <1>1, Removed
  <2>3. QED
    BY <2>1, <2>2, LenProperties
<1> HIDE DEF n
<1>3. UNCHANGED <<set, router, page, runs>> /\ puts[i].dep \in Deployments
  <2>1. puts[i] \in Snapshots
    BY <1>1
  <2>2. QED
    BY <2>1 DEF Land, serviceVars, Snapshots
<1>4. \A d \in Deployments : saved'[d] = IF d = puts[i].dep THEN puts[i].list ELSE saved[d]
  BY <1>3 DEF Land, ChatInv, HistoryTyped
<1>5. ClosedPages'
  BY <1>3 DEF ClosedPages, Active
<1>6. ASSUME History, Trusted' PROVE History'
  <2>1. \A j \in 1 .. i - 1 : puts[j].dep # puts[i].dep
    BY <1>6 DEF Land, Note, Trusted, Doubts
  <2>2. ListsAreTrue'
    <3>1. \A j \in DOMAIN puts' : \E k \in DOMAIN puts : puts'[j] = puts[k]
      <4> SUFFICES ASSUME NEW j \in 1 .. n - 1 PROVE \E k \in DOMAIN puts : puts'[j] = puts[k]
        BY <1>2
      <4>1. j \in 1 .. n /\ j + 1 \in 1 .. n
        BY <1>1
      <4>2. QED
        BY <1>1, <1>2, <4>1
    <3>2. QED
      BY <1>3, <1>4, <1>6, <3>1 DEF History, ListsAreTrue, Of
  <2>3. ASSUME NEW p \in Pages, page[p].dep # None PROVE PageIsSaved(p)'
    <3>1. PageIsSaved(p) /\ page[p].dep \in Deployments
      BY <1>6, <2>3 DEF History, PageIsTrue, ChatInv, PagesTyped, IsPage
    <3>2. ASSUME NEW j \in DOMAIN puts', puts'[j].dep = page[p].dep, IsLast(j)'
          PROVE  puts'[j].list = page[p].list
      <4> DEFINE k == IF j < i THEN j ELSE j + 1
      <4>1. j \in 1 .. n - 1 /\ k \in 1 .. n /\ puts'[j] = puts[k] /\ k # i
        BY <1>1, <1>2, <3>2
      <4>2. ASSUME NEW l \in 1 .. n, l > k PROVE puts[l].dep # page[p].dep
        <5>1. CASE l = i
          BY <1>1, <2>1, <3>2, <4>1, <4>2, <5>1
        <5>2. CASE l < i
          <6>1. l \in 1 .. n - 1 /\ l > j /\ puts'[l] = puts[l]
            BY <1>1, <1>2, <4>1, <4>2, <5>2
          <6>2. QED
            BY <1>2, <3>2, <6>1 DEF IsLast
        <5>3. CASE l > i
          <6>1. l - 1 \in 1 .. n - 1 /\ l - 1 > j /\ puts'[l - 1] = puts[l]
            <7>1. l - 1 \in 1 .. n - 1 /\ l - 1 > j /\ ~(l - 1 < i) /\ (l - 1) + 1 = l
              BY <1>1, <4>1, <4>2, <5>3
            <7>2. QED
              BY <1>2, <7>1
          <6>2. QED
            BY <1>2, <3>2, <6>1 DEF IsLast
        <5>4. QED
          BY <1>1, <5>1, <5>2, <5>3
      <4>3. IsLast(k)
        BY <1>1, <3>2, <4>1, <4>2 DEF IsLast
      <4>4. QED
        BY <1>1, <3>1, <3>2, <4>1, <4>3 DEF PageIsSaved
    <3>3. ASSUME \A j \in DOMAIN puts' : puts'[j].dep # page[p].dep
          PROVE  saved'[page[p].dep] = page[p].list
      <4>1. ASSUME NEW l \in 1 .. n, l # i PROVE puts[l].dep # page[p].dep
        <5>1. CASE l < i
          <6>1. l \in 1 .. n - 1 /\ puts'[l] = puts[l]
            BY <1>1, <1>2, <5>1
          <6>2. QED
            BY <1>2, <3>3, <6>1
        <5>2. CASE l > i
          <6>1. l - 1 \in 1 .. n - 1 /\ ~(l - 1 < i) /\ (l - 1) + 1 = l
            BY <1>1, <5>2
          <6>2. puts'[l - 1] = puts[l]
            BY <1>2, <6>1
          <6>3. QED
            BY <1>2, <3>3, <6>1, <6>2
        <5>3. QED
          BY <1>1, <4>1, <5>1, <5>2
      <4>2. CASE puts[i].dep = page[p].dep
        BY <1>1, <1>4, <3>1, <4>1, <4>2 DEF PageIsSaved, IsLast
      <4>3. CASE puts[i].dep # page[p].dep
        BY <1>1, <1>4, <3>1, <4>1, <4>3 DEF PageIsSaved
      <4>4. QED
        BY <4>2, <4>3
    <3>4. QED
      BY <1>3, <3>2, <3>3 DEF PageIsSaved
  <2>4. OneTab' /\ \A p \in Pages : PageIsTrue(p)'
    BY <1>3, <1>6, <2>3 DEF History, OneTab, Active, PageIsTrue, GatewayIsWanted, RunIsThePages,
                            Void, Answered
  <2>5. QED
    BY <2>2, <2>4 DEF History
<1>7. QED
  BY <1>5, <1>6

\* A snapshot that is refused is noted.
LEMMA DropTrue ==
  ASSUME ClosedPages, NEW i \in DOMAIN puts, Drop(i)
  PROVE  ClosedPages' /\ ~Trusted'
  BY DEF Drop, Note, Trusted, Doubts, ClosedPages, Active

LEMMA NextHistory == ChatInv /\ HistoryInv /\ [Next]_vars => HistoryInv'
<1> SUFFICES ASSUME ChatInv, HistoryInv, [Next]_vars PROVE HistoryInv'
  OBVIOUS
<1>1. ClosedPages /\ (Trusted' => History)
  BY StillTrusted DEF HistoryInv
<1>2. ASSUME NEW p \in Pages, Load(p) \/ PageStep(p) \/ Ask(p) \/ Read(p) \/ Forget(p)
      PROVE  HistoryInv'
  BY <1>1, <1>2, LoadTrue, StepsClosed, StepsTrue, AskTrue, ReadTrue, ForgetTrue DEF HistoryInv
<1>3. ASSUME NEW r \in DOMAIN runs, RunStep(r)
      PROVE  HistoryInv'
  BY <1>1, <1>3, RunStepTrue DEF HistoryInv
<1>4. ASSUME NEW i \in DOMAIN puts, Land(i) \/ Drop(i)
      PROVE  HistoryInv'
  BY <1>1, <1>4, LandTrue, DropTrue DEF HistoryInv
<1>5. CASE UNCHANGED <<set, router, page, runs, saved, puts>>
  <2>1. ClosedPages'
    BY <1>1, <1>5 DEF ClosedPages, Active
  <2>2. QED
    BY <1>1, <1>5, <2>1, StutterHistory DEF HistoryInv
<1>6. ASSUME NEW c \in Requests, NEW d \in Deployments, Close(c, d) \/ Closed(c)
      PROVE  HistoryInv'
  BY <1>5, <1>6 DEF Close, Closed, serviceVars, chatVars
<1>7. ASSUME NEW d \in Deployments, Redeploy(d) \/ Stop(d)
      PROVE  HistoryInv'
  BY <1>5, <1>7 DEF Redeploy, Stop, chatVars
<1>8. CASE UNCHANGED Serving
  BY <1>5, <1>8 DEF Serving, serviceVars, chatVars
<1>9. QED
  BY <1>2, <1>3, <1>4, <1>6, <1>7, <1>8 DEF Next, vars, Serving

\* The history of a deployment holds answers of that deployment alone, and those its page shows
\* once no snapshot is on its way, unless one of the seven things happened that the code does
\* not protect it from.
THEOREM HistoriesAreTrue == Spec => []HistoryIsTrue
<1>1. ChatInv => ChatTypeOK
  <2> SUFFICES ASSUME ChatInv PROVE ChatTypeOK
    OBVIOUS
  <2>1. /\ set.stored \in BOOLEAN /\ set.repair \subseteq Deployments
        /\ \A r \in RemotePorts : service[r].dep \in Deployments \cup {None}
        /\ chosen \in Deployments \cup {None}
    BY DEF ChatInv, SettingTyped, IsSetting, ServiceTyped, RouterTyped
  <2>2. ASSUME NEW p \in Pages
        PROVE  /\ {page[p].dep, page[p].want} \subseteq Deployments \cup {None}
               /\ page[p].run \in 0 .. Len(runs) /\ page[p].tries \in 0 .. 2
    BY DEF ChatInv, PagesTyped, IsPage
  <2>3. ASSUME NEW r \in DOMAIN runs
        PROVE  /\ runs[r].at \in {"queued", "picked", "reading", "over"}
               /\ runs[r].end \in {None, "words", "noise", "error"}
    BY DEF ChatInv, RunsTyped, IsRun
  <2>4. ASSUME NEW i \in DOMAIN puts PROVE puts[i].dep \in Deployments
    <3>1. puts[i] \in Snapshots
      BY DEF ChatInv, HistoryTyped
    <3>2. QED
      BY <3>1 DEF Snapshots
  <2>5. QED
    BY <2>1, <2>2, <2>3, <2>4 DEF ChatTypeOK
<1>2. ChatInv /\ HistoryInv => HistoryIsTrue
  <2> SUFFICES ASSUME ChatInv, HistoryInv, Trusted
               PROVE  /\ \A d \in Deployments : \A turn \in Range(saved[d]) : turn.by = d
                      /\ \A p \in Pages :
                            page[p].dep # None =>
                               /\ \A turn \in Range(page[p].list) : turn.by = page[p].dep
                               /\ puts = <<>> => saved[page[p].dep] = page[p].list
    BY <1>1 DEF HistoryIsTrue, Trusted
  <2>1. History
    BY DEF HistoryInv
  <2>2. QED
    BY <2>1 DEF History, ListsAreTrue, Of, PageIsTrue, PageIsSaved, Range
<1>3. Spec => []HistoryInv
  BY InitHistory, NextHistory, ChatTypes, PTL DEF Spec
<1>4. QED
  BY <1>2, <1>3, ChatTypes, PTL

-----------------------------------------------------------------------------
(* The tunnels: what forwards a port is held by someone who can close it.  *)

\* No two calls for a deployment overlapped, and no join gave up.
Calm == unlucky \cap {"overlap", "late"} = {}
HasTunnel(c) == call[c].tunnel # NoTunnel
Engaged(c) == HasTunnel(c) \/ call[c].at \in {"lookup", "pop"}
\* a call that opens, which leaves its tunnel in the registry
Opening(c) ==
  \/ call[c].at \in {"check", "start", "wait", "opened", "failed"}
  \/ call[c].at \in {"stop", "join"} /\ call[c].then = "failed"

\* The shape of what the variables hold.
IsTunnel(x) ==
  /\ DOMAIN x = {"of", "remote", "secret", "stop", "ready", "failed", "local", "thread"}
  /\ x.thread \in Threads \cup {NoThread}
  /\ x.stop \in BOOLEAN /\ x.ready \in BOOLEAN /\ x.failed \in BOOLEAN
IsThread(x) ==
  /\ DOMAIN x = {"of", "at", "port"}
  /\ \/ x = Ended
     \/ x.of \in Tunnels /\ x.at = "connect"
     \/ x.of \in Tunnels /\ x.at \in {"bind", "forward", "lost"} /\ x.port \in LocalPorts
IsCall(x) ==
  /\ DOMAIN x = {"at", "dep", "port", "secret", "tunnel", "then"}
  /\ \/ x = Idle
     \/ x.at \in {"lookup", "pop"} /\ x.dep \in Deployments /\ x.tunnel = NoTunnel
     \/ x.at \in {"check", "start", "wait", "opened", "held"}
        /\ x.dep \in Deployments /\ x.tunnel \in Tunnels
     \/ x.at \in {"stop", "join"} /\ x.then \in {"failed", "closed"}
        /\ x.dep \in Deployments /\ x.tunnel \in Tunnels
     \/ x.at \in {"failed", "closed"} /\ x.tunnel \in Tunnels \cup {NoTunnel}
        /\ (x.tunnel # NoTunnel => x.dep \in Deployments)
TunnelsTyped ==
  /\ registry \in [Deployments -> Tunnels \cup {NoTunnel}]
  /\ DOMAIN tunnel = Tunnels /\ \A t \in Tunnels : IsTunnel(tunnel[t])
  /\ DOMAIN thread = Threads /\ \A w \in Threads : IsThread(thread[w])
  /\ DOMAIN call = Callers /\ \A c \in Callers : IsCall(call[c])
\* What a worker process does, by where its call is.
WorkersTyped ==
  /\ DOMAIN command = Commands /\ DOMAIN worker = Commands
  /\ DOMAIN stateFile = Deployments
  /\ \A k \in Commands :
       /\ \/ worker[k] \in {"none", "start", "ended"} /\ call[k] = Idle
          \/ worker[k] = "open" /\ Opening(k)
          \/ worker[k] = "loop" /\ call[k].at = "held"
          \/ worker[k] = "close" /\ call[k].at \in {"stop", "join", "closed"}
             /\ call[k].then = "closed"
       /\ worker[k] \in {"open", "loop", "close"} => HasTunnel(k)
       /\ worker[k] # "none" => command[k].dep \in Deployments
       /\ command[k].at = "new" => worker[k] = "none"
\* A page calls while it waits for the answer, with a deployment.
PagesCall ==
  \A p \in Pages :
    /\ page[p].at # "answer" => call[p] = Idle
    /\ page[p].at \in {"select", "build", "equip", "swap", "retire", "open", "answer"} =>
         page[p].want \in Deployments

\* A tunnel is of one deployment, and a worker's is its own.
TunnelsNamed ==
  /\ \A d \in Deployments : registry[d] # NoTunnel => tunnel[registry[d]].of = d
  /\ \A c \in Callers : HasTunnel(c) => tunnel[call[c].tunnel].of = call[c].dep
  /\ \A k \in Commands, d \in Deployments : HasTunnel(k) => registry[d] # call[k].tunnel
\* Two calls are not about one deployment, nor hold one tunnel.
CallsApart ==
  /\ \A c, o \in Requests : Engaged(c) /\ Engaged(o) /\ call[c].dep = call[o].dep => c = o
  /\ \A c, o \in Callers : HasTunnel(c) /\ call[c].tunnel = call[o].tunnel => c = o
\* The thread of a tunnel is the one it knows, at the port it tells.
ThreadsKnown ==
  /\ \A w \in Threads : Alive(w) => tunnel[thread[w].of].thread = w
  /\ \A w \in Threads :
       thread[w].at = "forward" => tunnel[thread[w].of].local = thread[w].port
  /\ \A c \in Callers, w \in Threads : call[c].at = "start" => thread[w].of # call[c].tunnel
\* A tunnel that was not told to stop is in the registry, or someone's.
TunnelsHeld ==
  /\ \A c \in Requests : Opening(c) /\ HasTunnel(c) => registry[call[c].dep] = call[c].tunnel
  /\ \A c \in Callers :
       call[c].at = "join" \/ (call[c].at = "closed" /\ HasTunnel(c)) =>
         tunnel[call[c].tunnel].stop
  /\ \A w \in Threads : Alive(w) /\ ~tunnel[thread[w].of].stop =>
       \/ \E d \in Deployments : registry[d] = thread[w].of
       \/ \E c \in Callers : call[c].tunnel = thread[w].of
\* A worker's tunnel is up from when it is ready, and its file tells so.
IsUp(t) ==
  LET w == tunnel[t].thread IN
  /\ Alive(w) /\ thread[w].of = t /\ thread[w].at \in {"forward", "lost"}
  /\ tunnel[t].local = thread[w].port
WorkerTells(k) ==
  LET x == tunnel[call[k].tunnel] IN
  /\ call[k].at = "check" => x.thread = NoThread
  /\ call[k].at \in {"wait", "opened", "held"} =>
       ~x.stop /\ (x.ready /\ ~x.failed => IsUp(call[k].tunnel))
  /\ call[k].at \in {"opened", "held"} => x.ready /\ ~x.failed
  /\ worker[k] = "loop" => Told(k)
WorkersTell ==
  /\ \A k \in Commands : WorkerTells(k)
  /\ \A k, o \in Commands :
       Running(k) /\ Running(o) /\ command[k].dep = command[o].dep => k = o
TunnelInv ==
  /\ TunnelsTyped /\ WorkersTyped /\ PagesCall /\ TunnelsNamed
  /\ Calm => CallsApart /\ ThreadsKnown /\ TunnelsHeld /\ WorkersTell

\* The steps, by what they do to calls, tunnels, threads and workers.
Others(c) == \A o \in Callers \ {c} : call'[o] = call[o]
CallGoes(c, places) ==
  /\ Others(c)
  /\ call'[c].at \in places
  /\ call'[c].dep = call[c].dep /\ call'[c].tunnel = call[c].tunnel
OtherTunnels(t) == \A u \in Tunnels \ {t} : tunnel'[u] = tunnel[u]
OtherThreads(w) == \A v \in Threads \ {w} : thread'[v] = thread[v]
SameName(t) == tunnel'[t].of = tunnel[t].of
SameThread(t) == tunnel'[t].thread = tunnel[t].thread
SamePort(t) == tunnel'[t].local = tunnel[t].local
SameStop(t) == tunnel'[t].stop = tunnel[t].stop
SameState(t) == tunnel'[t].ready = tunnel[t].ready /\ tunnel'[t].failed = tunnel[t].failed
Filed == <<command, worker, stateFile>>
Objects == <<registry, tunnel, thread>>
Fresh(t) ==
  /\ tunnel'[t].thread = NoThread /\ tunnel'[t].local = NoPort
  /\ ~tunnel'[t].stop /\ ~tunnel'[t].ready /\ ~tunnel'[t].failed
IsFree(t) ==
  /\ \A d \in Deployments : registry[d] # t
  /\ \A c \in Callers : call[c].tunnel # t
  /\ \A w \in Threads : thread[w].of # t

EnterStep(c) ==
  /\ c \in Requests /\ call[c] = Idle /\ Others(c) /\ UNCHANGED <<Objects, Filed>>
  /\ call'[c].tunnel = NoTunnel
  /\ \/ call'[c].at = "failed"
     \/ /\ call'[c].at \in {"lookup", "pop"}
        /\ Calm' => \A o \in Callers \ {c} : call[o].dep # call'[c].dep
LeaveStep(c) ==
  /\ c \in Requests /\ call[c].at \in {"opened", "failed", "closed"}
  /\ call'[c] = Idle /\ Others(c) /\ UNCHANGED <<Objects, Filed>>
FoundStep(c) ==
  /\ c \in Requests /\ call[c].at = "lookup"
  /\ registry[call[c].dep] # NoTunnel /\ call'[c].tunnel = registry[call[c].dep]
  /\ call'[c].at = "check" /\ call'[c].dep = call[c].dep
  /\ Others(c) /\ UNCHANGED <<Objects, Filed>>
MadeStep(c, t) ==
  /\ c \in Requests /\ call[c].at = "lookup" /\ registry[call[c].dep] = NoTunnel
  /\ IsFree(t) /\ Fresh(t) /\ OtherTunnels(t) /\ tunnel'[t].of = call[c].dep
  /\ registry' = [registry EXCEPT ![call[c].dep] = t]
  /\ call'[c].at = "check" /\ call'[c].dep = call[c].dep /\ call'[c].tunnel = t
  /\ Others(c) /\ UNCHANGED <<thread, Filed>>
WorkerMadeStep(k, t) ==
  /\ k \in Commands /\ worker[k] = "start" /\ call[k] = Idle
  /\ IsFree(t) /\ Fresh(t) /\ OtherTunnels(t) /\ tunnel'[t].of = command[k].dep
  /\ call'[k].at = "check" /\ call'[k].dep = command[k].dep /\ call'[k].tunnel = t
  /\ worker' = [worker EXCEPT ![k] = "open"]
  /\ Others(k) /\ UNCHANGED <<registry, thread, command, stateFile>>
CheckStep(c) ==
  /\ call[c].at = "check" /\ UNCHANGED <<Objects, Filed>>
  /\ CallGoes(c, IF Alive(tunnel[call[c].tunnel].thread) THEN {"opened"} ELSE {"start"})
StartStep(c, w) ==
  /\ call[c].at = "start" /\ UNCHANGED <<registry, Filed>>
  /\ LET t == call[c].tunnel IN
     /\ OtherTunnels(t) /\ SameName(t) /\ SamePort(t)
     /\ tunnel'[t].thread = w
     /\ ~tunnel'[t].stop /\ ~tunnel'[t].ready /\ ~tunnel'[t].failed
     /\ OtherThreads(w)
     /\ \/ w = NoThread /\ CallGoes(c, {"failed"})
        \/ /\ w \in Threads /\ ~Alive(w) /\ CallGoes(c, {"wait"})
           /\ thread'[w].of = t /\ thread'[w].at = "connect"
WaitedStep(c) ==
  /\ call[c].at = "wait" /\ UNCHANGED <<Objects, Filed>>
  /\ tunnel[call[c].tunnel].ready
  /\ CallGoes(c, IF tunnel[call[c].tunnel].failed THEN {"failed"} ELSE {"opened"})
ExpireStep(c) ==
  /\ call[c].at = "wait" /\ CallGoes(c, {"stop"}) /\ call'[c].then = "failed"
  /\ UNCHANGED <<Objects, Filed>>
PopStep(c) ==
  /\ c \in Requests /\ call[c].at = "pop"
  /\ call'[c].tunnel = registry[call[c].dep] /\ call'[c].dep = call[c].dep
  /\ call'[c].at = IF registry[call[c].dep] = NoTunnel THEN "closed" ELSE "stop"
  /\ call'[c].then = "closed"
  /\ registry' = [registry EXCEPT ![call[c].dep] = NoTunnel]
  /\ Others(c) /\ UNCHANGED <<tunnel, thread, Filed>>
TellStep(c) ==
  /\ call[c].at = "stop" /\ CallGoes(c, {"join"}) /\ call'[c].then = call[c].then
  /\ LET t == call[c].tunnel IN
     /\ OtherTunnels(t) /\ tunnel'[t].stop
     /\ SameName(t) /\ SameThread(t) /\ SamePort(t) /\ SameState(t)
  /\ UNCHANGED <<registry, thread, Filed>>
JoinStep(c) ==
  /\ call[c].at = "join" /\ CallGoes(c, {call[c].then}) /\ call'[c].then = call[c].then
  /\ Calm' => ~Alive(tunnel[call[c].tunnel].thread)
  /\ LET t == call[c].tunnel IN
     /\ OtherTunnels(t)
     /\ tunnel'[t].thread = NoThread /\ tunnel'[t].local = NoPort
     /\ SameName(t) /\ SameStop(t) /\ SameState(t)
  /\ UNCHANGED <<registry, thread, Filed>>
GoesStep(w) ==
  /\ OtherThreads(w) /\ thread'[w].of = thread[w].of /\ Alive(w)
  /\ \/ thread[w].at = "connect" /\ thread'[w].at = "bind"
     \/ thread[w].at = "forward" /\ thread'[w].at = "lost" /\ thread'[w].port = thread[w].port
  /\ UNCHANGED <<registry, tunnel, call, Filed>>
EndsStep(w) ==
  /\ OtherThreads(w) /\ thread'[w] = Ended /\ Alive(w) /\ tunnel[thread[w].of].stop
  /\ UNCHANGED <<registry, tunnel, call, Filed>>
FailsStep(w) ==
  /\ thread[w].at \in {"connect", "bind"} /\ OtherThreads(w) /\ thread'[w] = Ended /\ Alive(w)
  /\ LET t == thread[w].of IN
     /\ OtherTunnels(t) /\ tunnel'[t].ready /\ tunnel'[t].failed
     /\ SameName(t) /\ SameThread(t) /\ SamePort(t) /\ SameStop(t)
  /\ UNCHANGED <<registry, call, Filed>>
ListensStep(w) ==
  /\ thread[w].at = "bind" /\ thread'[w].at = "forward" /\ OtherThreads(w) /\ Alive(w)
  /\ thread'[w].of = thread[w].of /\ thread'[w].port = thread[w].port
  /\ LET t == thread[w].of IN
     /\ OtherTunnels(t) /\ tunnel'[t].local = thread[w].port
     /\ SameName(t) /\ SameThread(t) /\ SameStop(t) /\ tunnel'[t].failed = tunnel[t].failed
  /\ UNCHANGED <<registry, call, Filed>>
WorkerGoes(k, from, to) ==
  /\ k \in Commands /\ worker[k] = from /\ worker' = [worker EXCEPT ![k] = to]
  /\ UNCHANGED command
HoldStep(k) ==
  /\ WorkerGoes(k, "open", "loop") /\ call[k].at = "opened" /\ CallGoes(k, {"held"})
  /\ stateFile' = [stateFile EXCEPT ![command[k].dep] =
          [by |-> k, connected |-> Connected(call[k].tunnel),
           port |-> tunnel[call[k].tunnel].local, failed |-> FALSE]]
  /\ UNCHANGED Objects
OtherFiles(d) ==
  /\ DOMAIN stateFile' = DOMAIN stateFile
  /\ \A e \in Deployments \ {d} : stateFile'[e] = stateFile[e]
DropStep(k) ==
  /\ \/ WorkerGoes(k, "open", "close") /\ call[k].at = "failed"
     \/ WorkerGoes(k, "loop", "close") /\ call[k].at = "held"
  /\ CallGoes(k, {"stop"}) /\ call'[k].then = "closed"
  /\ OtherFiles(command[k].dep) /\ UNCHANGED Objects
OverStep(k) ==
  /\ WorkerGoes(k, "close", "ended") /\ call[k].at = "closed"
  /\ Others(k) /\ call'[k] = Idle
  /\ OtherFiles(command[k].dep) /\ UNCHANGED Objects
DieStep(k) ==
  /\ \/ WorkerGoes(k, "open", "ended") \/ WorkerGoes(k, "loop", "ended")
  /\ thread' = [w \in Threads |-> IF thread[w].of = call[k].tunnel THEN Ended ELSE thread[w]]
  /\ Others(k) /\ call'[k] = Idle
  /\ UNCHANGED <<registry, tunnel, stateFile>>
\* a command that starts a worker, or none, or ends
CommandMoves(x) ==
  /\ x \in Commands /\ UNCHANGED <<Objects, call, stateFile>>
  /\ DOMAIN command' = Commands /\ DOMAIN worker' = Commands
  /\ worker'[x] # "none" => command'[x].dep \in Deployments
  /\ \A y \in Commands \ {x} : command'[y] = command[y] /\ worker'[y] = worker[y]
  /\ command'[x].at # "new"
  /\ \/ worker'[x] = worker[x] /\ (command'[x].dep = command[x].dep \/ worker[x] = "none")
     \/ /\ worker[x] = "none" /\ worker'[x] = "start"
        /\ Calm' => \A y \in Commands \ {x} : Running(y) => command[y].dep # command'[x].dep
QuietMove == UNCHANGED <<Objects, call, Filed>>
CallerStep ==
  \E c \in Callers :
    \/ EnterStep(c) \/ LeaveStep(c) \/ FoundStep(c) \/ CheckStep(c) \/ WaitedStep(c)
    \/ ExpireStep(c) \/ PopStep(c) \/ TellStep(c) \/ JoinStep(c)
    \/ \E t \in Tunnels : MadeStep(c, t)
    \/ \E w \in Threads \cup {NoThread} : StartStep(c, w)
ThreadMoves == \E w \in Threads : GoesStep(w) \/ EndsStep(w) \/ FailsStep(w) \/ ListensStep(w)
WorkerMoves ==
  \E k \in Commands :
    \/ HoldStep(k) \/ DropStep(k) \/ OverStep(k) \/ DieStep(k) \/ CommandMoves(k)
    \/ \E t \in Tunnels : WorkerMadeStep(k, t)
TunnelMove == CallerStep \/ ThreadMoves \/ WorkerMoves \/ QuietMove

LEMMA MinIsIn ==
  ASSUME NEW S \in SUBSET Nat, S # {}
  PROVE  Min(S) \in S
<1>1. PICK n \in S : \A k \in S : ~(<<k, n>> \in OpToRel(<, Nat))
  BY NatLessThanWellFounded, WFMin
<1>2. ASSUME NEW k \in S PROVE n <= k
  <2>1. k \in Nat /\ n \in Nat
    OBVIOUS
  <2>2. ~(k < n)
    BY <1>1, <2>1 DEF OpToRel
  <2> QED BY <2>1, <2>2
<1> QED BY <1>2 DEF Min

LEMMA FreeOnes ==
  ASSUME TunnelAssumption
  PROVE  /\ FreeTunnels # {} => Min(FreeTunnels) \in Tunnels /\ IsFree(Min(FreeTunnels))
         /\ FreeThreads # {} => Min(FreeThreads) \in Threads /\ ~Alive(Min(FreeThreads))
<1>1. FreeTunnels \in SUBSET Nat /\ FreeThreads \in SUBSET Nat
  BY DEF TunnelAssumption, FreeTunnels, FreeThreads, Tunnels, Threads
<1>2. FreeTunnels # {} => Min(FreeTunnels) \in FreeTunnels
  BY <1>1, MinIsIn
<1>3. FreeThreads # {} => Min(FreeThreads) \in FreeThreads
  BY <1>1, MinIsIn
<1>4. \A t \in FreeTunnels : t \in Tunnels /\ IsFree(t)
  BY DEF FreeTunnels, Referenced, IsFree
<1>5. \A w \in FreeThreads : w \in Threads /\ ~Alive(w)
  BY DEF FreeThreads
<1> QED BY <1>2, <1>3, <1>4, <1>5

\* Types, in parts.
LEMMA CallsTyped ==
  ASSUME TunnelsTyped, NEW c \in Callers, NEW x, IsCall(x), call' = [call EXCEPT ![c] = x]
  PROVE  /\ DOMAIN call' = Callers /\ \A o \in Callers : IsCall(call'[o])
         /\ call'[c] = x /\ Others(c)
  BY DEF TunnelsTyped, Others

LEMMA TunnelTyped ==
  ASSUME TunnelsTyped, NEW t \in Tunnels, NEW x, IsTunnel(x), tunnel' = [tunnel EXCEPT ![t] = x]
  PROVE  /\ DOMAIN tunnel' = Tunnels /\ \A u \in Tunnels : IsTunnel(tunnel'[u])
         /\ tunnel'[t] = x /\ OtherTunnels(t)
  BY DEF TunnelsTyped, OtherTunnels

LEMMA ThreadTyped ==
  ASSUME TunnelsTyped, NEW w \in Threads, NEW x, IsThread(x), thread' = [thread EXCEPT ![w] = x]
  PROVE  /\ DOMAIN thread' = Threads /\ \A v \in Threads : IsThread(thread'[v])
         /\ thread'[w] = x /\ OtherThreads(w)
  BY DEF TunnelsTyped, OtherThreads

\* A call that goes on with its tunnel.
LEMMA CallTurns ==
  ASSUME TunnelsTyped, NEW c \in Callers, NEW to, Go(c, to),
         call[c].at \in {"check", "start", "wait", "opened", "failed", "stop", "join", "held"},
         HasTunnel(c), to \in {"check", "start", "wait", "opened", "failed", "held", "closed"}
  PROVE  /\ DOMAIN call' = Callers /\ \A o \in Callers : IsCall(call'[o])
         /\ CallGoes(c, {to}) /\ call'[c].then = call[c].then
<1> DEFINE x == [call[c] EXCEPT !.at = to]
<1>1. IsCall(call[c])
  BY DEF TunnelsTyped
<1>2. /\ IsCall(x) /\ x.at = to /\ x.dep = call[c].dep /\ x.tunnel = call[c].tunnel
      /\ x.then = call[c].then
  BY <1>1 DEF IsCall, HasTunnel, Idle
<1>3. call' = [call EXCEPT ![c] = x]
  BY DEF Go
<1> HIDE DEF x
<1> QED BY <1>2, <1>3, CallsTyped DEF CallGoes

\* A caller's place tells what it has.
LEMMA CallPlaces ==
  ASSUME TunnelsTyped, NEW c \in Callers
  PROVE  /\ call[c].at \in {"check", "start", "wait", "opened", "held", "stop", "join"} =>
              call[c].tunnel \in Tunnels /\ call[c].dep \in Deployments /\ HasTunnel(c)
         /\ call[c].at \in {"lookup", "pop"} =>
              call[c].tunnel = NoTunnel /\ call[c].dep \in Deployments
         /\ call[c].at \in {"stop", "join"} => call[c].then \in {"failed", "closed"}
         /\ call[c].tunnel \in Tunnels \cup {NoTunnel}
         /\ HasTunnel(c) => call[c].tunnel \in Tunnels /\ call[c].dep \in Deployments
         /\ IsCall(call[c]) /\ (call[c].at = "idle" <=> call[c] = Idle)
         /\ NoTunnel \notin Tunnels /\ NoThread \notin Threads
<1>1. IsCall(call[c])
  BY DEF TunnelsTyped
<1>2. NoTunnel \notin Tunnels /\ NoThread \notin Threads
  BY DEF NoTunnel, Tunnels, NoThread, Threads
<1> QED BY <1>1, <1>2 DEF IsCall, Idle, HasTunnel

LEMMA RequestAt ==
  ASSUME WorkersTyped, NEW c \in Callers, call[c].at \in {"lookup", "pop"}
  PROVE  c \in Requests
<1>1. SUFFICES ASSUME c \in Commands PROVE FALSE
  BY DEF Callers
<1>2. /\ \/ worker[c] \in {"none", "start", "ended"} /\ call[c] = Idle
         \/ worker[c] = "open" /\ Opening(c)
         \/ worker[c] = "loop" /\ call[c].at = "held"
         \/ worker[c] = "close" /\ call[c].at \in {"stop", "join", "closed"}
  BY <1>1 DEF WorkersTyped
<1> QED BY <1>2 DEF Opening, Idle

LEMMA CallerMoves ==
  ASSUME TunnelAssumption, TunnelsTyped, WorkersTyped,
         NEW c \in Callers, CallStep(c) \/ WaitExpires(c)
  PROVE  TunnelsTyped' /\ CallerStep
<1> DEFINE t == call[c].tunnel
<1>p. TunnelsTyped /\ IsCall(call[c])
  BY CallPlaces
<1>f. UNCHANGED Filed
  BY DEF CallStep, WaitExpires, Lookup, OpenCheck, OpenStart, OpenWait, Pop, CloseStop, CloseJoin,
         fileVars, Filed
<1>1. CASE Lookup(c)
  <2> DEFINE d == call[c].dep
  <2>1. /\ call[c].at = "lookup" /\ c \in Requests /\ d \in Deployments /\ UNCHANGED thread
        /\ registry[d] \in Tunnels \cup {NoTunnel}
    BY <1>1, RequestAt, CallPlaces DEF Lookup, In, TunnelsTyped
  <2>2. CASE registry[d] # NoTunnel
    <3> DEFINE x == [call[c] EXCEPT !.at = "check", !.tunnel = registry[d]]
    <3>1. /\ call' = [call EXCEPT ![c].at = "check", ![c].tunnel = registry[d]]
          /\ UNCHANGED <<registry, tunnel>>
      BY <1>1, <2>2 DEF Lookup
    <3>2. IsCall(x) /\ x.at = "check" /\ x.dep = d /\ x.tunnel = registry[d]
      BY <1>p, <2>1, <2>2 DEF IsCall
    <3>3. call' = [call EXCEPT ![c] = x]
      BY <1>p, <3>1 DEF IsCall, TunnelsTyped
    <3> HIDE DEF x
    <3>4. /\ DOMAIN call' = Callers /\ \A o \in Callers : IsCall(call'[o])
          /\ call'[c] = x /\ Others(c)
      BY <3>2, <3>3, CallsTyped
    <3>5. FoundStep(c)
      BY <1>f, <2>1, <2>2, <3>1, <3>2, <3>4 DEF FoundStep, Objects
    <3> QED BY <1>p, <2>1, <3>1, <3>4, <3>5 DEF TunnelsTyped, CallerStep
  <2>3. CASE registry[d] = NoTunnel
    <3> DEFINE u == Min(FreeTunnels)
               x == [call[c] EXCEPT !.at = "check", !.tunnel = u]
               y == Made(d, call[c].port, call[c].secret)
    <3>1. /\ FreeTunnels # {}
          /\ tunnel' = [tunnel EXCEPT ![u] = y]
          /\ registry' = [registry EXCEPT ![d] = u]
          /\ call' = [call EXCEPT ![c].at = "check", ![c].tunnel = u]
      BY <1>1, <2>3 DEF Lookup
    <3>2. u \in Tunnels /\ IsFree(u)
      BY <3>1, FreeOnes
    <3> HIDE DEF u
    <3>3. IsCall(x) /\ x.at = "check" /\ x.dep = d /\ x.tunnel = u
      BY <1>p, <2>1, <3>2 DEF IsCall
    <3>4. call' = [call EXCEPT ![c] = x]
      BY <1>p, <3>1 DEF IsCall, TunnelsTyped
    <3>5. /\ IsTunnel(y) /\ y.of = d /\ y.thread = NoThread /\ y.local = NoPort
          /\ ~y.stop /\ ~y.ready /\ ~y.failed
      BY DEF IsTunnel, Made, Unmade
    <3> HIDE DEF x, y
    <3>6. /\ DOMAIN call' = Callers /\ \A o \in Callers : IsCall(call'[o])
          /\ call'[c] = x /\ Others(c)
      BY <3>3, <3>4, CallsTyped
    <3>7. /\ DOMAIN tunnel' = Tunnels /\ \A v \in Tunnels : IsTunnel(tunnel'[v])
          /\ tunnel'[u] = y /\ OtherTunnels(u)
      BY <3>1, <3>2, <3>5, TunnelTyped
    <3>8. registry' \in [Deployments -> Tunnels \cup {NoTunnel}]
      BY <1>p, <3>1, <3>2 DEF TunnelsTyped
    <3>9. MadeStep(c, u)
      BY <1>f, <2>1, <2>3, <3>1, <3>2, <3>3, <3>5, <3>6, <3>7 DEF MadeStep, Fresh
    <3> QED BY <1>p, <2>1, <3>2, <3>6, <3>7, <3>8, <3>9 DEF TunnelsTyped, CallerStep
  <2> QED BY <2>2, <2>3
<1>2. CASE OpenCheck(c)
  <2>1. call[c].at = "check" /\ UNCHANGED Objects
        /\ Go(c, IF Alive(tunnel[t].thread) THEN "opened" ELSE "start")
    BY <1>2 DEF OpenCheck, In, Objects
  <2>2. t \in Tunnels /\ HasTunnel(c)
    BY <2>1, CallPlaces
  <2>3. PICK to \in {"opened", "start"} : Go(c, to)
                       /\ to = IF Alive(tunnel[t].thread) THEN "opened" ELSE "start"
    BY <2>1
  <2>4. /\ DOMAIN call' = Callers /\ \A o \in Callers : IsCall(call'[o])
        /\ CallGoes(c, {to})
    BY <2>1, <2>2, <2>3, CallTurns
  <2>5. CheckStep(c)
    BY <1>f, <2>1, <2>3, <2>4 DEF CheckStep
  <2> QED BY <1>p, <2>1, <2>4, <2>5 DEF TunnelsTyped, Objects, CallerStep
<1>3. CASE OpenStart(c)
  <2> DEFINE w == IF FreeThreads = {} THEN NoThread ELSE Min(FreeThreads)
             y == [tunnel[t] EXCEPT !.stop = FALSE, !.ready = FALSE, !.failed = FALSE,
                                    !.thread = w]
             z == [Ended EXCEPT !.of = t, !.at = "connect"]
  <2>1. /\ call[c].at = "start" /\ UNCHANGED registry
        /\ tunnel' = [tunnel EXCEPT ![t].stop = FALSE, ![t].ready = FALSE,
                                    ![t].failed = FALSE, ![t].thread = w]
        /\ thread' = [v \in Threads |-> IF v = w THEN z ELSE thread[v]]
        /\ Go(c, IF w = NoThread THEN "failed" ELSE "wait")
    BY <1>3 DEF OpenStart, In
  <2>2. t \in Tunnels /\ HasTunnel(c)
    BY <2>1, CallPlaces
  <2>3. w = NoThread \/ (w \in Threads /\ ~Alive(w) /\ w # NoThread)
    <3>1. NoThread \notin Threads
      BY CallPlaces
    <3>2. CASE FreeThreads = {}
      BY <3>2
    <3>3. CASE FreeThreads # {}
      BY <3>1, <3>3, FreeOnes
    <3> QED BY <3>2, <3>3
  <2>a. w \in Threads \cup {NoThread}
    BY <2>3
  <2> HIDE DEF w
  <2>4. IsTunnel(tunnel[t])
    BY <1>p, <2>2 DEF TunnelsTyped
  <2>5. /\ IsTunnel(y) /\ y.of = tunnel[t].of /\ y.local = tunnel[t].local /\ y.thread = w
        /\ ~y.stop /\ ~y.ready /\ ~y.failed
    BY <2>4, <2>a DEF IsTunnel
  <2>6. tunnel' = [tunnel EXCEPT ![t] = y]
    BY <1>p, <2>1, <2>2, <2>4 DEF IsTunnel, TunnelsTyped
  <2> HIDE DEF y
  <2>7. /\ DOMAIN tunnel' = Tunnels /\ \A v \in Tunnels : IsTunnel(tunnel'[v])
        /\ tunnel'[t] = y /\ OtherTunnels(t)
    BY <2>2, <2>5, <2>6, TunnelTyped
  <2>8. IsThread(z) /\ z.of = t /\ z.at = "connect"
    BY <2>2 DEF IsThread, Ended
  <2> HIDE DEF z
  <2>9. /\ DOMAIN thread' = Threads /\ \A v \in Threads : IsThread(thread'[v])
        /\ OtherThreads(w) /\ (w \in Threads => thread'[w] = z)
    BY <1>p, <2>1, <2>8 DEF TunnelsTyped, OtherThreads
  <2>10. PICK to \in {"failed", "wait"} :
            Go(c, to) /\ to = IF w = NoThread THEN "failed" ELSE "wait"
    BY <2>1
  <2>11. /\ DOMAIN call' = Callers /\ \A o \in Callers : IsCall(call'[o])
         /\ CallGoes(c, {to})
    BY <2>1, <2>2, <2>10, CallTurns
  <2>12. StartStep(c, w)
    BY <1>f, <2>1, <2>3, <2>5, <2>7, <2>8, <2>9, <2>10, <2>11
    DEF StartStep, SameName, SamePort
  <2> QED BY <1>p, <2>1, <2>a, <2>7, <2>9, <2>11, <2>12 DEF TunnelsTyped, CallerStep
<1>4. CASE OpenWait(c)
  <2>1. call[c].at = "wait" /\ UNCHANGED Objects /\ tunnel[t].ready
        /\ Go(c, IF tunnel[t].failed THEN "failed" ELSE "opened")
    BY <1>4 DEF OpenWait, In, Objects
  <2>2. t \in Tunnels /\ HasTunnel(c)
    BY <2>1, CallPlaces
  <2>3. PICK to \in {"opened", "failed"} : Go(c, to)
                       /\ to = IF tunnel[t].failed THEN "failed" ELSE "opened"
    BY <2>1
  <2>4. /\ DOMAIN call' = Callers /\ \A o \in Callers : IsCall(call'[o])
        /\ CallGoes(c, {to})
    BY <2>1, <2>2, <2>3, CallTurns
  <2>5. WaitedStep(c)
    BY <1>f, <2>1, <2>3, <2>4 DEF WaitedStep
  <2> QED BY <1>p, <2>1, <2>4, <2>5 DEF TunnelsTyped, Objects, CallerStep
<1>5. CASE WaitExpires(c)
  <2> DEFINE x == [call[c] EXCEPT !.at = "stop", !.then = "failed"]
  <2>1. /\ call[c].at = "wait" /\ UNCHANGED Objects
        /\ call' = [call EXCEPT ![c].at = "stop", ![c].then = "failed"]
    BY <1>5 DEF WaitExpires, In, Objects
  <2>2. t \in Tunnels /\ call[c].dep \in Deployments
    BY <2>1, CallPlaces
  <2>3. IsCall(x) /\ x.at = "stop" /\ x.dep = call[c].dep /\ x.tunnel = t /\ x.then = "failed"
    BY <1>p, <2>2 DEF IsCall
  <2>4. call' = [call EXCEPT ![c] = x]
    BY <1>p, <2>1 DEF IsCall, TunnelsTyped
  <2> HIDE DEF x
  <2>5. /\ DOMAIN call' = Callers /\ \A o \in Callers : IsCall(call'[o])
        /\ call'[c] = x /\ Others(c)
    BY <2>3, <2>4, CallsTyped
  <2>6. ExpireStep(c)
    BY <1>f, <2>1, <2>3, <2>5 DEF ExpireStep, CallGoes
  <2> QED BY <1>p, <2>1, <2>5, <2>6 DEF TunnelsTyped, Objects, CallerStep
<1>6. CASE Pop(c)
  <2> DEFINE d == call[c].dep
             s == registry[d]
             at1 == IF s = NoTunnel THEN "closed" ELSE "stop"
             x == [call[c] EXCEPT !.at = at1, !.tunnel = s, !.then = "closed"]
  <2>1. /\ call[c].at = "pop" /\ c \in Requests /\ d \in Deployments
        /\ UNCHANGED <<thread, tunnel>> /\ s \in Tunnels \cup {NoTunnel}
        /\ registry' = [registry EXCEPT ![d] = NoTunnel]
        /\ call' = [call EXCEPT ![c].at = at1, ![c].tunnel = s, ![c].then = "closed"]
    BY <1>6, RequestAt, CallPlaces DEF Pop, In, TunnelsTyped
  <2>2. /\ IsCall(x) /\ x.at = at1 /\ x.dep = d /\ x.tunnel = s /\ x.then = "closed"
    BY <1>p, <2>1 DEF IsCall
  <2>3. call' = [call EXCEPT ![c] = x]
    BY <1>p, <2>1 DEF IsCall, TunnelsTyped
  <2> HIDE DEF x
  <2>4. /\ DOMAIN call' = Callers /\ \A o \in Callers : IsCall(call'[o])
        /\ call'[c] = x /\ Others(c)
    BY <2>2, <2>3, CallsTyped
  <2>5. PopStep(c)
    BY <1>f, <2>1, <2>2, <2>4 DEF PopStep
  <2>6. registry' \in [Deployments -> Tunnels \cup {NoTunnel}]
    BY <1>p, <2>1 DEF TunnelsTyped
  <2> QED BY <1>p, <2>1, <2>4, <2>5, <2>6 DEF TunnelsTyped, CallerStep
<1>7. CASE CloseStop(c)
  <2> DEFINE y == [tunnel[t] EXCEPT !.stop = TRUE]
  <2>1. /\ call[c].at = "stop" /\ UNCHANGED <<registry, thread>> /\ Go(c, "join")
        /\ tunnel' = [tunnel EXCEPT ![t].stop = TRUE]
    BY <1>7 DEF CloseStop, In
  <2>2. t \in Tunnels /\ HasTunnel(c) /\ IsTunnel(tunnel[t])
    BY <1>p, <2>1, CallPlaces DEF TunnelsTyped
  <2>3. /\ IsTunnel(y) /\ y.stop /\ y.of = tunnel[t].of /\ y.local = tunnel[t].local
        /\ y.thread = tunnel[t].thread /\ y.ready = tunnel[t].ready
        /\ y.failed = tunnel[t].failed
    BY <2>2 DEF IsTunnel
  <2>4. tunnel' = [tunnel EXCEPT ![t] = y]
    BY <1>p, <2>1, <2>2 DEF TunnelsTyped, IsTunnel
  <2> HIDE DEF y
  <2>5. /\ DOMAIN tunnel' = Tunnels /\ \A v \in Tunnels : IsTunnel(tunnel'[v])
        /\ tunnel'[t] = y /\ OtherTunnels(t)
    BY <2>2, <2>3, <2>4, TunnelTyped
  <2> DEFINE x == [call[c] EXCEPT !.at = "join"]
  <2>6. IsCall(x) /\ x.at = "join" /\ x.dep = call[c].dep /\ x.tunnel = t
        /\ x.then = call[c].then
    BY <1>p, <2>1 DEF IsCall, Idle
  <2>7. call' = [call EXCEPT ![c] = x]
    BY <2>1 DEF Go
  <2> HIDE DEF x
  <2>8. /\ DOMAIN call' = Callers /\ \A o \in Callers : IsCall(call'[o])
        /\ call'[c] = x /\ Others(c)
    BY <2>6, <2>7, CallsTyped
  <2>9. TellStep(c)
    BY <1>f, <2>1, <2>3, <2>5, <2>6, <2>8
    DEF TellStep, CallGoes, SameName, SameThread, SamePort, SameState
  <2> QED BY <1>p, <2>1, <2>5, <2>8, <2>9 DEF TunnelsTyped, CallerStep
<1>8. CASE CloseJoin(c)
  <2> DEFINE y == [tunnel[t] EXCEPT !.thread = NoThread, !.local = NoPort]
  <2>1. /\ call[c].at = "join" /\ UNCHANGED <<registry, thread>> /\ Go(c, call[c].then)
        /\ tunnel' = [tunnel EXCEPT ![t].thread = NoThread, ![t].local = NoPort]
        /\ (~Alive(tunnel[t].thread) \/ Note({"late"}))
    BY <1>8 DEF CloseJoin, In
  <2>2. t \in Tunnels /\ HasTunnel(c) /\ IsTunnel(tunnel[t])
        /\ call[c].then \in {"failed", "closed"}
    BY <1>p, <2>1, CallPlaces DEF TunnelsTyped
  <2>3. /\ IsTunnel(y) /\ y.thread = NoThread /\ y.of = tunnel[t].of /\ y.local = NoPort
        /\ y.stop = tunnel[t].stop /\ y.ready = tunnel[t].ready
        /\ y.failed = tunnel[t].failed
    BY <2>2 DEF IsTunnel
  <2>4. tunnel' = [tunnel EXCEPT ![t] = y]
    BY <1>p, <2>1, <2>2 DEF TunnelsTyped, IsTunnel
  <2> HIDE DEF y
  <2>5. /\ DOMAIN tunnel' = Tunnels /\ \A v \in Tunnels : IsTunnel(tunnel'[v])
        /\ tunnel'[t] = y /\ OtherTunnels(t)
    BY <2>2, <2>3, <2>4, TunnelTyped
  <2>6. /\ DOMAIN call' = Callers /\ \A o \in Callers : IsCall(call'[o])
        /\ CallGoes(c, {call[c].then}) /\ call'[c].then = call[c].then
    BY <2>1, <2>2, CallTurns
  <2>7. Calm' => ~Alive(tunnel[t].thread)
    BY <2>1 DEF Calm, Note
  <2>8. JoinStep(c)
    BY <1>f, <2>1, <2>3, <2>5, <2>6, <2>7 DEF JoinStep, SameName, SameStop, SameState
  <2> QED BY <1>p, <2>1, <2>5, <2>6, <2>8 DEF TunnelsTyped, CallerStep
<1> QED BY <1>1, <1>2, <1>3, <1>4, <1>5, <1>6, <1>7, <1>8 DEF CallStep

LEMMA FailMoves ==
  ASSUME TunnelsTyped, NEW w \in Threads, Fail(w), thread[w].at \in {"connect", "bind"},
         UNCHANGED <<registry, call, Filed>>
  PROVE  TunnelsTyped' /\ ThreadMoves
<1> DEFINE t == thread[w].of
           y == [tunnel[t] EXCEPT !.failed = TRUE, !.ready = TRUE]
<1>1. t \in Tunnels /\ IsTunnel(tunnel[t]) /\ thread[w] # Ended /\ w # NoThread
  BY DEF TunnelsTyped, IsThread, Ended, NoThread, Threads
<1>2. /\ IsTunnel(y) /\ y.ready /\ y.failed /\ y.of = tunnel[t].of
      /\ y.thread = tunnel[t].thread /\ y.local = tunnel[t].local /\ y.stop = tunnel[t].stop
  BY <1>1 DEF IsTunnel
<1>3. tunnel' = [tunnel EXCEPT ![t] = y]
  BY <1>1 DEF TunnelsTyped, IsTunnel, Fail
<1> HIDE DEF y
<1>4. /\ DOMAIN tunnel' = Tunnels /\ \A v \in Tunnels : IsTunnel(tunnel'[v])
      /\ tunnel'[t] = y /\ OtherTunnels(t)
  BY <1>1, <1>2, <1>3, TunnelTyped
<1>5. IsThread(Ended)
  BY DEF IsThread, Ended
<1>6. thread' = [thread EXCEPT ![w] = Ended]
  BY DEF Fail
<1>7. /\ DOMAIN thread' = Threads /\ \A v \in Threads : IsThread(thread'[v])
      /\ thread'[w] = Ended /\ OtherThreads(w)
  BY <1>5, <1>6, ThreadTyped
<1>8. FailsStep(w)
  BY <1>1, <1>2, <1>4, <1>7
  DEF FailsStep, Alive, SameName, SameThread, SamePort, SameStop
<1> QED BY <1>4, <1>7, <1>8 DEF TunnelsTyped, ThreadMoves

LEMMA ThreadsMove ==
  ASSUME TunnelAssumption, TunnelsTyped, NEW w \in Threads, ThreadStep(w) \/ LoseSession(w)
  PROVE  TunnelsTyped' /\ ThreadMoves
<1>f. UNCHANGED <<registry, call, Filed>>
  BY DEF ThreadStep, LoseSession, Connect, ConnectFails, Listen, StopThread, fileVars, Filed
<1>p. IsThread(thread[w]) /\ w # NoThread /\ DOMAIN thread = Threads
  BY DEF TunnelsTyped, NoThread, Threads
<1>q. thread[w].at # "none" => thread[w] # Ended /\ Alive(w) /\ thread[w].of \in Tunnels
  BY <1>p DEF IsThread, Ended, Alive
<1>1. CASE Connect(w)
  <2>1. PICK p \in LocalPorts : thread' = [thread EXCEPT ![w].at = "bind", ![w].port = p]
    BY <1>1 DEF Connect
  <2> DEFINE x == [thread[w] EXCEPT !.at = "bind", !.port = p]
  <2>2. thread[w].at = "connect" /\ UNCHANGED tunnel
    BY <1>1 DEF Connect
  <2>3. IsThread(x) /\ x.at = "bind" /\ x.of = thread[w].of
    BY <1>p, <1>q, <2>2 DEF IsThread
  <2>4. thread' = [thread EXCEPT ![w] = x]
    BY <1>p, <2>1 DEF IsThread
  <2> HIDE DEF x
  <2>5. /\ DOMAIN thread' = Threads /\ \A v \in Threads : IsThread(thread'[v])
        /\ thread'[w] = x /\ OtherThreads(w)
    BY <2>3, <2>4, ThreadTyped
  <2>6. GoesStep(w)
    BY <1>f, <1>q, <2>2, <2>3, <2>5 DEF GoesStep
  <2> QED BY <1>f, <2>2, <2>5, <2>6 DEF TunnelsTyped, ThreadMoves
<1>2. CASE ConnectFails(w)
  BY <1>2, <1>f, FailMoves DEF ConnectFails
<1>3. CASE Listen(w)
  <2>1. CASE InUse(thread[w].port)
    BY <1>3, <1>f, <2>1, FailMoves DEF Listen
  <2>2. CASE ~InUse(thread[w].port)
    <3> DEFINE t == thread[w].of
               x == [thread[w] EXCEPT !.at = "forward"]
               y == [tunnel[t] EXCEPT !.local = thread[w].port, !.ready = TRUE]
    <3>1. /\ thread[w].at = "bind"
          /\ thread' = [thread EXCEPT ![w].at = "forward"]
          /\ tunnel' = [tunnel EXCEPT ![t].local = thread[w].port, ![t].ready = TRUE]
      BY <1>3, <2>2 DEF Listen
    <3>2. t \in Tunnels /\ IsTunnel(tunnel[t])
      BY <1>q, <3>1 DEF TunnelsTyped
    <3>3. IsThread(x) /\ x.at = "forward" /\ x.of = t /\ x.port = thread[w].port
      BY <1>p, <1>q, <3>1 DEF IsThread, Ended
    <3>4. thread' = [thread EXCEPT ![w] = x]
      BY <1>p, <3>1 DEF IsThread
    <3> HIDE DEF x
    <3>5. /\ DOMAIN thread' = Threads /\ \A v \in Threads : IsThread(thread'[v])
          /\ thread'[w] = x /\ OtherThreads(w)
      BY <3>3, <3>4, ThreadTyped
    <3>6. /\ IsTunnel(y) /\ y.of = tunnel[t].of /\ y.local = thread[w].port
          /\ y.thread = tunnel[t].thread /\ y.stop = tunnel[t].stop
          /\ y.failed = tunnel[t].failed
      BY <3>2 DEF IsTunnel
    <3>7. tunnel' = [tunnel EXCEPT ![t] = y]
      BY <3>1, <3>2 DEF TunnelsTyped, IsTunnel
    <3> HIDE DEF y
    <3>8. /\ DOMAIN tunnel' = Tunnels /\ \A v \in Tunnels : IsTunnel(tunnel'[v])
          /\ tunnel'[t] = y /\ OtherTunnels(t)
      BY <3>2, <3>6, <3>7, TunnelTyped
    <3>9. ListensStep(w)
      BY <1>f, <1>q, <3>1, <3>3, <3>5, <3>6, <3>8
      DEF ListensStep, SameName, SameThread, SameStop
    <3> QED BY <1>f, <3>5, <3>8, <3>9 DEF TunnelsTyped, ThreadMoves
  <2> QED BY <2>1, <2>2
<1>4. CASE LoseSession(w)
  <2> DEFINE x == [thread[w] EXCEPT !.at = "lost"]
  <2>1. /\ thread[w].at = "forward" /\ UNCHANGED tunnel
        /\ thread' = [thread EXCEPT ![w].at = "lost"]
    BY <1>4 DEF LoseSession
  <2>2. IsThread(x) /\ x.at = "lost" /\ x.of = thread[w].of /\ x.port = thread[w].port
    BY <1>p, <1>q, <2>1 DEF IsThread, Ended
  <2>3. thread' = [thread EXCEPT ![w] = x]
    BY <1>p, <2>1 DEF IsThread
  <2> HIDE DEF x
  <2>4. /\ DOMAIN thread' = Threads /\ \A v \in Threads : IsThread(thread'[v])
        /\ thread'[w] = x /\ OtherThreads(w)
    BY <2>2, <2>3, ThreadTyped
  <2>5. GoesStep(w)
    BY <1>f, <1>q, <2>1, <2>2, <2>4 DEF GoesStep
  <2> QED BY <1>f, <2>1, <2>4, <2>5 DEF TunnelsTyped, ThreadMoves
<1>5. CASE StopThread(w)
  <2>1. /\ thread[w].at \in {"forward", "lost"} /\ tunnel[thread[w].of].stop
        /\ thread' = [thread EXCEPT ![w] = Ended] /\ UNCHANGED tunnel
    BY <1>5 DEF StopThread
  <2>2. IsThread(Ended)
    BY DEF IsThread, Ended
  <2>3. /\ DOMAIN thread' = Threads /\ \A v \in Threads : IsThread(thread'[v])
        /\ thread'[w] = Ended /\ OtherThreads(w)
    BY <2>1, <2>2, ThreadTyped
  <2>4. EndsStep(w)
    BY <1>f, <1>q, <2>1, <2>3 DEF EndsStep
  <2> QED BY <1>f, <2>1, <2>3, <2>4 DEF TunnelsTyped, ThreadMoves
<1> QED BY <1>1, <1>2, <1>3, <1>4, <1>5 DEF ThreadStep

LEMMA WorkerPlaces ==
  ASSUME TunnelsTyped, WorkersTyped, NEW k \in Commands
  PROVE  /\ k \in Callers
         /\ worker[k] \in {"none", "start", "open", "loop", "close", "ended"}
         /\ worker[k] \in {"none", "start", "ended"} => call[k] = Idle
         /\ worker[k] = "loop" <=> call[k].at = "held"
         /\ worker[k] \in {"open", "loop", "close"} =>
              call[k].tunnel \in Tunnels /\ call[k].dep \in Deployments
         /\ worker[k] # "none" => command[k].dep \in Deployments
  BY CallPlaces DEF WorkersTyped, Opening, Callers, Idle

LEMMA WorkersMove ==
  ASSUME TunnelAssumption, TunnelsTyped, WorkersTyped, NEW k \in Commands,
         WorkerStep(k) \/ WorkerDies(k)
  PROVE  TunnelsTyped' /\ WorkerMoves
<1>p. IsCall(call[k]) /\ k \in Callers
  BY CallPlaces, WorkerPlaces
<1>i. IsCall(Idle)
  BY DEF IsCall, Idle
<1>w. ASSUME NEW from, NEW to, Worker(k, from, to), UNCHANGED command
      PROVE  WorkerGoes(k, from, to)
  BY <1>w DEF Worker, WorkerGoes
<1>1. CASE WorkerStart(k)
  <2> DEFINE d == command[k].dep
             t == Min(FreeTunnels)
             y == Made(d, row[d].port, TRUE)
             x == [Idle EXCEPT !.at = "check", !.dep = d, !.tunnel = t]
  <2>1. /\ worker[k] = "start" /\ worker' = [worker EXCEPT ![k] = "open"]
        /\ FreeTunnels # {}
        /\ tunnel' = [tunnel EXCEPT ![t] = y]
        /\ call' = [call EXCEPT ![k] = x]
        /\ UNCHANGED <<registry, thread, command, stateFile>>
    BY <1>1 DEF WorkerStart, Worker
  <2>2. t \in Tunnels /\ IsFree(t)
    BY <2>1, FreeOnes
  <2> HIDE DEF t
  <2>3. d \in Deployments /\ call[k] = Idle
    BY <2>1, WorkerPlaces
  <2>4. IsCall(x) /\ x.at = "check" /\ x.dep = d /\ x.tunnel = t
    BY <2>2, <2>3 DEF IsCall, Idle
  <2>5. /\ IsTunnel(y) /\ y.of = d /\ y.thread = NoThread /\ y.local = NoPort
        /\ ~y.stop /\ ~y.ready /\ ~y.failed
    BY DEF IsTunnel, Made, Unmade
  <2> HIDE DEF x, y
  <2>6. /\ DOMAIN call' = Callers /\ \A o \in Callers : IsCall(call'[o])
        /\ call'[k] = x /\ Others(k)
    BY <1>p, <2>1, <2>4, CallsTyped
  <2>7. /\ DOMAIN tunnel' = Tunnels /\ \A v \in Tunnels : IsTunnel(tunnel'[v])
        /\ tunnel'[t] = y /\ OtherTunnels(t)
    BY <2>1, <2>2, <2>5, TunnelTyped
  <2>8. WorkerMadeStep(k, t)
    BY <2>1, <2>2, <2>3, <2>4, <2>5, <2>6, <2>7 DEF WorkerMadeStep, Fresh
  <2> QED BY <2>1, <2>2, <2>6, <2>7, <2>8 DEF TunnelsTyped, WorkerMoves
<1>2. CASE WorkerOpened(k)
  <2>1. /\ call[k].at = "opened" /\ Go(k, "held") /\ UNCHANGED Objects
        /\ WorkerGoes(k, "open", "loop")
        /\ stateFile' = [stateFile EXCEPT ![command[k].dep] =
              [by |-> k, connected |-> Connected(call[k].tunnel),
               port |-> tunnel[call[k].tunnel].local, failed |-> FALSE]]
    BY <1>2, <1>w DEF WorkerOpened, In, Objects
  <2>2. /\ DOMAIN call' = Callers /\ \A o \in Callers : IsCall(call'[o])
        /\ CallGoes(k, {"held"})
    BY <1>p, <2>1, CallPlaces, CallTurns
  <2>3. HoldStep(k)
    BY <2>1, <2>2 DEF HoldStep
  <2> QED BY <2>1, <2>2, <2>3 DEF TunnelsTyped, WorkerMoves, Objects
<1>3. CASE WorkerFails(k) \/ WorkerStops(k)
  <2> DEFINE x == [call[k] EXCEPT !.at = "stop", !.then = "closed"]
  <2>1. /\ \/ WorkerGoes(k, "open", "close") /\ call[k].at = "failed"
           \/ WorkerGoes(k, "loop", "close") /\ call[k].at = "held"
        /\ UNCHANGED Objects
        /\ call' = [call EXCEPT ![k].at = "stop", ![k].then = "closed"]
    BY <1>3, <1>w, WorkerPlaces DEF WorkerFails, WorkerStops, Worker, In, Objects, WorkerClose
  <2>2. OtherFiles(command[k].dep)
    BY <1>3 DEF WorkerFails, WorkerStops, OtherFiles, WorkersTyped
  <2>3. worker[k] \in {"open", "loop"}
    BY <2>1 DEF WorkerGoes
  <2>4. call[k].tunnel \in Tunnels /\ call[k].dep \in Deployments
    BY <2>3, WorkerPlaces
  <2>5. IsCall(x) /\ x.at = "stop" /\ x.then = "closed" /\ x.dep = call[k].dep
        /\ x.tunnel = call[k].tunnel
    BY <1>p, <2>4 DEF IsCall
  <2>6. call' = [call EXCEPT ![k] = x]
    BY <1>p, <2>1 DEF IsCall, TunnelsTyped
  <2> HIDE DEF x
  <2>7. /\ DOMAIN call' = Callers /\ \A o \in Callers : IsCall(call'[o])
        /\ call'[k] = x /\ Others(k)
    BY <1>p, <2>5, <2>6, CallsTyped
  <2>8. DropStep(k)
    BY <2>1, <2>2, <2>5, <2>7 DEF DropStep, CallGoes
  <2> QED BY <2>1, <2>7, <2>8 DEF TunnelsTyped, WorkerMoves, Objects
<1>4. CASE WorkerEnds(k)
  <2>1. /\ call[k].at = "closed" /\ WorkerGoes(k, "close", "ended") /\ UNCHANGED Objects
        /\ call' = [call EXCEPT ![k] = Idle]
    BY <1>4, <1>w DEF WorkerEnds, In, Objects
  <2>2. OtherFiles(command[k].dep)
    BY <1>4 DEF WorkerEnds, OtherFiles, WorkersTyped
  <2>3. /\ DOMAIN call' = Callers /\ \A o \in Callers : IsCall(call'[o])
        /\ call'[k] = Idle /\ Others(k)
    BY <1>p, <1>i, <2>1, CallsTyped
  <2>4. OverStep(k)
    BY <2>1, <2>2, <2>3 DEF OverStep
  <2> QED BY <2>1, <2>3, <2>4 DEF TunnelsTyped, WorkerMoves, Objects
<1>5. CASE WorkerDies(k)
  <2>1. /\ WorkerGoes(k, "open", "ended") \/ WorkerGoes(k, "loop", "ended")
        /\ thread' = [w \in Threads |-> IF thread[w].of = call[k].tunnel THEN Ended
                                        ELSE thread[w]]
        /\ call' = [call EXCEPT ![k] = Idle]
        /\ UNCHANGED <<registry, tunnel, stateFile>>
    BY <1>5 DEF WorkerDies, WorkerGoes
  <2>2. IsThread(Ended)
    BY DEF IsThread, Ended
  <2>3. DOMAIN thread' = Threads /\ \A v \in Threads : IsThread(thread'[v])
    BY <2>1, <2>2 DEF TunnelsTyped
  <2>4. /\ DOMAIN call' = Callers /\ \A o \in Callers : IsCall(call'[o])
        /\ call'[k] = Idle /\ Others(k)
    BY <1>p, <1>i, <2>1, CallsTyped
  <2>5. DieStep(k)
    BY <2>1, <2>4 DEF DieStep
  <2> QED BY <2>1, <2>3, <2>4, <2>5 DEF TunnelsTyped, WorkerMoves
<1> QED BY <1>1, <1>2, <1>3, <1>4, <1>5 DEF WorkerStep

LEMMA CommandsMove ==
  ASSUME WorkersTyped, NEW x \in Commands,
         CommandStep(x) \/ \E d \in Deployments : CommandOpen(x, d) \/ CommandClose(x, d)
  PROVE  CommandMoves(x)
<1>f. UNCHANGED <<Objects, call, stateFile>>
  BY DEF CommandStep, PollOpen, PollClose, CommandOpen, CommandClose, Objects
<1>n. command[x].at = "new" => worker[x] = "none"
  BY DEF WorkersTyped
<1>c. ASSUME NEW from, NEW to, NEW d, Command(x, from, to, d)
      PROVE  /\ DOMAIN command' = Commands /\ command'[x].at = to /\ command'[x].dep = d
             /\ command[x].at = from
             /\ \A y \in Commands \ {x} : command'[y] = command[y]
  BY <1>c DEF Command, WorkersTyped
<1>1. CASE CommandStep(x)
  <2>1. UNCHANGED worker /\ \E from \in {"opening", "closing"} :
                               Command(x, from, "ended", command[x].dep)
    BY <1>1 DEF CommandStep, PollOpen, PollClose
  <2>2. PICK from \in {"opening", "closing"} : Command(x, from, "ended", command[x].dep)
    BY <2>1
  <2>3. worker[x] # "none" => command[x].dep \in Deployments
    BY DEF WorkersTyped
  <2>4. /\ DOMAIN command' = Commands /\ command'[x].at = "ended"
        /\ command'[x].dep = command[x].dep
        /\ \A y \in Commands \ {x} : command'[y] = command[y]
    BY <1>c, <2>2
  <2> QED BY <1>f, <2>1, <2>3, <2>4 DEF CommandMoves, WorkersTyped
<1>2. ASSUME NEW d \in Deployments, CommandOpen(x, d) \/ CommandClose(x, d)
      PROVE  CommandMoves(x)
  <2>1. CASE UNCHANGED worker
    <3>1. \E to \in {"ended", "opening", "closing"} : Command(x, "new", to, d)
      BY <1>2 DEF CommandOpen, CommandClose
    <3>2. PICK to \in {"ended", "opening", "closing"} : Command(x, "new", to, d)
      BY <3>1
    <3>3. /\ DOMAIN command' = Commands /\ command'[x].at = to /\ command[x].at = "new"
          /\ \A y \in Commands \ {x} : command'[y] = command[y]
      BY <1>c, <3>2
    <3> QED BY <1>f, <1>n, <2>1, <3>3 DEF CommandMoves, WorkersTyped
  <2>2. CASE CommandOpen(x, d) /\ ~ReadConnected(d)
    <3>1. /\ Command(x, "new", "opening", d) /\ worker' = [worker EXCEPT ![x] = "start"]
          /\ Note(Meets(x, d) \cup
                    IF \E k \in Commands : command[k].dep = d /\ Running(k)
                    THEN {"overlap"} ELSE {})
      BY <2>2 DEF CommandOpen
    <3>2. /\ DOMAIN command' = Commands /\ command'[x].at = "opening" /\ command'[x].dep = d
          /\ command[x].at = "new"
          /\ \A y \in Commands \ {x} : command'[y] = command[y]
      BY <1>c, <3>1
    <3>3. Calm' => \A y \in Commands \ {x} : Running(y) => command[y].dep # d
      BY <3>1 DEF Note, Calm
    <3>4. /\ DOMAIN worker' = Commands /\ worker'[x] = "start"
          /\ \A y \in Commands \ {x} : worker'[y] = worker[y]
      BY <3>1 DEF WorkersTyped
    <3> QED BY <1>f, <1>n, <3>2, <3>3, <3>4 DEF CommandMoves
  <2> QED BY <1>2, <2>1, <2>2 DEF CommandOpen, CommandClose
<1> QED BY <1>1, <1>2

\* A request calls, or is done.
LEMMA CallEnters ==
  ASSUME TunnelsTyped, NEW c \in Requests, NEW to \in {"lookup", "pop"}, NEW d \in Deployments,
         NEW port, NEW secret, Call(c, to, d, port, secret), UNCHANGED <<Objects, Filed>>
  PROVE  TunnelsTyped' /\ EnterStep(c) /\ CallerStep
         /\ \A o \in Callers \ {c} : call'[o] = call[o]
<1> DEFINE x == [Idle EXCEPT !.at = to, !.dep = d, !.port = port, !.secret = secret]
<1>1. call[c] = Idle /\ call' = [call EXCEPT ![c] = x] /\ Note(Overlaps(c, d))
  BY DEF Call
<1>2. IsCall(x) /\ x.at = to /\ x.dep = d /\ x.tunnel = NoTunnel
  BY DEF IsCall, Idle
<1> HIDE DEF x
<1>c. c \in Callers
  BY DEF Callers
<1>3. /\ DOMAIN call' = Callers /\ \A o \in Callers : IsCall(call'[o])
      /\ call'[c] = x /\ Others(c)
  BY <1>1, <1>2, <1>c, CallsTyped
<1>4. Calm' => \A o \in Callers \ {c} : call[o].dep # d
  BY <1>1 DEF Note, Calm, Overlaps
<1>5. EnterStep(c)
  BY <1>1, <1>2, <1>3, <1>4 DEF EnterStep
<1> QED BY <1>3, <1>5, <1>c DEF TunnelsTyped, CallerStep, Objects, Others

LEMMA CallLeaves ==
  ASSUME TunnelsTyped, NEW c \in Requests, call[c].at \in {"opened", "failed", "closed"},
         call' = [call EXCEPT ![c] = Idle], UNCHANGED <<Objects, Filed>>
  PROVE  TunnelsTyped' /\ CallerStep /\ call'[c] = Idle
         /\ \A o \in Callers \ {c} : call'[o] = call[o]
<1>1. IsCall(Idle) /\ c \in Callers
  BY DEF IsCall, Idle, Callers
<1>2. /\ DOMAIN call' = Callers /\ \A o \in Callers : IsCall(call'[o])
      /\ call'[c] = Idle /\ Others(c)
  BY <1>1, CallsTyped
<1> QED BY <1>1, <1>2 DEF LeaveStep, CallerStep, TunnelsTyped, Objects, Others

LEMMA QuietTyped ==
  ASSUME TunnelsTyped, QuietMove
  PROVE  TunnelsTyped'
  BY DEF TunnelsTyped, QuietMove, Objects

LEMMA PageKeepsCall ==
  ASSUME PagesCall, NEW p \in Pages,
         \A q \in Pages \ {p} : page'[q] = page[q] /\ call'[q] = call[q],
         page'[p].at # "answer" => call'[p] = Idle,
         page'[p].at \in {"select", "build", "equip", "swap", "retire", "open", "answer"} =>
           page'[p].want \in Deployments
  PROVE  PagesCall'
  BY DEF PagesCall

LEMMA PagesInCallers ==
  ASSUME ChatAssumption
  PROVE  \A q \in Pages : q \in Requests /\ q \in Callers
  BY DEF ChatAssumption, Callers

LEMMA PageMoves ==
  ASSUME ChatAssumption, ChatInv, TunnelsTyped, PagesCall, NEW p \in Pages,
         Load(p) \/ PageStep(p) \/ Ask(p) \/ Read(p) \/ Forget(p)
  PROVE  TunnelsTyped' /\ (CallerStep \/ QuietMove) /\ PagesCall'
<1>p. /\ DOMAIN page = Pages /\ p \in Requests /\ p \in Callers
      /\ DOMAIN page[p] = {"at", "dep", "want", "row", "tries", "gateway", "run", "list"}
  BY DEF ChatInv, PagesTyped, IsPage, ChatAssumption, Callers
<1>c. /\ page[p].at # "answer" => call[p] = Idle
      /\ page[p].at \in {"select", "build", "equip", "swap", "retire", "open", "answer"} =>
           page[p].want \in Deployments
  BY DEF PagesCall
<1>t. PageStep(p) => \A q \in Pages \ {p} : page'[q] = page[q]
  BY <1>p, PageStepTurns
<1>1. CASE Load(p)
  <2>1. /\ page[p].at \in {"closed", "off", "ready", "failed"}
        /\ UNCHANGED <<registry, tunnel, thread, call, fileVars>>
    BY <1>1 DEF Load, Settled
  <2>2. QuietMove
    BY <2>1 DEF QuietMove, Objects, Filed, fileVars
  <2>3. page'[p].at = "list" /\ \A q \in Pages \ {p} : page'[q] = page[q]
    <3>1. \E named, list : page' = [page EXCEPT ![p] = [Blank EXCEPT !.at = "list",
                                         !.dep = named, !.list = list]]
      BY <1>1 DEF Load
    <3>2. PICK named, list : page' = [page EXCEPT ![p] = [Blank EXCEPT !.at = "list",
                                         !.dep = named, !.list = list]]
      BY <3>1
    <3>3. [Blank EXCEPT !.at = "list", !.dep = named, !.list = list].at = "list"
      BY DEF Blank
    <3> QED BY <1>p, <3>2, <3>3
  <2> QED BY <1>c, <2>1, <2>2, <2>3, QuietTyped, PageKeepsCall, PagesInCallers
<1>2. CASE List(p)
  <2>1. page[p].at = "list" /\ UNCHANGED <<registry, tunnel, thread, call, fileVars>>
    BY <1>2 DEF List, At, Turn
  <2>2. QuietMove
    BY <2>1 DEF QuietMove, Objects, Filed, fileVars
  <2>3. \/ page'[p].at = "off"
        \/ page'[p].at = "select" /\ page'[p].want \in Deployments
    BY <1>2, <1>p DEF List, Turn, Healthy
  <2> QED BY <1>2, <1>c, <1>t, <2>1, <2>2, <2>3, QuietTyped, PageKeepsCall DEF PageStep
<1>3. CASE Select(p)
  <2>1. page[p].at = "select" /\ UNCHANGED <<registry, tunnel, thread, call, fileVars>>
    BY <1>3 DEF Select, At, tunnelVars
  <2>2. QuietMove
    BY <2>1 DEF QuietMove, Objects, Filed, fileVars
  <2>3. page'[p].at \in {"build", "open", "failed"} /\ page'[p].want = page[p].want
    BY <1>3, <1>p DEF Select, Refuse
  <2> QED BY <1>3, <1>c, <1>t, <2>1, <2>2, <2>3, QuietTyped, PageKeepsCall DEF PageStep
<1>4. CASE Build(p)
  <2>1. page[p].at = "build" /\ UNCHANGED <<registry, tunnel, thread, call, fileVars>>
    BY <1>4 DEF Build, At
  <2>2. QuietMove
    BY <2>1 DEF QuietMove, Objects, Filed, fileVars
  <2>3. page'[p].at \in {"equip", "open", "failed"} /\ page'[p].want = page[p].want
    BY <1>4, <1>p DEF Build, Refuse
  <2> QED BY <1>4, <1>c, <1>t, <2>1, <2>2, <2>3, QuietTyped, PageKeepsCall DEF PageStep
<1>e. CASE Equip(p)
  <2>1. page[p].at = "equip" /\ UNCHANGED <<registry, tunnel, thread, call, fileVars>>
    BY <1>e DEF Equip, At
  <2>2. QuietMove
    BY <2>1 DEF QuietMove, Objects, Filed, fileVars
  <2>3. page'[p].at \in {"swap", "failed"} /\ page'[p].want = page[p].want
    BY <1>e, <1>p DEF Equip
  <2> QED BY <1>e, <1>c, <1>t, <2>1, <2>2, <2>3, QuietTyped, PageKeepsCall DEF PageStep
<1>5. CASE Swap(p) \/ Retire(p)
  <2>1. page[p].at \in {"swap", "retire"} /\ UNCHANGED <<registry, tunnel, thread, call, fileVars>>
    BY <1>5 DEF Swap, Retire, At, tunnelVars
  <2>2. QuietMove
    BY <2>1 DEF QuietMove, Objects, Filed, fileVars
  <2>3. page'[p].at \in {"retire", "ready"} /\ page'[p].want = page[p].want
    BY <1>5, <1>p DEF Swap, Retire
  <2> QED BY <1>5, <1>c, <1>t, <2>1, <2>2, <2>3, QuietTyped, PageKeepsCall DEF PageStep
<1>6. CASE Open(p)
  <2> DEFINE d == page[p].want
  <2>1. /\ page[p].at = "open" /\ UNCHANGED <<registry, tunnel, thread, fileVars>>
        /\ d \in Deployments /\ call[p] = Idle
    BY <1>6, <1>c DEF Open, At
  <2>2. UNCHANGED <<Objects, Filed>>
    BY <2>1 DEF Objects, Filed, fileVars
  <2>3. CASE UNCHANGED call /\ page'[p].at = "select" /\ page'[p].want = d
    BY <1>6, <1>t, <2>1, <2>2, <2>3, QuietTyped, PageKeepsCall DEF PageStep, QuietMove
  <2>4. CASE /\ call' = [call EXCEPT ![p] = [Idle EXCEPT !.at = "failed"]]
             /\ page'[p].at = "answer" /\ page'[p].want = d
    <3> DEFINE x == [Idle EXCEPT !.at = "failed"]
    <3>1. IsCall(x) /\ x.at = "failed" /\ x.tunnel = NoTunnel
      BY DEF IsCall, Idle
    <3> HIDE DEF x
    <3>2. call' = [call EXCEPT ![p] = x]
      BY <2>4 DEF x
    <3>3. /\ DOMAIN call' = Callers /\ \A o \in Callers : IsCall(call'[o])
          /\ call'[p] = x /\ Others(p)
      BY <1>p, <3>1, <3>2, CallsTyped
    <3>4. EnterStep(p)
      BY <1>p, <2>1, <2>2, <3>1, <3>3 DEF EnterStep
    <3>5. TunnelsTyped' /\ CallerStep
      BY <1>p, <2>1, <3>3, <3>4 DEF TunnelsTyped, CallerStep
    <3> QED BY <1>6, <1>t, <2>1, <2>4, <3>3, <3>5, PageKeepsCall, PagesInCallers
        DEF PageStep, Others
  <2>5. CASE /\ Call(p, "lookup", d, row[d].port, set.stored \/ page[p].tries = 2)
             /\ page'[p].at = "answer" /\ page'[p].want = d
    <3>1. TunnelsTyped' /\ CallerStep /\ \A o \in Callers \ {p} : call'[o] = call[o]
      BY <1>p, <2>1, <2>2, <2>5, CallEnters
    <3> QED BY <1>6, <1>t, <2>1, <2>5, <3>1, PageKeepsCall, PagesInCallers DEF PageStep
  <2>6. ASSUME NEW to, Turn(p, "open", to) PROVE page'[p].at = to /\ page'[p].want = d
    BY <1>p, <2>6 DEF Turn
  <2> QED BY <1>6, <2>3, <2>4, <2>5, <2>6 DEF Open
<1>7. CASE Opened(p) \/ OpenFailed(p)
  <2>1. /\ page[p].at = "answer" /\ UNCHANGED <<registry, tunnel, thread, fileVars>>
        /\ call' = [call EXCEPT ![p] = Idle] /\ call[p].at \in {"opened", "failed"}
    BY <1>7 DEF Opened, OpenFailed, At, In, Turn
  <2>2. UNCHANGED <<Objects, Filed>>
    BY <2>1 DEF Objects, Filed, fileVars
  <2>3. /\ TunnelsTyped' /\ CallerStep /\ call'[p] = Idle
        /\ \A o \in Callers \ {p} : call'[o] = call[o]
    BY <1>p, <2>1, <2>2, CallLeaves
  <2>4. page'[p].want = page[p].want
    BY <1>7, <1>p DEF Opened, OpenFailed, Turn
  <2> QED BY <1>7, <1>c, <1>t, <2>1, <2>3, <2>4, PageKeepsCall, PagesInCallers DEF PageStep
<1>8. CASE Ask(p) \/ Read(p) \/ Forget(p)
  <2>1. UNCHANGED <<registry, tunnel, thread, call, fileVars>>
    BY <1>8 DEF Ask, Read, Forget, tunnelVars
  <2>2. QuietMove
    BY <2>1 DEF QuietMove, Objects, Filed, fileVars
  <2>3. /\ page'[p].at = page[p].at /\ page'[p].want = page[p].want
        /\ \A q \in Pages \ {p} : page'[q] = page[q]
    <3>1. CASE Ask(p)
      BY <3>1, <1>p DEF Ask
    <3>2. CASE Read(p)
      <4>1. \E list : \/ page' = [page EXCEPT ![p].run = NoRun, ![p].list = list]
                      \/ page' = [page EXCEPT ![p].run = NoRun]
        BY <3>2 DEF Read
      <4> QED BY <4>1, <1>p
    <3>3. CASE Forget(p)
      BY <3>3, <1>p DEF Forget
    <3> QED BY <1>8, <3>1, <3>2, <3>3
  <2> QED BY <1>c, <2>1, <2>2, <2>3, QuietTyped, PageKeepsCall
<1> QED BY <1>1, <1>2, <1>3, <1>4, <1>e, <1>5, <1>6, <1>7, <1>8 DEF PageStep

LEMMA CallsOnly ==
  ASSUME TunnelsTyped, NEW c \in Callers,
         CallStep(c) \/ WaitExpires(c) \/ (c \in Commands /\ (WorkerStep(c) \/ WorkerDies(c)))
  PROVE  \A o \in Callers : call[o] = Idle /\ o \notin Commands => call'[o] = Idle
<1>1. DOMAIN call = Callers
  BY DEF TunnelsTyped
<1>2. CASE CallStep(c) \/ WaitExpires(c)
  <2>1. call[c] # Idle
    <3>1. call[c].at \in {"lookup", "check", "start", "wait", "pop", "stop", "join"}
      <4>1. CASE Lookup(c) \/ OpenCheck(c) \/ OpenStart(c)
        BY <4>1 DEF Lookup, OpenCheck, OpenStart, In
      <4>2. CASE OpenWait(c) \/ WaitExpires(c)
        BY <4>2 DEF OpenWait, WaitExpires, In
      <4>3. CASE Pop(c) \/ CloseStop(c) \/ CloseJoin(c)
        BY <4>3 DEF Pop, CloseStop, CloseJoin, In
      <4> QED BY <1>2, <4>1, <4>2, <4>3 DEF CallStep
    <3> QED BY <3>1 DEF Idle
  <2>2. \A o \in Callers \ {c} : call'[o] = call[o]
    <3>1. CASE Lookup(c)
      BY <1>1, <3>1 DEF Lookup
    <3>2. CASE OpenCheck(c) \/ OpenStart(c) \/ OpenWait(c)
      BY <1>1, <3>2 DEF OpenCheck, OpenStart, OpenWait, Go
    <3>3. CASE Pop(c) \/ CloseStop(c) \/ CloseJoin(c) \/ WaitExpires(c)
      BY <1>1, <3>3 DEF Pop, CloseStop, CloseJoin, WaitExpires, Go
    <3> QED BY <1>2, <3>1, <3>2, <3>3 DEF CallStep
  <2> QED BY <2>1, <2>2
<1>3. CASE c \in Commands /\ (WorkerStep(c) \/ WorkerDies(c))
  BY <1>1, <1>3 DEF WorkerStep, WorkerDies, WorkerStart, WorkerOpened, WorkerFails, WorkerStops,
      WorkerEnds, WorkerClose, Go
<1> QED BY <1>2, <1>3

LEMMA TunnelMoves ==
  ASSUME TunnelAssumption, ChatAssumption, ChatInv, TunnelInv, [Next]_vars
  PROVE  TunnelsTyped' /\ PagesCall' /\ TunnelMove
<1>0. TunnelsTyped /\ WorkersTyped /\ PagesCall
  BY DEF TunnelInv
<1>p. \A p \in Pages : p \in Callers /\ p \notin Commands
  BY PagesInCallers DEF TunnelAssumption
<1>s. ASSUME UNCHANGED page,
             \A o \in Callers : call[o] = Idle /\ o \notin Commands => call'[o] = Idle
      PROVE  PagesCall'
  BY <1>0, <1>p, <1>s DEF PagesCall
<1>q. ASSUME QuietMove, UNCHANGED page PROVE TunnelsTyped' /\ PagesCall' /\ TunnelMove
  BY <1>0, <1>q, QuietTyped DEF QuietMove, PagesCall, TunnelMove
<1>1. CASE UNCHANGED vars
  BY <1>1, <1>q DEF vars, tunnelVars, chatVars, fileVars, QuietMove, Objects, Filed
<1>2. ASSUME NEW p \in Pages, Load(p) \/ PageStep(p) \/ Ask(p) \/ Read(p) \/ Forget(p)
      PROVE  TunnelsTyped' /\ PagesCall' /\ TunnelMove
  BY <1>0, <1>2, PageMoves DEF TunnelMove
<1>3. ASSUME NEW c \in Requests, NEW d \in Deployments, Close(c, d) \/ Closed(c)
      PROVE  TunnelsTyped' /\ PagesCall' /\ TunnelMove
  <2>1. c \notin Pages /\ UNCHANGED <<page, Objects, Filed>>
    BY <1>3 DEF Close, Closed, chatVars, Objects, Filed, fileVars
  <2>2. CASE Close(c, d)
    <3>1. TunnelsTyped' /\ CallerStep /\ \A o \in Callers \ {c} : call'[o] = call[o]
      BY <1>0, <2>1, <2>2, CallEnters DEF Close
    <3> QED BY <1>0, <1>p, <2>1, <3>1 DEF PagesCall, TunnelMove
  <2>3. CASE Closed(c)
    <3>1. /\ TunnelsTyped' /\ CallerStep /\ call'[c] = Idle
          /\ \A o \in Callers \ {c} : call'[o] = call[o]
      BY <1>0, <2>1, <2>3, CallLeaves DEF Closed, In
    <3> QED BY <1>0, <1>p, <2>1, <3>1 DEF PagesCall, TunnelMove
  <2> QED BY <1>3, <2>2, <2>3
<1>4. ASSUME NEW r \in DOMAIN runs, RunStep(r)
      PROVE  TunnelsTyped' /\ PagesCall' /\ TunnelMove
  <2>1. UNCHANGED <<tunnelVars, page>>
    BY <1>4 DEF RunStep, Pick, Send, Finish, Break, Tell, Error, Run
  <2> QED BY <2>1, <1>q DEF tunnelVars, fileVars, QuietMove, Objects, Filed
<1>5. ASSUME NEW i \in DOMAIN puts, Land(i) \/ Drop(i)
      PROVE  TunnelsTyped' /\ PagesCall' /\ TunnelMove
  BY <1>5, <1>q DEF Land, Drop, fileVars, QuietMove, Objects, Filed
<1>6. ASSUME NEW d \in Deployments, Redeploy(d) \/ Stop(d)
      PROVE  TunnelsTyped' /\ PagesCall' /\ TunnelMove
  BY <1>6, <1>q DEF Redeploy, Stop, chatVars, fileVars, QuietMove, Objects, Filed
<1>7. CASE TunnelNext /\ UNCHANGED Serving
  <2>1. UNCHANGED page
    BY <1>7 DEF Serving, chatVars
  <2>2. ASSUME NEW c \in Callers, CallStep(c) \/ WaitExpires(c)
        PROVE  TunnelsTyped' /\ PagesCall' /\ TunnelMove
    BY <1>0, <1>s, <2>1, <2>2, CallerMoves, CallsOnly DEF TunnelMove
  <2>3. ASSUME NEW w \in Threads, ThreadStep(w) \/ LoseSession(w)
        PROVE  TunnelsTyped' /\ PagesCall' /\ TunnelMove
    <3>1. TunnelsTyped' /\ ThreadMoves
      BY <1>0, <2>3, ThreadsMove
    <3>2. UNCHANGED call
      BY <2>3 DEF ThreadStep, LoseSession, Connect, ConnectFails, Listen, StopThread
    <3> QED BY <1>0, <2>1, <3>1, <3>2 DEF PagesCall, TunnelMove
  <2>4. ASSUME NEW x \in Commands, WorkerStep(x) \/ WorkerDies(x)
        PROVE  TunnelsTyped' /\ PagesCall' /\ TunnelMove
    BY <1>0, <1>s, <2>1, <2>4, WorkersMove, CallsOnly DEF TunnelMove, Callers
  <2>5. ASSUME NEW x \in Commands, CommandStep(x)
        PROVE  TunnelsTyped' /\ PagesCall' /\ TunnelMove
    <3>1. CommandMoves(x)
      BY <1>0, <2>5, CommandsMove
    <3> QED BY <1>0, <2>1, <3>1 DEF CommandMoves, TunnelMove, WorkerMoves, TunnelsTyped, Objects,
                                    PagesCall
  <2> QED BY <1>7, <2>2, <2>3, <2>4, <2>5 DEF TunnelNext
<1>8. ASSUME NEW d \in Deployments, UNCHANGED Serving,
             {y \in Commands : command[y].at = "new"} # {},
             LET x == Min({y \in Commands : command[y].at = "new"})
             IN CommandOpen(x, d) \/ CommandClose(x, d)
      PROVE  TunnelsTyped' /\ PagesCall' /\ TunnelMove
  <2> DEFINE S == {y \in Commands : command[y].at = "new"}
             x == Min(S)
  <2>1. S \in SUBSET Nat /\ S # {}
    BY <1>8 DEF TunnelAssumption
  <2>2. x \in S
    BY <2>1, MinIsIn
  <2>3. x \in Commands /\ (CommandOpen(x, d) \/ CommandClose(x, d))
    BY <1>8, <2>2
  <2> HIDE DEF x
  <2>4. CommandMoves(x)
    BY <1>0, <2>3, CommandsMove
  <2>5. UNCHANGED page
    BY <1>8 DEF Serving, chatVars
  <2> QED BY <1>0, <2>3, <2>4, <2>5 DEF CommandMoves, TunnelMove, WorkerMoves, TunnelsTyped,
                                    Objects, PagesCall
<1> QED BY <1>1, <1>2, <1>3, <1>4, <1>5, <1>6, <1>7, <1>8 DEF Next

LEMMA WorkersStep ==
  ASSUME TunnelAssumption, TunnelsTyped, WorkersTyped, TunnelsTyped', TunnelMove
  PROVE  WorkersTyped'
<1>d. \A k \in Commands : k \in Callers /\ k \notin Requests
  BY DEF Callers, TunnelAssumption
<1>i. NoTunnel \notin Tunnels /\ Idle.at = "idle"
  BY DEF NoTunnel, Tunnels, Idle
<1>1. CASE QuietMove \/ ThreadMoves
  <2>1. UNCHANGED <<call, Filed>>
    BY <1>1 DEF QuietMove, ThreadMoves, GoesStep, EndsStep, FailsStep, ListensStep
  <2> QED BY <2>1 DEF WorkersTyped, Filed, Opening, HasTunnel
<1>2. ASSUME NEW k \in Commands,
             HoldStep(k) \/ DropStep(k) \/ OverStep(k) \/ DieStep(k)
               \/ \E t \in Tunnels : WorkerMadeStep(k, t)
      PROVE  WorkersTyped'
  <2>1. /\ DOMAIN worker' = Commands /\ UNCHANGED command /\ Others(k)
        /\ \A o \in Commands \ {k} : worker'[o] = worker[o]
        /\ DOMAIN stateFile' = Deployments
    BY <1>2 DEF HoldStep, DropStep, OverStep, DieStep, WorkerMadeStep, WorkerGoes, WorkersTyped,
       OtherFiles, CallGoes
  <2>2. /\ \/ worker'[k] \in {"none", "start", "ended"} /\ call'[k] = Idle
           \/ worker'[k] = "open" /\ Opening(k)'
           \/ worker'[k] = "loop" /\ call'[k].at = "held"
           \/ worker'[k] = "close" /\ call'[k].at \in {"stop", "join", "closed"}
              /\ call'[k].then = "closed"
        /\ worker'[k] \in {"open", "loop", "close"} => HasTunnel(k)'
        /\ worker[k] # "none" /\ worker'[k] # "none"
    BY <1>2, <1>i DEF HoldStep, DropStep, OverStep, DieStep, WorkerMadeStep, WorkerGoes,
       WorkersTyped, CallGoes, Opening, HasTunnel
  <2>3. \A o \in Commands \ {k} : call'[o] = call[o]
    BY <1>d, <2>1 DEF Others
  <2>4. command'[k].at # "new" /\ command'[k].dep \in Deployments
    BY <2>1, <2>2 DEF WorkersTyped
  <2>5. DOMAIN command' = Commands
    BY <2>1 DEF WorkersTyped
  <2>6. ASSUME NEW o \in Commands \ {k}
        PROVE  /\ \/ worker'[o] \in {"none", "start", "ended"} /\ call'[o] = Idle
                  \/ worker'[o] = "open" /\ Opening(o)'
                  \/ worker'[o] = "loop" /\ call'[o].at = "held"
                  \/ worker'[o] = "close" /\ call'[o].at \in {"stop", "join", "closed"}
                     /\ call'[o].then = "closed"
               /\ worker'[o] \in {"open", "loop", "close"} => HasTunnel(o)'
               /\ worker'[o] # "none" => command'[o].dep \in Deployments
               /\ command'[o].at = "new" => worker'[o] = "none"
    BY <2>1, <2>3 DEF WorkersTyped, Opening, HasTunnel
  <2> QED BY <2>1, <2>2, <2>4, <2>5, <2>6 DEF WorkersTyped
<1>3. ASSUME NEW x \in Commands, CommandMoves(x) PROVE WorkersTyped'
  <2>1. /\ UNCHANGED <<call, stateFile>> /\ command'[x].at # "new"
        /\ DOMAIN command' = Commands /\ DOMAIN worker' = Commands
        /\ worker'[x] # "none" => command'[x].dep \in Deployments
        /\ \A y \in Commands \ {x} : command'[y] = command[y] /\ worker'[y] = worker[y]
        /\ worker'[x] = worker[x] \/ (worker[x] = "none" /\ worker'[x] = "start")
    BY <1>3 DEF CommandMoves
  <2> QED BY <2>1 DEF WorkersTyped, Opening, HasTunnel
<1>4. ASSUME NEW c \in Callers, CallerStep, c \in Requests, Others(c), UNCHANGED Filed
      PROVE  WorkersTyped'
  <2>1. \A k \in Commands : call'[k] = call[k]
    BY <1>d, <1>4 DEF Others
  <2> QED BY <1>4, <2>1 DEF WorkersTyped, Opening, HasTunnel, Filed
<1>5. ASSUME NEW c \in Callers, c \in Commands,
             CheckStep(c) \/ WaitedStep(c) \/ ExpireStep(c) \/ TellStep(c) \/ JoinStep(c)
               \/ \E w \in Threads \cup {NoThread} : StartStep(c, w)
      PROVE  WorkersTyped'
  <2>1. UNCHANGED Filed /\ Others(c)
    BY <1>5 DEF CheckStep, WaitedStep, ExpireStep, TellStep, JoinStep, StartStep, CallGoes
  <2>2. \/ worker[c] = "open" /\ Opening(c)
        \/ /\ worker[c] = "close" /\ call[c].then = "closed"
           /\ call[c].at \in {"stop", "join", "closed"}
    <3>1. call[c].at \in {"check", "start", "wait", "stop", "join"}
      BY <1>5 DEF CheckStep, WaitedStep, ExpireStep, TellStep, JoinStep, StartStep
    <3>2. call[c] # Idle /\ call[c].at # "held"
      BY <3>1 DEF Idle
    <3> QED BY <1>5, <3>2 DEF WorkersTyped
  <2>3. call'[c].tunnel = call[c].tunnel
    BY <1>5 DEF CheckStep, WaitedStep, ExpireStep, TellStep, JoinStep, StartStep, CallGoes
  <2>4. CASE worker[c] = "open" /\ Opening(c)
    <3>1. Opening(c)'
      BY <1>5, <2>4 DEF CheckStep, WaitedStep, ExpireStep, TellStep, JoinStep, StartStep, CallGoes,
                   Opening
    <3> QED BY <1>d, <2>1, <2>3, <2>4, <3>1 DEF WorkersTyped, Others, Filed, HasTunnel, Opening
  <2>5. CASE worker[c] = "close"
    <3>1. call'[c].at \in {"join", "closed"} /\ call'[c].then = "closed"
      BY <1>5, <2>2, <2>5 DEF CheckStep, WaitedStep, ExpireStep, TellStep, JoinStep, StartStep,
                   CallGoes, Opening
    <3> QED BY <1>d, <2>1, <2>3, <2>5, <3>1 DEF WorkersTyped, Others, Filed, HasTunnel, Opening
  <2> QED BY <2>2, <2>4, <2>5
<1>6. CASE CallerStep
  <2>1. PICK c \in Callers :
          \/ EnterStep(c) \/ LeaveStep(c) \/ FoundStep(c) \/ CheckStep(c) \/ WaitedStep(c)
          \/ ExpireStep(c) \/ PopStep(c) \/ TellStep(c) \/ JoinStep(c)
          \/ \E t \in Tunnels : MadeStep(c, t)
          \/ \E w \in Threads \cup {NoThread} : StartStep(c, w)
    BY <1>6 DEF CallerStep
  <2>2. UNCHANGED Filed /\ Others(c)
    BY <2>1 DEF EnterStep, LeaveStep, FoundStep, CheckStep, WaitedStep, ExpireStep, PopStep,
       TellStep, JoinStep, MadeStep, StartStep, CallGoes
  <2>3. CASE c \in Requests
    BY <1>4, <1>6, <2>2, <2>3
  <2>4. CASE c \in Commands
    BY <1>5, <1>d, <2>1, <2>4 DEF EnterStep, LeaveStep, FoundStep, PopStep, MadeStep
  <2> QED BY <2>3, <2>4 DEF Callers
<1> QED BY <1>1, <1>2, <1>3, <1>6 DEF TunnelMove, WorkerMoves

\* A thread that is alive is a tunnel's, and one that is not is no tunnel's.
LEMMA ThreadHas ==
  ASSUME TunnelsTyped, NEW w \in Threads
  PROVE  /\ Alive(w) <=> thread[w].of \in Tunnels
         /\ Alive(w) <=> thread[w] # Ended
         /\ thread[w].at \in {"connect", "bind", "forward", "lost"} <=> Alive(w)
         /\ thread[w].at \in {"bind", "forward", "lost"} => thread[w].port \in LocalPorts
         /\ thread[w].of \in Tunnels \cup {NoTunnel}
         /\ w # NoThread
<1>1. IsThread(thread[w])
  BY DEF TunnelsTyped
<1>2. NoTunnel \notin Tunnels /\ NoThread \notin Threads
  BY DEF NoTunnel, Tunnels, NoThread, Threads
<1>3. Ended.of = NoTunnel /\ Ended.at = "none"
  BY DEF Ended
<1> QED BY <1>1, <1>2, <1>3 DEF IsThread, Alive

LEMMA RegistryHas ==
  ASSUME TunnelsTyped, NEW d \in Deployments
  PROVE  registry[d] \in Tunnels \cup {NoTunnel}
  BY DEF TunnelsTyped

\* A step that names no tunnel anew, and gives none to a call.
NamesKept ==
  /\ UNCHANGED registry
  /\ \A t \in Tunnels : SameName(t)
  /\ \A c \in Callers : \/ call'[c].tunnel = NoTunnel
                        \/ call'[c].tunnel = call[c].tunnel /\ call'[c].dep = call[c].dep
\* The step of a call that keeps its tunnel, and of a worker.
CallWalks(c) ==
  \/ CheckStep(c) \/ WaitedStep(c) \/ ExpireStep(c) \/ TellStep(c) \/ JoinStep(c)
  \/ \E w \in Threads \cup {NoThread} : StartStep(c, w)
WorkerWalks(k) == HoldStep(k) \/ DropStep(k) \/ OverStep(k) \/ DieStep(k) \/ CommandMoves(k)

LEMMA NamesAreKept ==
  ASSUME TunnelsTyped
  PROVE  /\ \A c \in Callers : EnterStep(c) \/ LeaveStep(c) \/ CallWalks(c) => NamesKept
         /\ ThreadMoves => NamesKept
         /\ \A k \in Commands : WorkerWalks(k) => NamesKept
         /\ QuietMove => NamesKept
<1>i. Idle.tunnel = NoTunnel
  BY DEF Idle
<1>1. ASSUME NEW c \in Callers, EnterStep(c) \/ LeaveStep(c) PROVE NamesKept
  BY <1>i, <1>1 DEF EnterStep, LeaveStep, NamesKept, SameName, Others, Objects
<1>2. ASSUME NEW c \in Callers, CallWalks(c) PROVE NamesKept
  <2>1. CASE CheckStep(c) \/ WaitedStep(c) \/ ExpireStep(c)
    BY <2>1 DEF CheckStep, WaitedStep, ExpireStep, CallGoes, NamesKept, SameName, Others, Objects
  <2>2. CASE TellStep(c)
    BY <2>2 DEF TellStep, CallGoes, NamesKept, SameName, Others, OtherTunnels
  <2>3. CASE JoinStep(c)
    BY <2>3 DEF JoinStep, CallGoes, NamesKept, SameName, Others, OtherTunnels
  <2>4. ASSUME NEW w \in Threads \cup {NoThread}, StartStep(c, w) PROVE NamesKept
    BY <2>4 DEF StartStep, CallGoes, NamesKept, SameName, Others, OtherTunnels
  <2> QED BY <1>2, <2>1, <2>2, <2>3, <2>4 DEF CallWalks
<1>3. ASSUME NEW w \in Threads, GoesStep(w) \/ EndsStep(w) \/ FailsStep(w) \/ ListensStep(w)
      PROVE  NamesKept
  BY <1>3 DEF GoesStep, EndsStep, FailsStep, ListensStep, NamesKept, SameName, OtherTunnels
<1>4. ASSUME NEW k \in Commands, WorkerWalks(k) PROVE NamesKept
  BY <1>i, <1>4 DEF WorkerWalks, HoldStep, DropStep, OverStep, DieStep, CommandMoves, CallGoes,
     NamesKept, SameName, Others, Objects, Callers
<1>5. QuietMove => NamesKept
  BY DEF QuietMove, NamesKept, SameName, Objects
<1> QED BY <1>1, <1>2, <1>3, <1>4, <1>5 DEF ThreadMoves

LEMMA TunnelsNamedStep ==
  ASSUME TunnelAssumption, TunnelsTyped, WorkersTyped, TunnelsTyped', TunnelsNamed, TunnelMove
  PROVE  TunnelsNamed'
<1>d. \A k \in Commands : k \in Callers /\ k \notin Requests
  BY DEF Callers, TunnelAssumption
<1>n. NoTunnel \notin Tunnels
  BY DEF NoTunnel, Tunnels
<1>r. \A d \in Deployments : registry[d] \in Tunnels \cup {NoTunnel}
  BY RegistryHas
<1>c. \A c \in Callers : HasTunnel(c) => call[c].tunnel \in Tunnels /\ call[c].dep \in Deployments
  BY CallPlaces
<1>1. CASE NamesKept
  BY <1>d, <1>1, <1>r, <1>c DEF TunnelsNamed, NamesKept, SameName, HasTunnel
<1>2. ASSUME NEW c \in Requests, Others(c), tunnel' = tunnel, call[c].dep \in Deployments,
             call'[c].dep = call[c].dep, call'[c].tunnel = registry[call[c].dep],
             \A d \in Deployments : registry'[d] \in {registry[d], NoTunnel}
      PROVE  TunnelsNamed'
  <2>1. \A k \in Commands : call'[k] = call[k]
    BY <1>d, <1>2 DEF Others
  <2> QED BY <1>d, <1>2, <2>1 DEF TunnelsNamed, Others, HasTunnel
<1>3. ASSUME NEW c \in Callers, FoundStep(c) PROVE TunnelsNamed'
  BY <1>2, <1>3, CallPlaces DEF FoundStep, Objects
<1>4. ASSUME NEW c \in Callers, PopStep(c) PROVE TunnelsNamed'
  <2>1. \A d \in Deployments : registry'[d] \in {registry[d], NoTunnel}
    BY <1>4 DEF PopStep, TunnelsTyped
  <2> QED BY <1>2, <1>4, <2>1, CallPlaces DEF PopStep
<1>5. ASSUME NEW c \in Callers, NEW t \in Tunnels, MadeStep(c, t) PROVE TunnelsNamed'
  <2>1. /\ c \in Requests /\ call[c].dep \in Deployments /\ registry'[call[c].dep] = t
        /\ \A d \in Deployments \ {call[c].dep} : registry'[d] = registry[d]
    BY <1>5, CallPlaces DEF MadeStep, TunnelsTyped
  <2>2. \A k \in Commands : call'[k] = call[k]
    BY <1>d, <1>5, <2>1 DEF MadeStep, Others
  <2>3. \A d \in Deployments : registry'[d] # NoTunnel => tunnel'[registry'[d]].of = d
    BY <1>5, <1>r, <2>1 DEF TunnelsNamed, MadeStep, IsFree, OtherTunnels
  <2>4. \A o \in Callers : HasTunnel(o)' => tunnel'[call'[o].tunnel].of = call'[o].dep
    BY <1>5, <1>c DEF TunnelsNamed, MadeStep, IsFree, OtherTunnels, Others, HasTunnel
  <2>5. \A k \in Commands, d \in Deployments : HasTunnel(k)' => registry'[d] # call'[k].tunnel
    BY <1>d, <1>5, <2>1, <2>2 DEF TunnelsNamed, MadeStep, IsFree, HasTunnel
  <2> QED BY <2>3, <2>4, <2>5 DEF TunnelsNamed
<1>6. ASSUME NEW k \in Commands, NEW t \in Tunnels, WorkerMadeStep(k, t) PROVE TunnelsNamed'
  BY <1>d, <1>6, <1>c, <1>r DEF TunnelsNamed, WorkerMadeStep, IsFree, OtherTunnels, Others,
     HasTunnel
<1> QED BY <1>1, <1>3, <1>4, <1>5, <1>6, NamesAreKept
     DEF TunnelMove, CallerStep, WorkerMoves, CallWalks, WorkerWalks

\* A step after which no call is engaged, or has a tunnel, that was not so before.
ApartKept ==
  \A c \in Callers : /\ Engaged(c)' => Engaged(c) /\ call'[c].dep = call[c].dep
                     /\ HasTunnel(c)' => call'[c].tunnel = call[c].tunnel

LEMMA WalkingIsApart ==
  ASSUME TunnelAssumption, TunnelsTyped, WorkersTyped
  PROVE  /\ \A c \in Callers : LeaveStep(c) \/ CallWalks(c) => ApartKept
         /\ ThreadMoves \/ QuietMove => ApartKept
         /\ \A k \in Commands : WorkerWalks(k) => ApartKept
<1>i. Idle.tunnel = NoTunnel /\ Idle.at = "idle"
  BY DEF Idle
<1>1. ASSUME NEW c \in Callers, NEW to, CallGoes(c, to), to \cap {"lookup", "pop"} = {}
      PROVE  ApartKept
  BY <1>1 DEF CallGoes, ApartKept, Others, Engaged, HasTunnel
<1>2. ASSUME NEW c \in Callers, LeaveStep(c) PROVE ApartKept
  BY <1>i, <1>2 DEF LeaveStep, ApartKept, Others, Engaged, HasTunnel
<1>3. ASSUME NEW c \in Callers, CallWalks(c) PROVE ApartKept
  <2>1. CASE CheckStep(c)
    <3>1. \E to \in SUBSET {"opened", "start"} : CallGoes(c, to)
      BY <2>1 DEF CheckStep
    <3> QED BY <1>1, <3>1
  <2>2. CASE WaitedStep(c)
    <3>1. \E to \in SUBSET {"opened", "failed"} : CallGoes(c, to)
      BY <2>2 DEF WaitedStep
    <3> QED BY <1>1, <3>1
  <2>3. CASE ExpireStep(c)
    <3>1. CallGoes(c, {"stop"})
      BY <2>3 DEF ExpireStep
    <3> QED BY <1>1, <3>1
  <2>4. CASE TellStep(c)
    <3>1. CallGoes(c, {"join"})
      BY <2>4 DEF TellStep
    <3> QED BY <1>1, <3>1
  <2>5. CASE JoinStep(c)
    <3>1. CallGoes(c, {call[c].then}) /\ call[c].then \in {"failed", "closed"}
      BY <2>5, CallPlaces DEF JoinStep
    <3> QED BY <1>1, <3>1
  <2>6. ASSUME NEW w \in Threads \cup {NoThread}, StartStep(c, w) PROVE ApartKept
    <3>1. CallGoes(c, {"failed"}) \/ CallGoes(c, {"wait"})
      BY <2>6 DEF StartStep
    <3> QED BY <1>1, <3>1
  <2> QED BY <1>3, <2>1, <2>2, <2>3, <2>4, <2>5, <2>6 DEF CallWalks
<1>4. ASSUME call' = call PROVE ApartKept
  BY <1>4 DEF ApartKept, Engaged, HasTunnel
<1>5. ThreadMoves \/ QuietMove => call' = call
  BY DEF ThreadMoves, GoesStep, EndsStep, FailsStep, ListensStep, QuietMove
<1>6. ASSUME NEW k \in Commands, WorkerWalks(k) PROVE ApartKept
  <2>1. k \in Callers
    BY DEF Callers
  <2>2. CASE HoldStep(k)
    <3>1. CallGoes(k, {"held"})
      BY <2>2 DEF HoldStep
    <3> QED BY <1>1, <2>1, <3>1
  <2>3. CASE DropStep(k)
    <3>1. CallGoes(k, {"stop"})
      BY <2>3 DEF DropStep
    <3> QED BY <1>1, <2>1, <3>1
  <2>4. CASE OverStep(k) \/ DieStep(k)
    BY <1>i, <2>4 DEF OverStep, DieStep, ApartKept, Others, Engaged, HasTunnel
  <2>5. CASE CommandMoves(k)
    BY <1>4, <2>5 DEF CommandMoves
  <2> QED BY <1>6, <2>2, <2>3, <2>4, <2>5 DEF WorkerWalks
<1> QED BY <1>2, <1>3, <1>4, <1>5, <1>6

\* The tunnel of the registry is of a call only if that call is about its deployment.
LEMMA OfTheRegistry ==
  ASSUME TunnelsTyped, TunnelsNamed, CallsApart, NEW c \in Requests, Engaged(c),
         NEW o \in Callers, call[c].dep \in Deployments, HasTunnel(o),
         call[o].tunnel = registry[call[c].dep]
  PROVE  o = c
<1>1. o \in Requests
  BY DEF TunnelsNamed, Callers
<1>2. call[o].dep = call[c].dep
  BY DEF TunnelsNamed, HasTunnel
<1> QED BY <1>1, <1>2 DEF CallsApart, Engaged

LEMMA CallsApartStep ==
  ASSUME TunnelAssumption, TunnelsTyped, WorkersTyped, TunnelsNamed, CallsApart, TunnelMove, Calm'
  PROVE  CallsApart'
<1>d. \A k \in Commands : k \in Callers /\ k \notin Requests
  BY DEF Callers, TunnelAssumption
<1>e. \A c \in Requests : c \in Callers
  BY DEF Callers
<1>n. NoTunnel \notin Tunnels
  BY DEF NoTunnel, Tunnels
<1>1. ASSUME ApartKept PROVE CallsApart'
  <2>1. \A c \in Callers : HasTunnel(c)' => HasTunnel(c)
    BY <1>1 DEF ApartKept, HasTunnel
  <2> QED BY <1>1, <1>e, <2>1 DEF CallsApart, ApartKept, HasTunnel
<1>2. ASSUME NEW c \in Callers, EnterStep(c) PROVE CallsApart'
  <2>1. \A o \in Callers : HasTunnel(o)' => HasTunnel(o) /\ call'[o] = call[o] /\ o # c
    BY <1>2 DEF EnterStep, Others, HasTunnel
  <2>2. \A o \in Callers \ {c} : Engaged(o)' => Engaged(o) /\ call'[o] = call[o]
    BY <1>2 DEF EnterStep, Others, HasTunnel, Engaged
  <2>3. Engaged(c)' => \A o \in Callers \ {c} : call[o].dep # call'[c].dep
    BY <1>2 DEF EnterStep, HasTunnel, Engaged
  <2> QED BY <1>e, <2>1, <2>2, <2>3 DEF CallsApart, HasTunnel
<1>3. ASSUME NEW c \in Requests, call[c].at \in {"lookup", "pop"}, Others(c),
             call'[c].dep = call[c].dep, call'[c].tunnel = registry[call[c].dep]
      PROVE  CallsApart'
  <2>1. Engaged(c) /\ c \in Callers /\ call[c].dep \in Deployments
    BY <1>3, <1>e, CallPlaces DEF Engaged
  <2>2. \A o \in Callers : HasTunnel(o) /\ call[o].tunnel = registry[call[c].dep] => o = c
    BY <2>1, OfTheRegistry
  <2>3. \A o \in Callers \ {c} : (HasTunnel(o)' <=> HasTunnel(o)) /\ (Engaged(o)' <=> Engaged(o))
                                 /\ call'[o] = call[o]
    BY <1>3 DEF Others, HasTunnel, Engaged
  <2> QED BY <1>e, <1>3, <2>1, <2>2, <2>3 DEF CallsApart, HasTunnel
<1>4. ASSUME NEW c \in Callers, FoundStep(c) \/ PopStep(c) PROVE CallsApart'
  BY <1>3, <1>4 DEF FoundStep, PopStep
<1>5. ASSUME NEW c \in Callers, NEW t \in Tunnels, MadeStep(c, t) PROVE CallsApart'
  <2>1. Engaged(c) /\ call'[c].tunnel = t /\ call'[c].dep = call[c].dep
    BY <1>5 DEF MadeStep, Engaged
  <2>2. \A o \in Callers \ {c} : (HasTunnel(o)' <=> HasTunnel(o)) /\ (Engaged(o)' <=> Engaged(o))
                                 /\ call'[o] = call[o] /\ call[o].tunnel # t
    BY <1>5 DEF MadeStep, IsFree, Others, HasTunnel, Engaged
  <2> QED BY <1>e, <2>1, <2>2 DEF CallsApart, HasTunnel
<1>6. ASSUME NEW k \in Commands, NEW t \in Tunnels, WorkerMadeStep(k, t) PROVE CallsApart'
  <2>1. call'[k].tunnel = t
    BY <1>6 DEF WorkerMadeStep
  <2>2. \A o \in Callers \ {k} : (HasTunnel(o)' <=> HasTunnel(o)) /\ (Engaged(o)' <=> Engaged(o))
                                 /\ call'[o] = call[o] /\ call[o].tunnel # t
    BY <1>6 DEF WorkerMadeStep, IsFree, Others, HasTunnel, Engaged
  <2> QED BY <1>d, <1>e, <2>1, <2>2 DEF CallsApart, HasTunnel
<1> QED BY <1>1, <1>2, <1>4, <1>5, <1>6, WalkingIsApart DEF TunnelMove, CallerStep, WorkerMoves,
        CallWalks, WorkerWalks

\* A step that leaves tunnels and threads alone knows the threads if a call that comes to
\* start one has none.
LEMMA StillKnown ==
  ASSUME ThreadsKnown, UNCHANGED <<tunnel, thread>>,
         \A c \in Callers : call'[c].at = "start" =>
            \/ call'[c] = call[c]
            \/ \A w \in Threads : thread[w].of # call'[c].tunnel
  PROVE  ThreadsKnown'
  BY DEF ThreadsKnown, Alive

LEMMA ThreadsKnownStep ==
  ASSUME TunnelAssumption, TunnelsTyped, WorkersTyped, CallsApart, ThreadsKnown, TunnelsTyped',
         TunnelMove, Calm'
  PROVE  ThreadsKnown'
<1>d. \A k \in Commands : k \in Callers
  BY DEF Callers
<1>n. NoTunnel \notin Tunnels /\ NoThread \notin Threads /\ ~Alive(NoThread) /\ ~Alive(NoThread)'
  BY DEF NoTunnel, Tunnels, NoThread, Threads, Alive
<1>i. Idle.at = "idle" /\ Ended.of = NoTunnel /\ Ended.at = "none"
  BY DEF Idle, Ended
<1>h. \A w \in Threads : /\ Alive(w) <=> thread[w].of \in Tunnels
                         /\ thread[w].at \in {"connect", "bind", "forward", "lost"} <=> Alive(w)
  BY ThreadHas
<1>j. \A w \in Threads : /\ Alive(w)' <=> thread'[w].of \in Tunnels
                         /\ Alive(w)' <=> thread'[w] # Ended
                         /\ thread'[w].at \in {"connect", "bind", "forward", "lost"} <=> Alive(w)'
  <2>1. \A w \in Threads : IsThread(thread'[w])
    BY DEF TunnelsTyped, IsThread, Threads, Tunnels
  <2>2. \A w \in Threads : IsThread(thread'[w]) =>
           /\ thread'[w] # Ended <=> thread'[w].of \in Tunnels
           /\ thread'[w].at \in {"connect", "bind", "forward", "lost"} <=> thread'[w] # Ended
    BY <1>i, <1>n DEF IsThread
  <2>3. \A w \in Threads : Alive(w)' <=> thread'[w] # Ended
    BY <1>n DEF Alive
  <2> QED BY <2>1, <2>2, <2>3
<1>t. \A c \in Callers :
        call[c].at \in {"check", "start", "wait", "opened", "held", "stop", "join"} =>
          call[c].tunnel \in Tunnels
  BY CallPlaces
<1>1. ASSUME NEW c \in Callers,
             EnterStep(c) \/ LeaveStep(c) \/ FoundStep(c) \/ PopStep(c) \/ WaitedStep(c)
               \/ ExpireStep(c)
      PROVE  ThreadsKnown'
  <2>1. UNCHANGED <<tunnel, thread>> /\ Others(c) /\ call'[c].at # "start"
    BY <1>1, <1>i DEF EnterStep, LeaveStep, FoundStep, PopStep, WaitedStep, ExpireStep, Objects,
       CallGoes
  <2> QED BY <2>1, StillKnown DEF Others
<1>2. ASSUME NEW c \in Callers, CheckStep(c) PROVE ThreadsKnown'
  <2>1. UNCHANGED <<tunnel, thread>> /\ Others(c) /\ call'[c].tunnel = call[c].tunnel
    BY <1>2 DEF CheckStep, CallGoes, Objects
  <2>2. ASSUME call'[c].at = "start", NEW w \in Threads, thread[w].of = call'[c].tunnel
        PROVE  FALSE
    <3>1. call[c].tunnel \in Tunnels
      BY <1>2, <1>t DEF CheckStep
    <3>2. Alive(w) /\ tunnel[call[c].tunnel].thread = w
      BY <1>h, <2>1, <2>2, <3>1 DEF ThreadsKnown
    <3> QED BY <1>2, <2>2, <3>2 DEF CheckStep, CallGoes
  <2> QED BY <2>1, <2>2, StillKnown DEF Others
<1>3. ASSUME NEW c \in Callers, NEW t \in Tunnels,
             MadeStep(c, t) \/ (c \in Commands /\ WorkerMadeStep(c, t))
      PROVE  ThreadsKnown'
  <2>1. /\ thread' = thread /\ OtherTunnels(t) /\ IsFree(t) /\ Others(c) /\ call'[c].at = "check"
    BY <1>3 DEF MadeStep, WorkerMadeStep
  <2>2. \A w \in Threads : Alive(w) => thread[w].of \in Tunnels \ {t}
    BY <1>h, <2>1 DEF IsFree
  <2>3. \A w \in Threads : Alive(w)' <=> Alive(w)
    BY <2>1 DEF Alive
  <2> QED BY <1>h, <2>1, <2>2, <2>3 DEF ThreadsKnown, OtherTunnels, Others
<1>4. ASSUME NEW c \in Callers, NEW x \in Threads \cup {NoThread}, StartStep(c, x)
      PROVE  ThreadsKnown'
  <2> DEFINE t == call[c].tunnel
  <2>1. t \in Tunnels /\ OtherTunnels(t) /\ tunnel'[t].thread = x /\ OtherThreads(x)
        /\ Others(c) /\ call'[c].at # "start"
    BY <1>4, <1>t DEF StartStep, CallGoes
  <2>2. x \in Threads => thread'[x].of = t /\ thread'[x].at = "connect"
    BY <1>4, <1>n DEF StartStep
  <2>3. \A w \in Threads : thread[w].of # t
    BY <1>4 DEF StartStep, ThreadsKnown
  <2>4. \A w \in Threads \ {x} : thread'[w] = thread[w]
    BY <2>1 DEF OtherThreads
  <2>5. \A w \in Threads \ {x} : Alive(w)' => Alive(w) /\ thread[w].of \in Tunnels \ {t}
    BY <1>h, <1>j, <2>3, <2>4
  <2>6. \A o \in Callers : call'[o].at = "start" => call'[o] = call[o] /\ call[o].tunnel # t
    <3>1. \A o \in Callers \ {c} : call[o].at = "start" => HasTunnel(o)
      BY CallPlaces
    <3> QED BY <2>1, <3>1 DEF Others, CallsApart
  <2> HIDE DEF t
  <2>7. \A w \in Threads : Alive(w)' => tunnel'[thread'[w].of].thread = w
    <3>1. \A w \in Threads \ {x} : Alive(w)' => tunnel'[thread'[w].of].thread = w
      BY <2>1, <2>4, <2>5 DEF ThreadsKnown, OtherTunnels
    <3> QED BY <2>1, <2>2, <3>1
  <2>8. \A w \in Threads : thread'[w].at = "forward" =>
            tunnel'[thread'[w].of].local = thread'[w].port
    <3>1. \A w \in Threads \ {x} : thread'[w].at = "forward" =>
            tunnel'[thread'[w].of].local = thread'[w].port
      BY <1>j, <2>1, <2>4, <2>5 DEF ThreadsKnown, OtherTunnels
    <3> QED BY <2>2, <3>1
  <2>9. \A o \in Callers, w \in Threads : call'[o].at = "start" => thread'[w].of # call'[o].tunnel
    BY <2>2, <2>4, <2>6 DEF ThreadsKnown
  <2> QED BY <2>7, <2>8, <2>9 DEF ThreadsKnown
<1>5. ASSUME NEW c \in Callers, TellStep(c) PROVE ThreadsKnown'
  <2>1. /\ thread' = thread /\ Others(c) /\ call'[c].at # "start"
        /\ \A u \in Tunnels : SameThread(u) /\ SamePort(u)
    BY <1>5 DEF TellStep, CallGoes, OtherTunnels, SameThread, SamePort
  <2>2. \A w \in Threads : Alive(w)' <=> Alive(w)
    BY <2>1 DEF Alive
  <2> QED BY <1>h, <2>1, <2>2 DEF ThreadsKnown, SameThread, SamePort, Others
<1>6. ASSUME NEW c \in Callers, JoinStep(c) PROVE ThreadsKnown'
  <2> DEFINE t == call[c].tunnel
  <2>1. /\ thread' = thread /\ Others(c) /\ OtherTunnels(t) /\ ~Alive(tunnel[t].thread)
        /\ call'[c].at # "start"
    BY <1>6, CallPlaces DEF JoinStep, CallGoes
  <2>2. \A w \in Threads : Alive(w) => thread[w].of \in Tunnels \ {t}
    BY <1>h, <2>1 DEF ThreadsKnown
  <2>3. \A w \in Threads : Alive(w)' <=> Alive(w)
    BY <2>1 DEF Alive
  <2> HIDE DEF t
  <2> QED BY <1>h, <2>1, <2>2, <2>3 DEF ThreadsKnown, OtherTunnels, Others
<1>7. ASSUME NEW x \in Threads, GoesStep(x) \/ EndsStep(x) \/ FailsStep(x) \/ ListensStep(x)
      PROVE  ThreadsKnown'
  <2>1. call' = call /\ OtherThreads(x) /\ Alive(x)
    BY <1>7 DEF GoesStep, EndsStep, FailsStep, ListensStep
  <2>2. \A u \in Tunnels : SameThread(u)
    BY <1>7 DEF GoesStep, EndsStep, FailsStep, ListensStep, OtherTunnels, SameThread
  <2>3. thread'[x].of \in {thread[x].of, NoTunnel}
    BY <1>7, <1>i DEF GoesStep, EndsStep, FailsStep, ListensStep
  <2>4. \A w \in Threads : thread'[w].of \in {thread[w].of, NoTunnel}
    BY <2>1, <2>3 DEF OtherThreads
  <2>5. \A w \in Threads : Alive(w)' => Alive(w) /\ thread'[w].of = thread[w].of
                                      /\ thread[w].of \in Tunnels
    BY <1>h, <1>j, <1>n, <2>1, <2>4
  <2>6. \A w \in Threads : Alive(w)' => tunnel'[thread'[w].of].thread = w
    BY <2>2, <2>5 DEF ThreadsKnown, SameThread
  <2>7. \A w \in Threads \ {x} : thread'[w].at = "forward" =>
            tunnel'[thread'[w].of].local = thread'[w].port
    <3>1. \A w \in Threads \ {x} : Alive(w)' => thread[w].of # thread[x].of
      BY <2>1, <2>5 DEF ThreadsKnown
    <3>2. \A u \in Tunnels \ {thread[x].of} : SamePort(u)
      BY <1>7 DEF GoesStep, EndsStep, FailsStep, ListensStep, OtherTunnels, SamePort
    <3> QED BY <1>j, <2>1, <2>5, <3>1, <3>2 DEF ThreadsKnown, SamePort, OtherThreads
  <2>8. thread'[x].at = "forward" => tunnel'[thread'[x].of].local = thread'[x].port
    BY <1>7, <1>i DEF GoesStep, EndsStep, FailsStep, ListensStep
  <2>9. \A o \in Callers, w \in Threads : call'[o].at = "start" => thread'[w].of # call'[o].tunnel
    BY <1>n, <1>t, <2>1, <2>4 DEF ThreadsKnown
  <2> QED BY <2>6, <2>7, <2>8, <2>9 DEF ThreadsKnown
<1>8. ASSUME NEW k \in Commands, HoldStep(k) \/ DropStep(k) \/ OverStep(k) PROVE ThreadsKnown'
  <2>1. UNCHANGED <<tunnel, thread>> /\ Others(k) /\ call'[k].at # "start"
    BY <1>8, <1>i DEF HoldStep, DropStep, OverStep, Objects, CallGoes
  <2> QED BY <2>1, StillKnown DEF Others
<1>9. ASSUME NEW k \in Commands, DieStep(k) PROVE ThreadsKnown'
  <2>1. tunnel' = tunnel /\ Others(k) /\ call'[k].at # "start"
    BY <1>9, <1>i DEF DieStep
  <2>2. \A w \in Threads : thread'[w] \in {thread[w], Ended}
    BY <1>9 DEF DieStep
  <2>3. \A w \in Threads : Alive(w)' => Alive(w) /\ thread'[w] = thread[w]
    BY <1>j, <1>n, <2>2 DEF Alive
  <2>4. \A o \in Callers, w \in Threads : call'[o].at = "start" => thread'[w].of # call'[o].tunnel
    BY <1>n, <1>t, <1>i, <2>1, <2>2 DEF ThreadsKnown, Others
  <2> QED BY <1>j, <2>1, <2>3, <2>4 DEF ThreadsKnown
<1>10. ASSUME UNCHANGED <<tunnel, thread, call>> PROVE ThreadsKnown'
  BY <1>10, StillKnown
<1> QED BY <1>1, <1>2, <1>3, <1>4, <1>5, <1>6, <1>7, <1>8, <1>9, <1>10, <1>d
     DEF TunnelMove, CallerStep, ThreadMoves, WorkerMoves, CommandMoves, QuietMove, Objects

\* A tunnel that someone has: the registry, or a call.
Had(t) == \/ \E d \in Deployments : registry[d] = t
          \/ \E c \in Callers : call[c].tunnel = t

\* A call that still opens did so before, and its deployment's tunnel is still its own.
OpeningHeld ==
  \A c \in Requests : Opening(c) /\ HasTunnel(c) => registry[call[c].dep] = call[c].tunnel
StopsTold ==
  \A c \in Callers :
    call[c].at = "join" \/ (call[c].at = "closed" /\ HasTunnel(c)) => tunnel[call[c].tunnel].stop
ThreadsHad ==
  \A w \in Threads : Alive(w) /\ ~tunnel[thread[w].of].stop => Had(thread[w].of)

LEMMA TunnelsHeldParts == TunnelsHeld <=> OpeningHeld /\ StopsTold /\ ThreadsHad
  BY DEF TunnelsHeld, OpeningHeld, StopsTold, ThreadsHad, Had

LEMMA OpeningHeldStep ==
  ASSUME TunnelAssumption, TunnelsTyped, WorkersTyped, CallsApart, OpeningHeld, TunnelMove
  PROVE  OpeningHeld'
<1>d. \A k \in Commands : k \in Callers /\ k \notin Requests
  BY DEF Callers, TunnelAssumption
<1>e. \A c \in Requests : c \in Callers
  BY DEF Callers
<1>i. Idle.at = "idle"
  BY DEF Idle
<1>1. ASSUME registry' = registry,
             \A c \in Requests : Opening(c)' /\ HasTunnel(c)' =>
               \/ Opening(c) /\ call'[c].tunnel = call[c].tunnel /\ call'[c].dep = call[c].dep
               \/ registry[call'[c].dep] = call'[c].tunnel
      PROVE  OpeningHeld'
  BY <1>1 DEF OpeningHeld, HasTunnel
<1>2. ASSUME NEW c \in Callers, registry' = registry, Others(c),
             call'[c].tunnel = call[c].tunnel, call'[c].dep = call[c].dep,
             Opening(c)' => Opening(c)
      PROVE  OpeningHeld'
  BY <1>1, <1>2, <1>e DEF Others, Opening
<1>3. ASSUME NEW c \in Callers, EnterStep(c) \/ LeaveStep(c) \/ FoundStep(c) PROVE OpeningHeld'
  BY <1>1, <1>3, <1>e, <1>i DEF EnterStep, LeaveStep, FoundStep, Others, Opening, Objects, HasTunnel
<1>4. ASSUME NEW c \in Callers, CheckStep(c) \/ WaitedStep(c) \/ ExpireStep(c) PROVE OpeningHeld'
  BY <1>2, <1>4 DEF CheckStep, WaitedStep, ExpireStep, CallGoes, Opening, Objects
<1>5. ASSUME NEW c \in Callers, TellStep(c) PROVE OpeningHeld'
  BY <1>2, <1>5 DEF TellStep, CallGoes, Opening
<1>6. ASSUME NEW c \in Callers, JoinStep(c) PROVE OpeningHeld'
  <2>1. call[c].then \in {"failed", "closed"}
    BY <1>6, CallPlaces DEF JoinStep
  <2> QED BY <1>2, <1>6, <2>1 DEF JoinStep, CallGoes, Opening
<1>7. ASSUME NEW c \in Callers, NEW w \in Threads \cup {NoThread}, StartStep(c, w)
      PROVE  OpeningHeld'
  BY <1>2, <1>7 DEF StartStep, CallGoes, Opening
<1>8. ASSUME NEW c \in Callers, NEW t,
             c \in Requests, call[c].at \in {"lookup", "pop"}, Others(c),
             registry' = [registry EXCEPT ![call[c].dep] = t],
             \/ ~Opening(c)'
             \/ call'[c].dep = call[c].dep /\ call'[c].tunnel = t
      PROVE  OpeningHeld'
  <2>1. Engaged(c) /\ call[c].dep \in Deployments
    BY <1>8, CallPlaces DEF Engaged
  <2>2. ASSUME NEW o \in Requests \ {c}, Opening(o)', HasTunnel(o)'
        PROVE  registry'[call'[o].dep] = call'[o].tunnel
    <3>1. call'[o] = call[o] /\ Opening(o) /\ HasTunnel(o) /\ o \in Callers
      BY <1>8, <1>e, <2>2 DEF Others, Opening, HasTunnel
    <3>2. call[o].dep \in Deployments /\ call[o].dep # call[c].dep
      BY <1>8, <2>1, <3>1, CallPlaces DEF CallsApart, Engaged
    <3> QED BY <1>8, <3>1, <3>2 DEF OpeningHeld, TunnelsTyped
  <2>3. Opening(c)' => registry'[call'[c].dep] = call'[c].tunnel
    BY <1>8, <2>1 DEF TunnelsTyped
  <2> QED BY <2>2, <2>3 DEF OpeningHeld
<1>9. ASSUME NEW c \in Callers, NEW t \in Tunnels, MadeStep(c, t) PROVE OpeningHeld'
  BY <1>8, <1>9 DEF MadeStep
<1>10. ASSUME NEW c \in Callers, PopStep(c) PROVE OpeningHeld'
  <2>1. ~Opening(c)'
    BY <1>10 DEF PopStep, Opening
  <2> QED BY <1>8, <1>10, <2>1 DEF PopStep
<1>11. ASSUME registry' = registry, \A c \in Requests : call'[c] = call[c] PROVE OpeningHeld'
  BY <1>1, <1>11 DEF Opening
<1>12. ASSUME NEW k \in Commands, registry' = registry, Others(k) PROVE OpeningHeld'
  BY <1>11, <1>12, <1>d, <1>e DEF Others
<1>13. ASSUME NEW k \in Commands, WorkerWalks(k) \/ \E t \in Tunnels : WorkerMadeStep(k, t)
       PROVE  OpeningHeld'
  BY <1>11, <1>12, <1>13 DEF WorkerWalks, HoldStep, DropStep, OverStep, DieStep, CommandMoves,
     WorkerMadeStep, CallGoes, Objects
<1>14. ThreadMoves \/ QuietMove => OpeningHeld'
  BY <1>11 DEF ThreadMoves, GoesStep, EndsStep, FailsStep, ListensStep, QuietMove, Objects
<1> QED BY <1>3, <1>4, <1>5, <1>6, <1>7, <1>9, <1>10, <1>13, <1>14
     DEF TunnelMove, CallerStep, WorkerMoves, WorkerWalks

LEMMA StopsToldStep ==
  ASSUME TunnelAssumption, TunnelsTyped, WorkersTyped, CallsApart, StopsTold, TunnelMove
  PROVE  StopsTold'
<1>i. Idle.at = "idle" /\ NoTunnel \notin Tunnels
  BY DEF Idle, NoTunnel, Tunnels
<1>t. \A c \in Callers : /\ HasTunnel(c) => call[c].tunnel \in Tunnels
                         /\ call[c].at = "join" => HasTunnel(c)
  BY CallPlaces
<1>1. ASSUME \A u \in Tunnels : SameStop(u),
             \A c \in Callers : call'[c].at = "join" \/ (call'[c].at = "closed" /\ HasTunnel(c)') =>
               /\ call'[c].tunnel = call[c].tunnel
               /\ call[c].at = "join" \/ (call[c].at = "closed" /\ HasTunnel(c))
      PROVE  StopsTold'
  BY <1>1, <1>t DEF StopsTold, SameStop
<1>2. ASSUME NEW c \in Callers, tunnel' = tunnel, Others(c),
             call'[c].at # "join", call'[c].at = "closed" => ~HasTunnel(c)'
      PROVE  StopsTold'
  BY <1>1, <1>2 DEF Others, HasTunnel, SameStop
<1>3. ASSUME NEW c \in Callers,
             EnterStep(c) \/ LeaveStep(c) \/ FoundStep(c) \/ CheckStep(c) \/ WaitedStep(c)
               \/ ExpireStep(c)
      PROVE  StopsTold'
  BY <1>2, <1>3, <1>i DEF EnterStep, LeaveStep, FoundStep, CheckStep, WaitedStep, ExpireStep,
     CallGoes, Objects
<1>4. ASSUME NEW c \in Callers, PopStep(c) PROVE StopsTold'
  <2>1. call'[c].at # "join" /\ (call'[c].at = "closed" => ~HasTunnel(c)')
    BY <1>4 DEF PopStep, HasTunnel
  <2> QED BY <1>2, <1>4, <2>1 DEF PopStep
<1>5. ASSUME NEW c \in Callers, NEW t \in Tunnels,
             MadeStep(c, t) \/ (c \in Commands /\ WorkerMadeStep(c, t))
      PROVE  StopsTold'
  <2>1. OtherTunnels(t) /\ IsFree(t) /\ Others(c) /\ call'[c].at = "check"
    BY <1>5 DEF MadeStep, WorkerMadeStep
  <2> QED BY <1>t, <2>1 DEF StopsTold, OtherTunnels, IsFree, Others, HasTunnel
<1>6. ASSUME NEW c \in Callers, NEW w \in Threads \cup {NoThread}, StartStep(c, w)
      PROVE  StopsTold'
  <2>1. /\ OtherTunnels(call[c].tunnel) /\ Others(c) /\ call'[c].at \in {"wait", "failed"}
        /\ HasTunnel(c)
    BY <1>6, CallPlaces DEF StartStep, CallGoes
  <2>2. \A o \in Callers \ {c} : HasTunnel(o) => call[o].tunnel \in Tunnels \ {call[c].tunnel}
    BY <1>t, <2>1 DEF CallsApart
  <2> QED BY <1>t, <2>1, <2>2 DEF StopsTold, OtherTunnels, Others, HasTunnel
<1>7. ASSUME NEW c \in Callers, TellStep(c) PROVE StopsTold'
  <2>1. /\ OtherTunnels(call[c].tunnel) /\ Others(c) /\ tunnel'[call[c].tunnel].stop
        /\ call'[c].tunnel = call[c].tunnel
    BY <1>7 DEF TellStep, CallGoes
  <2> QED BY <1>t, <2>1 DEF StopsTold, OtherTunnels, Others, HasTunnel
<1>8. ASSUME NEW c \in Callers, JoinStep(c) PROVE StopsTold'
  <2>1. \A u \in Tunnels : SameStop(u)
    BY <1>8 DEF JoinStep, OtherTunnels, SameStop
  <2>2. Others(c) /\ call'[c].tunnel = call[c].tunnel /\ call[c].at = "join"
    BY <1>8 DEF JoinStep, CallGoes
  <2> QED BY <1>1, <2>1, <2>2 DEF Others, HasTunnel
<1>9. ASSUME call' = call, \A u \in Tunnels : SameStop(u) PROVE StopsTold'
  BY <1>1, <1>9 DEF HasTunnel
<1>10. ThreadMoves => StopsTold'
  BY <1>9 DEF ThreadMoves, GoesStep, EndsStep, FailsStep, ListensStep, OtherTunnels, SameStop
<1>11. ASSUME NEW k \in Commands, WorkerWalks(k) PROVE StopsTold'
  BY <1>2, <1>9, <1>11, <1>i DEF WorkerWalks, HoldStep, DropStep, OverStep, DieStep, CommandMoves,
     CallGoes, Objects, SameStop, Callers
<1>12. QuietMove => StopsTold'
  BY <1>9 DEF QuietMove, Objects, SameStop
<1> QED BY <1>3, <1>4, <1>5, <1>6, <1>7, <1>8, <1>10, <1>11, <1>12
     DEF TunnelMove, CallerStep, WorkerMoves, WorkerWalks, Callers

HadNext(t) == \/ \E d \in Deployments : registry'[d] = t
              \/ \E c \in Callers : call'[c].tunnel = t

LEMMA ThreadsHadStep ==
  ASSUME TunnelAssumption, TunnelsTyped, WorkersTyped, ThreadsKnown, TunnelsHeld, TunnelsTyped',
         TunnelMove
  PROVE  ThreadsHad'
<1>d. /\ \A k \in Commands : k \in Callers
      /\ \A c \in Requests : c \in Callers
  BY DEF Callers
<1>n. NoTunnel \notin Tunnels /\ NoThread \notin Threads
  BY DEF NoTunnel, Tunnels, NoThread, Threads
<1>i. Idle.tunnel = NoTunnel /\ Idle.at = "idle" /\ Ended.of = NoTunnel
  BY DEF Idle, Ended
<1>h. \A w \in Threads : Alive(w) <=> thread[w].of \in Tunnels
  BY ThreadHas
<1>j. \A w \in Threads : (Alive(w)' <=> thread'[w].of \in Tunnels)
                         /\ thread'[w].of \in Tunnels \cup {NoTunnel}
  <2>1. \A w \in Threads : IsThread(thread'[w])
    BY DEF TunnelsTyped, IsThread, Threads, Tunnels
  <2>2. \A w \in Threads : IsThread(thread'[w]) =>
           /\ thread'[w] # Ended <=> thread'[w].of \in Tunnels
           /\ thread'[w].of \in Tunnels \cup {NoTunnel}
    BY <1>i, <1>n DEF IsThread
  <2>3. \A w \in Threads : Alive(w)' <=> thread'[w] # Ended
    BY <1>n DEF Alive
  <2> QED BY <2>1, <2>2, <2>3
<1>w. \A w \in Threads : thread[w].of \in Tunnels /\ ~tunnel[thread[w].of].stop => Had(thread[w].of)
  BY <1>h DEF TunnelsHeld, Had
\* a thread that was there, whose tunnel is told to stop if it was before
<1>1. ASSUME \A w \in Threads :
               thread'[w].of \in Tunnels =>
                 \/ HadNext(thread'[w].of)
                 \/ tunnel'[thread'[w].of].stop
                 \/ /\ thread[w].of = thread'[w].of
                    /\ tunnel[thread[w].of].stop => tunnel'[thread[w].of].stop
                    /\ Had(thread[w].of) => HadNext(thread[w].of)
      PROVE  ThreadsHad'
  <2>1. ASSUME NEW w \in Threads, Alive(w)', ~tunnel'[thread'[w].of].stop
        PROVE  HadNext(thread'[w].of)
    <3>1. thread'[w].of \in Tunnels
      BY <1>j, <2>1
    <3> QED BY <1>1, <1>w, <2>1, <3>1
  <2> QED BY <2>1 DEF ThreadsHad, Had, HadNext
<1>2. ASSUME registry' = registry, \A c \in Callers : call'[c].tunnel = call[c].tunnel,
             \A u \in Tunnels : tunnel[u].stop => tunnel'[u].stop,
             \A w \in Threads : thread'[w].of \in {thread[w].of, NoTunnel}
      PROVE  ThreadsHad'
  <2>1. \A t : Had(t) <=> HadNext(t)
    BY <1>2 DEF Had, HadNext
  <2> QED BY <1>1, <1>2, <1>n, <2>1
\* a call that lets go of its tunnel, which is told to stop or in the registry
<1>3. ASSUME NEW c \in Callers, registry' = registry, Others(c), tunnel' = tunnel,
             \A w \in Threads : thread'[w] = thread[w],
             HasTunnel(c) => \/ tunnel[call[c].tunnel].stop
                             \/ \E d \in Deployments : registry[d] = call[c].tunnel
      PROVE  ThreadsHad'
  <2>1. ASSUME NEW t \in Tunnels, Had(t), ~tunnel[t].stop PROVE HadNext(t)
    <3>1. CASE \E d \in Deployments : registry[d] = t
      BY <1>3, <3>1 DEF Had, HadNext
    <3>2. ASSUME NEW o \in Callers \ {c}, call[o].tunnel = t PROVE HadNext(t)
      BY <1>3, <3>2 DEF Had, HadNext, Others
    <3>3. CASE call[c].tunnel = t
      BY <1>3, <1>n, <2>1, <3>3 DEF Had, HadNext, HasTunnel
    <3> QED BY <2>1, <3>1, <3>2, <3>3 DEF Had, HadNext
  <2> QED BY <1>1, <1>3, <1>w, <2>1
<1>4. ASSUME NEW c \in Callers, EnterStep(c) PROVE ThreadsHad'
  <2>1. UNCHANGED <<registry, tunnel, thread>> /\ call[c].tunnel = call'[c].tunnel /\ Others(c)
    BY <1>4, <1>i DEF EnterStep, Objects
  <2> QED BY <1>2, <2>1 DEF Others
<1>5. ASSUME NEW c \in Callers, LeaveStep(c) PROVE ThreadsHad'
  <2>1. UNCHANGED <<registry, tunnel, thread>> /\ Others(c) /\ c \in Requests
        /\ call[c].at \in {"opened", "failed", "closed"}
    BY <1>5 DEF LeaveStep, Objects
  <2>2. HasTunnel(c) => \/ tunnel[call[c].tunnel].stop
                        \/ \E d \in Deployments : registry[d] = call[c].tunnel
    <3>1. HasTunnel(c) => call[c].dep \in Deployments
      BY CallPlaces
    <3> QED BY <2>1, <3>1 DEF TunnelsHeld, Opening
  <2> QED BY <1>3, <2>1, <2>2
<1>6. ASSUME NEW c \in Callers, FoundStep(c) \/ CheckStep(c) \/ WaitedStep(c) \/ ExpireStep(c)
      PROVE  ThreadsHad'
  <2>1. /\ UNCHANGED <<registry, tunnel, thread>> /\ Others(c)
        /\ call'[c].tunnel = call[c].tunnel \/ call[c].tunnel = NoTunnel
    BY <1>6, CallPlaces DEF FoundStep, CheckStep, WaitedStep, ExpireStep, CallGoes, Objects
  <2>2. \A t \in Tunnels : Had(t) => HadNext(t)
    BY <1>n, <2>1 DEF Had, HadNext, Others
  <2> QED BY <1>1, <2>1, <2>2
<1>7. ASSUME NEW c \in Callers, PopStep(c) PROVE ThreadsHad'
  <2>1. /\ UNCHANGED <<tunnel, thread>> /\ Others(c) /\ call[c].tunnel = NoTunnel
        /\ call[c].dep \in Deployments /\ call'[c].tunnel = registry[call[c].dep]
        /\ \A d \in Deployments \ {call[c].dep} : registry'[d] = registry[d]
    BY <1>7, CallPlaces DEF PopStep, TunnelsTyped
  <2>2. \A t \in Tunnels : Had(t) => HadNext(t)
    BY <1>n, <2>1 DEF Had, HadNext, Others
  <2> QED BY <1>1, <2>1, <2>2
<1>8. ASSUME NEW c \in Callers, NEW t \in Tunnels,
             MadeStep(c, t) \/ (c \in Commands /\ WorkerMadeStep(c, t))
      PROVE  ThreadsHad'
  <2>1. /\ thread' = thread /\ OtherTunnels(t) /\ IsFree(t) /\ Others(c)
        /\ \A d \in Deployments : registry[d] # NoTunnel => registry'[d] = registry[d]
    BY <1>8, <1>i, CallPlaces DEF MadeStep, WorkerMadeStep, TunnelsTyped
  <2>2. call[c].tunnel = NoTunnel
    BY <1>8, <1>i, CallPlaces DEF MadeStep, WorkerMadeStep
  <2>3. \A u \in Tunnels : Had(u) => HadNext(u)
    BY <1>n, <2>1, <2>2 DEF Had, HadNext, Others
  <2> QED BY <1>1, <2>1, <2>3 DEF IsFree, OtherTunnels
<1>9. ASSUME NEW c \in Callers, NEW x \in Threads \cup {NoThread}, StartStep(c, x)
      PROVE  ThreadsHad'
  <2> DEFINE t == call[c].tunnel
  <2>1. /\ registry' = registry /\ OtherTunnels(t) /\ OtherThreads(x) /\ Others(c)
        /\ call'[c].tunnel = t
        /\ (x \in Threads => thread'[x].of = t)
    BY <1>9, <1>n DEF StartStep, CallGoes
  <2>2. \A w \in Threads : thread[w].of # t
    BY <1>9 DEF StartStep, ThreadsKnown
  <2>3. \A u : Had(u) <=> HadNext(u)
    BY <2>1 DEF Had, HadNext, Others
  <2>4. HadNext(t)
    BY <2>1 DEF Had, HadNext
  <2> HIDE DEF t
  <2>5. ASSUME NEW w \in Threads \ {x}
        PROVE  thread'[w] = thread[w] /\ thread[w].of # t
    BY <2>1, <2>2 DEF OtherThreads
  <2>6. ASSUME NEW w \in Threads, thread'[w].of \in Tunnels
        PROVE  HadNext(thread'[w].of) \/
                 (/\ thread[w].of = thread'[w].of
                  /\ tunnel[thread[w].of].stop => tunnel'[thread[w].of].stop
                  /\ Had(thread[w].of) => HadNext(thread[w].of))
    <3>1. CASE w = x
      BY <2>1, <2>4, <3>1
    <3>2. CASE w # x
      BY <2>1, <2>3, <2>5, <2>6, <3>2 DEF OtherTunnels
    <3> QED BY <3>1, <3>2
  <2> QED BY <1>1, <2>6
<1>10. ASSUME NEW c \in Callers, TellStep(c) \/ JoinStep(c) PROVE ThreadsHad'
  <2>1. /\ UNCHANGED <<registry, thread>> /\ Others(c) /\ call'[c].tunnel = call[c].tunnel
        /\ \A u \in Tunnels : tunnel[u].stop => tunnel'[u].stop
    BY <1>10 DEF TellStep, JoinStep, CallGoes, OtherTunnels, SameStop
  <2> QED BY <1>2, <2>1 DEF Others
<1>11. ASSUME NEW x \in Threads, GoesStep(x) \/ EndsStep(x) \/ FailsStep(x) \/ ListensStep(x)
       PROVE  ThreadsHad'
  <2>1. /\ UNCHANGED <<registry, call>> /\ OtherThreads(x)
        /\ thread'[x].of \in {thread[x].of, NoTunnel}
    BY <1>11, <1>i DEF GoesStep, EndsStep, FailsStep, ListensStep
  <2>2. \A u \in Tunnels : tunnel[u].stop => tunnel'[u].stop
    BY <1>11 DEF GoesStep, EndsStep, FailsStep, ListensStep, SameStop, OtherTunnels
  <2> QED BY <1>2, <2>1, <2>2 DEF OtherThreads
<1>12. ASSUME NEW k \in Commands, HoldStep(k) \/ DropStep(k) PROVE ThreadsHad'
  <2>1. UNCHANGED <<registry, tunnel, thread>> /\ Others(k) /\ call'[k].tunnel = call[k].tunnel
    BY <1>12 DEF HoldStep, DropStep, CallGoes, Objects
  <2> QED BY <1>2, <2>1 DEF Others
<1>13. ASSUME NEW k \in Commands, OverStep(k) PROVE ThreadsHad'
  <2>1. UNCHANGED <<registry, tunnel, thread>> /\ Others(k) /\ call[k].at = "closed"
    BY <1>13 DEF OverStep, Objects
  <2>2. HasTunnel(k) => tunnel[call[k].tunnel].stop
    BY <1>d, <2>1 DEF TunnelsHeld
  <2> QED BY <1>3, <1>d, <2>1, <2>2
<1>14. ASSUME NEW k \in Commands, DieStep(k) PROVE ThreadsHad'
  <2>1. UNCHANGED <<registry, tunnel>> /\ Others(k)
    BY <1>14 DEF DieStep
  <2>2. ASSUME NEW w \in Threads, thread'[w].of \in Tunnels
        PROVE  thread'[w] = thread[w] /\ thread[w].of # call[k].tunnel
    BY <1>14, <1>i, <1>n, <2>2 DEF DieStep
  <2>3. \A u \in Tunnels : u # call[k].tunnel /\ Had(u) => HadNext(u)
    BY <2>1 DEF Had, HadNext, Others
  <2> QED BY <1>1, <2>1, <2>2, <2>3
<1>15. ASSUME UNCHANGED <<registry, tunnel, thread, call>> PROVE ThreadsHad'
  BY <1>2, <1>15
<1> QED BY <1>4, <1>5, <1>6, <1>7, <1>8, <1>9, <1>10, <1>11, <1>12, <1>13, <1>14, <1>15, <1>d
     DEF TunnelMove, CallerStep, ThreadMoves, WorkerMoves, CommandMoves, QuietMove, Objects

OneWorker ==
  \A k, o \in Commands : Running(k) /\ Running(o) /\ command[k].dep = command[o].dep => k = o

LEMMA OneWorkerStep ==
  ASSUME TunnelsTyped, WorkersTyped, OneWorker, TunnelMove, Calm'
  PROVE  OneWorker'
<1>1. ASSUME UNCHANGED <<worker, command>> PROVE OneWorker'
  BY <1>1 DEF OneWorker, Running
<1>2. ASSUME NEW k \in Commands, UNCHANGED command, Running(k),
             \A o \in Commands \ {k} : worker'[o] = worker[o]
      PROVE  OneWorker'
  BY <1>2 DEF OneWorker, Running
<1>3. ASSUME NEW k \in Commands,
             HoldStep(k) \/ DropStep(k) \/ OverStep(k) \/ DieStep(k)
               \/ \E t \in Tunnels : WorkerMadeStep(k, t)
      PROVE  OneWorker'
  BY <1>2, <1>3 DEF HoldStep, DropStep, OverStep, DieStep, WorkerMadeStep, WorkerGoes, Running,
     WorkersTyped
<1>4. ASSUME NEW k \in Commands, CommandMoves(k) PROVE OneWorker'
  <2>1. \A y \in Commands \ {k} : command'[y] = command[y] /\ (Running(y)' <=> Running(y))
    BY <1>4 DEF CommandMoves, Running
  <2>2. CASE Running(k)' /\ Running(k)
    <3>1. command'[k].dep = command[k].dep
      BY <1>4, <2>2 DEF CommandMoves, Running
    <3> QED BY <2>1, <2>2, <3>1 DEF OneWorker
  <2>3. CASE Running(k)' /\ ~Running(k)
    <3>1. \A y \in Commands \ {k} : Running(y) => command[y].dep # command'[k].dep
      BY <1>4, <2>3 DEF CommandMoves, Running
    <3> QED BY <2>1, <3>1 DEF OneWorker
  <2>4. CASE ~Running(k)'
    BY <2>1, <2>4 DEF OneWorker
  <2> QED BY <2>2, <2>3, <2>4
<1>5. ASSUME NEW c \in Callers,
             \/ EnterStep(c) \/ LeaveStep(c) \/ FoundStep(c) \/ PopStep(c) \/ CallWalks(c)
             \/ \E t \in Tunnels : MadeStep(c, t)
      PROVE  OneWorker'
  <2>1. UNCHANGED Filed
    BY <1>5 DEF EnterStep, LeaveStep, FoundStep, PopStep, CallWalks, CheckStep, WaitedStep,
       ExpireStep, TellStep, JoinStep, StartStep, MadeStep
  <2> QED BY <1>1, <2>1 DEF Filed
<1>6. ThreadMoves \/ QuietMove => UNCHANGED Filed
  BY DEF ThreadMoves, GoesStep, EndsStep, FailsStep, ListensStep, QuietMove
<1> QED BY <1>1, <1>3, <1>4, <1>5, <1>6 DEF TunnelMove, CallerStep, WorkerMoves, CallWalks, Filed

\* What a worker tells is still so if no one touched its tunnel and its file, and the thread
\* of its tunnel, if it is up, still is.
LEMMA StillTells ==
  ASSUME NEW k \in Commands, WorkerTells(k), call'[k] = call[k],
         tunnel'[call[k].tunnel] = tunnel[call[k].tunnel],
         call[k].at \in {"wait", "opened", "held"} /\ IsUp(call[k].tunnel) =>
           IsUp(call[k].tunnel)',
         worker'[k] = "loop" =>
           /\ worker[k] = "loop" /\ command'[k].dep = command[k].dep
           /\ stateFile'[command[k].dep] = stateFile[command[k].dep]
  PROVE  WorkerTells(k)'
  BY DEF WorkerTells, Told

LEMMA StillUp ==
  ASSUME NEW t \in Tunnels, IsUp(t), tunnel'[t] = tunnel[t],
         thread'[tunnel[t].thread] = thread[tunnel[t].thread]
  PROVE  IsUp(t)'
  BY DEF IsUp, Alive

\* Nor does it tell of anything while its call does not wait for its tunnel.
LEMMA NothingToTell ==
  ASSUME NEW k \in Commands, call'[k].at \notin {"check", "wait", "opened", "held"},
         worker'[k] # "loop"
  PROVE  WorkerTells(k)'
  BY DEF WorkerTells

\* A step of another call, or of another worker.
LEMMA OthersTell ==
  ASSUME TunnelAssumption, TunnelsTyped, WorkersTyped, CallsApart, OneWorker, NEW k \in Commands,
         WorkerTells(k), NEW c \in Callers \ {k},
         \/ EnterStep(c) \/ LeaveStep(c) \/ FoundStep(c) \/ PopStep(c) \/ CallWalks(c)
         \/ \E t \in Tunnels : MadeStep(c, t)
         \/ /\ c \in Commands
            /\ \/ HoldStep(c) \/ DropStep(c) \/ OverStep(c) \/ DieStep(c) \/ CommandMoves(c)
               \/ \E t \in Tunnels : WorkerMadeStep(c, t)
  PROVE  WorkerTells(k)'
<1> PICK t : t = call[k].tunnel
  OBVIOUS
<1>0. k \in Callers
  BY DEF Callers
<1>1. call'[k] = call[k]
  BY <1>0 DEF EnterStep, LeaveStep, FoundStep, PopStep, CallWalks, CheckStep, WaitedStep,
     ExpireStep, TellStep, JoinStep, StartStep, MadeStep, HoldStep, DropStep, OverStep, DieStep,
     CommandMoves, WorkerMadeStep, CallGoes, Others
<1>2. /\ worker'[k] = worker[k] /\ command'[k] = command[k]
      /\ worker[k] = "loop" => stateFile'[command[k].dep] = stateFile[command[k].dep]
  <2>1. CASE UNCHANGED Filed
    BY <2>1 DEF Filed
  <2>2. CASE c \in Commands /\ (HoldStep(c) \/ DropStep(c) \/ OverStep(c))
    <3>1. /\ worker'[k] = worker[k] /\ command'[k] = command[k] /\ Running(c)
      BY <2>2 DEF HoldStep, DropStep, OverStep, WorkerGoes, WorkersTyped, Running
    <3>2. worker[k] = "loop" => Running(k) /\ command[k].dep \in Deployments
      BY DEF Running, WorkersTyped
    <3>3. worker[k] = "loop" => command[k].dep # command[c].dep
      BY <2>2, <3>1, <3>2 DEF OneWorker
    <3>4. \A e \in Deployments \ {command[c].dep} : stateFile'[e] = stateFile[e]
      BY <2>2 DEF HoldStep, DropStep, OverStep, OtherFiles, WorkersTyped
    <3> QED BY <3>1, <3>2, <3>3, <3>4
  <2>3. CASE c \in Commands /\ (DieStep(c) \/ CommandMoves(c)
                                 \/ \E u \in Tunnels : WorkerMadeStep(c, u))
    BY <2>3 DEF DieStep, CommandMoves, WorkerMadeStep, WorkerGoes, WorkersTyped
  <2> QED BY <2>1, <2>2, <2>3 DEF EnterStep, LeaveStep, FoundStep, PopStep, CallWalks, CheckStep,
      WaitedStep, ExpireStep, TellStep, JoinStep, StartStep, MadeStep
<1>3. CASE ~HasTunnel(k)
  <2>1. call[k].at \notin {"check", "wait", "opened", "held"}
    BY <1>0, <1>3, CallPlaces
  <2>2. worker[k] # "loop"
    BY <1>3 DEF WorkersTyped
  <2> QED BY <1>1, <1>2, <2>1, <2>2, NothingToTell
<1>4. CASE HasTunnel(k)
  <2>1. t \in Tunnels
    BY <1>0, <1>4, CallPlaces
  <2>2. HasTunnel(c) => call[c].tunnel # t
    BY <1>0, <1>4 DEF CallsApart
  <2>3. tunnel'[t] = tunnel[t] /\ (IsUp(t) => thread'[tunnel[t].thread] = thread[tunnel[t].thread])
    <3>1. CASE EnterStep(c) \/ LeaveStep(c) \/ FoundStep(c) \/ PopStep(c) \/ CheckStep(c)
                 \/ WaitedStep(c) \/ ExpireStep(c)
      BY <3>1 DEF EnterStep, LeaveStep, FoundStep, PopStep, CheckStep, WaitedStep, ExpireStep,
         Objects
    <3>2. ASSUME NEW u \in Tunnels, MadeStep(c, u) \/ WorkerMadeStep(c, u)
          PROVE  tunnel'[t] = tunnel[t] /\ thread' = thread
      BY <1>0, <2>1, <3>2 DEF MadeStep, WorkerMadeStep, IsFree, OtherTunnels
    <3>3. CASE TellStep(c) \/ JoinStep(c)
      <4>1. HasTunnel(c)
        BY <3>3, CallPlaces DEF TellStep, JoinStep
      <4> QED BY <2>1, <2>2, <3>3, <4>1 DEF TellStep, JoinStep, OtherTunnels
    <3>4. ASSUME NEW x \in Threads \cup {NoThread}, StartStep(c, x)
          PROVE  /\ tunnel'[t] = tunnel[t]
                 /\ IsUp(t) => thread'[tunnel[t].thread] = thread[tunnel[t].thread]
      <4>1. HasTunnel(c)
        BY <3>4, CallPlaces DEF StartStep
      <4>2. tunnel'[t] = tunnel[t]
        BY <2>1, <2>2, <3>4, <4>1 DEF StartStep, OtherTunnels
      <4>3. IsUp(t) => tunnel[t].thread \in Threads \ {x}
        <5>1. tunnel[t].thread \in Threads \cup {NoThread}
          BY <2>1 DEF TunnelsTyped, IsTunnel
        <5>2. ~Alive(x)
          BY <3>4 DEF StartStep, Alive
        <5> QED BY <5>1, <5>2 DEF IsUp, Alive
      <4> QED BY <3>4, <4>2, <4>3 DEF StartStep, OtherThreads
    <3>5. CASE c \in Commands /\ (HoldStep(c) \/ DropStep(c) \/ OverStep(c) \/ CommandMoves(c))
      BY <3>5 DEF HoldStep, DropStep, OverStep, CommandMoves, Objects
    <3>6. CASE c \in Commands /\ DieStep(c)
      <4>1. HasTunnel(c)
        BY <3>6 DEF DieStep, WorkerGoes, WorkersTyped
      <4>2. tunnel[t].thread \in Threads \cup {NoThread}
        BY <2>1 DEF TunnelsTyped, IsTunnel
      <4>3. IsUp(t) => tunnel[t].thread \in Threads /\ thread[tunnel[t].thread].of # call[c].tunnel
        BY <2>2, <4>1, <4>2 DEF IsUp, Alive
      <4> QED BY <3>6, <4>3 DEF DieStep
    <3> QED BY <3>1, <3>2, <3>3, <3>4, <3>5, <3>6 DEF CallWalks
  <2>4. IsUp(t) => IsUp(t)'
    <3>1. IsUp(t) => thread'[tunnel'[t].thread] = thread[tunnel[t].thread]
      BY <2>3
    <3> QED BY <2>1, <2>3, StillUp
  <2> QED BY <1>1, <1>2, <2>3, <2>4, StillTells
<1> QED BY <1>3, <1>4

\* A step of a thread.
LEMMA ThreadsTell ==
  ASSUME TunnelAssumption, TunnelsTyped, WorkersTyped, ThreadsKnown, NEW k \in Commands,
         WorkerTells(k), NEW x \in Threads,
         GoesStep(x) \/ EndsStep(x) \/ FailsStep(x) \/ ListensStep(x)
  PROVE  WorkerTells(k)'
<1> PICK t : t = call[k].tunnel
  OBVIOUS
<1>0. k \in Callers /\ x # NoThread
  BY ThreadHas DEF Callers
<1>1. /\ UNCHANGED <<call, Filed>> /\ OtherThreads(x) /\ Alive(x)
  BY DEF GoesStep, EndsStep, FailsStep, ListensStep
<1>2. UNCHANGED <<worker, command, stateFile>>
  BY <1>1 DEF Filed
<1>x. tunnel[thread[x].of].thread = x
  BY <1>1 DEF ThreadsKnown
<1>3. CASE ~HasTunnel(k)
  <2>1. call[k].at \notin {"check", "wait", "opened", "held"}
    BY <1>0, <1>3, CallPlaces
  <2>2. worker[k] # "loop"
    BY <1>3 DEF WorkersTyped
  <2> QED BY <1>1, <1>2, <2>1, <2>2, NothingToTell
<1>4. CASE HasTunnel(k) /\ thread[x].of # t
  <2>1. t \in Tunnels
    BY <1>0, <1>4, CallPlaces
  <2>2. tunnel'[t] = tunnel[t]
    BY <1>4, <2>1 DEF GoesStep, EndsStep, FailsStep, ListensStep, OtherTunnels
  <2>3. IsUp(t) => thread'[tunnel[t].thread] = thread[tunnel[t].thread]
    <3>1. tunnel[t].thread \in Threads \cup {NoThread}
      BY <2>1 DEF TunnelsTyped, IsTunnel
    <3> QED BY <1>1, <1>4, <3>1 DEF IsUp, Alive, OtherThreads
  <2>4. IsUp(t) => IsUp(t)'
    <3> QED BY <2>1, <2>2, <2>3, StillUp
  <2> QED BY <1>1, <1>2, <2>2, <2>4, StillTells
<1>5. CASE HasTunnel(k) /\ thread[x].of = t
  <2>1. t \in Tunnels
    BY <1>0, <1>5, CallPlaces
  <2>2. tunnel[t].thread = x
    BY <1>5, <1>x
  <2>3. call[k].at # "check"
    BY <1>0, <2>2 DEF WorkerTells
  <2>4. CASE GoesStep(x)
    <3>1. tunnel' = tunnel /\ thread'[x].of = t /\ tunnel'[t].thread = x
      BY <1>5, <2>2, <2>4 DEF GoesStep
    <3>2. thread'[x] # Ended
      BY <2>4 DEF GoesStep, Ended
    <3>3. IsUp(t) => IsUp(t)'
      BY <1>0, <2>2, <2>4, <3>1, <3>2 DEF IsUp, Alive, GoesStep
    <3> QED BY <1>1, <1>2, <3>1, <3>3, StillTells
  <2>5. CASE EndsStep(x)
    <3>1. call[k].at \notin {"wait", "opened", "held"}
      BY <1>5, <2>5 DEF EndsStep, WorkerTells
    <3>2. worker[k] # "loop"
      BY <3>1 DEF WorkersTyped
    <3> QED BY <1>1, <1>2, <2>3, <3>1, <3>2, NothingToTell
  <2>6. CASE FailsStep(x) \/ ListensStep(x)
    <3>1. ~IsUp(t)
      BY <2>2, <2>6 DEF IsUp, FailsStep, ListensStep
    <3>2. call[k].at \notin {"opened", "held"}
      BY <3>1 DEF WorkerTells
    <3>3. worker[k] # "loop"
      BY <3>2 DEF WorkersTyped
    <3>4. call[k].at = "wait" => ~tunnel'[t].stop
      BY <1>5, <2>6 DEF WorkerTells, FailsStep, ListensStep, SameStop
    <3>5. tunnel'[t].ready /\ ~tunnel'[t].failed => IsUp(t)'
      <4>1. CASE FailsStep(x)
        BY <1>5, <4>1 DEF FailsStep
      <4>2. CASE ListensStep(x)
        <5>1. /\ thread'[x].of = t /\ thread'[x].at = "forward" /\ tunnel'[t].thread = x
              /\ tunnel'[t].local = thread'[x].port
          BY <1>5, <2>2, <4>2 DEF ListensStep, SameThread
        <5>2. thread'[x] # Ended
          BY <5>1 DEF Ended
        <5> QED BY <1>0, <5>1, <5>2 DEF IsUp, Alive
      <4> QED BY <2>6, <4>1, <4>2
    <3>6. t = call'[k].tunnel /\ call'[k].at = call[k].at
      BY <1>1
    <3> QED BY <1>2, <2>3, <3>2, <3>3, <3>4, <3>5, <3>6 DEF WorkerTells
  <2> QED BY <2>4, <2>5, <2>6
<1> QED BY <1>3, <1>4, <1>5

\* A step of its own call, or of the worker itself.
LEMMA OwnTells ==
  ASSUME TunnelAssumption, TunnelsTyped, WorkersTyped, WorkersTyped', NEW k \in Commands,
         WorkerTells(k),
         \/ CallWalks(k) \/ HoldStep(k) \/ DropStep(k) \/ OverStep(k) \/ DieStep(k)
         \/ CommandMoves(k) \/ \E t \in Tunnels : WorkerMadeStep(k, t)
  PROVE  WorkerTells(k)'
<1>0. k \in Callers
  BY DEF Callers
<1>i. Idle.at = "idle"
  BY DEF Idle
<1>l. worker'[k] = "loop" => call'[k].at = "held"
  BY <1>i DEF WorkersTyped
<1>1. ASSUME call'[k].at \notin {"check", "wait", "opened", "held"} PROVE WorkerTells(k)'
  BY <1>1, <1>l, NothingToTell
<1>2. CASE CheckStep(k)
  <2>1. call'[k].at = "start"
    BY <1>2 DEF CheckStep, CallGoes, WorkerTells, Alive
  <2> QED BY <1>1, <2>1
<1>3. CASE WaitedStep(k)
  <2>1. CASE tunnel[call[k].tunnel].failed
    <3>1. call'[k].at = "failed"
      BY <1>3, <2>1 DEF WaitedStep, CallGoes
    <3> QED BY <1>1, <3>1
  <2>2. CASE ~tunnel[call[k].tunnel].failed
    <3>1. /\ call'[k].at = "opened" /\ call'[k].tunnel = call[k].tunnel
          /\ UNCHANGED <<tunnel, thread>> /\ call[k].at = "wait" /\ tunnel[call[k].tunnel].ready
      BY <1>3, <2>2 DEF WaitedStep, CallGoes, Objects
    <3>2. worker'[k] # "loop"
      BY <1>l, <3>1
    <3> QED BY <2>2, <3>1, <3>2 DEF WorkerTells, IsUp, Alive
  <2> QED BY <2>1, <2>2
<1>4. CASE ExpireStep(k) \/ TellStep(k)
  <2>1. call'[k].at \in {"stop", "join"}
    BY <1>4 DEF ExpireStep, TellStep, CallGoes
  <2> QED BY <1>1, <2>1
<1>5. CASE JoinStep(k)
  <2>1. call'[k].at \in {"failed", "closed"}
    BY <1>0, <1>5, CallPlaces DEF JoinStep, CallGoes
  <2> QED BY <1>1, <2>1
<1>6. ASSUME NEW x \in Threads \cup {NoThread}, StartStep(k, x) PROVE WorkerTells(k)'
  <2>1. /\ call'[k].at \in {"wait", "failed"} /\ call'[k].tunnel = call[k].tunnel
        /\ ~tunnel'[call[k].tunnel].stop /\ ~tunnel'[call[k].tunnel].ready
    BY <1>6 DEF StartStep, CallGoes
  <2>2. worker'[k] # "loop"
    BY <1>l, <2>1
  <2> QED BY <2>1, <2>2 DEF WorkerTells
<1>7. CASE HoldStep(k)
  <2>1. /\ call'[k].at = "held" /\ call'[k].tunnel = call[k].tunnel /\ UNCHANGED <<tunnel, thread>>
        /\ call[k].at = "opened" /\ UNCHANGED command
    BY <1>7 DEF HoldStep, CallGoes, Objects, WorkerGoes
  <2>2. /\ call[k].tunnel \in Tunnels /\ command[k].dep \in Deployments
    BY <1>0, <1>7, <2>1, CallPlaces DEF WorkersTyped, HoldStep, WorkerGoes
  <2>3. /\ ~tunnel[call[k].tunnel].stop /\ tunnel[call[k].tunnel].ready
        /\ ~tunnel[call[k].tunnel].failed /\ IsUp(call[k].tunnel)
    BY <2>1 DEF WorkerTells
  <2>4. Connected(call[k].tunnel)
    <3>1. tunnel[call[k].tunnel].thread \in Threads
      BY <2>2, <2>3 DEF TunnelsTyped, IsTunnel, IsUp, Alive
    <3>2. thread[tunnel[call[k].tunnel].thread].port \in LocalPorts
      BY <2>3, <3>1, ThreadHas DEF IsUp
    <3>3. tunnel[call[k].tunnel].local # NoPort
      BY <2>3, <3>2 DEF TunnelAssumption, IsUp, NoPort
    <3> QED BY <2>3, <3>3 DEF Connected, IsUp
  <2>5. stateFile'[command[k].dep] = [by |-> k, connected |-> TRUE, failed |-> FALSE,
                                      port |-> tunnel[call[k].tunnel].local]
    BY <1>7, <2>2, <2>4 DEF HoldStep, WorkersTyped
  <2>6. Told(k)'
    BY <2>1, <2>5 DEF Told
  <2>7. IsUp(call[k].tunnel)'
    BY <2>1, <2>3 DEF IsUp, Alive
  <2> QED BY <2>1, <2>3, <2>6, <2>7 DEF WorkerTells
<1>8. CASE DropStep(k)
  <2>1. call'[k].at = "stop"
    BY <1>8 DEF DropStep, CallGoes
  <2> QED BY <1>1, <2>1
<1>9. CASE OverStep(k) \/ DieStep(k)
  <2>1. call'[k].at = "idle"
    BY <1>9, <1>i DEF OverStep, DieStep
  <2> QED BY <1>1, <2>1
<1>10. CASE CommandMoves(k)
  <2>1. UNCHANGED <<tunnel, thread, call, stateFile>>
    BY <1>10 DEF CommandMoves, Objects
  <2>2. worker'[k] = "loop" => worker[k] = "loop" /\ command'[k].dep = command[k].dep
    BY <1>10 DEF CommandMoves
  <2>3. IsUp(call[k].tunnel) => IsUp(call[k].tunnel)'
    BY <2>1 DEF IsUp, Alive
  <2> QED BY <2>1, <2>2, <2>3, StillTells
<1>11. ASSUME NEW t \in Tunnels, WorkerMadeStep(k, t) PROVE WorkerTells(k)'
  <2>1. call'[k].at = "check" /\ call'[k].tunnel = t /\ tunnel'[t].thread = NoThread
    BY <1>11 DEF WorkerMadeStep, Fresh
  <2>2. worker'[k] # "loop"
    BY <1>l, <2>1
  <2> QED BY <2>1, <2>2 DEF WorkerTells
<1> QED BY <1>2, <1>3, <1>4, <1>5, <1>6, <1>7, <1>8, <1>9, <1>10, <1>11 DEF CallWalks

LEMMA WorkersTellStep ==
  ASSUME TunnelAssumption, TunnelsTyped, WorkersTyped, WorkersTyped', CallsApart, ThreadsKnown,
         WorkersTell, TunnelMove, Calm'
  PROVE  WorkersTell'
<1>d. \A k \in Commands : k \in Callers /\ k \notin Requests
  BY DEF Callers, TunnelAssumption
<1>0. OneWorker /\ OneWorker'
  BY OneWorkerStep DEF WorkersTell, OneWorker
<1>1. ASSUME NEW k \in Commands PROVE WorkerTells(k)'
  <2>0. WorkerTells(k)
    BY DEF WorkersTell
  <2>1. ASSUME NEW c \in Callers,
               \/ EnterStep(c) \/ LeaveStep(c) \/ FoundStep(c) \/ PopStep(c) \/ CallWalks(c)
               \/ \E t \in Tunnels : MadeStep(c, t)
        PROVE  WorkerTells(k)'
    <3>1. c = k => CallWalks(c)
      BY <1>d, <2>1 DEF EnterStep, LeaveStep, FoundStep, PopStep, MadeStep
    <3>2. CASE c = k
      BY <2>0, <3>1, <3>2, OwnTells
    <3>3. CASE c # k
      BY <1>0, <2>0, <2>1, <3>3, OthersTell
    <3> QED BY <3>2, <3>3
  <2>2. ASSUME NEW c \in Commands,
               \/ HoldStep(c) \/ DropStep(c) \/ OverStep(c) \/ DieStep(c) \/ CommandMoves(c)
               \/ \E t \in Tunnels : WorkerMadeStep(c, t)
        PROVE  WorkerTells(k)'
    <3>1. CASE c = k
      BY <2>0, <2>2, <3>1, OwnTells
    <3>2. CASE c # k
      BY <1>0, <1>d, <2>0, <2>2, <3>2, OthersTell
    <3> QED BY <3>1, <3>2
  <2>3. CASE ThreadMoves
    BY <2>0, <2>3, ThreadsTell DEF ThreadMoves
  <2>4. CASE QuietMove
    <3>1. UNCHANGED <<tunnel, thread, call, worker, command, stateFile>>
      BY <2>4 DEF QuietMove, Objects, Filed
    <3>2. IsUp(call[k].tunnel) => IsUp(call[k].tunnel)'
      BY <3>1 DEF IsUp, Alive
    <3> QED BY <2>0, <3>1, <3>2, StillTells
  <2> QED BY <2>1, <2>2, <2>3, <2>4 DEF TunnelMove, CallerStep, WorkerMoves, CallWalks
<1> QED BY <1>0, <1>1 DEF WorkersTell, OneWorker

LEMMA TunnelInvStep ==
  ASSUME TunnelAssumption, ChatAssumption, ChatInv, TunnelInv, [Next]_vars
  PROVE  TunnelInv'
<1>1. TunnelsTyped /\ WorkersTyped /\ PagesCall /\ TunnelsNamed
  BY DEF TunnelInv
<1>2. TunnelsTyped' /\ PagesCall' /\ TunnelMove
  BY TunnelMoves
<1>3. WorkersTyped'
  BY <1>1, <1>2, WorkersStep
<1>4. TunnelsNamed'
  BY <1>1, <1>2, TunnelsNamedStep
<1>5. ASSUME Calm' PROVE CallsApart' /\ ThreadsKnown' /\ TunnelsHeld' /\ WorkersTell'
  <2>1. CallsApart /\ ThreadsKnown /\ TunnelsHeld /\ WorkersTell
    <3>1. Calm
      BY <1>5, UnluckyGrows DEF Calm
    <3> QED BY <3>1 DEF TunnelInv
  <2>2. CallsApart'
    BY <1>1, <1>2, <1>5, <2>1, CallsApartStep
  <2>3. ThreadsKnown'
    BY <1>1, <1>2, <1>5, <2>1, ThreadsKnownStep
  <2>4. TunnelsHeld'
    <3>1. OpeningHeld /\ StopsTold
      BY <2>1, TunnelsHeldParts
    <3>2. OpeningHeld'
      BY <1>1, <1>2, <2>1, <3>1, OpeningHeldStep
    <3>3. StopsTold'
      BY <1>1, <1>2, <2>1, <3>1, StopsToldStep
    <3>4. ThreadsHad'
      BY <1>1, <1>2, <2>1, ThreadsHadStep
    <3> QED BY <3>2, <3>3, <3>4, TunnelsHeldParts, PTL
  <2>5. WorkersTell'
    BY <1>1, <1>2, <1>3, <1>5, <2>1, WorkersTellStep
  <2> QED BY <2>2, <2>3, <2>4, <2>5
<1> QED BY <1>2, <1>3, <1>4, <1>5 DEF TunnelInv

LEMMA TunnelInvStart ==
  ASSUME TunnelAssumption, ChatAssumption, Init
  PROVE  TunnelInv
<1>1. TunnelInit
  BY DEF Init
<1>i. /\ Idle.tunnel = NoTunnel /\ Idle.at = "idle" /\ Ended.of = NoTunnel /\ Ended.at = "none"
      /\ NoTunnel \notin Tunnels /\ Unmade.thread = NoThread
  BY DEF Idle, Ended, Unmade, NoTunnel, Tunnels
<1>2. TunnelsTyped
  <2>1. IsTunnel(Unmade) /\ IsThread(Ended) /\ IsCall(Idle)
    BY DEF IsTunnel, IsThread, IsCall, Unmade, Ended, Idle
  <2> QED BY <1>1, <2>1 DEF TunnelInit, TunnelsTyped
<1>3. WorkersTyped
  BY <1>1, <1>i DEF TunnelInit, WorkersTyped, Callers, HasTunnel
<1>4. PagesCall
  <2>1. \A p \in Pages : page[p].at \in {"closed", "ready"}
    BY DEF Init, Blank
  <2> QED BY <1>1, <2>1, PagesInCallers DEF TunnelInit, PagesCall
<1>5. TunnelsNamed /\ CallsApart
  BY <1>1, <1>i DEF TunnelInit, TunnelsNamed, CallsApart, HasTunnel, Engaged, Callers
<1>6. ThreadsKnown /\ TunnelsHeld
  BY <1>1, <1>i DEF TunnelInit, ThreadsKnown, TunnelsHeld, HasTunnel, Opening, Alive, Callers
<1>7. WorkersTell
  BY <1>1, <1>i DEF TunnelInit, WorkersTell, WorkerTells, Running, Callers
<1> QED BY <1>2, <1>3, <1>4, <1>5, <1>6, <1>7 DEF TunnelInv

LEMMA HeldByInv ==
  ASSUME TunnelAssumption, TunnelInv
  PROVE  ForwarderIsHeld
<1>1. TunnelsTyped /\ TunnelsNamed
  BY DEF TunnelInv
<1>2. SUFFICES ASSUME Calm
               PROVE  /\ \A w \in Threads :
                            LET t == thread[w].of IN
                            thread[w].at = "forward" /\ ~tunnel[t].stop =>
                              /\ tunnel[t].thread = w /\ tunnel[t].local = thread[w].port
                              /\ registry[tunnel[t].of] = t \/ \E c \in Callers : call[c].tunnel = t
                      /\ \A k \in Commands : worker[k] = "loop" => Told(k)
  BY DEF ForwarderIsHeld, Calm
<1>3. ThreadsKnown /\ TunnelsHeld /\ WorkersTell
  BY <1>2 DEF TunnelInv
<1>4. ASSUME NEW w \in Threads, thread[w].at = "forward", ~tunnel[thread[w].of].stop
      PROVE  /\ tunnel[thread[w].of].thread = w /\ tunnel[thread[w].of].local = thread[w].port
             /\ \/ registry[tunnel[thread[w].of].of] = thread[w].of
                \/ \E c \in Callers : call[c].tunnel = thread[w].of
  <2>1. Alive(w) /\ thread[w].of # NoTunnel
    BY <1>1, <1>4, ThreadHas DEF NoTunnel, Tunnels
  <2>2. \A d \in Deployments : registry[d] = thread[w].of => tunnel[thread[w].of].of = d
    BY <1>1, <2>1 DEF TunnelsNamed
  <2> QED BY <1>3, <1>4, <2>1, <2>2 DEF ThreadsKnown, TunnelsHeld
<1> QED BY <1>3, <1>4 DEF WorkersTell, WorkerTells

\* Whatever the requests, the commands, the threads and the faults: unless two calls for a
\* deployment overlapped or a join gave up, no forwarding port is lost. Its thread is the one its
\* tunnel knows, at the port it tells, and someone holds the tunnel.
THEOREM ForwardersAreHeld == Spec => []ForwarderIsHeld
<1>1. Init => TunnelInv
  BY TunnelAssumption, ChatAssumption, TunnelInvStart
<1>2. ChatInv /\ TunnelInv /\ [Next]_vars => TunnelInv'
  BY TunnelAssumption, ChatAssumption, TunnelInvStep
<1>3. TunnelInv => ForwarderIsHeld
  BY TunnelAssumption, HeldByInv
<1> QED BY <1>1, <1>2, <1>3, ChatTypes, PTL DEF Spec
=================================================================================
