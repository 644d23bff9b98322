----------------------- MODULE ConversionPackageProofs -----------------------
(* Theorems about ConversionPackage, for every number of converters and     *)
(* every choice of faults; about the orders in a package's key, for a       *)
(* vocabulary, a number of heads or experts and groups of any size; and     *)
(* about StreamingConversion, for any tensors, tiles, sizes and stops.      *)
EXTENDS ConversionPackage, KeyOrders, StreamingConversion, SequenceTheorems,
        FiniteSetTheorems, TLAPS

FilesTyped ==
  /\ setting.tee \in BOOLEAN
  /\ dir \in [Published \cup {"online"} -> Contents]
  /\ partial \in [Published -> Contents]
  /\ vault \in BOOLEAN

\* The split writes the online key before the offline one, and the vault takes
\* it before it is removed.
Split ==
  /\ pc \in {"split", "split2"} => ~setting.tee
  /\ pc = "split2" => dir["online"] = "whole"
  /\ pc = "remove" => vault
  /\ ~setting.tee /\ offline # "none" => dir["online"] = "whole" \/ vault

Encrypted == offline \in {"cipher", "sealed"}
Verified ==
  /\ dir["output"] = "whole"
  /\ setting.tee => dir["tee"] = "whole"

\* What the runner's position says of the files.
Late == {"seal", "remove", "upload", "done"}
KnownToRunner ==
  /\ pc = "manifest" => offline = "cipher"
  /\ pc = "rename" => setting.tee
  /\ pc \in {"verify"} \cup Late /\ ~setting.tee => Encrypted
  /\ pc \in {"seal", "remove"} => ~setting.tee
  /\ pc \in {"remove", "upload", "done"} /\ ~setting.tee => vault
  /\ pc \in Late => Verified

IInv == FilesTyped /\ Split /\ KnownToRunner

-----------------------------------------------------------------------------
THEOREM InitIInv == Init => IInv
  BY SettingsAssumption DEF Init, IInv, FilesTyped, Split, KnownToRunner, Late,
     Published, Contents

-----------------------------------------------------------------------------
\* A converter writes only partials, with contents a directory may have.
LEMMA PartialStep ==
  ASSUME partial \in [Published -> Contents], NEW c, NEW d \in Published,
         Make(c, d) \/ Open(c, d) \/ Close(c, d)
  PROVE  UNCHANGED <<dir, offline, vault>> /\ partial' \in [Published -> Contents]
  BY DEF Make, Open, Close, Contents

\* It publishes a directory only where there is none.
LEMMA PublishStep ==
  ASSUME partial \in [Published -> Contents], NEW c, NEW d \in Published,
         Publish(c, d)
  PROVE  /\ UNCHANGED <<offline, vault>>
         /\ partial' \in [Published -> Contents]
         /\ \/ dir' = dir
            \/ dir[d] = "none" /\ dir' = [dir EXCEPT ![d] = partial[d]]
  BY DEF Publish, Contents

LEMMA OtherStep ==
  ASSUME partial \in [Published -> Contents], NEW c,
         Check(c) \/ Sweep(c) \/ Exit(c)
  PROVE  UNCHANGED <<dir, offline, vault>> /\ partial' \in [Published -> Contents]
<1>1. CASE Check(c)
  BY <1>1 DEF Check, files
<1>2. CASE Sweep(c)
  BY <1>2 DEF Sweep, Contents, Published
<1>3. CASE Exit(c)
  <2>1. UNCHANGED files
    BY <1>3 DEF Exit
  <2> QED
    BY <2>1 DEF files
<1> QED
  BY <1>1, <1>2, <1>3

\* What the runner knows survives whatever a converter publishes.
LEMMA ConverterStep ==
  ASSUME IInv, UNCHANGED setting, NEW c \in Converters, Converter(c)
  PROVE  IInv'
<1> USE DEF IInv, FilesTyped
<1>1. UNCHANGED pc
  BY DEF Converter
<1>2. CASE UNCHANGED <<dir, offline, vault>> /\ partial' \in [Published -> Contents]
  BY <1>1, <1>2 DEF Split, KnownToRunner, Late, Encrypted, Verified
<1>3. ASSUME NEW d \in Published, Publish(c, d)
      PROVE  IInv'
  <2>1. CASE dir' = dir
    BY <1>2, <1>3, <2>1, PublishStep
  <2>2. CASE dir[d] = "none" /\ dir' = [dir EXCEPT ![d] = partial[d]]
    <3>1. dir' \in [Published \cup {"online"} -> Contents]
      BY <2>2 DEF Published
    <3>2. \A x \in Published \cup {"online"} : dir[x] = "whole" => dir'[x] = "whole"
      BY <2>2
    <3> QED
      BY <1>1, <1>3, <3>1, <3>2, PublishStep
         DEF Split, KnownToRunner, Late, Encrypted, Verified, Published
  <2> QED
    BY <1>3, <2>1, <2>2, PublishStep
<1> QED
  BY <1>2, <1>3, PartialStep, OtherStep DEF Converter

-----------------------------------------------------------------------------
\* The runner's steps, and what stops it.
LEMMA RunnerStep ==
  ASSUME IInv, UNCHANGED setting, Runner
  PROVE  IInv'
<1> USE DEF IInv, FilesTyped, Split, KnownToRunner, Late, Encrypted, Verified,
            Goto, Stop
<1>1. CASE Begin
  BY <1>1 DEF Begin, AfterConversion, files
<1>2. CASE Prepare
  BY <1>2 DEF Prepare, Contents
<1>3. CASE \E c \in Converters : Spawn(c)
  BY <1>3 DEF Spawn, files
<1>4. CASE Wait
  BY <1>4 DEF Wait, files
<1>5. CASE Finalize
  BY <1>5 DEF Finalize
<1>6. CASE SplitOnline
  BY <1>6 DEF SplitOnline, Published, Contents
<1>7. CASE SplitOffline
  BY <1>7 DEF SplitOffline
<1>8. CASE FinalizeTee
  BY <1>8 DEF FinalizeTee, Published, Contents
<1>9. CASE RenameMaster
  BY <1>9 DEF RenameMaster
<1>10. CASE Encrypt
  BY <1>10 DEF Encrypt, HasManifest
<1>11. CASE WriteManifest
  BY <1>11 DEF WriteManifest
<1>12. CASE Verify
  BY <1>12 DEF Verify, Outputs, files
<1>13. CASE Seal
  BY <1>13 DEF Seal
<1>14. CASE Remove
  BY <1>14 DEF Remove, Published, Contents
<1>15. CASE Complete
  BY <1>15 DEF Complete, files
<1> QED
  BY <1>1, <1>2, <1>3, <1>4, <1>5, <1>6, <1>7, <1>8, <1>9, <1>10, <1>11,
     <1>12, <1>13, <1>14, <1>15 DEF Runner

LEMMA FaultStep ==
  ASSUME IInv, UNCHANGED setting,
         Pause \/ Crash \/ Kill \/ \E c \in Converters : ConverterFails(c)
  PROVE  IInv'
<1>1. UNCHANGED files /\ (pc' = pc \/ pc' = "idle")
  BY DEF Pause, Crash, Kill, ConverterFails
<1> QED
  BY <1>1 DEF IInv, FilesTyped, Split, KnownToRunner, Late, Encrypted, Verified, files

THEOREM StepIInv == IInv /\ [Next]_vars => IInv'
<1> SUFFICES ASSUME IInv, [Next]_vars
             PROVE  IInv'
  OBVIOUS
<1>1. CASE Next
  BY <1>1, ConverterStep, RunnerStep, FaultStep DEF Next
<1>2. CASE UNCHANGED vars
  BY <1>2 DEF IInv, FilesTyped, Split, KnownToRunner, Late, Encrypted,
     Verified, vars, files
<1> QED
  BY <1>1, <1>2

\* The inductive invariant, of every behaviour.
THEOREM PackageInvariant == Spec => []IInv
  BY InitIInv, StepIInv, PTL DEF Spec

-----------------------------------------------------------------------------
\* A completed job is usable, whoever wrote its directories and however often
\* it was stopped: the runner completes only what it verified, and no converter
\* replaces a directory that is there.
THEOREM CompletedJobsAreUsable == Spec => []CompletedIsUsable
<1>1. IInv => CompletedIsUsable
  BY DEF IInv, KnownToRunner, Late, Encrypted, Verified, CompletedIsUsable
<1> QED
  BY <1>1, PackageInvariant, PTL

\* The online key that the split made is never lost.
THEOREM OnlineKeyIsKept == Spec => []OnlineKeyKept
<1>1. IInv => OnlineKeyKept
  BY DEF IInv, Split, OnlineKeyKept
<1> QED
  BY <1>1, PackageInvariant, PTL
-----------------------------------------------------------------------------
(* Types. *)

ChildTyped ==
  /\ child \in [Converters -> Processes]
  /\ \A c \in Converters : child[c].open => Writing(c)

\* A converter that is replaced by a typed process, and has a file open only if
\* it then writes, leaves all of them typed.
LEMMA ChildStep ==
  ASSUME ChildTyped, UNCHANGED setting, NEW c \in Converters,
         NEW p \in Processes, child' = [child EXCEPT ![c] = p],
         p.open => Writing(c)'
  PROVE  ChildTyped'
<1>1. child' \in [Converters -> Processes]
  BY DEF ChildTyped
<1>2. ASSUME NEW x \in Converters, child'[x].open
      PROVE  Writing(x)'
  <2>1. CASE x = c
    BY <1>2, <2>1 DEF ChildTyped
  <2>2. CASE x # c
    <3>1. child'[x] = child[x]
      BY <2>2 DEF ChildTyped
    <3> QED
      BY <1>2, <3>1 DEF ChildTyped, Writing, Program
  <2> QED
    BY <2>1, <2>2
<1> QED
  BY <1>1, <1>2 DEF ChildTyped

LEMMA ProcessType ==
  ASSUME NEW state \in {"free", "run", "ok", "failed"}, NEW spot \in Nat,
         NEW open \in BOOLEAN
  PROVE  /\ Process(state, spot, open) \in Processes
         /\ Process(state, spot, open).state = state
         /\ Process(state, spot, open).at = spot
         /\ Process(state, spot, open).open = open
  BY DEF Process, Processes

LEMMA AtType ==
  ASSUME ChildTyped, NEW c \in Converters
  PROVE  child[c].at \in Nat /\ child[c].open \in BOOLEAN
  BY DEF ChildTyped, Processes

\* A converter that goes on, ends or fails closes its file.
LEMMA ChildCloses ==
  ASSUME ChildTyped, UNCHANGED setting, NEW c \in Converters,
         NEW state \in {"free", "run", "ok", "failed"}, NEW spot \in Nat,
         child' = [child EXCEPT ![c] = Process(state, spot, FALSE)]
  PROVE  ChildTyped'
  BY ChildStep, ProcessType

LEMMA ChildEnds ==
  ASSUME ChildTyped, UNCHANGED setting, NEW c \in Converters,
         Advance(c) \/ Die(c)
  PROVE  ChildTyped'
<1>1. child[c].at \in Nat
  BY AtType
<1>2. CASE Advance(c)
  <2>1. child[c].at + 1 \in Nat
    BY <1>1
  <2>2. child' = [child EXCEPT ![c] = Process("run", child[c].at + 1, FALSE)]
    BY <1>2 DEF Advance
  <2> QED
    BY <2>1, <2>2, ChildCloses
<1>3. CASE Die(c)
  BY <1>1, <1>3, ChildCloses DEF Die
<1> QED
  BY <1>2, <1>3

\* It opens one only at a step that writes.
LEMMA ChildOpens ==
  ASSUME ChildTyped, UNCHANGED setting, NEW c \in Converters,
         NEW d \in Published, Open(c, d)
  PROVE  ChildTyped'
<1>1. CASE Die(c)
  BY <1>1, ChildEnds
<1>2. CASE child' = [child EXCEPT ![c] = Process("run", child[c].at, TRUE)]
  <2>1. child'[c] = Process("run", child[c].at, TRUE)
    BY <1>2 DEF ChildTyped
  <2>2. child'[c].state = "run" /\ child'[c].at = child[c].at
    BY <2>1, AtType DEF Process
  <2>3. /\ child[c].at \in DOMAIN Program
        /\ \/ Program[child[c].at] = <<"write", d>>
           \/ Program[child[c].at] = <<"seal", d>>
    BY DEF Open, Doing
  <2>4. Program[child[c].at][1] \in {"write", "seal"}
    BY <2>3
  <2>5. Program' = Program
    BY DEF Program
  <2>6. Writing(c)'
    BY <2>2, <2>3, <2>4, <2>5 DEF Writing
  <2> QED
    BY <1>2, <2>6, AtType, ProcessType, ChildStep
<1> QED
  BY <1>1, <1>2 DEF Open

LEMMA ConverterTypes ==
  ASSUME ChildTyped, UNCHANGED setting, NEW c \in Converters, Converter(c)
  PROVE  ChildTyped'
<1>1. CASE Check(c)
  BY <1>1, ChildEnds DEF Check
<1>2. CASE Sweep(c)
  BY <1>2, ChildEnds DEF Sweep
<1>3. CASE Exit(c)
  BY <1>3, AtType, ChildCloses DEF Exit
<1>4. ASSUME NEW d \in Published, Make(c, d) \/ Close(c, d) \/ Publish(c, d)
      PROVE  ChildTyped'
  BY <1>4, ChildEnds DEF Make, Close, Publish
<1> QED
  BY <1>1, <1>2, <1>3, <1>4, ChildOpens DEF Converter

LEMMA UnchangedChild ==
  ASSUME ChildTyped, UNCHANGED <<setting, child>>
  PROVE  ChildTyped'
  BY DEF ChildTyped, Writing, Program

LEMMA ChildNext == ChildTyped /\ [Next]_vars => ChildTyped'
<1> SUFFICES ASSUME ChildTyped, [Next]_vars
             PROVE  ChildTyped'
  OBVIOUS
<1>1. UNCHANGED setting
  BY DEF Next, vars
<1>2. CASE \E c \in Converters : Converter(c)
  BY <1>1, <1>2, ConverterTypes
<1>3. CASE \E c \in Converters : ConverterFails(c)
  BY <1>1, <1>3, ChildEnds DEF ConverterFails
<1>4. CASE \E c \in Converters : Spawn(c)
  BY <1>1, <1>4, ChildCloses DEF Spawn
<1>5. CASE Kill
  BY <1>1, <1>5, ProcessType DEF Kill, ChildTyped, Fresh
<1>6. CASE UNCHANGED child
  BY <1>1, <1>6, UnchangedChild
<1>7. CASE Pause \/ Crash
  BY <1>6, <1>7 DEF Pause, Crash
<1>8. CASE Runner /\ ~\E c \in Converters : Spawn(c)
  BY <1>6, <1>8 DEF Runner, Begin, Prepare, Wait, Finalize, SplitOnline,
     SplitOffline, FinalizeTee, RenameMaster, Encrypt, WriteManifest, Verify,
     Seal, Remove, Complete, Goto, Stop
<1>9. CASE UNCHANGED vars
  BY <1>6, <1>9 DEF vars
<1> QED
  BY <1>2, <1>3, <1>4, <1>5, <1>7, <1>8, <1>9 DEF Next

\* The runner's own variables.
Plain ==
  /\ setting \in Settings
  /\ offline \in {"none", "moved", "broken", "plain", "cipher", "sealed"}
  /\ splitting \in BOOLEAN
  /\ pc \in Points
  /\ mine \in Converters
  /\ faults \in 0..setting.max

LEMMA PlainNext == Plain /\ [Next]_vars => Plain'
<1> SUFFICES ASSUME Plain, [Next]_vars
             PROVE  Plain'
  OBVIOUS
<1> USE DEF Plain, Points
<1>0. setting.max \in Nat /\ UNCHANGED setting
  BY SettingsAssumption DEF Next, vars
<1>1. ASSUME NEW kind, Fault(kind)
      PROVE  faults' \in 0..setting.max
  BY <1>0, <1>1 DEF Fault
<1>2. CASE \E c \in Converters : Converter(c)
  <2>1. UNCHANGED <<offline, splitting, pc, mine, faults>>
    BY <1>2 DEF Converter, files, Check, Sweep, Exit, Make, Open, Close, Publish
  <2> QED
    BY <1>0, <2>1
<1>3. CASE \E c \in Converters : ConverterFails(c)
  BY <1>0, <1>1, <1>3 DEF ConverterFails, files
<1>4. CASE Pause \/ Crash \/ Kill
  BY <1>0, <1>1, <1>4 DEF Pause, Crash, Kill, files
<1>5. CASE \E c \in Converters : Spawn(c)
  BY <1>0, <1>5 DEF Spawn, files
<1>6. CASE Begin \/ Prepare \/ Wait \/ Verify \/ Complete
  BY <1>0, <1>6 DEF Begin, Prepare, Wait, Verify, Complete, AfterConversion,
     Goto, Stop, files
<1>7. CASE Finalize \/ SplitOnline \/ SplitOffline
  BY <1>0, <1>7 DEF Finalize, SplitOnline, SplitOffline, Goto, Stop
<1>8. CASE FinalizeTee \/ RenameMaster
  BY <1>0, <1>8 DEF FinalizeTee, RenameMaster, Goto, Stop
<1>9. CASE Encrypt \/ WriteManifest
  BY <1>0, <1>1, <1>9 DEF Encrypt, WriteManifest, Goto, Stop
<1>10. CASE Seal \/ Remove
  BY <1>0, <1>10 DEF Seal, Remove, Goto, Stop
<1>11. CASE UNCHANGED vars
  BY <1>11 DEF vars, files
<1> QED
  BY <1>2, <1>3, <1>4, <1>5, <1>6, <1>7, <1>8, <1>9, <1>10, <1>11 DEF Next, Runner

LEMMA InitTyped == Init => ChildTyped /\ Plain
<1> SUFFICES ASSUME Init
             PROVE  ChildTyped /\ Plain
  OBVIOUS
<1>1. ChildTyped
  BY ProcessType DEF Init, ChildTyped, Fresh
<1>2. setting.max \in Nat
  BY SettingsAssumption DEF Init
<1> QED
  <2>1. faults \in 0..setting.max
    BY <1>2 DEF Init
  <2>2. setting \in Settings /\ mine \in Converters
    BY DEF Init
  <2>3. offline = "none" /\ splitting = FALSE /\ pc = "idle"
    BY DEF Init
  <2> QED
    BY <1>1, <2>1, <2>2, <2>3 DEF Plain, Points

\* Every reachable state is typed, and a converter has a file open only at a
\* step that writes one.
THEOREM PackageTypes == Spec => []TypeOK
<1>1. Spec => [](ChildTyped /\ Plain)
  BY InitTyped, ChildNext, PlainNext, PTL DEF Spec
<1>2. ChildTyped /\ Plain /\ IInv => TypeOK
  BY DEF ChildTyped, Plain, IInv, FilesTyped, TypeOK
<1> QED
  BY <1>1, <1>2, PackageInvariant, PTL

-----------------------------------------------------------------------------
(***************************************************************************)
(* The key of what is published.  Where the application does not die under *)
(* its converter there is one at a time, so the program's position says    *)
(* what the files hold: the key is whole before the output is published.   *)
(***************************************************************************)
HasKey ==
  \/ partial["full"] = "whole" \/ dir["full"] = "whole"
  \/ offline \notin {"none", "broken"}

OneConverter ==
  "crash" \notin setting.faults \/ faults = 0 =>
    \A c \in Converters : child[c].state = "run" => pc = "wait" /\ c = mine

\* Where the program writes the key, and where it publishes the output.
FullAt == IF setting.tee THEN 6 ELSE 4
OutAt == IF setting.tee THEN 8 ELSE 6

KeyFirst ==
  "crash" \notin setting.faults =>
    /\ dir["output"] # "none" => HasKey
    /\ \A c \in Converters : child[c].state = "run" =>
         /\ child[c].at \in 1..OutAt => dir["output"] = "none"
         /\ child[c].at \in (FullAt + 1)..OutAt => partial["full"] = "whole"

\* What a TEE job's files hold while its first converter is at step k.
MakeAt == [output |-> 1, full |-> 2, tee |-> 3]
PublishAt == [output |-> 8, full |-> 9, tee |-> 10]
Reached(k) ==
  \A d \in Published :
    /\ k <= PublishAt[d] => dir[d] = "none"
    /\ k <= MakeAt[d] => partial[d] = "none"
    /\ k \in (MakeAt[d] + 1)..PublishAt[d] => partial[d] # "none"
    /\ d = "full" /\ k \in 7..9 => partial[d] = "whole"
    /\ d = "full" /\ k >= 10 => dir[d] = "whole"

\* Before the first fault a TEE job goes straight to its sealed key.
Early == {"idle", "prepare", "spawn"}
FirstRun ==
  setting.tee /\ faults = 0 /\ offline # "sealed" =>
    /\ pc \in Early \cup {"wait", "finalize", "rename", "encrypt", "manifest"}
    /\ pc \in Early \cup {"wait", "finalize"} => offline = "none"
    /\ pc \in Early => Reached(0)
    /\ pc = "wait" =>
         /\ child[mine].state \in {"run", "ok"}
         /\ child[mine].state = "ok" => child[mine].at = 12
         /\ Reached(child[mine].at)
    /\ pc = "finalize" => dir["full"] = "whole"
    /\ pc = "rename" => offline = "moved"
    /\ pc = "encrypt" => offline = "plain"
    /\ pc = "manifest" => offline = "cipher"

Typed == ChildTyped /\ Plain /\ IInv
KeyInv == OneConverter /\ KeyFirst /\ FirstRun

LEMMA TypedNext == Typed /\ [Next]_vars => Typed'
  BY ChildNext, PlainNext, StepIInv DEF Typed

\* The step a converter is at, from the table of its program.
LEMMA TeePlaces ==
  ASSUME NEW k \in 1..11, NEW what, NEW d, TeeProgram[k] = <<what, d>>
  PROVE  /\ d \in Published
         /\ what = "make" => k = MakeAt[d]
         /\ what = "publish" => k = PublishAt[d]
         /\ what \in {"write", "seal"} => k \in 4..7
         /\ what = "sweep" => k = 11
         /\ k \in 1..3 => what = "make"
         /\ k \in 4..7 => what \in {"write", "seal"}
         /\ k \in 8..10 => what = "publish"
         /\ what \in {"write", "seal"} /\ d = "full" => k = 6
         /\ k = 6 => what = "write" /\ d = "full"
         /\ k = 8 => what = "publish" /\ d = "output"
<1>1. /\ TeeProgram[1] = <<"make", "output">>
      /\ TeeProgram[2] = <<"make", "full">>
      /\ TeeProgram[3] = <<"make", "tee">>
      /\ TeeProgram[4] = <<"write", "output">>
      /\ TeeProgram[5] = <<"write", "tee">>
      /\ TeeProgram[6] = <<"write", "full">>
      /\ TeeProgram[7] = <<"seal", "output">>
      /\ TeeProgram[8] = <<"publish", "output">>
      /\ TeeProgram[9] = <<"publish", "full">>
      /\ TeeProgram[10] = <<"publish", "tee">>
      /\ TeeProgram[11] = <<"sweep", "output">>
  BY DEF TeeProgram
<1>2. MakeAt["output"] = 1 /\ MakeAt["full"] = 2 /\ MakeAt["tee"] = 3
  BY DEF MakeAt
<1>3. PublishAt["output"] = 8 /\ PublishAt["full"] = 9 /\ PublishAt["tee"] = 10
  BY DEF PublishAt
<1>4. CASE k \in {1, 2, 3}
  BY <1>1, <1>2, <1>4 DEF Published
<1>5. CASE k \in {4, 5, 6, 7}
  BY <1>1, <1>5 DEF Published
<1>6. CASE k \in {8, 9, 10, 11}
  BY <1>1, <1>3, <1>6 DEF Published
<1>7. QED
  BY <1>4, <1>5, <1>6

LEMMA PlainPlaces ==
  ASSUME NEW k \in 1..8, NEW what, NEW d, PlainProgram[k] = <<what, d>>
  PROVE  /\ d \in Published
         /\ what \in {"write", "seal"} /\ d = "full" => k = 4
         /\ k = 4 => what = "write" /\ d = "full"
         /\ what = "publish" /\ d = "output" => k = 6
         /\ what = "publish" /\ d = "full" => k = 7
         /\ k = 6 => what = "publish" /\ d = "output"
<1>1. /\ PlainProgram[1] = <<"make", "output">>
      /\ PlainProgram[2] = <<"make", "full">>
      /\ PlainProgram[3] = <<"write", "output">>
      /\ PlainProgram[4] = <<"write", "full">>
      /\ PlainProgram[5] = <<"seal", "output">>
      /\ PlainProgram[6] = <<"publish", "output">>
      /\ PlainProgram[7] = <<"publish", "full">>
      /\ PlainProgram[8] = <<"sweep", "output">>
  BY DEF PlainProgram
<1>2. CASE k \in {1, 2, 3, 4}
  BY <1>1, <1>2 DEF Published
<1>3. CASE k \in {5, 6, 7, 8}
  BY <1>1, <1>3 DEF Published
<1>4. QED
  BY <1>2, <1>3

LEMMA ProgramSize ==
  /\ setting.tee => Program = TeeProgram /\ DOMAIN TeeProgram = 1..11 /\ Len(TeeProgram) = 11
  /\ ~setting.tee => Program = PlainProgram /\ DOMAIN PlainProgram = 1..8
  BY DEF Program, TeeProgram, PlainProgram

\* The positions that matter, in either mode.
LEMMA StagePlaces ==
  ASSUME setting.tee \in BOOLEAN, NEW c, NEW what, NEW d, Doing(c, what, d)
  PROVE  LET k == child[c].at
         IN  /\ k \in 1..11
             /\ what \in {"write", "seal"} /\ d = "full" => k = FullAt
             /\ k = FullAt => what = "write" /\ d = "full"
             /\ what = "publish" /\ d = "output" => k = OutAt
             /\ what = "publish" /\ d = "full" => k > OutAt
             /\ k = OutAt => what = "publish" /\ d = "output"
<1>1. CASE setting.tee
  <2>1. child[c].at \in 1..11 /\ TeeProgram[child[c].at] = <<what, d>>
    BY <1>1, ProgramSize DEF Doing
  <2>2. PublishAt["full"] = 9 /\ PublishAt["output"] = 8
    BY DEF PublishAt
  <2>3. QED
    BY <1>1, <2>1, <2>2, TeePlaces DEF FullAt, OutAt
<1>2. CASE ~setting.tee
  <2>1. child[c].at \in 1..8 /\ PlainProgram[child[c].at] = <<what, d>>
    BY <1>2, ProgramSize DEF Doing
  <2>2. QED
    BY <1>2, <2>1, PlainPlaces DEF FullAt, OutAt
<1>3. QED
  BY <1>1, <1>2

\* A converter that does anything is running; it only replaces its own process.
LEMMA ConverterMoves ==
  ASSUME ChildTyped, NEW c \in Converters, Converter(c) \/ ConverterFails(c)
  PROVE  /\ child[c].state = "run"
         /\ UNCHANGED <<pc, mine>>
         /\ \E p : child' = [child EXCEPT ![c] = p]
<1> DEFINE Moves == \E p : child' = [child EXCEPT ![c] = p]
<1>1. UNCHANGED <<pc, mine>>
  BY DEF Converter, ConverterFails
<1>2. /\ \A p : child' = [child EXCEPT ![c] = p] => Moves
      /\ Advance(c) \/ Die(c) => Moves
  BY DEF Advance, Die
<1> SUFFICES child[c].state = "run" /\ Moves
  BY <1>1
<1> HIDE DEF Moves
<1>3. CASE ConverterFails(c)
  BY <1>2, <1>3 DEF ConverterFails
<1>4. CASE Check(c)
  BY <1>2, <1>4 DEF Check
<1>5. CASE Sweep(c)
  BY <1>2, <1>5 DEF Sweep, Doing
<1>6. CASE Exit(c)
  BY <1>2, <1>6 DEF Exit
<1>7. ASSUME NEW d \in Published, Make(c, d) \/ Close(c, d) \/ Publish(c, d)
      PROVE  child[c].state = "run" /\ Moves
  BY <1>2, <1>7 DEF Make, Close, Publish, Doing
<1>8. ASSUME NEW d \in Published, Open(c, d)
      PROVE  child[c].state = "run" /\ Moves
  BY <1>2, <1>8 DEF Open, Doing
<1>9. QED
  BY <1>3, <1>4, <1>5, <1>6, <1>7, <1>8 DEF Converter

\* Every other step leaves the converters, but for one that starts or ends all.
LEMMA RunnerChildren ==
  ASSUME Runner, ~\E c \in Converters : Spawn(c)
  PROVE  /\ \/ UNCHANGED <<child, mine, faults>>
            \/ Fault("password") /\ UNCHANGED <<child, mine>>
         /\ pc = "wait" => child[mine].state # "run"
         /\ pc' # "wait"
<1> USE DEF Goto, Stop, AfterConversion
<1>1. CASE Begin
  BY <1>1 DEF Begin
<1>2. CASE Prepare \/ Wait
  BY <1>2 DEF Prepare, Wait
<1>3. CASE Finalize
  BY <1>3 DEF Finalize
<1>4. CASE SplitOnline \/ SplitOffline
  BY <1>4 DEF SplitOnline, SplitOffline
<1>5. CASE FinalizeTee \/ RenameMaster
  BY <1>5 DEF FinalizeTee, RenameMaster
<1>6. CASE Encrypt
  BY <1>6 DEF Encrypt
<1>7. CASE WriteManifest
  BY <1>7 DEF WriteManifest
<1>8. CASE Verify \/ Seal \/ Remove \/ Complete
  BY <1>8 DEF Verify, Seal, Remove, Complete
<1>9. QED
  BY <1>1, <1>2, <1>3, <1>4, <1>5, <1>6, <1>7, <1>8 DEF Runner

LEMMA FaultsGrow ==
  ASSUME Typed, [Next]_vars
  PROVE  /\ UNCHANGED setting
         /\ faults \in Nat /\ faults' \in Nat
         /\ faults' = 0 => faults = 0 /\ faults' = faults
<1>1. Plain /\ Plain'
  BY PlainNext DEF Typed
<1>2. setting.max \in Nat /\ UNCHANGED setting
  BY <1>1, SettingsAssumption DEF Plain, Next, vars
<1>3. faults \in Nat /\ faults' \in Nat
  BY <1>1, <1>2 DEF Plain
<1>4. faults' \in {faults, faults + 1}
  \* what works through its script counts nothing, and a child is only started
  <2>1. CASE \E c \in Converters : Converter(c) \/ Spawn(c)
    BY <2>1 DEF Converter, Spawn
  \* a stop is a fault, and so is a vault without the runner's password
  <2>2. CASE Pause \/ Crash \/ Kill \/ \E c \in Converters : ConverterFails(c)
    BY <2>2 DEF Pause, Crash, Kill, ConverterFails, Fault
  <2>3. ASSUME Runner, \A c \in Converters : ~Spawn(c)
        PROVE  faults' \in {faults, faults + 1}
    BY <2>3, RunnerChildren DEF Fault
  <2>4. QED
    BY <2>1, <2>2, <2>3 DEF Next, vars
<1>5. QED
  BY <1>2, <1>3, <1>4

\* A converter runs only while the runner waits for it, unless the application
\* died.
LEMMA NextOneConverter ==
  ASSUME Typed, OneConverter, [Next]_vars
  PROVE  OneConverter'
<1>0. ChildTyped /\ UNCHANGED setting
  BY FaultsGrow DEF Typed
<1> SUFFICES ASSUME "crash" \notin setting.faults \/ faults' = 0,
                    NEW x \in Converters, child'[x].state = "run"
             PROVE  pc' = "wait" /\ x = mine'
  BY <1>0 DEF OneConverter
<1>1. \A c \in Converters : child[c].state = "run" => pc = "wait" /\ c = mine
  BY FaultsGrow DEF OneConverter
<1>2. CASE \E c \in Converters : Converter(c) \/ ConverterFails(c)
  <2>1. PICK c \in Converters : Converter(c) \/ ConverterFails(c)
    BY <1>2
  <2>2. child[x].state = "run"
    BY <1>0, <2>1, ConverterMoves DEF ChildTyped
  <2>3. QED
    BY <1>0, <1>1, <2>1, <2>2, ConverterMoves
<1>3. CASE \E c \in Converters : Spawn(c)
  BY <1>0, <1>1, <1>3 DEF Spawn, ChildTyped
<1>4. CASE Runner /\ ~\E c \in Converters : Spawn(c)
  BY <1>1, <1>4, RunnerChildren
<1>5. CASE Pause
  BY <1>1, <1>5 DEF Pause
<1>6. CASE Crash
  BY <1>6, FaultsGrow DEF Crash, Fault
<1>7. CASE Kill
  BY <1>7 DEF Kill, Fresh, Process
<1>8. CASE UNCHANGED vars
  BY <1>1, <1>8 DEF vars
<1>9. QED
  BY <1>2, <1>3, <1>4, <1>5, <1>6, <1>7, <1>8 DEF Next

-----------------------------------------------------------------------------
\* What one converter does to the key and to the output it publishes.
LEMMA ConverterKey ==
  ASSUME Typed, KeyFirst, OneConverter, "crash" \notin setting.faults,
         UNCHANGED setting, NEW c \in Converters, Converter(c)
  PROVE  KeyFirst'
<1> DEFINE k == child[c].at
<1>0. /\ ChildTyped /\ k \in Nat /\ setting.tee \in BOOLEAN
      /\ dir \in [Published \cup {"online"} -> Contents]
      /\ partial \in [Published -> Contents]
  BY AtType DEF Typed, IInv, FilesTyped
<1>1. child[c].state = "run" /\ \A x \in Converters \ {c} : child[x].state # "run"
  BY <1>0, ConverterMoves DEF OneConverter
<1>2. \A x \in Converters \ {c} : child'[x].state # "run"
  BY <1>0, <1>1, ConverterMoves DEF ChildTyped
<1>3. /\ dir["output"] # "none" => HasKey
      /\ k \in 1..OutAt => dir["output"] = "none"
      /\ k \in (FullAt + 1)..OutAt => partial["full"] = "whole"
  BY <1>1 DEF KeyFirst
<1>4. /\ FullAt' = FullAt /\ OutAt' = OutAt
      /\ FullAt \in Nat /\ OutAt \in Nat /\ FullAt > 1 /\ OutAt > FullAt
  BY <1>0 DEF FullAt, OutAt
<1>5. SUFFICES /\ dir'["output"] # "none" => HasKey'
               /\ child'[c].state = "run" =>
                    /\ child'[c].at \in 1..OutAt => dir'["output"] = "none"
                    /\ child'[c].at \in (FullAt + 1)..OutAt => partial'["full"] = "whole"
  BY <1>2, <1>4 DEF KeyFirst
<1>6. Die(c) => child'[c].state # "run"
  BY <1>0 DEF Die, ChildTyped, Process
<1>7. Advance(c) => child'[c].at = k + 1
  BY <1>0 DEF Advance, ChildTyped, Process
<1>8. CASE Check(c)
  <2>1. UNCHANGED <<dir, partial, offline>> /\ k = 0
    BY <1>8 DEF Check, files
  <2>2. dir["output"] = "none" \/ Die(c)
    BY <1>8 DEF Check, Outputs
  <2>3. Advance(c) \/ Die(c)
    BY <1>8 DEF Check
  <2>4. QED
    BY <1>3, <1>4, <1>6, <1>7, <2>1, <2>2, <2>3 DEF HasKey
<1>9. CASE Exit(c)
  <2>1. UNCHANGED <<dir, partial, offline>>
    BY <1>9 DEF Exit, files
  <2>2. child'[c].state # "run"
    BY <1>0, <1>9 DEF Exit, Process, ChildTyped
  <2>3. QED
    BY <1>3, <2>1, <2>2 DEF HasKey
<1>10. CASE Sweep(c)
  <2>1. UNCHANGED <<dir, offline>> /\ partial'["full"] = partial["full"]
    BY <1>0, <1>10 DEF Sweep, Published
  <2>2. Doing(c, "sweep", "output") /\ (Advance(c) \/ Die(c))
    BY <1>10 DEF Sweep
  <2>3. k \in 1..11 /\ k # FullAt /\ k # OutAt
    BY <1>0, <2>2, StagePlaces
  <2>4. QED
    BY <1>3, <1>4, <1>6, <1>7, <2>1, <2>2, <2>3 DEF HasKey
<1>11. ASSUME NEW d \in Published, Make(c, d)
       PROVE  /\ dir'["output"] # "none" => HasKey'
              /\ child'[c].state = "run" =>
                   /\ child'[c].at \in 1..OutAt => dir'["output"] = "none"
                   /\ child'[c].at \in (FullAt + 1)..OutAt => partial'["full"] = "whole"
  <2>1. UNCHANGED <<dir, offline>> /\ (partial["full"] = "whole" => partial'["full"] = "whole")
    BY <1>0, <1>11 DEF Make, Published
  <2>2. Doing(c, "make", d) /\ (Advance(c) \/ Die(c))
    BY <1>11 DEF Make
  <2>3. k \in 1..11 /\ k # FullAt /\ k # OutAt
    BY <1>0, <2>2, StagePlaces
  <2>4. QED
    BY <1>3, <1>4, <1>6, <1>7, <2>1, <2>2, <2>3 DEF HasKey
<1>12. ASSUME NEW d \in Published, Open(c, d)
       PROVE  /\ dir'["output"] # "none" => HasKey'
              /\ child'[c].state = "run" =>
                   /\ child'[c].at \in 1..OutAt => dir'["output"] = "none"
                   /\ child'[c].at \in (FullAt + 1)..OutAt => partial'["full"] = "whole"
  <2>1. UNCHANGED <<dir, offline>> /\ (d # "full" => partial'["full"] = partial["full"])
    BY <1>0, <1>12 DEF Open, Published
  <2>2. Doing(c, "write", d) \/ Doing(c, "seal", d)
    BY <1>12 DEF Open
  <2>3. k \in 1..11 /\ k # OutAt /\ (d = "full" => k = FullAt)
    BY <1>0, <2>2, StagePlaces
  <2>4. child'[c].at = k \/ Die(c)
    BY <1>0, <1>12 DEF Open, ChildTyped, Process
  <2>5. QED
    BY <1>3, <1>4, <1>6, <2>1, <2>3, <2>4 DEF HasKey
<1>13. ASSUME NEW d \in Published, Close(c, d)
       PROVE  /\ dir'["output"] # "none" => HasKey'
              /\ child'[c].state = "run" =>
                   /\ child'[c].at \in 1..OutAt => dir'["output"] = "none"
                   /\ child'[c].at \in (FullAt + 1)..OutAt => partial'["full"] = "whole"
  <2>1. UNCHANGED <<dir, offline>> /\ (d # "full" => partial'["full"] = partial["full"])
    BY <1>0, <1>13 DEF Close, Published
  <2>2. (Doing(c, "write", d) \/ Doing(c, "seal", d)) /\ Advance(c)
    BY <1>13 DEF Close
  <2>3. k \in 1..11 /\ k # OutAt /\ (d = "full" <=> k = FullAt)
    BY <1>0, <2>2, StagePlaces
  <2>4. d = "full" => partial'["full"] = "whole"
    <3>1. SUFFICES ASSUME d = "full" PROVE partial'["full"] = "whole"
      OBVIOUS
    <3>2. ~Doing(c, "write", "output")
      <4>1. SUFFICES ASSUME Doing(c, "write", "output") PROVE FALSE
        OBVIOUS
      <4>2. k = FullAt
        BY <2>3, <3>1
      <4>3. QED
        BY <1>0, <4>1, <4>2, StagePlaces
    <3>3. QED
      BY <1>0, <1>13, <3>1, <3>2 DEF Close
  <2>5. QED
    BY <1>3, <1>4, <1>7, <2>1, <2>2, <2>3, <2>4 DEF HasKey
<1>14. ASSUME NEW d \in Published, Publish(c, d)
       PROVE  /\ dir'["output"] # "none" => HasKey'
              /\ child'[c].state = "run" =>
                   /\ child'[c].at \in 1..OutAt => dir'["output"] = "none"
                   /\ child'[c].at \in (FullAt + 1)..OutAt => partial'["full"] = "whole"
  <2>1. Doing(c, "publish", d) /\ offline' = offline /\ (Advance(c) \/ Die(c))
    BY <1>14 DEF Publish
  <2>2. /\ k \in 1..11 /\ k # FullAt
        /\ d = "output" <=> k = OutAt
        /\ d = "full" => k > OutAt
    BY <1>0, <2>1, StagePlaces
  <2>3. CASE UNCHANGED <<dir, partial>>
    BY <1>3, <1>4, <1>6, <1>7, <1>14, <2>1, <2>2, <2>3 DEF HasKey, Publish
  <2>4. CASE /\ dir[d] = "none"
             /\ dir' = [dir EXCEPT ![d] = partial[d]]
             /\ partial' = [partial EXCEPT ![d] = "none"]
             /\ Advance(c)
    <3>1. CASE d = "output"
      <4>1. partial["full"] = "whole" /\ partial'["full"] = "whole"
        BY <1>0, <1>3, <1>4, <2>2, <2>4, <3>1 DEF Published
      <4>2. child'[c].at \notin 1..OutAt
        BY <1>4, <1>7, <2>2, <2>4, <3>1
      <4>3. (FullAt + 1)..OutAt \subseteq 1..OutAt
        BY <1>4
      <4>4. QED
        BY <4>1, <4>2, <4>3 DEF HasKey
    <3>2. CASE d = "full"
      <4>1. dir'["full"] = partial["full"] /\ dir'["output"] = dir["output"]
        BY <1>0, <2>4, <3>2 DEF Published
      <4>2. child'[c].at > OutAt
        BY <1>4, <1>7, <2>2, <2>4, <3>2
      <4>3. dir["full"] # "whole"
        BY <2>4, <3>2
      <4>4. QED
        BY <1>0, <1>3, <1>4, <1>7, <2>1, <4>1, <4>2, <4>3, <2>4 DEF HasKey
    <3>3. CASE d = "tee"
      <4>1. /\ dir'["full"] = dir["full"] /\ dir'["output"] = dir["output"]
            /\ partial'["full"] = partial["full"]
        BY <1>0, <2>4, <3>3 DEF Published
      <4>2. QED
        BY <1>3, <1>4, <1>7, <2>1, <2>2, <2>4, <3>3, <4>1 DEF HasKey
    <3>4. QED
      BY <3>1, <3>2, <3>3 DEF Published
  <2>5. QED
    BY <1>14, <2>3, <2>4 DEF Publish
<1>15. QED
  BY <1>8, <1>9, <1>10, <1>11, <1>12, <1>13, <1>14 DEF Converter

\* The runner never publishes an output, and the key only moves on.
LEMMA RunnerKey ==
  ASSUME Typed, Runner
  PROVE  /\ dir'["output"] = dir["output"]
         /\ partial["full"] = "whole" => partial'["full"] = "whole"
         /\ HasKey => HasKey'
<1> USE DEF HasKey, Goto, Stop
<1>0. /\ dir \in [Published \cup {"online"} -> Contents]
      /\ partial \in [Published -> Contents]
  BY DEF Typed, IInv, FilesTyped
<1>1. CASE Begin \/ Wait \/ Verify \/ Complete
  BY <1>1 DEF Begin, Wait, Verify, Complete, files
<1>2. CASE Prepare
  BY <1>0, <1>2 DEF Prepare, Published
<1>3. CASE \E c \in Converters : Spawn(c)
  BY <1>3 DEF Spawn, files
<1>4. CASE Finalize \/ SplitOffline
  BY <1>4 DEF Finalize, SplitOffline
<1>5. CASE SplitOnline
  BY <1>0, <1>5 DEF SplitOnline, Published
<1>6. CASE FinalizeTee
  BY <1>0, <1>6 DEF FinalizeTee, Published
<1>7. CASE RenameMaster
  BY <1>7 DEF RenameMaster
<1>8. CASE Encrypt
  BY <1>8 DEF Encrypt
<1>9. CASE WriteManifest \/ Seal
  BY <1>9 DEF WriteManifest, Seal
<1>10. CASE Remove
  BY <1>0, <1>10 DEF Remove, Published
<1>11. QED
  BY <1>1, <1>2, <1>3, <1>4, <1>5, <1>6, <1>7, <1>8, <1>9, <1>10 DEF Runner

LEMMA NextKeyFirst ==
  ASSUME Typed, OneConverter, KeyFirst, [Next]_vars
  PROVE  KeyFirst'
<1>0. /\ UNCHANGED setting /\ ChildTyped
      /\ FullAt' = FullAt /\ OutAt' = OutAt /\ FullAt \in Nat
  BY FaultsGrow DEF Typed, FullAt, OutAt
<1> SUFFICES ASSUME "crash" \notin setting.faults
             PROVE  KeyFirst'
  BY <1>0 DEF KeyFirst
<1>1. CASE \E c \in Converters : Converter(c)
  BY <1>0, <1>1, ConverterKey
<1>2. ASSUME /\ dir'["output"] = dir["output"]
             /\ partial["full"] = "whole" => partial'["full"] = "whole"
             /\ HasKey => HasKey',
             \A x \in Converters : child'[x].state = "run" =>
               child'[x] = child[x] \/ child'[x].at = 0
      PROVE  KeyFirst'
  BY <1>0, <1>2 DEF KeyFirst
<1>3. CASE Runner
  <2>1. CASE \E c \in Converters : Spawn(c)
    BY <1>0, <1>2, <1>3, <2>1, RunnerKey DEF Spawn, Process, ChildTyped
  <2>2. CASE ~\E c \in Converters : Spawn(c)
    BY <1>2, <1>3, <2>2, RunnerKey, RunnerChildren
  <2>3. QED
    BY <2>1, <2>2
<1>4. CASE Pause \/ Crash
  BY <1>2, <1>4 DEF Pause, Crash, files, HasKey
<1>5. CASE Kill
  BY <1>2, <1>5 DEF Kill, Fresh, Process, files, HasKey
<1>6. CASE \E c \in Converters : ConverterFails(c)
  <2>1. PICK c \in Converters : ConverterFails(c)
    BY <1>6
  <2>2. child' = [child EXCEPT ![c] = Process("failed", child[c].at, FALSE)] /\ UNCHANGED files
    BY <2>1 DEF ConverterFails, Die
  <2>3. \A x \in Converters : child'[x].state = "run" => child'[x] = child[x]
    BY <1>0, <2>2 DEF ChildTyped, Process
  <2>4. QED
    BY <1>2, <2>2, <2>3 DEF files, HasKey
<1>7. CASE UNCHANGED vars
  BY <1>2, <1>7 DEF vars, files, HasKey
<1>8. QED
  BY <1>1, <1>3, <1>4, <1>5, <1>6, <1>7 DEF Next

-----------------------------------------------------------------------------
\* The first converter of a TEE job does not fail, and its files are where its
\* program has got to.
LEMMA ConverterReaches ==
  ASSUME Typed, OneConverter, setting.tee, faults = 0, NEW c \in Converters,
         Converter(c), Reached(child[c].at)
  PROVE  /\ child'[c].state \in {"run", "ok"}
         /\ child'[c].state = "ok" => child'[c].at = 12
         /\ Reached(child[c].at)'
<1>k. PICK k \in Nat : k = child[c].at
  BY AtType DEF Typed
<1> USE <1>k
<1>0. /\ ChildTyped
      /\ dir \in [Published \cup {"online"} -> Contents]
      /\ partial \in [Published -> Contents]
  BY DEF Typed, IInv, FilesTyped
<1>1. \A d \in Published : ~Held(c, d)
  BY <1>0, ConverterMoves DEF OneConverter, Held
<1>2. /\ \A d \in Published : MakeAt[d] \in 1..3 /\ PublishAt[d] \in 8..10
      /\ MakeAt["output"] = 1 /\ MakeAt["full"] = 2 /\ MakeAt["tee"] = 3
      /\ PublishAt["output"] = 8 /\ PublishAt["full"] = 9 /\ PublishAt["tee"] = 10
  BY DEF MakeAt, PublishAt, Published
<1>3. Advance(c) => child'[c].state = "run" /\ child'[c].at = k + 1
  BY <1>0 DEF Advance, ChildTyped, Process
<1>4. \A d \in Published :
        /\ k <= PublishAt[d] => dir[d] = "none"
        /\ k <= MakeAt[d] => partial[d] = "none"
        /\ k \in (MakeAt[d] + 1)..PublishAt[d] => partial[d] # "none"
        /\ d = "full" /\ k \in 7..9 => partial[d] = "whole"
        /\ d = "full" /\ k >= 10 => dir[d] = "whole"
  BY DEF Reached
<1>5. ASSUME NEW what, NEW d, Doing(c, what, d)
      PROVE  k \in 1..11 /\ TeeProgram[k] = <<what, d>>
  BY <1>5, ProgramSize DEF Doing
<1>6. ASSUME k = 0, UNCHANGED <<dir, partial>>
      PROVE  Reached(k + 1)'
  BY <1>2, <1>4, <1>6 DEF Reached
<1>7. CASE Check(c)
  <2>1. k = 0 /\ UNCHANGED <<dir, partial>>
    BY <1>7 DEF Check, files
  <2>2. \A d \in Outputs : dir[d] = "none" /\ partial[d] = "none"
    BY <1>2, <1>4, <2>1 DEF Outputs, Published
  <2>3. Advance(c)
    BY <1>7, <2>2 DEF Check
  <2>4. Reached(k + 1)'
    BY <1>6, <2>1
  <2>5. QED
    BY <1>3, <2>3, <2>4 DEF Reached
<1>8. CASE Exit(c)
  <2>1. k = 12 /\ UNCHANGED <<dir, partial>>
    <3>1. Len(Program) = 11
      BY ProgramSize
    <3>2. k = Len(Program) + 1 /\ UNCHANGED files
      BY <1>8 DEF Exit
    <3>3. QED
      BY <3>1, <3>2 DEF files
  <2>2. child'[c] = Process("ok", k, FALSE)
    BY <1>0, <1>8 DEF Exit, ChildTyped
  <2>3. child'[c].state = "ok" /\ child'[c].at = 12
    BY <2>1, <2>2 DEF Process
  <2>4. QED
    BY <1>4, <2>1, <2>3 DEF Reached
<1>9. CASE Sweep(c)
  <2>1. k = 11
    BY <1>5, <1>9, TeePlaces DEF Sweep
  <2>2. /\ dir' = dir /\ Advance(c) /\ partial' = [partial EXCEPT !["output"] = "none"]
    BY <1>1, <1>9 DEF Sweep, Published
  <2>3. Reached(12)'
    BY <1>0, <1>2, <1>4, <2>1, <2>2 DEF Reached
  <2>4. QED
    BY <1>3, <2>1, <2>2, <2>3
<1>10. ASSUME NEW d \in Published, Make(c, d)
       PROVE  Advance(c) /\ Reached(k + 1)'
  <2>1. k = MakeAt[d] /\ k \in 1..3
    BY <1>2, <1>5, <1>10, TeePlaces DEF Make
  <2>2. partial[d] = "none"
    BY <1>4, <2>1
  <2>3. Advance(c) /\ dir' = dir /\ partial' = [partial EXCEPT ![d] = "empty"]
    BY <1>10, <2>2 DEF Make
  <2>4. \A x \in Published : x # d => MakeAt[x] # MakeAt[d]
    BY <1>2 DEF Published
  <2>5. QED
    BY <1>0, <1>2, <1>4, <2>1, <2>3, <2>4 DEF Reached
<1>11. ASSUME NEW d \in Published, Open(c, d)
       PROVE  /\ child'[c].state = "run" /\ child'[c].at = k
              /\ Reached(k)'
  <2>1. k \in 4..7 /\ (d = "full" => k = 6)
    BY <1>5, <1>11, TeePlaces DEF Open
  <2>2. partial[d] # "none"
    BY <1>2, <1>4, <2>1
  <2>3. /\ dir' = dir /\ partial' = [partial EXCEPT ![d] = "some"]
        /\ child' = [child EXCEPT ![c] = Process("run", k, TRUE)]
    BY <1>11, <2>2 DEF Open
  <2>4. Reached(k)'
    BY <1>0, <1>2, <1>4, <2>1, <2>3 DEF Reached
  <2>5. QED
    BY <1>0, <2>3, <2>4 DEF ChildTyped, Process
<1>12. ASSUME NEW d \in Published, Close(c, d)
       PROVE  Advance(c) /\ Reached(k + 1)'
  <2>1. k \in 4..7 /\ (d = "full" <=> k = 6)
    BY <1>5, <1>12, TeePlaces DEF Close
  <2>2. k = 6 => ~Doing(c, "write", "output")
    BY <1>5, TeePlaces
  <2>3. PICK v \in {"some", "whole"} : partial' = [partial EXCEPT ![d] = v] /\ (k = 6 => v = "whole")
    BY <1>12, <2>2 DEF Close
  <2>4. dir' = dir /\ Advance(c)
    BY <1>12 DEF Close
  <2>5. QED
    BY <1>0, <1>2, <1>4, <2>1, <2>3, <2>4 DEF Reached
<1>13. ASSUME NEW d \in Published, Publish(c, d)
       PROVE  Advance(c) /\ Reached(k + 1)'
  <2>1. k = PublishAt[d] /\ k \in 8..10
    BY <1>2, <1>5, <1>13, TeePlaces DEF Publish
  <2>2. partial[d] # "none" /\ dir[d] = "none" /\ (d = "full" => partial[d] = "whole")
    BY <1>2, <1>4, <2>1
  <2>3. /\ Advance(c) /\ dir' = [dir EXCEPT ![d] = partial[d]]
        /\ partial' = [partial EXCEPT ![d] = "none"]
    BY <1>1, <1>13, <2>2 DEF Publish
  <2>4. \A x \in Published : x # d => PublishAt[x] # PublishAt[d]
    BY <1>2 DEF Published
  <2>5. QED
    BY <1>0, <1>2, <1>4, <2>1, <2>2, <2>3, <2>4 DEF Reached
<1>14. ASSUME Advance(c), Reached(k + 1)'
       PROVE  /\ child'[c].state \in {"run", "ok"}
              /\ child'[c].state = "ok" => child'[c].at = 12
              /\ Reached(child[c].at)'
  BY <1>3, <1>14 DEF Reached
<1>15. QED
  BY <1>7, <1>8, <1>9, <1>10, <1>11, <1>12, <1>13, <1>14 DEF Converter

\* No step of a TEE job's runner undoes the sealing.
LEMMA SealedStays ==
  ASSUME Typed, setting.tee, [Next]_vars, offline = "sealed"
  PROVE  offline' = "sealed"
<1> USE DEF Goto, Stop
<1>1. CASE \E c \in Converters : Converter(c) \/ ConverterFails(c)
  BY <1>1 DEF Converter, ConverterFails, Check, Sweep, Exit, Make, Open, Close,
     Publish, files
<1>2. CASE Pause \/ Crash \/ Kill \/ UNCHANGED vars
  BY <1>2 DEF Pause, Crash, Kill, files, vars
<1>3. CASE Runner
  <2>1. CASE Begin \/ Prepare \/ Wait \/ \E c \in Converters : Spawn(c)
    BY <2>1 DEF Begin, Prepare, Wait, Spawn, files
  <2>2. CASE Finalize \/ SplitOnline \/ SplitOffline
    BY <2>2 DEF Finalize, SplitOnline, SplitOffline, Typed, IInv, Split
  <2>3. CASE FinalizeTee \/ RenameMaster \/ Encrypt \/ WriteManifest
    BY <2>3 DEF FinalizeTee, RenameMaster, Encrypt, WriteManifest
  <2>4. CASE Verify \/ Seal \/ Remove \/ Complete
    BY <2>4 DEF Verify, Seal, Remove, Complete, files
  <2>5. QED
    BY <1>3, <2>1, <2>2, <2>3, <2>4 DEF Runner
<1>4. QED
  BY <1>1, <1>2, <1>3 DEF Next

\* Nor does any, before the first fault, leave the way to it.
LEMMA NextFirstRun ==
  ASSUME Typed, OneConverter, FirstRun, [Next]_vars
  PROVE  FirstRun'
<1>0. UNCHANGED setting /\ (faults' = 0 => faults = 0)
  BY FaultsGrow
<1> SUFFICES ASSUME setting.tee, faults = 0, UNCHANGED faults,
                    offline # "sealed", offline' # "sealed"
             PROVE  FirstRun'
  BY <1>0, SealedStays, FaultsGrow DEF FirstRun
<1> USE DEF Early
<1>1. /\ pc \in Early \cup {"wait", "finalize", "rename", "encrypt", "manifest"}
      /\ pc \in Early \cup {"wait", "finalize"} => offline = "none"
      /\ pc \in Early => Reached(0)
      /\ pc = "wait" =>
           /\ child[mine].state \in {"run", "ok"}
           /\ child[mine].state = "ok" => child[mine].at = 12
           /\ Reached(child[mine].at)
      /\ pc = "finalize" => dir["full"] = "whole"
      /\ pc = "rename" => offline = "moved"
      /\ pc = "encrypt" => offline = "plain"
      /\ pc = "manifest" => offline = "cipher"
  BY DEF FirstRun
<1>2. /\ ChildTyped /\ mine \in Converters
      /\ dir \in [Published \cup {"online"} -> Contents]
      /\ partial \in [Published -> Contents]
  BY DEF Typed, IInv, FilesTyped, Plain
<1>3. ASSUME NEW kind, Fault(kind)
      PROVE  FALSE
  BY <1>3 DEF Fault
<1>4. ASSUME pc \in Early, pc' \in Early, UNCHANGED <<dir, partial, offline>>
      PROVE  FirstRun'
  BY <1>1, <1>4 DEF FirstRun, Reached
<1>5. CASE \E c \in Converters : Converter(c)
  <2>1. PICK c \in Converters : Converter(c)
    BY <1>5
  <2>2. c = mine /\ pc = "wait" /\ UNCHANGED <<pc, mine>>
    BY <1>2, <2>1, ConverterMoves DEF OneConverter
  <2>3. UNCHANGED offline
    BY <2>1 DEF Converter, Check, Sweep, Exit, Make, Open, Close, Publish, files
  <2>4. /\ child'[mine].state \in {"run", "ok"}
        /\ child'[mine].state = "ok" => child'[mine].at = 12
        /\ Reached(child[mine].at)'
    BY <1>1, <2>1, <2>2, ConverterReaches
  <2>5. QED
    BY <1>1, <2>2, <2>3, <2>4 DEF FirstRun
<1>6. CASE Pause \/ Crash \/ Kill \/ \E c \in Converters : ConverterFails(c)
  BY <1>3, <1>6 DEF Pause, Crash, Kill, ConverterFails
<1>7. CASE Begin
  <2>1. dir["output"] = "none"
    <3>1. PublishAt["output"] = 8
      BY DEF PublishAt
    <3>2. QED
      BY <1>1, <1>7, <3>1 DEF Begin, Reached, Published
  <2>2. QED
    BY <1>4, <1>7, <2>1 DEF Begin, Goto, files
<1>8. CASE Prepare
  <2>1. pc = "prepare" /\ UNCHANGED <<dir, offline>>
    BY <1>8 DEF Prepare
  <2>2. \A d \in Published : partial[d] = "none"
    <3>1. \A d \in Published : 0 <= MakeAt[d]
      BY DEF MakeAt, Published
    <3>2. QED
      BY <1>1, <2>1, <3>1 DEF Reached
  <2>3. \A d \in Published : partial'[d] = "none"
    BY <1>8, <2>2 DEF Prepare
  <2>4. pc' \in Early
    BY <1>8 DEF Prepare, Goto, Stop
  <2>5. Reached(0)'
    BY <1>1, <2>1, <2>2, <2>3 DEF Reached
  <2>6. QED
    BY <1>1, <2>1, <2>4, <2>5 DEF FirstRun
<1>9. CASE \E c \in Converters : Spawn(c)
  <2>1. PICK c \in Converters : Spawn(c)
    BY <1>9
  <2>2. /\ pc = "spawn" /\ pc' = "wait" /\ mine' = c
        /\ UNCHANGED <<dir, partial, offline>>
        /\ child' = [child EXCEPT ![c] = Process("run", 0, FALSE)]
    BY <2>1 DEF Spawn, files
  <2>3. child'[mine'].state = "run" /\ child'[mine'].at = 0
    BY <1>2, <2>2 DEF ChildTyped, Process
  <2>4. Reached(child[mine].at)'
    BY <1>1, <2>2, <2>3 DEF Reached
  <2>5. QED
    BY <1>1, <2>2, <2>3, <2>4 DEF FirstRun
<1>10. CASE Wait
  <2>1. child[mine].at = 12 /\ Reached(12) /\ child[mine].state = "ok"
    BY <1>1, <1>10 DEF Wait
  <2>2. dir["full"] = "whole"
    BY <2>1 DEF Reached, Published
  <2>3. QED
    BY <1>1, <1>10, <2>1, <2>2 DEF Wait, Goto, files, FirstRun
<1>11. CASE FinalizeTee
  BY <1>1, <1>11 DEF FinalizeTee, Goto, FirstRun
<1>12. CASE RenameMaster
  BY <1>1, <1>12 DEF RenameMaster, Goto, FirstRun
<1>13. CASE Encrypt
  BY <1>1, <1>3, <1>13 DEF Encrypt, Goto, FirstRun
<1>14. CASE WriteManifest
  BY <1>14 DEF WriteManifest
<1>15. CASE Finalize \/ SplitOnline \/ SplitOffline \/ Verify \/ Seal \/ Remove \/ Complete
  BY <1>1, <1>15 DEF Finalize, SplitOnline, SplitOffline, Verify, Seal, Remove, Complete
<1>16. CASE UNCHANGED vars
  BY <1>1, <1>16 DEF vars, files, FirstRun, Reached
<1>17. QED
  BY <1>5, <1>6, <1>7, <1>8, <1>9, <1>10, <1>11, <1>12, <1>13, <1>14, <1>15, <1>16
     DEF Next, Runner

LEMMA InitKeyInv == Init => KeyInv
<1> SUFFICES ASSUME Init
             PROVE  KeyInv
  OBVIOUS
<1>1. \A c \in Converters : child[c].state # "run"
  BY DEF Init, Fresh, Process
<1>2. Reached(0)
  BY DEF Init, Reached, Published, MakeAt, PublishAt
<1>3. QED
  BY <1>1, <1>2 DEF Init, KeyInv, OneConverter, KeyFirst, FirstRun, Early, Published

\* A published package always has its key somewhere, unless the application
\* dies under a converter; and a TEE job that met no fault has encrypted the
\* key when it is done: a converter writes the key whole before it publishes
\* the output, and before the first fault the runner takes no other way.
THEOREM PublishedPackagesHaveKeys == Spec => []PublishedHasItsKey
<1>1. Init => Typed
  BY InitTyped, InitIInv DEF Typed
<1>2. KeyInv /\ Typed /\ [Next]_vars => KeyInv'
  BY NextOneConverter, NextKeyFirst, NextFirstRun DEF KeyInv
<1>3. KeyInv => PublishedHasItsKey
  BY DEF KeyInv, KeyFirst, FirstRun, HasKey, Early, PublishedHasItsKey
<1>4. QED
  BY <1>1, <1>2, <1>3, InitKeyInv, TypedNext, PTL DEF Spec

-----------------------------------------------------------------------------
(* The orders of a key.                                                      *)

\* A permutation reaches every place from one place, and no other.
LEMMA PermutationFacts ==
    ASSUME NEW n \in Nat, NEW tau \in PermutationsOf(n)
    PROVE  /\ tau \in [Places(n) -> Places(n)]
           /\ \A i, j \in Places(n) : tau[i] = tau[j] => i = j
           /\ InversePermutation(tau) \in [Places(n) -> Places(n)]
           /\ \A v \in Places(n) : tau[InversePermutation(tau)[v]] = v
<1>1. tau \in [Places(n) -> Places(n)]
  BY DEF PermutationsOf
<1>2. \A v \in Places(n) : \E i \in Places(n) :
        tau[i] = v /\ \A j \in Places(n) : tau[j] = v => j = i
  BY DEF PermutationsOf
<1>3. ASSUME NEW i \in Places(n), NEW j \in Places(n), tau[i] = tau[j]
      PROVE  i = j
  <2>1. PICK k \in Places(n) : \A l \in Places(n) : tau[l] = tau[i] => l = k
    BY <1>1, <1>2
  <2> QED BY <1>3, <2>1
<1>4. ASSUME NEW v \in Places(n)
      PROVE  /\ InversePermutation(tau)[v] \in Places(n)
             /\ tau[InversePermutation(tau)[v]] = v
  BY <1>1, <1>2 DEF InversePermutation
<1>5. InversePermutation(tau) \in [Places(n) -> Places(n)]
  BY <1>1, <1>4 DEF InversePermutation
<1> QED BY <1>1, <1>3, <1>4, <1>5

\* The inverse of a vocabulary key is one: what decodes answers is a permutation,
\* as decode_private requires.
THEOREM InverseIsPermutation ==
    ASSUME NEW n \in Nat, NEW tau \in PermutationsOf(n)
    PROVE  InversePermutation(tau) \in PermutationsOf(n)
<1> DEFINE inverse == InversePermutation(tau)
<1>1. /\ tau \in [Places(n) -> Places(n)]
      /\ \A i, j \in Places(n) : tau[i] = tau[j] => i = j
      /\ inverse \in [Places(n) -> Places(n)]
      /\ \A v \in Places(n) : tau[inverse[v]] = v
  BY PermutationFacts
<1> HIDE DEF inverse
<1>2. ASSUME NEW v \in Places(n)
      PROVE  /\ inverse[tau[v]] = v
             /\ \A j \in Places(n) : inverse[j] = v => j = tau[v]
  BY <1>1
<1>3. \A v \in Places(n) : \E i \in Places(n) :
        inverse[i] = v /\ \A j \in Places(n) : inverse[j] = v => j = i
  BY <1>1, <1>2
<1>4. inverse \in PermutationsOf(n)
  BY <1>1, <1>3 DEF PermutationsOf
<1> QED BY <1>4 DEF inverse

\* Decoding undoes encoding and encoding undoes decoding: a prompt encoded with
\* tau and an answer decoded with its inverse speak of the same vocabulary.
THEOREM DecodeUndoesEncode ==
    ASSUME NEW n \in Nat, NEW tau \in PermutationsOf(n), NEW token \in Places(n)
    PROVE  /\ EncodePrivate(token, tau) \in Places(n)
           /\ DecodePrivate(EncodePrivate(token, tau), tau) = token
           /\ EncodePrivate(DecodePrivate(token, tau), tau) = token
<1>1. /\ tau[token] \in Places(n)
      /\ InversePermutation(tau)[tau[token]] \in Places(n)
      /\ tau[InversePermutation(tau)[tau[token]]] = tau[token]
      /\ tau[InversePermutation(tau)[token]] = token
  BY PermutationFacts
<1>2. InversePermutation(tau)[tau[token]] = token
  BY <1>1, PermutationFacts
<1> QED BY <1>1, <1>2 DEF EncodePrivate, DecodePrivate

\* The private row of an encoded token is the row of the token: an embedding looks
\* up the token that was meant, and a logit scores the token its id decodes to.
THEOREM PrivateRowIsTokensRow ==
    ASSUME NEW n \in Nat, NEW tau \in PermutationsOf(n), NEW token \in Places(n),
           NEW weight
    PROVE  PermuteVocabRows(weight, tau)[EncodePrivate(token, tau)] = weight[token]
<1>1. /\ tau \in [Places(n) -> Places(n)]
      /\ tau[token] \in DOMAIN tau
  BY PermutationFacts
<1>2. InversePermutation(tau)[tau[token]] = token
  BY DecodeUndoesEncode DEF EncodePrivate, DecodePrivate
<1> QED BY <1>1, <1>2 DEF PermuteVocabRows, EncodePrivate

-----------------------------------------------------------------------------
\* A place is the sum of its group's first place and its place in the group, in
\* one way.
LEMMA PlaceSplits ==
    ASSUME NEW width \in Nat \ {0}, NEW n \in Nat, NEW i \in Places(n * width)
    PROVE  /\ i \div width \in Places(n) /\ i % width \in Places(width)
           /\ i = (i \div width) * width + (i % width)
<1>1. i \in Nat /\ i < n * width
  BY DEF Places
<1>2. i \div width \in Nat /\ i % width \in 0 .. width - 1
  BY <1>1
<1>3. i = (i \div width) * width + (i % width)
  BY <1>1
<1>4. i \div width < n
  <2>1. SUFFICES ASSUME i \div width >= n PROVE FALSE
    BY <1>2
  <2>2. (i \div width) * width >= n * width
    BY <1>2, <2>1
  <2> QED BY <1>1, <1>2, <1>3, <2>2
<1> QED BY <1>2, <1>3, <1>4 DEF Places

LEMMA PlaceJoins ==
    ASSUME NEW width \in Nat \ {0}, NEW n \in Nat, NEW q \in Places(n), NEW r \in Places(width)
    PROVE  /\ r + q * width \in Places(n * width)
           /\ (r + q * width) \div width = q /\ (r + q * width) % width = r
<1>1. q \in Nat /\ q + 1 <= n /\ r \in Nat /\ r < width
  BY DEF Places
<1>2. (q + 1) * width <= n * width
  BY <1>1
<1>3. (q + 1) * width = q * width + width
  BY <1>1
<1>4. r + q * width \in Nat /\ r + q * width < n * width
  BY <1>1, <1>2, <1>3
<1>5. (r + q * width) \div width = q /\ (r + q * width) % width = r
  BY <1>1
<1> QED BY <1>4, <1>5 DEF Places

\* The heads that share a key/value head stay together: the new place i, which reads
\* the key/value head i \div width, holds a head of the old group that moved there.
\* The same keeps an expert in the router's group that its group moved to.
THEOREM GroupsStayTogether ==
    ASSUME NEW width \in Nat \ {0}, NEW n \in Nat,
           NEW groupOrder \in PermutationsOf(n),
           NEW within \in [Places(n) -> PermutationsOf(width)],
           NEW i \in Places(n * width)
    PROVE  LET order == GroupedOrder(groupOrder, within, width, n)
           IN /\ order[i] \in Places(n * width)
              /\ order[i] \div width = groupOrder[i \div width]
              /\ order[i] % width = within[i \div width][i % width]
<1>1. i \div width \in Places(n) /\ i % width \in Places(width)
  BY PlaceSplits
<1>2. groupOrder[i \div width] \in Places(n)
  BY <1>1 DEF PermutationsOf
<1>3. within[i \div width] \in [Places(width) -> Places(width)]
  BY <1>1 DEF PermutationsOf
<1>4. within[i \div width][i % width] \in Places(width)
  BY <1>1, <1>3
<1>5. GroupedOrder(groupOrder, within, width, n)[i]
        = within[i \div width][i % width] + groupOrder[i \div width] * width
  BY DEF GroupedOrder
<1> QED BY <1>2, <1>4, <1>5, PlaceJoins

\* The order of all heads, or experts, made from one of groups and one in each group
\* loses none and repeats none: every tensor row of the source has one place.
THEOREM GroupedOrderIsPermutation ==
    ASSUME NEW width \in Nat \ {0}, NEW n \in Nat,
           NEW groupOrder \in PermutationsOf(n),
           NEW within \in [Places(n) -> PermutationsOf(width)]
    PROVE  GroupedOrder(groupOrder, within, width, n) \in PermutationsOf(n * width)
<1> DEFINE order == GroupedOrder(groupOrder, within, width, n)
<1>1. ASSUME NEW i \in Places(n * width)
      PROVE  /\ order[i] \in Places(n * width)
             /\ order[i] \div width = groupOrder[i \div width]
             /\ order[i] % width = within[i \div width][i % width]
  BY GroupsStayTogether
<1>2. order \in [Places(n * width) -> Places(n * width)]
  BY <1>1 DEF GroupedOrder
<1> HIDE DEF order
<1>3. ASSUME NEW v \in Places(n * width)
      PROVE  \E i \in Places(n * width) :
                order[i] = v /\ \A j \in Places(n * width) : order[j] = v => j = i
  <2> DEFINE g == InversePermutation(groupOrder)[v \div width]
  <2>1. v \div width \in Places(n) /\ v % width \in Places(width)
        /\ v = (v \div width) * width + (v % width)
    BY PlaceSplits
  <2>2. g \in Places(n) /\ groupOrder[g] = v \div width
    BY <2>1, PermutationFacts
  <2> HIDE DEF g
  <2>3. within[g] \in PermutationsOf(width)
    BY <2>2
  <2> DEFINE r == InversePermutation(within[g])[v % width]
  <2>4. r \in Places(width) /\ within[g][r] = v % width
    <3> DEFINE inner == within[g]
    <3>1. inner \in PermutationsOf(width) /\ width \in Nat
      BY <2>3
    <3> HIDE DEF inner
    <3>2. /\ InversePermutation(inner) \in [Places(width) -> Places(width)]
          /\ \A w \in Places(width) : inner[InversePermutation(inner)[w]] = w
      BY <3>1, PermutationFacts
    <3>3. /\ InversePermutation(inner)[v % width] \in Places(width)
          /\ inner[InversePermutation(inner)[v % width]] = v % width
      BY <2>1, <3>2
    <3> QED BY <3>3 DEF inner
  <2> HIDE DEF r
  <2> DEFINE i == r + g * width
  <2>5. i \in Places(n * width) /\ i \div width = g /\ i % width = r
    BY <2>2, <2>4, PlaceJoins
  <2> HIDE DEF i
  <2>6. order[i] = v
    <3>1. order[i] \div width = v \div width /\ order[i] % width = v % width
      BY <1>1, <2>2, <2>4, <2>5
    <3>2. order[i] \in Places(n * width)
      BY <1>2, <2>5
    <3>3. order[i] = (order[i] \div width) * width + (order[i] % width)
      BY <3>2, PlaceSplits
    <3> QED BY <2>1, <3>1, <3>3
  <2>7. ASSUME NEW j \in Places(n * width), order[j] = v
        PROVE  j = i
    <3>1. j \div width \in Places(n) /\ j % width \in Places(width)
          /\ j = (j \div width) * width + (j % width)
      BY PlaceSplits
    <3>2. groupOrder[j \div width] = groupOrder[g]
      BY <1>1, <2>2, <2>7
    <3>3. j \div width = g
      BY <2>2, <3>1, <3>2, PermutationFacts
    <3>4. within[g][j % width] = within[g][r]
      BY <1>1, <2>4, <2>7, <3>3
    <3>5. j % width = r
      <4> DEFINE inner == within[g]
      <4>1. inner \in PermutationsOf(width) /\ width \in Nat
        BY <2>3
      <4>2. inner[j % width] = inner[r]
        BY <3>4
      <4> HIDE DEF inner
      <4> QED BY <2>4, <3>1, <4>1, <4>2, PermutationFacts
    <3>6. i = (i \div width) * width + (i % width)
      BY <2>5, PlaceSplits
    <3> QED BY <2>5, <3>1, <3>3, <3>5, <3>6
  <2> QED BY <2>5, <2>6, <2>7
<1>4. n * width \in Nat
  OBVIOUS
<1>5. order \in PermutationsOf(n * width)
  BY <1>2, <1>3 DEF PermutationsOf
<1> QED BY <1>5 DEF order

-----------------------------------------------------------------------------
(* The streaming converters.                                                *)

\* No merge was stopped when it had overwritten a recorded shard.
Lucky == "overwritten" \notin unlucky
Shard(f) == f[1] = 0
Grouping == {"group", "merge"}
Merging == {"merge", "merged"}
Count(S) == IF S = {} THEN 0 ELSE 1

\* The files the progress and the merge name are there.
FilesNamed ==
  /\ Mapped \subseteq DOMAIN progress.record
  /\ Mapped \subseteq DOMAIN stored
  /\ at \in Grouping => merge.old = Mapped /\ DOMAIN progress.map = Tensors
  /\ at = "group" => merge.map = NoMap /\ merge.record = NoMap /\ merge.shards = 0
  /\ at \in Merging => Range(merge.map) \subseteq DOMAIN merge.record
  /\ at \in Merging => DOMAIN merge.record \subseteq DOMAIN stored
  /\ at \in Merging => \A f \in DOMAIN merge.record : stored[f] = merge.record[f]
  /\ at = "merged" => progress.map = merge.map /\ progress.record = merge.record

\* A tensor's own file holds that tensor, and no other.
OwnFiles ==
  \A t \in Tensors :
    LET f == TensorFile(t) IN
    /\ f \in DOMAIN stored => stored[f] = {t}
    /\ f \in DOMAIN progress.record => progress.record[f] = {t}
    /\ at \in Merging => (f \in DOMAIN merge.record => merge.record[f] = {t})

\* Every recorded file is in one place of the grouping.
Partitioned(mapped, groups, current, left) ==
  /\ \A f \in mapped : \/ f \in left \cup current
                       \/ \E k \in 1 .. Len(groups) : f \in groups[k]
  /\ left \subseteq mapped /\ current \subseteq mapped
  /\ left \cap current = {}
  /\ \A k \in 1 .. Len(groups) : /\ groups[k] \subseteq mapped
                                 /\ groups[k] \cap left = {}
                                 /\ groups[k] \cap current = {}
  /\ \A j, k \in 1 .. Len(groups) : j # k => groups[j] \cap groups[k] = {}
GroupsPartition ==
  at \in Grouping =>
    /\ at = "merge" => merge.left = {} /\ merge.current = {}
    /\ Partitioned(Mapped, merge.groups, merge.current, merge.left)

GroupBytes(S) == Bytes(UNION {progress.record[f] : f \in S})
\* A group is one large file, or fits in a shard.
Fit(groups, current, bytes) ==
  /\ bytes \in Nat /\ bytes <= MaxShardBytes
  /\ current = {} => bytes = 0
  /\ GroupBytes(current) <= bytes
  /\ \A k \in 1 .. Len(groups) : Alone(groups[k]) \/ GroupBytes(groups[k]) <= MaxShardBytes
GroupsFit ==
  at \in Grouping => Fit(merge.groups, merge.current, merge.bytes)

\* The shards of an earlier merge are small and of one merge.
ShardsAreSmall ==
  Lucky => /\ \A f \in Mapped : Shard(f) => FileBytes(f) <= MaxShardBytes
           /\ \A f, g \in Mapped : Shard(f) /\ Shard(g) => f[3] = g[3]

\* A shard of an earlier merge is read before its name is given again.
Ordered(groups, current, left) ==
  /\ \A f \in left : Shard(f) => f[2] > Len(groups) + Count(current)
  /\ \A f \in current : Shard(f) => f[2] > Len(groups)
  /\ \A k \in 1 .. Len(groups) : \A f \in groups[k] : Shard(f) => f[2] >= k
ShardsAreRead ==
  Lucky /\ at \in Grouping => Ordered(merge.groups, merge.current, merge.left)

\* What the merge has recorded.
Merged(f) ==
  \/ /\ Shard(f) /\ f[3] = Len(merge.groups) /\ f[2] <= merge.shards
     /\ Bytes(merge.record[f]) <= MaxShardBytes
  \/ ~Shard(f) /\ \E k \in 1 .. merge.shards : merge.groups[k] = {f}
MergeIsSound ==
  Lucky /\ at \in Merging =>
    /\ \A f \in DOMAIN merge.record : Merged(f)
    /\ \A t \in DOMAIN merge.map : t \in merge.record[merge.map[t]]
    /\ at = "merge" => \A k \in 1 .. merge.shards : \A f \in merge.groups[k] :
                         progress.record[f] \subseteq DOMAIN merge.map

\* The recorded files are what they were, but for those the merge writes.
FilesIntact ==
  Lucky =>
    /\ \A f \in Mapped : (at = "merge" /\ f \in DOMAIN merge.record)
                         \/ stored[f] = progress.record[f]
    /\ \A t \in DOMAIN progress.map : t \in progress.record[progress.map[t]]
    /\ at \in {"merged", "index"} => DOMAIN progress.map = Tensors

\* The tiles and the key.
TilesWritten ==
  /\ at = "wrote" => tensor \in Tensors /\ TensorFile(tensor) \in DOMAIN stored
  /\ at \in {"preallocate", "tiles", "tile"} => tensor \in Tensors
  /\ at = "tile" => \A k \in Tiles : NextTile(k) => k \in written[tensor]
  /\ Lucky => \A t \in Tensors : \/ progress.tiles[t] \subseteq written[t]
                                 \/ TensorFile(t) \in DOMAIN stored
                                 \/ t \in DOMAIN progress.map
  /\ at = "keyed" \/ progress.key => keyFile

\* Nothing is recorded before the first start.
FirstStart ==
  /\ place.output = "absent" => at = "idle" /\ progress = NoProgress
  /\ at = "start" => progress = NoProgress

IndexIsWhole ==
  /\ DOMAIN index = Tensors
  /\ \A t \in Tensors : index[t] \in DOMAIN stored /\ t \in stored[index[t]]
Indexed == {"offline", "online", "manifest", "drop", "publish output"}
Publishing == {"publish key", "publish online", "encrypt"}
Ended == {"scan", "completed", "failed", "idle"}
\* The index from when it is written; no step after the output's rename writes a file.
OutputPublished ==
  /\ place.output = "final" => at \in Publishing \cup Ended
  /\ at \in Publishing \cup {"scan", "completed"} => place.output = "final"
  /\ Lucky /\ (place.output = "final" \/ at \in Indexed) => IndexIsWhole

\* The keys and manifests of a conversion no stop in a window has met.
KeysPublished ==
  unlucky = {} =>
    /\ listing.output # "stale" /\ listing.online # "stale"
    /\ \/ listing.output = "none" \/ place.output = "final" \/ at = "publish output"
       \/ at = "drop" /\ IsDeepseek
    /\ \/ listing.online = "none" \/ place.output = "final"
       \/ at \in {"manifest", "drop", "publish output"}
    /\ at \in {"publish online", "encrypt"} => place.key = "final"
    /\ at = "encrypt" => place.online = "final"
    /\ place.output = "final" /\ at \in Ended =>
         place.key = "final" /\ place.online = "final" /\ encrypted /\ listing.key # "stale"

Counted(groups, current, left) ==
  /\ IsFiniteSet(left)
  /\ Len(groups) + Count(current) + Cardinality(left) <= NumTensors

Shapes ==
  /\ DOMAIN progress = {"there", "key", "map", "record", "tiles"}
  /\ DOMAIN merge =
       {"old", "left", "groups", "current", "bytes", "shards", "map", "record"}

StreamInv ==
  /\ StreamTypeOK /\ Shapes
  /\ merge.shards <= Len(merge.groups)
  /\ Counted(merge.groups, merge.current, merge.left)
  /\ FilesNamed /\ OwnFiles /\ GroupsPartition /\ GroupsFit /\ ShardsAreSmall /\ ShardsAreRead
  /\ MergeIsSound /\ FilesIntact /\ TilesWritten /\ FirstStart /\ OutputPublished
  /\ KeysPublished

LEMMA TensorsFinite ==
  ASSUME ConversionAssumption
  PROVE /\ IsFiniteSet(Tensors) /\ Cardinality(Tensors) = NumTensors
        /\ NumTensors \in Nat /\ NumTensors > 0
        /\ \A S \in SUBSET Tensors : IsFiniteSet(S)
<1>1. NumTensors \in Nat /\ NumTensors > 0
  BY DEF ConversionAssumption
<1>2. IsFiniteSet(1 .. NumTensors) /\ Cardinality(1 .. NumTensors) = NumTensors
  BY <1>1, FS_Interval
<1> QED BY <1>1, <1>2, FS_Subset DEF Tensors

\* The files a set of tensors is stored in: no more than there are tensors.
LEMMA MappedIsFinite ==
  ASSUME ConversionAssumption, DOMAIN progress.map = Tensors
  PROVE /\ IsFiniteSet(Mapped) /\ Cardinality(Mapped) <= NumTensors
<1> DEFINE g == [t \in Tensors |-> progress.map[t]]
<1>1. g \in Surjection(Tensors, Mapped)
  <2>1. g \in [Tensors -> Mapped]
    BY DEF Mapped, Range
  <2>2. \A f \in Mapped : \E t \in Tensors : g[t] = f
    BY DEF Mapped, Range
  <2> QED BY <2>1, <2>2 DEF Surjection
<1>2. IsFiniteSet(Mapped) /\ Cardinality(Mapped) <= Cardinality(Tensors)
  BY <1>1, TensorsFinite, FS_Surjection
<1> QED BY <1>2, TensorsFinite

Cells(S) == UNION {{t} \X (1 .. size[t]) : t \in S}
LEMMA CellsFinite ==
  ASSUME ConversionAssumption, StreamTypeOK, NEW S \in SUBSET Tensors
  PROVE IsFiniteSet(Cells(S)) /\ Bytes(S) = Cardinality(Cells(S)) /\ Bytes(S) \in Nat
<1>1. size \in [Tensors -> Nat \ {0}]
  BY DEF ConversionAssumption, StreamTypeOK, Tensors
<1>2. \A t \in Tensors : IsFiniteSet({t} \X (1 .. size[t]))
  <2> TAKE t \in Tensors
  <2>1. IsFiniteSet(1 .. size[t])
    BY <1>1, FS_Interval
  <2> QED BY <2>1, FS_Singleton, FS_Product
<1>3. IsFiniteSet(S)
  BY TensorsFinite
<1> DEFINE Parts == {{t} \X (1 .. size[t]) : t \in S}
<1>4. IsFiniteSet(Parts)
  <2> DEFINE h == [t \in S |-> {t} \X (1 .. size[t])]
  <2>1. h \in Surjection(S, Parts)
    <3>1. h \in [S -> Parts] OBVIOUS
    <3>2. \A p \in Parts : \E t \in S : h[t] = p OBVIOUS
    <3> HIDE DEF h, Parts
    <3> QED BY <3>1, <3>2 DEF Surjection
  <2> QED BY <1>3, <2>1, FS_Surjection
<1>5. \A p \in Parts : IsFiniteSet(p)
  BY <1>2
<1>6. IsFiniteSet(UNION Parts)
  BY <1>4, <1>5, FS_UNION
<1> QED BY <1>6, FS_CardinalityType DEF Cells, Bytes

\* The bytes of two sets of tensors together, and of none.
LEMMA BytesOfBoth ==
  ASSUME ConversionAssumption, StreamTypeOK, NEW S \in SUBSET Tensors, NEW T \in SUBSET Tensors
  PROVE Bytes(S \cup T) \in Nat /\ Bytes(S \cup T) <= Bytes(S) + Bytes(T)
<1>1. Cells(S \cup T) = Cells(S) \cup Cells(T)
  BY DEF Cells
<1>2. /\ IsFiniteSet(Cells(S)) /\ Bytes(S) = Cardinality(Cells(S)) /\ Bytes(S) \in Nat
      /\ IsFiniteSet(Cells(T)) /\ Bytes(T) = Cardinality(Cells(T)) /\ Bytes(T) \in Nat
      /\ Bytes(S \cup T) = Cardinality(Cells(S \cup T)) /\ Bytes(S \cup T) \in Nat
  BY CellsFinite
<1>3. Cardinality(Cells(S) \cup Cells(T))
        = Cardinality(Cells(S)) + Cardinality(Cells(T)) - Cardinality(Cells(S) \cap Cells(T))
  BY <1>2, FS_Union
<1>4. Cardinality(Cells(S) \cap Cells(T)) \in Nat
  BY <1>2, FS_Intersection, FS_CardinalityType
<1>5. Bytes(S \cup T) = Bytes(S) + Bytes(T) - Cardinality(Cells(S) \cap Cells(T))
  BY <1>1, <1>2, <1>3
<1>6. ASSUME NEW a \in Nat, NEW b \in Nat, NEW c \in Nat PROVE a + b - c <= a + b OBVIOUS
<1> QED BY <1>2, <1>4, <1>5, <1>6

LEMMA BytesOfNone ==
  Bytes({}) = 0
<1>1. UNION {{t} \X (1 .. size[t]) : t \in {}} = {} OBVIOUS
<1> QED BY <1>1, FS_EmptySet DEF Bytes

-----------------------------------------------------------------------------
(* The two steps of the grouping: to take a file, and to end the group.     *)
WithLast(groups, current) == IF current = {} THEN groups ELSE Append(groups, current)

LEMMA EndedGroups ==
  ASSUME NEW G \in Seq(SUBSET Names), NEW c \in SUBSET Names
  PROVE /\ WithLast(G, c) \in Seq(SUBSET Names)
        /\ Len(WithLast(G, c)) = Len(G) + Count(c) /\ Len(WithLast(G, c)) \in Nat
        /\ Len(G) \in Nat /\ Len(G) <= Len(WithLast(G, c))
        /\ \A k \in 1 .. Len(WithLast(G, c)) :
             \/ k \in 1 .. Len(G) /\ WithLast(G, c)[k] = G[k]
             \/ c # {} /\ k = Len(G) + 1 /\ WithLast(G, c)[k] = c
        /\ \A k \in 1 .. Len(G) : k \in 1 .. Len(WithLast(G, c)) /\ WithLast(G, c)[k] = G[k]
        /\ c # {} => /\ Len(G) + 1 \in 1 .. Len(WithLast(G, c))
                     /\ WithLast(G, c)[Len(G) + 1] = c
<1>1. CASE c = {}
  BY <1>1 DEF WithLast, Count
<1>2. CASE c # {}
  <2>1. /\ Append(G, c) \in Seq(SUBSET Names) /\ Len(Append(G, c)) = Len(G) + 1
        /\ \A k \in 1 .. Len(G) : Append(G, c)[k] = G[k]
        /\ Append(G, c)[Len(G) + 1] = c
    BY AppendProperties
  <2>2. Len(G) \in Nat
    OBVIOUS
  <2> QED BY <1>2, <2>1, <2>2 DEF WithLast, Count
<1> QED BY <1>1, <1>2

LEMMA EndKeepsPartition ==
  ASSUME NEW M, NEW G \in Seq(SUBSET Names), NEW c \in SUBSET Names, NEW L, Partitioned(M, G, c, L)
  PROVE Partitioned(M, WithLast(G, c), {}, L)
<1> DEFINE E == WithLast(G, c)
<1>1. /\ \A k \in 1 .. Len(E) : \/ k \in 1 .. Len(G) /\ E[k] = G[k]
                                \/ c # {} /\ k = Len(G) + 1 /\ E[k] = c
      /\ \A k \in 1 .. Len(G) : k \in 1 .. Len(E) /\ E[k] = G[k]
      /\ c # {} => Len(G) + 1 \in 1 .. Len(E) /\ E[Len(G) + 1] = c
  BY EndedGroups
<1>2. Len(G) \in Nat OBVIOUS
<1> HIDE DEF E
<1>3. \A f \in M : f \in L \cup {} \/ \E k \in 1 .. Len(E) : f \in E[k]
  BY <1>1 DEF Partitioned
<1>4. \A k \in 1 .. Len(E) : E[k] \subseteq M /\ E[k] \cap L = {} /\ E[k] \cap {} = {}
  BY <1>1 DEF Partitioned
<1>5. \A j, k \in 1 .. Len(E) : j # k => E[j] \cap E[k] = {}
  <2> SUFFICES ASSUME NEW j \in 1 .. Len(E), NEW k \in 1 .. Len(E), j # k
               PROVE E[j] \cap E[k] = {}
    OBVIOUS
  <2>1. CASE E[j] = G[j] /\ j \in 1 .. Len(G) /\ E[k] = G[k] /\ k \in 1 .. Len(G)
    BY <2>1 DEF Partitioned
  <2>2. CASE j = Len(G) + 1 /\ E[j] = c /\ E[k] = G[k] /\ k \in 1 .. Len(G)
    BY <2>2 DEF Partitioned
  <2>3. CASE k = Len(G) + 1 /\ E[k] = c /\ E[j] = G[j] /\ j \in 1 .. Len(G)
    BY <2>3 DEF Partitioned
  <2> QED BY <1>1, <2>1, <2>2, <2>3
<1>6. L \subseteq M /\ {} \subseteq M /\ L \cap {} = {}
  BY DEF Partitioned
<1> QED BY <1>3, <1>4, <1>5, <1>6 DEF Partitioned, E

LEMMA TakeKeepsPartition ==
  ASSUME NEW M, NEW G, NEW c, NEW L, NEW f \in L, Partitioned(M, G, c, L)
  PROVE Partitioned(M, G, c \cup {f}, L \ {f})
<1>1. \A x \in M : \/ x \in (L \ {f}) \cup (c \cup {f}) \/ \E k \in 1 .. Len(G) : x \in G[k]
  BY DEF Partitioned
<1>2. \A k \in 1 .. Len(G) : /\ G[k] \subseteq M
                             /\ G[k] \cap (L \ {f}) = {}
                             /\ G[k] \cap (c \cup {f}) = {}
  <2> TAKE k \in 1 .. Len(G)
  <2>1. G[k] \subseteq M /\ G[k] \cap L = {} /\ G[k] \cap c = {}
    BY DEF Partitioned
  <2> QED BY <2>1
<1>3. L \ {f} \subseteq M /\ c \cup {f} \subseteq M /\ (L \ {f}) \cap (c \cup {f}) = {}
  BY DEF Partitioned
<1>4. \A j, k \in 1 .. Len(G) : j # k => G[j] \cap G[k] = {}
  BY DEF Partitioned
<1> QED BY <1>1, <1>2, <1>3, <1>4 DEF Partitioned

LEMMA NamesTyped ==
  ASSUME ConversionAssumption
  PROVE /\ \A f \in Names : /\ f[1] \in {0, 1} /\ f[2] \in 1 .. NumTensors
                            /\ f[3] \in 0 .. NumTensors
                            /\ f[2] \in Nat /\ f[3] \in Nat
                            /\ ~Shard(f) => \E t \in Tensors : f = TensorFile(t)
        /\ \A t \in Tensors : TensorFile(t) \in Names /\ ~Shard(TensorFile(t))
        /\ \A t, u \in Tensors : TensorFile(t) = TensorFile(u) => t = u
        /\ \A i, n \in Tensors : ShardFile(i, n) \in Names /\ Shard(ShardFile(i, n))
        /\ \A i, n : ShardFile(i, n)[2] = i /\ ShardFile(i, n)[3] = n
<1>1. NumTensors \in Nat
  BY DEF ConversionAssumption
<1> QED BY <1>1 DEF Names, Shard, TensorFile, ShardFile, Tensors

LEMMA EndKeepsOrder ==
  ASSUME ConversionAssumption, NEW G \in Seq(SUBSET Names), NEW c \in SUBSET Names,
         NEW L \in SUBSET Names, Ordered(G, c, L)
  PROVE Ordered(WithLast(G, c), {}, L)
<1> DEFINE E == WithLast(G, c)
<1>1. /\ \A k \in 1 .. Len(E) : \/ k \in 1 .. Len(G) /\ E[k] = G[k]
                                \/ c # {} /\ k = Len(G) + 1 /\ E[k] = c
      /\ Len(E) = Len(G) + Count(c) /\ E \in Seq(SUBSET Names)
  BY EndedGroups
<1>2. Len(G) \in Nat /\ Count(c) \in Nat /\ Count({}) = 0
  BY DEF Count
<1> HIDE DEF E
<1>3. \A f \in L : Shard(f) => f[2] > Len(E) + Count({})
  BY <1>1, <1>2 DEF Ordered
<1>4. ASSUME NEW k \in 1 .. Len(E), NEW f \in E[k], Shard(f)
      PROVE f[2] >= k
  <2>0. f \in Names /\ f[2] \in Nat
    BY <1>1, NamesTyped
  <2>1. CASE k \in 1 .. Len(G) /\ E[k] = G[k]
    BY <1>4, <2>1 DEF Ordered
  <2>2. CASE c # {} /\ k = Len(G) + 1 /\ E[k] = c
    <3>1. f[2] > Len(G)
      BY <1>4, <2>2 DEF Ordered
    <3> QED BY <1>2, <2>0, <2>2, <3>1
  <2> QED BY <1>1, <2>1, <2>2
<1> QED BY <1>3, <1>4 DEF Ordered, E

\* The files come by their names, so the shards by their numbers.
LEMMA TakeKeepsOrder ==
  ASSUME ConversionAssumption, NEW G \in Seq(SUBSET Names), NEW c \in SUBSET Names,
         NEW L \in SUBSET Names, NEW f \in L, Ordered(G, c, L),
         \A g \in L \ {f} : Before(f, g),
         \A g, h \in L : Shard(g) /\ Shard(h) => g[3] = h[3]
  PROVE Ordered(G, c \cup {f}, L \ {f})
<1>1. Len(G) \in Nat /\ Count(c) \in {0, 1} /\ Count(c \cup {f}) = 1
  BY DEF Count
<1>2. ASSUME NEW g \in L \ {f}, Shard(g) PROVE g[2] > Len(G) + 1
  <2>1. f[1] \in {0, 1} /\ f[2] \in Nat /\ g[2] \in Nat /\ f[3] \in Nat /\ Before(f, g)
    BY NamesTyped
  <2>2. Shard(f)
    BY <1>2, <2>1 DEF Before, Shard
  <2>3. f[3] = g[3]
    BY <1>2, <2>2
  <2>4. f[2] < g[2]
    BY <1>2, <2>1, <2>2, <2>3 DEF Before, Shard
  <2>5. f[2] > Len(G) + Count(c)
    BY <2>2 DEF Ordered
  <2> QED BY <1>1, <2>1, <2>4, <2>5
<1>3. ASSUME NEW g \in c \cup {f}, Shard(g) PROVE g[2] > Len(G)
  <2>1. g[2] \in Nat
    BY NamesTyped
  <2>2. CASE g \in c
    BY <1>3, <2>2 DEF Ordered
  <2>3. CASE g = f
    <3>1. g[2] > Len(G) + Count(c)
      BY <1>3, <2>3 DEF Ordered
    <3> QED BY <1>1, <2>1, <3>1
  <2> QED BY <2>2, <2>3
<1>4. \A k \in 1 .. Len(G) : \A g \in G[k] : Shard(g) => g[2] >= k
  BY DEF Ordered
<1> QED BY <1>1, <1>2, <1>3, <1>4 DEF Ordered

LEMMA EndKeepsCount ==
  ASSUME NEW G \in Seq(SUBSET Names), NEW c \in SUBSET Names, NEW L, Counted(G, c, L)
  PROVE Counted(WithLast(G, c), {}, L)
<1>1. Len(WithLast(G, c)) = Len(G) + Count(c) /\ Count({}) = 0
  BY EndedGroups DEF Count
<1>2. Len(G) \in Nat /\ Count(c) \in Nat /\ Cardinality(L) \in Nat
  BY FS_CardinalityType DEF Count, Counted
<1> QED BY <1>1, <1>2 DEF Counted

LEMMA TakeKeepsCount ==
  ASSUME NumTensors \in Nat, NEW G \in Seq(SUBSET Names), NEW c, NEW L, NEW f \in L,
         Counted(G, c, L)
  PROVE Counted(G, c \cup {f}, L \ {f})
<1>1. IsFiniteSet(L \ {f}) /\ Cardinality(L \ {f}) = Cardinality(L) - 1
  BY FS_RemoveElement DEF Counted
<1>2. Len(G) \in Nat /\ Count(c) \in Nat /\ Cardinality(L) \in Nat /\ Count(c \cup {f}) = 1
  BY FS_CardinalityType DEF Count, Counted
<1> QED BY <1>1, <1>2 DEF Counted

LEMMA RecordsTyped ==
  ASSUME StreamTypeOK
  PROVE /\ \A f \in DOMAIN progress.record : progress.record[f] \in SUBSET Tensors
        /\ \A f \in DOMAIN stored : stored[f] \in SUBSET Tensors
<1>1. Range(progress.record) \subseteq SUBSET Tensors /\ Range(stored) \subseteq SUBSET Tensors
  BY DEF StreamTypeOK, IsMap
<1> QED BY <1>1 DEF Range

LEMMA GroupBytesTyped ==
  ASSUME ConversionAssumption, StreamTypeOK, NEW S, S \subseteq DOMAIN progress.record
  PROVE /\ UNION {progress.record[f] : f \in S} \in SUBSET Tensors
        /\ GroupBytes(S) \in Nat
<1>1. \A f \in S : progress.record[f] \subseteq Tensors
  BY RecordsTyped
<1>2. UNION {progress.record[f] : f \in S} \in SUBSET Tensors
  BY <1>1
<1> QED BY <1>2, CellsFinite DEF GroupBytes

Fits(group) == Alone(group) \/ GroupBytes(group) <= MaxShardBytes
LEMMA EndKeepsFit ==
  ASSUME ConversionAssumption, NEW G \in Seq(SUBSET Names), NEW c \in SUBSET Names,
         \A k \in 1 .. Len(G) : Fits(G[k]), c = {} \/ Fits(c)
  PROVE Fit(WithLast(G, c), {}, 0)
<1> DEFINE E == WithLast(G, c)
<1>1. \A k \in 1 .. Len(E) : \/ k \in 1 .. Len(G) /\ E[k] = G[k]
                             \/ c # {} /\ k = Len(G) + 1 /\ E[k] = c
  BY EndedGroups
<1> HIDE DEF E
<1>2. MaxShardBytes \in Nat
  BY DEF ConversionAssumption
<1>3. GroupBytes({}) = 0
  <2>1. UNION {progress.record[f] : f \in {}} = {} OBVIOUS
  <2> QED BY <2>1, BytesOfNone DEF GroupBytes
<1>4. \A k \in 1 .. Len(E) : Fits(E[k])
  BY <1>1
<1>5. GroupBytes({}) <= 0 /\ 0 \in Nat /\ 0 <= MaxShardBytes
  BY <1>2, <1>3
<1> QED BY <1>4, <1>5 DEF Fit, E, Fits

LEMMA TakeKeepsFit ==
  ASSUME ConversionAssumption, StreamTypeOK, NEW G, NEW c, NEW b, Fit(G, c, b),
         c \subseteq DOMAIN progress.record, NEW f \in DOMAIN progress.record,
         b + FileBytes(f) <= MaxShardBytes
  PROVE Fit(G, c \cup {f}, b + FileBytes(f))
<1> DEFINE held == UNION {progress.record[g] : g \in c}
<1>1. held \in SUBSET Tensors /\ GroupBytes(c) = Bytes(held) /\ GroupBytes(c) \in Nat
  BY GroupBytesTyped DEF GroupBytes
<1>2. progress.record[f] \in SUBSET Tensors
  BY RecordsTyped
<1>3. UNION {progress.record[g] : g \in c \cup {f}} = held \cup progress.record[f]
  OBVIOUS
<1> HIDE DEF held
<1>4. /\ Bytes(held \cup progress.record[f]) <= Bytes(held) + Bytes(progress.record[f])
      /\ Bytes(held \cup progress.record[f]) \in Nat
  BY <1>1, <1>2, BytesOfBoth
<1>5. Bytes(progress.record[f]) \in Nat /\ FileBytes(f) = Bytes(progress.record[f])
  BY <1>2, CellsFinite DEF FileBytes
<1>6. GroupBytes(c \cup {f}) <= GroupBytes(c) + FileBytes(f)
  BY <1>1, <1>3, <1>4, <1>5 DEF GroupBytes
<1>7. GroupBytes(c \cup {f}) \in Nat
  BY <1>3, <1>4 DEF GroupBytes
<1>8. b \in Nat /\ GroupBytes(c) <= b
  BY DEF Fit
<1>10. c \cup {f} # {} OBVIOUS
<1>9. GroupBytes(c \cup {f}) <= b + FileBytes(f) /\ b + FileBytes(f) \in Nat
  BY <1>1, <1>5, <1>6, <1>7, <1>8, SMT
<1> QED BY <1>9, <1>10 DEF Fit

-----------------------------------------------------------------------------
(* What a step does to the merge, the progress and the files.               *)
Busy == {"group", "merge", "merged"}
Elsewhere(place_) == place_ \notin Busy \cup {"index"}
MergeKept ==
  /\ merge'.old = merge.old /\ merge'.shards = merge.shards
  /\ merge'.map = merge.map /\ merge'.record = merge.record
Kept == UNCHANGED <<size, progress, stored, unlucky>>

QuietStep ==
  /\ at' = at \/ (at \notin Busy /\ Elsewhere(at'))
  /\ UNCHANGED <<size, merge, stored, unlucky>>
  /\ progress'.map = progress.map /\ progress'.record = progress.record
LaunchStep == at \notin Busy /\ Elsewhere(at') /\ merge' = NoMerge /\ Kept
StopStep ==
  /\ at' = "idle" /\ UNCHANGED <<size, merge, progress, stored>>
  /\ unlucky \subseteq unlucky' /\ (Overwritten => ~Lucky')
AddStep ==
  /\ at \notin Busy /\ at' = "wrote"
  /\ UNCHANGED <<size, merge, progress, unlucky>>
  /\ \E t \in Tensors : stored' = Put(stored, TensorFile(t), {t})
RecordStep ==
  /\ at = "wrote" /\ at' = "save"
  /\ UNCHANGED <<size, merge, stored, unlucky>>
  /\ \E t \in Tensors : /\ t = tensor
                        /\ progress'.map = Put(progress.map, t, TensorFile(t))
                        /\ progress'.record = Put(progress.record, TensorFile(t), {t})
ClearStep ==
  /\ at \notin Busy /\ Elsewhere(at')
  /\ UNCHANGED <<size, merge, stored, unlucky>>
  /\ progress'.map = NoMap /\ progress'.record = NoMap
StartGrouping ==
  /\ at = "save" /\ at' = "group" /\ Unsaved = {} /\ Kept
  /\ merge'.old = Mapped /\ merge'.left = Mapped /\ merge'.groups = <<>>
  /\ merge'.current = {} /\ merge'.bytes = 0 /\ merge'.shards = 0
  /\ merge'.map = NoMap /\ merge'.record = NoMap
TakeStep(f) ==
  /\ at = "group" /\ at' = "group" /\ Kept /\ MergeKept
  /\ \A g \in merge.left \ {f} : Before(f, g)
  /\ merge'.left = merge.left \ {f}
  /\ \/ /\ FileBytes(f) <= MaxShardBytes
        /\ merge.current = {} \/ merge.bytes + FileBytes(f) <= MaxShardBytes
        /\ merge'.groups = merge.groups
        /\ merge'.current = merge.current \cup {f}
        /\ merge'.bytes = merge.bytes + FileBytes(f)
     \/ /\ FileBytes(f) <= MaxShardBytes
        /\ merge'.groups = WithLast(merge.groups, merge.current)
        /\ merge'.current = {f} /\ merge'.bytes = FileBytes(f)
     \/ /\ FileBytes(f) > MaxShardBytes
        /\ merge'.groups = WithLast(WithLast(merge.groups, merge.current), {f})
        /\ merge'.current = {} /\ merge'.bytes = 0
EndStep ==
  /\ at = "group" /\ at' = "merge" /\ Kept /\ MergeKept
  /\ merge.left = {} /\ merge'.left = {}
  /\ merge'.groups = WithLast(merge.groups, merge.current)
  /\ merge'.current = {} /\ merge'.bytes = 0
ShardStep(i, name, held) ==
  /\ at = "merge" /\ at' = "merge" /\ UNCHANGED <<size, progress, unlucky>>
  /\ i = merge.shards + 1 /\ merge.shards < Len(merge.groups)
  /\ held = UNION {stored[f] : f \in merge.groups[i]}
  /\ IF Alone(merge.groups[i]) THEN name \in merge.groups[i]
     ELSE name = ShardFile(i, Len(merge.groups))
  /\ stored' = Put(stored, name, held)
  /\ merge'.old = merge.old /\ merge'.left = merge.left /\ merge'.groups = merge.groups
  /\ merge'.current = merge.current /\ merge'.bytes = merge.bytes /\ merge'.shards = i
  /\ merge'.map = Join(merge.map, Holding(name, held))
  /\ merge'.record = Put(merge.record, name, held)
CommitStep ==
  /\ at = "merge" /\ at' = "merged" /\ UNCHANGED <<size, merge, stored, unlucky>>
  /\ merge.shards = Len(merge.groups)
  /\ progress'.map = merge.map /\ progress'.record = merge.record
RemoveStep ==
  /\ at = "merged" /\ at' \in {"merged", "index"} /\ UNCHANGED <<size, merge, progress, unlucky>>
  /\ DOMAIN stored' \subseteq DOMAIN stored
  /\ \A f \in DOMAIN stored' : stored'[f] = stored[f]
  /\ \A f \in DOMAIN stored \ DOMAIN stored' : f \in merge.old \ DOMAIN merge.record

StepOf ==
  \/ QuietStep \/ LaunchStep \/ StopStep \/ AddStep \/ RecordStep \/ ClearStep
  \/ StartGrouping \/ (\E f \in merge.left : TakeStep(f)) \/ EndStep
  \/ (\E i, name, held : ShardStep(i, name, held)) \/ CommitStep \/ RemoveStep

LEMMA TakesFile ==
  ASSUME ConversionAssumption, StreamTypeOK, Shapes, FilesNamed, GroupsPartition, GroupsFit,
         GroupFile
  PROVE \E f \in merge.left : TakeStep(f)
<1>1. PICK f \in merge.left :
        LET full == merge.current # {} /\ merge.bytes + FileBytes(f) > MaxShardBytes
            current == IF full THEN {f} ELSE merge.current \cup {f}
            groups == IF full THEN AllGroups ELSE merge.groups
            large == FileBytes(f) > MaxShardBytes
        IN  /\ \A g \in merge.left \ {f} : Before(f, g)
            /\ merge' = [merge EXCEPT
                 !.left = @ \ {f},
                 !.groups = IF large THEN Append(groups, current) ELSE groups,
                 !.current = IF large THEN {} ELSE current,
                 !.bytes = IF large THEN 0 ELSE FileBytes(f) + IF full THEN 0 ELSE @]
  BY DEF GroupFile
<1>2. at = "group" /\ at' = "group" /\ Kept
  BY DEF GroupFile, Kept, fixed, disk
<1>3. f \in DOMAIN progress.record /\ merge.bytes \in Nat /\ MaxShardBytes \in Nat
      /\ (merge.current = {} => merge.bytes = 0)
  BY <1>2 DEF GroupsPartition, Partitioned, FilesNamed, GroupsFit, Fit, ConversionAssumption,
              Grouping
<1>4. FileBytes(f) \in Nat
  BY <1>3, RecordsTyped, CellsFinite DEF FileBytes
<1> DEFINE full == merge.current # {} /\ merge.bytes + FileBytes(f) > MaxShardBytes
           current == IF full THEN {f} ELSE merge.current \cup {f}
           groups == IF full THEN AllGroups ELSE merge.groups
           large == FileBytes(f) > MaxShardBytes
<1>5. /\ MergeKept /\ merge'.left = merge.left \ {f}
      /\ merge'.groups = IF large THEN Append(groups, current) ELSE groups
      /\ merge'.current = IF large THEN {} ELSE current
      /\ merge'.bytes = IF large THEN 0 ELSE FileBytes(f) + IF full THEN 0 ELSE merge.bytes
  BY <1>1 DEF Shapes, MergeKept
<1>6. \A g \in merge.left \ {f} : Before(f, g)
  BY <1>1
<1>7. AllGroups = WithLast(merge.groups, merge.current)
  BY DEF AllGroups, WithLast
<1>8. CASE large
  <2>1. ~full => merge.current = {}
    BY <1>3, <1>4, <1>8
  <2>2. current = {f} /\ groups = WithLast(merge.groups, merge.current)
    BY <1>7, <2>1 DEF WithLast
  <2>3. WithLast(groups, {f}) = Append(groups, {f})
    BY DEF WithLast
  <2>4. merge'.groups = WithLast(WithLast(merge.groups, merge.current), {f})
    BY <1>5, <1>8, <2>2, <2>3
  <2> QED BY <1>2, <1>5, <1>6, <1>8, <2>4 DEF TakeStep
<1>9. CASE ~large /\ full
  <2>1. FileBytes(f) <= MaxShardBytes
    BY <1>3, <1>4, <1>9
  <2>2. merge'.bytes = FileBytes(f)
    BY <1>4, <1>5, <1>9
  <2> QED BY <1>2, <1>5, <1>6, <1>7, <1>9, <2>1, <2>2 DEF TakeStep
<1>10. CASE ~large /\ ~full
  <2>1. FileBytes(f) <= MaxShardBytes
        /\ (merge.current = {} \/ merge.bytes + FileBytes(f) <= MaxShardBytes)
    BY <1>3, <1>4, <1>10
  <2>2. merge'.bytes = merge.bytes + FileBytes(f)
    BY <1>3, <1>4, <1>5, <1>10
  <2> QED BY <1>2, <1>5, <1>6, <1>10, <2>1, <2>2 DEF TakeStep
<1> QED BY <1>8, <1>9, <1>10

LEMMA Steps ==
  ASSUME ConversionAssumption, StreamTypeOK, Shapes, FilesNamed, GroupsPartition, GroupsFit,
         TilesWritten, [StreamNext]_streamVars
  PROVE StepOf
<1>1. CASE UNCHANGED streamVars
  BY <1>1 DEF streamVars, StepOf, QuietStep
<1>2. CASE Launch
  <2>1. at \notin Busy /\ Elsewhere(at')
    BY <1>2 DEF Launch, GoTo, Elsewhere, Busy
  <2>2. merge' = NoMerge /\ Kept
    BY <1>2 DEF Launch, Kept, fixed, disk
  <2> QED BY <2>1, <2>2 DEF StepOf, LaunchStep
<1>3. CASE StartProgress
  <2>1. progress'.map = NoMap /\ progress'.record = NoMap
    BY <1>3 DEF StartProgress, Nothing
  <2> QED BY <1>3, <2>1 DEF StartProgress, StepOf, ClearStep, Busy, Elsewhere, fixed, GoTo
<1>4. CASE WriteKey
  BY <1>4 DEF WriteKey, StepOf, QuietStep, Busy, Elsewhere, fixed, disk, GoTo
<1>5. CASE RecordKey
  <2>1. progress'.map = progress.map /\ progress'.record = progress.record
    BY <1>5 DEF RecordKey, Shapes
  <2> QED BY <1>5, <2>1 DEF RecordKey, StepOf, QuietStep, Busy, Elsewhere, fixed, disk, GoTo
<1>6. CASE \E t \in Tensors : WriteTensor(t)
  <2>1. AddStep
    BY <1>6 DEF WriteTensor, AddStep, Busy, fixed, GoTo
  <2> QED BY <2>1 DEF StepOf
<1>7. CASE \E t \in Tensors : RecordTensor(t)
  <2>1. PICK t \in Tensors : RecordTensor(t)
    BY <1>7
  <2>2. /\ progress'.map = Put(progress.map, t, TensorFile(t))
        /\ progress'.record = Put(progress.record, TensorFile(t), {t})
    BY <2>1 DEF RecordTensor, Shapes
  <2>3. RecordStep
    BY <2>1, <2>2 DEF RecordTensor, RecordStep, fixed, GoTo
  <2> QED BY <2>3 DEF StepOf
<1>8. CASE \E t \in Tensors : OpenSink(t)
  <2>1. PICK t \in Tensors : OpenSink(t)
    BY <1>8
  <2>2. QuietStep
    BY <2>1 DEF OpenSink, QuietStep, Busy, Elsewhere, fixed, disk, GoTo
  <2> QED BY <2>2 DEF StepOf
<1>9. CASE Preallocate
  BY <1>9 DEF Preallocate, StepOf, QuietStep, Busy, Elsewhere, fixed, disk, GoTo
<1>10. CASE WriteTile
  BY <1>10 DEF WriteTile, StepOf, QuietStep, Busy, Elsewhere, fixed, disk, GoTo
<1>11. CASE RecordTile
  <2>1. progress'.map = progress.map /\ progress'.record = progress.record
    BY <1>11 DEF RecordTile, Shapes
  <2> QED BY <1>11, <2>1 DEF RecordTile, StepOf, QuietStep, Busy, Elsewhere, fixed, disk, GoTo
<1>12. CASE CommitSink
  <2>1. tensor \in Tensors
    BY <1>12 DEF CommitSink, TilesWritten
  <2>2. AddStep \/ QuietStep
    BY <1>12, <2>1 DEF CommitSink, AddStep, QuietStep, Busy, Elsewhere, fixed, disk, GoTo
  <2> QED BY <2>2 DEF StepOf
<1>13. CASE AllSaved
  <2>1. /\ merge'.old = Mapped /\ merge'.left = Mapped /\ merge'.groups = <<>>
        /\ merge'.current = {} /\ merge'.bytes = 0 /\ merge'.shards = 0
        /\ merge'.map = NoMap /\ merge'.record = NoMap
    BY <1>13 DEF AllSaved, NoMerge
  <2>2. StartGrouping
    BY <1>13, <2>1 DEF AllSaved, StartGrouping, Kept, fixed, disk, GoTo
  <2> QED BY <2>2 DEF StepOf
<1>14. CASE GroupFile
  BY <1>14, TakesFile DEF StepOf
<1>15. CASE EndGroups
  <2>1. /\ MergeKept /\ merge'.left = merge.left /\ merge'.groups = AllGroups
        /\ merge'.current = {} /\ merge'.bytes = 0
    BY <1>15 DEF EndGroups, Shapes, MergeKept
  <2>2. AllGroups = WithLast(merge.groups, merge.current)
    BY DEF AllGroups, WithLast
  <2>3. EndStep
    BY <1>15, <2>1, <2>2 DEF EndGroups, EndStep, Kept, fixed, disk, GoTo
  <2> QED BY <2>3 DEF StepOf
<1>16. CASE MergeShard
  <2> DEFINE i == merge.shards + 1
             group == merge.groups[i]
             held == UNION {stored[f] : f \in group}
  <2>1. PICK name \in IF Alone(group) THEN group ELSE {ShardFile(i, Len(merge.groups))} :
          /\ stored' = Put(stored, name, held)
          /\ merge' = [merge EXCEPT !.shards = i, !.map = Join(@, Holding(name, held)),
                                    !.record = Put(@, name, held)]
    BY <1>16 DEF MergeShard
  <2>2. /\ merge'.old = merge.old /\ merge'.left = merge.left
        /\ merge'.groups = merge.groups /\ merge'.current = merge.current
        /\ merge'.bytes = merge.bytes /\ merge'.shards = i
        /\ merge'.map = Join(merge.map, Holding(name, held))
        /\ merge'.record = Put(merge.record, name, held)
    BY <2>1 DEF Shapes
  <2>3. IF Alone(group) THEN name \in group ELSE name = ShardFile(i, Len(merge.groups))
    OBVIOUS
  <2>4. ShardStep(i, name, held)
    BY <1>16, <2>1, <2>2, <2>3 DEF MergeShard, ShardStep, fixed
  <2> QED BY <2>4 DEF StepOf
<1>17. CASE CommitMerge
  <2>1. progress'.map = merge.map /\ progress'.record = merge.record
    BY <1>17 DEF CommitMerge, Shapes
  <2>2. CommitStep
    BY <1>17, <2>1 DEF CommitMerge, CommitStep, fixed, GoTo
  <2> QED BY <2>2 DEF StepOf
<1>18. CASE RemoveOld
  <2> DEFINE gone == merge.old \ DOMAIN merge.record
  <2>1. at = "merged" /\ UNCHANGED <<size, merge, progress, unlucky>>
    BY <1>18 DEF RemoveOld, fixed
  <2>2. CASE gone \cap DOMAIN stored = {}
    <3>1. at' = "index" /\ stored' = stored
      BY <1>18, <2>2 DEF RemoveOld, GoTo
    <3> QED BY <1>18, <2>1, <3>1 DEF StepOf, RemoveStep
  <2>3. CASE gone \cap DOMAIN stored # {}
    <3>1. at' = at /\ \E f \in gone \cap DOMAIN stored :
                          stored' = Restrict(stored, DOMAIN stored \ {f})
      BY <1>18, <2>3 DEF RemoveOld, GoTo
    <3>2. PICK f \in gone \cap DOMAIN stored : stored' = Restrict(stored, DOMAIN stored \ {f})
      BY <3>1
    <3>3. \A g \in DOMAIN stored \ (DOMAIN stored \ {f}) : g \in gone
      BY <3>2
    <3>4. /\ DOMAIN stored' = DOMAIN stored \ {f}
          /\ \A g \in DOMAIN stored' : stored'[g] = stored[g]
      BY <3>2 DEF Restrict
    <3>5. RemoveStep
      BY <2>1, <3>1, <3>3, <3>4 DEF RemoveStep
    <3> QED BY <3>5 DEF StepOf
  <2> QED BY <2>2, <2>3
<1>19. CASE WriteIndex \/ WriteOffline \/ WriteOnline \/ ListOutput
  BY <1>19 DEF WriteIndex, WriteOffline, WriteOnline, ListOutput, StepOf, QuietStep, Busy,
               Elsewhere, fixed, disk, GoTo
<1>20. CASE DropProgress
  <2>1. progress'.map = NoMap /\ progress'.record = NoMap
    BY <1>20 DEF DropProgress, NoProgress, Nothing
  <2> QED BY <1>20, <2>1 DEF DropProgress, StepOf, ClearStep, Busy, Elsewhere, fixed, GoTo
<1>21. CASE PublishOutput \/ PublishKey \/ PublishOnline
  BY <1>21 DEF PublishOutput, PublishKey, PublishOnline, RenameOne, StepOf, QuietStep, Busy,
               Elsewhere, fixed, disk, GoTo
<1>22. CASE EncryptKey \/ Scan
  BY <1>22 DEF EncryptKey, Scan, StepOf, QuietStep, Busy, Elsewhere, fixed, disk, GoTo
<1>23. CASE Interrupt
  <2>1. Overwritten => "overwritten" \in unlucky'
    BY <1>23 DEF Interrupt
  <2> QED BY <1>23, <2>1 DEF Interrupt, StepOf, StopStep, Lucky, disk, GoTo
<1> QED BY <1>1, <1>2, <1>3, <1>4, <1>5, <1>6, <1>7, <1>8, <1>9, <1>10, <1>11, <1>12, <1>13,
           <1>14, <1>15, <1>16, <1>17, <1>18, <1>19, <1>20, <1>21, <1>22, <1>23
        DEF StreamNext, Run, Save, Consolidate, Finish

\* What a shard adds to the map.
LEMMA ShardMapped ==
  ASSUME NEW i, NEW name, NEW held, ShardStep(i, name, held)
  PROVE Range(merge'.map) \subseteq Range(merge.map) \cup {name}
<1>1. merge'.map = Join(merge.map, Holding(name, held))
  BY DEF ShardStep
<1>2. /\ DOMAIN merge'.map = DOMAIN merge.map \cup held
      /\ \A t \in held : merge'.map[t] = name
      /\ \A t \in DOMAIN merge.map \ held : merge'.map[t] = merge.map[t]
  BY <1>1 DEF Join, Holding
<1>3. \A t \in DOMAIN merge'.map : merge'.map[t] \in Range(merge.map) \cup {name}
  BY <1>2 DEF Range
<1> QED BY <1>3 DEF Range

LEMMA NoMapIsEmpty ==
  DOMAIN NoMap = {} /\ Range(NoMap) = {}
BY DEF NoMap, Range

\* The shard a step of the merge writes.
LEMMA ShardNamed ==
  ASSUME ConversionAssumption, StreamInv, NEW i, NEW name, NEW held, ShardStep(i, name, held)
  PROVE LET group == merge.groups[i] IN
        /\ i \in 1 .. Len(merge.groups) /\ i \in Tensors /\ Len(merge.groups) \in Tensors
        /\ group \subseteq Mapped /\ name \in Names /\ held \in SUBSET Tensors
        /\ Alone(group) => /\ group = {name} /\ held = stored[name]
                           /\ name \in Mapped /\ FileBytes(name) > MaxShardBytes
        /\ ~Alone(group) => name = ShardFile(i, Len(merge.groups)) /\ Shard(name)
<1> DEFINE group == merge.groups[i]
<1>1. /\ merge.groups \in Seq(SUBSET Names) /\ merge.shards \in Nat
      /\ merge.shards < Len(merge.groups) /\ i = merge.shards + 1
      /\ Counted(merge.groups, merge.current, merge.left)
  BY DEF StreamInv, StreamTypeOK, ShardStep
<1>2. Len(merge.groups) \in Nat /\ Len(merge.groups) <= NumTensors
  <2>1. Len(merge.groups) \in Nat
    BY <1>1
  <2>2. Cardinality(merge.left) \in Nat /\ Count(merge.current) \in Nat
    BY <1>1, FS_CardinalityType DEF Counted, Count
  <2>3. Len(merge.groups) + Count(merge.current) + Cardinality(merge.left) <= NumTensors
    BY <1>1 DEF Counted
  <2> QED BY <2>1, <2>2, <2>3, TensorsFinite
<1>3. i \in 1 .. Len(merge.groups) /\ i \in Tensors /\ Len(merge.groups) \in Tensors
  BY <1>1, <1>2, TensorsFinite DEF Tensors
<1>4. group \subseteq Mapped
  BY <1>3 DEF StreamInv, GroupsPartition, Partitioned, ShardStep, Grouping
<1>5. Mapped \subseteq Names /\ Mapped \subseteq DOMAIN stored
  BY DEF StreamInv, StreamTypeOK, IsMap, Mapped, FilesNamed
<1>6. held \in SUBSET Tensors
  <2>1. \A f \in group : stored[f] \in SUBSET Tensors
    BY <1>4, <1>5, RecordsTyped DEF StreamInv
  <2>2. held = UNION {stored[f] : f \in group}
    BY DEF ShardStep
  <2> QED BY <2>1, <2>2
<1>7. CASE Alone(group)
  <2>1. name \in group
    BY <1>7 DEF ShardStep
  <2>2. group = {name} /\ FileBytes(name) > MaxShardBytes
    BY <1>7, <2>1 DEF Alone
  <2>3. held = UNION {stored[f] : f \in {name}}
    BY <2>2 DEF ShardStep
  <2> QED BY <1>3, <1>4, <1>5, <1>6, <1>7, <2>2, <2>3
<1>8. CASE ~Alone(group)
  <2>1. name = ShardFile(i, Len(merge.groups))
    BY <1>8 DEF ShardStep
  <2>2. name \in Names /\ Shard(name)
    BY <1>3, <2>1, NamesTyped
  <2> QED BY <1>3, <1>4, <1>6, <1>8, <2>1, <2>2
<1> QED BY <1>7, <1>8

LEMMA FilesNamedStep ==
  ASSUME ConversionAssumption, StreamInv, StepOf
  PROVE FilesNamed'
<1> USE DEF Grouping, Merging
<1>0. /\ Mapped \subseteq DOMAIN progress.record /\ Mapped \subseteq DOMAIN stored
      /\ FilesNamed
  BY DEF StreamInv, FilesNamed
<1>1. CASE QuietStep
  BY <1>0, <1>1 DEF QuietStep, FilesNamed, Mapped, Busy, Elsewhere
<1>2. CASE LaunchStep
  BY <1>0, <1>2 DEF LaunchStep, Kept, FilesNamed, Mapped, Busy, Elsewhere
<1>3. CASE StopStep
  BY <1>0, <1>3 DEF StopStep, FilesNamed, Mapped
<1>4. CASE AddStep
  <2>1. DOMAIN stored \subseteq DOMAIN stored'
    BY <1>4 DEF AddStep, Put
  <2> QED BY <1>0, <1>4, <2>1 DEF AddStep, FilesNamed, Mapped
<1>5. CASE RecordStep
  <2>1. PICK t \in Tensors : /\ t = tensor
                             /\ progress'.map = Put(progress.map, t, TensorFile(t))
                             /\ progress'.record = Put(progress.record, TensorFile(t), {t})
    BY <1>5 DEF RecordStep
  <2>2. TensorFile(t) \in DOMAIN stored
    BY <1>5, <2>1 DEF RecordStep, StreamInv, TilesWritten
  <2>3. Mapped' \subseteq Mapped \cup {TensorFile(t)}
    BY <2>1 DEF Mapped, Put, Range
  <2>4. DOMAIN progress'.record = DOMAIN progress.record \cup {TensorFile(t)}
    BY <2>1 DEF Put
  <2> QED BY <1>0, <1>5, <2>2, <2>3, <2>4 DEF RecordStep, FilesNamed
<1>6. CASE ClearStep
  <2>1. Mapped' = {}
    BY <1>6, NoMapIsEmpty DEF ClearStep, Mapped
  <2> QED BY <1>6, <2>1 DEF ClearStep, FilesNamed, Busy, Elsewhere
<1>7. CASE StartGrouping
  <2>1. DOMAIN progress.map = Tensors
    BY <1>7 DEF StartGrouping, Unsaved, StreamInv, StreamTypeOK, IsMap
  <2> QED BY <1>0, <1>7, <2>1 DEF StartGrouping, Kept, FilesNamed, Mapped
<1>8. CASE \E f \in merge.left : TakeStep(f)
  BY <1>0, <1>8 DEF TakeStep, Kept, MergeKept, FilesNamed, Mapped
<1>9. CASE EndStep
  BY <1>0, <1>9, NoMapIsEmpty DEF EndStep, Kept, MergeKept, FilesNamed, Mapped
<1>10. CASE \E i, name, held : ShardStep(i, name, held)
  <2>1. PICK i, name, held : ShardStep(i, name, held)
    BY <1>10
  <2>2. /\ at = "merge" /\ at' = "merge" /\ merge'.old = merge.old /\ progress' = progress
        /\ stored' = Put(stored, name, held) /\ merge'.record = Put(merge.record, name, held)
    BY <2>1 DEF ShardStep
  <2>3. /\ DOMAIN stored' = DOMAIN stored \cup {name} /\ stored'[name] = held
        /\ DOMAIN merge'.record = DOMAIN merge.record \cup {name} /\ merge'.record[name] = held
        /\ \A f \in DOMAIN stored : f # name => stored'[f] = stored[f]
        /\ \A f \in DOMAIN merge.record : f # name => merge'.record[f] = merge.record[f]
    BY <2>2 DEF Put
  <2>4. \A f \in DOMAIN merge'.record : stored'[f] = merge'.record[f]
    BY <1>0, <2>2, <2>3 DEF FilesNamed
  <2>5. Range(merge'.map) \subseteq Range(merge.map) \cup {name}
    BY <2>1, ShardMapped
  <2> QED BY <1>0, <2>2, <2>3, <2>4, <2>5 DEF FilesNamed, Mapped
<1>11. CASE CommitStep
  BY <1>0, <1>11 DEF CommitStep, FilesNamed, Mapped
<1>12. CASE RemoveStep
  <2>1. Mapped \subseteq DOMAIN merge.record
    BY <1>0, <1>12 DEF RemoveStep, FilesNamed, Mapped
  <2>2. DOMAIN merge.record \subseteq DOMAIN stored'
    BY <1>0, <1>12 DEF RemoveStep, FilesNamed
  <2> QED BY <1>0, <1>12, <2>1, <2>2 DEF RemoveStep, FilesNamed, Mapped
<1> QED BY <1>1, <1>2, <1>3, <1>4, <1>5, <1>6, <1>7, <1>8, <1>9, <1>10, <1>11, <1>12 DEF StepOf

LEMMA OwnFilesStep ==
  ASSUME ConversionAssumption, StreamInv, StepOf
  PROVE OwnFiles'
<1> USE DEF Merging
<1>0. OwnFiles /\ FilesNamed
  BY DEF StreamInv
<1>1. CASE QuietStep
  BY <1>0, <1>1 DEF QuietStep, OwnFiles, Busy, Elsewhere
<1>2. CASE LaunchStep
  BY <1>0, <1>2 DEF LaunchStep, Kept, OwnFiles, Busy, Elsewhere
<1>3. CASE StopStep
  BY <1>0, <1>3 DEF StopStep, OwnFiles
<1>4. CASE AddStep
  <2>1. PICK t \in Tensors : stored' = Put(stored, TensorFile(t), {t})
    BY <1>4 DEF AddStep
  <2>2. \A u \in Tensors : TensorFile(u) \in DOMAIN stored' => stored'[TensorFile(u)] = {u}
    BY <1>0, <2>1, NamesTyped DEF OwnFiles, Put
  <2> QED BY <1>0, <1>4, <2>2 DEF AddStep, OwnFiles
<1>5. CASE RecordStep
  <2>1. PICK t \in Tensors : progress'.record = Put(progress.record, TensorFile(t), {t})
    BY <1>5 DEF RecordStep
  <2>2. \A u \in Tensors : TensorFile(u) \in DOMAIN progress'.record
                            => progress'.record[TensorFile(u)] = {u}
    BY <1>0, <2>1, NamesTyped DEF OwnFiles, Put
  <2> QED BY <1>0, <1>5, <2>2 DEF RecordStep, OwnFiles
<1>6. CASE ClearStep
  BY <1>0, <1>6, NoMapIsEmpty DEF ClearStep, OwnFiles, Busy, Elsewhere
<1>7. CASE StartGrouping
  BY <1>0, <1>7 DEF StartGrouping, Kept, OwnFiles
<1>8. CASE \E f \in merge.left : TakeStep(f)
  BY <1>0, <1>8 DEF TakeStep, Kept, OwnFiles
<1>9. CASE EndStep
  <2>1. merge'.record = NoMap
    BY <1>0, <1>9 DEF EndStep, MergeKept, FilesNamed
  <2> QED BY <1>0, <1>9, <2>1, NoMapIsEmpty DEF EndStep, Kept, OwnFiles
<1>10. CASE \E i, name, held : ShardStep(i, name, held)
  <2>1. PICK i, name, held : ShardStep(i, name, held)
    BY <1>10
  <2>2. /\ at = "merge" /\ at' = "merge" /\ progress' = progress
        /\ stored' = Put(stored, name, held) /\ merge'.record = Put(merge.record, name, held)
    BY <2>1 DEF ShardStep
  <2>3. /\ DOMAIN stored' = DOMAIN stored \cup {name} /\ stored'[name] = held
        /\ DOMAIN merge'.record = DOMAIN merge.record \cup {name} /\ merge'.record[name] = held
        /\ \A f \in DOMAIN stored : f # name => stored'[f] = stored[f]
        /\ \A f \in DOMAIN merge.record : f # name => merge'.record[f] = merge.record[f]
    BY <2>2 DEF Put
  <2>4. \A t \in Tensors : name = TensorFile(t) => held = {t}
    <3>1. CASE Alone(merge.groups[i])
      <4>1. held = stored[name] /\ name \in Mapped
        BY <2>1, <3>1, ShardNamed
      <4> QED BY <1>0, <4>1 DEF OwnFiles, FilesNamed
    <3>2. CASE ~Alone(merge.groups[i])
      <4>1. Shard(name)
        BY <2>1, <3>2, ShardNamed
      <4> QED BY <4>1, NamesTyped
    <3> QED BY <3>1, <3>2
  <2>5. \A t \in Tensors :
          /\ TensorFile(t) \in DOMAIN stored' => stored'[TensorFile(t)] = {t}
          /\ TensorFile(t) \in DOMAIN merge'.record => merge'.record[TensorFile(t)] = {t}
    BY <1>0, <2>2, <2>3, <2>4 DEF OwnFiles
  <2> QED BY <1>0, <2>2, <2>5 DEF OwnFiles
<1>11. CASE CommitStep
  BY <1>0, <1>11 DEF CommitStep, OwnFiles
<1>12. CASE RemoveStep
  <2>1. \A f \in DOMAIN stored' : f \in DOMAIN stored /\ stored'[f] = stored[f]
    BY <1>12 DEF RemoveStep
  <2> QED BY <1>0, <1>12, <2>1 DEF RemoveStep, OwnFiles
<1> QED BY <1>1, <1>2, <1>3, <1>4, <1>5, <1>6, <1>7, <1>8, <1>9, <1>10, <1>11, <1>12 DEF StepOf

-----------------------------------------------------------------------------
(* The grouping.                                                            *)
LEMMA MergeTyped ==
  ASSUME ConversionAssumption, StreamInv
  PROVE /\ merge.groups \in Seq(SUBSET Names) /\ merge.current \in SUBSET Names
        /\ merge.left \in SUBSET Names /\ Mapped \in SUBSET Names
        /\ WithLast(merge.groups, merge.current) \in Seq(SUBSET Names)
        /\ \A f \in merge.left : {f} \in SUBSET Names
<1>1. /\ merge.groups \in Seq(SUBSET Names) /\ merge.current \in SUBSET Names
      /\ merge.left \in SUBSET Names /\ Mapped \in SUBSET Names
  BY DEF StreamInv, StreamTypeOK, Mapped, IsMap
<1> QED BY <1>1, EndedGroups

\* Outside the grouping its parts say nothing, and the other steps in it change no part.
LEMMA GroupingKept ==
  ASSUME StepOf, at' \in Grouping
  PROVE \/ /\ at \in Grouping /\ at' = at /\ Mapped' = Mapped
           /\ UNCHANGED <<size, unlucky>> /\ progress'.record = progress.record
           /\ merge'.groups = merge.groups /\ merge'.current = merge.current
           /\ merge'.left = merge.left /\ merge'.bytes = merge.bytes
        \/ StartGrouping
        \/ \E f \in merge.left : TakeStep(f)
        \/ EndStep
<1> USE DEF Grouping, Busy
<1>1. CASE QuietStep
  BY <1>1 DEF QuietStep, Elsewhere, Mapped
<1>2. CASE \E i, name, held : ShardStep(i, name, held)
  BY <1>2 DEF ShardStep, Mapped
<1>3. CASE LaunchStep \/ StopStep \/ AddStep \/ RecordStep \/ ClearStep \/ CommitStep \/ RemoveStep
  BY <1>3 DEF LaunchStep, StopStep, AddStep, RecordStep, ClearStep, CommitStep, RemoveStep,
              Elsewhere
<1> QED BY <1>1, <1>2, <1>3 DEF StepOf

LEMMA GroupsPartitionStep ==
  ASSUME ConversionAssumption, StreamInv, StepOf
  PROVE GroupsPartition'
<1> SUFFICES ASSUME at' \in Grouping
             PROVE /\ at' = "merge" => merge'.left = {} /\ merge'.current = {}
                   /\ Partitioned(Mapped', merge'.groups, merge'.current, merge'.left)
  BY DEF GroupsPartition
<1>0. GroupsPartition
  BY DEF StreamInv
<1>1. CASE /\ at \in Grouping /\ at' = at /\ Mapped' = Mapped
           /\ merge'.groups = merge.groups /\ merge'.current = merge.current
           /\ merge'.left = merge.left
  BY <1>0, <1>1 DEF GroupsPartition
<1>2. CASE StartGrouping
  <2>1. /\ Mapped' = Mapped /\ merge'.left = Mapped /\ merge'.current = {}
        /\ merge'.groups = <<>> /\ at' = "group"
    BY <1>2 DEF StartGrouping, Kept, Mapped
  <2>2. Partitioned(Mapped, <<>>, {}, Mapped)
    BY DEF Partitioned
  <2> QED BY <2>1, <2>2
<1>3. CASE \E f \in merge.left : TakeStep(f)
  <2>1. PICK f \in merge.left : TakeStep(f)
    BY <1>3
  <2>2. Mapped' = Mapped /\ at = "group" /\ at' = "group" /\ merge'.left = merge.left \ {f}
    BY <2>1 DEF TakeStep, Kept, Mapped
  <2>3. Partitioned(Mapped, merge.groups, merge.current, merge.left)
    BY <1>0, <2>2 DEF GroupsPartition, Grouping
  <2>4. Partitioned(Mapped, merge.groups, merge.current \cup {f}, merge.left \ {f})
    BY <2>3, TakeKeepsPartition
  <2> DEFINE G == WithLast(merge.groups, merge.current)
  <2>5. Partitioned(Mapped, G, {}, merge.left)
    BY <2>3, MergeTyped, EndKeepsPartition
  <2>6. Partitioned(Mapped, G, {f}, merge.left \ {f})
    <3>1. Partitioned(Mapped, G, {} \cup {f}, merge.left \ {f})
      BY <2>5, TakeKeepsPartition
    <3> QED BY <3>1
  <2>7. Partitioned(Mapped, WithLast(G, {f}), {}, merge.left \ {f})
    BY <2>6, MergeTyped, EndKeepsPartition
  <2>8. Partitioned(Mapped, merge'.groups, merge'.current, merge'.left)
    BY <2>1, <2>4, <2>6, <2>7 DEF TakeStep
  <2> QED BY <2>2, <2>8
<1>4. CASE EndStep
  <2>1. /\ Mapped' = Mapped /\ merge'.left = {} /\ merge'.current = {} /\ merge.left = {}
        /\ merge'.groups = WithLast(merge.groups, merge.current) /\ at = "group"
    BY <1>4 DEF EndStep, Kept, Mapped
  <2>2. Partitioned(Mapped, merge.groups, merge.current, merge.left)
    BY <1>0, <2>1 DEF GroupsPartition, Grouping
  <2>3. Partitioned(Mapped, WithLast(merge.groups, merge.current), {}, merge.left)
    BY <2>2, MergeTyped, EndKeepsPartition
  <2> QED BY <2>1, <2>3
<1> QED BY <1>1, <1>2, <1>3, <1>4, GroupingKept

LEMMA ShardsAreReadStep ==
  ASSUME ConversionAssumption, StreamInv, StepOf
  PROVE ShardsAreRead'
<1> SUFFICES ASSUME at' \in Grouping, Lucky'
             PROVE Ordered(merge'.groups, merge'.current, merge'.left)
  BY DEF ShardsAreRead
<1>0. ShardsAreRead /\ ShardsAreSmall /\ GroupsPartition
  BY DEF StreamInv
<1>1. CASE /\ at \in Grouping /\ at' = at /\ unlucky' = unlucky
           /\ merge'.groups = merge.groups /\ merge'.current = merge.current
           /\ merge'.left = merge.left
  BY <1>0, <1>1 DEF ShardsAreRead, Lucky
<1>2. CASE StartGrouping
  <2>1. merge'.left = Mapped /\ merge'.current = {} /\ merge'.groups = <<>>
    BY <1>2 DEF StartGrouping
  <2>2. \A f \in Mapped : f[2] \in Nat /\ f[2] > 0
    BY MergeTyped, NamesTyped
  <2>3. Ordered(<<>>, {}, Mapped)
    BY <2>2 DEF Ordered, Count
  <2> QED BY <2>1, <2>3
<1>3. CASE \E f \in merge.left : TakeStep(f)
  <2>1. PICK f \in merge.left : TakeStep(f)
    BY <1>3
  <2>2. /\ at = "group" /\ merge'.left = merge.left \ {f} /\ unlucky' = unlucky
        /\ \A g \in merge.left \ {f} : Before(f, g)
    BY <2>1 DEF TakeStep, Kept
  <2>3. Ordered(merge.groups, merge.current, merge.left)
    BY <1>0, <2>2 DEF ShardsAreRead, Grouping, Lucky
  <2>4. \A g, h \in merge.left : Shard(g) /\ Shard(h) => g[3] = h[3]
    BY <1>0, <2>2 DEF ShardsAreSmall, Lucky, GroupsPartition, Partitioned, Grouping
  <2>5. Ordered(merge.groups, merge.current \cup {f}, merge.left \ {f})
    BY <2>2, <2>3, <2>4, MergeTyped, TakeKeepsOrder
  <2> DEFINE G == WithLast(merge.groups, merge.current)
  <2>6. Ordered(G, {}, merge.left)
    BY <2>3, MergeTyped, EndKeepsOrder
  <2>7. Ordered(G, {f}, merge.left \ {f})
    <3>1. {} \in SUBSET Names OBVIOUS
    <3>2. Ordered(G, {} \cup {f}, merge.left \ {f})
      BY <2>2, <2>4, <2>6, <3>1, MergeTyped, TakeKeepsOrder
    <3> QED BY <3>2
  <2>8. Ordered(WithLast(G, {f}), {}, merge.left \ {f})
    <3>1. merge.left \ {f} \in SUBSET Names
      BY MergeTyped
    <3> QED BY <2>7, <3>1, MergeTyped, EndKeepsOrder
  <2> QED BY <2>1, <2>5, <2>7, <2>8 DEF TakeStep
<1>4. CASE EndStep
  <2>1. /\ merge'.left = {} /\ merge'.current = {} /\ merge.left = {} /\ unlucky' = unlucky
        /\ merge'.groups = WithLast(merge.groups, merge.current) /\ at = "group"
    BY <1>4 DEF EndStep, Kept
  <2>2. Ordered(merge.groups, merge.current, merge.left)
    BY <1>0, <2>1 DEF ShardsAreRead, Grouping, Lucky
  <2>3. Ordered(WithLast(merge.groups, merge.current), {}, merge.left)
    BY <2>2, MergeTyped, EndKeepsOrder
  <2> QED BY <2>1, <2>3
<1> QED BY <1>1, <1>2, <1>3, <1>4, GroupingKept

LEMMA CountedStep ==
  ASSUME ConversionAssumption, StreamInv, StepOf
  PROVE /\ merge'.shards \in 0 .. NumTensors /\ merge'.shards <= Len(merge'.groups)
        /\ Counted(merge'.groups, merge'.current, merge'.left)
        /\ merge'.groups \in Seq(SUBSET Names)
<1>0. /\ merge.shards \in 0 .. NumTensors /\ merge.shards <= Len(merge.groups)
      /\ Counted(merge.groups, merge.current, merge.left)
      /\ merge.groups \in Seq(SUBSET Names) /\ Len(merge.groups) \in Nat
  BY DEF StreamInv, StreamTypeOK
<1>5. NumTensors \in Nat
  BY TensorsFinite
<1>1. CASE merge' = merge
  BY <1>0, <1>1
<1>2. CASE LaunchStep
  <2>1. /\ merge'.shards = 0 /\ merge'.groups = <<>> /\ merge'.current = {} /\ merge'.left = {}
    BY <1>2 DEF LaunchStep, NoMerge
  <2>2. Counted(<<>>, {}, {})
    BY <1>5, FS_EmptySet DEF Counted, Count
  <2> QED BY <1>5, <2>1, <2>2
<1>3. CASE StartGrouping
  <2>1. /\ merge'.shards = 0 /\ merge'.groups = <<>> /\ merge'.current = {}
        /\ merge'.left = Mapped
    BY <1>3 DEF StartGrouping
  <2>2. DOMAIN progress.map = Tensors
    BY <1>3 DEF StartGrouping, Unsaved, StreamInv, StreamTypeOK, IsMap
  <2>3. IsFiniteSet(Mapped) /\ Cardinality(Mapped) <= NumTensors /\ Cardinality(Mapped) \in Nat
    BY <2>2, MappedIsFinite, FS_CardinalityType
  <2>4. Counted(<<>>, {}, Mapped)
    BY <2>3 DEF Counted, Count
  <2> QED BY <1>5, <2>1, <2>4
<1>4. CASE \E f \in merge.left : TakeStep(f)
  <2>1. PICK f \in merge.left : TakeStep(f)
    BY <1>4
  <2>2. Counted(merge.groups, merge.current \cup {f}, merge.left \ {f})
    BY <1>0, <1>5, TakeKeepsCount
  <2> DEFINE G == WithLast(merge.groups, merge.current)
  <2>3. Counted(G, {}, merge.left)
    BY <1>0, MergeTyped, EndKeepsCount
  <2>4. Counted(G, {f}, merge.left \ {f})
    <3>1. Counted(G, {} \cup {f}, merge.left \ {f})
      BY <1>5, <2>3, MergeTyped, TakeKeepsCount
    <3> QED BY <3>1
  <2>5. Counted(WithLast(G, {f}), {}, merge.left \ {f})
    BY <2>4, MergeTyped, EndKeepsCount
  <2>6. /\ G \in Seq(SUBSET Names) /\ Len(G) \in Nat /\ Len(merge.groups) <= Len(G)
    BY MergeTyped, EndedGroups
  <2>7. /\ WithLast(G, {f}) \in Seq(SUBSET Names) /\ Len(WithLast(G, {f})) \in Nat
        /\ Len(G) <= Len(WithLast(G, {f}))
    BY <2>6, MergeTyped, EndedGroups
  <2>8. merge'.shards = merge.shards /\ merge'.left = merge.left \ {f}
    BY <2>1 DEF TakeStep, MergeKept
  <2> HIDE DEF G
  <2>9. \/ merge'.groups = merge.groups /\ merge'.current = merge.current \cup {f}
        \/ merge'.groups = G /\ merge'.current = {f}
        \/ merge'.groups = WithLast(G, {f}) /\ merge'.current = {}
    BY <2>1 DEF TakeStep, G
  <2>10. /\ merge'.groups \in Seq(SUBSET Names) /\ Len(merge'.groups) \in Nat
         /\ Len(merge.groups) <= Len(merge'.groups)
    BY <1>0, <2>6, <2>7, <2>9
  <2>11. Counted(merge'.groups, merge'.current, merge'.left)
    BY <2>2, <2>4, <2>5, <2>8, <2>9
  <2> QED BY <1>0, <2>8, <2>10, <2>11
<1>6. CASE EndStep
  <2> DEFINE G == WithLast(merge.groups, merge.current)
  <2>1. Counted(G, {}, merge.left)
    BY <1>0, MergeTyped, EndKeepsCount
  <2>2. Len(G) = Len(merge.groups) + Count(merge.current) /\ G \in Seq(SUBSET Names)
    BY MergeTyped, EndedGroups
  <2>3. Len(merge.groups) <= Len(G) /\ Len(G) \in Nat
    BY MergeTyped, EndedGroups
  <2> HIDE DEF G
  <2>4. /\ merge'.groups = G /\ merge'.current = {} /\ merge'.left = merge.left
        /\ merge'.shards = merge.shards
    BY <1>6 DEF EndStep, MergeKept, G
  <2> QED BY <1>0, <2>1, <2>2, <2>3, <2>4
<1>7. CASE \E i, name, held : ShardStep(i, name, held)
  <2>1. PICK i, name, held : ShardStep(i, name, held)
    BY <1>7
  <2>2. i \in 1 .. Len(merge.groups) /\ i \in Tensors
    BY <2>1, ShardNamed
  <2> QED BY <1>0, <1>5, <2>1, <2>2 DEF ShardStep, Tensors
<1> QED BY <1>1, <1>2, <1>3, <1>4, <1>6, <1>7
        DEF StepOf, QuietStep, StopStep, AddStep, RecordStep, ClearStep, CommitStep, RemoveStep

LEMMA FitKept ==
  ASSUME size' = size, progress'.record = progress.record,
         Fit(merge'.groups, merge'.current, merge'.bytes)
  PROVE GroupsFit'
<1>1. \A S : Bytes(S)' = Bytes(S)
  BY DEF Bytes
<1>2. \A S : GroupBytes(S)' = GroupBytes(S)
  BY <1>1 DEF GroupBytes
<1>3. \A f : FileBytes(f)' = FileBytes(f)
  BY <1>1 DEF FileBytes
<1>4. \A S : Alone(S)' <=> Alone(S)
  BY <1>3 DEF Alone
<1>5. Fit(merge.groups, merge.current, merge.bytes)'
  BY <1>2, <1>4 DEF Fit
<1> QED BY <1>5 DEF GroupsFit

LEMMA GroupsFitStep ==
  ASSUME ConversionAssumption, StreamInv, StepOf
  PROVE GroupsFit'
<1> SUFFICES ASSUME at' \in Grouping PROVE GroupsFit'
  BY DEF GroupsFit
<1>0. GroupsFit /\ StreamTypeOK /\ FilesNamed /\ GroupsPartition
  BY DEF StreamInv
<1>1. CASE /\ at \in Grouping /\ size' = size /\ progress'.record = progress.record
           /\ merge'.groups = merge.groups /\ merge'.current = merge.current
           /\ merge'.bytes = merge.bytes
  BY <1>0, <1>1, FitKept DEF GroupsFit
<1>2. CASE StartGrouping
  <2>1. /\ merge'.groups = <<>> /\ merge'.current = {} /\ merge'.bytes = 0
        /\ size' = size /\ progress' = progress
    BY <1>2 DEF StartGrouping, Kept
  <2>2. Fit(<<>>, {}, 0)
    <3>1. <<>> \in Seq(SUBSET Names) /\ {} \in SUBSET Names /\ WithLast(<<>>, {}) = <<>>
          /\ Len(<<>>) = 0
      BY DEF WithLast
    <3>2. \A k \in 1 .. Len(<<>>) : Fits(<<>>[k])
      BY <3>1
    <3>3. Fit(WithLast(<<>>, {}), {}, 0)
      BY <3>1, <3>2, EndKeepsFit
    <3> QED BY <3>1, <3>3
  <2> QED BY <2>1, <2>2, FitKept
<1>3. CASE \E f \in merge.left : TakeStep(f)
  <2>1. PICK f \in merge.left : TakeStep(f)
    BY <1>3
  <2>2. at = "group" /\ size' = size /\ progress' = progress
    BY <2>1 DEF TakeStep, Kept
  <2>3. Fit(merge.groups, merge.current, merge.bytes)
    BY <1>0, <2>2 DEF GroupsFit, Grouping
  <2>4. f \in DOMAIN progress.record /\ merge.current \subseteq DOMAIN progress.record
    BY <1>0, <2>2 DEF GroupsPartition, Partitioned, FilesNamed, Grouping
  <2>5. FileBytes(f) \in Nat /\ GroupBytes(merge.current) \in Nat
    BY <1>0, <2>4, RecordsTyped, CellsFinite, GroupBytesTyped DEF FileBytes
  <2> DEFINE G == WithLast(merge.groups, merge.current)
  <2>6. Fit(G, {}, 0)
    <3>1. \A k \in 1 .. Len(merge.groups) : Fits(merge.groups[k])
      BY <2>3 DEF Fit, Fits
    <3>2. Fits(merge.current)
      <4>1. /\ GroupBytes(merge.current) <= merge.bytes /\ merge.bytes <= MaxShardBytes
            /\ merge.bytes \in Nat /\ MaxShardBytes \in Nat
        BY <2>3 DEF Fit, ConversionAssumption
      <4>2. GroupBytes(merge.current) <= MaxShardBytes
        BY <2>5, <4>1, SMT
      <4> QED BY <4>2 DEF Fits
    <3> QED BY <3>1, <3>2, MergeTyped, EndKeepsFit
  <2>7. CASE /\ FileBytes(f) <= MaxShardBytes
             /\ merge.current = {} \/ merge.bytes + FileBytes(f) <= MaxShardBytes
             /\ merge'.groups = merge.groups /\ merge'.current = merge.current \cup {f}
             /\ merge'.bytes = merge.bytes + FileBytes(f)
    <3>1. merge.bytes + FileBytes(f) <= MaxShardBytes
      BY <2>3, <2>5, <2>7 DEF Fit
    <3>2. Fit(merge.groups, merge.current \cup {f}, merge.bytes + FileBytes(f))
      BY <1>0, <2>3, <2>4, <3>1, TakeKeepsFit
    <3> QED BY <2>2, <2>7, <3>2, FitKept
  <2>8. CASE /\ FileBytes(f) <= MaxShardBytes
             /\ merge'.groups = G /\ merge'.current = {f} /\ merge'.bytes = FileBytes(f)
    <3>1. 0 + FileBytes(f) <= MaxShardBytes /\ 0 + FileBytes(f) = FileBytes(f)
      BY <2>5, <2>8
    <3>2. Fit(G, {} \cup {f}, 0 + FileBytes(f))
      BY <1>0, <2>4, <2>6, <3>1, TakeKeepsFit
    <3>3. {} \cup {f} = {f} OBVIOUS
    <3>4. Fit(G, {f}, FileBytes(f))
      BY <3>1, <3>2, <3>3
    <3> HIDE DEF G
    <3> QED BY <2>2, <2>8, <3>4, FitKept
  <2>9. CASE /\ FileBytes(f) > MaxShardBytes
             /\ merge'.groups = WithLast(G, {f}) /\ merge'.current = {} /\ merge'.bytes = 0
    <3>1. Fits({f})
      BY <2>9 DEF Fits, Alone
    <3>2. \A k \in 1 .. Len(G) : Fits(G[k])
      BY <2>6 DEF Fit, Fits
    <3>3. Fit(WithLast(G, {f}), {}, 0)
      BY <3>1, <3>2, MergeTyped, EndKeepsFit
    <3> QED BY <2>2, <2>9, <3>3, FitKept
  <2> QED BY <2>1, <2>7, <2>8, <2>9 DEF TakeStep
<1>4. CASE EndStep
  <2>1. /\ merge'.groups = WithLast(merge.groups, merge.current) /\ merge'.current = {}
        /\ merge'.bytes = 0 /\ at = "group" /\ size' = size /\ progress' = progress
    BY <1>4 DEF EndStep, Kept
  <2>2. Fit(merge.groups, merge.current, merge.bytes)
    BY <1>0, <2>1 DEF GroupsFit, Grouping
  <2>3. GroupBytes(merge.current) \in Nat
    BY <1>0, <2>1, GroupBytesTyped DEF GroupsPartition, Partitioned, FilesNamed, Grouping
  <2>4. Fits(merge.current)
    <3>1. /\ GroupBytes(merge.current) <= merge.bytes /\ merge.bytes <= MaxShardBytes
          /\ merge.bytes \in Nat /\ MaxShardBytes \in Nat
      BY <2>2 DEF Fit, ConversionAssumption
    <3>2. GroupBytes(merge.current) <= MaxShardBytes
      BY <2>3, <3>1, SMT
    <3> QED BY <3>2 DEF Fits
  <2>5. \A k \in 1 .. Len(merge.groups) : Fits(merge.groups[k])
    BY <2>2 DEF Fit, Fits
  <2>6. Fit(WithLast(merge.groups, merge.current), {}, 0)
    BY <2>4, <2>5, MergeTyped, EndKeepsFit
  <2> QED BY <2>1, <2>6, FitKept
<1> QED BY <1>1, <1>2, <1>3, <1>4, GroupingKept

-----------------------------------------------------------------------------
(* The shards.                                                              *)

\* In a merge no other has broken off: the shard's name is new, the files of its group are
\* as they were recorded, and they fit in it.
LEMMA ShardIsNew ==
  ASSUME ConversionAssumption, StreamInv, Lucky, NEW i, NEW name, NEW held,
         ShardStep(i, name, held)
  PROVE /\ name \notin DOMAIN merge.record
        /\ \A f \in merge.groups[i] : stored[f] = progress.record[f]
        /\ Alone(merge.groups[i]) => ~Shard(name)
        /\ ~Alone(merge.groups[i]) => Bytes(held) <= MaxShardBytes
<1> DEFINE group == merge.groups[i]
<1>1. /\ i \in 1 .. Len(merge.groups) /\ group \subseteq Mapped
      /\ Alone(group) => group = {name} /\ name \in Mapped /\ FileBytes(name) > MaxShardBytes
      /\ ~Alone(group) => name = ShardFile(i, Len(merge.groups)) /\ Shard(name)
  BY ShardNamed
<1>2. /\ at = "merge" /\ i = merge.shards + 1 /\ merge.shards \in Nat
      /\ Len(merge.groups) \in Nat /\ merge.shards < Len(merge.groups)
  BY DEF ShardStep, StreamInv, StreamTypeOK
<1>3. Alone(group) => ~Shard(name)
  <2> SUFFICES ASSUME Alone(group), Shard(name) PROVE FALSE
    OBVIOUS
  <2>1. name \in Mapped /\ FileBytes(name) > MaxShardBytes
    BY <1>1
  <2>2. FileBytes(name) <= MaxShardBytes
    BY <2>1 DEF StreamInv, ShardsAreSmall
  <2>3. FileBytes(name) \in Nat /\ MaxShardBytes \in Nat
    BY <2>1, RecordsTyped, CellsFinite
    DEF FileBytes, StreamInv, FilesNamed, ConversionAssumption
  <2> QED BY <2>1, <2>2, <2>3
<1>4. \A j, k \in 1 .. Len(merge.groups) :
        j # k => merge.groups[j] \cap merge.groups[k] = {}
  BY <1>2 DEF StreamInv, GroupsPartition, Partitioned, Grouping
<1>5. \A f \in DOMAIN merge.record : Merged(f)
  BY <1>2 DEF StreamInv, MergeIsSound, Merging
<1>6. ASSUME NEW f \in group PROVE f \notin DOMAIN merge.record
  <2> SUFFICES ASSUME f \in DOMAIN merge.record PROVE FALSE
    OBVIOUS
  <2>1. CASE Shard(f)
    <3>1. f[2] >= i
      BY <1>1, <1>2, <2>1 DEF StreamInv, ShardsAreRead, Ordered, Grouping
    <3>2. f[2] <= merge.shards
      BY <1>5, <2>1 DEF Merged
    <3>3. f[2] \in Nat
      BY <1>1, MergeTyped, NamesTyped
    <3> QED BY <1>2, <3>1, <3>2, <3>3
  <2>2. CASE ~Shard(f)
    <3>1. PICK k \in 1 .. merge.shards : merge.groups[k] = {f}
      BY <1>5, <2>2 DEF Merged
    <3>2. k \in 1 .. Len(merge.groups) /\ k # i
      BY <1>2
    <3>3. merge.groups[k] \cap merge.groups[i] = {}
      BY <1>1, <1>4, <3>2
    <3> QED BY <3>1, <3>3
  <2> QED BY <2>1, <2>2
<1>7. \A f \in group : stored[f] = progress.record[f]
  BY <1>1, <1>6 DEF StreamInv, FilesIntact
<1>8. name \notin DOMAIN merge.record
  <2>1. CASE Alone(group)
    BY <1>1, <1>6, <2>1
  <2>2. CASE ~Alone(group)
    <3>1. name[2] = i /\ Shard(name)
      BY <1>1, <2>2, NamesTyped
    <3> QED BY <1>2, <1>5, <3>1 DEF Merged
  <2> QED BY <2>1, <2>2
<1>9. ~Alone(group) => Bytes(held) <= MaxShardBytes
  <2> SUFFICES ASSUME ~Alone(group) PROVE Bytes(held) <= MaxShardBytes
    OBVIOUS
  <2>1. held = UNION {stored[f] : f \in group}
    BY DEF ShardStep
  <2>2. held = UNION {progress.record[f] : f \in group}
    BY <1>7, <2>1
  <2>3. GroupBytes(group) <= MaxShardBytes
    BY <1>1, <1>2 DEF StreamInv, GroupsFit, Fit, Grouping
  <2> QED BY <2>2, <2>3 DEF GroupBytes
<1> QED BY <1>3, <1>7, <1>8, <1>9

\* No step makes an unlucky run a lucky one again.
LEMMA LuckyStep ==
  ASSUME StepOf, Lucky'
  PROVE Lucky
BY DEF StepOf, QuietStep, LaunchStep, StopStep, AddStep, RecordStep, ClearStep, StartGrouping,
       TakeStep, EndStep, ShardStep, CommitStep, RemoveStep, Kept, Lucky

LEMMA BytesKept ==
  ASSUME size' = size
  PROVE \A S : Bytes(S)' = Bytes(S)
BY DEF Bytes

LEMMA SizeKept ==
  ASSUME StepOf
  PROVE size' = size
BY DEF StepOf, QuietStep, LaunchStep, StopStep, AddStep, RecordStep, ClearStep, StartGrouping,
       TakeStep, EndStep, ShardStep, CommitStep, RemoveStep, Kept

LEMMA ShardsAreSmallStep ==
  ASSUME ConversionAssumption, StreamInv, StepOf
  PROVE ShardsAreSmall'
<1> SUFFICES ASSUME Lucky'
             PROVE /\ \A f \in Mapped' : Shard(f) => FileBytes(f)' <= MaxShardBytes
                   /\ \A f, g \in Mapped' : Shard(f) /\ Shard(g) => f[3] = g[3]
  BY DEF ShardsAreSmall, Shard
<1>0. /\ \A f \in Mapped : Shard(f) => FileBytes(f) <= MaxShardBytes
      /\ \A f, g \in Mapped : Shard(f) /\ Shard(g) => f[3] = g[3]
  BY LuckyStep DEF StreamInv, ShardsAreSmall
<1>1. CASE progress'.map = progress.map /\ progress'.record = progress.record
  <2>1. Mapped' = Mapped /\ \A f : FileBytes(f)' = FileBytes(f)
    BY <1>1, SizeKept, BytesKept DEF Mapped, FileBytes
  <2> QED BY <1>0, <2>1
<1>2. CASE RecordStep
  <2>1. PICK t \in Tensors : /\ progress'.map = Put(progress.map, t, TensorFile(t))
                             /\ progress'.record = Put(progress.record, TensorFile(t), {t})
    BY <1>2 DEF RecordStep
  <2>2. Mapped' \subseteq Mapped \cup {TensorFile(t)}
    BY <2>1 DEF Mapped, Put, Range
  <2>3. \A f \in Mapped' : Shard(f) => f \in Mapped /\ f # TensorFile(t)
    BY <2>2, NamesTyped
  <2>4. \A f \in Mapped : f \in DOMAIN progress.record
    BY DEF StreamInv, FilesNamed
  <2>5. \A f \in Mapped' : Shard(f) => progress'.record[f] = progress.record[f]
    BY <2>1, <2>3, <2>4 DEF Put
  <2>6. \A f \in Mapped' : Shard(f) => FileBytes(f)' = FileBytes(f)
    BY <2>5, SizeKept, BytesKept DEF FileBytes
  <2> QED BY <1>0, <2>3, <2>6
<1>3. CASE ClearStep
  <2>1. Mapped' = {}
    BY <1>3, NoMapIsEmpty DEF ClearStep, Mapped
  <2> QED BY <2>1
<1>4. CASE CommitStep
  <2>1. /\ at = "merge" /\ progress'.map = merge.map /\ progress'.record = merge.record
    BY <1>4 DEF CommitStep
  <2>2. Mapped' \subseteq DOMAIN merge.record
    BY <2>1 DEF Mapped, StreamInv, FilesNamed, Merging
  <2>3. \A f \in DOMAIN merge.record : Shard(f) => /\ f[3] = Len(merge.groups)
                                                   /\ Bytes(merge.record[f]) <= MaxShardBytes
    BY <2>1, LuckyStep DEF StreamInv, MergeIsSound, Merging, Merged
  <2>4. \A f : FileBytes(f)' = Bytes(merge.record[f])
    BY <2>1, SizeKept, BytesKept DEF FileBytes
  <2> QED BY <2>2, <2>3, <2>4
<1> QED BY <1>1, <1>2, <1>3, <1>4
        DEF StepOf, QuietStep, LaunchStep, StopStep, AddStep, StartGrouping, TakeStep, EndStep,
            ShardStep, RemoveStep, Kept

LEMMA MergeIsSoundStep ==
  ASSUME ConversionAssumption, StreamInv, StepOf
  PROVE MergeIsSound'
<1> SUFFICES ASSUME Lucky', at' \in Merging
             PROVE /\ \A f \in DOMAIN merge'.record : Merged(f)'
                   /\ \A t \in DOMAIN merge'.map : t \in merge'.record[merge'.map[t]]
                   /\ at' = "merge" => \A k \in 1 .. merge'.shards : \A f \in merge'.groups[k] :
                                         progress'.record[f] \subseteq DOMAIN merge'.map
  BY DEF MergeIsSound, Merging
<1>0. Lucky
  BY LuckyStep
<1> USE DEF Merging
<1>1. CASE /\ at \in Merging /\ merge' = merge /\ size' = size
           /\ at' = "merge" => at = "merge" /\ progress'.record = progress.record
  <2>1. \A f : Merged(f)' <=> Merged(f)
    BY <1>1, BytesKept DEF Merged, Shard
  <2>2. MergeIsSound
    BY DEF StreamInv
  <2> QED BY <1>0, <1>1, <2>1, <2>2 DEF MergeIsSound
<1>2. CASE EndStep
  <2>1. merge'.map = NoMap /\ merge'.record = NoMap /\ merge'.shards = 0
    BY <1>2 DEF EndStep, MergeKept, StreamInv, FilesNamed
  <2> QED BY <2>1, NoMapIsEmpty
<1>3. CASE \E i, name, held : ShardStep(i, name, held)
  <2>1. PICK i, name, held : ShardStep(i, name, held)
    BY <1>3
  <2>2. /\ name \notin DOMAIN merge.record
        /\ \A f \in merge.groups[i] : stored[f] = progress.record[f]
        /\ Alone(merge.groups[i]) => ~Shard(name)
        /\ ~Alone(merge.groups[i]) => Bytes(held) <= MaxShardBytes
    BY <1>0, <2>1, ShardIsNew
  <2>3. /\ i \in 1 .. Len(merge.groups)
        /\ Alone(merge.groups[i]) => merge.groups[i] = {name}
        /\ ~Alone(merge.groups[i]) => name = ShardFile(i, Len(merge.groups)) /\ Shard(name)
    BY <2>1, ShardNamed
  <2>4. /\ at = "merge" /\ merge'.groups = merge.groups /\ progress' = progress
        /\ size' = size /\ i = merge.shards + 1 /\ merge'.shards = i
        /\ held = UNION {stored[f] : f \in merge.groups[i]}
        /\ merge'.map = Join(merge.map, Holding(name, held))
        /\ merge'.record = Put(merge.record, name, held)
    BY <2>1 DEF ShardStep
  <2>5. /\ DOMAIN merge'.record = DOMAIN merge.record \cup {name} /\ merge'.record[name] = held
        /\ \A f \in DOMAIN merge.record : f # name => merge'.record[f] = merge.record[f]
    BY <2>4 DEF Put
  <2>6. /\ DOMAIN merge'.map = DOMAIN merge.map \cup held
        /\ \A t \in held : merge'.map[t] = name
        /\ \A t \in DOMAIN merge.map \ held : merge'.map[t] = merge.map[t]
    BY <2>4 DEF Join, Holding
  <2>7. /\ \A f \in DOMAIN merge.record : Merged(f)
        /\ \A t \in DOMAIN merge.map : t \in merge.record[merge.map[t]]
        /\ \A k \in 1 .. merge.shards : \A f \in merge.groups[k] :
             progress.record[f] \subseteq DOMAIN merge.map
    BY <1>0, <2>4 DEF StreamInv, MergeIsSound
  <2>8. merge.shards \in Nat
    BY DEF StreamInv, StreamTypeOK
  <2>12. \A f : Bytes(merge.record[f])' = Bytes(merge'.record[f])
    BY <2>4 DEF Bytes
  <2>9. ASSUME NEW f \in DOMAIN merge'.record PROVE Merged(f)'
    <3>1. CASE f = name /\ Alone(merge.groups[i])
      <4>1. ~Shard(f)' /\ i \in 1 .. merge'.shards /\ merge'.groups[i] = {f}
        BY <2>2, <2>3, <2>4, <3>1 DEF Shard
      <4> QED BY <4>1 DEF Merged
    <3>2. CASE f = name /\ ~Alone(merge.groups[i])
      <4>1. Shard(f)' /\ f[3] = Len(merge'.groups) /\ f[2] = i
        BY <2>3, <2>4, <3>2, NamesTyped DEF Shard
      <4>2. Bytes(merge.record[f])' <= MaxShardBytes
        BY <2>2, <2>5, <2>12, <3>2
      <4> QED BY <2>4, <2>8, <4>1, <4>2 DEF Merged
    <3>3. CASE f # name
      <4>1. f \in DOMAIN merge.record /\ Merged(f) /\ merge'.record[f] = merge.record[f]
        BY <2>5, <2>7, <3>3
      <4>2. CASE Shard(f)
        <5>1. /\ f[3] = Len(merge.groups) /\ f[2] <= merge.shards
              /\ Bytes(merge.record[f]) <= MaxShardBytes
          BY <4>1, <4>2 DEF Merged
        <5>2. f[2] \in Nat
          <6>1. f \in Names
            BY <4>1 DEF StreamInv, StreamTypeOK, IsMap
          <6> QED BY <6>1, NamesTyped
        <5>3. f[2] <= merge'.shards
          BY <2>4, <2>8, <5>1, <5>2
        <5>4. Bytes(merge.record[f])' <= MaxShardBytes
          BY <2>12, <4>1, <5>1
        <5> QED BY <2>4, <4>2, <5>1, <5>3, <5>4 DEF Merged, Shard
      <4>3. CASE ~Shard(f)
        <5>1. PICK k \in 1 .. merge.shards : merge.groups[k] = {f}
          BY <4>1, <4>3 DEF Merged
        <5>2. k \in 1 .. merge'.shards /\ merge'.groups[k] = {f}
          BY <2>4, <2>8, <5>1
        <5> QED BY <4>3, <5>2 DEF Merged, Shard
      <4> QED BY <4>2, <4>3
    <3> QED BY <3>1, <3>2, <3>3
  <2>10. ASSUME NEW t \in DOMAIN merge'.map PROVE t \in merge'.record[merge'.map[t]]
    <3>1. CASE t \in held
      BY <2>5, <2>6, <3>1
    <3>2. CASE t \notin held
      <4>1. t \in DOMAIN merge.map /\ merge'.map[t] = merge.map[t]
        BY <2>6, <3>2
      <4>2. merge.map[t] \in DOMAIN merge.record
        BY <2>4, <4>1 DEF StreamInv, FilesNamed, Range
      <4> QED BY <2>2, <2>5, <2>7, <4>1, <4>2
    <3> QED BY <3>1, <3>2
  <2>11. ASSUME NEW k \in 1 .. merge'.shards, NEW f \in merge'.groups[k]
         PROVE progress'.record[f] \subseteq DOMAIN merge'.map
    <3>1. CASE k = i
      <4>1. stored[f] \subseteq held /\ progress.record[f] = stored[f]
        BY <2>2, <2>4, <3>1
      <4> QED BY <2>4, <2>6, <4>1
    <3>2. CASE k # i
      <4>1. k \in 1 .. merge.shards
        BY <2>4, <2>8, <3>2
      <4> QED BY <2>4, <2>6, <2>7, <4>1
    <3> QED BY <3>1, <3>2
  <2> QED BY <2>9, <2>10, <2>11
<1>4. CASE QuietStep
  BY <1>1, <1>4 DEF QuietStep, Busy, Elsewhere
<1>5. CASE CommitStep \/ RemoveStep
  BY <1>1, <1>5 DEF CommitStep, RemoveStep
<1>6. CASE \/ LaunchStep \/ StopStep \/ AddStep \/ RecordStep \/ ClearStep \/ StartGrouping
           \/ \E f \in merge.left : TakeStep(f)
  BY <1>6 DEF LaunchStep, StopStep, AddStep, RecordStep, ClearStep, StartGrouping, TakeStep,
              Busy, Elsewhere
<1> QED BY <1>2, <1>3, <1>4, <1>5, <1>6 DEF StepOf

-----------------------------------------------------------------------------
(* The recorded files.                                                      *)

\* A merge that ends has every tensor.
LEMMA MergeIsWhole ==
  ASSUME ConversionAssumption, StreamInv, Lucky, CommitStep
  PROVE DOMAIN merge.map = Tensors
<1>1. at = "merge" /\ merge.shards = Len(merge.groups)
  BY DEF CommitStep
<1>2. DOMAIN progress.map = Tensors /\ DOMAIN merge.map \subseteq Tensors
  BY <1>1 DEF StreamInv, FilesNamed, Grouping, StreamTypeOK, IsMap
<1>3. ASSUME NEW t \in Tensors PROVE t \in DOMAIN merge.map
  <2> DEFINE f == progress.map[t]
  <2>1. f \in Mapped
    BY <1>2 DEF Mapped, Range
  <2>2. t \in progress.record[f]
    BY <1>2 DEF StreamInv, FilesIntact
  <2>3. merge.left = {} /\ merge.current = {}
    BY <1>1 DEF StreamInv, GroupsPartition, Grouping
  <2>4. PICK k \in 1 .. Len(merge.groups) : f \in merge.groups[k]
    BY <1>1, <2>1, <2>3 DEF StreamInv, GroupsPartition, Partitioned, Grouping
  <2>5. progress.record[f] \subseteq DOMAIN merge.map
    BY <1>1, <2>4 DEF StreamInv, MergeIsSound, Merging
  <2> QED BY <2>2, <2>5
<1> QED BY <1>2, <1>3

LEMMA FilesIntactStep ==
  ASSUME ConversionAssumption, StreamInv, StepOf
  PROVE FilesIntact'
<1> SUFFICES ASSUME Lucky'
             PROVE /\ \A f \in Mapped' : \/ at' = "merge" /\ f \in DOMAIN merge'.record
                                         \/ stored'[f] = progress'.record[f]
                   /\ \A t \in DOMAIN progress'.map : t \in progress'.record[progress'.map[t]]
                   /\ at' \in {"merged", "index"} => DOMAIN progress'.map = Tensors
  BY DEF FilesIntact
<1>0. /\ \A f \in Mapped : (at = "merge" /\ f \in DOMAIN merge.record)
                           \/ stored[f] = progress.record[f]
      /\ \A t \in DOMAIN progress.map : t \in progress.record[progress.map[t]]
      /\ at \in {"merged", "index"} => DOMAIN progress.map = Tensors
      /\ Lucky
  BY LuckyStep DEF StreamInv, FilesIntact
<1>a. /\ Mapped \subseteq DOMAIN progress.record /\ Mapped \subseteq DOMAIN stored
      /\ \A t \in DOMAIN progress.map : progress.map[t] \in Mapped
  BY DEF StreamInv, FilesNamed, Mapped, Range
<1>b. \A t \in Tensors :
        /\ TensorFile(t) \in DOMAIN stored => stored[TensorFile(t)] = {t}
        /\ TensorFile(t) \in DOMAIN progress.record => progress.record[TensorFile(t)] = {t}
  BY DEF StreamInv, OwnFiles
<1>1. CASE QuietStep
  BY <1>0, <1>1 DEF QuietStep, Mapped, Busy, Elsewhere
<1>2. CASE LaunchStep
  BY <1>0, <1>2 DEF LaunchStep, Kept, Mapped, Busy, Elsewhere
<1>3. CASE StopStep
  <2>1. at' = "idle" /\ progress' = progress /\ stored' = stored /\ Mapped' = Mapped
    BY <1>3 DEF StopStep, Mapped
  <2>2. ASSUME NEW f \in Mapped, at = "merge", f \in DOMAIN merge.record
        PROVE stored[f] = progress.record[f]
    <3>1. stored[f] = merge.record[f] /\ merge.old = Mapped
      BY <2>2 DEF StreamInv, FilesNamed, Merging, Grouping
    <3>2. merge.record[f] = progress.record[f]
      BY <1>3, <2>2, <3>1 DEF StopStep, Overwritten
    <3> QED BY <3>1, <3>2
  <2> QED BY <1>0, <2>1, <2>2
<1>4. CASE AddStep
  <2>1. PICK t \in Tensors : stored' = Put(stored, TensorFile(t), {t})
    BY <1>4 DEF AddStep
  <2>2. /\ stored'[TensorFile(t)] = {t}
        /\ \A f \in DOMAIN stored : f # TensorFile(t) => stored'[f] = stored[f]
    BY <2>1 DEF Put
  <2>3. at # "merge" /\ at' = "wrote" /\ progress' = progress /\ Mapped' = Mapped
    BY <1>4 DEF AddStep, Busy, Mapped
  <2>4. \A f \in Mapped : stored'[f] = progress.record[f]
    BY <1>0, <1>a, <1>b, <2>2, <2>3
  <2> QED BY <1>0, <2>3, <2>4
<1>5. CASE RecordStep
  <2>1. PICK t \in Tensors : /\ t = tensor
                             /\ progress'.map = Put(progress.map, t, TensorFile(t))
                             /\ progress'.record = Put(progress.record, TensorFile(t), {t})
    BY <1>5 DEF RecordStep
  <2>2. TensorFile(t) \in DOMAIN stored
    BY <1>5, <2>1 DEF RecordStep, StreamInv, TilesWritten
  <2>3. Mapped' \subseteq Mapped \cup {TensorFile(t)}
    BY <2>1 DEF Mapped, Put, Range
  <2>4. /\ progress'.record[TensorFile(t)] = {t}
        /\ \A f \in DOMAIN progress.record :
             f # TensorFile(t) => progress'.record[f] = progress.record[f]
        /\ DOMAIN progress'.map = DOMAIN progress.map \cup {t}
        /\ progress'.map[t] = TensorFile(t)
        /\ \A u \in DOMAIN progress.map : u # t => progress'.map[u] = progress.map[u]
    BY <2>1 DEF Put
  <2>5. at = "wrote" /\ at' = "save" /\ stored' = stored
    BY <1>5 DEF RecordStep
  <2>6. \A f \in Mapped' : stored'[f] = progress'.record[f]
    BY <1>0, <1>a, <1>b, <2>2, <2>3, <2>4, <2>5
  <2>7. ASSUME NEW u \in DOMAIN progress'.map
        PROVE u \in progress'.record[progress'.map[u]]
    <3>1. CASE u = t
      BY <2>4, <3>1
    <3>2. CASE u # t
      <4>1. /\ u \in DOMAIN progress.map /\ progress'.map[u] = progress.map[u]
            /\ progress.map[u] \in DOMAIN progress.record
            /\ u \in progress.record[progress.map[u]]
        BY <1>0, <1>a, <2>4, <3>2
      <4>2. progress.map[u] # TensorFile(t)
        BY <1>b, <3>2, <4>1
      <4> QED BY <2>4, <4>1, <4>2
    <3> QED BY <3>1, <3>2
  <2> QED BY <2>5, <2>6, <2>7
<1>6. CASE ClearStep
  <2>1. Mapped' = {}
    BY <1>6, NoMapIsEmpty DEF ClearStep, Mapped
  <2> QED BY <1>6, <2>1, NoMapIsEmpty DEF ClearStep, Elsewhere, Busy
<1>7. CASE StartGrouping
  BY <1>0, <1>7 DEF StartGrouping, Kept, Mapped
<1>8. CASE \E f \in merge.left : TakeStep(f)
  BY <1>0, <1>8 DEF TakeStep, Kept, Mapped
<1>9. CASE EndStep
  BY <1>0, <1>9 DEF EndStep, Kept, Mapped
<1>10. CASE \E i, name, held : ShardStep(i, name, held)
  <2>1. PICK i, name, held : ShardStep(i, name, held)
    BY <1>10
  <2>2. /\ at = "merge" /\ at' = "merge" /\ progress' = progress /\ Mapped' = Mapped
        /\ stored' = Put(stored, name, held) /\ merge'.record = Put(merge.record, name, held)
    BY <2>1 DEF ShardStep, Mapped
  <2>3. /\ DOMAIN merge'.record = DOMAIN merge.record \cup {name}
        /\ \A f \in DOMAIN stored : f # name => stored'[f] = stored[f]
    BY <2>2 DEF Put
  <2> QED BY <1>0, <1>a, <2>2, <2>3
<1>11. CASE CommitStep
  <2>1. /\ at = "merge" /\ progress'.map = merge.map /\ progress'.record = merge.record
        /\ stored' = stored
    BY <1>11 DEF CommitStep
  <2>2. Mapped' \subseteq DOMAIN merge.record
    BY <2>1 DEF Mapped, StreamInv, FilesNamed, Merging
  <2>3. \A f \in DOMAIN merge.record : stored[f] = merge.record[f]
    BY <2>1 DEF StreamInv, FilesNamed, Merging
  <2>4. \A t \in DOMAIN merge.map : t \in merge.record[merge.map[t]]
    BY <1>0, <2>1 DEF StreamInv, MergeIsSound, Merging
  <2>5. DOMAIN merge.map = Tensors
    BY <1>0, <1>11, MergeIsWhole
  <2> QED BY <2>1, <2>2, <2>3, <2>4, <2>5
<1>12. CASE RemoveStep
  <2>1. /\ at = "merged" /\ progress' = progress /\ Mapped' = Mapped
        /\ \A f \in DOMAIN stored' : stored'[f] = stored[f]
    BY <1>12 DEF RemoveStep, Mapped
  <2>2. Mapped' \subseteq DOMAIN stored'
    BY FilesNamedStep DEF FilesNamed
  <2> QED BY <1>0, <2>1, <2>2
<1> QED BY <1>1, <1>2, <1>3, <1>4, <1>5, <1>6, <1>7, <1>8, <1>9, <1>10, <1>11, <1>12 DEF StepOf

-----------------------------------------------------------------------------
(* Types.                                                                   *)
LEMMA MapTyped ==
  ASSUME NEW D, NEW R, NEW f, IsMap(f, D, R)
  PROVE /\ \A x \in D, v \in R : IsMap(Put(f, x, v), D, R)
        /\ \A S \in SUBSET D, n \in R : IsMap(Join(f, Holding(n, S)), D, R)
        /\ \A g : DOMAIN g \subseteq DOMAIN f /\ (\A x \in DOMAIN g : g[x] = f[x])
                    => IsMap(g, D, R)
        /\ IsMap(NoMap, D, R)
<1>1. DOMAIN f \subseteq D /\ \A x \in DOMAIN f : f[x] \in R
  BY DEF IsMap, Range
<1>2. ASSUME NEW g, DOMAIN g \subseteq D, \A x \in DOMAIN g : g[x] \in R
      PROVE IsMap(g, D, R)
  BY <1>2 DEF IsMap, Range
<1>3. ASSUME NEW x \in D, NEW v \in R PROVE IsMap(Put(f, x, v), D, R)
  <2> DEFINE p == Put(f, x, v)
  <2>1. DOMAIN p \subseteq D /\ \A y \in DOMAIN p : p[y] \in R
    BY <1>1 DEF Put
  <2> HIDE DEF p
  <2>2. IsMap(p, D, R)
    BY <1>2, <2>1
  <2> QED BY <2>2 DEF p
<1>4. ASSUME NEW S \in SUBSET D, NEW n \in R PROVE IsMap(Join(f, Holding(n, S)), D, R)
  <2> DEFINE j == Join(f, Holding(n, S))
  <2>1. DOMAIN j \subseteq D /\ \A y \in DOMAIN j : j[y] \in R
    BY <1>1 DEF Join, Holding
  <2> HIDE DEF j
  <2>2. IsMap(j, D, R)
    BY <1>2, <2>1
  <2> QED BY <2>2 DEF j
<1>5. \A g : DOMAIN g \subseteq DOMAIN f /\ (\A x \in DOMAIN g : g[x] = f[x]) => IsMap(g, D, R)
  BY <1>1, <1>2
<1>6. IsMap(NoMap, D, R)
  BY NoMapIsEmpty DEF IsMap
<1> QED BY <1>3, <1>4, <1>5, <1>6

StreamFilesTyped ==
  /\ IsMap(progress.map, Tensors, Names) /\ IsMap(progress.record, Names, SUBSET Tensors)
  /\ IsMap(merge.map, Tensors, Names) /\ IsMap(merge.record, Names, SUBSET Tensors)
  /\ IsMap(stored, Names, SUBSET Tensors)
  /\ merge.old \cup merge.left \cup merge.current \subseteq Names
  /\ merge.bytes \in Nat

LEMMA FilesTypedStep ==
  ASSUME ConversionAssumption, StreamInv, StepOf
  PROVE StreamFilesTyped'
<1>0. StreamFilesTyped /\ Mapped \subseteq Names
  BY DEF StreamInv, StreamTypeOK, StreamFilesTyped, Mapped, IsMap
<1>1. CASE QuietStep
  BY <1>0, <1>1 DEF QuietStep, StreamFilesTyped
<1>2. CASE LaunchStep
  <2>1. /\ merge'.map = NoMap /\ merge'.record = NoMap /\ merge'.bytes = 0
        /\ merge'.old = {} /\ merge'.left = {} /\ merge'.current = {}
        /\ progress' = progress /\ stored' = stored
    BY <1>2 DEF LaunchStep, Kept, NoMerge
  <2> QED BY <1>0, <2>1, MapTyped DEF StreamFilesTyped
<1>3. CASE StopStep
  BY <1>0, <1>3 DEF StopStep, StreamFilesTyped
<1>4. CASE AddStep
  <2>1. PICK t \in Tensors : stored' = Put(stored, TensorFile(t), {t})
    BY <1>4 DEF AddStep
  <2>2. TensorFile(t) \in Names /\ {t} \in SUBSET Tensors
    BY NamesTyped
  <2>3. IsMap(Put(stored, TensorFile(t), {t}), Names, SUBSET Tensors)
    BY <1>0, <2>2, MapTyped DEF StreamFilesTyped
  <2> QED BY <1>0, <1>4, <2>1, <2>3 DEF AddStep, StreamFilesTyped
<1>5. CASE RecordStep
  <2>1. PICK t \in Tensors : /\ progress'.map = Put(progress.map, t, TensorFile(t))
                             /\ progress'.record = Put(progress.record, TensorFile(t), {t})
    BY <1>5 DEF RecordStep
  <2>2. TensorFile(t) \in Names /\ {t} \in SUBSET Tensors
    BY NamesTyped
  <2>3. /\ IsMap(Put(progress.map, t, TensorFile(t)), Tensors, Names)
        /\ IsMap(Put(progress.record, TensorFile(t), {t}), Names, SUBSET Tensors)
    BY <1>0, <2>2, MapTyped DEF StreamFilesTyped
  <2> QED BY <1>0, <1>5, <2>1, <2>3 DEF RecordStep, StreamFilesTyped
<1>6. CASE ClearStep
  BY <1>0, <1>6, MapTyped DEF ClearStep, StreamFilesTyped
<1>7. CASE StartGrouping
  <2>1. IsMap(NoMap, Tensors, Names) /\ IsMap(NoMap, Names, SUBSET Tensors)
    BY <1>0, MapTyped DEF StreamFilesTyped
  <2> QED BY <1>0, <1>7, <2>1 DEF StartGrouping, Kept, StreamFilesTyped
<1>8. CASE \E f \in merge.left : TakeStep(f)
  <2>1. PICK f \in merge.left : TakeStep(f)
    BY <1>8
  <2>2. merge'.current \subseteq merge.current \cup {f} /\ merge'.left \subseteq merge.left
    BY <2>1 DEF TakeStep
  <2>3. f \in DOMAIN progress.record
    BY <2>1 DEF StreamInv, GroupsPartition, Partitioned, FilesNamed, Grouping, TakeStep
  <2>4. FileBytes(f) \in Nat
    BY <2>3, RecordsTyped, CellsFinite DEF FileBytes, StreamInv
  <2>5. merge'.bytes \in Nat
    BY <1>0, <2>1, <2>4 DEF TakeStep, StreamFilesTyped
  <2> QED BY <1>0, <2>1, <2>2, <2>5 DEF TakeStep, Kept, MergeKept, StreamFilesTyped
<1>9. CASE EndStep
  BY <1>0, <1>9 DEF EndStep, Kept, MergeKept, StreamFilesTyped
<1>10. CASE \E i, name, held : ShardStep(i, name, held)
  <2>1. PICK i, name, held : ShardStep(i, name, held)
    BY <1>10
  <2>2. name \in Names /\ held \in SUBSET Tensors
    BY <2>1, ShardNamed
  <2>3. /\ IsMap(Put(stored, name, held), Names, SUBSET Tensors)
        /\ IsMap(Put(merge.record, name, held), Names, SUBSET Tensors)
        /\ IsMap(Join(merge.map, Holding(name, held)), Tensors, Names)
    BY <1>0, <2>2, MapTyped DEF StreamFilesTyped
  <2> QED BY <1>0, <2>1, <2>3 DEF ShardStep, StreamFilesTyped
<1>11. CASE CommitStep
  BY <1>0, <1>11 DEF CommitStep, StreamFilesTyped
<1>12. CASE RemoveStep
  <2>1. IsMap(stored', Names, SUBSET Tensors)
    BY <1>0, <1>12, MapTyped DEF RemoveStep, StreamFilesTyped
  <2> QED BY <1>0, <1>12, <2>1 DEF RemoveStep, StreamFilesTyped
<1> QED BY <1>1, <1>2, <1>3, <1>4, <1>5, <1>6, <1>7, <1>8, <1>9, <1>10, <1>11, <1>12 DEF StepOf

LEMMA ShapesStep ==
  ASSUME Shapes, [StreamNext]_streamVars
  PROVE Shapes'
<1>1. DOMAIN progress' = {"there", "key", "map", "record", "tiles"}
  <2>1. CASE progress' = progress
    BY <2>1 DEF Shapes
  <2>2. CASE StartProgress \/ RecordKey \/ RecordTile \/ CommitMerge \/ DropProgress
    BY <2>2 DEF StartProgress, RecordKey, RecordTile, CommitMerge, DropProgress, Nothing,
                NoProgress, Shapes
  <2>3. CASE \E t \in Tensors : RecordTensor(t)
    BY <2>3 DEF RecordTensor, Shapes
  <2> QED BY <2>1, <2>2, <2>3
      DEF StreamNext, Run, Save, Consolidate, Finish, Launch, WriteKey, WriteTensor, OpenSink,
          Preallocate, WriteTile, CommitSink, AllSaved, GroupFile, EndGroups, MergeShard,
          RemoveOld, WriteIndex, WriteOffline, WriteOnline, ListOutput, PublishOutput,
          PublishKey, PublishOnline, RenameOne, EncryptKey, Scan, Interrupt, disk, streamVars
<1>2. DOMAIN merge' =
        {"old", "left", "groups", "current", "bytes", "shards", "map", "record"}
  <2>1. CASE merge' = merge
    BY <2>1 DEF Shapes
  <2>2. CASE Launch \/ AllSaved
    BY <2>2 DEF Launch, AllSaved, NoMerge
  <2>3. CASE GroupFile \/ EndGroups \/ MergeShard
    BY <2>3 DEF GroupFile, EndGroups, MergeShard, Shapes
  <2> QED BY <2>1, <2>2, <2>3
      DEF StreamNext, Run, Save, Consolidate, Finish, StartProgress, WriteKey, RecordKey,
          WriteTensor, RecordTensor, OpenSink, Preallocate, WriteTile, RecordTile, CommitSink,
          CommitMerge, RemoveOld, WriteIndex, WriteOffline, WriteOnline, ListOutput,
          DropProgress, PublishOutput, PublishKey, PublishOnline, RenameOne, EncryptKey, Scan,
          Interrupt, streamVars
<1> QED BY <1>1, <1>2 DEF Shapes

ControlTyped ==
  /\ family \in {"deepseek", "glm4_moe"} /\ size \in Sizings
  /\ at \in StreamPlaces /\ tensor \in Tensors \cup {NoTensor}
  /\ place \in [{"output", "key", "online"} -> {"absent", "partial", "final"}]
  /\ progress.there \in BOOLEAN /\ progress.key \in BOOLEAN
  /\ progress.tiles \in [Tensors -> SUBSET Tiles]
  /\ sink \in [Tensors -> {"absent", "short", "full"}]
  /\ written \in [Tensors -> SUBSET Tiles]
  /\ keyFile \in BOOLEAN /\ encrypted \in BOOLEAN
  /\ IsMap(index, Tensors, Names)
  /\ listing \in [{"output", "key", "online"} -> {"none", "right", "stale"}]
  /\ stops \in 0 .. MaxStops /\ unlucky \subseteq (Window \cup {"overwritten"})

LEMMA ControlTypedStep ==
  ASSUME ConversionAssumption, StreamInv, [StreamNext]_streamVars
  PROVE ControlTyped'
<1>0. ControlTyped /\ Shapes /\ IsMap(progress.map, Tensors, Names)
  BY DEF StreamInv, StreamTypeOK, ControlTyped
<1>s. MaxStops \in Nat
  BY DEF ConversionAssumption
<1>a. CASE UNCHANGED streamVars
  BY <1>0, <1>a DEF ControlTyped, streamVars
<1>1. CASE Launch
  <2>1. place' = place \/ place' = Opened
    BY <1>1 DEF Launch, disk
  <2>2. place' \in [{"output", "key", "online"} -> {"absent", "partial", "final"}]
    BY <1>0, <2>1 DEF ControlTyped, Opened
  <2>3. /\ at' \in {"scan", "start", "key", "failed"} /\ tensor' = NoTensor
        /\ UNCHANGED <<fixed, progress, sink, written, keyFile, index, listing, encrypted>>
    BY <1>1 DEF Launch, GoTo, disk
  <2> QED BY <1>0, <2>2, <2>3 DEF ControlTyped, StreamPlaces, fixed
<1>2. CASE StartProgress
  BY <1>0, <1>s, <1>2 DEF ControlTyped, Shapes, StreamPlaces, fixed, GoTo,
     StartProgress, Nothing
<1>3. CASE WriteKey
  BY <1>0, <1>s, <1>3 DEF ControlTyped, Shapes, StreamPlaces, fixed, GoTo,
     WriteKey
<1>4. CASE RecordKey
  BY <1>0, <1>s, <1>4 DEF ControlTyped, Shapes, StreamPlaces, fixed, GoTo,
     RecordKey
<1>5. CASE \E t \in Tensors : WriteTensor(t)
  BY <1>0, <1>s, <1>5 DEF ControlTyped, Shapes, StreamPlaces, fixed, GoTo,
     WriteTensor
<1>6. CASE \E t \in Tensors : RecordTensor(t)
  BY <1>0, <1>s, <1>6 DEF ControlTyped, Shapes, StreamPlaces, fixed, GoTo,
     RecordTensor
<1>7. CASE \E t \in Tensors : OpenSink(t)
  <2>1. PICK t \in Tensors : OpenSink(t)
    BY <1>7
  <2>2. sink' = sink \/ sink' = [sink EXCEPT ![t] = "short"]
    BY <2>1 DEF OpenSink
  <2>3. sink' \in [Tensors -> {"absent", "short", "full"}]
    BY <1>0, <2>2 DEF ControlTyped
  <2>4. /\ at' \in {"wrote", "failed", "preallocate", "tiles"} /\ tensor' \in Tensors
        /\ UNCHANGED <<fixed, place, progress, written, keyFile, index, listing, encrypted>>
    BY <2>1 DEF OpenSink, GoTo
  <2> QED BY <1>0, <2>3, <2>4 DEF ControlTyped, StreamPlaces, fixed
<1>8. CASE Preallocate
  BY <1>0, <1>s, <1>8 DEF ControlTyped, Shapes, StreamPlaces, fixed, GoTo,
     Preallocate
<1>9. CASE WriteTile
  <2>1. written' = written \/ \E k \in Tiles : written' = [written EXCEPT ![tensor] = @ \cup {k}]
    BY <1>9 DEF WriteTile
  <2>2. written' \in [Tensors -> SUBSET Tiles]
    BY <1>0, <2>1 DEF ControlTyped
  <2>3. at' \in {"tile", "failed"}
    BY <1>9 DEF WriteTile, GoTo
  <2> QED BY <1>0, <1>9, <2>2, <2>3 DEF WriteTile, ControlTyped, StreamPlaces, fixed
<1>10. CASE RecordTile
  <2>1. PICK k \in Tiles : progress' = [progress EXCEPT !.tiles[tensor] = @ \cup {k}]
    BY <1>10 DEF RecordTile
  <2>2. /\ progress'.there = progress.there /\ progress'.key = progress.key
        /\ progress'.tiles = [progress.tiles EXCEPT ![tensor] = @ \cup {k}]
    BY <1>0, <2>1 DEF Shapes
  <2>5. tensor \in Tensors
    BY <1>10 DEF RecordTile, StreamInv, TilesWritten
  <2>6. progress.tiles[tensor] \cup {k} \in SUBSET Tiles
    BY <1>0, <2>5 DEF ControlTyped
  <2>7. progress.tiles \in [Tensors -> SUBSET Tiles]
    BY <1>0 DEF ControlTyped
  <2>3. progress'.tiles \in [Tensors -> SUBSET Tiles]
    BY <2>2, <2>6, <2>7
  <2>4. at' = "tiles"
    BY <1>10 DEF RecordTile, GoTo
  <2> QED BY <1>0, <1>10, <2>2, <2>3, <2>4 DEF RecordTile, ControlTyped, StreamPlaces, fixed
<1>11. CASE CommitSink
  <2>1. /\ sink' = sink \/ sink' = [sink EXCEPT ![tensor] = "absent"]
        /\ written' = written \/ written' = [written EXCEPT ![tensor] = {}]
    BY <1>11 DEF CommitSink
  <2>2. /\ sink' \in [Tensors -> {"absent", "short", "full"}]
        /\ written' \in [Tensors -> SUBSET Tiles]
    BY <1>0, <2>1 DEF ControlTyped
  <2>3. /\ at' \in {"wrote", "failed"}
        /\ UNCHANGED <<fixed, tensor, place, progress, keyFile, index, listing, encrypted>>
    BY <1>11 DEF CommitSink, GoTo
  <2> QED BY <1>0, <2>2, <2>3 DEF ControlTyped, StreamPlaces, fixed
<1>12. CASE AllSaved \/ GroupFile \/ EndGroups
  <2>1. /\ at' \in {"group", "merge"}
        /\ UNCHANGED <<fixed, tensor, disk>>
    BY <1>12 DEF AllSaved, GroupFile, EndGroups, GoTo
  <2> QED BY <1>0, <2>1 DEF ControlTyped, StreamPlaces, fixed, disk
<1>13. CASE MergeShard
  BY <1>0, <1>s, <1>13 DEF ControlTyped, Shapes, StreamPlaces, fixed, GoTo,
     MergeShard
<1>14. CASE CommitMerge
  BY <1>0, <1>s, <1>14 DEF ControlTyped, Shapes, StreamPlaces, fixed, GoTo,
     CommitMerge
<1>15. CASE RemoveOld
  BY <1>0, <1>s, <1>15 DEF ControlTyped, Shapes, StreamPlaces, fixed, GoTo,
     RemoveOld
<1>16. CASE WriteIndex
  BY <1>0, <1>s, <1>16 DEF ControlTyped, Shapes, StreamPlaces, fixed, GoTo,
     WriteIndex
<1>17. CASE WriteOffline
  BY <1>0, <1>s, <1>17 DEF ControlTyped, Shapes, StreamPlaces, fixed, GoTo,
     WriteOffline, Write, Listed
<1>18. CASE WriteOnline
  BY <1>0, <1>s, <1>18 DEF ControlTyped, Shapes, StreamPlaces, fixed, GoTo,
     WriteOnline, Write, Listed
<1>19. CASE ListOutput
  BY <1>0, <1>s, <1>19 DEF ControlTyped, Shapes, StreamPlaces, fixed, GoTo,
     ListOutput, Write, Listed
<1>20. CASE DropProgress
  BY <1>0, <1>s, <1>20 DEF ControlTyped, Shapes, StreamPlaces, fixed, GoTo,
     DropProgress, NoProgress, Nothing
<1>21. CASE PublishOutput
  BY <1>0, <1>s, <1>21 DEF ControlTyped, Shapes, StreamPlaces, fixed, GoTo,
     PublishOutput, RenameOne
<1>22. CASE PublishKey
  BY <1>0, <1>s, <1>22 DEF ControlTyped, Shapes, StreamPlaces, fixed, GoTo,
     PublishKey, RenameOne
<1>23. CASE PublishOnline
  BY <1>0, <1>s, <1>23 DEF ControlTyped, Shapes, StreamPlaces, fixed, GoTo,
     PublishOnline, RenameOne
<1>24. CASE EncryptKey
  BY <1>0, <1>s, <1>24 DEF ControlTyped, Shapes, StreamPlaces, fixed, GoTo,
     EncryptKey
<1>25. CASE Scan
  BY <1>0, <1>s, <1>25 DEF ControlTyped, Shapes, StreamPlaces, fixed, GoTo,
     Scan, disk
<1>26. CASE Interrupt
  <2>1. stops' = stops + 1 /\ stops < MaxStops
    BY <1>26 DEF Interrupt
  <2>2. stops' \in 0 .. MaxStops
    BY <1>0, <1>s, <2>1 DEF ControlTyped
  <2>3. unlucky' \subseteq unlucky \cup Window \cup {"overwritten"}
    BY <1>26 DEF Interrupt
  <2>4. unlucky' \subseteq Window \cup {"overwritten"}
    BY <1>0, <2>3 DEF ControlTyped
  <2>5. at' = "idle"
    BY <1>26 DEF Interrupt, GoTo
  <2> QED BY <1>0, <1>26, <2>2, <2>4, <2>5 DEF Interrupt, disk, ControlTyped, StreamPlaces
<1> QED BY <1>a, <1>1, <1>2, <1>3, <1>4, <1>5, <1>6, <1>7, <1>8, <1>9, <1>10, <1>11, <1>12, <1>13,
           <1>14, <1>15, <1>16, <1>17, <1>18, <1>19, <1>20, <1>21, <1>22, <1>23, <1>24, <1>25, <1>26
   DEF StreamNext, Run, Save, Consolidate, Finish

-----------------------------------------------------------------------------
(* The tiles, the key, the first start and what is published.               *)
LEMMA TilesWrittenStep ==
  ASSUME ConversionAssumption, StreamInv, [StreamNext]_streamVars
  PROVE TilesWritten'
<1>0. TilesWritten /\ Shapes /\ ControlTyped
  BY DEF StreamInv, StreamTypeOK, ControlTyped
<1>u. unlucky \subseteq unlucky'
  BY DEF StreamNext, Run, Save, Consolidate, Finish, Launch, StartProgress, WriteKey, RecordKey,
         WriteTensor, RecordTensor, OpenSink, Preallocate, WriteTile, RecordTile, CommitSink,
         AllSaved, GroupFile, EndGroups, MergeShard, CommitMerge, RemoveOld, WriteIndex,
         WriteOffline, WriteOnline, ListOutput, DropProgress, PublishOutput, PublishKey,
         PublishOnline, RenameOne, EncryptKey, Scan, Interrupt, fixed, streamVars
<1> DEFINE TilesThere == \A t \in Tensors : \/ progress.tiles[t] \subseteq written[t]
                                            \/ TensorFile(t) \in DOMAIN stored
                                            \/ t \in DOMAIN progress.map
           Done == {"preallocate", "tiles", "tile", "wrote", "keyed"}
\* what stays as it is while nothing of it changes
<1>a. ASSUME UNCHANGED <<progress, written, stored, keyFile>>, at' \notin Done PROVE TilesWritten'
  BY <1>0, <1>a, <1>u DEF TilesWritten, Lucky
<1>1. CASE UNCHANGED streamVars
  BY <1>0, <1>1 DEF TilesWritten, streamVars, NextTile, Lucky
<1>2. CASE Launch
  BY <1>2, <1>a DEF Launch, GoTo, disk
<1>3. CASE StartProgress
  <2>1. progress'.tiles = [t \in Tensors |-> {}] /\ progress'.key = FALSE /\ at' = "key"
    BY <1>3 DEF StartProgress, Nothing, GoTo
  <2> QED BY <2>1 DEF TilesWritten
<1>4. CASE WriteKey
  <2>1. /\ keyFile \/ (at' = "failed") => keyFile' \/ at' = "failed"
        /\ progress.key => keyFile'
        /\ at' = "keyed" => keyFile' /\ at' \in {"keyed", "save", "failed"}
    BY <1>0, <1>4 DEF WriteKey, GoTo, TilesWritten
  <2>2. at' \in {"keyed", "save", "failed"} /\ UNCHANGED <<progress, written, stored>>
    BY <1>4 DEF WriteKey, GoTo
  <2> QED BY <1>0, <1>u, <2>1, <2>2 DEF TilesWritten, Lucky
<1>5. CASE RecordKey
  <2>1. /\ progress'.map = progress.map /\ progress'.tiles = progress.tiles
        /\ at' = "save" /\ keyFile /\ UNCHANGED <<written, stored, keyFile>>
    BY <1>0, <1>5 DEF RecordKey, Shapes, TilesWritten, GoTo
  <2> QED BY <1>0, <1>u, <2>1 DEF TilesWritten, Lucky
<1>6. CASE \E t \in Tensors : WriteTensor(t)
  <2>1. PICK t \in Tensors : WriteTensor(t)
    BY <1>6
  <2>2. /\ tensor' = t /\ at' = "wrote" /\ UNCHANGED <<progress, written, keyFile>>
        /\ stored' = Put(stored, TensorFile(t), {t})
    BY <2>1 DEF WriteTensor, GoTo
  <2>3. DOMAIN stored' = DOMAIN stored \cup {TensorFile(t)}
    BY <2>2 DEF Put
  <2> QED BY <1>0, <1>u, <2>2, <2>3 DEF TilesWritten, Lucky
<1>7. CASE \E t \in Tensors : RecordTensor(t)
  <2>1. PICK t \in Tensors : RecordTensor(t)
    BY <1>7
  <2>2. /\ progress'.map = Put(progress.map, t, TensorFile(t))
        /\ progress'.tiles = progress.tiles /\ progress'.key = progress.key
        /\ at' = "save" /\ UNCHANGED <<written, stored, keyFile>>
    BY <1>0, <2>1 DEF RecordTensor, Shapes, GoTo
  <2>3. DOMAIN progress'.map = DOMAIN progress.map \cup {t}
    BY <2>2 DEF Put
  <2> QED BY <1>0, <1>u, <2>2, <2>3 DEF TilesWritten, Lucky
<1>8. CASE \E t \in Tensors : OpenSink(t)
  <2>1. PICK t \in Tensors : OpenSink(t)
    BY <1>8
  <2>2. /\ tensor' = t /\ at' \in {"wrote", "failed", "preallocate", "tiles"}
        /\ at' = "wrote" => TensorFile(t) \in DOMAIN stored
        /\ UNCHANGED <<progress, written, stored, keyFile>>
    BY <2>1 DEF OpenSink, GoTo
  <2> QED BY <1>0, <1>u, <2>2 DEF TilesWritten, Lucky
<1>9. CASE Preallocate
  BY <1>0, <1>u, <1>9 DEF Preallocate, GoTo, TilesWritten, Lucky
<1>10. CASE WriteTile
  <2>1. at = "tiles" /\ tensor \in Tensors /\ UNCHANGED <<tensor, progress, stored, keyFile>>
    BY <1>0, <1>10 DEF WriteTile, TilesWritten
  <2>2. CASE at' = "failed" /\ written' = written
    BY <1>a, <2>1, <2>2
  <2>3. CASE /\ progress.tiles[tensor] \subseteq written[tensor] /\ at' = "tile"
             /\ \E k \in Tiles : NextTile(k) /\ written' = [written EXCEPT ![tensor] = @ \cup {k}]
    <3>1. PICK k \in Tiles : NextTile(k) /\ written' = [written EXCEPT ![tensor] = @ \cup {k}]
      BY <2>3
    <3>2. \A j \in Tiles : NextTile(j) => j = k
      <4> SUFFICES ASSUME NEW j \in Tiles, NextTile(j) PROVE j = k
        OBVIOUS
      <4>1. 1 .. j - 1 = 1 .. k - 1
        BY <3>1 DEF NextTile
      <4>2. j \in Nat \ {0} /\ k \in Nat \ {0}
        BY DEF Tiles, ConversionAssumption
      <4>3. ~(j < k) /\ ~(k < j)
        <5>1. j < k => j \in 1 .. k - 1 /\ j \notin 1 .. j - 1
          BY <4>2
        <5>2. k < j => k \in 1 .. j - 1 /\ k \notin 1 .. k - 1
          BY <4>2
        <5> QED BY <4>1, <5>1, <5>2
      <4> QED BY <4>2, <4>3
    <3>3. /\ k \in written'[tensor]
          /\ \A t \in Tensors : written[t] \subseteq written'[t]
      BY <1>0, <2>1, <3>1 DEF ControlTyped
    <3>4. \A j \in Tiles : NextTile(j)' => j \in written'[tensor]
      BY <2>1, <3>2, <3>3 DEF NextTile
    <3>5. \A t \in Tensors : progress.tiles[t] \subseteq written[t]
                               => progress'.tiles[t] \subseteq written'[t]
      BY <2>1, <3>3
    <3> QED BY <1>0, <1>u, <2>1, <2>3, <3>4, <3>5 DEF TilesWritten, Lucky
  <2> QED BY <1>10, <2>2, <2>3 DEF WriteTile, GoTo
<1>11. CASE RecordTile
  <2>1. PICK k \in Tiles : NextTile(k) /\ progress' = [progress EXCEPT !.tiles[tensor] = @ \cup {k}]
    BY <1>11 DEF RecordTile
  <2>2. /\ at = "tile" /\ at' = "tiles" /\ UNCHANGED <<tensor, written, stored, keyFile>>
        /\ tensor \in Tensors
    BY <1>0, <1>11 DEF RecordTile, GoTo, TilesWritten
  <2>3. /\ progress'.map = progress.map /\ progress'.key = progress.key
        /\ progress'.tiles = [progress.tiles EXCEPT ![tensor] = @ \cup {k}]
    BY <1>0, <2>1 DEF Shapes
  <2>4. k \in written[tensor]
    BY <1>0, <2>1, <2>2 DEF TilesWritten
  <2>5. \A t \in Tensors : progress.tiles[t] \subseteq written[t]
                             => progress'.tiles[t] \subseteq written'[t]
    BY <1>0, <2>2, <2>3, <2>4 DEF ControlTyped
  <2> QED BY <1>0, <1>u, <2>2, <2>3, <2>5 DEF TilesWritten, Lucky
<1>12. CASE CommitSink
  <2>1. at = "tiles" /\ tensor \in Tensors /\ UNCHANGED <<tensor, progress, keyFile>>
    BY <1>0, <1>12 DEF CommitSink, TilesWritten
  <2>2. CASE at' = "failed" /\ UNCHANGED <<written, stored>>
    BY <1>a, <2>1, <2>2
  <2>3. CASE /\ at' = "wrote" /\ written' = [written EXCEPT ![tensor] = {}]
             /\ stored' = Put(stored, TensorFile(tensor), {tensor})
    <3>1. DOMAIN stored' = DOMAIN stored \cup {TensorFile(tensor)}
      BY <2>3 DEF Put
    <3>2. \A t \in Tensors : t # tensor => written'[t] = written[t]
      BY <1>0, <2>3 DEF ControlTyped
    <3> QED BY <1>0, <1>u, <2>1, <2>3, <3>1, <3>2 DEF TilesWritten, Lucky
  <2> QED BY <1>12, <2>2, <2>3 DEF CommitSink, GoTo
<1>13. CASE AllSaved \/ GroupFile \/ EndGroups
  BY <1>0, <1>13, <1>a DEF AllSaved, GroupFile, EndGroups, GoTo, disk
<1>14. CASE MergeShard
  <2>1. /\ at = "merge" /\ at' = "merge" /\ UNCHANGED <<progress, written, keyFile>>
        /\ \E name, held : stored' = Put(stored, name, held)
    BY <1>14 DEF MergeShard
  <2>2. DOMAIN stored \subseteq DOMAIN stored'
    BY <2>1 DEF Put
  <2> QED BY <1>0, <1>u, <2>1, <2>2 DEF TilesWritten, Lucky
<1>15. CASE CommitMerge
  <2>1. /\ progress'.map = merge.map /\ progress'.key = progress.key /\ at' = "merged"
        /\ keyFile' = keyFile
    BY <1>0, <1>15 DEF CommitMerge, Shapes, GoTo
  <2>2. Lucky' => DOMAIN progress'.map = Tensors
    <3> SUFFICES ASSUME Lucky' PROVE DOMAIN merge.map = Tensors
      BY <2>1
    <3>1. CommitStep
      BY <1>0, <1>15 DEF CommitMerge, CommitStep, Shapes, fixed, GoTo
    <3> QED BY <1>u, <3>1, MergeIsWhole DEF Lucky
  <2> QED BY <1>0, <2>1, <2>2 DEF TilesWritten
<1>16. CASE RemoveOld
  <2>1. at = "merged" /\ at' \in {"merged", "index"} /\ UNCHANGED <<progress, keyFile>>
    BY <1>16 DEF RemoveOld, GoTo
  <2>2. Lucky' => DOMAIN progress.map = Tensors
    BY <1>u, <2>1 DEF StreamInv, FilesIntact, Lucky
  <2> QED BY <1>0, <2>1, <2>2 DEF TilesWritten
<1>17. CASE WriteIndex \/ WriteOffline \/ WriteOnline \/ ListOutput
  BY <1>17, <1>a DEF WriteIndex, WriteOffline, WriteOnline, ListOutput, GoTo
<1>18. CASE DropProgress
  <2>1. /\ progress'.tiles = [t \in Tensors |-> {}] /\ progress'.key = FALSE
        /\ at' \notin Done
    BY <1>18 DEF DropProgress, NoProgress, Nothing, GoTo
  <2> QED BY <2>1 DEF TilesWritten
<1>19. CASE PublishOutput \/ PublishKey \/ PublishOnline
  BY <1>19, <1>a DEF PublishOutput, PublishKey, PublishOnline, RenameOne, GoTo
<1>20. CASE EncryptKey \/ Scan \/ Interrupt
  BY <1>20, <1>a DEF EncryptKey, Scan, Interrupt, disk, GoTo
<1> QED BY <1>1, <1>2, <1>3, <1>4, <1>5, <1>6, <1>7, <1>8, <1>9, <1>10, <1>11, <1>12, <1>13,
           <1>14, <1>15, <1>16, <1>17, <1>18, <1>19, <1>20
        DEF StreamNext, Run, Save, Consolidate, Finish

LEMMA FirstStartStep ==
  ASSUME StreamInv, [StreamNext]_streamVars
  PROVE FirstStart'
<1>0. FirstStart /\ ControlTyped
  BY DEF StreamInv, StreamTypeOK, ControlTyped
<1>1. CASE UNCHANGED streamVars
  BY <1>0, <1>1 DEF FirstStart, streamVars
<1>2. CASE Launch
  <2>1. CASE place.output = "final" \/ place.output = "partial"
    BY <1>2, <2>1 DEF Launch, GoTo, FirstStart, disk
  <2>2. CASE place.output = "absent"
    <3>1. place' = Opened /\ progress' = progress
      BY <1>2, <2>2 DEF Launch
    <3>2. place'.output = "partial"
      BY <1>0, <3>1 DEF Opened, ControlTyped
    <3> QED BY <1>0, <2>2, <3>1, <3>2 DEF FirstStart
  <2> QED BY <1>0, <2>1, <2>2 DEF ControlTyped
<1>3. CASE \/ place' = place /\ at # "idle" /\ at' # "start"
           \/ place' # place /\ place'.output # "absent" /\ at' # "start"
  <2>1. place'.output # "absent"
    BY <1>0, <1>3 DEF FirstStart
  <2> QED BY <1>3, <2>1 DEF FirstStart
<1>4. CASE StartProgress \/ WriteKey \/ RecordKey
  BY <1>3, <1>4 DEF StartProgress, WriteKey, RecordKey, GoTo
<1>5. CASE Save
  BY <1>3, <1>5 DEF Save, WriteTensor, RecordTensor, OpenSink, Preallocate, WriteTile,
                    RecordTile, CommitSink, GoTo
<1>6. CASE Consolidate
  BY <1>3, <1>6 DEF Consolidate, AllSaved, GroupFile, EndGroups, MergeShard, CommitMerge,
                    RemoveOld, GoTo, disk
<1>7. CASE WriteIndex \/ WriteOffline \/ WriteOnline \/ ListOutput \/ DropProgress
  BY <1>3, <1>7 DEF WriteIndex, WriteOffline, WriteOnline, ListOutput, DropProgress, GoTo
<1>8. CASE PublishOutput \/ PublishKey \/ PublishOnline
  <2>1. at # "idle" /\ at' # "start"
    BY <1>8 DEF PublishOutput, PublishKey, PublishOnline, RenameOne, GoTo
  <2>2. place.output # "absent"
    BY <1>0, <2>1 DEF FirstStart
  <2>3. place'.output # "absent"
    BY <1>0, <1>8, <2>2 DEF PublishOutput, PublishKey, PublishOnline, RenameOne, ControlTyped
  <2> QED BY <2>1, <2>3 DEF FirstStart
<1>9. CASE EncryptKey \/ Scan \/ Interrupt
  BY <1>3, <1>9 DEF EncryptKey, Scan, Interrupt, disk, GoTo
<1> QED BY <1>1, <1>2, <1>4, <1>5, <1>6, <1>7, <1>8, <1>9 DEF StreamNext, Run, Finish

LEMMA OutputPublishedStep ==
  ASSUME ConversionAssumption, StreamInv, [StreamNext]_streamVars
  PROVE OutputPublished'
<1>0. OutputPublished /\ FirstStart /\ ControlTyped
  BY DEF StreamInv, StreamTypeOK, ControlTyped
<1>u. unlucky \subseteq unlucky' /\ StepOf
  <2>1. StepOf
    BY Steps DEF StreamInv
  <2> QED BY <2>1 DEF StepOf, QuietStep, LaunchStep, StopStep, AddStep, RecordStep, ClearStep,
                      StartGrouping, TakeStep, EndStep, ShardStep, CommitStep, RemoveStep, Kept
<1> USE DEF Publishing, Ended, Indexed
\* before the index is written nothing is published
<1>a. ASSUME at \notin Publishing \cup Ended \cup Indexed, place' = place,
             at' \notin Publishing \cup Indexed \cup {"scan", "completed"}
      PROVE OutputPublished'
  <2>1. place'.output # "final"
    BY <1>0, <1>a DEF OutputPublished
  <2> QED BY <1>a, <2>1 DEF OutputPublished
\* after that its files are kept
<1>b. ASSUME UNCHANGED <<index, stored>>, IndexIsWhole PROVE IndexIsWhole'
  BY <1>b DEF IndexIsWhole
<1>1. CASE UNCHANGED streamVars
  BY <1>0, <1>1, <1>b DEF OutputPublished, streamVars, Lucky
<1>2. CASE Launch
  <2>1. CASE place.output = "final"
    <3>1. at' = "scan" /\ UNCHANGED <<place, index, stored>>
      BY <1>2, <2>1 DEF Launch, GoTo, disk
    <3> QED BY <1>0, <1>b, <1>u, <2>1, <3>1 DEF OutputPublished, Lucky
  <2>2. CASE place.output # "final"
    <3>1. at' \in {"start", "key", "failed"} /\ (place' = place \/ place' = Opened)
      BY <1>2, <2>2 DEF Launch, GoTo, disk
    <3>2. place'.output # "final"
      BY <1>0, <2>2, <3>1 DEF Opened, ControlTyped
    <3> QED BY <3>1, <3>2 DEF OutputPublished
  <2> QED BY <2>1, <2>2
<1>4. CASE StartProgress \/ WriteKey \/ RecordKey
  BY <1>a, <1>4 DEF StartProgress, WriteKey, RecordKey, GoTo
<1>5. CASE Save
  BY <1>a, <1>5 DEF Save, WriteTensor, RecordTensor, OpenSink, Preallocate, WriteTile,
                    RecordTile, CommitSink, GoTo
<1>6. CASE Consolidate
  BY <1>a, <1>6 DEF Consolidate, AllSaved, GroupFile, EndGroups, MergeShard, CommitMerge,
                    RemoveOld, GoTo, disk
<1>7. CASE WriteIndex
  <2>1. /\ at = "index" /\ at' = "offline" /\ index' = progress.map
        /\ UNCHANGED <<place, stored, unlucky>>
    BY <1>7 DEF WriteIndex, GoTo, fixed
  <2>2. place'.output # "final"
    BY <1>0, <2>1 DEF OutputPublished
  <2>3. Lucky' => IndexIsWhole'
    <3> SUFFICES ASSUME Lucky' PROVE IndexIsWhole'
      OBVIOUS
    <3>1. DOMAIN index' = Tensors
      BY <1>u, <2>1, LuckyStep DEF StreamInv, FilesIntact
    <3>2. ASSUME NEW t \in Tensors
          PROVE index'[t] \in DOMAIN stored' /\ t \in stored'[index'[t]]
      <4>1. index'[t] \in Mapped
        BY <2>1, <3>1 DEF Mapped, Range
      <4>2. /\ stored[index'[t]] = progress.record[index'[t]]
            /\ t \in progress.record[index'[t]]
        BY <1>u, <2>1, <3>1, <4>1, LuckyStep DEF StreamInv, FilesIntact
      <4> QED BY <2>1, <4>1, <4>2 DEF StreamInv, FilesNamed
    <3> QED BY <3>1, <3>2 DEF IndexIsWhole
  <2> QED BY <2>1, <2>2, <2>3 DEF OutputPublished
<1>8. CASE WriteOffline \/ WriteOnline \/ ListOutput \/ DropProgress
  <2>1. /\ at \in Indexed /\ at' \in Indexed
        /\ UNCHANGED <<place, stored, index>>
    BY <1>8 DEF WriteOffline, WriteOnline, ListOutput, DropProgress, GoTo
  <2> QED BY <1>0, <1>b, <1>u, <2>1 DEF OutputPublished, Lucky
<1>9. CASE PublishOutput
  <2>1. /\ at = "publish output" /\ at' = "publish key" /\ place'.output = "final"
        /\ UNCHANGED <<stored, index>>
    BY <1>0, <1>9 DEF PublishOutput, RenameOne, GoTo, ControlTyped
  <2> QED BY <1>0, <1>b, <1>u, <2>1 DEF OutputPublished, Lucky
<1>10. CASE PublishKey \/ PublishOnline \/ EncryptKey \/ Scan
  <2>1. /\ at \in Publishing \cup {"scan"} /\ at' \in Publishing \cup Ended
        /\ at = "scan" => at' \notin Publishing
        /\ place'.output = place.output
        /\ UNCHANGED <<stored, index>>
    BY <1>0, <1>10 DEF PublishKey, PublishOnline, RenameOne, EncryptKey, Scan, disk, GoTo,
                       ControlTyped
  <2> QED BY <1>0, <1>b, <1>u, <2>1 DEF OutputPublished, Lucky
<1>11. CASE Interrupt
  <2>1. at' = "idle" /\ UNCHANGED <<place, stored, index>>
    BY <1>11 DEF Interrupt, disk, GoTo
  <2> QED BY <1>0, <1>b, <1>u, <2>1 DEF OutputPublished, Lucky
<1> QED BY <1>1, <1>2, <1>4, <1>5, <1>6, <1>7, <1>8, <1>9, <1>10, <1>11
        DEF StreamNext, Run, Finish

LEMMA KeysPublishedStep ==
  ASSUME StreamInv, [StreamNext]_streamVars
  PROVE KeysPublished'
<1>0. KeysPublished /\ OutputPublished /\ ControlTyped
  BY DEF StreamInv, StreamTypeOK, ControlTyped
<1> USE DEF Publishing, Ended
<1>1. CASE UNCHANGED streamVars
  BY <1>0, <1>1 DEF KeysPublished, streamVars, IsDeepseek
\* the steps before the manifests
<1>a. ASSUME UNCHANGED <<family, place, listing, unlucky>>, at' # at,
             at \notin {"manifest", "drop", "publish output"} \cup Publishing,
             at' \notin {"manifest", "drop", "publish output"} \cup Publishing,
             at \in Ended \/ at' \notin Ended \/ place.output # "final", encrypted' = encrypted
      PROVE KeysPublished'
  BY <1>0, <1>a DEF KeysPublished, IsDeepseek
<1>b. ASSUME UNCHANGED <<family, place, listing, unlucky, encrypted>>,
             at \notin {"manifest", "drop", "publish output"} \cup Publishing \cup Ended,
             at' \notin {"manifest", "drop", "publish output"} \cup Publishing
      PROVE KeysPublished'
  <2>1. place.output # "final"
    BY <1>0, <1>b DEF OutputPublished
  <2> QED BY <1>0, <1>b, <2>1 DEF KeysPublished, IsDeepseek
<1>2. CASE Launch
  <2>1. CASE place.output = "final"
    <3>1. /\ at \in {"idle", "failed"} /\ at' = "scan"
          /\ UNCHANGED <<place, listing, encrypted, family, unlucky>>
      BY <1>2, <2>1 DEF Launch, GoTo, disk, fixed
    <3> QED BY <1>0, <3>1 DEF KeysPublished, IsDeepseek
  <2>2. CASE place.output # "final"
    <3>1. /\ at \in {"idle", "failed"} /\ at' \in {"start", "key", "failed"}
          /\ place' = place \/ place' = Opened
          /\ UNCHANGED <<listing, family, unlucky>>
      BY <1>2, <2>2 DEF Launch, GoTo, disk, fixed
    <3>2. place'.output # "final"
      BY <1>0, <2>2, <3>1 DEF Opened, ControlTyped
    <3> QED BY <1>0, <2>2, <3>1, <3>2 DEF KeysPublished
  <2> QED BY <2>1, <2>2
<1>4. CASE StartProgress \/ WriteKey \/ RecordKey
  BY <1>b, <1>4 DEF StartProgress, WriteKey, RecordKey, GoTo, fixed
<1>5. CASE Save
  BY <1>b, <1>5 DEF Save, WriteTensor, RecordTensor, OpenSink, Preallocate, WriteTile,
                    RecordTile, CommitSink, GoTo, fixed
<1>6. CASE Consolidate
  BY <1>b, <1>6 DEF Consolidate, AllSaved, GroupFile, EndGroups, MergeShard, CommitMerge,
                    RemoveOld, GoTo, disk, fixed
<1>7. CASE WriteIndex
  BY <1>b, <1>7 DEF WriteIndex, GoTo, fixed
<1>8. CASE WriteOffline
  <2>1. /\ at = "offline" /\ at' = "online"
        /\ listing'.output = listing.output /\ listing'.online = listing.online
        /\ UNCHANGED <<family, place, unlucky>>
    BY <1>0, <1>8 DEF WriteOffline, Write, GoTo, fixed, ControlTyped
  <2>2. place.output # "final"
    BY <1>0, <2>1 DEF OutputPublished
  <2> QED BY <1>0, <2>1, <2>2 DEF KeysPublished
<1>9. CASE WriteOnline
  <2>1. /\ at = "online" /\ at' = IF IsDeepseek THEN "manifest" ELSE "drop"
        /\ listing'.output = listing.output
        /\ IF IsDeepseek THEN listing'.online = Listed("online")
                         ELSE listing'.online = listing.online
        /\ UNCHANGED <<family, place, unlucky>>
    BY <1>0, <1>9 DEF WriteOnline, Write, GoTo, fixed, ControlTyped
  <2>2. place.output # "final"
    BY <1>0, <2>1 DEF OutputPublished
  <2>3. IsDeepseek' = IsDeepseek
    BY <2>1 DEF IsDeepseek
  <2> QED BY <1>0, <2>1, <2>2, <2>3 DEF KeysPublished, Listed
<1>10. CASE ListOutput
  <2>1. /\ at = "manifest" /\ at' = IF IsDeepseek THEN "drop" ELSE "publish output"
        /\ listing'.online = listing.online /\ listing'.output = Listed("output")
        /\ UNCHANGED <<family, place, unlucky>>
    BY <1>0, <1>10 DEF ListOutput, Write, GoTo, fixed, ControlTyped
  <2>2. place.output # "final"
    BY <1>0, <2>1 DEF OutputPublished
  <2>3. IsDeepseek' = IsDeepseek
    BY <2>1 DEF IsDeepseek
  <2> QED BY <1>0, <2>1, <2>2, <2>3 DEF KeysPublished, Listed
<1>11. CASE DropProgress
  <2>1. /\ at = "drop" /\ at' = IF IsDeepseek THEN "publish output" ELSE "manifest"
        /\ UNCHANGED <<family, place, unlucky, listing>>
    BY <1>11 DEF DropProgress, GoTo, fixed
  <2>2. place.output # "final"
    BY <1>0, <2>1 DEF OutputPublished
  <2> QED BY <1>0, <2>1, <2>2 DEF KeysPublished
<1>12. CASE PublishOutput
  <2>1. /\ at = "publish output" /\ at' = "publish key" /\ place'.output = "final"
        /\ UNCHANGED <<family, unlucky, listing>>
    BY <1>0, <1>12 DEF PublishOutput, RenameOne, GoTo, fixed, ControlTyped
  <2> QED BY <1>0, <2>1 DEF KeysPublished
<1>13. CASE PublishKey
  <2>1. /\ at = "publish key" /\ at' = "publish online" /\ place'.output = place.output
        /\ place'.key = "final" /\ UNCHANGED <<family, unlucky, listing>>
    BY <1>0, <1>13 DEF PublishKey, RenameOne, GoTo, fixed, ControlTyped
  <2>2. place.output = "final"
    BY <1>0, <2>1 DEF OutputPublished
  <2> QED BY <1>0, <2>1, <2>2 DEF KeysPublished
<1>14. CASE PublishOnline
  <2>1. /\ at = "publish online" /\ at' = "encrypt" /\ place'.output = place.output
        /\ place'.key = place.key /\ place'.online = "final"
        /\ UNCHANGED <<family, unlucky, listing>>
    BY <1>0, <1>14 DEF PublishOnline, RenameOne, GoTo, fixed, ControlTyped
  <2>2. place.output = "final"
    BY <1>0, <2>1 DEF OutputPublished
  <2> QED BY <1>0, <2>1, <2>2 DEF KeysPublished
<1>15. CASE EncryptKey
  <2>1. /\ at = "encrypt" /\ at' = "scan" /\ encrypted' /\ listing'.key = "right"
        /\ listing'.output = listing.output /\ listing'.online = listing.online
        /\ UNCHANGED <<family, unlucky, place>>
    BY <1>0, <1>15 DEF EncryptKey, GoTo, fixed, ControlTyped
  <2>2. place.output = "final"
    BY <1>0, <2>1 DEF OutputPublished
  <2> QED BY <1>0, <2>1, <2>2 DEF KeysPublished
<1>16. CASE Scan
  <2>1. /\ at = "scan" /\ at' \in {"completed", "failed"}
        /\ UNCHANGED <<family, unlucky, place, listing, encrypted>>
    BY <1>16 DEF Scan, GoTo, fixed, disk
  <2> QED BY <1>0, <2>1 DEF KeysPublished
<1>17. CASE Interrupt
  <2>1. /\ at' = "idle" /\ UNCHANGED <<family, place, listing, encrypted>>
        /\ unlucky' = {} => unlucky = {} /\ at \notin Window
    BY <1>17 DEF Interrupt, GoTo, disk
  <2>2. at \notin Window => at \notin {"manifest", "drop", "publish output"} \cup Publishing
    BY DEF Window
  <2> QED BY <1>0, <2>1, <2>2 DEF KeysPublished, OutputPublished
<1> QED BY <1>1, <1>2, <1>4, <1>5, <1>6, <1>7, <1>8, <1>9, <1>10, <1>11, <1>12, <1>13, <1>14,
           <1>15, <1>16, <1>17 DEF StreamNext, Run, Finish

-----------------------------------------------------------------------------
(* The theorems.                                                            *)
LEMMA StreamStarts ==
  ASSUME ConversionAssumption, StreamInit
  PROVE StreamInv
<1>1. /\ merge.old = {} /\ merge.left = {} /\ merge.groups = <<>> /\ merge.current = {}
      /\ merge.bytes = 0 /\ merge.shards = 0 /\ merge.map = NoMap /\ merge.record = NoMap
      /\ progress.there = FALSE /\ progress.key = FALSE /\ progress.map = NoMap
      /\ progress.record = NoMap /\ progress.tiles = [t \in Tensors |-> {}]
  BY DEF StreamInit, NoMerge, NoProgress, Nothing
<1>2. at = "idle" /\ unlucky = {} /\ stored = NoMap /\ index = NoMap /\ stops = 0
  BY DEF StreamInit
<1>3. Mapped = {}
  BY <1>1, NoMapIsEmpty DEF Mapped
<1>4. NumTensors \in Nat /\ MaxStops \in Nat
  BY DEF ConversionAssumption
<1>5. Shapes
  BY DEF StreamInit, Shapes, NoMerge, NoProgress, Nothing
<1>6. IsMap(NoMap, Tensors, Names) /\ IsMap(NoMap, Names, SUBSET Tensors)
  BY NoMapIsEmpty DEF IsMap
<1>7. StreamTypeOK
  <2>1. /\ merge.shards \in 0 .. NumTensors /\ merge.bytes \in Nat
        /\ merge.old \cup merge.left \cup merge.current \subseteq Names
        /\ merge.groups \in Seq(SUBSET Names)
    BY <1>1, <1>4
  <2>2. progress.tiles \in [Tensors -> SUBSET Tiles]
    BY <1>1
  <2>3. /\ place \in [{"output", "key", "online"} -> {"absent", "partial", "final"}]
        /\ listing \in [{"output", "key", "online"} -> {"none", "right", "stale"}]
    BY DEF StreamInit
  <2>4. /\ sink \in [Tensors -> {"absent", "short", "full"}]
        /\ written \in [Tensors -> SUBSET Tiles]
    BY DEF StreamInit
  <2>5. /\ family \in {"deepseek", "glm4_moe"} /\ size \in Sizings
        /\ tensor \in Tensors \cup {NoTensor} /\ keyFile \in BOOLEAN /\ encrypted \in BOOLEAN
    BY DEF StreamInit
  <2>6. stops \in 0 .. MaxStops /\ unlucky \subseteq (Window \cup {"overwritten"})
        /\ at \in StreamPlaces
    BY <1>2, <1>4 DEF StreamPlaces
  <2> QED BY <1>1, <1>2, <1>6, <2>1, <2>2, <2>3, <2>4, <2>5, <2>6 DEF StreamTypeOK
<1>8. merge.shards <= Len(merge.groups) /\ Counted(merge.groups, merge.current, merge.left)
  BY <1>1, <1>4, FS_EmptySet DEF Counted, Count
<1>9. FilesNamed /\ OwnFiles /\ GroupsPartition /\ GroupsFit /\ ShardsAreRead /\ MergeIsSound
  BY <1>1, <1>2, <1>3, NoMapIsEmpty
  DEF FilesNamed, OwnFiles, GroupsPartition, GroupsFit, ShardsAreRead, MergeIsSound, Grouping,
      Merging
<1>10. ShardsAreSmall /\ FilesIntact
  BY <1>1, <1>2, <1>3, NoMapIsEmpty DEF ShardsAreSmall, FilesIntact
<1>11. TilesWritten
  BY <1>1, <1>2 DEF TilesWritten
<1>12. FirstStart
  BY DEF FirstStart, StreamInit
<1>13. OutputPublished /\ KeysPublished
  BY DEF OutputPublished, KeysPublished, StreamInit, Publishing, Ended, Indexed
<1> QED BY <1>5, <1>7, <1>8, <1>9, <1>10, <1>11, <1>12, <1>13 DEF StreamInv

LEMMA StreamContinues ==
  ASSUME ConversionAssumption, StreamInv, [StreamNext]_streamVars
  PROVE StreamInv' /\ StepOf
<1>1. StepOf
  BY Steps DEF StreamInv
<1>2. StreamTypeOK'
  BY <1>1, CountedStep, FilesTypedStep, ControlTypedStep
  DEF StreamTypeOK, ControlTyped, StreamFilesTyped
<1>3. merge'.shards <= Len(merge'.groups) /\ Counted(merge'.groups, merge'.current, merge'.left)
  BY <1>1, CountedStep
<1>4. Shapes'
  BY ShapesStep DEF StreamInv
<1>5. /\ FilesNamed' /\ OwnFiles' /\ GroupsPartition' /\ GroupsFit' /\ ShardsAreSmall'
      /\ ShardsAreRead' /\ MergeIsSound' /\ FilesIntact'
  BY <1>1, FilesNamedStep, OwnFilesStep, GroupsPartitionStep, GroupsFitStep,
     ShardsAreSmallStep, ShardsAreReadStep, MergeIsSoundStep, FilesIntactStep
<1>6. TilesWritten' /\ FirstStart' /\ OutputPublished' /\ KeysPublished'
  BY TilesWrittenStep, FirstStartStep, OutputPublishedStep, KeysPublishedStep
<1> QED BY <1>1, <1>2, <1>3, <1>4, <1>5, <1>6 DEF StreamInv, Counted, Count

LEMMA StreamIsInvariant ==
  ASSUME ConversionAssumption
  PROVE StreamSpec => []StreamInv
<1>1. StreamInit => StreamInv
  BY StreamStarts
<1>2. StreamInv /\ [StreamNext]_streamVars => StreamInv'
  BY StreamContinues
<1> QED BY <1>1, <1>2, PTL DEF StreamSpec

\* Every tensor, tile and key that conversion_progress.json records is on disk as recorded,
\* so that _run_deepseek and its glm4_moe counterpart can continue from it after any stop.
THEOREM ConversionContinues ==
  StreamSpec => []RecordedIsOnDisk
<1>1. StreamInv => RecordedIsOnDisk
  <2> SUFFICES ASSUME StreamInv PROVE RecordedIsOnDisk
    OBVIOUS
  <2>1. StreamTypeOK
    BY DEF StreamInv
  <2>2. ASSUME progress.there, ~Overwritten, Lucky
        PROVE /\ Intact
              /\ \A t \in DOMAIN progress.map : t \in progress.record[progress.map[t]]
              /\ \A t \in Tensors :
                    progress.tiles[t] \subseteq written[t] \/ TensorFile(t) \in DOMAIN stored
                    \/ t \in DOMAIN progress.map
              /\ progress.key => keyFile
    <3>1. ASSUME NEW f \in Mapped PROVE f \in DOMAIN stored /\ stored[f] = progress.record[f]
      <4>1. f \in DOMAIN stored
        BY DEF StreamInv, FilesNamed
      <4>2. CASE at = "merge" /\ f \in DOMAIN merge.record
        <5>1. stored[f] = merge.record[f] /\ merge.old = Mapped
          BY <4>2 DEF StreamInv, FilesNamed, Merging, Grouping
        <5>2. merge.record[f] = progress.record[f]
          BY <2>2, <4>2, <5>1 DEF Overwritten
        <5> QED BY <4>1, <5>1, <5>2
      <4> QED BY <2>2, <4>1, <4>2 DEF StreamInv, FilesIntact
    <3>2. Intact
      BY <3>1 DEF Intact, Mapped, Range
    <3> QED BY <2>2, <3>2 DEF StreamInv, FilesIntact, TilesWritten
  <2> QED BY <2>1, <2>2 DEF RecordedIsOnDisk, Lucky
<1> QED BY <1>1, StreamIsInvariant, ConversionAssumption, PTL

\* A published checkpoint is whole unless a stopped merge had overwritten a shard, and a
\* completed conversion has its keys and manifests, but for the stops the renames at the end
\* of convert_deepseek_checkpoint do not survive.
THEOREM ConversionIsWhole ==
  StreamSpec => []PublishedIsWhole
<1>1. StreamInv => PublishedIsWhole
  <2> SUFFICES ASSUME StreamInv PROVE PublishedIsWhole
    OBVIOUS
  <2>1. ASSUME place.output = "final", Lucky
        PROVE /\ DOMAIN index = Tensors
              /\ \A t \in Tensors : index[t] \in DOMAIN stored /\ t \in stored[index[t]]
    BY <2>1 DEF StreamInv, OutputPublished, IndexIsWhole
  <2>2. ASSUME at = "completed", unlucky = {}
        PROVE /\ place.key = "final" /\ place.online = "final" /\ encrypted
              /\ "stale" \notin Range(listing)
    <3>1. place.output = "final"
      BY <2>2 DEF StreamInv, OutputPublished
    <3>2. /\ place.key = "final" /\ place.online = "final" /\ encrypted
          /\ listing.key # "stale" /\ listing.output # "stale" /\ listing.online # "stale"
      BY <2>2, <3>1 DEF StreamInv, KeysPublished, Ended
    <3>3. DOMAIN listing = {"output", "key", "online"}
      BY DEF StreamInv, StreamTypeOK
    <3> QED BY <3>2, <3>3 DEF Range
  <2> QED BY <2>1, <2>2 DEF PublishedIsWhole, Lucky
<1> QED BY <1>1, StreamIsInvariant, ConversionAssumption, PTL

\* No stop or resume loses a recorded tensor or tile, unless a stopped merge had overwritten a
\* shard.
THEOREM ConversionIsKept ==
  StreamSpec => KeepsConverted
<1>1. ASSUME ConversionAssumption, StreamInv, [StreamNext]_streamVars
      PROVE [(progress'.there /\ "overwritten" \notin unlucky) =>
               /\ DOMAIN progress.map \subseteq DOMAIN progress'.map
               /\ \A t \in Tensors : progress.tiles[t] \subseteq progress'.tiles[t]]_streamVars
  <2> SUFFICES ASSUME progress'.there, Lucky
               PROVE /\ DOMAIN progress.map \subseteq DOMAIN progress'.map
                     /\ \A t \in Tensors : progress.tiles[t] \subseteq progress'.tiles[t]
    BY DEF Lucky
  <2>0. Shapes /\ ControlTyped
    BY <1>1 DEF StreamInv, StreamTypeOK, ControlTyped
  <2>1. CASE progress' = progress
    BY <2>1
  <2>2. CASE StartProgress
    <3>1. progress = NoProgress
      BY <1>1, <2>2 DEF StartProgress, StreamInv, FirstStart
    <3>2. progress.map = NoMap /\ progress.tiles = [t \in Tensors |-> {}]
      BY <3>1 DEF NoProgress, Nothing
    <3> QED BY <3>2, NoMapIsEmpty
  <2>3. CASE RecordKey
    BY <2>0, <2>3 DEF RecordKey, Shapes
  <2>4. CASE \E t \in Tensors : RecordTensor(t)
    <3>1. progress'.tiles = progress.tiles
          /\ \E t \in Tensors : progress'.map = Put(progress.map, t, TensorFile(t))
      BY <2>0, <2>4 DEF RecordTensor, Shapes
    <3> QED BY <3>1 DEF Put
  <2>5. CASE RecordTile
    <3>1. \E k \in Tiles : progress' = [progress EXCEPT !.tiles[tensor] = @ \cup {k}]
      BY <2>5 DEF RecordTile
    <3>2. PICK k \in Tiles : progress' = [progress EXCEPT !.tiles[tensor] = @ \cup {k}]
      BY <3>1
    <3>3. /\ progress'.map = progress.map
          /\ progress'.tiles = [progress.tiles EXCEPT ![tensor] = @ \cup {k}]
      BY <2>0, <3>2 DEF Shapes
    <3> QED BY <2>0, <3>3 DEF ControlTyped
  <2>6. CASE CommitMerge
    <3>1. progress'.map = merge.map /\ progress'.tiles = progress.tiles
      BY <2>0, <2>6 DEF CommitMerge, Shapes
    <3>2. CommitStep
      BY <2>0, <2>6 DEF CommitMerge, CommitStep, Shapes, fixed, GoTo
    <3>3. DOMAIN merge.map = Tensors
      BY <1>1, <3>2, MergeIsWhole
    <3>4. DOMAIN progress.map \subseteq Tensors
      BY <1>1 DEF StreamInv, StreamTypeOK, IsMap
    <3> QED BY <3>1, <3>3, <3>4
  <2>7. CASE DropProgress
    BY <2>7 DEF DropProgress, NoProgress, Nothing
  <2> QED BY <1>1, <2>1, <2>2, <2>3, <2>4, <2>5, <2>6, <2>7
      DEF StreamNext, Run, Save, Consolidate, Finish, Launch, WriteKey, WriteTensor, OpenSink,
          Preallocate, WriteTile, CommitSink, AllSaved, GroupFile, EndGroups, MergeShard,
          RemoveOld, WriteIndex, WriteOffline, WriteOnline, ListOutput, PublishOutput,
          PublishKey, PublishOnline, RenameOne, EncryptKey, Scan, Interrupt, disk, streamVars
<1> QED BY <1>1, StreamIsInvariant, ConversionAssumption, PTL DEF StreamSpec, KeepsConverted
=============================================================================
