--------------------------- MODULE ConversionPackage ---------------------------
(***************************************************************************)
(* A job's conversion on Windows, from its source to a package and keys    *)
(* that can be uploaded: conversion/executor.py starts a converter process *)
(* that publishes three directories, then splits and encrypts the key; the *)
(* pipeline verifies the package and seals the online key in the DPAPI     *)
(* vault.  All of it is files, and a job that was paused, failed or died   *)
(* starts over from whatever files it finds.  A converter outlives an      *)
(* application that dies.                                                  *)
(*                                                                         *)
(* A directory with a file open in it cannot be renamed or removed.        *)
(***************************************************************************)
EXTENDS Naturals, Sequences

CONSTANTS
  Converters,  \* converter processes there may be at one time
  Settings     \* the job's security mode, and which faults may happen

FaultKinds == {"pause", "crash", "kill", "converter", "password"}

ASSUME SettingsAssumption ==
  Settings \subseteq [tee : BOOLEAN, faults : SUBSET FaultKinds, max : Nat]

VARIABLES
  setting,    \* the setting of this behaviour: it never changes
  dir,        \* what each directory holds
  partial,    \* what its .partial holds
  offline,    \* the offline key directory
  splitting,  \* is there a .partial of a split?
  vault,      \* is the online key in the vault?
  pc,         \* where the runner is
  mine,       \* the converter it waits for
  child,      \* every converter
  faults      \* how many faults have happened

files == <<dir, partial, offline, splitting, vault>>
vars == <<setting, files, pc, mine, child, faults>>

Published == {"output", "full", "tee"}
Process(state, at, open) == [state |-> state, at |-> at, open |-> open]
Fresh == Process("free", 0, FALSE)

Init ==
  /\ setting \in Settings
  /\ dir = [d \in Published \cup {"online"} |-> "none"]
  /\ partial = [d \in Published |-> "none"]
  /\ offline = "none"
  /\ splitting = FALSE
  /\ vault = FALSE
  /\ pc = "idle"
  /\ mine \in Converters
  /\ child = [c \in Converters |-> Fresh]
  /\ faults = 0

Fault(kind) ==
  /\ kind \in setting.faults
  /\ faults < setting.max
  /\ faults' = faults + 1

Goto(point) == pc' = point /\ UNCHANGED <<mine, child, faults>>

\* The job is FAILED or PAUSED: the user may run it again.
Stop == Goto("idle")

-----------------------------------------------------------------------------
(***************************************************************************)
(* The converter, scripts/convert_paper_qwen2_checkpoint.py: what it does  *)
(* to the files, in order.  The output's manifest is written last.         *)
(***************************************************************************)
Outputs == {"output", "full"} \cup (IF setting.tee THEN {"tee"} ELSE {})

PlainProgram_KeyLast ==
  << <<"make", "output">>, <<"make", "full">>, <<"write", "output">>,
     <<"seal", "output">>, <<"publish", "output">>, <<"write", "full">>,
     <<"publish", "full">>, <<"sweep", "output">> >>

PlainProgram ==
  << <<"make", "output">>, <<"make", "full">>,
     <<"write", "output">>, <<"write", "full">>, <<"seal", "output">>,
     <<"publish", "output">>, <<"publish", "full">>, <<"sweep", "output">> >>
TeeProgram ==
  << <<"make", "output">>, <<"make", "full">>, <<"make", "tee">>,
     <<"write", "output">>, <<"write", "tee">>, <<"write", "full">>,
     <<"seal", "output">>, <<"publish", "output">>, <<"publish", "full">>,
     <<"publish", "tee">>, <<"sweep", "output">> >>
Program == IF setting.tee THEN TeeProgram ELSE PlainProgram

Doing(c, what, d) ==
  /\ child[c].state = "run"
  /\ child[c].at \in DOMAIN Program
  /\ Program[child[c].at] = <<what, d>>

\* Another converter has a file open in d's partial.
Held(c, d) ==
  \E x \in Converters \ {c} :
    /\ child[x].state = "run" /\ child[x].open
    /\ Program[child[x].at][2] = d

Advance(c) ==
  child' = [child EXCEPT ![c] = Process("run", @.at + 1, FALSE)]
Die(c) ==
  child' = [child EXCEPT ![c] = Process("failed", @.at, FALSE)]

\* Nothing may be there before it starts.
Check(c) ==
  /\ child[c].state = "run" /\ child[c].at = 0
  /\ IF \A d \in Outputs : dir[d] = "none" /\ partial[d] = "none"
     THEN Advance(c) ELSE Die(c)
  /\ UNCHANGED files

Make(c, d) ==
  /\ Doing(c, "make", d)
  /\ IF partial[d] = "none"
     THEN partial' = [partial EXCEPT ![d] = "empty"] /\ Advance(c)
     ELSE Die(c) /\ UNCHANGED partial
  /\ UNCHANGED <<dir, offline, splitting, vault>>

\* The first file of d is opened.  save_pretrained makes the output's
\* directory if it is gone; the other directories must be there.
Open(c, d) ==
  /\ Doing(c, "write", d) \/ Doing(c, "seal", d)
  /\ ~child[c].open
  /\ IF partial[d] # "none" \/ Doing(c, "write", "output")
     THEN /\ partial' = [partial EXCEPT ![d] = "some"]
          /\ child' = [child EXCEPT ![c] = Process("run", @.at, TRUE)]
     ELSE Die(c) /\ UNCHANGED partial
  /\ UNCHANGED <<dir, offline, splitting, vault>>

\* Its last file is closed.
Close(c, d) ==
  /\ Doing(c, "write", d) \/ Doing(c, "seal", d)
  /\ child[c].open
  /\ partial' = [partial EXCEPT ![d] =
                   IF Doing(c, "write", "output") THEN "some" ELSE "whole"]
  /\ Advance(c)
  /\ UNCHANGED <<dir, offline, splitting, vault>>

Publish(c, d) ==
  /\ Doing(c, "publish", d)
  /\ IF partial[d] # "none" /\ dir[d] = "none" /\ ~Held(c, d)
     THEN /\ dir' = [dir EXCEPT ![d] = partial[d]]
          /\ partial' = [partial EXCEPT ![d] = "none"]
          /\ Advance(c)
     ELSE Die(c) /\ UNCHANGED <<dir, partial>>
  /\ UNCHANGED <<offline, splitting, vault>>

Sweep(c) ==
  /\ Doing(c, "sweep", "output")
  /\ IF Held(c, "output")
     THEN Die(c) /\ UNCHANGED partial
     ELSE partial' = [partial EXCEPT !["output"] = "none"] /\ Advance(c)
  /\ UNCHANGED <<dir, offline, splitting, vault>>

Exit(c) ==
  /\ child[c].state = "run" /\ child[c].at = Len(Program) + 1
  /\ child' = [child EXCEPT ![c] = Process("ok", @.at, FALSE)]
  /\ UNCHANGED files

Converter(c) ==
  /\ \/ Check(c) \/ Sweep(c) \/ Exit(c)
     \/ \E d \in Published : Make(c, d) \/ Open(c, d) \/ Close(c, d) \/ Publish(c, d)
  /\ UNCHANGED <<pc, mine, faults>>

\* Memory or disk runs out.
ConverterFails(c) ==
  /\ child[c].state = "run"
  /\ Fault("converter")
  /\ Die(c)
  /\ UNCHANGED <<files, pc, mine>>

-----------------------------------------------------------------------------
(***************************************************************************)
(* The runner.  It converts only where there is no output directory yet,   *)
(* and removes empty partials of an earlier attempt, but no others.        *)
(***************************************************************************)
AfterConversion == IF setting.tee THEN "verify" ELSE "finalize"

Begin_Converts ==
  /\ pc = "idle"
  /\ Goto("prepare")
  /\ UNCHANGED files

Begin ==
  /\ pc = "idle"
  /\ Goto(IF dir["output"] = "none" THEN "prepare" ELSE AfterConversion)
  /\ UNCHANGED files

Rank == [output |-> 1, full |-> 2, tee |-> 3]
Blocking == {d \in Outputs : partial[d] \in {"some", "whole"}}

Prepare ==
  /\ pc = "prepare"
  /\ partial' = [d \in Published |->
                   IF d \in Outputs /\ partial[d] = "empty"
                      /\ \A b \in Blocking : Rank[d] < Rank[b]
                   THEN "none" ELSE partial[d]]
  /\ IF Blocking = {} THEN Goto("spawn") ELSE Stop
  /\ UNCHANGED <<dir, offline, splitting, vault>>

Spawn(c) ==
  /\ pc = "spawn" /\ child[c].state # "run"
  /\ child' = [child EXCEPT ![c] = Process("run", 0, FALSE)]
  /\ mine' = c
  /\ pc' = "wait"
  /\ UNCHANGED <<files, faults>>

Wait ==
  /\ pc = "wait" /\ child[mine].state # "run"
  /\ IF child[mine].state = "ok" THEN Goto("finalize") ELSE Stop
  /\ UNCHANGED files

(***************************************************************************)
(* finalize_qwen_key_package: split the key, then encrypt its offline part *)
(* unless that was done.  The pipeline calls it again right afterwards,    *)
(* which changes nothing.                                                  *)
(***************************************************************************)
Finalize ==
  /\ pc = "finalize" /\ ~setting.tee
  /\ LET split == dir["online"] = "none" /\ offline = "none"
         ready == split /\ dir["full"] # "none" /\ ~splitting
     IN /\ splitting' = (splitting \/ ready)
        /\ IF ready THEN Goto("split")
           ELSE IF dir["online"] # "none" /\ offline # "none" THEN Goto("encrypt")
           ELSE Stop
  /\ UNCHANGED <<dir, partial, offline, vault>>

\* A full key that is not whole cannot be read.
SplitOnline ==
  /\ pc = "split"
  /\ IF dir["full"] = "whole"
     THEN dir' = [dir EXCEPT !["online"] = "whole"] /\ Goto("split2")
     ELSE Stop /\ UNCHANGED dir
  /\ UNCHANGED <<partial, offline, splitting, vault>>

SplitOffline ==
  /\ pc = "split2"
  /\ offline' = "plain"
  /\ splitting' = FALSE
  /\ Goto("encrypt")
  /\ UNCHANGED <<dir, partial, vault>>

\* finalize_tee_key_package: the whole key becomes the offline key.
FinalizeTee ==
  /\ pc = "finalize" /\ setting.tee
  /\ IF offline # "none" THEN Goto("encrypt") /\ UNCHANGED <<dir, offline>>
     ELSE IF dir["full"] = "none" THEN Stop /\ UNCHANGED <<dir, offline>>
     ELSE /\ offline' = IF dir["full"] = "whole" THEN "moved" ELSE "broken"
          /\ dir' = [dir EXCEPT !["full"] = "none"]
          /\ Goto("rename")
  /\ UNCHANGED <<partial, splitting, vault>>

RenameMaster ==
  /\ pc = "rename"
  /\ IF offline = "moved" THEN offline' = "plain" /\ Goto("encrypt")
     ELSE Stop /\ UNCHANGED offline
  /\ UNCHANGED <<dir, partial, splitting, vault>>

\* A directory that was split has a manifest already; one that was moved gets
\* its first when it is encrypted.
HasManifest ==
  offline = "sealed" \/ (~setting.tee /\ offline \in {"plain", "cipher"})

Encrypt ==
  /\ pc = "encrypt"
  /\ \/ /\ offline = "plain"
        /\ offline' = "cipher"
        /\ Goto("manifest")
     \/ /\ offline = "plain"
        /\ Fault("password")
        /\ pc' = "idle"
        /\ UNCHANGED <<offline, mine, child>>
     \/ /\ offline # "plain"
        /\ IF HasManifest THEN Goto("verify") ELSE Stop
        /\ UNCHANGED offline
  /\ UNCHANGED <<dir, partial, splitting, vault>>

WriteManifest ==
  /\ pc = "manifest"
  /\ offline' = "sealed"
  /\ Goto("verify")
  /\ UNCHANGED <<dir, partial, splitting, vault>>

(***************************************************************************)
(* The pipeline: verify what will be uploaded, and seal the online key.    *)
(***************************************************************************)
Verify_Skips ==
  /\ pc = "verify"
  /\ Goto(IF setting.tee THEN "upload" ELSE "seal")
  /\ UNCHANGED files

Verify ==
  /\ pc = "verify"
  /\ IF \A d \in Outputs \ {"full"} : dir[d] = "whole"
     THEN Goto(IF setting.tee THEN "upload" ELSE "seal")
     ELSE Stop
  /\ UNCHANGED files

Seal ==
  /\ pc = "seal"
  /\ vault' = (vault \/ dir["online"] # "none")
  /\ IF vault THEN Goto("upload")
     ELSE IF dir["online"] # "none" THEN Goto("remove")
     ELSE Stop
  /\ UNCHANGED <<dir, partial, offline, splitting>>

\* Its files go one by one, and then the directory.
Remove ==
  /\ pc = "remove"
  /\ \/ dir["online"] # "empty" /\ dir' = [dir EXCEPT !["online"] = "empty"]
        /\ Goto("remove")
     \/ dir["online"] = "empty" /\ dir' = [dir EXCEPT !["online"] = "none"]
        /\ Goto("upload")
  /\ UNCHANGED <<partial, offline, splitting, vault>>

Complete ==
  /\ pc = "upload"
  /\ Goto("done")
  /\ UNCHANGED files

\* The job is paused, or its upload fails.
Pause ==
  /\ pc \in {"prepare", "upload"}
  /\ Fault("pause")
  /\ pc' = "idle"
  /\ UNCHANGED <<files, mine, child>>

\* The application dies, and its converter does not.
Crash ==
  /\ pc \notin {"idle", "done"}
  /\ Fault("crash")
  /\ pc' = "idle"
  /\ UNCHANGED <<files, mine, child>>

\* The computer stops.
Kill ==
  /\ pc # "done"
  /\ Fault("kill")
  /\ pc' = "idle"
  /\ child' = [c \in Converters |-> Fresh]
  /\ UNCHANGED <<files, mine>>

Runner ==
  \/ Begin \/ Prepare \/ (\E c \in Converters : Spawn(c)) \/ Wait
  \/ Finalize \/ SplitOnline \/ SplitOffline \/ FinalizeTee \/ RenameMaster
  \/ Encrypt \/ WriteManifest \/ Verify \/ Seal \/ Remove \/ Complete

Next ==
  /\ \/ Runner \/ Pause \/ Crash \/ Kill
     \/ \E c \in Converters : Converter(c) \/ ConverterFails(c)
  /\ UNCHANGED setting

Spec == Init /\ [][Next]_vars

\* Threads and processes keep executing, and the user runs a stopped job again.
Fairness ==
  /\ WF_vars(Runner /\ UNCHANGED setting)
  /\ \A c \in Converters : WF_vars(Converter(c) /\ UNCHANGED setting)
FairSpec == Spec /\ Fairness

-----------------------------------------------------------------------------
Points == {"idle", "prepare", "spawn", "wait", "finalize", "split", "split2",
           "rename", "encrypt", "manifest", "verify", "seal", "remove",
           "upload", "done"}
Contents == {"none", "empty", "some", "whole"}
Processes == [state : {"free", "run", "ok", "failed"}, at : Nat, open : BOOLEAN]

\* A converter holds a file open only while it writes.
Writing(c) ==
  /\ child[c].state = "run"
  /\ child[c].at \in DOMAIN Program
  /\ Program[child[c].at][1] \in {"write", "seal"}

\* Every variable has its type: the one type invariant of the module.
TypeOK ==
  /\ setting \in Settings
  /\ dir \in [Published \cup {"online"} -> Contents]
  /\ partial \in [Published -> Contents]
  /\ offline \in {"none", "moved", "broken", "plain", "cipher", "sealed"}
  /\ splitting \in BOOLEAN
  /\ vault \in BOOLEAN
  /\ pc \in Points
  /\ mine \in Converters
  /\ child \in [Converters -> Processes]
  /\ \A c \in Converters : child[c].open => Writing(c)
  /\ faults \in 0..setting.max

\* A completed job has a whole package and usable keys, however often it was
\* stopped, and even where two converters wrote the same directories: the
\* online key in the vault and the offline key encrypted, or in TEE mode the
\* boundary package.
CompletedIsUsable ==
  pc = "done" =>
    /\ dir["output"] = "whole"
    /\ IF setting.tee THEN dir["tee"] = "whole"
       ELSE vault /\ offline \in {"cipher", "sealed"}

\* A published package can never be without its key: it is in one of the
\* places the key passes through.  Two converters at once may spoil it.
\* And a TEE job that met no fault ends with its structural key encrypted;
\* after a fault it may not, as a resumed one only verifies what it finds.
PublishedHasItsKey ==
  /\ "crash" \notin setting.faults /\ dir["output"] # "none" =>
        \/ partial["full"] = "whole" \/ dir["full"] = "whole"
        \/ offline \notin {"none", "broken"}
  /\ pc = "done" /\ setting.tee /\ faults = 0 => offline = "sealed"

\* From the split on the online key is in its directory or in the vault.
OnlineKeyKept ==
  ~setting.tee /\ offline # "none" => dir["online"] = "whole" \/ vault

\* A TEE job that is paused and resumed any number of times completes.
Completes ==
  setting.tee /\ setting.faults \subseteq {"pause"} => <>(pc = "done")
=============================================================================
