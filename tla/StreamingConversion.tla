------------------------ MODULE StreamingConversion ------------------------
(***************************************************************************)
(* The converters that write a checkpoint tensor by tensor and continue    *)
(* after a stop: conversion/deepseek_streaming.py and                      *)
(* conversion/glm4_moe_streaming.py, with the writer of                    *)
(* tensor_io/safetensors_range.py, the call in conversion/executor.py and  *)
(* the branch of product/pipeline.py around it.                            *)
(*                                                                         *)
(* A file is what tensors it holds; its digest is that set.  A stop is a   *)
(* crash, a pause or an exception: it may fall between any two steps.      *)
(***************************************************************************)
EXTENDS Integers, Sequences, FiniteSets, Functions

CONSTANTS NumTensors,
          Tiled,         \* fused expert tensors, written tile by tile
          NumTiles,
          Sizings,       \* the sizes a checkpoint's tensors may have
          MaxShardBytes,
          MaxStops       \* bound

ASSUME ConversionAssumption ==
    /\ NumTensors \in Nat \ {0} /\ NumTiles \in Nat \ {0}
    /\ Tiled \subseteq 1 .. NumTensors
    /\ Sizings \subseteq [1 .. NumTensors -> Nat \ {0}]
    /\ MaxShardBytes \in Nat \ {0} /\ MaxStops \in Nat

VARIABLES
    family,    \* "deepseek" or "glm4_moe"
    size,      \* per tensor: bytes
    at,        \* where the runner is
    tensor,    \* the tensor it works on
    merge,     \* the merge: files to group, groups, shards so far, their map
    place,     \* per directory: absent, under its .partial name, or final
    progress,  \* conversion_progress.json
    stored,    \* tensor files in the output directory: what each holds
    sink,      \* per tensor: its preallocated file
    written,   \* per tensor: tiles in that file
    keyFile,   \* a layer key is on disk
    index,     \* model.safetensors.index.json
    listing,   \* per directory: its manifest
    encrypted, \* the offline key is
    stops,
    unlucky    \* where stops came after which no later run can continue

streamVars == <<family, size, at, tensor, merge, place, progress, stored, sink, written,
                keyFile, index, listing, encrypted, stops, unlucky>>
disk == <<place, progress, stored, sink, written, keyFile, index, listing, encrypted>>
fixed == <<family, size, stops, unlucky>>

Tensors == 1 .. NumTensors
Tiles == 1 .. NumTiles
NoTensor == 0
NoMap == [t \in {} |-> 0]
Nothing == [there |-> TRUE, key |-> FALSE, map |-> NoMap, record |-> NoMap,
            tiles |-> [t \in Tensors |-> {}]]
NoProgress == [Nothing EXCEPT !.there = FALSE]
NoMerge == [old |-> {}, left |-> {}, groups |-> <<>>, current |-> {}, bytes |-> 0,
            shards |-> 0, map |-> NoMap, record |-> NoMap]

StreamInit ==
    /\ family \in {"deepseek", "glm4_moe"}
    /\ size \in Sizings
    /\ at = "idle" /\ tensor = NoTensor /\ merge = NoMerge
    /\ place = [output |-> "absent", key |-> "absent", online |-> "absent"]
    /\ progress = NoProgress
    /\ stored = NoMap
    /\ sink = [t \in Tensors |-> "absent"]
    /\ written = [t \in Tensors |-> {}]
    /\ keyFile = FALSE /\ encrypted = FALSE
    /\ index = NoMap
    /\ listing = [output |-> "none", key |-> "none", online |-> "none"]
    /\ stops = 0 /\ unlucky = {}

-----------------------------------------------------------------------------
(* Files.  A tensor's own file sorts after every merged shard, as its name *)
(* does; a shard's name holds its place and the number of groups.          *)

TensorFile(t) == <<1, t, 0>>
ShardFile(i, n) == <<0, i, n>>
Before(f, g) ==
    \/ f[1] < g[1]
    \/ f[1] = g[1] /\ f[2] < g[2]
    \/ f[1] = g[1] /\ f[2] = g[2] /\ f[3] < g[3]
Put(f, x, v) == [y \in DOMAIN f \cup {x} |-> IF y = x THEN v ELSE f[y]]
Holding(name, S) == [t \in S |-> name]
Join(f, g) == [x \in DOMAIN f \cup DOMAIN g |-> IF x \in DOMAIN g THEN g[x] ELSE f[x]]
\* a byte is a tensor and a place in it
Bytes(S) == Cardinality(UNION {{t} \X (1 .. size[t]) : t \in S})
Mapped == Range(progress.map)
FileBytes(f) == Bytes(progress.record[f])

-----------------------------------------------------------------------------
GoTo(place_) == at' = place_

\* the recorded files are what they were
Intact == \A t \in DOMAIN progress.map :
              /\ progress.map[t] \in DOMAIN stored
              /\ stored[progress.map[t]] = progress.record[progress.map[t]]

Opened == [place EXCEPT !.output = "partial", !.key = "partial", !.online = "partial"]
\* a new directory; or one to continue, which deepseek checks and glm4_moe does not
Launch_Anew ==
    /\ at \in {"idle", "failed"}
    /\ \/ /\ place.output = "final"
          /\ GoTo("scan") /\ UNCHANGED disk
       \/ /\ place.output # "final"
          /\ place' = Opened /\ GoTo("start")
          /\ UNCHANGED <<progress, stored, sink, written, keyFile, index, listing, encrypted>>
    /\ tensor' = NoTensor /\ merge' = NoMerge
    /\ UNCHANGED fixed
Launch ==
    /\ at \in {"idle", "failed"}
    /\ \/ /\ place.output = "final"
          /\ GoTo("scan") /\ UNCHANGED disk
       \/ /\ place.output = "absent"
          /\ place' = Opened /\ GoTo("start")
          /\ UNCHANGED <<progress, stored, sink, written, keyFile, index, listing, encrypted>>
       \/ /\ place.output = "partial"
          /\ GoTo(IF progress.there /\ (family = "deepseek" => Intact)
                  THEN "key" ELSE "failed")
          /\ UNCHANGED disk
    /\ tensor' = NoTensor /\ merge' = NoMerge
    /\ UNCHANGED fixed

StartProgress ==
    /\ at = "start" /\ GoTo("key")
    /\ progress' = Nothing
    /\ UNCHANGED <<fixed, tensor, merge, place, stored, sink, written, keyFile, index,
                   listing, encrypted>>

\* persist_layer_key; glm4_moe writes its keys anew and records none
WriteKey ==
    /\ at = "key"
    /\ \/ /\ family = "deepseek" /\ progress.key
          /\ GoTo(IF keyFile THEN "save" ELSE "failed")
          /\ UNCHANGED keyFile
       \/ /\ family = "deepseek" => ~progress.key
          /\ keyFile' = TRUE
          /\ GoTo(IF family = "deepseek" THEN "keyed" ELSE "save")
    /\ UNCHANGED <<fixed, tensor, merge, place, progress, stored, sink, written, index,
                   listing, encrypted>>
RecordKey ==
    /\ at = "keyed" /\ GoTo("save")
    /\ progress' = [progress EXCEPT !.key = TRUE]
    /\ UNCHANGED <<fixed, tensor, merge, place, stored, sink, written, keyFile, index,
                   listing, encrypted>>

-----------------------------------------------------------------------------
(* save and save_dim0_slices.  The order in which the names come is open.  *)

Streamed(t) == family = "deepseek" /\ t \in Tiled
Unsaved == Tensors \ DOMAIN progress.map

WriteTensor(t) ==
    /\ at = "save" /\ t \in Unsaved /\ ~Streamed(t)
    /\ stored' = Put(stored, TensorFile(t), {t})
    /\ tensor' = t /\ GoTo("wrote")
    /\ UNCHANGED <<fixed, merge, place, progress, sink, written, keyFile, index, listing,
                   encrypted>>
RecordTensor(t) ==
    /\ at = "wrote" /\ t = tensor /\ GoTo("save")
    /\ progress' = [progress EXCEPT !.map = Put(@, t, TensorFile(t)),
                                    !.record = Put(@, TensorFile(t), {t})]
    /\ UNCHANGED <<fixed, tensor, merge, place, stored, sink, written, keyFile, index,
                   listing, encrypted>>

\* SafeTensorRangeSink: the header, then the length
OpenSink_Again(t) ==
    /\ at = "save" /\ t \in Unsaved /\ Streamed(t)
    /\ tensor' = t
    /\ \/ sink[t] = "absent" /\ sink' = [sink EXCEPT ![t] = "short"] /\ GoTo("preallocate")
       \/ sink[t] = "short" /\ GoTo("failed") /\ UNCHANGED sink
       \/ sink[t] = "full" /\ GoTo("tiles") /\ UNCHANGED sink
    /\ UNCHANGED <<fixed, merge, place, progress, stored, written, keyFile, index, listing,
                   encrypted>>
OpenSink(t) ==
    /\ at = "save" /\ t \in Unsaved /\ Streamed(t)
    /\ tensor' = t
    /\ \/ /\ sink[t] = "absent" /\ TensorFile(t) \in DOMAIN stored
          /\ GoTo(IF progress.tiles[t] = Tiles THEN "wrote" ELSE "failed")
          /\ UNCHANGED sink
       \/ /\ sink[t] = "absent" /\ TensorFile(t) \notin DOMAIN stored
          /\ sink' = [sink EXCEPT ![t] = "short"] /\ GoTo("preallocate")
       \/ sink[t] = "short" /\ GoTo("failed") /\ UNCHANGED sink
       \/ sink[t] = "full" /\ GoTo("tiles") /\ UNCHANGED sink
    /\ UNCHANGED <<fixed, merge, place, progress, stored, written, keyFile, index, listing,
                   encrypted>>
Preallocate ==
    /\ at = "preallocate" /\ GoTo("tiles")
    /\ sink' = [sink EXCEPT ![tensor] = "full"]
    /\ UNCHANGED <<fixed, tensor, merge, place, progress, stored, written, keyFile, index,
                   listing, encrypted>>

\* tiles come in order, and a recorded one must be as it was
NextTile(k) == k \in Tiles /\ progress.tiles[tensor] = 1 .. k - 1
WriteTile ==
    /\ at = "tiles" /\ progress.tiles[tensor] # Tiles
    /\ \/ /\ progress.tiles[tensor] \subseteq written[tensor]
          /\ \E k \in Tiles : NextTile(k) /\ written' = [written EXCEPT ![tensor] = @ \cup {k}]
          /\ GoTo("tile")
       \/ /\ ~(progress.tiles[tensor] \subseteq written[tensor])
          /\ GoTo("failed") /\ UNCHANGED written
    /\ UNCHANGED <<fixed, tensor, merge, place, progress, stored, sink, keyFile, index,
                   listing, encrypted>>
RecordTile ==
    /\ at = "tile" /\ GoTo("tiles")
    /\ \E k \in Tiles :
          NextTile(k) /\ progress' = [progress EXCEPT !.tiles[tensor] = @ \cup {k}]
    /\ UNCHANGED <<fixed, tensor, merge, place, stored, sink, written, keyFile, index,
                   listing, encrypted>>
CommitSink ==
    /\ at = "tiles" /\ progress.tiles[tensor] = Tiles
    /\ \/ /\ written[tensor] = Tiles
          /\ sink' = [sink EXCEPT ![tensor] = "absent"]
          /\ written' = [written EXCEPT ![tensor] = {}]
          /\ stored' = Put(stored, TensorFile(tensor), {tensor})
          /\ GoTo("wrote")
       \/ /\ written[tensor] # Tiles
          /\ GoTo("failed") /\ UNCHANGED <<sink, written, stored>>
    /\ UNCHANGED <<fixed, tensor, merge, place, progress, keyFile, index, listing, encrypted>>

-----------------------------------------------------------------------------
(* _consolidate_output_shards.                                             *)

AllSaved == at = "save" /\ Unsaved = {} /\ GoTo("group")
            /\ merge' = [NoMerge EXCEPT !.old = Mapped, !.left = Mapped]
            /\ UNCHANGED <<fixed, tensor, disk>>

\* the recorded files by their names: each joins the group before it if there is room, and a
\* large one ends its group
AllGroups == IF merge.current = {} THEN merge.groups ELSE Append(merge.groups, merge.current)
GroupFile ==
    /\ at = "group"
    /\ \E f \in merge.left :
         LET full == merge.current # {} /\ merge.bytes + FileBytes(f) > MaxShardBytes
             current == IF full THEN {f} ELSE merge.current \cup {f}
             groups == IF full THEN AllGroups ELSE merge.groups
             large == FileBytes(f) > MaxShardBytes
         IN  /\ \A g \in merge.left \ {f} : Before(f, g)
             /\ merge' = [merge EXCEPT
                    !.left = @ \ {f},
                    !.groups = IF large THEN Append(groups, current) ELSE groups,
                    !.current = IF large THEN {} ELSE current,
                    !.bytes = IF large THEN 0 ELSE FileBytes(f) + IF full THEN 0 ELSE @]
    /\ UNCHANGED <<fixed, at, tensor, disk>>
EndGroups ==
    /\ at = "group" /\ merge.left = {} /\ GoTo("merge")
    /\ merge' = [merge EXCEPT !.groups = AllGroups, !.current = {}, !.bytes = 0]
    /\ UNCHANGED <<fixed, tensor, disk>>

\* one group: a large file stays, others are read and written as one shard
Alone(group) == \E f \in group : group = {f} /\ FileBytes(f) > MaxShardBytes
MergeShard ==
    /\ at = "merge" /\ merge.shards < Len(merge.groups)
    /\ LET i == merge.shards + 1
           group == merge.groups[i]
           held == UNION {stored[f] : f \in group}
       IN \E name \in IF Alone(group) THEN group ELSE {ShardFile(i, Len(merge.groups))} :
             /\ stored' = Put(stored, name, held)
             /\ merge' = [merge EXCEPT !.shards = i, !.map = Join(@, Holding(name, held)),
                                       !.record = Put(@, name, held)]
    /\ UNCHANGED <<fixed, at, tensor, place, progress, sink, written, keyFile, index,
                   listing, encrypted>>
CommitMerge_Unsaved ==
    /\ at = "merge" /\ merge.shards = Len(merge.groups) /\ GoTo("merged")
    /\ UNCHANGED <<fixed, tensor, merge, disk>>
CommitMerge ==
    /\ at = "merge" /\ merge.shards = Len(merge.groups) /\ GoTo("merged")
    /\ progress' = [progress EXCEPT !.map = merge.map, !.record = merge.record]
    /\ UNCHANGED <<fixed, tensor, merge, place, stored, sink, written, keyFile, index,
                   listing, encrypted>>
RemoveOld ==
    /\ at = "merged"
    /\ LET gone == merge.old \ DOMAIN merge.record
       IN  IF gone \cap DOMAIN stored = {}
           THEN GoTo("index") /\ UNCHANGED stored
           ELSE /\ \E f \in gone \cap DOMAIN stored :
                    stored' = Restrict(stored, DOMAIN stored \ {f})
                /\ UNCHANGED at
    /\ UNCHANGED <<fixed, tensor, merge, place, progress, sink, written, keyFile, index,
                   listing, encrypted>>

-----------------------------------------------------------------------------
(* Metadata, manifests and publication.                                    *)

\* a manifest lists every file of its directory: an earlier manifest, too
Listed(directory) == IF listing[directory] = "none" THEN "right" ELSE "stale"
Write(directory) == listing' = [listing EXCEPT ![directory] = Listed(directory)]
IsDeepseek == family = "deepseek"

WriteIndex ==
    /\ at = "index" /\ GoTo("offline")
    /\ index' = progress.map
    /\ UNCHANGED <<fixed, tensor, merge, place, progress, stored, sink, written, keyFile,
                   listing, encrypted>>
\* glm4_moe gives its key directories no manifest
WriteOffline ==
    /\ at = "offline" /\ GoTo("online")
    /\ IF IsDeepseek THEN Write("key") ELSE UNCHANGED listing
    /\ UNCHANGED <<fixed, tensor, merge, place, progress, stored, sink, written, keyFile,
                   index, encrypted>>
WriteOnline ==
    /\ at = "online" /\ GoTo(IF IsDeepseek THEN "manifest" ELSE "drop")
    /\ IF IsDeepseek THEN Write("online") ELSE UNCHANGED listing
    /\ UNCHANGED <<fixed, tensor, merge, place, progress, stored, sink, written, keyFile,
                   index, encrypted>>
ListOutput ==
    /\ at = "manifest" /\ GoTo(IF IsDeepseek THEN "drop" ELSE "publish output")
    /\ Write("output")
    /\ UNCHANGED <<fixed, tensor, merge, place, progress, stored, sink, written, keyFile,
                   index, encrypted>>
DropProgress ==
    /\ at = "drop" /\ GoTo(IF IsDeepseek THEN "publish output" ELSE "manifest")
    /\ progress' = NoProgress
    /\ UNCHANGED <<fixed, tensor, merge, place, stored, sink, written, keyFile, index,
                   listing, encrypted>>
RenameOne(directory, next) ==
    /\ GoTo(next)
    /\ place' = [place EXCEPT ![directory] = "final"]
    /\ UNCHANGED <<fixed, tensor, merge, progress, stored, sink, written, keyFile, index,
                   listing, encrypted>>
PublishOutput == at = "publish output" /\ RenameOne("output", "publish key")
PublishKey == at = "publish key" /\ RenameOne("key", "publish online")
PublishOnline_Last == at = "publish online" /\ RenameOne("online", "scan")
PublishOnline == at = "publish online" /\ RenameOne("online", "encrypt")
\* encrypt_offline_key_directory writes a manifest of its own
EncryptKey ==
    /\ at = "encrypt" /\ GoTo("scan")
    /\ encrypted' = TRUE
    /\ listing' = [listing EXCEPT !.key = "right"]
    /\ UNCHANGED <<fixed, tensor, merge, place, progress, stored, sink, written, keyFile,
                   index>>
\* the pipeline's check of the package, and on Windows of the online key
Scan ==
    /\ at = "scan"
    /\ \E windows \in BOOLEAN :
          GoTo(IF listing.output = "right" /\ (windows => place.online = "final")
               THEN "completed" ELSE "failed")
    /\ UNCHANGED <<fixed, tensor, merge, disk>>

-----------------------------------------------------------------------------
\* steps after which a stop leaves what no later run accepts: a directory without
\* its progress, a header without its length, a manifest that will list itself, or an
\* output whose keys are still to be published
Window == {"start", "preallocate", "manifest", "drop", "publish output", "publish key",
           "publish online", "encrypt"}
\* merging again after a stop, a new shard has the name of an old one and other tensors
Overwritten ==
    at = "merge" /\ \E f \in DOMAIN merge.record \cap merge.old :
                        merge.record[f] # progress.record[f]
Interrupt ==
    /\ at \notin {"idle", "failed", "completed"} /\ stops < MaxStops
    /\ stops' = stops + 1 /\ GoTo("idle")
    /\ unlucky' = unlucky \cup (Window \cap {at})
                            \cup (IF Overwritten THEN {"overwritten"} ELSE {})
    /\ UNCHANGED <<family, size, tensor, merge, disk>>

Save ==
    \/ \E t \in Tensors : WriteTensor(t) \/ RecordTensor(t) \/ OpenSink(t)
    \/ Preallocate \/ WriteTile \/ RecordTile \/ CommitSink
Consolidate == AllSaved \/ GroupFile \/ EndGroups \/ MergeShard \/ CommitMerge \/ RemoveOld
Finish ==
    \/ WriteIndex \/ WriteOffline \/ WriteOnline \/ ListOutput \/ DropProgress
    \/ PublishOutput \/ PublishKey \/ PublishOnline \/ EncryptKey \/ Scan
Run == Launch \/ StartProgress \/ WriteKey \/ RecordKey \/ Save \/ Consolidate \/ Finish
StreamNext == Run \/ Interrupt

StreamSpec == StreamInit /\ [][StreamNext]_streamVars
\* the runner goes on, and the user resumes what stopped
FairStreamSpec == StreamSpec /\ WF_streamVars(Run)

-----------------------------------------------------------------------------
(* Properties                                                              *)

StreamPlaces == {"idle", "failed", "start", "key", "keyed", "save", "wrote", "preallocate", "tiles",
           "tile", "group", "merge", "merged", "index", "offline", "online", "manifest", "drop",
           "publish output", "publish key", "publish online", "encrypt", "scan", "completed"}
Names == ({1} \X Tensors \X {0}) \cup ({0} \X Tensors \X Tensors)
IsMap(f, D, R) == DOMAIN f \subseteq D /\ Range(f) \subseteq R
StreamTypeOK ==
    /\ family \in {"deepseek", "glm4_moe"} /\ size \in Sizings
    /\ at \in StreamPlaces /\ tensor \in Tensors \cup {NoTensor}
    /\ merge.shards \in 0 .. NumTensors /\ merge.bytes \in Nat
    /\ IsMap(merge.map, Tensors, Names) /\ IsMap(merge.record, Names, SUBSET Tensors)
    /\ merge.old \cup merge.left \cup merge.current \subseteq Names
    /\ merge.groups \in Seq(SUBSET Names)
    /\ place \in [{"output", "key", "online"} -> {"absent", "partial", "final"}]
    /\ progress.there \in BOOLEAN /\ progress.key \in BOOLEAN
    /\ IsMap(progress.map, Tensors, Names) /\ IsMap(progress.record, Names, SUBSET Tensors)
    /\ progress.tiles \in [Tensors -> SUBSET Tiles]
    /\ IsMap(stored, Names, SUBSET Tensors)
    /\ sink \in [Tensors -> {"absent", "short", "full"}]
    /\ written \in [Tensors -> SUBSET Tiles]
    /\ keyFile \in BOOLEAN /\ encrypted \in BOOLEAN
    /\ IsMap(index, Tensors, Names)
    /\ listing \in [{"output", "key", "online"} -> {"none", "right", "stale"}]
    /\ stops \in 0 .. MaxStops /\ unlucky \subseteq (Window \cup {"overwritten"})

\* Every tensor, tile and key the saved progress records is on disk as recorded whenever
\* the conversion may stop, and the next run can continue from it: but where a second merge
\* has written over a shard of the first and has yet to save its own map.
RecordedIsOnDisk ==
    /\ StreamTypeOK
    /\ (progress.there /\ ~Overwritten /\ "overwritten" \notin unlucky) =>
        /\ Intact
        /\ \A t \in DOMAIN progress.map : t \in progress.record[progress.map[t]]
        /\ \A t \in Tensors :
              progress.tiles[t] \subseteq written[t] \/ TensorFile(t) \in DOMAIN stored
              \/ t \in DOMAIN progress.map
        /\ progress.key => keyFile

\* A published checkpoint has every tensor, in the shard its index names, unless a merge
\* was stopped when it had overwritten one; and a completed conversion has its keys, with
\* manifests that hold, unless a stop fell in one of the windows of `unlucky`.
PublishedIsWhole ==
    /\ (place.output = "final" /\ "overwritten" \notin unlucky) =>
        /\ DOMAIN index = Tensors
        /\ \A t \in Tensors : index[t] \in DOMAIN stored /\ t \in stored[index[t]]
    /\ (at = "completed" /\ unlucky = {}) =>
        /\ place.key = "final" /\ place.online = "final" /\ encrypted
        /\ "stale" \notin Range(listing)

\* What is converted stays converted: no stop or resume loses a recorded tensor or tile while
\* the progress is there, unless a merge was stopped when it had overwritten a shard.
KeepsConverted ==
    [][(progress'.there /\ "overwritten" \notin unlucky) =>
          /\ DOMAIN progress.map \subseteq DOMAIN progress'.map
          /\ \A t \in Tensors : progress.tiles[t] \subseteq progress'.tiles[t]]_streamVars

\* Launched often enough, every conversion ends, unless it stopped in such a window.
Converts == <>(at = "completed" \/ unlucky # {})
=============================================================================
