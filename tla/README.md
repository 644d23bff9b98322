# Verification of Yinbian (AloePri)

TLA+ models, TLC runs and TLAPS proofs of the program under `src/src/aloepri`: a
product that converts an open-weights language model into a private
representation on the customer's Windows machine, uploads and deploys the result
and serves private chat from it. Source paths below are relative to
`src/src/aloepri` unless they begin with `src/`.

Contents: 1 the system, 2 the modules, 3 the runs, 4 the proofs, 5 findings,
6 what is not modelled, 7 plan.

## 1. The system

### Components

**Product jobs** (`product/state.py`, `product/pipeline.py`,
`desktop/deploy_api.py`, `product_cli.py`, `cli.py`). State: an SQLite row per
job (status, phase, plan, progress) and per source shard and private artifact;
the source cache; the package on disk; the files on the server; in the desktop a
table of one thread per job. Operations: create, confirm, start, run, pause,
resume, cancel, deploy. The desktop and the command line open the same database
from different processes. Hard: `transition_job` checks in one transaction and
writes in another; only the desktop knows its own threads; a disk step and its
row are separate, and a process may die between them. Correct when: a completed
job is whole and deployable, a row never claims more than the disks hold, source
data is not deleted before the upload is complete, a paused job is at rest, a
running one ends.

**Download** (`catalog/download.py`). State: a file and its `.partial` in a
cache shared by all jobs of a model. One operation: reuse, or fetch with range
requests over three rounds and several endpoints, check size and digest, rename.
Hard: endpoints that ignore or misread ranges, mirrors with other content, broken
connections, a caller that dies, two callers of one file. Correct when: a receipt
describes pinned content, blocks are never misplaced, the target changes
atomically, a retry is productive.

**Upload** (`cloud/ssh.py`). State: destination and `.partial` on the server.
Hard: connections lost in any step or in the middle of a block, servers without
posix-rename, `sha256sum` that fails, a local file damaged since it was recorded.
Correct when: a receipt describes the expected content, an intact prefix is not
sent again, the destination changes atomically.

**Conversion and key packaging** (`conversion/executor.py`,
`src/scripts/convert_paper_qwen2_checkpoint.py`, `packaging.py`,
`keys/encryption.py`, `keys/directory_vault.py`, and the verification in
`product/pipeline.py`). State: directories of the package, the full, online and
offline key and the TEE boundary, their `.partial`s, the vault, and converter
processes. Hard: several renames that should look like one, a converter that
outlives the application, a resume that must tell every half-finished state
apart. Correct when: what completes is usable, and no key is lost.

**Streaming converters** (`conversion/deepseek_streaming.py`,
`conversion/glm4_moe_streaming.py`, `tensor_io/safetensors_range.py`). State: the
files written so far, tensor by tensor and tile by tile, and the saved progress.
Hard: a stop between a file and its record, in a merge of small files into
shards, or between the three final renames. Correct when: nothing recorded is
missing, nothing converted is lost, what is published is whole.

**Transforms** (`transforms/`, `conversion/paper_*.py`, `models/`). Algorithm 1
draws a key pair P, Q for the residual and a permutation tau of the vocabulary;
Algorithm 2 draws for every layer orders of heads, groups, rotary blocks and
experts, and maps that cancel. Each is written twice, for loaded and for streamed
models. Hard: orders compose, and whatever belongs to a head or an expert has to
follow it. Correct when: the private model computes what the plain one does, and
what it caches is in private coordinates.

**Remote deployment** (`cloud/hf_deployment.py`). State: the row (version,
previous version, port, status), the vault's bearer token, and on the server the
versions' files, processes, the active link and the unit. Operations: deploy,
start, stop, roll back, remove. Hard: a new version beside the healthy one, any
command failing, two operations at a time, a reboot. Correct when: an upgrade
keeps a service running, and the row says what is so on the server.

**Local deployment** (`product/local_deployment.py`). State: rows, a model
process by pid and creation time, ports. Operations: deploy, start, stop, remove,
and a refresh while a page is open. Hard: the application dies around the
process's start; deployments paused for memory have to be started again; the
refresh writes late. Correct when: rows and processes agree.

**Server records and operations** (`desktop/deploy_api.py`, `product/state.py`,
the `servers` commands of `product_cli.py`, `cloud/ssh.py`). State: a server's row
(host, login, reference to a saved password, pinned host key), the vault, and in
the desktop a table of operations, one worker thread each. Operations: add, edit,
check, remove, bootstrap, deploy to it. Hard: no transaction spans row and vault,
nor the read of a row and its write; a host is set up anew behind its name. Correct
when: the pinned key is one of the host the row names, the row refers to a password
only if there is one, the table says what runs and starts nothing twice, and the
server of a deployment is not removed.

**Secure head** (`secure_head/`). State: one-time masks. A token's logits are
computed by an untrusted worker on a masked input; the result is checked, gives
an interval for each logit, and candidates are computed again. Hard: anything may
raise between reservation and decision, and a process may end. Correct when: no
mask hides two inputs, and the token is an exact argmax.

**TEE service and its client** (`tee/`, `serving/tee_app.py`,
`serving/tee_runtime.py`, `client/tee_sdk.py`). State: waiting, loading, ready or
failed; a generation's position; the client's. Hard: two provisioning requests, a
stream cut anywhere. Correct when: an answer is reported only whole, and always
an end.

**Tunnels** (`cloud/tunnel.py`, `product/tunnel_worker.py`, the `tunnel` commands
of `product_cli.py`). State: a registry of tunnels, each with a thread and fields
without a lock; for the command line, a worker process per tunnel, known by a
state file and a stop file. Hard: open racing close, lost sessions, expired
waits, stale files. Correct when: what forwards a port can be found and closed.

**Chat application** (`desktop/chat_api.py` and the script it puts into the page,
`desktop/chat_store.py`, `demo/app.py`, `demo/static/app.js`). State: one gateway
shared by all pages, the page's selection and conversation, history snapshots,
the jobs of the public queue. Hard: gateways, rows, ports and tokens that were
read earlier; selection under a running generation; snapshots that overtake each
other, and requests whose failure nobody sees. Correct when: what is kept is
readable, and belongs to the deployment it is stored under.

**Legacy jobs** (`jobs/`, `workflow.py`), **keys** (`keys/portable.py`),
**privacy accounting**, **studio, evaluation, attacks, release**: see section 6.

### How they interact

The job pipeline calls the download per shard, the inspection and a converter
once, key packaging and verification, then the upload per artifact, and it
records each in the store. The desktop then deploys what the job uploaded, on the
server or on the machine itself; the deployment reads the job's rows and
`progress_json`. The chat reads deployments, opens tunnels to those on a server,
and builds a gateway from row, token and port; the service behind it is a
converted model, or a TEE service with its masked head. All of them share the
SQLite store, by separate transactions, the vault and the file system.

`PROJECT.json` lists the hazards of these parts with their lines and the
properties that cover them.

## 2. The modules

| Module | What it models |
|---|---|
| `JobStates` | job and shard statuses, the transition table, who may resume |
| `ProductJob` | one job: its rows, disks, runners, requests and crashes |
| `AtomicFile` | abstract: a file is absent, stale or complete, and becomes complete at once |
| `ResumableDownload` | `download_snapshot_file`; implements `AtomicFile` |
| `ResumableUpload` | `upload_resumable`; implements `AtomicFile` |
| `ConversionPackage` | conversion, key packaging and sealing of one job |
| `StreamingConversion` | both streaming converters, their stops and resumes |
| `KeyOrders`, `FieldAlgebra`, `StructuralKeys` | orders of a key; vectors and matrices over a finite field; the draws of Algorithms 1 and 2 |
| `PrivateModel` | a layer converted and run beside its source |
| `RemoteDeployment` | one deployment on a server |
| `ServerOperations` | one server's profile, and the operations on it |
| `LocalDeployment` | the deployments of a model on the user's machine |
| `MaskedHead` | the mask pool and the choice of a token |
| `TeeInference` | service, stream and client over `MaskedHead`, which it implements |
| `Tunnels` | the registry, its tunnels and threads, and the tunnel commands |
| `ChatDesktop` | pages, gateways, generations and history over `Tunnels` |
| `MC*` | values of the constants for TLC |
| `*Proofs` | theorems about the module they extend |

Operators named `X_Something` just before `X` are variants of `X` with a plausible
mistake. Nothing uses them in the models; each is there so that the property it
breaks is known to depend on that line of the code.

Composition. In `ProductJob` a shard's download is one step that leaves the
verified file or fails, an artifact's upload one that commits it or fails, and
the conversion one that leaves the package or fails. `ResumableDownload`,
`ResumableUpload` and `ConversionPackage` (or `StreamingConversion`) model what is
inside these steps, and their properties are what entitles `ProductJob` to them.
`TeeInference` extends `MaskedHead` and is proved to implement it. `ChatDesktop`
extends `Tunnels`; the deployments it reads move by two actions, `Redeploy` and
`Stop`, whose effect on row, service and token is what `RemoteDeployment` and
`LocalDeployment` show of a settled operation.

Convention: a property that holds only as long as certain things have not
happened names them. `history`, `unlucky` or a `setting` records them, and the
condition is part of the property; each of these conditions was found by a
counterexample, which section 5 tells.

### ProductJob

`row` is the status of the `product_jobs` row and `result` whether its
`progress_json` holds the result a later deployment reads, its `output` among it;
`replaced` records that a host preflight took the result of a COMPLETED job away;
`shard` and `art` are the statuses of shard rows; `files` is the source cache, `output` the package,
`remote` the artifacts below each upload root. A runner (`at`, `item`) is a
desktop thread or a command-line process and stands at one of the pipeline's
`Points`. `move` is what `transition_job` has read and not yet written: a step
is at most one SQLite transaction or one disk operation, so `transition_job` is
`ReadRow` followed by `WriteRow`, for runners and requests alike. Every
`_phase` and `update_job_progress` call that replaces the progress is part of the
step it belongs to. `plan` is fixed: catalog or local source, uploading or not,
cleaning or not. Abstracted: phases, wording, the event log, digests, the
package's content, SQLite errors, server, model and licence rows.

### ResumableDownload, ResumableUpload

`target` and `partial` are sequences of blocks, block *k* of the true content
being *k* and 0 a wrong one. A caller's `pc` goes through the function's
statements; `try` counts rounds times endpoints. An answer is taken apart into
what the code distinguishes: refused (also 416 beyond the end), a fresh body, a
continued body, 200 to a range request, a 206 with another range. Files behave
as on Windows: an unlink or rename fails while another caller has the file open.
`setting` says who downloads and which faults may happen how often. Looking for a
target, hashing it and unlinking it (or pruning the partial) are steps of their own
(`Look`, `Judge`, `UnlinkTarget`, `Prune`), so that the file unlinked need not be the
one hashed: `digest` is what the caller hashed, and an unlink of a file that is gone
raises. So are hashing the partial and the rename. In the upload, `server` says
whether a rename over a file works, may fall back to remove and rename, and which faults happen; `Tear`
is a block whose requests were applied in part. One caller; `fsync` is left out.

### ConversionPackage, StreamingConversion

`dir` and `partial` say what each directory holds (nothing, empty, some files,
whole); `offline` follows the offline key from the split to the sealed manifest.
`child` is every converter process, with its position in the list of steps the
script takes; `pc` the runner's position. `Crash` ends the application and not
its converter, `Kill` both. The host is Windows, `offline_key_encrypted` is true,
its default, and the job has one runner at a time.

In `StreamingConversion` a file is the set of tensors it holds, and its digest is
that set. Grouping the files of a merge takes one step per file, in the order the
code sorts them in. A stop is a crash, a pause or an exception and may fall between any two
steps; `unlucky` records the windows in which a stop is not recovered from.

### PrivateModel

A behaviour draws a key, converts embedding, one decoder layer and head, and then
feeds the same tokens to the private and the plain model, a stage of the forward
pass at a time, with their caches. Arithmetic is that of the integers modulo a
prime, and silu, exp, sigmoid and the root are arbitrary functions that are
neither linear nor one-to-one. What makes the private model right is a set of
identities (a map cancels its inverse, rotations commute, an order is undone, a
scaled root) that hold in every field; over a finite one they can be evaluated
exactly, and a wrong order or a missing map shows as a difference. Noise
(`alpha`), rounding, FP8 and ties of top-k are left out, and `router_normalize`,
which changes the routing on purpose, is off. `paper_kappa` is exact only for a P
that stretches all vectors alike, so those settings draw such a P ("even");
`exact_metric` is checked for any P.

### RemoteDeployment, LocalDeployment

Every SSH command and every row update of an operation is a step of its own, and
any command may fail. Where the code does not read an exit code (`ln -sfn`, the stop
of the previous version, the `down` of a removal, the commands of the unit), the
failing command is a disjunct of its step that goes on (`ignored`); a removal stops the
process, deletes the files and unlinks the unit in three steps, and the last two and
the row's update can raise (`halfway`), as a stop or start can after it took effect.
Operators are threads of the desktop and command lines.
Tokens are numbers that tell instances apart. `history` records what the
properties make an exception for. Bounds beyond the constants: no operation after
the removal, none that overlaps another in a behaviour with a fault or an ignored
failure, and the first idle operator takes the next one. A restart is a stop and a start. Left
out: the commands' text, `health_checks` rows, metrics, logs.

`LocalDeployment` adds the refresh (`reconcile_local_deployments`), which reads a
row and a process and writes later. Processes may load slowly, hang, recover and
die. No operation starts after an overlap, a crash or a late answer: what such a
state leads to is checked, what a user does next is not.

### ServerOperations

`row` and `vault` are what is stored of one server: a pin is a key together with
the host that presented it, and the password is known by the host it belongs to.
`hostKey` is the key each host presents now. A thread's `call` is a request, a
command or a worker; `seen` is the profile it read (or the form it was sent), and
`copy` the whole row `update_server` read and has not yet written. Adding, editing
and checking are taken apart into their changes of the vault, their reads and
their writes; installing and deploying into the reads of the row, the sessions
they open with it, and the deployment's row (`linked`), which is what `remove`
looks for. `operation` is the table `bootstrap_server` and
`deploy_completed_local_job` keep under a lock. `Recreate` sets a host up anew,
`Crash` ends the desktop and not the command line. `RemoteDeployment` models what
`Start` does to the server; the removal of a deployment is there, not here, so
`linked` never falls.

Two variables record rather than model. A call is `alone` while no other call
that writes the row or the vault overlaps it, and `torn` says which agreement
(`pin`, `ref`) an overlap or a death may have broken since a lone call restored
it; `ProfileIsCoherent` speaks of the rest. Bounds: `MaxCalls` requests, commands
and faults in a behaviour; threads are alike, and the first idle one takes the
next request. Left out: the fields no property tells apart, listing, wording,
passwords that are not the host's (they fail like a network does).

### MaskedHead, TeeInference

The hidden vector has one coordinate and logits are integers; the norms of the
error bound become absolute values, and activations are quantized with a fixed
step. The ring is that of the code with a smaller modulus. The worker may raise,
or return a wrong product. `TeeInference` has the service's states, a generation
per request, events with sequence numbers, and the client's three ends: whole,
error, cut. The checks and assignments of `mark_loading` and `mark_ready` are steps
of their own, since nothing locks them: `raced` records that another request acted in
between. `Restart` ends the process and starts another (`MaxRestarts` of them) with an
empty pool, to which the same initial masks are given, as `serving/tee_runtime.py:107`
draws them from fixed seeds (`SeedRhos`); `before` holds the masks that have hidden an
input in an earlier process. Provisioning is exercised by tests only; the shipped
entry points start READY, which is one of the initial states. Float rounding is not
covered, and in one coordinate the change of basis of the engine is a factor.

### Tunnels, ChatDesktop

`call` is where a request or a worker stands in `open` or `close`; a `tunnel`
carries the profile and port it was made with, and its thread a listener. The
statements of `ManagedTunnel` between which another thread can run are steps.
`command`, `worker` and the two files are the command line's.

In `ChatDesktop`, `set` says how the programs are set up: desktop, public
demonstrator or command line; which deployments are on the machine itself;
whether services ask for a token; whether the password is stored, rows need the
tokenizer repair, two rows name one port, `--deployment` was given; how many
pages there are. A page goes through the script of `_desktop_bootstrap` (read the
history, or go on without it when that fails; list, select, open a tunnel without a
password, then with one, select again). `select` reads the row, the tunnel's port and
the vault's token in three steps, and may fail to build the gateway. A gateway holds
the port and token it was built with. A run is one
generation: queued, picked (the gateway selected then), sent to whatever listens
at that port, read to its end or broken. The text of an answer is `words` when
the key that decodes it is the one its model was converted with, `noise` if not.
`puts` are history snapshots on their way, which may overtake each other or be
refused. A conversation keeps its last `MaxKept` turns; the page's limits are 50 (100
messages) and 30 conversations, of which the model has one.
Bounds: one conversation per deployment; a page loads when its script has
settled; `left` counts faults, redeployments, reloads and closed tunnels; the
`tunnel` commands start in order. Out of scope: sessions, origins, sanitizing,
several conversations, drawing.

## 3. The runs

| Run | Instance | Question |
|---|---|---|
| `desktop_job` | 1 shard, 2 artifacts, 2 thread slots, 2 requests, 1 crash, all plans; 1 146 602 states | completed is deployable, paused is at rest, without a crash a running status ends |
| `shared_job` | 2 shards, 1 artifact, one thread and one command-line process, 1 request, 1 crash; 1 933 930 | no interleaving loses sources or completes an incomplete upload |
| `download` | 3 blocks, 2 tries, 3 settings; 1 613 417 | true receipts, blocks in place, atomic target, a retrying caller gets the file |
| `upload` | 3 kinds of server, 3 local files | true receipts, intact prefixes kept, delivery |
| `package` | 2 converters, 6 settings | completed is usable, published has its key, TEE jobs complete |
| `stream` | 4 tensors, one tiled, 4 size distributions, 2 stops; 30 100 | nothing recorded or converted is lost, the published is whole |
| `private_model` | 11 settings, GF(7), 3 tokens, 2 prompts; 28 658 | private computes plain, the cache is private, streamed is loaded |
| `remote` | 2 versions, 2 operators, 3 operations, 2 of them when they overlap early, 1 fault; 414 564 | an upgrade keeps a service, records agree, operations end |
| `servers` | 2 hosts, 1 job, 3 threads, 3 requests, commands or faults; 1 417 235 | the profile is coherent, the table is true |
| `local` | 2 deployments, 2 operators, 3 operations, 3 processes, 1 fault | rows, processes and memory agree, the refresh corrects |
| `tee` | 2 tokens of answer, 2 masks, one of them initial, 1 provisioning request, 2 breaks, 1 worker fault, 1 restart; 865 935 | masks, exact tokens, whole answers, every stream ends |
| `chat` | 10 settings, 2 deployments, 2 pages, 4 tunnels, 3 threads, 1 turn kept; 246 159 | readable answers, true histories, held forwarders, calls end |

Why these bounds. In a job, two artifacts are the least with a first, a next and an
end of the loop; `desktop_job` has one shard, so that every plan with two requests
is in reach, and `shared_job` two, the loop the sources are lost in; its properties
are theorems for every number of both. Two threads suffice for a launch that should
have been refused, two requests for a read and a write around another's; one crash
suffices because a crash leaves rows and disks, which are arbitrary reachable ones
anyway. In the transfers the size
admits a first, a middle and a last block, and the fault bound a fault in a retry
of a retry. In `package` three faults let a run be stopped, its retry be stopped
and a third complete; two converters are an orphan and its successor. In `stream`
the sizings are two shards of two, a large tensor between shards, a large fused
one at the end, and shards that cannot be merged; two stops are one in a merge
and one in the merge after it. Two groups of two heads, three (or four) experts
and two coordinates are the least in which an order of groups, one of members
and one of coordinates differ; weights are such that no permutation leaves them
alone, and two steps of generation use a cached key. Three operations of two
operators are an upgrade, what follows it, and an overlap with either; an overlap of
the first two (`MaxOverlapped`) is followed by none, as what the row says then is
promised no more. Three calls
on a server are one that is overlapped by two, or by one and a fault, from a
profile a previous run saved; two hosts are the one before an edit and the one
after. Each
setting of `chat` is there because dropping it loses a behaviour some condition
or mutant needs; `MCChatDesktop` lists them. One of them opens its page with a
deployment selected and allows two faults or reloads: a history not read, a snapshot
refused or not yet saved, and a fallback each break `HistoryIsTrue` there when their
exemption is taken away.

`Tee.cfg` has one caller and one provisioning request. That callers share the pool,
and that requests race, is proved for any number of them (`MasksAreUsedOnce`,
`FailureIsFinal`). One restart is enough for a mask to come back.

`CHECK_DEADLOCK FALSE` is set where the system really stops: when the job, the
operations, the streams or the prompts are done.

Fairness. No fault is ever fair, and nobody is obliged to pause, cancel, select
or resume.

- `ProductJob`: a runner's thread that is not killed keeps executing, and a
  request that has been read is written. The process schedules its threads, and
  nothing in the pipeline waits for another.
- `ResumableDownload`, `ResumableUpload`, `ConversionPackage`,
  `StreamingConversion`: weak fairness on the caller also means that a failed
  call is made again, as a user does who resumes a failed job: `Downloads`,
  `Uploads`, `Completes` and `Converts` say that such a user succeeds once faults
  stop.
- `RemoteDeployment`: an operator's thread goes on with its operation.
- `ServerOperations`: none; the run has no liveness property.
- `LocalDeployment`: only the refresh is fair; an open page asks every two
  seconds (`desktop/static/deploy/app.js:961`).
- `TeeInference`: each request and each client has a thread of its own.
- `ChatDesktop`: threads, workers, pages and generations go on. One weak fairness
  condition stands for all of them: what they do without a user or a fault is
  finite, so that a fair step is taken until none is left.

The properties, one by one, are stated above their definitions, with the line of
code they are about. Three deserve a word. `RecordsAgree` (in both deployments)
is a conjunction of named parts, each with its own condition; `PROJECT.json`
counts it once, `LinkedServer` and `OneCopyInMemory` among its parts. `HistoryIsTrue` has the
type invariant of `ChatDesktop` as its first conjunct, `TableIsTrue` that of
`ServerOperations`. `CommitsAtomically` is a
refinement: the download implements `AtomicFile`.

## 4. The proofs

All of the following hold for every value of the constants that satisfies the
modules' assumptions. Each invariant was first checked by TLC on an instance like
the run's.

- `ProductJobProofs`: `TypeCorrect`; `UploadInvariant`, and from it
  `SourcesAreSafe`, `CompletionIsUploaded`, `CommittedRowsAreOnServer`.
  `NoSourceLost` alone is not inductive: that cleaning may begin depends on what
  the runner's loop has passed. `UploadInv` adds `RunnerKnows` (every artifact
  below a runner's index is on the server, a runner past its loop knows all are)
  and `OnlyFinishersComplete` (a pending move to COMPLETED belongs to such a
  runner). The argument is that the server only grows (`Kept`): what one runner
  knows survives everything another does. One lemma says what a step keeps, one
  what it teaches its own runner, one per conjunct what follows.
  `CompletedJobsDeploy` and `PausedJobsRest` are about the desktop alone
  (`CommandLine = {}`, as their properties are): it refuses to launch a job that
  has a runner, so `DesktopInv` has one runner at most, says that a move it is about
  to write is its own, that a completed row has no runner, and that what the
  runner's position and the recorded result say has been delivered is delivered. Of
  the result itself it says only that it is there unless `replaced` records that a
  preflight took it away.
- `ResumableDownloadProofs`: `DownloadTypes` for any number of callers,
  strengthened by "a caller that writes has its file"; `ReceiptsAreTrue` and
  `DownloadIsAtomic` (the refinement of `AtomicFile`) for a caller alone on its
  file, from `VerifiedInv`: what is about to be renamed has the pinned digest.
  `BlocksAreInPlace` holds for a caller alone, by `PlacesInv`, which
  also says where the body being written begins. `PairsKeepComplete` is for at most
  two callers and a known digest: while one of them is between digest check and
  rename, the other cannot both rewrite the partial and have the target verified; so
  nothing but the true file replaces a true target, and what takes one away is the
  unlink of a caller that hashed another file before.
- `ClientProofs`, of the upload: `UploadTypes`, `UploadReceiptsAreTrue`, and
  `UploadIsAtomic` where the server has posix-rename or its digests do not fail
  (`Careful`). The invariant adds that a call which sends has not found the
  destination committed. `UploadsKeepPrefixes` adds that the offset is the length
  of the partial, and that a partial about to be discarded differs from the source.
  Of the chat: `ChatTypes`, that is `ChatInv`, the types with the one fact behind
  `AnswersReadable`: a generation that reads does so from a service of its gateway's
  deployment, since the service has validated its model and key; so no list ever
  holds noise.
  `HistoriesAreTrue` (`HistoryInv`): until one of the seven accidents `Doubts` names, one
  page at most is at work on the desktop, what is saved, on its way or shown under a
  deployment's name is its answers (`ListsAreTrue`), the last snapshot on its way is
  what the page shows (`PageIsSaved`), from the selection on the gateway a prompt
  will take is the page's (`GatewayIsWanted`), and so is the one its generation took
  (`RunIsThePages`).
  Of the tunnels: `ForwardersAreHeld` (`TunnelInv`). Whatever overlaps, a tunnel
  keeps the deployment it was made for, and a worker's is in no registry. Until two
  calls for a deployment overlap or a join gives up (`Calm`): no two requests are
  about one deployment and no two calls have one tunnel (`CallsApart`); a live
  thread is the one its tunnel knows, and a call about to start one has none left
  (`ThreadsKnown`); a tunnel that was not told to stop is in the registry or a
  call's, which needs that a request that opens leaves it in the registry and that
  who lets go of one has stopped it (`TunnelsHeld`); and a worker's tunnel is up
  from when it is ready, so that its file can tell so (`WorkersTell`). Each code
  step is first shown to be one of a few kinds (`TunnelMove`), said by what it does
  to calls, tunnels and threads; the parts are proved kept kind by kind.
- `ConversionPackageProofs`: `PackageTypes`; `CompletedJobsAreUsable` and
  `OnlineKeyIsKept` from an inductive invariant that says what the runner's
  position implies about the files. Converters cannot break it: they publish only
  where nothing is. `PublishedPackagesHaveKeys` needs `KeyInv`: without a crash
  only the converter the runner waits for runs; the key is written before the
  package is published; and until the first fault, what each step of a TEE job's
  converter and of its run has left in the directories. Of `KeyOrders`: a vocabulary
  key and its inverse undo each other, a private row is its token's row, a grouped
  order keeps groups together and is a permutation: for every size, number of
  groups and number of members.
  Of the streaming converters: `ConversionContinues` (`RecordedIsOnDisk`),
  `ConversionIsWhole` (`PublishedIsWhole`) and `ConversionIsKept`
  (`KeepsConverted`), for any tensors, sizes, tiles and stops, from `StreamInv`. The
  files the progress names are there and a tensor's own file holds that tensor
  (`FilesNamed`, `OwnFiles`); a merge's groups partition the recorded files and each
  is one large file or fits a shard (`GroupsPartition`, `GroupsFit`). The heart is
  why a merge that follows a finished one may write `model-i-of-n` over a file it
  still needs: earlier shards are small and of one merge (`ShardsAreSmall`) and are
  taken in their order, so that one is read before its name is given again
  (`ShardsAreRead`). From that `MergeIsSound`, `FilesIntact`, `TilesWritten`; then
  what is published (`OutputPublished`, `KeysPublished`). What is said of contents
  holds while no merge was stopped when it had overwritten a shard (`Lucky`), and
  `KeysPublished` while no stop fell in any of the windows of section 5.
- `TeeInferenceProofs`, of the pool: `PoolInvariant` says that a reserved mask has
  exactly one holder, and that an input was sent only under a mask that is no
  longer available; from it `MasksAreUsedOnce`, `ReservedMasksAreHeld`, `HeadTypes`.
  `TokensAreLargest`: what the worker returns less the mask's product is, modulo the
  ring, the quantized product; `ProductFits` (no sum of quantized
  products leaves the ring's signed range) makes the signed reading exact; division
  by the scales then errs by what the bound counts, so the interval of each logit
  holds the exact one, the largest is a candidate, and candidates are recomputed
  exactly. Of the service: `ServiceIsMaskedHead`, the refinement, matched action by
  action, so that `MaskUsedOnce` and `TokenIsLargest` hold inside the service.
  `TeeInvariant` relates the service's position, the events on their way and what
  the client has, and gives `AnswersAreWhole`; `ServedAfterLoading` and
  `FailureIsFinal` need in addition that only one provisioning request is past the
  state check, of `mark_loading` or of `mark_ready`, unless two raced. Masks are used
  once per process: over all of them only an initial mask that was used before can be
  used again, and that it can is section 5's.
- `RemoteDeploymentProofs`: `RemoteTypes` (with `Named`, what an operation under
  way knows), `ServersStayLinked`, and `ServiceKeepsRunning`, that is
  `ServiceSurvives`. Its invariant `CalmInv` holds while no two operations
  overlap and no fault or redeployment of the running version has happened: one
  operation is under way, tokens are unique, the version an operation stops is
  not the one it started, and the active version has answered and runs.
  `RemoteRecordsAgree` is `RecordsAgree`, the run's main property, each part with the
  events it exempts, `ignored` and `halfway` among them. Its invariant
  `AgreeInv` says, while no two operations have overlapped, what holds of the row,
  the server and the vault when the operation under way (`Current`) stands where
  it does: where a new version is placed, that a token names one instance
  (`TokensTell`), how the row follows the operation (`Follows`), what is installed;
  and, unless one of the events each part names has happened, that the other
  version is apart, kept, serving, that two fit the memory and one runs. When the
  operation ends, `Agrees` of an idle operator is the property.
- `LocalDeploymentProofs`: `LocalTypes`, `LocalRecordsAgree`, `LocalServiceReturns`.
  `Base` holds whatever overlaps: types, no two processes on one port, recorded pids
  are of processes there were. `Agrees` says, while no two operations have
  overlapped, what holds where the operation under way stands: where it may stand
  (`Placed`), that a token names one deployment and rows stay while they are needed
  (`TokensTell`, `HasRows`); without a crash, a slow or a late answer, that each
  live process is recorded or about to be (`Recorded`) and which ones a deploy
  finds, pauses and starts again (`Staged`); with nothing started by hand, that
  those in turn are one (`Few`); without a dead process, that healthy rows are
  served and the paused ones had different ports (`Serves`, so that no restored
  process finds its port taken); and that something serves or is still to be
  started again (`Returns`). What answers the health check with the token is the
  process that was started (`AnswersItself`); an answer of the refresh in time
  only tells that a process has ended (`WriteAgrees`).
- `ServerOperationsProofs`: `ServerInvariant`, and from it `ProfilesAreCoherent` and
  `TablesAreTrue`. What a thread has read is still so while its call is alone
  (`Knows`), and at most one call is (`OneAlone`); the row and the vault are coherent
  in each respect that is not `torn`, except between the two changes of an
  edit (`Dropping`); each running entry of the table is some worker's, and entries
  are numbered within their bound (`Numbered`).

Assumptions: counts are natural numbers; runners and requests are different
actors; sizes are positive; the absent file is not a sequence; quantized products
fit the ring (`ProductFits`, which the code's choice of modulus ensures); the public
demonstrator has a deployment; `tunnel` commands are numbered in the order they are
given. A digest is taken to identify its content. Two theorems have a hypothesis of their own, the one
their property is about: no command line beside the desktop; two callers.

Model-checked only: liveness (nine properties), which with ENABLED is outside the
prover's reach; and the three properties of `PrivateModel`, whose sums are recursive
operators, which the prover cannot use, and whose identities would need induction
over the length of a vector. Every other property of every run is a theorem.

## 5. Findings

Met while modelling. Each is what a condition in a property, a bound or a setting
is about, or was a counterexample of TLC to the property without it.

Jobs and transfers:

- `transition_job` checks the status it read in an earlier transaction, so a
  cancel or a completion in between is overwritten and a job leaves CANCELLED,
  for which `_JOB_TRANSITIONS` has no successor (`product/state.py:350` and 108).
- After the application dies the row stays PREFLIGHT, RUNNING or VERIFYING, and
  resume refuses it (`product/state.py:410`), although
  `src/docs/prd/yinbian_zhimo_windows_product.md:80` promises to restore tasks.
- A catalog job checks for a pause only before a download, so a later pause is
  ignored through the uploads and then makes the VERIFYING transition fail; the
  command line, which has no outer handler, leaves the row PAUSING. The sources
  are deleted by then: the resumed run skips their download and cannot inspect
  them (`product/pipeline.py:756`).
- A job the command line finished is not below the root the desktop deploys from
  (`product_cli.py:622`, `desktop/deploy_api.py:334`).
- A whole partial left by a crash, or by a digest mismatch, is asked for from its
  end; the server's 416 fails every later call (`catalog/download.py:209`).
- The preflight of a direct deployment's host writes its reports over the progress
  of the row (`desktop/deploy_api.py:589`), also when the job it was started for is
  COMPLETED and the pipeline then refuses it. `progress["output"]` is gone, and
  the deployment of a finished job fails with a KeyError (line 330). That is the
  exemption `replaced` of `CompletedIsDeployable`.
- Two callers of one download can rename a partial the other has begun to write,
  between the first one's digest check and its rename. And a caller that hashes a
  stale target, which takes minutes, unlinks by name (`catalog/download.py:184`, 193):
  of two that do, the second unlinks the file the first has just completed, or raises
  FileNotFoundError when the first has not replaced it yet. `KeepsComplete` names
  this one loss. With three callers more is lost: one truncates what another has
  checked, which then replaces a complete file.
- Without posix-rename a `sha256sum` that fails on a committed destination leads
  to the removal of a good file before it is replaced.

Conversion:

- Once the online key is sealed and its directory removed, a resumed Qwen job
  fails at every attempt (`conversion/executor.py:132`), though the docstring at
  line 126 calls the function idempotent.
- In TEE mode the key package is finalized only in the run that converted. If
  that run stops in between, the resumed job completes without the encryption; the
  last part of `PublishedHasItsKey` is the claim that does hold.
- Stops between two renames (package and key, online and offline half of the
  split) leave states every later run refuses; nothing is lost in them.
- A stop inside a merge may be followed by a merge that writes `model-i-of-n` over
  a shard the saved progress names, although the docstring promises a usable map
  (`conversion/deepseek_streaming.py:605`): DeepSeek then refuses every resume,
  GLM4-MoE goes on and can lose a tensor.
- Other windows in which a stop of a streaming converter is not recovered from:
  after `mkdir` and before the first progress; after a file's header and before
  its length; after the progress is unlinked and before the renames; between the
  renames and before the encryption, after which later runs skip the conversion.
  A manifest may list an earlier copy of itself, and stale merged files may be
  published. The merge's check for duplicate tensors never fires.
- `src/scripts/convert_paper_qwen2_streaming.py` draws block orders with
  `--block-beta` 8 by default but never writes `aloepri_rope_block_orders` into
  the config, as `transform_qwen_layers` does (`transforms/qwen_structural.py:558`):
  the runtime rotates without them. With a beta above 1 in its setting
  `StreamedIsLoaded` is violated; the run has 1 there.
- GLM4-MoE's transform permutes all experts whatever `n_group` is, which is right
  for one group only; DeepSeek permutes groups and then members. The compute modes
  `float64` replace the attention's class also for GLM and Qwen3
  (`models/modeling_aloepri_qwen2.py:451`), which loses their rotary and norms.
  The DeepSeek converter demands `paper_kappa`, which is exact only for even draws.

Deployments:

- Remote: a deployment of the version that runs stops what it just started and
  records HEALTHY; a DEGRADED start counts as failed, so that a later upgrade does
  not see the previous version; a failed candidate is not stopped; an exception in
  a rollback leaves ROLLING_BACK; a rollback and a failed deployment leave the
  later token in the vault; a start after a failed upgrade does not move the
  active link; attaching metadata writes back a whole stale record.
- Remote, exit codes: those of `ln -sfn` (`cloud/hf_deployment.py:488`, 691), of the
  stop of the version before (506, 700), of the `down` of a removal (607) and of the
  unit's commands are not read. A failed stop leaves two versions running, a failed
  link boots the old one, and a failed `down` leaves a process of which no row is
  left. A removal whose `find` or `rm -rf` raises, or a stop that fails after its
  process is gone, leaves a HEALTHY row that nothing serves.
- Local: a late answer of the refresh may mark a live service STOPPED; a deploy or
  start of a DEGRADED or STARTING row overwrites the pid of a live process; one
  error path (`product/local_deployment.py:117`) does not start the paused ones
  again; a crash between spawn and record leaves INSTALLING or STARTING, which the
  refresh skips, and a stray process; a stop while INSTALLING kills nothing; the
  check for a healthy deployment is outside the lock; an exited service is shown
  STOPPED, where `src/docs/prd/local_deployment_target.md:126` has FAILED; line 70 of that
  document starts the candidate first, the code pauses first.

Servers:

- A check that trusts a host key stores it by reading the whole row and writing it
  in a second transaction (`product/state.py:540`, 559). An edit in between is
  overwritten; an edit before the read leaves the new host with the key of the old
  one, although an edit "must force a fresh host-key confirmation"
  (`desktop/deploy_api.py:1501`).
- An edit deletes the saved password before it writes the row, and a check saves it
  before it does: a death or an overlap in between leaves a reference to nothing,
  and every login fails until an edit or a check with a password sets it again.
- Adding a server with an id that is taken changes the vault before the insertion
  fails (`desktop/deploy_api.py:1412`).
- The check that follows the form sends the password and so saves it
  (`desktop/deploy_api.py:1526`), also when "remember" was not ticked
  (`desktop/static/deploy/app.js:908`).
- The page's bootstrap button does nothing when a password is saved: it takes the
  null that stands for it as a cancelled prompt (`desktop/static/deploy/app.js:795`).
- `bootstrap` reads the row before it takes the lock, and its worker installs with
  that row; the deployment that follows reads it again, and may meet another host.
- The table of operations is of one process: `servers bootstrap` on the command
  line runs beside an operation of the desktop.

TEE and masked head:

- A second provisioning request to a READY service marks it FAILED. `mark_ready`
  checks and assigns without a lock (`tee/attestation_service.py:91`), as
  `mark_loading` does: a service that another request marks FAILED in between
  becomes READY. `FailedIsFinal` exempts these races (`raced`).
- The initial masks are drawn from fixed seeds (`serving/tee_runtime.py:107`, 108), so
  every process gives out the same ones, and after a restart or a crash a mask hides
  a second input. `src/docs/guides/TEE_GM_MODE.md:115` has it that a mask once
  reserved must not be reused, "无论成功、超时、取消或崩溃", and
  `src/docs/reports/20260829_lm_head_masked_outsourcing_design_v1.md:141` says what reuse
  gives away. `burn_reserved_after_restart` (`secure_head/mask_pool.py:70`) has no
  caller, and the pool is not stored. The service's default is no initial masks and
  the local head, where none of this happens. `MaskUsedOnce` is what remains: once
  in a process, and across processes nothing but the initial masks comes back.

Tunnels and chat:

- A registered tunnel keeps the profile it was made with. The page first opens
  without a password, so the one typed afterwards (`desktop/chat_api.py:175`) is
  never used, and the tunnel fails until it is closed, which no page does. It also
  keeps its remote port when the deployment moves.
- The tunnel's loop watches its stop event only (`cloud/tunnel.py:90`): a lost
  session shows as connected, and open does not reconnect.
- `open` runs outside the registry's lock: with a close, or another open, a
  forwarder is left to which nothing refers; after a join that gave up, opening
  again clears the stop.
- `tunnel open` fails at once on the `error` of an older state file, while its
  worker goes on; the worker's start removes a stop file written before; two
  workers overwrite each other's state; a stop file stays where no worker runs.
- Prompts run with the gateway selected when they run. If the activation fails,
  the previous deployment stays selected and its answers are stored under the new
  one; so are those of `healthy[0]`, to which the page falls back, under the old;
  two tabs share the gateway and overwrite each other's snapshot; snapshots sent
  with `keepalive` may be reordered, and a reload may read the one before. A page
  without a stored selection saves nothing until it is loaded again.
- A history that cannot be read counts as empty (`desktop/chat_api.py:126`): the next
  answer's snapshot then replaces the stored conversations. A snapshot that is refused
  is told to nobody (line 139): a page of an earlier start has an old session, a
  body of more than 64 KiB is too large for `keepalive`, a database may be locked.
  The page shows "saved" in each case.
- Of a conversation the last 100 messages are kept, and 30 conversations of a
  deployment; what is older is dropped without a word (`demo/static/app.js:506`, 367).
- `--deployment` rewrites the selection at every load, so that the user cannot
  switch (`desktop/chat_api.py:118`).
- `select` repairs a tokenizer directory by writing back the whole row it read.

## 6. What is not modelled

- **Legacy jobs** (`jobs/`, `workflow.py`): the older store with its own
  transition table, used by `cli.py` for plans of schema 1. `product/state.py`
  replaces it, and `ProductJob` is the same question asked of its successor.
- **Keys** (`keys/portable.py`), attestation tokens, ciphers and signatures are
  taken to do what they are for; replay windows are one comparison each.
- **Privacy accounting, evaluation, attacks**: real-valued numerics and
  measurements, out of a model checker's reach.
- **Studio, release, most of `serving/`, catalogue data, adapters' tensor names,
  UI pages**: no state of their own, or static data.
- **Scripts**: experiments and acceptance tests around the converters.
- `tunnels.close_all` at shutdown: it is registered as an event handler of an
  application with a lifespan of its own; whether it runs is Starlette's matter.
- Float rounding and noise in every numeric module.

These are the larger part of the repository's lines (`src/scripts`, experiments and
acceptance tests, is two fifths of them; then pages and the command line's
printing), which is why the share of mapped lines is below a
fifth although every part with concurrent or persistent state but the legacy
store is modelled.

## 7. Plan

Done: `JobStates` and `ProductJob`; both transfers and `AtomicFile`;
`ConversionPackage`; both deployments; `ServerOperations`; `MaskedHead` and `TeeInference`;
`StreamingConversion`; `PrivateModel`; `Tunnels` and `ChatDesktop`. Left, in order:

1. `LegacyJob` (`jobs/store.py` and worker) against `ProductJob`'s properties.
2. The replay windows of the attestation and the exchange of portable keys.
