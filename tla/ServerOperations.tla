-------------------------- MODULE ServerOperations --------------------------
(***************************************************************************)
(* The profile of one rented server and the operations on it: the requests *)
(* of desktop/deploy_api.py that add, edit, check, bootstrap, deploy to    *)
(* and remove it, each in a thread of its own, and the same commands of    *)
(* product_cli.py.  A profile is a row of product/state.py and a password  *)
(* of the vault; no transaction spans the two, nor a read of the row and   *)
(* the write that follows it.                                              *)
(***************************************************************************)
EXTENDS Naturals, FiniteSets

CONSTANTS Endpoints,     \* hosts a profile may name
          Jobs,          \* completed jobs that may be deployed to the server
          Threads,       \* threads that serve requests, commands and workers, 1 .. n
          MaxCalls       \* bound: requests, commands and faults in a behaviour

ASSUME ServerAssumption ==
    /\ IsFiniteSet(Endpoints) /\ "none" \notin Endpoints
    /\ "none" \notin Jobs
    /\ Threads \subseteq Nat
    /\ MaxCalls \in Nat

VARIABLES
    row,        \* the server's row, or NoRow
    vault,      \* the host whose password the vault holds for the server
    linked,     \* a deployment's row names the server
    hostKey,    \* per endpoint: the key it presents
    call,       \* per thread: what it does
    operation,  \* the table of operations, by their order
    torn,       \* what of the row a call left that did not run alone
    calls       \* how many there have been

data == <<row, vault, linked>>
vars == <<row, vault, linked, hostKey, call, operation, torn, calls>>

None == "none"
Pin(e, k) == [of |-> e, key |-> k]
NoPin == Pin(None, 0)
NoRow == [at |-> None, auth |-> None, ref |-> FALSE, pin |-> NoPin]
Idle == [kind |-> "idle", at |-> "end", seen |-> NoRow, typed |-> None, remember |-> FALSE,
         trust |-> FALSE, copy |-> NoRow, job |-> None, op |-> 0, desk |-> TRUE, alone |-> TRUE]
OpIds == 1 .. MaxCalls
NoOp == [kind |-> None, job |-> None, status |-> None]
Running == {i \in OpIds : operation[i].status = "RUNNING"}

\* what an earlier run of the program may have saved
Profile(e, auth, ref, pin) == [at |-> e, auth |-> auth, ref |-> ref, pin |-> pin]
Init ==
    /\ \/ row = NoRow /\ vault = None
       \/ \E e \in Endpoints : row = Profile(e, "password", TRUE, Pin(e, 1)) /\ vault = e
       \/ \E e \in Endpoints : row = Profile(e, "private_key", FALSE, NoPin) /\ vault = None
    /\ linked = FALSE
    /\ hostKey = [e \in Endpoints |-> 1]
    /\ call = [t \in Threads |-> Idle]
    /\ operation = [i \in OpIds |-> NoOp]
    /\ torn = {}
    /\ calls = 0

-----------------------------------------------------------------------------
(* Calls.                                                                  *)

At(t, at) == call[t].at = at
GoTo(t, at) == call' = [call EXCEPT ![t].at = at]
End(t) == call' = [call EXCEPT ![t] = Idle]
\* calls that write the row or the vault
Writers == {t \in Threads : call[t].kind \in {"add", "edit", "check"}}

\* a thread takes a request, the first idle one since they are alike. A call that
\* writes is alone when no other is in progress between its start and its end.
Begin(t, record) ==
    /\ call[t] = Idle /\ \A u \in Threads : u < t => call[u] # Idle
    /\ calls < MaxCalls
    /\ calls' = calls + 1
    /\ call' = IF record.kind \notin {"add", "edit", "check"} \/ Writers = {}
               THEN [call EXCEPT ![t] = record]
               ELSE [u \in Threads |-> IF u = t THEN [record EXCEPT !.alone = FALSE]
                                       ELSE IF u \in Writers THEN [call[u] EXCEPT !.alone = FALSE]
                                       ELSE call[u]]
    /\ UNCHANGED <<row, vault, linked, hostKey, operation, torn>>

\* the secret a profile is made with: the one typed, else the saved one. A reference
\* to a secret the vault has not is an error, as is one the host does not know.
\* The command line has no vault.
Secret(t) == IF call[t].typed # None \/ ~call[t].seen.ref \/ ~call[t].desk
             THEN call[t].typed ELSE vault
\* a session opens: the host accepts the login and presents the key that is pinned.
\* The network may always fail, and a password that is not the host's does no more:
\* what is typed is the password of the host the call has read.
Opens(t) ==
    LET r == call[t].seen IN
    /\ r.auth = "password" => Secret(t) = r.at
    /\ (r.ref /\ call[t].typed = None /\ call[t].desk) => vault # None
    /\ r.pin \in {NoPin, Pin(r.at, hostKey[r.at])}
Typed(r) == {None, r.at}
\* inspect_ubuntu_server; that the host is not fit for the program is a failure
Trusted(t) == call[t].seen.pin = Pin(call[t].seen.at, hostKey[call[t].seen.at])

-----------------------------------------------------------------------------
(* Adding, editing and removing the profile.                               *)

\* what the page sends: a password only when it is to be remembered
Forms ==
    {f \in [at : Endpoints, auth : {"password", "private_key"}, typed : Endpoints \cup {None},
            remember : BOOLEAN] :
        /\ f.auth = "private_key" => f.typed = None /\ ~f.remember
        /\ f.typed # None => f.remember /\ f.typed = f.at}
Filled(kind, at, f, desk) ==
    [Idle EXCEPT !.kind = kind, !.at = at, !.typed = f.typed, !.remember = f.remember, !.desk = desk,
                 !.seen = Profile(f.at, f.auth, FALSE, NoPin)]

\* the secret is put in the vault before the row is inserted; servers add has none
Add(t) == \E f \in Forms :
    /\ f.remember = (f.typed # None)
    /\ Begin(t, Filled("add", IF f.remember THEN "put" ELSE "insert", f, f.remember))
AddPut(t) ==
    /\ call[t].kind = "add" /\ At(t, "put")
    /\ vault' = call[t].typed
    /\ call' = [call EXCEPT ![t].seen.ref = TRUE, ![t].at = "insert"]
    /\ UNCHANGED <<row, linked, hostKey, operation, torn, calls>>
\* an id that is taken violates the primary key
AddInsert(t) ==
    /\ call[t].kind = "add" /\ At(t, "insert")
    /\ row' = IF row = NoRow THEN call[t].seen ELSE row
    /\ torn' = IF ~call[t].alone THEN torn \cup {"ref"} ELSE IF row = NoRow THEN {} ELSE torn
    /\ End(t)
    /\ UNCHANGED <<vault, linked, hostKey, operation, calls>>

\* update_server reads the row for the reference of the secret ...
Edit(t) == \E f \in Forms :
    /\ row # NoRow
    /\ Begin(t, [Filled("edit", "vault", f, TRUE) EXCEPT !.seen.ref = row.ref])
\* ... changes the vault by what the form asks ...
EditVault(t) ==
    LET c == call[t]
        saves == c.typed # None
        drops == ~c.remember
    IN  /\ c.kind = "edit" /\ At(t, "vault")
        /\ vault' = IF saves THEN c.typed ELSE IF drops /\ c.seen.ref THEN None ELSE vault
        /\ call' = [call EXCEPT ![t].seen.ref = saves \/ (~drops /\ c.seen.ref), ![t].at = "write"]
        /\ UNCHANGED <<row, linked, hostKey, operation, torn, calls>>
\* ... and writes the whole row, the pinned host key removed.  Unless the secret was
\* kept as it was, row and vault agree after an edit that ran alone.
Edited_KeepsPin(c) == [c.seen EXCEPT !.pin = row.pin]
Edited(c) == c.seen
EditWrite(t) ==
    LET c == call[t] IN
    /\ c.kind = "edit" /\ At(t, "write")
    /\ row' = IF row = NoRow THEN NoRow ELSE Edited(c)
    /\ torn' = IF ~c.alone THEN (torn \ {"pin"}) \cup {"ref"}
               ELSE IF c.typed # None \/ ~c.remember THEN {} ELSE torn \ {"pin"}
    /\ End(t)
    /\ UNCHANGED <<vault, linked, hostKey, operation, calls>>

\* one transaction looks for deployments and deletes the row; the secret stays
Remove(t) ==
    /\ call[t] = Idle /\ calls < MaxCalls /\ calls' = calls + 1
    /\ row # NoRow /\ ~linked
    /\ row' = NoRow
    /\ UNCHANGED <<vault, linked, hostKey, call, operation, torn>>

-----------------------------------------------------------------------------
(* Checking the server.                                                    *)

Check(t) == \E typed \in Typed(row), trust, desk \in BOOLEAN :
    /\ row # NoRow
    /\ Begin(t, [Idle EXCEPT !.kind = "check", !.at = "connect", !.seen = row, !.typed = typed,
                             !.trust = trust, !.desk = desk])

\* where a check goes on: a secret that was typed is saved, from the page only
AfterTrust(t) ==
    LET c == call[t] IN
    IF c.desk /\ c.typed # None /\ c.seen.auth = "password" THEN GoTo(t, "put") ELSE End(t)
\* the key the host presented is remembered in place of the one read
CheckConnect(t) ==
    LET r == call[t].seen IN
    /\ call[t].kind = "check" /\ At(t, "connect")
    /\ \/ End(t)
       \/ /\ Opens(t)
          /\ IF call[t].trust /\ ~Trusted(t)
             THEN call' = [call EXCEPT ![t].seen.pin = Pin(r.at, hostKey[r.at]), ![t].at = "pin"]
             ELSE AfterTrust(t)
    /\ UNCHANGED <<data, hostKey, operation, torn, calls>>

\* ProductStore.update_server: a transaction reads the row, one field is changed, a
\* second transaction writes them all.  copy is the row in between.
Copy(t, r, at) ==
    IF row = NoRow THEN End(t) ELSE call' = [call EXCEPT ![t].copy = r, ![t].at = at]
CheckReadPin(t) ==
    /\ call[t].kind = "check" /\ At(t, "pin")
    /\ Copy(t, [row EXCEPT !.pin = call[t].seen.pin], "pinned")
    /\ UNCHANGED <<data, hostKey, operation, torn, calls>>
Paste(t) ==
    /\ row' = IF row = NoRow THEN NoRow ELSE call[t].copy
    /\ UNCHANGED <<vault, linked, hostKey, operation, calls>>
CheckWritePin(t) ==
    /\ call[t].kind = "check" /\ At(t, "pinned")
    /\ Paste(t)
    /\ torn' = IF call[t].alone THEN torn \ {"pin"} ELSE torn \cup {"pin", "ref"}
    /\ IF row = NoRow THEN End(t) ELSE AfterTrust(t)
CheckPut(t) ==
    /\ call[t].kind = "check" /\ At(t, "put")
    /\ vault' = call[t].typed
    /\ GoTo(t, "ref")
    /\ UNCHANGED <<row, linked, hostKey, operation, torn, calls>>
CheckReadRef(t) ==
    /\ call[t].kind = "check" /\ At(t, "ref")
    /\ Copy(t, [row EXCEPT !.ref = TRUE], "saved")
    /\ UNCHANGED <<data, hostKey, operation, torn, calls>>
CheckWriteRef(t) ==
    /\ call[t].kind = "check" /\ At(t, "saved")
    /\ Paste(t)
    /\ torn' = IF call[t].alone THEN torn \ {"ref"} ELSE torn \cup {"pin", "ref"}
    /\ End(t)

-----------------------------------------------------------------------------
(* Operations: installing the runtime and deploying, in a worker thread.   *)

Kinds == {"BOOTSTRAP", "BOOTSTRAP_AND_DEPLOY", "LOCAL_PACKAGE_DEPLOY"}
NewOp(kind, job) == [kind |-> kind, job |-> job, status |-> "RUNNING"]
\* update_server_operation, at the end of a worker
Finish(t, status) ==
    /\ operation' = [operation EXCEPT ![call[t].op].status = status]
    /\ End(t)
\* a worker catches whatever is raised; a command of the command line ends with it
Fail(t) == IF call[t].op = 0 THEN End(t) /\ UNCHANGED operation ELSE Finish(t, "FAILED")

\* bootstrap reads the row before it looks, under the lock, for a running operation
Bootstrap(t) == \E typed \in Typed(row), job \in Jobs \cup {None} :
    /\ row # NoRow
    /\ Begin(t, [Idle EXCEPT !.kind = IF job = None THEN "BOOTSTRAP" ELSE "BOOTSTRAP_AND_DEPLOY",
                             !.at = "lock", !.seen = row, !.typed = typed, !.job = job])
\* deploy-local checks that there is a server, and looks for its own kind and job
DeployPackage(t) == \E typed \in Typed(row), job \in Jobs :
    /\ row # NoRow
    /\ Begin(t, [Idle EXCEPT !.kind = "LOCAL_PACKAGE_DEPLOY", !.at = "lock", !.typed = typed,
                             !.job = job])
\* the running operation a request is answered with, instead of one of its own
Rivals_None(c) == {}
Rivals(c) == IF c.kind = "LOCAL_PACKAGE_DEPLOY"
             THEN {i \in Running : operation[i].kind = c.kind /\ operation[i].job = c.job}
             ELSE Running
Submit(t) ==
    LET c == call[t]
        i == 1 + Cardinality({j \in OpIds : operation[j] # NoOp})
    IN  /\ c.kind \in Kinds /\ At(t, "lock")
        /\ IF Rivals(c) # {} THEN End(t) /\ UNCHANGED operation
           ELSE /\ operation' = [operation EXCEPT ![i] = NewOp(c.kind, c.job)]
                /\ call' = [call EXCEPT ![t].op = i,
                       ![t].at = IF c.kind = "LOCAL_PACKAGE_DEPLOY" THEN "look" ELSE "install"]
        /\ UNCHANGED <<data, hostKey, torn, calls>>
\* servers bootstrap, on the command line: no table, no lock
CommandBootstrap(t) == \E typed \in Typed(row) :
    /\ row # NoRow
    /\ Begin(t, [Idle EXCEPT !.kind = "install", !.at = "install", !.seen = row, !.typed = typed,
                             !.desk = FALSE])

\* install_runtime_dependencies: packages first, then what is checked with them
Install(t) ==
    /\ At(t, "install")
    /\ \/ Fail(t)
       \/ Opens(t) /\ GoTo(t, "verify") /\ UNCHANGED operation
    /\ UNCHANGED <<data, hostKey, torn, calls>>
Verify(t) ==
    /\ At(t, "verify")
    /\ \/ Fail(t)
       \/ IF call[t].kind = "install" THEN End(t) /\ UNCHANGED operation
          ELSE IF call[t].job = None THEN Finish(t, "COMPLETED")
          ELSE GoTo(t, "read") /\ UNCHANGED operation
    /\ UNCHANGED <<data, hostKey, torn, calls>>

\* get_server: the row as it is now, or KeyError
ReadServer(t, from, to) ==
    /\ At(t, from)
    /\ IF row = NoRow THEN Fail(t)
       ELSE call' = [call EXCEPT ![t].seen = row, ![t].at = to] /\ UNCHANGED operation
    /\ UNCHANGED <<data, hostKey, torn, calls>>
\* ensure_deployment_host_ready: a fit host with a confirmed key, set up if need be
HostReady(t, to) ==
    /\ Opens(t) /\ Trusted(t)
    /\ GoTo(t, to) /\ UNCHANGED operation
Look(t) == ReadServer(t, "look", "host")
Prepare(t) ==
    /\ At(t, "host")
    /\ Fail(t) \/ HostReady(t, "read")
    /\ UNCHANGED <<data, hostKey, torn, calls>>
\* deploy_uploaded_job and deploy_local_package_job read the row again, and deploy
\* prepares the host they find there; the former records that this failed
ReadDeploy(t) == ReadServer(t, "read", "preflight")
Preflight(t) ==
    /\ At(t, "preflight")
    /\ \/ /\ Fail(t)
          /\ linked' \in {linked, linked \/ call[t].kind = "BOOTSTRAP_AND_DEPLOY"}
       \/ HostReady(t, "record") /\ UNCHANGED linked
    /\ UNCHANGED <<row, vault, hostKey, torn, calls>>
Record(t) ==
    /\ At(t, "record")
    /\ linked' = TRUE
    /\ GoTo(t, "start")
    /\ UNCHANGED <<row, vault, hostKey, operation, torn, calls>>
Start(t) ==
    /\ At(t, "start")
    /\ \E status \in {"COMPLETED", "FAILED"} : Finish(t, status)
    /\ UNCHANGED <<data, hostKey, torn, calls>>

-----------------------------------------------------------------------------
(* Faults.                                                                 *)

\* a rented host is set up anew behind its name, with another key
Recreate(e) ==
    /\ calls < MaxCalls /\ calls' = calls + 1
    /\ hostKey' = [hostKey EXCEPT ![e] = @ + 1]
    /\ UNCHANGED <<row, vault, linked, call, operation, torn>>
\* the desktop program dies, with its table; commands go on
Halfway == {t \in Threads : call[t].desk /\ call[t].at \in {"insert", "write", "ref", "saved"}}
Crash ==
    /\ calls < MaxCalls /\ calls' = calls + 1
    /\ call' = [t \in Threads |-> IF call[t].desk THEN Idle ELSE call[t]]
    /\ operation' = [i \in OpIds |-> NoOp]
    /\ torn' = IF Halfway = {} THEN torn ELSE torn \cup {"ref"}
    /\ UNCHANGED <<row, vault, linked, hostKey>>

Request(t) ==
    Add(t) \/ Edit(t) \/ Check(t) \/ Remove(t)
    \/ Bootstrap(t) \/ DeployPackage(t) \/ CommandBootstrap(t)
Step(t) ==
    \/ AddPut(t) \/ AddInsert(t)
    \/ EditVault(t) \/ EditWrite(t)
    \/ CheckConnect(t) \/ CheckReadPin(t) \/ CheckWritePin(t)
    \/ CheckPut(t) \/ CheckReadRef(t) \/ CheckWriteRef(t)
    \/ Submit(t) \/ Install(t) \/ Verify(t) \/ Look(t) \/ Prepare(t)
    \/ ReadDeploy(t) \/ Preflight(t) \/ Record(t) \/ Start(t)
Next == (\E t \in Threads : Request(t) \/ Step(t)) \/ (\E e \in Endpoints : Recreate(e)) \/ Crash

Spec == Init /\ [][Next]_vars
-----------------------------------------------------------------------------
(* Properties.                                                             *)

\* No call is between its change of the vault and its change of the row.
AtRest == \A t \in Threads : call[t].at \notin {"insert", "write", "ref", "saved"}

\* The pinned key is one of the host the row names, and the row refers to a secret
\* only if it logs in with one and the vault has it: whatever calls overlapped or
\* died before, an edit that runs alone leaves it so, and calls that run alone keep
\* it so.
ProfileIsCoherent ==
    (row # NoRow /\ AtRest) =>
        /\ "pin" \in torn \/ row.pin = NoPin \/ row.pin.of = row.at
        /\ "ref" \in torn \/ ~row.ref \/ (row.auth = "password" /\ vault # None)

Places == {"end", "put", "insert", "vault", "write", "connect", "pin", "pinned", "ref", "saved",
           "lock", "install", "verify", "look", "host", "read", "preflight", "record", "start"}
Profiles == [at : Endpoints \cup {None}, auth : {None, "password", "private_key"}, ref : BOOLEAN,
             pin : [of : Endpoints \cup {None}, key : Nat]]
Secrets == Endpoints \cup {None}
TypeOK ==
    /\ row \in Profiles /\ vault \in Secrets /\ linked \in BOOLEAN
    /\ hostKey \in [Endpoints -> Nat]
    /\ call \in [Threads -> [kind : {"idle", "add", "edit", "check", "install"} \cup Kinds,
                             at : Places, seen : Profiles, typed : Secrets, remember : BOOLEAN,
                             trust : BOOLEAN, copy : Profiles, job : Jobs \cup {None},
                             op : {0} \cup OpIds, desk : BOOLEAN, alone : BOOLEAN]]
    /\ operation \in [OpIds -> {NoOp} \cup [kind : Kinds, job : Jobs \cup {None},
                                            status : {"RUNNING", "COMPLETED", "FAILED"}]]
    /\ torn \subseteq {"pin", "ref"}
    /\ calls \in 0 .. MaxCalls

\* The table is true: an operation is RUNNING exactly while a thread works on it, an
\* installation is not begun beside a running operation, nor a deployment of a job
\* beside its own, and what completed a deployment left its row.
TableIsTrue ==
    /\ TypeOK
    /\ Running = {call[t].op : t \in Threads} \ {0}
    /\ \A i, j \in Running : i < j =>
          /\ operation[j].kind = "LOCAL_PACKAGE_DEPLOY"
          /\ operation[i] # operation[j]
    /\ \A i \in OpIds : (operation[i].status = "COMPLETED" /\ operation[i].job # None) => linked
=============================================================================
