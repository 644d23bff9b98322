---------------------------- MODULE TeeInference ----------------------------
(***************************************************************************)
(* Generation inside the trusted boundary: serving/tee_app.py with the     *)
(* state of tee/attestation_service.py, the token loop of                  *)
(* serving/tee_runtime.py over the head of MaskedHead, and the stream as   *)
(* client/tee_sdk.py reads it.                                             *)
(***************************************************************************)
EXTENDS MaskedHead

CONSTANTS Provisioners,   \* provisioning requests that may overlap
          MaxTokens,      \* max_new_tokens
          Eos,            \* tokens that end a generation
          MaxBreaks       \* bound: broken streams

ASSUME TeeAssumption ==
    /\ MaxTokens \in Nat \ {0}
    /\ Eos \subseteq Vocab
    /\ MaxBreaks \in Nat

VARIABLES
    svc,       \* TeeServiceState
    prov,      \* per provisioning request: where it is
    loaded,    \* a boundary package has been loaded
    raced,     \* a provisioning request acted between another's check of the state
               \* and its assignment
    req,       \* per caller: its streamed request, on the server
    out,       \* per caller: the tokens generated for it
    wire,      \* per caller: events sent and not yet read
    client,    \* per caller: how its client fares
    got,       \* per caller: the tokens its client has read
    line,      \* per caller: the connection of its stream
    breaks

vars == <<headVars, svc, prov, loaded, raced, req, out, wire, client, got, line, breaks>>
svcVars == <<svc, prov, loaded, raced>>
streamVars == <<req, out, wire, client, got, line, breaks>>

Done == [seq |-> MaxTokens, token |-> NoToken]
NoRequest == [at |-> "none", greedy |-> TRUE, traced |-> FALSE]

Init ==
    /\ HeadInit
    /\ svc \in {"WAITING_FOR_PROVISIONING", "READY"}
    /\ loaded = (svc = "READY")
    /\ prov = [p \in Provisioners |-> "new"]
    /\ raced = FALSE
    /\ req = [c \in Callers |-> NoRequest]
    /\ out = [c \in Callers |-> <<>>]
    /\ wire = [c \in Callers |-> <<>>]
    /\ client = [c \in Callers |-> "new"]
    /\ got = [c \in Callers |-> <<>>]
    /\ line = [c \in Callers |-> "up"]
    /\ breaks = 0

-----------------------------------------------------------------------------
(* provision: mark_loading, the provisioner, mark_ready; no lock is held    *)
(* between the check of the state and its assignment                       *)

Provision(p, from, to) == prov[p] = from /\ prov' = [prov EXCEPT ![p] = to]

\* mark_loading's test, then its assignment
CheckState(p) ==
    /\ svc = "WAITING_FOR_PROVISIONING"
    /\ Provision(p, "new", "checked")
    /\ raced' = (raced \/ \E q \in Provisioners : prov[q] = "checked")
    /\ UNCHANGED <<headVars, svc, loaded, streamVars>>
MarkLoading(p) ==
    /\ Provision(p, "checked", "loading")
    /\ svc' = "LOADING_BOUNDARY_PACKAGE"
    /\ UNCHANGED <<headVars, loaded, raced, streamVars>>
\* the provisioner returned; mark_ready's test, then its assignment
CheckLoading(p) ==
    /\ svc = "LOADING_BOUNDARY_PACKAGE"
    /\ Provision(p, "loading", "leaving")
    /\ loaded' = TRUE
    /\ UNCHANGED <<headVars, svc, raced, streamVars>>
MarkReady(p) ==
    /\ Provision(p, "leaving", "ended")
    /\ svc' = "READY"
    /\ UNCHANGED <<headVars, loaded, raced, streamVars>>
\* a check or the provisioner raised, before or after it loaded: FAILED, whatever the
\* state was
ProvisionRaises(p) ==
    /\ \/ /\ Provision(p, "new", "ended") /\ svc # "WAITING_FOR_PROVISIONING"
          /\ UNCHANGED loaded
       \/ /\ Provision(p, "loading", "ended")
          /\ loaded' \in {loaded, TRUE}
    /\ raced' = (raced \/ \E q \in Provisioners : prov[q] \in {"checked", "leaving"})
    /\ svc' = "FAILED"
    /\ UNCHANGED <<headVars, streamVars>>

-----------------------------------------------------------------------------
(* A streamed generation on the server.                                    *)

At(c, at) == req[c].at = at
GoTo(c, at) == req' = [req EXCEPT ![c].at = at]

\* require_ready and validate; a request that fails them gets an error answer.  A client
\* whose request is over may ask again, on a connection of its own.
Admit(c) ==
    /\ At(c, "none") \/ At(c, "ended")
    /\ client[c] \in {"new", "done", "error"}
    /\ IF svc = "READY"
       THEN /\ \E greedy \in BOOLEAN, traced \in BOOLEAN :
                  req' = [req EXCEPT ![c] = [at |-> "body", greedy |-> greedy,
                                             traced |-> traced]]
            /\ client' = [client EXCEPT ![c] = "reading"]
       ELSE /\ client' = [client EXCEPT ![c] = "error"]
            /\ req' = [req EXCEPT ![c].at = "none"]
    /\ out' = [out EXCEPT ![c] = <<>>]
    /\ wire' = [wire EXCEPT ![c] = <<>>]
    /\ got' = [got EXCEPT ![c] = <<>>]
    /\ line' = [line EXCEPT ![c] = "up"]
    /\ UNCHANGED <<headVars, svcVars, breaks>>

\* a traced request adds a mask before its first token (while MaxMasks allows)
FreshMask(c) ==
    /\ At(c, "body") /\ req[c].traced /\ out[c] = <<>>
    /\ \E m \in Masks, rho \in Rhos : MakeMask(m, rho)
    /\ req' = [req EXCEPT ![c].traced = FALSE]
    /\ UNCHANGED <<call, sent, faults, missed, past, svcVars, out, wire, client, got, line, breaks>>
RunBody(c) ==
    /\ At(c, "body")
    /\ req[c].traced /\ out[c] = <<>> => \A m \in Masks : pool[m] # Unmade
    /\ \E x \in Hiddens : Ask(c, x, req[c].greedy)
    /\ GoTo(c, "head")
    /\ UNCHANGED <<pool, sent, faults, missed, past, svcVars, out, wire, client, got, line, breaks>>
HeadStep(c) ==
    /\ At(c, "head")
    /\ Decide(c)
    /\ UNCHANGED <<svcVars, streamVars>>
\* the body, or anything outside decide, raises: the response ends where it is
BodyRaises(c) ==
    /\ At(c, "body") /\ breaks < MaxBreaks
    /\ breaks' = breaks + 1
    /\ GoTo(c, "ended")
    /\ UNCHANGED <<headVars, svcVars, out, wire, client, got, line>>
\* the token is yielded in an event; then the loop ends or goes on
AfterYield_OneMore(c, tokens) ==
    GoTo(c, IF tokens[Len(tokens)] \in Eos \/ Len(tokens) > MaxTokens THEN "done" ELSE "body")
AfterYield(c, tokens) ==
    GoTo(c, IF tokens[Len(tokens)] \in Eos \/ Len(tokens) = MaxTokens THEN "done" ELSE "body")
Yield(c) ==
    /\ At(c, "head") /\ line[c] = "up"
    /\ Take(c)
    /\ out' = [out EXCEPT ![c] = Append(@, call[c].token)]
    /\ wire' = [wire EXCEPT ![c] = Append(@, [seq |-> Len(out[c]), token |-> call[c].token])]
    /\ AfterYield(c, out'[c])
    /\ UNCHANGED <<pool, sent, faults, missed, past, svcVars, client, got, line, breaks>>
\* the connection is gone: the generator is dropped where it yields
Dropped(c) ==
    /\ line[c] = "cut"
    /\ \/ At(c, "head") /\ Take(c)
       \/ (At(c, "body") \/ At(c, "done")) /\ UNCHANGED call
    /\ GoTo(c, "ended")
    /\ UNCHANGED <<pool, sent, faults, missed, past, svcVars, out, wire, client, got, line, breaks>>
SendDone(c) ==
    /\ At(c, "done") /\ line[c] = "up"
    /\ wire' = [wire EXCEPT ![c] = Append(@, Done)]
    /\ GoTo(c, "ended")
    /\ UNCHANGED <<headVars, svcVars, out, client, got, line, breaks>>

-----------------------------------------------------------------------------
(* The client, and the connection between them.                            *)

\* the connection breaks; what was under way may be lost from any point on
Cut(c) ==
    /\ ~At(c, "none") /\ line[c] = "up" /\ breaks < MaxBreaks
    /\ breaks' = breaks + 1
    /\ line' = [line EXCEPT ![c] = "cut"]
    /\ \E n \in 0 .. Len(wire[c]) : wire' = [wire EXCEPT ![c] = SubSeq(@, 1, n)]
    /\ UNCHANGED <<headVars, svcVars, req, out, client, got>>

Turn(c, from, to) == client[c] = from /\ client' = [client EXCEPT ![c] = to]
\* stream_chat: the next event, in sequence; nothing may follow `done`
Read(c) ==
    /\ wire[c] # <<>>
    /\ \/ /\ Head(wire[c]) = Done
          /\ Turn(c, "reading", "last")
          /\ UNCHANGED got
       \/ /\ Head(wire[c]) # Done /\ Head(wire[c]).seq = Len(got[c])
          /\ Turn(c, "reading", "reading")
          /\ got' = [got EXCEPT ![c] = Append(@, Head(wire[c]).token)]
       \/ /\ Head(wire[c]) # Done
          /\ \/ Head(wire[c]).seq # Len(got[c]) /\ Turn(c, "reading", "error")
             \/ Turn(c, "last", "error")
          /\ UNCHANGED got
    /\ wire' = [wire EXCEPT ![c] = Tail(@)]
    /\ UNCHANGED <<headVars, svcVars, req, out, line, breaks>>
StreamOver(c) == wire[c] = <<>> /\ (line[c] = "cut" \/ At(c, "ended"))
ReadEnd_Trusts(c) ==
    /\ StreamOver(c)
    /\ Turn(c, "reading", "done") \/ Turn(c, "last", "done")
    /\ UNCHANGED <<headVars, svcVars, req, out, wire, got, line, breaks>>
\* the response is over: an answer only when `done` was read
ReadEnd(c) ==
    /\ StreamOver(c)
    /\ Turn(c, "reading", "error") \/ Turn(c, "last", "done")
    /\ UNCHANGED <<headVars, svcVars, req, out, wire, got, line, breaks>>

-----------------------------------------------------------------------------
\* The process ends and is started again: its requests end where they are, and so do
\* their connections, each with a part of what was under way.
Restart ==
    /\ HeadRestart
    /\ svc' \in {"WAITING_FOR_PROVISIONING", "READY"}
    /\ loaded' = (svc' = "READY")
    /\ prov' = [p \in Provisioners |-> IF prov[p] = "new" THEN "new" ELSE "ended"]
    /\ raced' = FALSE
    /\ req' = [c \in Callers |-> IF At(c, "none") THEN req[c]
                                 ELSE [req[c] EXCEPT !.at = "ended"]]
    /\ \E n \in [Callers -> 0 .. MaxTokens + 1] :
          /\ \A c \in Callers : n[c] <= Len(wire[c])
          /\ wire' = [c \in Callers |-> SubSeq(wire[c], 1, n[c])]
    /\ line' = [c \in Callers |-> IF At(c, "none") THEN line[c] ELSE "cut"]
    /\ UNCHANGED <<out, client, got, breaks>>

Serve(c) ==
    \/ FreshMask(c) \/ RunBody(c) \/ HeadStep(c) \/ Yield(c) \/ Dropped(c) \/ SendDone(c)
Receive(c) == Read(c) \/ ReadEnd(c)
Next ==
    \/ \E p \in Provisioners :
          \/ CheckState(p) \/ MarkLoading(p) \/ CheckLoading(p) \/ MarkReady(p)
          \/ ProvisionRaises(p)
    \/ \E c \in Callers :
          Admit(c) \/ Serve(c) \/ BodyRaises(c) \/ Cut(c) \/ Receive(c)
    \/ Restart

Spec == Init /\ [][Next]_vars

\* each request has a thread of its own, and so has each client
Fairness == \A c \in Callers : WF_vars(Serve(c)) /\ WF_vars(Receive(c))
FairSpec == Spec /\ Fairness

-----------------------------------------------------------------------------
(* Properties                                                              *)

Tokens == Seq(Vocab)
Event == [seq : 0 .. MaxTokens - 1, token : Vocab] \cup {Done}
TypeOK ==
    /\ HeadTypeOK
    /\ svc \in {"WAITING_FOR_PROVISIONING", "LOADING_BOUNDARY_PACKAGE", "READY", "FAILED"}
    /\ prov \in [Provisioners -> {"new", "checked", "loading", "leaving", "ended"}]
    /\ loaded \in BOOLEAN /\ raced \in BOOLEAN
    /\ req \in [Callers -> [at : {"none", "body", "head", "done", "ended"},
                            greedy : BOOLEAN, traced : BOOLEAN]]
    /\ out \in [Callers -> Tokens] /\ got \in [Callers -> Tokens]
    /\ wire \in [Callers -> Seq(Event)]
    /\ client \in [Callers -> {"new", "reading", "last", "done", "error"}]
    /\ line \in [Callers -> {"up", "cut"}]
    /\ breaks \in Nat

\* A request runs only after a boundary package was loaded, and the service says READY
\* while one is being loaded only if two provisioning requests overlapped.
ServedIsLoaded ==
    /\ \A c \in Callers : req[c].at \notin {"none", "ended"} => loaded
    /\ svc = "READY"
          => loaded /\ (raced \/ \A p \in Provisioners : prov[p] \notin {"loading", "leaving"})

\* A client that reports an answer has every token of it, in order, and the generation
\* was complete: broken connections and failed bodies end in an error instead.
AnswerIsWhole ==
    \A c \in Callers :
        /\ client[c] = "done"
              => /\ got[c] = out[c] /\ out[c] # <<>>
                 /\ Len(out[c]) = MaxTokens \/ out[c][Len(out[c])] \in Eos
        /\ Len(got[c]) <= Len(out[c]) /\ got[c] = SubSeq(out[c], 1, Len(got[c]))

\* A failed provisioning is final as long as the process lives: no request makes the
\* service READY, unless it had passed a check of the state before.
FailedIsFinal ==
    [][(svc = "FAILED" /\ ~raced' /\ UNCHANGED restarts) => svc' = "FAILED"]_vars

\* Every stream a client reads comes to an answer or to an error; a generation that
\* finds the mask pool empty does not wait for a mask.
StreamsEnd == \A c \in Callers : client[c] = "reading" ~> client[c] \in {"done", "error"}
=============================================================================
