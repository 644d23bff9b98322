---------------------------- MODULE ChatDesktop ----------------------------
(***************************************************************************)
(* A conversation, from the page to the model service and back:            *)
(* desktop/chat_api.py with the script it puts into the page, the gateway  *)
(* and the public queue of demo/app.py, the page's own demo/static/app.js, *)
(* and of the services what serving/app.py checks.                         *)
(***************************************************************************)
EXTENDS Tunnels, SequencesExt

CONSTANTS Pages,         \* browser tabs, each with the request it waits for
          Settings,      \* how the programs may be set up
          MaxPending,    \* jobs the public queue takes at a time
          MaxKept,       \* turns a conversation keeps
          MaxTurns       \* bound: prompts

ASSUME ChatAssumption ==
    /\ Pages \subseteq Requests
    /\ Settings \subseteq
         [mode : {"desktop", "public", "command"},  \* who is at work
          initial : Deployments \cup {None},         \* what --deployment names
          local : SUBSET Deployments,               \* those on the client machine itself
          guarded : BOOLEAN,                        \* the services ask for a bearer token
          stored : BOOLEAN,                         \* the server needs no password typed
          repair : SUBSET Deployments,              \* their rows name an old tokenizer directory
          place : [Deployments -> RemotePorts],     \* what the rows say, one of them stale
                                                    \* where two name a port
          tabs : SUBSET Pages,
          left : Nat, \* bound: faults, redeployments, reloads and tunnels closed
          turns : 0 .. MaxTurns]
    /\ MaxPending \in Nat \ {0} /\ MaxKept \in Nat \ {0}
    /\ Deployments # {} \* the public demonstrator has one

VARIABLES
    set,        \* the settings; a password typed is stored, a row repaired
    service,    \* per port: the service that listens there
    bearer,     \* per deployment: the token the vault holds
    router,     \* RoutingGateway: the gateway of the selected deployment
    page,       \* per page: the page
    chosen,     \* localStorage: the selected deployment
    runs,       \* generations, in the order of their prompts
    saved,      \* per deployment: its history snapshot
    puts        \* history snapshots on their way

serviceVars == <<set, service, bearer>>
chatVars == <<router, page, chosen, runs, saved, puts>>
vars == <<tunnelVars, serviceVars, chatVars>>

NoService == [dep |-> None, token |-> 0]
NoGateway == [id |-> 0, dep |-> None, token |-> 0, direct |-> FALSE, port |-> NoPort,
              closed |-> FALSE]
NoRun == 0
Blank == [at |-> "closed", dep |-> None, want |-> None,
          row |-> [healthy |-> FALSE, port |-> NoPort],
          tries |-> 0, gateway |-> NoGateway, run |-> NoRun, list |-> <<>>]
Spent == [page |-> None, at |-> "over", gateway |-> NoGateway, service |-> NoService,
          link |-> NoThread, end |-> None, told |-> TRUE]
Healthy == {d \in Deployments : row[d].healthy}
Demo == CHOOSE d \in Deployments : TRUE

\* the services of the client machine and of the server have ports of their own; the public
\* demonstrator has one gateway, of its command line's
Init ==
    /\ TunnelInit
    /\ set \in Settings
    /\ row = [d \in Deployments |-> [healthy |-> TRUE, port |-> set.place[d]]]
    /\ service = [r \in RemotePorts |->
         IF \E d \in Deployments : set.place[d] = r
         THEN [dep |-> CHOOSE d \in Deployments : set.place[d] = r, token |-> 1]
         ELSE NoService]
    /\ router = IF set.mode = "public"
                THEN [NoGateway EXCEPT !.id = 1, !.dep = Demo, !.token = 1, !.direct = TRUE,
                                       !.port = set.place[Demo]]
                ELSE NoGateway
    /\ bearer = [d \in Deployments |-> 1]
    /\ page = [p \in Pages |->
                  IF set.mode = "public" /\ p \in set.tabs
                  THEN [Blank EXCEPT !.at = "ready"] ELSE Blank]
    /\ chosen = None
    /\ runs = <<>>
    /\ saved = [d \in Deployments |-> <<>>]
    /\ puts = <<>>
    /\ left = set.left

-----------------------------------------------------------------------------
(* The deployments, which another program keeps (RemoteDeployment and      *)
(* LocalDeployment): a service is stopped, or starts anew at a free port   *)
(* with a new token.                                                       *)

Move == set.mode = "desktop" /\ Fault
Without(d) == [r \in RemotePorts |-> IF service[r].dep = d THEN NoService ELSE service[r]]
FreePort == Min({r \in RemotePorts : service[r] = NoService})
Redeploy(d) ==
    /\ Move
    /\ row' = [row EXCEPT ![d] = [healthy |-> TRUE, port |-> FreePort]]
    /\ service' = [Without(d) EXCEPT ![FreePort] = [dep |-> d, token |-> bearer[d] + 1]]
    /\ bearer' = [bearer EXCEPT ![d] = @ + 1]
    /\ UNCHANGED <<registry, tunnel, thread, call, fileVars, unlucky, set,
                   chatVars>>
Stop(d) ==
    /\ Move
    /\ row[d].healthy
    /\ row' = [row EXCEPT ![d].healthy = FALSE]
    /\ service' = Without(d)
    /\ UNCHANGED <<registry, tunnel, thread, call, fileVars, unlucky, set,
                   bearer, chatVars>>

-----------------------------------------------------------------------------
(* The page chooses its deployment: the script of _desktop_bootstrap with  *)
(* the endpoints it calls.                                                 *)

At(p, at) == page[p].at = at
Turn(p, from, to) == At(p, from) /\ page' = [page EXCEPT ![p].at = to]
Settled(p) == page[p].at \in {"closed", "off", "ready", "failed"}

\* persist, which sends the page's conversations to the history of its deployment
Persist(p, list) ==
    puts' = IF page'[p].dep = None THEN puts
            ELSE Append(puts, [dep |-> page'[p].dep, list |-> list])
\* the page is opened, or the user selects a deployment, which loads it again; the
\* deployment of --deployment is selected at every load. A generation the page was reading is
\* closed, and the conversation restored from the history is saved again. A history that
\* could not be read counts as empty
Load(p) ==
    /\ set.mode = "desktop" /\ p \in set.tabs /\ Settled(p) /\ call[p] = Idle
    /\ \/ At(p, "closed") /\ UNCHANGED left
       \/ ~At(p, "closed") /\ Move
    /\ \E d \in IF At(p, "closed") THEN {chosen} ELSE {chosen} \cup Healthy :
       LET named == IF set.initial = None THEN d ELSE set.initial
           history == IF named = None THEN <<>> ELSE saved[named]
       IN \E list \in {history, <<>>} :
          /\ chosen' = named
          /\ page' = [page EXCEPT ![p] = [Blank EXCEPT !.at = "list", !.dep = named,
                                                      !.list = list]]
          /\ IF list = <<>> THEN UNCHANGED puts ELSE Persist(p, list)
          /\ Note((IF \E q \in Pages \ {p} : ~At(q, "closed") THEN {"tabs"} ELSE {})
                  \cup (IF \E i \in DOMAIN puts : puts[i].dep = named THEN {"unsaved"} ELSE {})
                  \cup (IF list # history THEN {"unloaded"} ELSE {}))
    /\ runs' = [r \in DOMAIN runs |-> IF runs[r].page = p THEN Spent ELSE runs[r]]
    /\ UNCHANGED <<row, registry, tunnel, thread, call, fileVars, set, service, bearer,
                   router, saved>>

List(p) ==
    /\ At(p, "list")
    /\ IF Healthy = {}
       THEN Turn(p, "list", "off") /\ UNCHANGED unlucky
       ELSE \E d \in IF chosen \in Healthy THEN {chosen} ELSE Healthy :
                /\ page' = [page EXCEPT ![p].at = "select", ![p].want = d]
                /\ Note(IF page[p].dep \in {d, None} THEN {} ELSE {"fallback"})
    /\ UNCHANGED <<row, registry, tunnel, thread, call, fileVars, left, serviceVars,
                   router, chosen, runs, saved, puts>>

\* an answer other than success: the first time the page opens a tunnel and tries again
Refuse(p) ==
    page' = [page EXCEPT ![p].at = IF page[p].tries = 0 THEN "open" ELSE "failed",
                         ![p].tries = IF page[p].tries = 0 THEN 1 ELSE @]

\* select reads the row ...
Select(p) ==
    /\ At(p, "select")
    /\ IF row[page[p].want].healthy
       THEN page' = [page EXCEPT ![p].at = "build", ![p].row = row[page[p].want]]
       ELSE Refuse(p)
    /\ UNCHANGED <<tunnelVars, serviceVars, router, chosen, runs, saved, puts>>
\* ... writes it back when its tokenizer directory is an old one, asks the tunnel for its
\* port ...
Build(p) ==
    /\ At(p, "build")
    /\ LET d == page[p].want
           t == registry[d]
           there == d \in set.local \/ (t # NoTunnel /\ Connected(t))
       IN /\ IF d \in set.repair THEN row' = [row EXCEPT ![d] = page[p].row] ELSE UNCHANGED row
          /\ set' = [set EXCEPT !.repair = @ \ {d}]
          /\ \/ /\ there
                /\ page' = [page EXCEPT ![p].at = "equip", ![p].row = Blank.row,
                       ![p].gateway = [NoGateway EXCEPT
                            !.dep = d, !.direct = d \in set.local,
                            !.port = IF d \in set.local THEN page[p].row.port
                                     ELSE tunnel[t].local]]
             \/ ~there /\ Refuse(p)
    /\ UNCHANGED <<registry, tunnel, thread, call, fileVars, unlucky, left, service, bearer,
                   router, chosen, runs, saved, puts>>
\* ... and builds a gateway with the vault's token, unless its tokenizer or its key cannot
\* be read
NewGateway ==
    Min((1 .. Cardinality(Pages) * 2 + Len(runs) + 1)
        \ ({router.id} \cup {page[p].gateway.id : p \in Pages}
                       \cup {runs[r].gateway.id : r \in DOMAIN runs}))
Equip(p) ==
    /\ At(p, "equip")
    /\ \/ /\ page' = [page EXCEPT ![p].at = "swap", ![p].gateway.id = NewGateway,
                                   ![p].gateway.token = bearer[page[p].want]]
          /\ UNCHANGED left
       \/ /\ page' = [page EXCEPT ![p].at = "failed", ![p].gateway = NoGateway]
          /\ Fault
    /\ UNCHANGED <<row, registry, tunnel, thread, call, fileVars, unlucky, serviceVars,
                   router, chosen, runs, saved, puts>>

\* RoutingGateway.select: the lock is held for the exchange ...
Swap_Keeps(p) ==
    /\ At(p, "swap")
    /\ router' = IF router = NoGateway THEN page[p].gateway ELSE router
    /\ page' = [page EXCEPT ![p].at = "retire", ![p].gateway = NoGateway]
    /\ UNCHANGED <<tunnelVars, serviceVars, chosen, runs, saved, puts>>
Swap(p) ==
    /\ At(p, "swap")
    /\ router' = page[p].gateway
    /\ page' = [page EXCEPT ![p].at = "retire", ![p].gateway = router]
    /\ UNCHANGED <<tunnelVars, serviceVars, chosen, runs, saved, puts>>
\* ... and the gateway before it closed afterwards, whoever still reads from it
Retire(p) ==
    /\ At(p, "retire")
    /\ runs' = [r \in DOMAIN runs |->
                  IF runs[r].gateway.id = page[p].gateway.id /\ page[p].gateway # NoGateway
                  THEN [runs[r] EXCEPT !.gateway.closed = TRUE] ELSE runs[r]]
    /\ page' = [page EXCEPT ![p].at = "ready", ![p].gateway = NoGateway, ![p].tries = 0]
    /\ chosen' = page[p].want
    /\ UNCHANGED <<tunnelVars, serviceVars, router, saved, puts>>

\* open_tunnel, without a password first
Open(p) ==
    /\ At(p, "open")
    /\ LET d == page[p].want IN
       \/ /\ ~row[d].healthy
          /\ Turn(p, "open", "answer")
          /\ call' = [call EXCEPT ![p] = [Idle EXCEPT !.at = "failed"]]
          /\ UNCHANGED unlucky
       \/ /\ row[d].healthy /\ d \in set.local
          /\ Turn(p, "open", "select")
          /\ UNCHANGED <<call, unlucky>>
       \/ /\ row[d].healthy /\ d \notin set.local
          /\ Turn(p, "open", "answer")
          /\ Call(p, "lookup", d, row[d].port, set.stored \/ page[p].tries = 2)
    /\ UNCHANGED <<row, registry, tunnel, thread, fileVars, left, serviceVars,
                   router, chosen, runs, saved, puts>>
\* the password that opened a tunnel is stored
Opened(p) ==
    /\ Turn(p, "answer", "select") /\ In(p, "opened")
    /\ set' = [set EXCEPT !.stored = @ \/ page[p].tries = 2]
    /\ call' = [call EXCEPT ![p] = Idle]
    /\ UNCHANGED <<row, registry, tunnel, thread, fileVars, unlucky, left, service,
                   bearer, router, chosen, runs, saved, puts>>
\* the user is asked for the password once, and may decline
OpenFailed(p) ==
    /\ At(p, "answer") /\ In(p, "failed")
    /\ call' = [call EXCEPT ![p] = Idle]
    /\ \/ page[p].tries = 1 /\ page' = [page EXCEPT ![p].at = "open", ![p].tries = 2]
       \/ Turn(p, "answer", "failed")
    /\ UNCHANGED <<row, registry, tunnel, thread, fileVars, unlucky, left, serviceVars,
                   router, chosen, runs, saved, puts>>

\* close_tunnel, which no page calls
Close(c, d) ==
    /\ c \notin Pages /\ Move
    /\ Call(c, "pop", d, NoPort, FALSE)
    /\ UNCHANGED <<row, registry, tunnel, thread, fileVars, set, service, bearer, chatVars>>
Closed(c) ==
    /\ c \notin Pages /\ In(c, "closed") /\ c \in Requests
    /\ call' = [call EXCEPT ![c] = Idle]
    /\ UNCHANGED <<row, registry, tunnel, thread, fileVars, unlucky, left, serviceVars,
                   chatVars>>

PageStep(p) ==
    \/ List(p) \/ Select(p) \/ Build(p) \/ Equip(p) \/ Swap(p) \/ Retire(p)
    \/ Open(p) \/ Opened(p) \/ OpenFailed(p)

-----------------------------------------------------------------------------
(* A prompt and its generation: a stream of the page's own, or a job of    *)
(* the public queue, which one thread works off.                           *)

Pending == {r \in DOMAIN runs : ~runs[r].told}
Unread == {r \in DOMAIN runs : runs[r].page # None /\ runs[r].told}
\* jobs done for a quarter of an hour are forgotten when the next is submitted
Ask(p) ==
    /\ page[p].at \notin {"closed", "off"} /\ page[p].run = NoRun
    /\ Len(runs) < set.turns
    /\ set.mode = "public" => Cardinality(Pending) < MaxPending
    /\ page' = [page EXCEPT ![p].run = Len(runs) + 1]
    /\ \E gone \in IF set.mode = "public" THEN {{}, Unread} ELSE {{}} :
          /\ IF gone = {} THEN UNCHANGED left ELSE Fault
          /\ runs' = Append([r \in DOMAIN runs |-> IF r \in gone THEN Spent ELSE runs[r]],
                            [Spent EXCEPT !.page = p, !.at = "queued", !.told = FALSE])
    /\ Note(IF At(p, "ready") THEN {} ELSE {"early"})
    /\ UNCHANGED <<row, registry, tunnel, thread, call, fileVars, serviceVars,
                   router, chosen, saved, puts>>

Link(g) == IF g.direct THEN NoThread ELSE CHOOSE w \in Threads : Listens(w, g.port)
\* the service a gateway's request arrives at: a tunnel leads to the server alone
Behind(g) ==
    LET s == IF g.direct THEN service[g.port]
             ELSE IF InUse(g.port) THEN service[tunnel[thread[Link(g)].of].remote]
             ELSE NoService
    IN IF g.direct = (s.dep \in set.local \/ set.mode = "public") THEN s ELSE NoService
Authorized(s, g) == set.guarded => s.dep = g.dep /\ s.token = g.token
\* validate: the model and the key of the request are the service's
Validated_Not(s, g) == s # NoService
Validated(s, g) == s.dep = g.dep
Admitted(g) ==
    LET s == Behind(g)
    IN ~g.closed /\ s # NoService /\ Authorized(s, g) /\ Validated(s, g)
Up(r) ==
    LET g == runs[r].gateway IN
    /\ ~g.closed
    /\ ~g.direct => Listens(runs[r].link, g.port)
    /\ Behind(g) = runs[r].service

Run(r, record) ==
    /\ runs' = [runs EXCEPT ![r] = record]
    /\ UNCHANGED <<tunnelVars, serviceVars, router, page, chosen, saved, puts>>
RunAt(r, at) == runs[r].at = at
Error(r) == Run(r, [runs[r] EXCEPT !.at = "over", !.end = "error", !.service = NoService,
                                   !.link = NoThread])

\* the gateway selected now, not when the prompt was submitted; the prompt may exceed
\* its context window
Pick(r) ==
    /\ RunAt(r, "queued")
    /\ set.mode = "public" => \A q \in 1 .. r - 1 : runs[q].told
    /\ \/ Error(r)
       \/ router # NoGateway /\ Run(r, [runs[r] EXCEPT !.at = "picked", !.gateway = router])
Send(r) ==
    /\ RunAt(r, "picked")
    /\ LET g == runs[r].gateway IN
       IF Admitted(g)
       THEN Run(r, [runs[r] EXCEPT !.at = "reading", !.service = Behind(g), !.link = Link(g)])
       ELSE Error(r)
\* tau undoes itself only with the key the service's model was converted with
Finish(r) ==
    /\ RunAt(r, "reading") /\ Up(r)
    /\ Run(r, [runs[r] EXCEPT !.at = "over", !.service = NoService, !.link = NoThread,
            !.end = IF runs[r].service.dep = runs[r].gateway.dep THEN "words" ELSE "noise"])
\* no event tells the reader
Break_Unseen(r) ==
    /\ RunAt(r, "reading") /\ ~Up(r)
    /\ Run(r, [runs[r] EXCEPT !.at = "over", !.service = NoService, !.link = NoThread])
Break(r) == RunAt(r, "reading") /\ ~Up(r) /\ Error(r)
\* run_public_job marks the job done after its last event; a stream is over with it
Tell(r) == RunAt(r, "over") /\ ~runs[r].told /\ Run(r, [runs[r] EXCEPT !.told = TRUE])
RunStep(r) == Pick(r) \/ Send(r) \/ Finish(r) \/ Break(r) \/ Tell(r)

\* a conversation too long loses its oldest turn
Kept(list) == IF Len(list) > MaxKept THEN Tail(list) ELSE list
\* the last event of the generation. A reader of a job asks until the job is done; an error,
\* or a job that is gone, leaves no turn
Read(p) ==
    /\ page[p].run # NoRun
    /\ LET r == page[p].run
           job == runs[r]
           list == Kept(Append(page[p].list, [by |-> job.gateway.dep, text |-> job.end]))
       IN \/ /\ job.end \in {"words", "noise"} /\ job.told
             /\ page' = [page EXCEPT ![p].run = NoRun, ![p].list = list]
             /\ runs' = [runs EXCEPT ![r] = Spent]
             /\ Persist(p, list)
          \/ /\ job.end = "error" \/ job.page # p
             /\ page' = [page EXCEPT ![p].run = NoRun]
             /\ runs' = [runs EXCEPT ![r] = IF job.told THEN Spent ELSE [@ EXCEPT !.page = None]]
             /\ UNCHANGED puts
    /\ UNCHANGED <<tunnelVars, serviceVars, router, chosen, saved>>
\* deleteConversation
Forget(p) ==
    /\ page[p].run = NoRun /\ page[p].list # <<>> /\ Move
    /\ page' = [page EXCEPT ![p].list = <<>>]
    /\ Persist(p, <<>>)
    /\ UNCHANGED <<row, registry, tunnel, thread, call, fileVars, unlucky, serviceVars,
                   router, chosen, runs, saved>>

\* put_history: requests of one page may overtake each other ...
Land(i) ==
    /\ puts' = RemoveAt(puts, i)
    /\ saved' = [saved EXCEPT ![puts[i].dep] = puts[i].list]
    /\ Note(IF \E j \in 1 .. i - 1 : puts[j].dep = puts[i].dep THEN {"reordered"} ELSE {})
    /\ UNCHANGED <<row, registry, tunnel, thread, call, fileVars, left, serviceVars,
                   router, page, chosen, runs>>
\* ... and a refusal is told to nobody: a session of an earlier start, a body too large for
\* keepalive, a locked database
Drop(i) ==
    /\ Fault
    /\ puts' = RemoveAt(puts, i)
    /\ Note({"refused"})
    /\ UNCHANGED <<row, registry, tunnel, thread, call, fileVars, serviceVars,
                   router, page, chosen, runs, saved>>

-----------------------------------------------------------------------------
Serving == <<serviceVars, chatVars>>
Next ==
    \/ \E p \in Pages : Load(p) \/ PageStep(p) \/ Ask(p) \/ Read(p) \/ Forget(p)
    \/ \E c \in Requests, d \in Deployments : Close(c, d) \/ Closed(c)
    \/ \E r \in DOMAIN runs : RunStep(r)
    \/ \E i \in DOMAIN puts : Land(i) \/ Drop(i)
    \/ \E d \in Deployments : Redeploy(d) \/ Stop(d)
    \/ TunnelNext /\ UNCHANGED Serving
    \/ /\ set.mode = "command"
       /\ \E d \in Deployments :
            LET x == Min({y \in Commands : command[y].at = "new"}) \* bound: in their order
            IN {y \in Commands : command[y].at = "new"} # {}
               /\ (CommandOpen(x, d) \/ CommandClose(x, d))
       /\ UNCHANGED Serving

Spec == Init /\ [][Next]_vars
\* what threads, workers and pages do of their own accord. None of it goes on for ever, so
\* that each of them goes on while it can as long as one of them does
Progress ==
    \/ \E p \in Pages : PageStep(p) \/ Read(p)
    \/ \E c \in Requests : Closed(c)
    \/ \E r \in DOMAIN runs : RunStep(r)
    \/ /\ \/ \E c \in Callers : CallStep(c)
          \/ \E w \in Threads : ThreadStep(w)
          \/ \E k \in Commands : WorkerStep(k) \/ CommandStep(k)
       /\ UNCHANGED Serving
Fairness == WF_vars(Progress)
FairSpec == Spec /\ Fairness

-----------------------------------------------------------------------------
ChatTypeOK ==
    /\ set.stored \in BOOLEAN /\ set.repair \subseteq Deployments
    /\ \A r \in RemotePorts : service[r].dep \in Deployments \cup {None}
    /\ \A p \in Pages :
          /\ {page[p].dep, page[p].want} \subseteq Deployments \cup {None}
          /\ page[p].run \in 0 .. Len(runs) /\ page[p].tries \in 0 .. 2
    /\ chosen \in Deployments \cup {None}
    /\ \A r \in DOMAIN runs :
          /\ runs[r].at \in {"queued", "picked", "reading", "over"}
          /\ runs[r].end \in {None, "words", "noise", "error"}
    /\ \A i \in DOMAIN puts : puts[i].dep \in Deployments

\* Every answer a page keeps, or the history holds, was decoded with the key its model was
\* converted with, although ports, tunnels, rows and gateways go stale and are taken by other
\* deployments, and a service may ask for no token (serving/hf_runtime.py:117).
Readable(list) == \A turn \in Range(list) : turn.text = "words"
AnswersAreReadable ==
    /\ \A d \in Deployments : Readable(saved[d])
    /\ \A p \in Pages : Readable(page[p].list)

\* The history of a deployment holds answers of that deployment alone and, once no snapshot is
\* on its way, exactly those its page shows, whichever deployment the user selects when: unless
\* the page fell back to another deployment, a prompt was sent before the page was ready,
\* another tab was open, or of the requests whose failure nobody sees
\* (desktop/chat_api.py:126, 139) a history was not read, or a snapshot was refused, not yet
\* saved when a page loaded, or overtaken by a later one.
Doubts == {"fallback", "early", "tabs", "unloaded", "refused", "unsaved", "reordered"}
HistoryIsTrue ==
    /\ ChatTypeOK
    /\ unlucky \cap Doubts = {} =>
         /\ \A d \in Deployments : \A turn \in Range(saved[d]) : turn.by = d
         /\ \A p \in Pages :
               page[p].dep # None =>
                  /\ \A turn \in Range(page[p].list) : turn.by = page[p].dep
                  /\ puts = <<>> => saved[page[p].dep] = page[p].list

\* Whatever is lost on the way, a page ends the activation of its deployment and the prompt
\* it waits for, `tunnel open` and `tunnel close` return, and a worker process that a stop
\* file asks to end does.
AtRest ==
    /\ \A p \in Pages : Settled(p) /\ page[p].run = NoRun
    /\ \A k \in Commands : worker[k] = "loop" => ~stopFile[command[k].dep]
    /\ \A x \in Commands : command[x].at \notin {"opening", "closing"}
CallsSettle == ~AtRest ~> AtRest
=============================================================================
