------------------------------ MODULE Tunnels ------------------------------
(***************************************************************************)
(* The SSH tunnels through which a client reaches a deployment:            *)
(* cloud/tunnel.py, its registry as the chat application uses it, and the  *)
(* worker process that `tunnel open` of product_cli.py leaves running, with *)
(* the state and stop files by which the commands know it.                 *)
(***************************************************************************)
EXTENDS Naturals, FiniteSetsExt

CONSTANTS Deployments,   \* ids of deployments, on one server
          Requests,      \* request threads of the chat application
          Commands,      \* `tunnel` commands, each with the worker it may start
          LocalPorts,    \* ports the client machine hands out to tunnels
          RemotePorts,   \* ports of the server
          MaxTunnels,    \* bound: ManagedTunnel objects in use at one time
          MaxThreads     \* bound: their threads

ASSUME TunnelAssumption ==
    /\ IsFiniteSet(Deployments)
    /\ Requests \cap Commands = {} /\ Commands \subseteq Nat  \* in the order they are given
    /\ LocalPorts \subseteq Nat \ {0} /\ RemotePorts \subseteq Nat \ {0}
    /\ MaxTunnels \in Nat /\ MaxThreads \in Nat

VARIABLES
    row,        \* per deployment: what its clients read of its row
    registry,   \* per deployment: its tunnel in the chat application
    tunnel,     \* ManagedTunnel objects
    thread,     \* their threads
    call,       \* per caller: where it is in open or close
    command,    \* per command: where it is
    worker,     \* per command: the worker process it started
    stateFile,  \* per deployment: <deployment>.json of the tunnels directory
    stopFile,   \* per deployment: whether <deployment>.stop exists
    unlucky,    \* what has happened so far, for the properties' conditions
    left        \* bound: how many faults may still happen: a session lost, a failure, an
                \* expired wait, a worker killed

fileVars == <<command, worker, stateFile, stopFile>>
tunnelVars == <<row, registry, tunnel, thread, call, fileVars, unlucky, left>>

None == "none"
Callers == Requests \cup Commands
Tunnels == 1 .. MaxTunnels
Threads == 1 .. MaxThreads
NoTunnel == 0
NoThread == 0
NoPort == 0
Unmade == [of |-> None, remote |-> NoPort, secret |-> FALSE, stop |-> FALSE, ready |-> FALSE,
           failed |-> FALSE, local |-> NoPort, thread |-> NoThread]
Ended == [of |-> NoTunnel, at |-> "none", port |-> NoPort]
Idle == [at |-> "idle", dep |-> None, port |-> NoPort, secret |-> FALSE,
         tunnel |-> NoTunnel, then |-> None]
NoFile == [by |-> None, connected |-> FALSE, port |-> NoPort, failed |-> FALSE]

TunnelInit ==
    /\ registry = [d \in Deployments |-> NoTunnel]
    /\ tunnel = [t \in Tunnels |-> Unmade]
    /\ thread = [w \in Threads |-> Ended]
    /\ call = [c \in Callers |-> Idle]
    /\ command = [x \in Commands |-> [at |-> "new", dep |-> None]]
    /\ worker = [x \in Commands |-> "none"]
    /\ stateFile = [d \in Deployments |-> NoFile]
    /\ stopFile = [d \in Deployments |-> FALSE]
    /\ unlucky = {}

Alive(w) == w # NoThread /\ thread[w] # Ended
\* ManagedTunnel.status: a session that was lost does not show in it
Connected(t) == Alive(tunnel[t].thread) /\ tunnel[t].local # NoPort /\ ~tunnel[t].failed
Listens(w, p) == thread[w].at = "forward" /\ thread[w].port = p
InUse(p) == \E w \in Threads : Listens(w, p)
Referenced(t) ==
    \/ \E d \in Deployments : registry[d] = t
    \/ \E c \in Callers : call[c].tunnel = t
    \/ \E w \in Threads : thread[w].of = t
FreeTunnels == {t \in Tunnels : ~Referenced(t)}
FreeThreads ==
    {w \in Threads : ~Alive(w) /\ \A t \in Tunnels : Referenced(t) => tunnel[t].thread # w}

Note(events) == unlucky' = unlucky \cup events
Fault == left > 0 /\ left' = left - 1
In(c, at) == call[c].at = at
Go(c, at) == call' = [call EXCEPT ![c].at = at]
Overlaps(c, d) ==
    IF \E o \in Callers \ {c} : call[o].dep = d THEN {"overlap"} ELSE {}

-----------------------------------------------------------------------------
(* TunnelRegistry and ManagedTunnel: open and close. The registry's lock is *)
(* held for its dictionary only; a tunnel's own fields have none.          *)

Made(d, port, secret) ==
    [Unmade EXCEPT !.of = d, !.remote = port, !.secret = secret]

\* a request calls open, or close
Call(c, at, d, port, secret) ==
    /\ call[c] = Idle
    /\ call' = [call EXCEPT ![c] = [Idle EXCEPT !.at = at, !.dep = d, !.port = port,
                                                !.secret = secret]]
    /\ Note(Overlaps(c, d))

\* a registered tunnel keeps the profile and the remote port it was made with
Lookup(c) ==
    /\ In(c, "lookup")
    /\ LET d == call[c].dep IN
       \/ /\ registry[d] # NoTunnel
          /\ call' = [call EXCEPT ![c].at = "check", ![c].tunnel = registry[d]]
          /\ UNCHANGED <<registry, tunnel>>
       \/ /\ registry[d] = NoTunnel /\ FreeTunnels # {}
          /\ LET t == Min(FreeTunnels) IN
             /\ tunnel' = [tunnel EXCEPT ![t] = Made(d, call[c].port, call[c].secret)]
             /\ registry' = [registry EXCEPT ![d] = t]
             /\ call' = [call EXCEPT ![c].at = "check", ![c].tunnel = t]
    /\ UNCHANGED <<row, thread, fileVars, unlucky, left>>

OpenCheck(c) ==
    /\ In(c, "check")
    /\ Go(c, IF Alive(tunnel[call[c].tunnel].thread) THEN "opened" ELSE "start")
    /\ UNCHANGED <<row, registry, tunnel, thread, fileVars, unlucky, left>>
\* a machine out of threads raises
OpenStart(c) ==
    /\ In(c, "start")
    /\ LET t == call[c].tunnel
           w == IF FreeThreads = {} THEN NoThread ELSE Min(FreeThreads)
       IN /\ tunnel' = [tunnel EXCEPT ![t].stop = FALSE, ![t].ready = FALSE,
                                      ![t].failed = FALSE, ![t].thread = w]
          /\ thread' = [v \in Threads |-> IF v = w THEN [Ended EXCEPT !.of = t, !.at = "connect"]
                                         ELSE thread[v]]
          /\ Go(c, IF w = NoThread THEN "failed" ELSE "wait")
    /\ UNCHANGED <<row, registry, fileVars, unlucky, left>>
OpenWait(c) ==
    /\ In(c, "wait") /\ tunnel[call[c].tunnel].ready
    /\ Go(c, IF tunnel[call[c].tunnel].failed THEN "failed" ELSE "opened")
    /\ UNCHANGED <<row, registry, tunnel, thread, fileVars, unlucky, left>>
\* not ready in time: open closes the tunnel, which stays in the registry
WaitExpires(c) ==
    /\ In(c, "wait") /\ ~tunnel[call[c].tunnel].ready
    /\ Fault
    /\ call' = [call EXCEPT ![c].at = "stop", ![c].then = "failed"]
    /\ UNCHANGED <<row, registry, tunnel, thread, fileVars, unlucky>>

Pop(c) ==
    /\ In(c, "pop")
    /\ LET t == registry[call[c].dep] IN
       call' = [call EXCEPT ![c].at = IF t = NoTunnel THEN "closed" ELSE "stop",
                            ![c].tunnel = t, ![c].then = "closed"]
    /\ registry' = [registry EXCEPT ![call[c].dep] = NoTunnel]
    /\ UNCHANGED <<row, tunnel, thread, fileVars, unlucky, left>>
CloseStop_Forgets(c) ==
    /\ In(c, "stop")
    /\ Go(c, "join")
    /\ tunnel' = [tunnel EXCEPT ![call[c].tunnel].thread = NoThread]
    /\ UNCHANGED <<row, registry, thread, fileVars, unlucky, left>>
CloseStop(c) ==
    /\ In(c, "stop")
    /\ Go(c, "join")
    /\ tunnel' = [tunnel EXCEPT ![call[c].tunnel].stop = TRUE]
    /\ UNCHANGED <<row, registry, thread, fileVars, unlucky, left>>
\* join returns when the thread has ended, or after ten seconds
CloseJoin(c) ==
    /\ In(c, "join")
    /\ LET t == call[c].tunnel IN
       /\ \/ ~Alive(tunnel[t].thread) /\ UNCHANGED <<unlucky, left>>
          \/ Alive(tunnel[t].thread) /\ Fault /\ Note({"late"})
       /\ tunnel' = [tunnel EXCEPT ![t].thread = NoThread, ![t].local = NoPort]
    /\ Go(c, call[c].then)
    /\ UNCHANGED <<row, registry, thread, fileVars>>

CallStep(c) ==
    \/ Lookup(c) \/ OpenCheck(c) \/ OpenStart(c) \/ OpenWait(c)
    \/ Pop(c) \/ CloseStop(c) \/ CloseJoin(c)

-----------------------------------------------------------------------------
(* The thread of a tunnel. A profile without the right secret is refused.  *)

Fail(w) ==
    /\ tunnel' = [tunnel EXCEPT ![thread[w].of].failed = TRUE, ![thread[w].of].ready = TRUE]
    /\ thread' = [thread EXCEPT ![w] = Ended]
\* the session is up, and a port is free at this moment
Connect(w) ==
    /\ thread[w].at = "connect" /\ tunnel[thread[w].of].secret
    /\ \E p \in LocalPorts :
          ~InUse(p) /\ thread' = [thread EXCEPT ![w].at = "bind", ![w].port = p]
    /\ UNCHANGED <<row, registry, tunnel, call, fileVars, unlucky, left>>
ConnectFails(w) ==
    /\ thread[w].at = "connect"
    /\ \/ ~tunnel[thread[w].of].secret /\ UNCHANGED left
       \/ (\A p \in LocalPorts : InUse(p)) /\ UNCHANGED left
       \/ Fault
    /\ Fail(w)
    /\ UNCHANGED <<row, registry, call, fileVars, unlucky>>
Listen(w) ==
    /\ thread[w].at = "bind"
    /\ IF InUse(thread[w].port)
       THEN Fail(w)
       ELSE /\ thread' = [thread EXCEPT ![w].at = "forward"]
            /\ tunnel' = [tunnel EXCEPT ![thread[w].of].local = thread[w].port,
                                        ![thread[w].of].ready = TRUE]
    /\ UNCHANGED <<row, registry, call, fileVars, unlucky, left>>
\* the session is lost and its listener with it; the loop goes on
LoseSession(w) ==
    /\ thread[w].at = "forward" /\ Fault
    /\ thread' = [thread EXCEPT ![w].at = "lost"]
    /\ UNCHANGED <<row, registry, tunnel, call, fileVars, unlucky>>
StopThread(w) ==
    /\ thread[w].at \in {"forward", "lost"} /\ tunnel[thread[w].of].stop
    /\ thread' = [thread EXCEPT ![w] = Ended]
    /\ UNCHANGED <<row, registry, tunnel, call, fileVars, unlucky, left>>

ThreadStep(w) == Connect(w) \/ ConnectFails(w) \/ Listen(w) \/ StopThread(w)

-----------------------------------------------------------------------------
(* The command line: a worker process holds the tunnel, and the commands   *)
(* know it by its files alone.                                             *)

\* _read_tunnel_state tries the port the file names
ReadConnected(d) == stateFile[d].connected /\ InUse(stateFile[d].port)
Running(k) == worker[k] \notin {"none", "ended"}
Meets(x, d) ==
    IF \E y \in Commands \ {x} :
          command[y].dep = d /\ (command[y].at \in {"opening", "closing"}
                                 \/ worker[y] \in {"start", "open", "close"})
    THEN {"overlap"} ELSE {}
Command(x, from, to, d) ==
    command[x].at = from /\ command' = [command EXCEPT ![x] = [at |-> to, dep |-> d]]

CommandOpen(x, d) ==
    /\ row[d].healthy
    /\ IF ReadConnected(d)
       THEN Command(x, "new", "ended", d) /\ UNCHANGED <<worker, unlucky>>
       ELSE /\ Command(x, "new", "opening", d)
            /\ worker' = [worker EXCEPT ![x] = "start"]
            /\ Note(Meets(x, d) \cup
                    IF \E k \in Commands : command[k].dep = d /\ Running(k)
                    THEN {"overlap"} ELSE {})
    /\ UNCHANGED <<row, registry, tunnel, thread, call, stateFile, stopFile, left>>
\* the command polls the file until it tells of a tunnel or of an error, or time is up: what
\* it prints and its exit code are all that depends on which
PollOpen(x) ==
    /\ Command(x, "opening", "ended", command[x].dep)
    /\ UNCHANGED <<row, registry, tunnel, thread, call, worker, stateFile, stopFile, unlucky,
                   left>>
CommandClose(x, d) ==
    /\ Command(x, "new", "closing", d)
    /\ stopFile' = [stopFile EXCEPT ![d] = TRUE]
    /\ Note(Meets(x, d))
    /\ UNCHANGED <<row, registry, tunnel, thread, call, worker, stateFile, left>>
PollClose(x) ==
    /\ Command(x, "closing", "ended", command[x].dep)
    /\ UNCHANGED <<row, registry, tunnel, thread, call, worker, stateFile, stopFile, unlucky,
                   left>>

Worker(k, from, to) == worker[k] = from /\ worker' = [worker EXCEPT ![k] = to]
\* a close that came before this is undone
WorkerStart(k) ==
    /\ Worker(k, "start", "open") /\ FreeTunnels # {}
    /\ LET d == command[k].dep
           t == Min(FreeTunnels)
       IN /\ stopFile' = [stopFile EXCEPT ![d] = FALSE]
          /\ tunnel' = [tunnel EXCEPT ![t] = Made(d, row[d].port, TRUE)]
          /\ call' = [call EXCEPT ![k] = [Idle EXCEPT !.at = "check", !.dep = d, !.tunnel = t]]
    /\ UNCHANGED <<row, registry, thread, command, stateFile, unlucky, left>>
WorkerOpened(k) ==
    /\ In(k, "opened") /\ Worker(k, "open", "loop")
    /\ Go(k, "held")
    /\ stateFile' = [stateFile EXCEPT ![command[k].dep] =
            [by |-> k, connected |-> Connected(call[k].tunnel),
             port |-> tunnel[call[k].tunnel].local, failed |-> FALSE]]
    /\ UNCHANGED <<row, registry, tunnel, thread, command, stopFile, unlucky, left>>
WorkerClose(k) == call' = [call EXCEPT ![k].at = "stop", ![k].then = "closed"]
WorkerFails(k) ==
    /\ \/ In(k, "failed") /\ Worker(k, "open", "close")
       \/ /\ Worker(k, "loop", "close")
          /\ ~stopFile[command[k].dep] /\ ~Connected(call[k].tunnel)
    /\ WorkerClose(k)
    /\ stateFile' = [stateFile EXCEPT ![command[k].dep] =
            [by |-> k, connected |-> FALSE, port |-> NoPort, failed |-> TRUE]]
    /\ UNCHANGED <<row, registry, tunnel, thread, command, stopFile, unlucky, left>>
WorkerStops(k) ==
    /\ Worker(k, "loop", "close") /\ stopFile[command[k].dep]
    /\ WorkerClose(k)
    /\ UNCHANGED <<row, registry, tunnel, thread, command, stateFile, stopFile, unlucky, left>>
WorkerEnds(k) ==
    /\ In(k, "closed") /\ Worker(k, "close", "ended")
    /\ call' = [call EXCEPT ![k] = Idle]
    /\ stopFile' = [stopFile EXCEPT ![command[k].dep] = FALSE]
    /\ stateFile' = [stateFile EXCEPT ![command[k].dep] =
            [@ EXCEPT !.connected = FALSE, !.port = NoPort]]
    /\ UNCHANGED <<row, registry, tunnel, thread, command, unlucky, left>>
\* the process is killed: its thread is gone, its file stays
WorkerDies(k) ==
    /\ worker[k] \in {"open", "loop"} /\ Fault
    /\ worker' = [worker EXCEPT ![k] = "ended"]
    /\ thread' = [w \in Threads |-> IF thread[w].of = call[k].tunnel THEN Ended ELSE thread[w]]
    /\ call' = [call EXCEPT ![k] = Idle]
    /\ UNCHANGED <<row, registry, tunnel, command, stateFile, stopFile, unlucky>>

WorkerStep(k) ==
    WorkerStart(k) \/ WorkerOpened(k) \/ WorkerFails(k) \/ WorkerStops(k) \/ WorkerEnds(k)
CommandStep(x) == PollOpen(x) \/ PollClose(x)

TunnelNext ==
    \/ \E c \in Callers : CallStep(c) \/ WaitExpires(c)
    \/ \E w \in Threads : ThreadStep(w) \/ LoseSession(w)
    \/ \E x \in Commands : CommandStep(x) \/ WorkerStep(x) \/ WorkerDies(x)

-----------------------------------------------------------------------------
Told(k) == stateFile[command[k].dep] = [by |-> k, connected |-> TRUE, failed |-> FALSE,
                                        port |-> tunnel[call[k].tunnel].local]

\* Whatever forwards a port can be found and closed: its thread is the one of its tunnel,
\* at the port the tunnel tells, and the tunnel is in the registry, or in the hands of a
\* request or of a worker process, whose state file tells the same once it waits for the
\* stop file. So it is unless two calls for a deployment overlapped, or a join gave up.
ForwarderIsHeld ==
    unlucky \cap {"overlap", "late"} = {} =>
        /\ \A w \in Threads :
              LET t == thread[w].of IN
              thread[w].at = "forward" /\ ~tunnel[t].stop =>
                  /\ tunnel[t].thread = w /\ tunnel[t].local = thread[w].port
                  /\ registry[tunnel[t].of] = t \/ \E c \in Callers : call[c].tunnel = t
        /\ \A k \in Commands : worker[k] = "loop" => Told(k)
=============================================================================
