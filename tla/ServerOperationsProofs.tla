----------------------- MODULE ServerOperationsProofs -----------------------
(***************************************************************************)
(* Proofs about ServerOperations, for any number of hosts, jobs, threads   *)
(* and calls: the table of operations is true, and the profile stays       *)
(* coherent however calls overlap, fail or die.                            *)
(***************************************************************************)
EXTENDS ServerOperations, FiniteSetTheorems, TLAPS

-----------------------------------------------------------------------------
(* The inductive invariant.                                                 *)

Records == [kind : {"idle", "add", "edit", "check", "install"} \cup Kinds,
            at : Places, seen : Profiles, typed : Secrets, remember : BOOLEAN,
            trust : BOOLEAN, copy : Profiles, job : Jobs \cup {None},
            op : {0} \cup OpIds, desk : BOOLEAN, alone : BOOLEAN]

\* a profile that was saved or asked for
Real == [at : Endpoints, auth : {"password", "private_key"}, ref : BOOLEAN,
         pin : [of : Endpoints \cup {None}, key : Nat]]
Writing == {"add", "edit", "check"}
Working == {"install", "verify", "look", "host", "read", "preflight", "record", "start"}

\* Where a call of a kind can be, and when it works on an operation.
Placed(c) ==
  /\ c.kind = "idle" => c.at = "end"
  /\ c.kind = "add" => c.at \in {"put", "insert"}
  /\ c.kind = "edit" => c.at \in {"vault", "write"}
  /\ c.kind = "check" => c.at \in {"connect", "pin", "pinned", "put", "ref", "saved"}
  /\ c.kind = "install" => c.at \in {"install", "verify"}
  /\ c.kind \notin Kinds => c.op = 0
  /\ c.kind \in Kinds => c.desk /\ (IF c.op = 0 THEN c.at = "lock" ELSE c.at \in Working)

\* What a call that writes was asked, and what it has found out.
Asked(c) ==
  /\ c.kind \in Writing => c.seen \in Real
  /\ c.at \in {"pinned", "saved"} => c.copy \in Real
  /\ c.kind \in {"add", "edit"} => c.seen.pin = NoPin
  /\ c.at = "put" => c.typed # None /\ c.seen.auth = "password"
  /\ c.kind = "add" /\ c.seen.ref => c.seen.auth = "password"
  /\ c.kind = "edit" => /\ c.desk
                        /\ c.typed # None => c.remember
                        /\ c.remember => c.seen.auth = "password"
  /\ c.at = "write" /\ c.seen.ref => c.remember
  /\ c.at \in {"ref", "saved"} => c.seen.auth = "password"
  /\ c.at \in {"pin", "pinned"} => c.seen.pin.of = c.seen.at

\* What a call that nobody overlapped knows of the row and the vault.
Knows(c, r, v) ==
  c.alone =>
    /\ c.kind = "add" /\ c.at = "insert" /\ c.seen.ref => v # None
    /\ c.at = "vault" /\ r # NoRow => c.seen.ref = r.ref
    /\ c.at = "write" => IF c.typed # None THEN v # None
                         ELSE c.remember /\ r # NoRow => c.seen.ref = r.ref
    /\ c.kind = "check" /\ r # NoRow => r.at = c.seen.at /\ r.auth = c.seen.auth
    /\ c.at = "pinned" /\ r # NoRow => c.copy = [r EXCEPT !.pin = c.seen.pin]
    /\ c.at = "saved" /\ r # NoRow => c.copy = [r EXCEPT !.ref = TRUE]
    /\ c.at \in {"ref", "saved"} => v # None

CallsInv ==
  \A t \in Threads : Placed(call[t]) /\ Asked(call[t]) /\ Knows(call[t], row, vault)
OneAlone == \A t, u \in Writers : t # u => ~call[t].alone

\* An edit that has removed the secret is about to remove the reference.
Dropping == \E t \in Threads : call[t].at = "write" /\ ~call[t].remember
RowInv ==
  row # NoRow =>
    /\ row \in Real
    /\ "pin" \in torn \/ row.pin = NoPin \/ row.pin.of = row.at
    /\ "ref" \in torn \/ ~row.ref \/ (row.auth = "password" /\ (vault # None \/ Dropping))

\* The operations so far are numbered from 1, and there is room for what waits.
Waiting == {t \in Threads : call[t].at = "lock"}
Used == {i \in OpIds : operation[i] # NoOp}
Numbered ==
  /\ IsFiniteSet(Waiting)
  /\ \E n \in Nat : Used = 1 .. n /\ n + Cardinality(Waiting) <= calls
OperationsInv ==
  /\ \A t \in Threads : call[t].op # 0 =>
       /\ call[t].op \in Running
       /\ operation[call[t].op].kind = call[t].kind
       /\ operation[call[t].op].job = call[t].job
       /\ call[t].at = "start" => linked
  /\ \A t, u \in Threads : t # u /\ call[t].op # 0 => call[t].op # call[u].op
  /\ \A i \in Running : \E t \in Threads : call[t].op = i
  /\ \A i, j \in Running : i < j =>
       operation[j].kind = "LOCAL_PACKAGE_DEPLOY" /\ operation[i] # operation[j]
  /\ \A i \in OpIds : operation[i].status = "COMPLETED" /\ operation[i].job # None => linked

ServerInv == TypeOK /\ CallsInv /\ OneAlone /\ RowInv /\ Numbered /\ OperationsInv

-----------------------------------------------------------------------------
(* Types.                                                                   *)

LEMMA Typing ==
  TypeOK <=> /\ row \in Profiles /\ vault \in Secrets /\ linked \in BOOLEAN
             /\ hostKey \in [Endpoints -> Nat]
             /\ call \in [Threads -> Records]
             /\ operation \in [OpIds -> {NoOp} \cup [kind : Kinds, job : Jobs \cup {None},
                                            status : {"RUNNING", "COMPLETED", "FAILED"}]]
             /\ torn \subseteq {"pin", "ref"}
             /\ calls \in 0 .. MaxCalls
BY DEF TypeOK, Records

LEMMA IdleType ==
  /\ Idle \in Records /\ NoRow \in Profiles /\ NoPin \in [of : Endpoints \cup {None}, key : Nat]
  /\ Real \subseteq Profiles
<1>1. NoPin \in [of : Endpoints \cup {None}, key : Nat]
  BY DEF NoPin, Pin
<1>2. NoRow \in Profiles
  BY <1>1 DEF NoRow, Profiles
<1>3. Idle \in Records
  BY <1>2 DEF Idle, Records, Places, Secrets
<1>4. Real \subseteq Profiles
  BY DEF Real, Profiles
<1> QED BY <1>1, <1>2, <1>3, <1>4

\* An idle thread has nothing to know.
LEMMA IdleFits ==
  /\ Placed(Idle) /\ Asked(Idle)
  /\ \A r, v : Knows(Idle, r, v)
BY DEF Idle, Placed, Asked, Knows, Kinds, Writing

\* A call that is overlapped has nothing to know, and is where it was.
Overlapped(c) == [c EXCEPT !.alone = FALSE]
LEMMA OverlappedFits ==
  ASSUME NEW c \in Records, Placed(c), Asked(c)
  PROVE  LET d == Overlapped(c)
         IN  /\ d \in Records /\ Placed(d) /\ Asked(d) /\ \A r, v : Knows(d, r, v)
             /\ ~d.alone /\ d.kind = c.kind /\ d.at = c.at /\ d.op = c.op /\ d.job = c.job
             /\ d.remember = c.remember
<1> DEFINE d == Overlapped(c)
<1>1. d \in Records
  BY DEF Records, Overlapped
<1>2. /\ d.kind = c.kind /\ d.at = c.at /\ d.seen = c.seen /\ d.typed = c.typed
      /\ d.remember = c.remember /\ d.copy = c.copy /\ d.op = c.op /\ d.desk = c.desk
      /\ ~d.alone /\ d.job = c.job
  BY DEF Records, Overlapped
<1> HIDE DEF d
<1>3. Placed(d)
  BY <1>2 DEF Placed
<1>4. Asked(d)
  BY <1>2 DEF Asked
<1>5. \A r, v : Knows(d, r, v)
  BY <1>2 DEF Knows
<1> QED BY <1>1, <1>2, <1>3, <1>4, <1>5 DEF d

\* Nor has a call that does not write.
LEMMA ReaderKnows ==
  ASSUME NEW c, Placed(c), c.kind \notin Writing, c.kind \in {"idle", "install"} \cup Kinds
  PROVE  \A r, v : Knows(c, r, v)
BY DEF Placed, Knows, Kinds, Writing, Working

LEMMA WritersAre == Writers = {t \in Threads : call[t].kind \in Writing}
BY DEF Writers, Writing

\* While one call writes, what it changes is not what another relies on.
LEMMA OthersKnow ==
  ASSUME TypeOK, CallsInv, OneAlone, NEW t \in Writers, NEW u \in Threads, u # t
  PROVE  \A r, v : Knows(call[u], r, v)
<1>1. call[u] \in Records
  BY Typing
<1>2. CASE u \in Writers
  BY <1>2 DEF OneAlone, Knows
<1>3. CASE u \notin Writers
  <2>1. call[u].kind \notin Writing /\ call[u].kind \in {"idle", "install"} \cup Kinds
    BY <1>1, <1>3, WritersAre DEF Records, Writing
  <2> QED BY <2>1, ReaderKnows DEF CallsInv
<1> QED BY <1>2, <1>3

-----------------------------------------------------------------------------
(* The steps every action is made of.                                       *)

\* A call moves on, or ends without an operation: the operations are as they were.
LEMMA MoveRest ==
  ASSUME ServerInv, NEW t \in Threads, NEW c \in Records,
         call' = [call EXCEPT ![t] = c], call[t].at # "lock", c.at # "lock",
         c.op = call[t].op,
         c.op # 0 => c.kind = call[t].kind /\ c.job = call[t].job,
         (c.kind = call[t].kind /\ c.alone = call[t].alone) \/ c.kind = "idle",
         c.op # 0 /\ c.at = "start" => linked', linked => linked',
         operation' = operation, calls' = calls
  PROVE  OneAlone' /\ Numbered' /\ OperationsInv'
<1>0. call \in [Threads -> Records]
  BY Typing DEF ServerInv
<1>1. call'[t] = c /\ \A u \in Threads : u # t => call'[u] = call[u]
  BY <1>0
<1>2. OneAlone'
  BY <1>1 DEF ServerInv, OneAlone, Writers
<1>3. Waiting' = Waiting
  BY <1>1 DEF Waiting
<1>4. Numbered'
  BY <1>3 DEF ServerInv, Numbered, Used
<1>5. OperationsInv'
  <2>1. \A u \in Threads : call'[u].op = call[u].op
    BY <1>1
  <2>2. Running' = Running
    BY DEF Running
  <2>3. \A u \in Threads : call'[u].op # 0 =>
          /\ call'[u].kind = call[u].kind /\ call'[u].job = call[u].job
          /\ call'[u].at = "start" => linked'
    BY <1>1 DEF ServerInv, OperationsInv
  <2> QED BY <2>1, <2>2, <2>3 DEF ServerInv, OperationsInv
<1> QED BY <1>2, <1>4, <1>5

\* It changes nothing but itself.
LEMMA MoveInv ==
  ASSUME ServerInv, NEW t \in Threads, NEW c \in Records,
         call' = [call EXCEPT ![t] = c], call[t].at \notin {"lock", "write"},
         c.at \notin {"lock", "write"}, c.op = call[t].op,
         c.op # 0 => c.kind = call[t].kind /\ c.job = call[t].job,
         (c.kind = call[t].kind /\ c.alone = call[t].alone) \/ c.kind = "idle",
         c.op # 0 /\ c.at = "start" => linked', linked => linked', linked' \in BOOLEAN,
         Placed(c), Asked(c), Knows(c, row, vault),
         UNCHANGED <<row, vault, hostKey, operation, torn, calls>>
  PROVE  ServerInv'
<1>0. call \in [Threads -> Records]
  BY Typing DEF ServerInv
<1>1. call'[t] = c /\ \A u \in Threads : u # t => call'[u] = call[u]
  BY <1>0
<1>2. OneAlone' /\ Numbered' /\ OperationsInv'
  BY MoveRest
<1>3. CallsInv'
  BY <1>1 DEF ServerInv, CallsInv
<1>4. Dropping' <=> Dropping
  BY <1>1 DEF Dropping
<1>5. RowInv'
  BY <1>4 DEF ServerInv, RowInv
<1>6. TypeOK'
  <2>1. call' \in [Threads -> Records]
    BY <1>0
  <2> QED BY <2>1, Typing DEF ServerInv, TypeOK, Records
<1> QED BY <1>2, <1>3, <1>5, <1>6 DEF ServerInv

\* A call that writes changes the row or the vault too.
LEMMA WriteInv ==
  ASSUME ServerInv, NEW t \in Writers, NEW c \in Records,
         call' = [call EXCEPT ![t] = c], c.at # "lock", c.op = 0,
         (c.kind = call[t].kind /\ c.alone = call[t].alone) \/ c.kind = "idle",
         Placed(c), Asked(c), Knows(c, row', vault'),
         row' \in Profiles, vault' \in Secrets, torn' \subseteq {"pin", "ref"}, RowInv',
         UNCHANGED <<linked, hostKey, operation, calls>>
  PROVE  ServerInv'
<1>0. call \in [Threads -> Records] /\ t \in Threads
  BY Typing DEF ServerInv, Writers
<1>1. call'[t] = c /\ \A u \in Threads : u # t => call'[u] = call[u]
  BY <1>0
<1>2. call[t].op = 0 /\ call[t].at # "lock"
  BY <1>0 DEF ServerInv, CallsInv, Placed, Writers, Kinds
<1>3. OneAlone' /\ Numbered' /\ OperationsInv'
  BY <1>0, <1>2, MoveRest
<1>4. CallsInv'
  BY <1>1, OthersKnow DEF ServerInv, CallsInv
<1>5. TypeOK'
  <2>1. call' \in [Threads -> Records]
    BY <1>0
  <2> QED BY <2>1, Typing DEF ServerInv, TypeOK, Records
<1> QED BY <1>3, <1>4, <1>5 DEF ServerInv

-----------------------------------------------------------------------------
(* A call begins.                                                           *)

LEMMA BeginCalls ==
  ASSUME ServerInv, NEW t \in Threads, NEW r \in Records, Begin(t, r), Placed(r), Asked(r)
  PROVE  /\ call' \in [Threads -> Records] /\ call[t] = Idle
         /\ call'[t] = r \/ call'[t] = Overlapped(r)
         /\ \A u \in Threads : u # t => call'[u] = call[u] \/ call'[u] = Overlapped(call[u])
         /\ OneAlone'
<1>0. call \in [Threads -> Records] /\ call[t] = Idle /\ Idle \in Records
  BY Typing, IdleType DEF ServerInv, Begin
<1>1. t \notin Writers
  BY <1>0 DEF Writers, Idle
<1>2. \A c \in Records : /\ Overlapped(c) \in Records /\ ~Overlapped(c).alone
                         /\ Overlapped(c).kind = c.kind
  BY DEF Records, Overlapped
<1>3. CASE r.kind \notin Writing \/ Writers = {}
  <2>1. call' = [call EXCEPT ![t] = r]
    BY <1>3 DEF Begin, Writing
  <2>2. call'[t] = r /\ \A u \in Threads : u # t => call'[u] = call[u]
    BY <1>0, <2>1
  <2>3. OneAlone'
    <3>1. Writers' = {u \in Threads : call'[u].kind \in Writing}
      BY DEF Writers, Writing
    <3>2. \A u, v \in Writers' : u # v => u \in Writers /\ v \in Writers /\ u # t
      BY <1>3, <2>2, <3>1, WritersAre
    <3>3. \A u, v \in Writers' : u # v => ~call'[u].alone
      BY <2>2, <3>1, <3>2 DEF ServerInv, OneAlone
    <3> QED BY <3>3 DEF OneAlone
  <2> QED BY <1>0, <2>1, <2>2, <2>3
<1>4. CASE r.kind \in Writing /\ Writers # {}
  <2>1. call' = [u \in Threads |-> IF u = t THEN Overlapped(r)
                                   ELSE IF u \in Writers THEN Overlapped(call[u]) ELSE call[u]]
    BY <1>4 DEF Begin, Writing, Overlapped
  <2>2. /\ call'[t] = Overlapped(r)
        /\ \A u \in Threads : u # t =>
             call'[u] = IF u \in Writers THEN Overlapped(call[u]) ELSE call[u]
    BY <2>1
  <2>3. call' \in [Threads -> Records]
    BY <1>0, <1>2, <2>1
  <2>4. \A u \in Threads : call'[u].kind \in Writing => ~call'[u].alone
    <3> TAKE u \in Threads
    <3>1. CASE u = t
      BY <1>2, <2>2, <3>1
    <3>2. CASE u # t /\ u \in Writers
      BY <1>0, <1>2, <2>2, <3>2
    <3>3. CASE u # t /\ u \notin Writers
      BY <1>0, <2>2, <3>3, WritersAre
    <3> QED BY <3>1, <3>2, <3>3
  <2>5. OneAlone'
    BY <2>4 DEF OneAlone, Writers, Writing
  <2> QED BY <1>0, <2>2, <2>3, <2>5
<1> QED BY <1>3, <1>4

LEMMA BeginInv ==
  ASSUME ServerInv, NEW t \in Threads, NEW r \in Records, Begin(t, r),
         Placed(r), Asked(r), Knows(r, row, vault), r.op = 0, r.at # "write"
  PROVE  ServerInv'
<1>0. call \in [Threads -> Records] /\ MaxCalls \in Nat /\ calls \in Nat
  BY Typing, ServerAssumption DEF ServerInv
<1>1. /\ call' \in [Threads -> Records] /\ call[t] = Idle
      /\ call'[t] = r \/ call'[t] = Overlapped(r)
      /\ \A u \in Threads : u # t => call'[u] = call[u] \/ call'[u] = Overlapped(call[u])
      /\ OneAlone'
  BY BeginCalls
<1>2. /\ UNCHANGED <<row, vault, linked, hostKey, operation, torn>>
      /\ calls' = calls + 1 /\ calls < MaxCalls
  BY DEF Begin
<1>3. /\ Placed(call'[t]) /\ Asked(call'[t]) /\ Knows(call'[t], row, vault)
      /\ call'[t].at = r.at /\ call'[t].op = 0
  BY <1>1, OverlappedFits
<1>4. ASSUME NEW u \in Threads, u # t
      PROVE  /\ Placed(call'[u]) /\ Asked(call'[u]) /\ Knows(call'[u], row, vault)
             /\ call'[u].at = call[u].at /\ call'[u].op = call[u].op
             /\ call'[u].kind = call[u].kind /\ call'[u].job = call[u].job
             /\ call'[u].remember = call[u].remember
  <2>1. call[u] \in Records /\ Placed(call[u]) /\ Asked(call[u]) /\ Knows(call[u], row, vault)
    BY <1>0 DEF ServerInv, CallsInv
  <2> QED BY <1>1, <1>4, <2>1, OverlappedFits
<1>5. TypeOK'
  BY <1>0, <1>1, <1>2, Typing DEF ServerInv, TypeOK, Records
<1>6. CallsInv'
  BY <1>2, <1>3, <1>4 DEF CallsInv
<1>7. RowInv'
  <2>1. Dropping' <=> Dropping
    BY <1>1, <1>3, <1>4 DEF Dropping, Idle
  <2> QED BY <1>2, <2>1 DEF ServerInv, RowInv
<1>8. Numbered'
  <2>1. PICK n \in Nat : Used = 1 .. n /\ n + Cardinality(Waiting) <= calls
    BY DEF ServerInv, Numbered
  <2>2. IsFiniteSet(Waiting)
    BY DEF ServerInv, Numbered
  <2>3. Waiting' = Waiting \/ Waiting' = Waiting \cup {t}
    <3>1. call[t].at # "lock"
      BY <1>1 DEF Idle
    <3>2. \A u \in Threads : u # t => (call'[u].at = "lock" <=> call[u].at = "lock")
      BY <1>4
    <3> QED BY <3>1, <3>2 DEF Waiting
  <2>4. IsFiniteSet(Waiting') /\ Cardinality(Waiting') <= Cardinality(Waiting) + 1
    <3>1. Cardinality(Waiting) \in Nat
      BY <2>2, FS_CardinalityType
    <3>2. CASE Waiting' = Waiting
      BY <2>2, <3>1, <3>2
    <3>3. CASE Waiting' = Waiting \cup {t}
      <4>1. IsFiniteSet(Waiting \cup {t})
        BY <2>2, FS_AddElement
      <4>2. Cardinality(Waiting \cup {t})
              = IF t \in Waiting THEN Cardinality(Waiting) ELSE Cardinality(Waiting) + 1
        BY <2>2, FS_AddElement
      <4> QED BY <3>1, <3>3, <4>1, <4>2
    <3> QED BY <2>3, <3>2, <3>3
  <2>5. Cardinality(Waiting) \in Nat /\ Cardinality(Waiting') \in Nat
    BY <2>2, <2>4, FS_CardinalityType
  <2>6. Used' = Used
    BY <1>2 DEF Used
  <2> QED BY <1>0, <1>2, <2>1, <2>4, <2>5, <2>6 DEF Numbered
<1>9. OperationsInv'
  <2>1. Running' = Running
    BY <1>2 DEF Running
  <2>2. \A u \in Threads : /\ call'[u].op = call[u].op
                           /\ call[u].op # 0 => u # t
    BY <1>1, <1>3, <1>4 DEF Idle
  <2> QED BY <1>2, <1>4, <2>1, <2>2 DEF ServerInv, OperationsInv
<1> QED BY <1>1, <1>5, <1>6, <1>7, <1>8, <1>9 DEF ServerInv

LEMMA ProfileType ==
  ASSUME NEW e \in Endpoints, NEW a \in {"password", "private_key"}, NEW f \in BOOLEAN
  PROVE  LET p == Profile(e, a, f, NoPin)
         IN  p \in Real /\ p \in Profiles /\ p.at = e /\ p.auth = a /\ p.ref = f /\ p.pin = NoPin
<1>1. Profile(e, a, f, NoPin) \in Real
  BY IdleType DEF Profile, Real
<1> QED BY <1>1, IdleType DEF Profile

LEMMA AddRequest ==
  ASSUME ServerInv, NEW t \in Threads, Add(t)
  PROVE  ServerInv'
<1>1. PICK f \in Forms :
        /\ f.remember = (f.typed # None)
        /\ Begin(t, Filled("add", IF f.remember THEN "put" ELSE "insert", f, f.remember))
  BY DEF Add
<1> DEFINE r == Filled("add", IF f.remember THEN "put" ELSE "insert", f, f.remember)
<1>2. /\ f.at \in Endpoints /\ f.auth \in {"password", "private_key"} /\ f.typed \in Secrets
      /\ f.remember \in BOOLEAN
      /\ f.auth = "private_key" => f.typed = None /\ ~f.remember
  BY DEF Forms, Secrets
<1> DEFINE p == Profile(f.at, f.auth, FALSE, NoPin)
<1>3. p \in Real /\ p \in Profiles /\ p.auth = f.auth /\ ~p.ref /\ p.pin = NoPin
  BY <1>2, ProfileType
<1>4. /\ r.kind = "add" /\ r.at = (IF f.remember THEN "put" ELSE "insert") /\ r.typed = f.typed
      /\ r.remember = f.remember /\ r.desk = f.remember /\ r.op = 0
      /\ r.seen = p
  BY DEF Filled, Idle
<1> HIDE DEF p
<1>5. r \in Records
  <2>1. r = [Idle EXCEPT !.kind = "add", !.at = IF f.remember THEN "put" ELSE "insert",
               !.typed = f.typed, !.remember = f.remember, !.desk = f.remember, !.seen = p]
    BY DEF Filled, p
  <2> QED BY <1>2, <1>3, <2>1, IdleType DEF Records, Places
<1>6. ~r.seen.ref /\ r.seen.pin = NoPin /\ r.seen.auth = f.auth /\ r.seen \in Real
  BY <1>3, <1>4
<1> HIDE DEF r
<1>7. Placed(r)
  BY <1>4 DEF Placed, Kinds
<1>8. Asked(r)
  BY <1>1, <1>2, <1>4, <1>6 DEF Asked, Writing
<1>9. Knows(r, row, vault)
  BY <1>4, <1>6 DEF Knows
<1>10. r.at # "write"
  BY <1>4
<1> QED BY <1>1, <1>4, <1>5, <1>7, <1>8, <1>9, <1>10, BeginInv DEF r

LEMMA EditRequest ==
  ASSUME ServerInv, NEW t \in Threads, Edit(t)
  PROVE  ServerInv'
<1>1. row # NoRow
  BY DEF Edit
<1>2. PICK f \in Forms : Begin(t, [Filled("edit", "vault", f, TRUE) EXCEPT !.seen.ref = row.ref])
  BY DEF Edit
<1> DEFINE r == [Filled("edit", "vault", f, TRUE) EXCEPT !.seen.ref = row.ref]
<1>3. /\ f.at \in Endpoints /\ f.auth \in {"password", "private_key"} /\ f.typed \in Secrets
      /\ f.remember \in BOOLEAN
      /\ f.auth = "private_key" => f.typed = None /\ ~f.remember
      /\ f.typed # None => f.remember
  BY DEF Forms, Secrets
<1>4. row.ref \in BOOLEAN
  BY <1>1 DEF ServerInv, RowInv, Real
<1> DEFINE p == Profile(f.at, f.auth, row.ref, NoPin)
<1>5. p \in Real /\ p \in Profiles /\ p.auth = f.auth /\ p.ref = row.ref /\ p.pin = NoPin
  BY <1>3, <1>4, ProfileType
<1>6. r = [Idle EXCEPT !.kind = "edit", !.at = "vault", !.typed = f.typed,
             !.remember = f.remember, !.desk = TRUE, !.seen = p]
  <2> DEFINE q == Profile(f.at, f.auth, FALSE, NoPin)
             g == [Idle EXCEPT !.kind = "edit", !.at = "vault", !.typed = f.typed,
                     !.remember = f.remember, !.desk = TRUE, !.seen = q]
  <2>1. p = [q EXCEPT !.ref = row.ref]
    BY DEF Profile
  <2>2. Filled("edit", "vault", f, TRUE) = g
    BY DEF Filled
  <2>3. g.seen = q
    BY DEF Idle
  <2>4. r = [g EXCEPT !.seen = p]
    <3> HIDE DEF p, q, g
    <3> QED BY <2>1, <2>2, <2>3
  <2> HIDE DEF p, q
  <2> QED BY <2>4 DEF Idle
<1>7. /\ r.kind = "edit" /\ r.at = "vault" /\ r.typed = f.typed
      /\ r.remember = f.remember /\ r.desk = TRUE /\ r.op = 0 /\ r.seen = p
  BY <1>6, IdleType DEF Records, Idle
<1> HIDE DEF p
<1>8. r \in Records
  BY <1>3, <1>5, <1>6, IdleType DEF Records, Places
<1> HIDE DEF r
<1>9. Placed(r)
  BY <1>7 DEF Placed, Kinds
<1>10. Asked(r)
  BY <1>3, <1>5, <1>7 DEF Asked, Writing
<1>11. Knows(r, row, vault)
  BY <1>5, <1>7 DEF Knows
<1> QED BY <1>2, <1>7, <1>8, <1>9, <1>10, <1>11, BeginInv DEF r

\* What a request reads of the row.
LEMMA RowSeen ==
  ASSUME ServerInv, row # NoRow
  PROVE  row \in Real /\ row \in Profiles /\ Typed(row) \subseteq Secrets
BY IdleType DEF ServerInv, RowInv, Typed, Real, Secrets

LEMMA CheckRequest ==
  ASSUME ServerInv, NEW t \in Threads, Check(t)
  PROVE  ServerInv'
<1>1. row # NoRow
  BY DEF Check
<1>2. PICK typed \in Typed(row), trust \in BOOLEAN, desk \in BOOLEAN :
        Begin(t, [Idle EXCEPT !.kind = "check", !.at = "connect", !.seen = row, !.typed = typed,
                              !.trust = trust, !.desk = desk])
  BY DEF Check
<1> DEFINE r == [Idle EXCEPT !.kind = "check", !.at = "connect", !.seen = row, !.typed = typed,
                             !.trust = trust, !.desk = desk]
<1>3. row \in Real /\ row \in Profiles /\ typed \in Secrets
  BY <1>1, RowSeen
<1>4. /\ r.kind = "check" /\ r.at = "connect" /\ r.seen = row /\ r.op = 0
      /\ r.typed = typed /\ r.desk = desk
  BY DEF Idle
<1>5. r \in Records
  BY <1>3, IdleType DEF Records, Places
<1> HIDE DEF r
<1>6. Placed(r) /\ Asked(r) /\ Knows(r, row, vault)
  BY <1>3, <1>4 DEF Placed, Asked, Knows, Kinds, Writing
<1> QED BY <1>2, <1>4, <1>5, <1>6, BeginInv DEF r

LEMMA OperationRequest ==
  ASSUME ServerInv, NEW t \in Threads, Bootstrap(t) \/ DeployPackage(t) \/ CommandBootstrap(t)
  PROVE  ServerInv'
<1>1. row # NoRow
  BY DEF Bootstrap, DeployPackage, CommandBootstrap
<1>2. row \in Real /\ row \in Profiles /\ Typed(row) \subseteq Secrets
  BY <1>1, RowSeen
<1>3. PICK r \in Records : /\ Begin(t, r) /\ r.op = 0
                           /\ \/ r.kind \in Kinds /\ r.at = "lock" /\ r.desk
                              \/ r.kind = "install" /\ r.at = "install"
  <2>1. CASE Bootstrap(t)
    <3>1. PICK typed \in Typed(row), job \in Jobs \cup {None} :
            Begin(t, [Idle EXCEPT !.kind = IF job = None THEN "BOOTSTRAP"
                                           ELSE "BOOTSTRAP_AND_DEPLOY",
                             !.at = "lock", !.seen = row, !.typed = typed, !.job = job])
      BY <2>1 DEF Bootstrap
    <3> DEFINE r == [Idle EXCEPT !.kind = IF job = None THEN "BOOTSTRAP"
                                          ELSE "BOOTSTRAP_AND_DEPLOY",
                             !.at = "lock", !.seen = row, !.typed = typed, !.job = job]
    <3>2. r.op = 0 /\ r.kind \in Kinds /\ r.at = "lock" /\ r.desk
      BY DEF Idle, Kinds
    <3>3. r \in Records
      BY <1>2, IdleType DEF Records, Places, Kinds
    <3> HIDE DEF r
    <3> QED BY <3>1, <3>2, <3>3 DEF r
  <2>2. CASE DeployPackage(t)
    <3>1. PICK typed \in Typed(row), job \in Jobs :
            Begin(t, [Idle EXCEPT !.kind = "LOCAL_PACKAGE_DEPLOY", !.at = "lock", !.typed = typed,
                             !.job = job])
      BY <2>2 DEF DeployPackage
    <3> DEFINE r == [Idle EXCEPT !.kind = "LOCAL_PACKAGE_DEPLOY", !.at = "lock", !.typed = typed,
                             !.job = job]
    <3>2. r.op = 0 /\ r.kind \in Kinds /\ r.at = "lock" /\ r.desk
      BY DEF Idle, Kinds
    <3>3. r \in Records
      BY <1>2, IdleType DEF Records, Places, Kinds
    <3> HIDE DEF r
    <3> QED BY <3>1, <3>2, <3>3 DEF r
  <2>3. CASE CommandBootstrap(t)
    <3>1. PICK typed \in Typed(row) :
            Begin(t, [Idle EXCEPT !.kind = "install", !.at = "install", !.seen = row,
                             !.typed = typed, !.desk = FALSE])
      BY <2>3 DEF CommandBootstrap
    <3> DEFINE r == [Idle EXCEPT !.kind = "install", !.at = "install", !.seen = row,
                             !.typed = typed, !.desk = FALSE]
    <3>2. r.op = 0 /\ r.kind = "install" /\ r.at = "install"
      BY DEF Idle
    <3>3. r \in Records
      BY <1>2, IdleType DEF Records, Places
    <3> HIDE DEF r
    <3> QED BY <3>1, <3>2, <3>3 DEF r
  <2> QED BY <2>1, <2>2, <2>3
<1>4. Placed(r) /\ Asked(r) /\ Knows(r, row, vault) /\ r.at # "write"
  BY <1>3 DEF Placed, Asked, Knows, Kinds, Writing
<1> QED BY <1>3, <1>4, BeginInv

-----------------------------------------------------------------------------
(* The steps of calls that write.                                           *)

LEMMA WriterFacts ==
  ASSUME ServerInv, NEW t \in Threads, call[t].kind \in Writing
  PROVE  /\ t \in Writers /\ call[t] \in Records /\ call \in [Threads -> Records]
         /\ Placed(call[t]) /\ Asked(call[t]) /\ Knows(call[t], row, vault)
         /\ call[t].seen \in Real /\ call[t].op = 0 /\ call[t].typed \in Secrets
         /\ row \in Profiles /\ vault \in Secrets /\ torn \subseteq {"pin", "ref"}
<1>1. call[t] \in Records /\ call \in [Threads -> Records] /\ Placed(call[t]) /\ Asked(call[t])
  BY Typing DEF ServerInv, CallsInv
<1>2. t \in Writers /\ call[t].op = 0 /\ call[t].seen \in Real
  BY <1>1, WritersAre DEF Placed, Asked, Kinds, Writing
<1>3. call[t].typed \in Secrets
  BY <1>1 DEF Records
<1> QED BY <1>1, <1>2, <1>3, Typing DEF ServerInv, CallsInv

\* A secret is being dropped until its edit writes.
LEMMA StillDropping ==
  ASSUME ServerInv, NEW t \in Threads, NEW c \in Records, call' = [call EXCEPT ![t] = c]
  PROVE  /\ c.at = "write" /\ ~c.remember => Dropping'
         /\ call[t].at # "write" \/ call[t].remember => (Dropping => Dropping')
<1>1. call'[t] = c /\ \A u \in Threads : u # t => call'[u] = call[u]
  BY Typing DEF ServerInv
<1> QED BY <1>1 DEF Dropping

\* The row and what the vault holds of it stay coherent.
LEMMA RowKept ==
  ASSUME ServerInv, row' = row, torn \subseteq torn',
         "ref" \in torn' \/ vault' # None \/ Dropping' \/ (vault' = vault /\ (Dropping => Dropping'))
           \/ (row # NoRow => ~row.ref)
  PROVE  RowInv'
BY DEF ServerInv, RowInv

LEMMA AddPutInv ==
  ASSUME ServerInv, NEW t \in Threads, AddPut(t)
  PROVE  ServerInv'
<1> DEFINE k == call[t]
           c == [k EXCEPT !.seen.ref = TRUE, !.at = "insert"]
           q == [k.seen EXCEPT !.ref = TRUE]
<1>0. k.kind = "add" /\ k.at = "put" /\ vault' = k.typed
      /\ UNCHANGED <<row, linked, hostKey, operation, torn, calls>>
  BY DEF AddPut, At
<1>1. /\ t \in Writers /\ k \in Records /\ call \in [Threads -> Records]
      /\ Placed(k) /\ Asked(k) /\ k.seen \in Real /\ k.op = 0 /\ k.typed \in Secrets
      /\ row \in Profiles /\ torn \subseteq {"pin", "ref"}
  BY <1>0, WriterFacts DEF Writing
<1>2. vault' # None /\ k.seen.auth = "password" /\ k.seen.pin = NoPin
  BY <1>0, <1>1 DEF Asked
<1>3. q \in Real /\ q \in Profiles /\ q.auth = k.seen.auth /\ q.pin = k.seen.pin
  BY <1>1 DEF Real, Profiles
<1>4. c \in Records /\ c.kind = "add" /\ c.at = "insert" /\ c.seen = q /\ c.op = 0
      /\ c.alone = k.alone
  BY <1>0, <1>1, <1>3 DEF Records, Places
<1>5. call' = [call EXCEPT ![t] = c]
  BY <1>1 DEF AddPut, Records
<1> HIDE DEF c, q
<1>6. Placed(c) /\ Asked(c) /\ Knows(c, row', vault')
  BY <1>2, <1>3, <1>4 DEF Placed, Asked, Knows, Kinds, Writing
<1>7. RowInv'
  BY <1>0, <1>2, RowKept
<1> QED BY <1>0, <1>1, <1>4, <1>5, <1>6, <1>7, WriteInv

LEMMA AddInsertInv ==
  ASSUME ServerInv, NEW t \in Threads, AddInsert(t)
  PROVE  ServerInv'
<1> DEFINE k == call[t]
<1>0. /\ k.kind = "add" /\ k.at = "insert"
      /\ row' = (IF row = NoRow THEN k.seen ELSE row)
      /\ torn' = IF ~k.alone THEN torn \cup {"ref"} ELSE IF row = NoRow THEN {} ELSE torn
      /\ call' = [call EXCEPT ![t] = Idle]
      /\ UNCHANGED <<vault, linked, hostKey, operation, calls>>
  BY DEF AddInsert, At, End
<1>1. /\ t \in Writers /\ k \in Records /\ call \in [Threads -> Records]
      /\ Asked(k) /\ Knows(k, row, vault) /\ k.seen \in Real
      /\ row \in Profiles /\ vault \in Secrets /\ torn \subseteq {"pin", "ref"}
  BY <1>0, WriterFacts DEF Writing
<1>2. Dropping => Dropping'
  BY <1>0, StillDropping, IdleType
<1>3. CASE row # NoRow
  <2>1. row' = row /\ vault' = vault /\ torn \subseteq torn'
    BY <1>0, <1>3
  <2> QED BY <2>1, <1>0, <1>1, <1>2, RowKept, WriteInv, IdleType, IdleFits DEF Idle
<1>4. CASE row = NoRow
  <2>1. /\ k.seen.pin = NoPin
        /\ k.seen.ref => k.seen.auth = "password"
        /\ k.alone /\ k.seen.ref => vault # None
    BY <1>0, <1>1 DEF Asked, Knows
  <2>2. row' = k.seen /\ ("ref" \in torn' \/ k.alone)
    BY <1>0, <1>4
  <2>3. RowInv'
    BY <1>0, <1>1, <2>1, <2>2 DEF RowInv
  <2>4. row' \in Profiles /\ torn' \subseteq {"pin", "ref"}
    BY <1>0, <1>1, <2>2, IdleType
  <2> QED BY <1>0, <1>1, <2>3, <2>4, WriteInv, IdleType, IdleFits DEF Idle
<1> QED BY <1>3, <1>4

LEMMA EditVaultInv ==
  ASSUME ServerInv, NEW t \in Threads, EditVault(t)
  PROVE  ServerInv'
<1> DEFINE k == call[t]
           f == k.typed # None \/ (k.remember /\ k.seen.ref)
           q == [k.seen EXCEPT !.ref = f]
           c == [k EXCEPT !.seen.ref = f, !.at = "write"]
<1>0. /\ k.kind = "edit" /\ k.at = "vault"
      /\ vault' = IF k.typed # None THEN k.typed
                  ELSE IF ~k.remember /\ k.seen.ref THEN None ELSE vault
      /\ UNCHANGED <<row, linked, hostKey, operation, torn, calls>>
  BY DEF EditVault, At
<1>1. /\ t \in Writers /\ k \in Records /\ call \in [Threads -> Records]
      /\ Asked(k) /\ Knows(k, row, vault) /\ k.seen \in Real /\ k.op = 0
      /\ k.typed \in Secrets /\ vault \in Secrets /\ None \in Secrets
      /\ row \in Profiles /\ torn \subseteq {"pin", "ref"}
  BY <1>0, WriterFacts DEF Writing, Secrets
<1>2. k.remember \in BOOLEAN /\ f \in BOOLEAN
  BY <1>1 DEF Records
<1>3. q \in Real /\ q \in Profiles /\ q.auth = k.seen.auth /\ q.pin = k.seen.pin /\ q.ref = f
  BY <1>1, <1>2 DEF Real, Profiles
<1>4. /\ c \in Records /\ c.kind = "edit" /\ c.at = "write" /\ c.seen = q /\ c.op = 0
      /\ c.alone = k.alone /\ c.typed = k.typed /\ c.remember = k.remember /\ c.desk = k.desk
  BY <1>0, <1>1, <1>3 DEF Records, Places
<1>5. call' = [call EXCEPT ![t] = c]
  <2>1. f = (k.typed # None \/ (~~k.remember /\ k.seen.ref))
    BY <1>2
  <2> HIDE DEF f
  <2> QED BY <1>1, <2>1 DEF EditVault, Records
<1> HIDE DEF c, q
<1>6. Placed(c)
  BY <1>1, <1>4 DEF Placed, Asked, Kinds
<1>7. Asked(c)
  BY <1>0, <1>1, <1>2, <1>3, <1>4 DEF Asked, Writing
<1>8. Knows(c, row', vault')
  <2>1. k.typed # None => vault' # None
    BY <1>0
  <2>2. k.typed = None /\ k.remember => q.ref = k.seen.ref
    BY <1>1, <1>3 DEF Real
  <2>3. k.alone /\ row # NoRow => k.seen.ref = row.ref
    BY <1>0, <1>1 DEF Knows
  <2> HIDE DEF f
  <2> QED BY <1>0, <1>4, <2>1, <2>2, <2>3 DEF Knows
<1>9. RowInv'
  <2>1. /\ ~k.remember => Dropping'
        /\ Dropping => Dropping'
    BY <1>0, <1>4, <1>5, StillDropping
  <2> QED BY <1>0, <2>1, RowKept
<1> QED BY <1>0, <1>1, <1>4, <1>5, <1>6, <1>7, <1>8, <1>9, WriteInv

LEMMA EditWriteInv ==
  ASSUME ServerInv, NEW t \in Threads, EditWrite(t)
  PROVE  ServerInv'
<1> DEFINE k == call[t]
<1>0. /\ k.kind = "edit" /\ k.at = "write"
      /\ row' = (IF row = NoRow THEN NoRow ELSE k.seen)
      /\ torn' = IF ~k.alone THEN (torn \ {"pin"}) \cup {"ref"}
                 ELSE IF k.typed # None \/ ~k.remember THEN {} ELSE torn \ {"pin"}
      /\ call' = [call EXCEPT ![t] = Idle]
      /\ UNCHANGED <<vault, linked, hostKey, operation, calls>>
  BY DEF EditWrite, At, End, Edited
<1>1. /\ t \in Writers /\ k \in Records
      /\ Asked(k) /\ Knows(k, row, vault) /\ k.seen \in Real
      /\ row \in Profiles /\ vault \in Secrets /\ torn \subseteq {"pin", "ref"}
  BY <1>0, WriterFacts DEF Writing
<1>2. k.remember => (Dropping => Dropping')
  BY <1>0, StillDropping, IdleType
<1>3. /\ k.seen.pin = NoPin /\ (k.typed # None => k.remember)
      /\ (k.remember => k.seen.auth = "password") /\ (k.seen.ref => k.remember)
  BY <1>0, <1>1 DEF Asked
<1>4. RowInv'
  <2> SUFFICES ASSUME row # NoRow, "ref" \notin torn', k.seen.ref
               PROVE  k.seen.auth = "password" /\ (vault # None \/ Dropping')
    BY <1>0, <1>1, <1>3 DEF RowInv
  <2>1. k.alone /\ k.remember
    BY <1>0, <1>3
  <2>2. CASE k.typed # None
    BY <1>0, <1>1, <1>3, <2>1, <2>2 DEF Knows
  <2>3. CASE k.typed = None
    <3>1. "ref" \notin torn /\ row.ref
      BY <1>0, <1>1, <2>1, <2>3 DEF Knows
    <3> QED BY <1>2, <1>3, <2>1, <3>1 DEF ServerInv, RowInv
  <2> QED BY <2>2, <2>3
<1>5. row' \in Profiles /\ torn' \subseteq {"pin", "ref"}
  BY <1>0, <1>1, IdleType
<1> QED BY <1>0, <1>1, <1>4, <1>5, WriteInv, IdleType, IdleFits DEF Idle

\* A check that has no secret to save is over.
LEMMA AfterTrustFits ==
  ASSUME ServerInv, NEW t \in Threads, call[t].kind = "check",
         call[t].at \in {"connect", "pinned"}, AfterTrust(t),
         NEW r, NEW v, r # NoRow => Knows(call[t], r, v)
  PROVE  \E c \in Records :
           /\ call' = [call EXCEPT ![t] = c] /\ c.at \in {"put", "end"} /\ c.op = 0
           /\ (c.kind = call[t].kind /\ c.alone = call[t].alone) \/ c.kind = "idle"
           /\ Placed(c) /\ Asked(c) /\ Knows(c, r, v)
<1> DEFINE k == call[t]
           c == [k EXCEPT !.at = "put"]
<1>1. /\ k \in Records /\ call \in [Threads -> Records] /\ Asked(k) /\ k.op = 0
      /\ Knows(k, row, vault)
  BY WriterFacts DEF Writing
<1>2. CASE k.desk /\ k.typed # None /\ k.seen.auth = "password"
  <2>1. call' = [call EXCEPT ![t] = c]
    BY <1>1, <1>2 DEF AfterTrust, GoTo
  <2>2. /\ c \in Records /\ c.kind = "check" /\ c.at = "put" /\ c.seen = k.seen /\ c.op = 0
        /\ c.alone = k.alone /\ c.typed = k.typed
    BY <1>1 DEF Records, Places
  <2> HIDE DEF c
  <2>3. Placed(c) /\ Asked(c)
    BY <1>1, <1>2, <2>2 DEF Placed, Asked, Kinds, Writing
  <2>4. Knows(c, r, v)
    BY <1>1, <2>2 DEF Knows
  <2> QED BY <2>1, <2>2, <2>3, <2>4
<1>3. CASE ~(k.desk /\ k.typed # None /\ k.seen.auth = "password")
  <2>1. call' = [call EXCEPT ![t] = Idle]
    BY <1>3 DEF AfterTrust, End
  <2> QED BY <2>1, IdleType, IdleFits DEF Idle
<1> QED BY <1>2, <1>3

LEMMA CheckConnectInv ==
  ASSUME ServerInv, NEW t \in Threads, CheckConnect(t)
  PROVE  ServerInv'
<1> DEFINE k == call[t]
           n == Pin(k.seen.at, hostKey[k.seen.at])
           q == [k.seen EXCEPT !.pin = n]
           c == [k EXCEPT !.seen.pin = n, !.at = "pin"]
<1>0. /\ k.kind = "check" /\ k.at = "connect"
      /\ UNCHANGED <<row, vault, linked, hostKey, operation, torn, calls>>
  BY DEF CheckConnect, At, data
<1>1. /\ t \in Writers /\ k \in Records /\ call \in [Threads -> Records]
      /\ Asked(k) /\ Knows(k, row, vault) /\ k.seen \in Real /\ k.op = 0
      /\ row \in Profiles /\ vault \in Secrets /\ torn \subseteq {"pin", "ref"}
  BY <1>0, WriterFacts DEF Writing
<1>2. CASE call' = [call EXCEPT ![t] = Idle]
  BY <1>0, <1>1, <1>2, MoveInv, IdleType, IdleFits, Typing DEF Idle, ServerInv, Writers
<1>3. CASE call' = [call EXCEPT ![t] = c]
  <2>1. n \in [of : Endpoints \cup {None}, key : Nat] /\ n.of = k.seen.at
    <3>1. k.seen.at \in Endpoints
      BY <1>1 DEF Real
    <3>2. hostKey[k.seen.at] \in Nat
      BY <3>1, Typing DEF ServerInv
    <3> QED BY <3>1, <3>2 DEF Pin
  <2> HIDE DEF n
  <2>2. q \in Real /\ q \in Profiles /\ q.auth = k.seen.auth /\ q.at = k.seen.at /\ q.pin = n
    BY <1>1, <2>1 DEF Real, Profiles
  <2>3. c \in Records /\ c.kind = "check" /\ c.at = "pin" /\ c.seen = q /\ c.op = 0
        /\ c.alone = k.alone
    BY <1>0, <1>1, <2>2 DEF Records, Places
  <2> HIDE DEF c, q
  <2>4. Placed(c) /\ Asked(c)
    BY <2>1, <2>2, <2>3 DEF Placed, Asked, Kinds, Writing
  <2>5. Knows(c, row, vault)
    BY <1>0, <1>1, <2>2, <2>3 DEF Knows
  <2> QED BY <1>0, <1>1, <1>3, <2>3, <2>4, <2>5, MoveInv, Typing DEF ServerInv, Writers
<1>4. CASE AfterTrust(t)
  <2>1. PICK d \in Records :
           /\ call' = [call EXCEPT ![t] = d] /\ d.at \in {"put", "end"} /\ d.op = 0
           /\ (d.kind = k.kind /\ d.alone = k.alone) \/ d.kind = "idle"
           /\ Placed(d) /\ Asked(d) /\ Knows(d, row, vault)
    BY <1>0, <1>1, <1>4, AfterTrustFits
  <2> QED BY <1>0, <1>1, <2>1, MoveInv, Typing DEF ServerInv, Writers
<1>5. call' = [call EXCEPT ![t] = c] \/ call' = [call EXCEPT ![t] = Idle] \/ AfterTrust(t)
  <2>1. CASE End(t)
    BY <2>1 DEF End
  <2>2. CASE ~End(t) /\ ~AfterTrust(t)
    <3>1. call' = [call EXCEPT ![t].seen.pin = n, ![t].at = "pin"]
      BY <2>2 DEF CheckConnect
    <3> HIDE DEF n
    <3> QED BY <1>1, <3>1 DEF Records
  <2> QED BY <2>1, <2>2
<1> QED BY <1>2, <1>3, <1>4, <1>5

\* update_server reads the row and sets one field of the copy.
LEMMA CopyInv ==
  ASSUME ServerInv, NEW t \in Threads, call[t].kind = "check",
         NEW r, NEW at \in {"pinned", "saved"},
         call[t].at = (IF at = "pinned" THEN "pin" ELSE "ref"),
         row # NoRow => r \in Real
            /\ r = IF at = "pinned" THEN [row EXCEPT !.pin = call[t].seen.pin]
                                    ELSE [row EXCEPT !.ref = TRUE],
         Copy(t, r, at), UNCHANGED <<row, vault, linked, hostKey, operation, torn, calls>>
  PROVE  ServerInv'
<1> DEFINE k == call[t]
           c == [k EXCEPT !.copy = r, !.at = at]
<1>1. /\ k \in Records /\ call \in [Threads -> Records]
      /\ Asked(k) /\ Knows(k, row, vault) /\ k.seen \in Real /\ k.op = 0
  BY WriterFacts DEF Writing
<1>2. CASE row = NoRow
  <2>1. call' = [call EXCEPT ![t] = Idle]
    BY <1>2 DEF Copy, End
  <2> QED BY <1>1, <2>1, MoveInv, IdleType, IdleFits, Typing DEF Idle, ServerInv
<1>3. CASE row # NoRow
  <2>1. call' = [call EXCEPT ![t] = c]
    BY <1>1, <1>3 DEF Copy, Records
  <2>2. r \in Profiles /\ r \in Real
    BY <1>3, IdleType
  <2>3. c \in Records /\ c.kind = "check" /\ c.at = at /\ c.seen = k.seen /\ c.op = 0
        /\ c.alone = k.alone /\ c.copy = r
    BY <1>1, <2>2 DEF Records, Places
  <2> HIDE DEF c
  <2>4. Placed(c) /\ Asked(c)
    BY <1>1, <2>2, <2>3 DEF Placed, Asked, Kinds, Writing
  <2>5. Knows(c, row, vault)
    BY <1>1, <1>3, <2>3 DEF Knows
  <2> QED BY <1>1, <2>1, <2>3, <2>4, <2>5, MoveInv, Typing DEF ServerInv
<1> QED BY <1>2, <1>3

LEMMA CheckReadsInv ==
  ASSUME ServerInv, NEW t \in Threads, CheckReadPin(t) \/ CheckReadRef(t)
  PROVE  ServerInv'
<1>1. UNCHANGED <<row, vault, linked, hostKey, operation, torn, calls>> /\ call[t].kind = "check"
  BY DEF CheckReadPin, CheckReadRef, data
<1>2. CASE CheckReadPin(t)
  <2> DEFINE r == [row EXCEPT !.pin = call[t].seen.pin]
  <2>1. call[t].at = "pin" /\ Copy(t, r, "pinned")
    BY <1>2 DEF CheckReadPin, At
  <2>2. row # NoRow => r \in Real
    BY <1>1, WriterFacts DEF ServerInv, RowInv, Real, Writing
  <2> QED BY <1>1, <2>1, <2>2, CopyInv
<1>3. CASE CheckReadRef(t)
  <2> DEFINE r == [row EXCEPT !.ref = TRUE]
  <2>1. call[t].at = "ref" /\ Copy(t, r, "saved")
    BY <1>3 DEF CheckReadRef, At
  <2>2. row # NoRow => r \in Real
    BY DEF ServerInv, RowInv, Real
  <2> QED BY <1>1, <2>1, <2>2, CopyInv
<1> QED BY <1>2, <1>3

LEMMA CheckWritePinInv ==
  ASSUME ServerInv, NEW t \in Threads, CheckWritePin(t)
  PROVE  ServerInv'
<1> DEFINE k == call[t]
<1>0. /\ k.kind = "check" /\ k.at = "pinned"
      /\ row' = (IF row = NoRow THEN NoRow ELSE k.copy)
      /\ torn' = IF k.alone THEN torn \ {"pin"} ELSE torn \cup {"pin", "ref"}
      /\ UNCHANGED <<vault, linked, hostKey, operation, calls>>
  BY DEF CheckWritePin, At, Paste
<1>1. /\ t \in Writers /\ k \in Records /\ call \in [Threads -> Records]
      /\ Asked(k) /\ Knows(k, row, vault) /\ k.seen \in Real /\ k.op = 0
      /\ row \in Profiles /\ vault \in Secrets /\ torn \subseteq {"pin", "ref"}
  BY <1>0, WriterFacts DEF Writing
<1>2. k.copy \in Real /\ k.copy \in Profiles /\ k.seen.pin.of = k.seen.at
  BY <1>0, <1>1, IdleType DEF Asked
<1>3. k.alone /\ row # NoRow => /\ k.copy = [row EXCEPT !.pin = k.seen.pin]
                                /\ row.at = k.seen.at /\ row.auth = k.seen.auth /\ row \in Real
  BY <1>0, <1>1 DEF Knows, ServerInv, RowInv
<1>4. k.alone /\ row # NoRow =>
        /\ k.copy.pin = k.seen.pin /\ k.copy.at = row.at /\ k.copy.auth = row.auth
        /\ k.copy.ref = row.ref
  BY <1>3 DEF Real
<1>5. \E c \in Records :
        /\ call' = [call EXCEPT ![t] = c] /\ c.at \in {"put", "end"} /\ c.op = 0
        /\ (c.kind = k.kind /\ c.alone = k.alone) \/ c.kind = "idle"
        /\ Placed(c) /\ Asked(c) /\ Knows(c, row', vault)
  <2>1. CASE row = NoRow
    <3>1. call' = [call EXCEPT ![t] = Idle]
      BY <2>1 DEF CheckWritePin, End
    <3> QED BY <3>1, IdleType, IdleFits DEF Idle
  <2>2. CASE row # NoRow
    <3>1. Knows(k, row', vault)
      <4>1. k.alone => k.copy = [k.copy EXCEPT !.pin = k.seen.pin]
        BY <1>2, <1>4, <2>2 DEF Real
      <4> QED BY <1>0, <1>3, <1>4, <2>2, <4>1 DEF Knows
    <3>2. AfterTrust(t)
      BY <2>2 DEF CheckWritePin
    <3> QED BY <1>0, <3>1, <3>2, AfterTrustFits
  <2> QED BY <2>1, <2>2
<1>6. PICK c \in Records :
        /\ call' = [call EXCEPT ![t] = c] /\ c.at \in {"put", "end"} /\ c.op = 0
        /\ (c.kind = k.kind /\ c.alone = k.alone) \/ c.kind = "idle"
        /\ Placed(c) /\ Asked(c) /\ Knows(c, row', vault)
  BY <1>5
<1>7. RowInv'
  <2>1. Dropping => Dropping'
    BY <1>0, <1>6, StillDropping
  <2>2. CASE k.alone /\ row # NoRow
    BY <1>0, <1>2, <1>3, <1>4, <2>1, <2>2 DEF ServerInv, RowInv
  <2>3. CASE ~k.alone /\ row # NoRow
    BY <1>0, <1>2, <2>3 DEF RowInv
  <2>4. CASE row = NoRow
    BY <1>0, <2>4 DEF RowInv
  <2> QED BY <2>2, <2>3, <2>4
<1>8. row' \in Profiles /\ torn' \subseteq {"pin", "ref"}
  BY <1>0, <1>1, <1>2, IdleType
<1> QED BY <1>0, <1>1, <1>6, <1>7, <1>8, WriteInv

LEMMA CheckPutInv ==
  ASSUME ServerInv, NEW t \in Threads, CheckPut(t)
  PROVE  ServerInv'
<1> DEFINE k == call[t]
           c == [k EXCEPT !.at = "ref"]
<1>0. /\ k.kind = "check" /\ k.at = "put" /\ vault' = k.typed
      /\ call' = [call EXCEPT ![t].at = "ref"]
      /\ UNCHANGED <<row, linked, hostKey, operation, torn, calls>>
  BY DEF CheckPut, At, GoTo
<1>1. /\ t \in Writers /\ k \in Records /\ call \in [Threads -> Records]
      /\ Asked(k) /\ Knows(k, row, vault) /\ k.seen \in Real /\ k.op = 0
      /\ k.typed \in Secrets /\ row \in Profiles /\ torn \subseteq {"pin", "ref"}
  BY <1>0, WriterFacts DEF Writing
<1>2. vault' # None /\ k.seen.auth = "password"
  BY <1>0, <1>1 DEF Asked
<1>3. call' = [call EXCEPT ![t] = c]
  BY <1>0, <1>1 DEF Records
<1>4. c \in Records /\ c.kind = "check" /\ c.at = "ref" /\ c.seen = k.seen /\ c.op = 0
      /\ c.alone = k.alone
  BY <1>0, <1>1 DEF Records, Places
<1> HIDE DEF c
<1>5. Placed(c) /\ Asked(c)
  BY <1>1, <1>2, <1>4 DEF Placed, Asked, Kinds, Writing
<1>6. Knows(c, row', vault')
  BY <1>0, <1>1, <1>2, <1>4 DEF Knows
<1>7. RowInv'
  BY <1>0, <1>2, RowKept
<1> QED BY <1>0, <1>1, <1>3, <1>4, <1>5, <1>6, <1>7, WriteInv

LEMMA CheckWriteRefInv ==
  ASSUME ServerInv, NEW t \in Threads, CheckWriteRef(t)
  PROVE  ServerInv'
<1> DEFINE k == call[t]
<1>0. /\ k.kind = "check" /\ k.at = "saved"
      /\ row' = (IF row = NoRow THEN NoRow ELSE k.copy)
      /\ torn' = IF k.alone THEN torn \ {"ref"} ELSE torn \cup {"pin", "ref"}
      /\ call' = [call EXCEPT ![t] = Idle]
      /\ UNCHANGED <<vault, linked, hostKey, operation, calls>>
  BY DEF CheckWriteRef, At, Paste, End
<1>1. /\ t \in Writers /\ k \in Records
      /\ Asked(k) /\ Knows(k, row, vault) /\ k.seen \in Real
      /\ row \in Profiles /\ vault \in Secrets /\ torn \subseteq {"pin", "ref"}
  BY <1>0, WriterFacts DEF Writing
<1>2. k.copy \in Real /\ k.copy \in Profiles /\ k.seen.auth = "password"
  BY <1>0, <1>1, IdleType DEF Asked
<1>3. k.alone /\ row # NoRow => /\ k.copy = [row EXCEPT !.ref = TRUE] /\ vault # None
                                /\ row.auth = k.seen.auth /\ row \in Real
  BY <1>0, <1>1 DEF Knows, ServerInv, RowInv
<1>4. k.alone /\ row # NoRow =>
        k.copy.pin = row.pin /\ k.copy.at = row.at /\ k.copy.auth = "password"
  BY <1>2, <1>3 DEF Real
<1>5. RowInv'
  <2>1. CASE k.alone /\ row # NoRow
    BY <1>0, <1>2, <1>3, <1>4, <2>1 DEF ServerInv, RowInv
  <2>2. CASE ~k.alone /\ row # NoRow
    BY <1>0, <1>2, <2>2 DEF RowInv
  <2>3. CASE row = NoRow
    BY <1>0, <2>3 DEF RowInv
  <2> QED BY <2>1, <2>2, <2>3
<1>6. row' \in Profiles /\ torn' \subseteq {"pin", "ref"}
  BY <1>0, <1>1, <1>2, IdleType
<1> QED BY <1>0, <1>1, <1>5, <1>6, WriteInv, IdleType, IdleFits DEF Idle

-----------------------------------------------------------------------------
(* The steps of operations.                                                 *)

\* An operation ends, with its thread.
LEMMA FinishInv ==
  ASSUME ServerInv, NEW t \in Threads, call[t].op # 0, NEW status \in {"COMPLETED", "FAILED"},
         Finish(t, status), linked' \in BOOLEAN, linked => linked',
         status = "COMPLETED" /\ call[t].job # None => linked',
         UNCHANGED <<row, vault, hostKey, torn, calls>>
  PROVE  ServerInv'
<1> DEFINE k == call[t]
           i == k.op
<1>1. /\ k \in Records /\ call \in [Threads -> Records] /\ Placed(k) /\ i \in OpIds
      /\ i \in Running /\ operation[i].kind = k.kind /\ operation[i].job = k.job
  BY Typing DEF ServerInv, CallsInv, OperationsInv, Running
<1>2. call' = [call EXCEPT ![t] = Idle] /\ operation' = [operation EXCEPT ![i].status = status]
  BY DEF Finish, End
<1>3. call'[t] = Idle /\ \A u \in Threads : u # t => call'[u] = call[u]
  BY <1>1, <1>2
<1>4. operation \in [OpIds -> {NoOp} \cup [kind : Kinds, job : Jobs \cup {None},
                                   status : {"RUNNING", "COMPLETED", "FAILED"}]]
  BY Typing DEF ServerInv
<1>5. /\ operation[i] # NoOp /\ operation[i].status = "RUNNING"
      /\ operation[i] \in [kind : Kinds, job : Jobs \cup {None},
                           status : {"RUNNING", "COMPLETED", "FAILED"}]
  BY <1>1, <1>4 DEF Running, NoOp, None
<1> DEFINE o == [operation[i] EXCEPT !.status = status]
<1>6. /\ o \in [kind : Kinds, job : Jobs \cup {None}, status : {"RUNNING", "COMPLETED", "FAILED"}]
      /\ o.status = status /\ o.job = k.job /\ o # NoOp
  BY <1>1, <1>5 DEF NoOp, None
<1> HIDE DEF o
<1>7. operation'[i] = o /\ \A j \in OpIds : j # i => operation'[j] = operation[j]
  BY <1>1, <1>2, <1>4 DEF o
<1>8. Running' = Running \ {i}
  BY <1>6, <1>7 DEF Running
<1>9. TypeOK'
  <2>1. call' \in [Threads -> Records]
    BY <1>1, <1>2, IdleType
  <2>2. operation' \in [OpIds -> {NoOp} \cup [kind : Kinds, job : Jobs \cup {None},
                                      status : {"RUNNING", "COMPLETED", "FAILED"}]]
    BY <1>2, <1>4, <1>6 DEF o
  <2> QED BY <2>1, <2>2, Typing DEF ServerInv, TypeOK, Records
<1>10. CallsInv'
  BY <1>3, IdleFits DEF ServerInv, CallsInv
<1>11. OneAlone'
  BY <1>3 DEF ServerInv, OneAlone, Writers, Idle
<1>12. k.at \notin {"write", "lock"}
  BY <1>1 DEF Placed, Kinds, Working
<1>13. RowInv'
  <2>1. Dropping' <=> Dropping
    BY <1>3, <1>12 DEF Dropping, Idle
  <2> QED BY <2>1 DEF ServerInv, RowInv
<1>14. Numbered'
  <2>1. Waiting' = Waiting
    BY <1>3, <1>12 DEF Waiting, Idle
  <2>2. Used' = Used
    BY <1>5, <1>6, <1>7 DEF Used
  <2> QED BY <2>1, <2>2 DEF ServerInv, Numbered
<1>15. OperationsInv'
  <2>1. \A u \in Threads : call'[u].op # 0 => u # t /\ call'[u].op # i
    BY <1>3 DEF ServerInv, OperationsInv, Idle
  <2>2. \A j \in OpIds : operation'[j].status = "COMPLETED" /\ operation'[j].job # None => linked'
    BY <1>6, <1>7 DEF ServerInv, OperationsInv
  <2>3. \A u \in Threads : call'[u].op # 0 =>
       /\ call'[u].op \in Running'
       /\ operation'[call'[u].op].kind = call'[u].kind
       /\ operation'[call'[u].op].job = call'[u].job
       /\ call'[u].at = "start" => linked'
    <3> TAKE u \in Threads
    <3> HAVE call'[u].op # 0
    <3>1. call'[u] = call[u] /\ call[u].op # i /\ call[u].op # 0
      BY <1>3, <2>1
    <3>2. call[u].op \in Running /\ call[u].op \in OpIds
      BY <3>1 DEF ServerInv, OperationsInv, Running
    <3>3. operation'[call[u].op] = operation[call[u].op]
      BY <1>7, <3>1, <3>2
    <3> QED BY <1>8, <3>1, <3>2, <3>3 DEF ServerInv, OperationsInv
  <2>4. \A j \in Running' : \E u \in Threads : call'[u].op = j
    BY <1>3, <1>8 DEF ServerInv, OperationsInv
  <2>5. \A j, l \in Running' : j < l =>
          operation'[l].kind = "LOCAL_PACKAGE_DEPLOY" /\ operation'[j] # operation'[l]
    <3>1. \A j \in Running' : j \in Running /\ operation'[j] = operation[j]
      BY <1>7, <1>8 DEF Running
    <3> QED BY <3>1 DEF ServerInv, OperationsInv
  <2>6. \A u, v \in Threads : u # v /\ call'[u].op # 0 => call'[u].op # call'[v].op
    BY <1>3 DEF ServerInv, OperationsInv, Idle
  <2> QED BY <2>2, <2>3, <2>4, <2>5, <2>6 DEF OperationsInv
<1> QED BY <1>9, <1>10, <1>11, <1>13, <1>14, <1>15 DEF ServerInv

\* A worker that fails ends its operation; a command just ends.
LEMMA FailInv ==
  ASSUME ServerInv, NEW t \in Threads, call[t].at \in Working, Fail(t),
         linked' \in BOOLEAN, linked => linked',
         UNCHANGED <<row, vault, hostKey, torn, calls>>
  PROVE  ServerInv'
<1>1. CASE call[t].op = 0
  BY <1>1, MoveInv, IdleType, IdleFits DEF Fail, End, Idle, Working
<1>2. CASE call[t].op # 0
  BY <1>2, FinishInv DEF Fail
<1> QED BY <1>1, <1>2

\* A worker goes on.
LEMMA WorkerFacts ==
  ASSUME ServerInv, NEW t \in Threads, call[t].at \in Working
  PROVE  /\ call[t] \in Records /\ call \in [Threads -> Records]
         /\ call[t].kind = "install" \/ call[t].kind \in Kinds
         /\ call[t].kind = "install" => call[t].op = 0 /\ call[t].at \in {"install", "verify"}
         /\ call[t].kind \in Kinds => call[t].op # 0 /\ call[t].desk
         /\ linked \in BOOLEAN
<1>1. call[t] \in Records /\ call \in [Threads -> Records] /\ Placed(call[t]) /\ linked \in BOOLEAN
  BY Typing DEF ServerInv, CallsInv
<1> QED BY <1>1 DEF Placed, Records, Working, Kinds

LEMMA WorkInv ==
  ASSUME ServerInv, NEW t \in Threads, NEW c \in Records, call[t].at \in Working,
         call' = [call EXCEPT ![t] = c], c.kind = call[t].kind, c.job = call[t].job,
         c.op = call[t].op, c.desk = call[t].desk, c.alone = call[t].alone,
         IF c.kind = "install" THEN c.at = "verify" ELSE c.at \in Working,
         linked' \in BOOLEAN, linked => linked', c.at = "start" => linked',
         UNCHANGED <<row, vault, hostKey, operation, torn, calls>>
  PROVE  ServerInv'
<1>1. /\ call[t].kind = "install" \/ call[t].kind \in Kinds
      /\ call[t].kind = "install" => call[t].op = 0
      /\ call[t].kind \in Kinds => call[t].op # 0 /\ call[t].desk
  BY WorkerFacts
<1>2. Placed(c) /\ Asked(c) /\ Knows(c, row, vault)
  BY <1>1 DEF Placed, Asked, Knows, Kinds, Writing, Working
<1> QED BY <1>2, MoveInv DEF Working

LEMMA GoToInv ==
  ASSUME ServerInv, NEW t \in Threads, NEW at \in Working, call[t].at \in Working,
         GoTo(t, at), call[t].kind = "install" => at = "verify",
         linked' \in BOOLEAN, linked => linked', at = "start" => linked',
         UNCHANGED <<row, vault, hostKey, operation, torn, calls>>
  PROVE  ServerInv'
<1> DEFINE c == [call[t] EXCEPT !.at = at]
<1>1. call[t] \in Records /\ call \in [Threads -> Records]
  BY WorkerFacts
<1>2. /\ c \in Records /\ c.kind = call[t].kind /\ c.job = call[t].job /\ c.op = call[t].op
      /\ c.desk = call[t].desk /\ c.alone = call[t].alone /\ c.at = at
  BY <1>1 DEF Records, Places, Working
<1>3. call' = [call EXCEPT ![t] = c]
  BY <1>1 DEF GoTo, Records
<1> HIDE DEF c
<1> QED BY <1>2, <1>3, WorkInv

LEMMA ReadServerInv ==
  ASSUME ServerInv, NEW t \in Threads, NEW from \in {"look", "read"},
         NEW to \in {"host", "preflight"}, ReadServer(t, from, to)
  PROVE  ServerInv'
<1> DEFINE c == [call[t] EXCEPT !.seen = row, !.at = to]
<1>1. call[t].at = from /\ UNCHANGED <<row, vault, linked, hostKey, torn, calls>>
      /\ call[t].at \in Working /\ linked \in BOOLEAN
  BY Typing DEF ReadServer, At, data, Working, ServerInv
<1>2. CASE row = NoRow
  BY <1>1, <1>2, FailInv DEF ReadServer
<1>3. CASE row # NoRow
  <2>1. call[t] \in Records /\ call \in [Threads -> Records] /\ call[t].kind # "install"
    BY <1>1, WorkerFacts
  <2>2. row \in Profiles
    BY Typing DEF ServerInv
  <2>3. /\ c \in Records /\ c.kind = call[t].kind /\ c.job = call[t].job /\ c.op = call[t].op
        /\ c.desk = call[t].desk /\ c.alone = call[t].alone /\ c.at = to
    BY <2>1, <2>2 DEF Records, Places
  <2>4. call' = [call EXCEPT ![t] = c] /\ operation' = operation
    BY <1>3, <2>1 DEF ReadServer, Records
  <2> HIDE DEF c
  <2> QED BY <1>1, <2>1, <2>3, <2>4, WorkInv DEF Working
<1> QED BY <1>2, <1>3

LEMMA WorkerInv ==
  ASSUME ServerInv, NEW t \in Threads,
         Install(t) \/ Verify(t) \/ Look(t) \/ Prepare(t) \/ ReadDeploy(t) \/ Preflight(t)
           \/ Record(t) \/ Start(t)
  PROVE  ServerInv'
<1>0. linked \in BOOLEAN
  BY Typing DEF ServerInv
<1>1. CASE Install(t)
  <2>1. call[t].at = "install" /\ UNCHANGED <<row, vault, linked, hostKey, torn, calls>>
    BY <1>1 DEF Install, At, data
  <2>2. CASE Fail(t)
    BY <1>0, <2>1, <2>2, FailInv DEF Working
  <2>3. CASE ~Fail(t)
    <3>1. GoTo(t, "verify") /\ operation' = operation
      BY <1>1, <2>3 DEF Install
    <3> QED BY <1>0, <2>1, <3>1, GoToInv DEF Working
  <2> QED BY <2>2, <2>3
<1>2. CASE Verify(t)
  <2>1. call[t].at = "verify" /\ UNCHANGED <<row, vault, linked, hostKey, torn, calls>>
    BY <1>2 DEF Verify, At, data
  <2>2. CASE Fail(t)
    BY <1>0, <2>1, <2>2, FailInv DEF Working
  <2>3. CASE ~Fail(t) /\ call[t].kind = "install"
    <3>1. Fail(t)
      BY <1>2, <2>1, <2>3, WorkerFacts DEF Verify, Fail, Working
    <3> QED BY <2>3, <3>1
  <2>4. CASE ~Fail(t) /\ call[t].kind # "install" /\ call[t].job = None
    <3>1. Finish(t, "COMPLETED") /\ call[t].op # 0
      BY <1>2, <2>1, <2>4, WorkerFacts DEF Verify, Working
    <3> QED BY <1>0, <2>1, <2>4, <3>1, FinishInv
  <2>5. CASE ~Fail(t) /\ call[t].kind # "install" /\ call[t].job # None
    <3>1. GoTo(t, "read") /\ operation' = operation
      BY <1>2, <2>5 DEF Verify
    <3> QED BY <1>0, <2>1, <2>5, <3>1, GoToInv DEF Working
  <2> QED BY <2>2, <2>3, <2>4, <2>5
<1>3. CASE Look(t) \/ ReadDeploy(t)
  BY <1>3, ReadServerInv DEF Look, ReadDeploy
<1>4. CASE Prepare(t)
  <2>1. call[t].at = "host" /\ UNCHANGED <<row, vault, linked, hostKey, torn, calls>>
    BY <1>4 DEF Prepare, At, data
  <2>2. CASE Fail(t)
    BY <1>0, <2>1, <2>2, FailInv DEF Working
  <2>3. CASE ~Fail(t)
    <3>1. GoTo(t, "read") /\ operation' = operation
      BY <1>4, <2>3 DEF Prepare, HostReady
    <3>2. call[t].kind # "install"
      BY <2>1, WorkerFacts DEF Working
    <3> QED BY <1>0, <2>1, <3>1, <3>2, GoToInv DEF Working
  <2> QED BY <2>2, <2>3
<1>5. CASE Preflight(t)
  <2>1. call[t].at = "preflight" /\ UNCHANGED <<row, vault, hostKey, torn, calls>>
    BY <1>5 DEF Preflight, At
  <2>2. CASE Fail(t) /\ linked' \in {linked, linked \/ call[t].kind = "BOOTSTRAP_AND_DEPLOY"}
    BY <1>0, <2>1, <2>2, FailInv DEF Working
  <2>3. CASE HostReady(t, "record") /\ linked' = linked
    <3>1. GoTo(t, "record") /\ operation' = operation
      BY <2>3 DEF HostReady
    <3>2. call[t].kind # "install"
      BY <2>1, WorkerFacts DEF Working
    <3> QED BY <1>0, <2>1, <2>3, <3>1, <3>2, GoToInv DEF Working
  <2> QED BY <1>5, <2>2, <2>3 DEF Preflight
<1>6. CASE Record(t)
  <2>1. /\ call[t].at = "record" /\ UNCHANGED <<row, vault, hostKey, operation, torn, calls>>
        /\ linked' /\ GoTo(t, "start")
    BY <1>6 DEF Record, At
  <2>2. call[t].kind # "install"
    BY <2>1, WorkerFacts DEF Working
  <2>3. linked' \in BOOLEAN
    BY <1>6 DEF Record
  <2> QED BY <2>1, <2>2, <2>3, GoToInv DEF Working
<1>7. CASE Start(t)
  <2>1. call[t].at = "start" /\ UNCHANGED <<row, vault, linked, hostKey, torn, calls>>
    BY <1>7 DEF Start, At, data
  <2>2. call[t].op # 0
    BY <2>1, WorkerFacts DEF Working
  <2>3. linked
    BY <2>1, <2>2 DEF ServerInv, OperationsInv
  <2>4. PICK status \in {"COMPLETED", "FAILED"} : Finish(t, status)
    BY <1>7 DEF Start
  <2> QED BY <1>0, <2>1, <2>2, <2>3, <2>4, FinishInv
<1> QED BY <1>1, <1>2, <1>3, <1>4, <1>5, <1>6, <1>7

\* There is room in the table for what waits to enter it, after what is in it.
LEMMA Room ==
  ASSUME ServerInv, NEW t \in Threads, call[t].at = "lock"
  PROVE  LET i == 1 + Cardinality(Used)
         IN  /\ i \in OpIds /\ Used = 1 .. i - 1
             /\ IsFiniteSet(Waiting \ {t})
             /\ i + Cardinality(Waiting \ {t}) <= calls
             /\ i - 1 + Cardinality(Waiting \ {t}) <= calls
<1>1. PICK n \in Nat : Used = 1 .. n /\ n + Cardinality(Waiting) <= calls
  BY DEF ServerInv, Numbered
<1>2. Cardinality(Used) = n
  <2>1. 1 \in Int /\ n \in Int
    BY <1>1
  <2>2. Cardinality(1 .. n) = IF 1 > n THEN 0 ELSE n - 1 + 1
    BY <2>1, FS_Interval
  <2> QED BY <1>1, <2>2
<1>3. t \in Waiting /\ IsFiniteSet(Waiting)
  BY DEF ServerInv, Numbered, Waiting
<1>4. /\ IsFiniteSet(Waiting \ {t}) /\ Cardinality(Waiting \ {t}) = Cardinality(Waiting) - 1
      /\ Cardinality(Waiting) \in Nat /\ Cardinality(Waiting \ {t}) \in Nat
  BY <1>3, FS_RemoveElement, FS_CardinalityType
<1>5. calls \in 0 .. MaxCalls /\ MaxCalls \in Nat
  BY Typing, ServerAssumption DEF ServerInv
<1> QED BY <1>1, <1>2, <1>4, <1>5 DEF OpIds

\* A request that meets a rival is answered with it, and one that meets none enters
\* the table: after the operations that were there, in a thread of its own.
LEMMA SubmitInv ==
  ASSUME ServerInv, NEW t \in Threads, Submit(t)
  PROVE  ServerInv'
<1> DEFINE k == call[t]
           i == 1 + Cardinality(Used)
           o == NewOp(k.kind, k.job)
           place == IF k.kind = "LOCAL_PACKAGE_DEPLOY" THEN "look" ELSE "install"
           c == [k EXCEPT !.op = i, !.at = place]
<1>0. /\ k.kind \in Kinds /\ k.at = "lock"
      /\ UNCHANGED <<row, vault, linked, hostKey, torn, calls>>
      /\ IF Rivals(k) # {} THEN End(t) /\ operation' = operation
         ELSE /\ operation' = [operation EXCEPT ![i] = o]
              /\ call' = [call EXCEPT ![t].op = i, ![t].at = place]
  BY DEF Submit, At, Used, data
<1>1. /\ k \in Records /\ call \in [Threads -> Records] /\ Placed(k) /\ Asked(k)
      /\ operation \in [OpIds -> {NoOp} \cup [kind : Kinds, job : Jobs \cup {None},
                                     status : {"RUNNING", "COMPLETED", "FAILED"}]]
  BY Typing DEF ServerInv, CallsInv
<1>2. k.op = 0 /\ k.desk
  BY <1>0, <1>1 DEF Placed, Working
<1>3. /\ i \in OpIds /\ Used = 1 .. i - 1
      /\ IsFiniteSet(Waiting \ {t})
      /\ i + Cardinality(Waiting \ {t}) <= calls
      /\ i - 1 + Cardinality(Waiting \ {t}) <= calls
  BY <1>0, Room
<1> HIDE DEF i
<1>4. i \in Nat \ {0} /\ operation[i] = NoOp /\ \A j \in OpIds : operation[j] # NoOp => j < i
  <2>1. i \in Nat \ {0} /\ i \notin 1 .. i - 1
    BY <1>3, ServerAssumption DEF OpIds
  <2>2. \A j \in OpIds : operation[j] # NoOp => j \in 1 .. i - 1
    BY <1>3 DEF Used
  <2> QED BY <1>3, <2>1, <2>2
<1>5. CASE Rivals(k) # {}
  <2>1. call' = [call EXCEPT ![t] = Idle] /\ operation' = operation
    BY <1>0, <1>5 DEF End
  <2>2. call'[t] = Idle /\ \A u \in Threads : u # t => call'[u] = call[u]
    BY <1>1, <2>1
  <2>3. TypeOK'
    <3>1. call' \in [Threads -> Records]
      BY <1>1, <2>1, IdleType
    <3> QED BY <1>0, <2>1, <3>1, Typing DEF ServerInv, TypeOK, Records
  <2>4. CallsInv' /\ OneAlone'
    <3>1. CallsInv'
      BY <1>0, <2>2, IdleFits DEF ServerInv, CallsInv
    <3>2. OneAlone'
      BY <2>2 DEF ServerInv, OneAlone, Writers, Idle
    <3> QED BY <3>1, <3>2
  <2>5. RowInv'
    <3>1. Dropping' <=> Dropping
      BY <1>0, <2>2 DEF Dropping, Idle
    <3> QED BY <1>0, <3>1 DEF ServerInv, RowInv
  <2>6. Numbered'
    <3>1. Waiting' = Waiting \ {t}
      BY <2>2 DEF Waiting, Idle
    <3>2. Used' = Used
      BY <2>1 DEF Used
    <3>3. i - 1 \in Nat
      BY <1>4
    <3> QED BY <1>0, <1>3, <3>1, <3>2, <3>3 DEF Numbered
  <2>7. OperationsInv'
    <3>1. \A u \in Threads : call'[u].op = call[u].op
      BY <1>2, <2>2 DEF Idle
    <3>2. \A u \in Threads : call'[u].op # 0 => call'[u] = call[u]
      BY <1>2, <2>2, <3>1
    <3>3. Running' = Running
      BY <2>1 DEF Running
    <3> QED BY <1>0, <2>1, <3>1, <3>2, <3>3 DEF ServerInv, OperationsInv
  <2> QED BY <2>3, <2>4, <2>5, <2>6, <2>7 DEF ServerInv
<1>6. CASE Rivals(k) = {}
  <2>1. operation' = [operation EXCEPT ![i] = o] /\ call' = [call EXCEPT ![t] = c]
    BY <1>0, <1>1, <1>6 DEF Records
  <2>2. /\ c \in Records /\ c.kind = k.kind /\ c.at \in {"look", "install"} /\ c.op = i
        /\ c.seen = k.seen /\ c.job = k.job /\ c.desk
    <3>1. place \in {"look", "install"}
      OBVIOUS
    <3> HIDE DEF place
    <3> QED BY <1>1, <1>2, <1>3, <3>1 DEF Records, Places
  <2>3. /\ o \in [kind : Kinds, job : Jobs \cup {None}, status : {"RUNNING", "COMPLETED", "FAILED"}]
        /\ o.kind = k.kind /\ o.job = k.job /\ o.status = "RUNNING" /\ o # NoOp
    BY <1>0, <1>1 DEF Records, NewOp, NoOp, None
  <2> HIDE DEF c, o
  <2>4. call'[t] = c /\ \A u \in Threads : u # t => call'[u] = call[u]
    BY <1>1, <2>1
  <2>5. operation'[i] = o /\ \A j \in OpIds : j # i => operation'[j] = operation[j]
    BY <1>1, <1>3, <2>1
  <2>6. c.at \in Working /\ c.at \notin {"lock", "write", "start"}
    BY <2>2 DEF Working
  <2>7. Placed(c) /\ Asked(c) /\ Knows(c, row, vault)
    BY <1>0, <1>4, <2>2, <2>6 DEF Placed, Asked, Knows, Kinds, Writing
  <2>8. TypeOK'
    <3>1. call' \in [Threads -> Records]
      BY <1>1, <2>1, <2>2
    <3>2. operation' \in [OpIds -> {NoOp} \cup [kind : Kinds, job : Jobs \cup {None},
                                     status : {"RUNNING", "COMPLETED", "FAILED"}]]
      BY <1>1, <2>1, <2>3
    <3> QED BY <1>0, <3>1, <3>2, Typing DEF ServerInv, TypeOK, Records
  <2>9. CallsInv' /\ OneAlone'
    <3>1. c.kind \notin Writing
      BY <1>0, <2>2 DEF Kinds, Writing
    <3>2. CallsInv'
      BY <1>0, <2>4, <2>7 DEF ServerInv, CallsInv
    <3>3. OneAlone'
      BY <2>4, <3>1 DEF ServerInv, OneAlone, Writers, Writing
    <3> QED BY <3>2, <3>3
  <2>10. RowInv'
    <3>1. Dropping' <=> Dropping
      BY <1>0, <2>4, <2>6 DEF Dropping
    <3> QED BY <1>0, <3>1 DEF ServerInv, RowInv
  <2>11. Numbered'
    <3>1. Waiting' = Waiting \ {t}
      BY <2>4, <2>6 DEF Waiting
    <3>2. Used' = Used \cup {i}
      BY <1>3, <2>3, <2>5 DEF Used
    <3>3. Used' = 1 .. i
      BY <1>3, <1>4, <3>2
    <3> QED BY <1>0, <1>3, <1>4, <3>1, <3>3 DEF Numbered
  <2>12. OperationsInv'
    <3>1. Running' = Running \cup {i} /\ i \notin Running
      <4>1. \A j \in OpIds : operation'[j].status = "RUNNING"
                              <=> j = i \/ operation[j].status = "RUNNING"
        BY <2>3, <2>5
      <4>2. operation[i].status # "RUNNING"
        BY <1>4 DEF NoOp, None
      <4> QED BY <1>3, <4>1, <4>2 DEF Running
    <3>2. \A j \in Running : j < i /\ operation'[j] = operation[j] /\ j \in OpIds
      BY <1>4, <2>5 DEF Running, NoOp, None
    <3>3. \A u \in Threads : u # t /\ call[u].op # 0 =>
            /\ call'[u] = call[u] /\ call[u].op \in Running /\ call[u].op # i
      BY <2>4, <3>1 DEF ServerInv, OperationsInv
    <3>4. \A u \in Threads : call'[u].op # 0 =>
       /\ call'[u].op \in Running'
       /\ operation'[call'[u].op].kind = call'[u].kind
       /\ operation'[call'[u].op].job = call'[u].job
       /\ call'[u].at = "start" => linked'
      <4> TAKE u \in Threads
      <4> HAVE call'[u].op # 0
      <4>1. CASE u = t
        BY <2>2, <2>3, <2>4, <2>5, <2>6, <3>1, <4>1
      <4>2. CASE u # t
        <5>1. call[u].op \in Running /\ call'[u] = call[u] /\ call[u].op # 0
          BY <2>4, <3>3, <4>2
        <5>2. operation'[call[u].op] = operation[call[u].op]
          BY <3>2, <5>1
        <5> QED BY <1>0, <3>1, <5>1, <5>2 DEF ServerInv, OperationsInv
      <4> QED BY <4>1, <4>2
    <3>5. \A u, v \in Threads : u # v /\ call'[u].op # 0 => call'[u].op # call'[v].op
      BY <1>4, <2>2, <2>4, <3>3 DEF ServerInv, OperationsInv
    <3>6. \A j \in Running' : \E u \in Threads : call'[u].op = j
      <4> TAKE j \in Running'
      <4>1. CASE j = i
        BY <2>2, <2>4, <4>1
      <4>2. CASE j \in Running
        <5>1. PICK u \in Threads : call[u].op = j
          BY <4>2 DEF ServerInv, OperationsInv
        <5>2. u # t
          BY <1>2, <3>2, <4>2, <5>1 DEF OpIds
        <5> QED BY <2>4, <5>1, <5>2
      <4> QED BY <3>1, <4>1, <4>2
    <3>7. \A j \in Running : k.kind = "LOCAL_PACKAGE_DEPLOY" /\ operation[j] # o
      <4>1. CASE k.kind = "LOCAL_PACKAGE_DEPLOY"
        BY <1>6, <2>3, <4>1 DEF Rivals
      <4>2. CASE k.kind # "LOCAL_PACKAGE_DEPLOY"
        BY <1>6, <4>2 DEF Rivals
      <4> QED BY <4>1, <4>2
    <3>8. \A j, l \in Running' : j < l =>
            operation'[l].kind = "LOCAL_PACKAGE_DEPLOY" /\ operation'[j] # operation'[l]
      <4> SUFFICES ASSUME NEW j \in Running', NEW l \in Running', j < l
                   PROVE  operation'[l].kind = "LOCAL_PACKAGE_DEPLOY" /\ operation'[j] # operation'[l]
        OBVIOUS
      <4>1. j \in Running /\ operation'[j] = operation[j]
        BY <1>4, <3>1, <3>2 DEF OpIds
      <4>2. CASE l = i
        BY <2>3, <2>5, <3>7, <4>1, <4>2
      <4>3. CASE l \in Running
        BY <3>2, <4>1, <4>3 DEF ServerInv, OperationsInv
      <4> QED BY <3>1, <4>2, <4>3
    <3>9. \A j \in OpIds : operation'[j].status = "COMPLETED" /\ operation'[j].job # None => linked'
      BY <1>0, <2>3, <2>5 DEF ServerInv, OperationsInv
    <3> QED BY <3>4, <3>5, <3>6, <3>8, <3>9 DEF OperationsInv
  <2> QED BY <2>8, <2>9, <2>10, <2>11, <2>12 DEF ServerInv
<1> QED BY <1>5, <1>6

-----------------------------------------------------------------------------
(* Removing the profile, and faults.                                        *)

\* A profile that is gone binds nobody.
LEMMA RemoveInv ==
  ASSUME ServerInv, NEW t \in Threads, Remove(t)
  PROVE  ServerInv'
<1>1. /\ row' = NoRow /\ calls' = calls + 1 /\ calls < MaxCalls
      /\ UNCHANGED <<vault, linked, hostKey, call, operation, torn>>
  BY DEF Remove
<1>2. calls \in Nat /\ MaxCalls \in Nat
  BY Typing, ServerAssumption DEF ServerInv
<1>3. TypeOK'
  BY <1>1, <1>2, Typing, IdleType DEF ServerInv, TypeOK, Records
<1>4. CallsInv'
  <2>1. \A u \in Threads : Knows(call[u], NoRow, vault)
    BY DEF ServerInv, CallsInv, Knows
  <2> QED BY <1>1, <2>1 DEF ServerInv, CallsInv
<1>5. OneAlone' /\ RowInv'
  BY <1>1 DEF ServerInv, OneAlone, Writers, RowInv
<1>6. Numbered'
  <2>1. Waiting' = Waiting /\ Used' = Used
    BY <1>1 DEF Waiting, Used
  <2>2. Cardinality(Waiting) \in Nat
    BY FS_CardinalityType DEF ServerInv, Numbered
  <2> QED BY <1>1, <1>2, <2>1, <2>2 DEF ServerInv, Numbered
<1>7. OperationsInv'
  BY <1>1 DEF ServerInv, OperationsInv, Running
<1> QED BY <1>3, <1>4, <1>5, <1>6, <1>7 DEF ServerInv

LEMMA RecreateInv ==
  ASSUME ServerInv, NEW e \in Endpoints, Recreate(e)
  PROVE  ServerInv'
<1>1. /\ calls' = calls + 1 /\ calls < MaxCalls /\ hostKey' = [hostKey EXCEPT ![e] = @ + 1]
      /\ UNCHANGED <<row, vault, linked, call, operation, torn>>
  BY DEF Recreate
<1>2. calls \in Nat /\ MaxCalls \in Nat
  BY Typing, ServerAssumption DEF ServerInv
<1>3. TypeOK'
  <2>1. hostKey' \in [Endpoints -> Nat]
    BY <1>1, Typing DEF ServerInv
  <2> QED BY <1>1, <1>2, <2>1, Typing DEF ServerInv, TypeOK, Records
<1>4. CallsInv' /\ OneAlone' /\ RowInv'
  BY <1>1 DEF ServerInv, CallsInv, OneAlone, Writers, RowInv, Dropping
<1>5. Numbered'
  <2>1. Waiting' = Waiting /\ Used' = Used
    BY <1>1 DEF Waiting, Used
  <2>2. Cardinality(Waiting) \in Nat
    BY FS_CardinalityType DEF ServerInv, Numbered
  <2> QED BY <1>1, <1>2, <2>1, <2>2 DEF ServerInv, Numbered
<1>6. OperationsInv'
  BY <1>1 DEF ServerInv, OperationsInv, Running
<1> QED BY <1>3, <1>4, <1>5, <1>6 DEF ServerInv

\* The program dies with its requests and its table; what was half done is torn.
LEMMA CrashInv ==
  ASSUME ServerInv, Crash
  PROVE  ServerInv'
<1>1. /\ calls' = calls + 1 /\ calls < MaxCalls
      /\ call' = [t \in Threads |-> IF call[t].desk THEN Idle ELSE call[t]]
      /\ operation' = [i \in OpIds |-> NoOp]
      /\ torn' = IF Halfway = {} THEN torn ELSE torn \cup {"ref"}
      /\ UNCHANGED <<row, vault, linked, hostKey>>
  BY DEF Crash
<1>2. calls \in Nat /\ MaxCalls \in Nat /\ call \in [Threads -> Records]
  BY Typing, ServerAssumption DEF ServerInv
<1>3. \A t \in Threads : call'[t] = IF call[t].desk THEN Idle ELSE call[t]
  BY <1>1
<1>4. TypeOK'
  <2>1. call' \in [Threads -> Records]
    BY <1>1, <1>2, IdleType
  <2>2. operation' \in [OpIds -> {NoOp} \cup [kind : Kinds, job : Jobs \cup {None},
                                     status : {"RUNNING", "COMPLETED", "FAILED"}]]
    BY <1>1
  <2>3. torn' \subseteq {"pin", "ref"}
    BY <1>1, Typing DEF ServerInv
  <2> QED BY <1>1, <1>2, <2>1, <2>2, <2>3, Typing DEF ServerInv, TypeOK, Records
<1>5. CallsInv'
  BY <1>1, <1>3, IdleFits DEF ServerInv, CallsInv
<1>6. OneAlone'
  BY <1>3 DEF ServerInv, OneAlone, Writers, Idle
<1>7. RowInv'
  <2>1. Dropping => Halfway # {}
    <3> SUFFICES ASSUME NEW t \in Threads, call[t].at = "write" PROVE t \in Halfway
      BY DEF Dropping
    <3>1. call[t] \in Records /\ Placed(call[t]) /\ Asked(call[t])
      BY <1>2 DEF ServerInv, CallsInv
    <3>2. call[t].kind = "edit"
      BY <3>1 DEF Placed, Records, Kinds, Working
    <3> QED BY <3>1, <3>2 DEF Asked, Halfway
  <2> QED BY <1>1, <2>1 DEF ServerInv, RowInv
<1>8. Numbered'
  <2>1. Waiting' \in SUBSET Waiting
    BY <1>3 DEF Waiting, Idle
  <2>2. IsFiniteSet(Waiting') /\ Cardinality(Waiting') <= Cardinality(Waiting)
    BY <2>1, FS_Subset DEF ServerInv, Numbered
  <2>3. Used' = 1 .. 0
    BY <1>1 DEF Used
  <2>4. PICK n \in Nat : n + Cardinality(Waiting) <= calls
    BY DEF ServerInv, Numbered
  <2>5. Cardinality(Waiting) \in Nat /\ Cardinality(Waiting') \in Nat
    BY <2>2, FS_CardinalityType DEF ServerInv, Numbered
  <2>6. 0 \in Nat /\ 0 + Cardinality(Waiting') <= calls'
    BY <1>1, <1>2, <2>2, <2>4, <2>5
  <2> QED BY <2>2, <2>3, <2>6 DEF Numbered
<1>9. OperationsInv'
  <2>1. Running' = {} /\ \A i \in OpIds : operation'[i] = NoOp
    BY <1>1 DEF Running, NoOp, None
  <2>2. \A t \in Threads : call'[t].op = 0
    <3> TAKE t \in Threads
    <3>1. call[t] \in Records /\ Placed(call[t])
      BY <1>2 DEF ServerInv, CallsInv
    <3> QED BY <1>3, <3>1 DEF Placed, Idle
  <2> QED BY <2>1, <2>2 DEF OperationsInv, NoOp, None
<1> QED BY <1>4, <1>5, <1>6, <1>7, <1>8, <1>9 DEF ServerInv

LEMMA StutterInv ==
  ASSUME ServerInv, UNCHANGED vars
  PROVE  ServerInv'
<1>1. UNCHANGED <<row, vault, linked, hostKey, call, operation, torn, calls>>
  BY DEF vars
<1>2. TypeOK'
  BY <1>1, Typing DEF ServerInv, TypeOK, Records
<1>3. CallsInv' /\ OneAlone' /\ RowInv'
  BY <1>1 DEF ServerInv, CallsInv, OneAlone, Writers, RowInv, Dropping
<1>4. Numbered' /\ OperationsInv'
  <2>1. Waiting' = Waiting /\ Used' = Used /\ Running' = Running
    BY <1>1 DEF Waiting, Used, Running
  <2> QED BY <1>1, <2>1 DEF ServerInv, Numbered, OperationsInv
<1> QED BY <1>2, <1>3, <1>4 DEF ServerInv

-----------------------------------------------------------------------------
\* Saved profiles are coherent, and nothing runs.
LEMMA InitInv == Init => ServerInv
<1> SUFFICES ASSUME Init PROVE ServerInv
  OBVIOUS
<1>1. /\ call = [t \in Threads |-> Idle] /\ operation = [i \in OpIds |-> NoOp] /\ torn = {}
      /\ calls = 0 /\ linked = FALSE /\ hostKey = [e \in Endpoints |-> 1]
  BY DEF Init
<1> DEFINE Coherent ==
      /\ row # NoRow =>
           /\ row \in Real
           /\ row.pin = NoPin \/ row.pin.of = row.at
           /\ row.ref => row.auth = "password" /\ vault # None
      /\ vault \in Secrets
<1>2. Coherent
  <2>1. CASE row = NoRow /\ vault = None
    BY <2>1 DEF Secrets
  <2>2. ASSUME NEW e \in Endpoints, row = Profile(e, "password", TRUE, Pin(e, 1)), vault = e
        PROVE  Coherent
    <3> DEFINE p == Pin(e, 1)
    <3>1. p \in [of : Endpoints \cup {None}, key : Nat] /\ p.of = e
      BY DEF Pin
    <3> HIDE DEF p
    <3>2. row = [at |-> e, auth |-> "password", ref |-> TRUE, pin |-> p]
      BY <2>2 DEF Profile, p
    <3>3. row.pin = p /\ row.at = e /\ row.auth = "password" /\ row \in Real
      BY <3>1, <3>2 DEF Real
    <3>4. e # None
      BY ServerAssumption DEF None
    <3> QED BY <2>2, <3>1, <3>3, <3>4 DEF Secrets
  <2>3. ASSUME NEW e \in Endpoints, row = Profile(e, "private_key", FALSE, NoPin), vault = None
        PROVE  Coherent
    BY <2>3, ProfileType DEF Secrets
  <2> QED BY <2>1, <2>2, <2>3 DEF Init
<1>3. TypeOK
  <2>1. call \in [Threads -> Records] /\ row \in Profiles
    BY <1>1, <1>2, IdleType
  <2>2. calls \in 0 .. MaxCalls
    BY <1>1, ServerAssumption
  <2>3. hostKey \in [Endpoints -> Nat] /\ linked \in BOOLEAN /\ torn \subseteq {"pin", "ref"}
    BY <1>1
  <2>4. operation \in [OpIds -> {NoOp} \cup [kind : Kinds, job : Jobs \cup {None},
                                   status : {"RUNNING", "COMPLETED", "FAILED"}]]
    BY <1>1
  <2> QED BY <1>2, <2>1, <2>2, <2>3, <2>4, Typing
<1>4. CallsInv
  BY <1>1, IdleFits DEF CallsInv
<1>5. OneAlone
  BY <1>1 DEF OneAlone, Writers, Idle
<1>6. RowInv
  BY <1>2 DEF RowInv
<1>7. Numbered
  <2>1. Waiting = {} /\ Used = 1 .. 0
    BY <1>1 DEF Waiting, Used, Idle
  <2> QED BY <1>1, <2>1, FS_EmptySet DEF Numbered
<1>8. OperationsInv
  <2>1. Running = {}
    BY <1>1 DEF Running, NoOp, None
  <2> QED BY <1>1, <2>1 DEF OperationsInv, Idle, NoOp, None
<1> QED BY <1>3, <1>4, <1>5, <1>6, <1>7, <1>8 DEF ServerInv

LEMMA NextInv == ServerInv /\ [Next]_vars => ServerInv'
<1> SUFFICES ASSUME ServerInv, [Next]_vars PROVE ServerInv'
  OBVIOUS
<1>1. ASSUME NEW t \in Threads, Request(t) PROVE ServerInv'
  BY <1>1, AddRequest, EditRequest, CheckRequest, OperationRequest, RemoveInv DEF Request
<1>2. ASSUME NEW t \in Threads, Step(t) PROVE ServerInv'
  BY <1>2, AddPutInv, AddInsertInv, EditVaultInv, EditWriteInv, CheckConnectInv, CheckReadsInv,
     CheckWritePinInv, CheckPutInv, CheckWriteRefInv, SubmitInv, WorkerInv DEF Step
<1>3. ASSUME NEW e \in Endpoints, Recreate(e) PROVE ServerInv'
  BY <1>3, RecreateInv
<1>4. CASE Crash
  BY <1>4, CrashInv
<1>5. CASE UNCHANGED vars
  BY <1>5, StutterInv
<1> QED BY <1>1, <1>2, <1>3, <1>4, <1>5 DEF Next

\* The inductive invariant.  A call that nobody overlapped knows what the row and the
\* vault hold; of two calls that write at the same time neither counts as alone, so
\* what either leaves is torn; and a running operation is the work of one thread.
THEOREM ServerInvariant == Spec => []ServerInv
  BY InitInv, NextInv, PTL DEF Spec

\* The pinned key is one of the host the row names, and the row refers to a secret
\* only if it logs in with one and the vault has it, for any number of hosts, threads
\* and calls: what add, edit and check of the server, its removal and a crash do. What
\* calls that overlapped or died left torn is exempt until a later call sets it anew.
THEOREM ProfilesAreCoherent == Spec => []ProfileIsCoherent
<1>1. ServerInv => ProfileIsCoherent
  BY DEF ServerInv, RowInv, Dropping, AtRest, ProfileIsCoherent
<1> QED BY <1>1, ServerInvariant, PTL

\* An operation is RUNNING exactly while a thread works on it, none is begun beside
\* its rivals, and one that completed a deployment left its row: the lock and the
\* table of deploy_api.py, for any number of threads and calls.
THEOREM TablesAreTrue == Spec => []TableIsTrue
<1>1. ServerInv => TableIsTrue
  <2> SUFFICES ASSUME ServerInv PROVE TableIsTrue
    OBVIOUS
  <2>1. Running = {call[t].op : t \in Threads} \ {0}
    BY DEF ServerInv, OperationsInv, Running, OpIds
  <2> QED BY <2>1 DEF ServerInv, OperationsInv, TableIsTrue
<1> QED BY <1>1, ServerInvariant, PTL
=============================================================================
