----------------------------- MODULE MaskedHead -----------------------------
(***************************************************************************)
(* The choice of a token by the outsourced head:                           *)
(* secure_head/masked_outsource_engine.py, secure_head/mask_pool.py and the *)
(* local head of tee/trusted_boundary.py.  The large matrix product is done *)
(* elsewhere, on an input hidden by a mask used once; the result is checked, *)
(* gives an interval for each token's logit, and the tokens that may be the *)
(* largest are computed again exactly.                                     *)
(*                                                                         *)
(* The hidden vector has one coordinate and logits are integers: the norms *)
(* of the error bound become absolute values.                              *)
(***************************************************************************)
EXTENDS FiniteSets, Integers, Sequences, FiniteSetsExt

CONSTANTS Callers,         \* generations that run at the same time
          Vocab,           \* token ids
          HeadWeight,      \* per token: the weight of the exact head
          WeightStep,      \* per token: scale of the quantized weight
          ActivationStep,  \* scale of a quantized hidden value
          Hiddens,         \* hidden values the model's body produces
          Ring,            \* modulus of the outsourced product, 2^32 in the code
          Rhos,            \* mask values
          Checks,          \* the challenges: the tokens whose bit is 1
          MaxCandidates,
          SeedRhos,        \* the initial masks, made from fixed seeds
          MaxMasks,        \* bound: masks made
          MaxWorkerFaults, \* bound: products that raise or are wrong
          MaxRestarts      \* bound: times the process is started again

ASSUME HeadAssumption ==
    /\ IsFiniteSet(Vocab) /\ Vocab # {} /\ Vocab \subseteq Nat
    /\ HeadWeight \in [Vocab -> Int]
    /\ WeightStep \in [Vocab -> Nat \ {0}]
    /\ ActivationStep \in Nat \ {0}
    /\ Hiddens \subseteq Int
    /\ Ring \in Nat \ {0}
    /\ Rhos \subseteq 0 .. Ring - 1
    /\ Checks \subseteq SUBSET Vocab
    /\ MaxCandidates \in Nat
    /\ MaxMasks \in Nat
    /\ SeedRhos \in Seq(Rhos) /\ Len(SeedRhos) <= MaxMasks
    /\ MaxWorkerFaults \in Nat
    /\ MaxRestarts \in Nat

VARIABLES
    pool,      \* per mask: its state and value, in the order they were added
    call,      \* per caller: the decision it is in
    sent,      \* per mask: how many inputs left the boundary under it
    faults,
    missed,    \* a wrong product passed the verification
    before,    \* per mask: how many of those that left, left before the last start
    restarts

past == <<before, restarts>>
headVars == <<pool, call, sent, faults, missed, past>>

Masks == 1 .. MaxMasks
InitialMasks == 1 .. Len(SeedRhos)
NoMask == 0
MaskStates == {"AVAILABLE", "RESERVED", "CONSUMED", "BURNED"}
Unmade == [state |-> "unmade", rho |-> 0]
Gone == [state |-> "gone", rho |-> 0]
Seeded(m) == [state |-> "AVAILABLE", rho |-> SeedRhos[m]]
NoToken == -1
Zero == [t \in Vocab |-> 0]
NoCall == [at |-> "idle", hidden |-> 0, greedy |-> TRUE, mask |-> NoMask, y |-> Zero,
           token |-> NoToken]

HeadInit ==
    /\ pool = [m \in Masks |-> IF m \in InitialMasks THEN Seeded(m) ELSE Unmade]
    /\ call = [c \in Callers |-> NoCall]
    /\ sent = [m \in Masks |-> 0]
    /\ faults = 0
    /\ missed = FALSE
    /\ before = [m \in Masks |-> 0]
    /\ restarts = 0

-----------------------------------------------------------------------------
(* The arithmetic.                                                         *)

Absolute(n) == IF n < 0 THEN -n ELSE n
Quantize(n, step) == (n + step \div 2) \div step
WeightQ == [t \in Vocab |-> Quantize(HeadWeight[t], WeightStep[t])]
ActivationQ(x) == Quantize(x, ActivationStep)

Signed(n) == LET r == n % Ring IN IF 2 * r >= Ring THEN r - Ring ELSE r
\* InProcessGpuHeadWorker.compute
Product(u) == [t \in Vocab |-> (u * WeightQ[t]) % Ring]
Masked(q, rho) == (q + rho) % Ring
Recovered(y, rho) == [t \in Vocab |-> Signed(y[t] - Product(rho)[t])]

\* The operands are clamped to 127, so the product of a head with fewer than 133 143
\* hidden coordinates is in the signed range that _signed_int32 decodes.
ASSUME ProductFits ==
    \A x \in Hiddens, t \in Vocab :
        LET v == ActivationQ(x) * WeightQ[t] IN -Ring <= 2 * v /\ 2 * v < Ring

\* _verify: the sum over each challenge, in the ring
Verified(u, y) ==
    \A C \in Checks :
        MapThenSumSet(LAMBDA t : y[t], C) % Ring
            = (u * MapThenSumSet(LAMBDA t : WeightQ[t], C)) % Ring

Logit(x, t) == x * HeadWeight[t]
Approximate(z, t) == z[t] * ActivationStep * WeightStep[t]
ErrorBound_InputOnly(x, t) ==
    Absolute(x - ActivationQ(x) * ActivationStep) * Absolute(HeadWeight[t])
ErrorBound(x, t) ==
    LET r == ActivationQ(x) * ActivationStep
    IN  Absolute(x - r) * Absolute(HeadWeight[t])
            + Absolute(r) * Absolute(HeadWeight[t] - WeightQ[t] * WeightStep[t])

\* tokens whose interval reaches the largest lower end
Candidates(z, x) ==
    {t \in Vocab : \A s \in Vocab :
        Approximate(z, t) + ErrorBound(x, t) >= Approximate(z, s) - ErrorBound(x, s)}
\* the tokens argmax may return
Largest(S, x) == {t \in S : \A s \in S : Logit(x, t) >= Logit(x, s)}

-----------------------------------------------------------------------------
(* The pool.                                                               *)

\* make_mask: the mask and its correction are added together
MakeMask(m, rho) ==
    /\ pool[m] = Unmade /\ \A n \in Masks : n < m => pool[n] # Unmade
    /\ pool' = [pool EXCEPT ![m] = [state |-> "AVAILABLE", rho |-> rho]]

SetMask(m, state) == pool' = [pool EXCEPT ![m].state = state]
\* consume raises unless the mask is reserved; the caller then burns it
Consume(m) == SetMask(m, IF pool[m].state = "RESERVED" THEN "CONSUMED" ELSE "BURNED")
Burn_Returns(m) == SetMask(m, "AVAILABLE")
Burn(m) ==
    SetMask(m, IF pool[m].state \in {"CONSUMED", "BURNED"} THEN pool[m].state ELSE "BURNED")
FirstAvailable(m) ==
    /\ pool[m].state = "AVAILABLE"
    /\ \A n \in Masks : n < m => pool[n].state # "AVAILABLE"

-----------------------------------------------------------------------------
(* decide.                                                                 *)

\* LocalTeeHeadEngine: exact for temperature 0, else a sample of the distribution
LocalTokens(c) == IF call[c].greedy THEN Largest(Vocab, call[c].hidden) ELSE Vocab
Decided(c, t) == call' = [call EXCEPT ![c].at = "decided", ![c].token = t]
Fallback(c) == \E t \in LocalTokens(c) : Decided(c, t)

\* the body's result arrives
Ask(c, x, greedy) ==
    /\ call[c].at = "idle"
    /\ call' = [call EXCEPT ![c] = [NoCall EXCEPT !.at = "ask", !.hidden = x, !.greedy = greedy]]

DecideLocally_Waits(c) ==
    /\ call[c].at = "ask"
    /\ ~call[c].greedy
    /\ Fallback(c)
    /\ UNCHANGED <<pool, sent, faults, missed, past>>
\* sampling requests and an empty pool use the local head
DecideLocally(c) ==
    /\ call[c].at = "ask"
    /\ ~call[c].greedy \/ \A m \in Masks : pool[m].state # "AVAILABLE"
    /\ Fallback(c)
    /\ UNCHANGED <<pool, sent, faults, missed, past>>
Reserve(c) ==
    /\ call[c].at = "ask" /\ call[c].greedy
    /\ \E m \in Masks : /\ FirstAvailable(m)
                        /\ SetMask(m, "RESERVED")
                        /\ call' = [call EXCEPT ![c].at = "reserved", ![c].mask = m]
    /\ UNCHANGED <<sent, faults, missed, past>>

\* the masked input leaves, and a product comes back: right, or wrong in one token
Input(c) == Masked(ActivationQ(call[c].hidden), pool[call[c].mask].rho)
Send(c) ==
    /\ call[c].at = "reserved"
    /\ sent' = [sent EXCEPT ![call[c].mask] = @ + 1]
    /\ \E y \in {Product(Input(c))}
              \cup {[Product(Input(c)) EXCEPT ![t] = (@ + 1) % Ring] : t \in Vocab} :
          /\ call' = [call EXCEPT ![c].at = "computed", ![c].y = y]
          /\ faults' = IF y = Product(Input(c)) THEN faults ELSE faults + 1
    /\ faults' <= MaxWorkerFaults
    /\ UNCHANGED <<pool, missed, past>>

\* anything in between raises
DecideRaises(c) ==
    /\ call[c].at \in {"reserved", "computed"}
    /\ faults < MaxWorkerFaults
    /\ faults' = faults + 1
    /\ Burn(call[c].mask)
    /\ Fallback(c)
    /\ UNCHANGED <<sent, missed, past>>

RejectProduct(c) ==
    /\ call[c].at = "computed"
    /\ ~Verified(Input(c), call[c].y)
    /\ Burn(call[c].mask)
    /\ Fallback(c)
    /\ UNCHANGED <<sent, faults, missed, past>>

Intervals(c) ==
    Candidates(Recovered(call[c].y, pool[call[c].mask].rho), call[c].hidden)
AcceptProduct(c) ==
    /\ call[c].at = "computed"
    /\ Verified(Input(c), call[c].y)
    /\ missed' = (missed \/ call[c].y # Product(Input(c)))
    /\ Consume(call[c].mask)
    /\ LET S == Intervals(c)
       IN  IF Cardinality(S) = 0 \/ Cardinality(S) > MaxCandidates
           THEN Fallback(c)
           ELSE \E t \in Largest(S, call[c].hidden) : Decided(c, t)
    /\ UNCHANGED <<sent, faults, past>>

\* the caller takes the token
Take(c) ==
    /\ call[c].at = "decided"
    /\ call' = [call EXCEPT ![c] = NoCall]

Decide(c) ==
    \/ DecideLocally(c) \/ Reserve(c) \/ Send(c) \/ DecideRaises(c) \/ RejectProduct(c)
    \/ AcceptProduct(c)

\* The process ends wherever it is, and one is started in its place: nothing of the pool
\* is kept, and the initial masks are made again from the same seeds.
HeadRestart ==
    /\ restarts < MaxRestarts
    /\ restarts' = restarts + 1
    /\ pool' = [m \in Masks |-> IF m \in InitialMasks THEN Seeded(m)
                               ELSE IF pool[m] = Unmade THEN Unmade ELSE Gone]
    /\ call' = [c \in Callers |-> NoCall]
    /\ before' = sent
    /\ UNCHANGED <<sent, faults, missed>>

HeadNext ==
    \/ \E m \in Masks, rho \in Rhos :
          MakeMask(m, rho) /\ UNCHANGED <<call, sent, faults, missed, past>>
    \/ HeadRestart
    \/ \E c \in Callers :
          \/ \E x \in Hiddens, greedy \in BOOLEAN :
                Ask(c, x, greedy) /\ UNCHANGED <<pool, sent, faults, missed, past>>
          \/ Decide(c)
          \/ Take(c) /\ UNCHANGED <<pool, sent, faults, missed, past>>

HeadSpec == HeadInit /\ [][HeadNext]_headVars

-----------------------------------------------------------------------------
(* Properties                                                              *)

MaskType == [state : MaskStates \cup {"unmade", "gone"}, rho : Rhos \cup {0}]
CallType == [at : {"idle", "ask", "reserved", "computed", "decided"},
             hidden : Hiddens \cup {0}, greedy : BOOLEAN, mask : Masks \cup {NoMask},
             y : [Vocab -> 0 .. Ring - 1], token : Vocab \cup {NoToken}]
HeadTypeOK ==
    /\ pool \in [Masks -> MaskType]
    /\ call \in [Callers -> CallType]
    /\ sent \in [Masks -> Nat]
    /\ faults \in Nat
    /\ missed \in BOOLEAN
    /\ before \in [Masks -> Nat]
    /\ restarts \in Nat

\* A mask hides one input: whatever callers share the pool and whatever decisions fail,
\* a process never lets a second input leave the boundary under the same mask.  Over the
\* starts of the service that holds of the masks made at random; an initial mask, made
\* from its seed again, hides another input in the next process.
MaskUsedOnce ==
    \A m \in Masks :
        /\ sent[m] - before[m] <= 1
        /\ sent[m] > 1 => m \in InitialMasks /\ before[m] > 0

\* A mask is reserved exactly as long as one caller holds it, so no failed decision
\* keeps one, and no two callers hold the same.
ReservedIsHeld ==
    \A m \in Masks :
        pool[m].state = "RESERVED"
            <=> \E c \in Callers : call[c].mask = m /\ call[c].at \in {"reserved", "computed"}

\* A greedy decision returns a token whose exact logit is the largest, through the
\* quantized, masked product as through the local head, and also when the worker's
\* answer was wrong, unless the error was one no challenge sees.
TokenIsLargest ==
    \A c \in Callers :
        (call[c].at = "decided" /\ call[c].greedy /\ ~missed)
            => call[c].token \in Largest(Vocab, call[c].hidden)
=============================================================================
