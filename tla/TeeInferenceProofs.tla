------------------------- MODULE TeeInferenceProofs -------------------------
(***************************************************************************)
(* Proofs about MaskedHead and TeeInference, for any number of callers,    *)
(* masks and provisioning requests, any weights and challenges, any answer *)
(* length and any number of faults and broken streams: a mask hides one    *)
(* input, a greedy token is the exact head's, the service is an            *)
(* implementation of MaskedHead, its provisioning is safe, and an answer a *)
(* client reports is whole.                                                *)
(***************************************************************************)
EXTENDS TeeInference, FiniteSetTheorems, WellFoundedInduction, SequenceTheorems, TLAPS

-----------------------------------------------------------------------------
(* The head: who holds a mask.                                              *)

Holds(c, m) == call[c].mask = m /\ call[c].at \in {"reserved", "computed"}

\* What makes MaskUsedOnce inductive: a mask that nobody reserved has hidden
\* nothing in this process, one that is reserved has one holder, who has not sent
\* before it says so, and only an initial mask has hidden anything in an earlier one.
PoolInv ==
  /\ \A c \in Callers : call[c].at \in {"reserved", "computed"} =>
       /\ call[c].mask \in Masks
       /\ pool[call[c].mask].state = "RESERVED"
  /\ \A c, d \in Callers : c # d =>
       ~(\E m \in Masks : Holds(c, m) /\ Holds(d, m))
  /\ \A m \in Masks : pool[m].state \in {"unmade", "AVAILABLE"} => sent[m] = before[m]
  /\ \A c \in Callers :
       call[c].at = "reserved" => sent[call[c].mask] = before[call[c].mask]
  /\ \A m \in Masks \ InitialMasks : pool[m].state # "gone" => before[m] = 0
  /\ \A c \in Callers : call[c].at = "decided" => call[c].token \in Vocab
  /\ ReservedIsHeld
  /\ MaskUsedOnce

HeadInv == HeadTypeOK /\ PoolInv

-----------------------------------------------------------------------------
(* Arithmetic and choice stay in their sets.                                *)

\* A quantized value is an integer.
LEMMA QuantizeType ==
  ASSUME NEW n \in Int, NEW step \in Nat \ {0}
  PROVE  Quantize(n, step) \in Int
BY SMT DEF Quantize

\* A remainder is below its divisor.
LEMMA ModType ==
  ASSUME NEW n \in Int, NEW k \in Nat \ {0}
  PROVE  n % k \in 0 .. k - 1
BY SMT

\* What the worker sends back for an integer input is a vector of the ring.
LEMMA ProductType ==
  ASSUME NEW u \in Int
  PROVE  Product(u) \in [Vocab -> 0 .. Ring - 1]
<1>1. ASSUME NEW t \in Vocab PROVE (u * WeightQ[t]) % Ring \in 0 .. Ring - 1
  <2>1. WeightQ[t] \in Int
    BY QuantizeType, HeadAssumption DEF WeightQ
  <2>2. u * WeightQ[t] \in Int
    BY <2>1
  <2> QED BY <2>2, ModType, HeadAssumption
<1> QED BY <1>1 DEF Product

\* The input that leaves the boundary is an element of the ring.
LEMMA InputType ==
  ASSUME NEW x \in Int, NEW rho \in Int
  PROVE  Masked(ActivationQ(x), rho) \in Int
<1>1. ActivationQ(x) \in Int
  BY QuantizeType, HeadAssumption DEF ActivationQ
<1>2. ActivationQ(x) + rho \in Int
  BY <1>1
<1> QED BY <1>2, ModType, HeadAssumption DEF Masked

\* The candidates are tokens.
LEMMA LargestType ==
  ASSUME NEW S, S \subseteq Vocab, NEW x, NEW t \in Largest(S, x)
  PROVE  t \in Vocab
BY DEF Largest

\* The candidates are tokens.
LEMMA CandidatesType == \A z, x : Candidates(z, x) \subseteq Vocab
BY DEF Candidates

-----------------------------------------------------------------------------
(* The two updates every action is made of.                                 *)

\* A mask changes its state, and only its state.
LEMMA SetMaskType ==
  ASSUME HeadTypeOK, NEW m \in Masks, NEW s \in MaskStates, SetMask(m, s)
  PROVE  /\ pool' \in [Masks -> MaskType]
         /\ pool'[m].state = s
         /\ \A n \in Masks : n # m => pool'[n] = pool[n]
BY DEF HeadTypeOK, MaskType, SetMask

\* A caller decides on a token, and nobody else is disturbed.
LEMMA DecidedType ==
  ASSUME HeadTypeOK, NEW c \in Callers, NEW t \in Vocab, Decided(c, t)
  PROVE  /\ call' \in [Callers -> CallType]
         /\ call'[c].at = "decided" /\ call'[c].token \in Vocab
         /\ \A d \in Callers : d # c => call'[d] = call[d]
<1> DEFINE r == [call[c] EXCEPT !.at = "decided", !.token = t]
<1>1. call[c] \in CallType
  BY DEF HeadTypeOK
<1>2. r \in CallType /\ r.at = "decided" /\ r.token \in Vocab
  BY <1>1 DEF CallType
<1>3. call' = [call EXCEPT ![c] = r]
  BY <1>1 DEF HeadTypeOK, CallType, Decided
<1> HIDE DEF r
<1> QED BY <1>2, <1>3 DEF HeadTypeOK

\* The local head always has a token to offer.
LEMMA FallbackType ==
  ASSUME HeadTypeOK, NEW c \in Callers, Fallback(c)
  PROVE  /\ call' \in [Callers -> CallType]
         /\ call'[c].at = "decided" /\ call'[c].token \in Vocab
         /\ \A d \in Callers : d # c => call'[d] = call[d]
<1>1. PICK t \in LocalTokens(c) : Decided(c, t)
  BY DEF Fallback
<1>2. t \in Vocab
  BY LargestType DEF LocalTokens
<1> QED BY <1>1, <1>2, DecidedType

-----------------------------------------------------------------------------
(* Every action preserves the invariant.                                    *)

\* An initial mask is one that can be given out.
LEMMA SeededType ==
  \A m \in InitialMasks : m \in Masks /\ Seeded(m) \in MaskType
<1>1. SeedRhos \in Seq(Rhos) /\ Len(SeedRhos) <= MaxMasks /\ MaxMasks \in Nat
  BY HeadAssumption
<1>2. \A m \in InitialMasks : m \in Masks /\ SeedRhos[m] \in Rhos
  BY <1>1 DEF InitialMasks, Masks
<1> QED BY <1>2 DEF Seeded, MaskType, MaskStates

LEMMA InitInv == HeadInit => HeadInv
<1> SUFFICES ASSUME HeadInit PROVE HeadInv
  OBVIOUS
<1> USE DEF HeadInit, Unmade, NoCall
<1>1. Zero \in [Vocab -> 0 .. Ring - 1]
  BY HeadAssumption DEF Zero
<1>2. HeadTypeOK
  BY <1>1, SeededType DEF HeadTypeOK, MaskType, CallType
<1>3. PoolInv
  BY DEF PoolInv, ReservedIsHeld, MaskUsedOnce, Holds, Seeded
<1> QED BY <1>2, <1>3 DEF HeadInv

LEMMA MakeMaskInv ==
  ASSUME HeadInv, NEW m \in Masks, NEW rho \in Rhos, MakeMask(m, rho),
         UNCHANGED <<call, sent, faults, missed, past>>
  PROVE  HeadInv'
<1>1. HeadTypeOK'
  BY DEF past, HeadInv, HeadTypeOK, MaskType, MaskStates, MakeMask
<1>2. PoolInv'
  BY DEF past, HeadInv, HeadTypeOK, PoolInv, ReservedIsHeld, MaskUsedOnce, Holds, MakeMask, Unmade
<1> QED BY <1>1, <1>2 DEF HeadInv

LEMMA AskInv ==
  ASSUME HeadInv, NEW c \in Callers, NEW x \in Hiddens, NEW greedy \in BOOLEAN,
         Ask(c, x, greedy), UNCHANGED <<pool, sent, faults, missed, past>>
  PROVE  HeadInv'
<1>1. Zero \in [Vocab -> 0 .. Ring - 1]
  BY HeadAssumption DEF Zero
<1>2. HeadTypeOK'
  BY <1>1 DEF past, HeadInv, HeadTypeOK, CallType, Ask, NoCall
<1>3. PoolInv'
  BY DEF past, HeadInv, HeadTypeOK, CallType, PoolInv, ReservedIsHeld, MaskUsedOnce, Holds, Ask,
         NoCall
<1> QED BY <1>2, <1>3 DEF HeadInv

LEMMA TakeInv ==
  ASSUME HeadInv, NEW c \in Callers, Take(c), UNCHANGED <<pool, sent, faults, missed, past>>
  PROVE  HeadInv'
<1>1. Zero \in [Vocab -> 0 .. Ring - 1]
  BY HeadAssumption DEF Zero
<1>2. HeadTypeOK'
  BY <1>1 DEF past, HeadInv, HeadTypeOK, CallType, Take, NoCall
<1>3. PoolInv'
  BY DEF past, HeadInv, HeadTypeOK, CallType, PoolInv, ReservedIsHeld, MaskUsedOnce, Holds, Take,
         NoCall
<1> QED BY <1>2, <1>3 DEF HeadInv

LEMMA DecideLocallyInv ==
  ASSUME HeadInv, NEW c \in Callers, DecideLocally(c)
  PROVE  HeadInv'
<1>1. /\ call' \in [Callers -> CallType]
      /\ call'[c].at = "decided" /\ call'[c].token \in Vocab
      /\ \A d \in Callers : d # c => call'[d] = call[d]
  BY FallbackType DEF HeadInv, DecideLocally
<1>2. HeadTypeOK'
  BY <1>1 DEF past, HeadInv, HeadTypeOK, DecideLocally
<1>3. call[c].at = "ask" /\ UNCHANGED <<pool, sent, before>>
  BY DEF DecideLocally, past
<1>4. MaskUsedOnce'
  BY <1>3 DEF HeadInv, PoolInv, MaskUsedOnce
<1>5. ReservedIsHeld'
  BY <1>1, <1>3 DEF HeadInv, PoolInv, ReservedIsHeld
<1>6. PoolInv'
  BY <1>1, <1>3, <1>4, <1>5 DEF HeadInv, PoolInv, Holds
<1> QED BY <1>2, <1>6 DEF HeadInv

LEMMA ReserveInv ==
  ASSUME HeadInv, NEW c \in Callers, Reserve(c)
  PROVE  HeadInv'
<1>1. PICK m \in Masks : /\ FirstAvailable(m)
                         /\ SetMask(m, "RESERVED")
                         /\ call' = [call EXCEPT ![c].at = "reserved", ![c].mask = m]
  BY DEF Reserve
<1>2. /\ pool' \in [Masks -> MaskType]
      /\ pool'[m].state = "RESERVED"
      /\ \A n \in Masks : n # m => pool'[n] = pool[n]
  BY <1>1, SetMaskType DEF HeadInv, MaskStates
<1>3. /\ call' \in [Callers -> CallType]
      /\ call'[c].at = "reserved" /\ call'[c].mask = m
      /\ \A d \in Callers : d # c => call'[d] = call[d]
  BY <1>1 DEF past, HeadInv, HeadTypeOK, CallType
<1>4. pool[m].state = "AVAILABLE" /\ sent[m] = before[m] /\ call[c].at = "ask"
  BY <1>1 DEF HeadInv, PoolInv, FirstAvailable, Reserve
<1>5. HeadTypeOK'
  BY <1>2, <1>3 DEF past, HeadInv, HeadTypeOK, Reserve
<1>6. PoolInv'
  BY <1>2, <1>3, <1>4
  DEF past, HeadInv, HeadTypeOK, PoolInv, ReservedIsHeld, MaskUsedOnce, Holds, Reserve
<1> QED BY <1>5, <1>6 DEF HeadInv

\* A worker's answer is a vector of the ring, also when it is wrong in a token.
LEMMA AnswerType ==
  ASSUME NEW u \in Int,
         NEW y \in {Product(u)} \cup {[Product(u) EXCEPT ![t] = (@ + 1) % Ring] : t \in Vocab}
  PROVE  y \in [Vocab -> 0 .. Ring - 1]
<1>1. Product(u) \in [Vocab -> 0 .. Ring - 1]
  BY ProductType
<1>2. \A t \in Vocab : (Product(u)[t] + 1) % Ring \in 0 .. Ring - 1
  <2> TAKE t \in Vocab
  <2>1. Product(u)[t] + 1 \in Int
    BY <1>1, HeadAssumption
  <2> QED BY <2>1, ModType, HeadAssumption
<1> HIDE DEF Product
<1> QED BY <1>1, <1>2

\* Hidden values and mask values are integers.
LEMMA IntegerType ==
  /\ \A x \in Hiddens \cup {0} : x \in Int
  /\ \A rho \in Rhos \cup {0} : rho \in Int
BY HeadAssumption

LEMMA SendInv ==
  ASSUME HeadInv, NEW c \in Callers, Send(c)
  PROVE  HeadInv'
<1> DEFINE m == call[c].mask
<1>1. /\ m \in Masks /\ sent[m] = before[m] /\ pool[m].state = "RESERVED"
      /\ call[c] \in CallType /\ pool[m] \in MaskType
  BY DEF past, HeadInv, HeadTypeOK, PoolInv, Send
<1>2. Input(c) \in Int
  <2>1. call[c].hidden \in Hiddens \cup {0}
    BY <1>1 DEF CallType
  <2>2. pool[m].rho \in Rhos \cup {0}
    BY <1>1 DEF MaskType
  <2>3. call[c].hidden \in Int
    BY <2>1, IntegerType
  <2>4. pool[m].rho \in Int
    BY <2>2, IntegerType
  <2> QED BY <2>3, <2>4, InputType DEF Input
<1>3. PICK y \in {Product(Input(c))}
              \cup {[Product(Input(c)) EXCEPT ![t] = (@ + 1) % Ring] : t \in Vocab} :
        /\ call' = [call EXCEPT ![c].at = "computed", ![c].y = y]
        /\ faults' = IF y = Product(Input(c)) THEN faults ELSE faults + 1
  BY DEF Send
<1>4. y \in [Vocab -> 0 .. Ring - 1]
  BY <1>2, <1>3, AnswerType
<1> DEFINE r == [call[c] EXCEPT !.at = "computed", !.y = y]
<1>5. r \in CallType /\ r.at = "computed" /\ r.mask = m
  BY <1>1, <1>4 DEF CallType
<1>6. call' = [call EXCEPT ![c] = r]
  BY <1>1, <1>3 DEF past, HeadInv, HeadTypeOK, CallType
<1>7. faults' \in Nat
  BY <1>3 DEF past, HeadInv, HeadTypeOK
<1> HIDE DEF r
<1>8. HeadTypeOK'
  <2>1. call' \in [Callers -> CallType]
    BY <1>5, <1>6 DEF past, HeadInv, HeadTypeOK
  <2>2. sent' \in [Masks -> Nat]
    BY <1>1 DEF past, HeadInv, HeadTypeOK, Send
  <2> QED BY <1>7, <2>1, <2>2 DEF past, HeadInv, HeadTypeOK, Send
<1>9. PoolInv'
  BY <1>1, <1>5, <1>6
  DEF past, HeadInv, HeadTypeOK, PoolInv, ReservedIsHeld, MaskUsedOnce, Holds, Send
<1> QED BY <1>8, <1>9 DEF HeadInv

\* A decision that ends leaves a mask that is never given out again.
LEMMA ReleaseInv ==
  ASSUME HeadInv, NEW c \in Callers, call[c].at \in {"reserved", "computed"},
         NEW s \in {"CONSUMED", "BURNED"}, SetMask(call[c].mask, s),
         call' \in [Callers -> CallType], call'[c].at = "decided", call'[c].token \in Vocab,
         \A d \in Callers : d # c => call'[d] = call[d],
         sent' = sent, UNCHANGED past, faults' \in Nat, missed' \in BOOLEAN
  PROVE  HeadInv'
<1> DEFINE m == call[c].mask
<1>1. m \in Masks
  BY DEF HeadInv, PoolInv
<1>2. /\ pool' \in [Masks -> MaskType]
      /\ pool'[m].state = s
      /\ \A n \in Masks : n # m => pool'[n] = pool[n]
  BY <1>1, SetMaskType DEF HeadInv, MaskStates
<1>3. HeadTypeOK'
  BY <1>2 DEF past, HeadInv, HeadTypeOK
<1>4. PoolInv'
  BY <1>1, <1>2 DEF past, HeadInv, HeadTypeOK, PoolInv, ReservedIsHeld, MaskUsedOnce, Holds
<1> QED BY <1>3, <1>4 DEF HeadInv

LEMMA DecideRaisesInv ==
  ASSUME HeadInv, NEW c \in Callers, DecideRaises(c)
  PROVE  HeadInv'
<1>1. SetMask(call[c].mask, "BURNED")
  BY DEF HeadInv, PoolInv, DecideRaises, Burn
<1>2. faults' \in Nat
  BY DEF past, HeadInv, HeadTypeOK, DecideRaises
<1> QED BY <1>1, <1>2, FallbackType, ReleaseInv DEF past, HeadInv, HeadTypeOK, DecideRaises

LEMMA RejectProductInv ==
  ASSUME HeadInv, NEW c \in Callers, RejectProduct(c)
  PROVE  HeadInv'
<1>1. SetMask(call[c].mask, "BURNED")
  BY DEF HeadInv, PoolInv, RejectProduct, Burn
<1> QED BY <1>1, FallbackType, ReleaseInv DEF past, HeadInv, HeadTypeOK, RejectProduct

LEMMA AcceptProductInv ==
  ASSUME HeadInv, NEW c \in Callers, AcceptProduct(c)
  PROVE  HeadInv'
<1>1. SetMask(call[c].mask, "CONSUMED")
  BY DEF HeadInv, PoolInv, AcceptProduct, Consume
<1>2. /\ call' \in [Callers -> CallType]
      /\ call'[c].at = "decided" /\ call'[c].token \in Vocab
      /\ \A d \in Callers : d # c => call'[d] = call[d]
  <2>1. CASE Fallback(c)
    BY <2>1, FallbackType DEF HeadInv
  <2>2. CASE ~Fallback(c)
    <3>1. PICK t \in Largest(Intervals(c), call[c].hidden) : Decided(c, t)
      BY <2>2 DEF AcceptProduct
    <3>2. t \in Vocab
      BY LargestType, CandidatesType DEF Intervals
    <3> QED BY <3>1, <3>2, DecidedType DEF HeadInv
  <2> QED BY <2>1, <2>2
<1>3. missed' \in BOOLEAN /\ sent' = sent /\ UNCHANGED past /\ faults' \in Nat
  BY DEF past, HeadInv, HeadTypeOK, AcceptProduct
<1>4. call[c].at = "computed"
  BY DEF AcceptProduct
<1> QED BY <1>1, <1>2, <1>3, <1>4, ReleaseInv

\* A new process has its initial masks and nothing else, and none of them has hidden
\* anything in it.
LEMMA HeadRestartInv ==
  ASSUME HeadInv, HeadRestart
  PROVE  HeadInv'
<1>1. NoCall \in CallType /\ NoCall.at = "idle"
  <2>1. Zero \in [Vocab -> 0 .. Ring - 1]
    BY HeadAssumption DEF Zero
  <2> QED BY <2>1 DEF NoCall, CallType
<1>2. Unmade \in MaskType /\ Gone \in MaskType
  BY DEF Unmade, Gone, MaskType
<1>3. HeadTypeOK'
  BY <1>1, <1>2, SeededType DEF HeadRestart, HeadInv, HeadTypeOK
<1>4. ASSUME NEW m \in Masks
      PROVE  /\ pool'[m].state \in {"unmade", "AVAILABLE", "gone"}
             /\ m \notin InitialMasks /\ pool'[m].state # "gone" => sent[m] = 0
  BY <1>4 DEF HeadRestart, HeadInv, PoolInv, Unmade, Gone, Seeded
<1>5. sent' = sent /\ before' = sent /\ \A c \in Callers : call'[c].at = "idle"
  BY <1>1 DEF HeadRestart
<1>6. MaskUsedOnce'
  BY <1>5 DEF HeadInv, HeadTypeOK, PoolInv, MaskUsedOnce
<1>7. PoolInv'
  BY <1>4, <1>5, <1>6 DEF PoolInv, ReservedIsHeld, Holds
<1> QED BY <1>3, <1>7 DEF HeadInv

LEMMA StutterInv ==
  ASSUME HeadInv, UNCHANGED headVars
  PROVE  HeadInv'
BY DEF past, HeadInv, HeadTypeOK, PoolInv, ReservedIsHeld, MaskUsedOnce, Holds, headVars

LEMMA NextInv == HeadInv /\ [HeadNext]_headVars => HeadInv'
<1> SUFFICES ASSUME HeadInv, [HeadNext]_headVars PROVE HeadInv'
  OBVIOUS
<1>1. ASSUME NEW m \in Masks, NEW rho \in Rhos, MakeMask(m, rho),
             UNCHANGED <<call, sent, faults, missed, past>>
      PROVE  HeadInv'
  BY <1>1, MakeMaskInv
<1>2. ASSUME NEW c \in Callers, NEW x \in Hiddens, NEW greedy \in BOOLEAN,
             Ask(c, x, greedy), UNCHANGED <<pool, sent, faults, missed, past>>
      PROVE  HeadInv'
  BY <1>2, AskInv
<1>3. ASSUME NEW c \in Callers, Decide(c) PROVE HeadInv'
  BY <1>3, DecideLocallyInv, ReserveInv, SendInv, DecideRaisesInv, RejectProductInv,
     AcceptProductInv DEF Decide
<1>4. ASSUME NEW c \in Callers, Take(c), UNCHANGED <<pool, sent, faults, missed, past>>
      PROVE  HeadInv'
  BY <1>4, TakeInv
<1>5. CASE UNCHANGED headVars
  BY <1>5, StutterInv
<1>6. CASE HeadRestart
  BY <1>6, HeadRestartInv
<1> QED BY <1>1, <1>2, <1>3, <1>4, <1>5, <1>6 DEF HeadNext

-----------------------------------------------------------------------------
\* The inductive invariant: every mask the pool has given out has one holder,
\* and nothing was sent under a mask that may still be given out.
THEOREM PoolInvariant == HeadSpec => []HeadInv
  BY InitInv, NextInv, PTL DEF HeadSpec

\* A mask hides one input in a process, and one in all unless it is an initial mask that
\* a new process made again: for any number of callers, masks, worker faults and starts,
\* any weights and any challenges.  What decide, the pool's reserve, consume and burn, and
\* every error path do together.
THEOREM MasksAreUsedOnce == HeadSpec => []MaskUsedOnce
<1>1. HeadInv => MaskUsedOnce
  BY DEF HeadInv, PoolInv
<1> QED BY <1>1, PoolInvariant, PTL

\* No decision that failed keeps a mask, and no mask has two holders.
THEOREM ReservedMasksAreHeld == HeadSpec => []ReservedIsHeld
<1>1. HeadInv => ReservedIsHeld
  BY DEF HeadInv, PoolInv
<1> QED BY <1>1, PoolInvariant, PTL

\* The head's type invariant.
THEOREM HeadTypes == HeadSpec => []HeadTypeOK
<1>1. HeadInv => HeadTypeOK
  BY DEF HeadInv
<1> QED BY <1>1, PoolInvariant, PTL

-----------------------------------------------------------------------------
(* The head: what a right answer says.                                      *)

\* A multiple of k that is nearer to 0 than k is 0.
LEMMA SmallMultiple ==
  ASSUME NEW k \in Nat \ {0}, NEW e \in Int, -k < k * e, k * e < k
  PROVE  e = 0
<1>1. CASE e >= 1
  <2>1. k * e >= k
    BY <1>1, SMT
  <2> QED BY <2>1, SMT
<1>2. CASE e <= -1
  <2>1. k * e <= -k
    BY <1>2, SMT
  <2> QED BY <2>1, SMT
<1> QED BY <1>1, <1>2, SMT

\* Division with remainder, for a positive divisor.
LEMMA Division ==
  ASSUME NEW n \in Int, NEW k \in Int, k > 0
  PROVE  /\ n \div k \in Int /\ n % k \in 0 .. k - 1
         /\ n = k * (n \div k) + (n % k)
<1>1. n \div k \in Int /\ n % k \in 0 .. k - 1
  BY SMT
<1>2. n = k * (n \div k) + (n % k)
  BY Z3
<1> QED BY <1>1, <1>2

\* A value in the signed range is decoded from any number congruent to it.
LEMMA SignedIsExact ==
  ASSUME NEW n \in Int, NEW v \in Int, NEW e \in Int, n = v + Ring * e,
         -Ring <= 2 * v, 2 * v < Ring
  PROVE  Signed(n) = v
<1> DEFINE r == n % Ring
           d == n \div Ring
<1>0. Ring \in Nat \ {0}
  BY HeadAssumption
<1>1. r \in 0 .. Ring - 1 /\ d \in Int /\ n = Ring * d + r
  <2>1. Ring \in Int /\ Ring > 0
    BY <1>0
  <2> QED BY <2>1, Division
<1> HIDE DEF r, d
<1>2. r = v + Ring * (e - d)
  BY <1>0, <1>1, SMT
<1>3. CASE v >= 0
  <2>1. -Ring < Ring * (e - d) /\ Ring * (e - d) < Ring
    BY <1>0, <1>1, <1>2, <1>3, SMT
  <2>2. e - d = 0
    BY <1>0, <1>1, <2>1, SmallMultiple
  <2>3. r = v
    BY <1>0, <1>1, <1>2, <2>2, SMT
  <2> QED BY <1>0, <1>3, <2>3, SMT DEF Signed, r
<1>4. CASE v < 0
  <2>1. Ring * (e - d - 1) = r - v - Ring
    BY <1>0, <1>1, <1>2, SMT
  <2>2. -Ring < Ring * (e - d - 1) /\ Ring * (e - d - 1) < Ring
    BY <1>0, <1>1, <2>1, <1>4, SMT
  <2>3. e - d - 1 = 0
    BY <1>0, <1>1, <2>2, SmallMultiple
  <2>4. r = v + Ring
    BY <1>0, <1>1, <2>1, <2>3, SMT
  <2> QED BY <1>0, <1>4, <2>4, SMT DEF Signed, r
<1> QED BY <1>3, <1>4, SMT

\* A product is not larger than that of the absolute values.
LEMMA AbsoluteProduct ==
  ASSUME NEW a \in Int, NEW b \in Int
  PROVE  /\ Absolute(a) \in Nat
         /\ a * b <= Absolute(a) * Absolute(b)
         /\ -(a * b) <= Absolute(a) * Absolute(b)
<1>1. a >= 0 /\ b >= 0 => a * b >= 0
  BY SMT
<1>2. a >= 0 /\ b < 0 => a * b <= 0
  BY SMT
<1>3. a < 0 /\ b >= 0 => a * b <= 0
  BY SMT
<1>4. a < 0 /\ b < 0 => a * b >= 0
  BY SMT
<1>5. (-a) * b = -(a * b) /\ a * (-b) = -(a * b) /\ (-a) * (-b) = a * b
  BY SMT
<1> QED BY <1>1, <1>2, <1>3, <1>4, <1>5, SMT DEF Absolute

\* The error bound: x h differs from the approximation r g at most by the two
\* quantization errors, each weighted with the other operand.
LEMMA Triangle ==
  ASSUME NEW x \in Int, NEW r \in Int, NEW h \in Int, NEW g \in Int
  PROVE  LET bound == Absolute(x - r) * Absolute(h) + Absolute(r) * Absolute(h - g)
         IN  r * g - bound <= x * h /\ x * h <= r * g + bound
<1> DEFINE a == x - r
           d == h - g
<1>0. a \in Int /\ d \in Int
  OBVIOUS
<1>1. x * h = r * g + a * h + r * d
  BY SMT
<1>2. a * h <= Absolute(a) * Absolute(h) /\ -(a * h) <= Absolute(a) * Absolute(h)
  BY <1>0, AbsoluteProduct
<1>3. r * d <= Absolute(r) * Absolute(d) /\ -(r * d) <= Absolute(r) * Absolute(d)
  BY <1>0, AbsoluteProduct
<1>4. /\ Absolute(a) * Absolute(h) \in Int /\ Absolute(r) * Absolute(d) \in Int
      /\ a * h \in Int /\ r * d \in Int /\ r * g \in Int
  BY <1>0, SMT DEF Absolute
<1> HIDE DEF a, d
<1>5. /\ r * g - (Absolute(a) * Absolute(h) + Absolute(r) * Absolute(d)) <= x * h
      /\ x * h <= r * g + (Absolute(a) * Absolute(h) + Absolute(r) * Absolute(d))
  BY <1>1, <1>2, <1>3, <1>4, SMT
<1> QED BY <1>5 DEF a, d

\* Some token's logit is the largest: one that fewest others exceed.
LEMMA LargestExists ==
  ASSUME NEW x \in Int
  PROVE  \E t \in Vocab : \A s \in Vocab : Logit(x, t) >= Logit(x, s)
<1> DEFINE Above(t) == {s \in Vocab : Logit(x, s) > Logit(x, t)}
           N == {Cardinality(Above(t)) : t \in Vocab}
<1>1. \A t \in Vocab : Logit(x, t) \in Int
  BY HeadAssumption DEF Logit
<1>2. \A t \in Vocab : Above(t) \in SUBSET Vocab /\ IsFiniteSet(Above(t))
  BY HeadAssumption, FS_Subset
<1>3. \A t \in Vocab : Cardinality(Above(t)) \in Nat
  BY <1>2, FS_CardinalityType
<1>4. N \subseteq Nat /\ N # {}
  <2>1. PICK t \in Vocab : TRUE
    BY HeadAssumption
  <2>2. Cardinality(Above(t)) \in N
    OBVIOUS
  <2>3. N \subseteq Nat
    <3> HIDE DEF Above
    <3> QED BY <1>3
  <2> QED BY <2>2, <2>3
<1>5. PICK n \in N : \A k \in N : ~(<<k, n>> \in OpToRel(<, Nat))
  BY <1>4, NatLessThanWellFounded, WFMin
<1>6. PICK t \in Vocab : n = Cardinality(Above(t))
  BY <1>5
<1>7. \A s \in Vocab : ~(Cardinality(Above(s)) < Cardinality(Above(t)))
  BY <1>3, <1>5, <1>6 DEF OpToRel
<1>8. ASSUME NEW s \in Vocab, ~(Logit(x, t) >= Logit(x, s)) PROVE FALSE
  <2>1. s \in Above(t) /\ s \notin Above(s)
    BY <1>1, <1>8
  <2>2. Above(s) \in SUBSET Above(t)
    BY <1>1, <1>8
  <2>3. Cardinality(Above(s)) <= Cardinality(Above(t))
    BY <1>2, <2>2, FS_Subset
  <2>4. Cardinality(Above(s)) # Cardinality(Above(t))
    BY <1>2, <2>1, <2>2, FS_Subset
  <2> QED BY <1>3, <1>7, <2>3, <2>4
<1> QED BY <1>8

\* A right answer, unmasked, is the product of the quantized values.
LEMMA RecoveredIsExact ==
  ASSUME NEW x \in Hiddens, NEW rho \in Int, NEW t \in Vocab
  PROVE  Recovered(Product(Masked(ActivationQ(x), rho)), rho)[t]
            = ActivationQ(x) * WeightQ[t]
<1> DEFINE q == ActivationQ(x)
           w == WeightQ[t]
           u == Masked(q, rho)
<1>1. q \in Int /\ w \in Int /\ Ring \in Int /\ Ring > 0
  <2>1. x \in Int
    BY HeadAssumption
  <2>2. ActivationStep \in Nat \ {0} /\ HeadWeight[t] \in Int /\ WeightStep[t] \in Nat \ {0}
    BY HeadAssumption
  <2>3. q \in Int
    BY <2>1, <2>2, QuantizeType DEF ActivationQ
  <2>4. w \in Int
    BY <2>2, QuantizeType DEF WeightQ
  <2> QED BY <2>3, <2>4, HeadAssumption
<1>2. -Ring <= 2 * (q * w) /\ 2 * (q * w) < Ring
  BY ProductFits
<1>3. Product(u)[t] = (u * w) % Ring /\ Product(rho)[t] = (rho * w) % Ring
  BY DEF Product
<1>4. u = (q + rho) % Ring
  BY DEF Masked
<1> HIDE DEF q, w, u
<1>5. PICK a \in Int : u \in Int /\ q + rho = Ring * a + u
  <2>1. q + rho \in Int
    BY <1>1
  <2> QED BY <1>1, <1>4, <2>1, Division
<1>6. PICK b \in Int : (u * w) % Ring \in Int /\ u * w = Ring * b + ((u * w) % Ring)
  <2> DEFINE k == u * w
  <2>1. k \in Int
    BY <1>1, <1>5
  <2> HIDE DEF k
  <2>2. k \div Ring \in Int /\ k % Ring \in Int /\ k = Ring * (k \div Ring) + (k % Ring)
    BY <1>1, <2>1, Division
  <2> QED BY <2>2 DEF k
<1>7. PICK d \in Int : (rho * w) % Ring \in Int /\ rho * w = Ring * d + ((rho * w) % Ring)
  <2> DEFINE k == rho * w
  <2>1. k \in Int
    BY <1>1
  <2> HIDE DEF k
  <2>2. k \div Ring \in Int /\ k % Ring \in Int /\ k = Ring * (k \div Ring) + (k % Ring)
    BY <1>1, <2>1, Division
  <2> QED BY <2>2 DEF k
<1> DEFINE n == Product(u)[t] - Product(rho)[t]
           e == d - b - a * w
<1>8. n \in Int /\ e \in Int /\ q * w \in Int
  BY <1>1, <1>3, <1>6, <1>7
<1>9. n = q * w + Ring * e
  <2>1. u * w = q * w + rho * w - Ring * (a * w)
    <3>1. u = q + rho - Ring * a
      BY <1>1, <1>5, SMT
    <3> QED BY <1>1, <1>5, <3>1, SMT
  <2>2. Product(u)[t] = u * w - Ring * b /\ Product(rho)[t] = rho * w - Ring * d
    BY <1>1, <1>3, <1>5, <1>6, <1>7, SMT
  <2> QED BY <1>1, <1>5, <1>6, <1>7, <2>1, <2>2, SMT
<1> HIDE DEF e
<1>10. Signed(n) = q * w
  BY <1>2, <1>8, <1>9, SignedIsExact
<1>11. Recovered(Product(u), rho)[t] = Signed(n)
  BY DEF Recovered
<1> QED BY <1>10, <1>11 DEF q, w, u

\* Then every interval holds its token's exact logit.
LEMMA IntervalHoldsLogit ==
  ASSUME NEW x \in Hiddens, NEW t \in Vocab, NEW z, z[t] = ActivationQ(x) * WeightQ[t]
  PROVE  /\ Approximate(z, t) \in Int /\ ErrorBound(x, t) \in Int /\ Logit(x, t) \in Int
         /\ Approximate(z, t) - ErrorBound(x, t) <= Logit(x, t)
         /\ Logit(x, t) <= Approximate(z, t) + ErrorBound(x, t)
<1> DEFINE q == ActivationQ(x)
           w == WeightQ[t]
           h == HeadWeight[t]
           r == q * ActivationStep
           g == w * WeightStep[t]
<1>1. /\ x \in Int /\ q \in Int /\ w \in Int /\ h \in Int
      /\ ActivationStep \in Int /\ WeightStep[t] \in Int
  BY QuantizeType, HeadAssumption DEF ActivationQ, WeightQ
<1>2. Approximate(z, t) = (q * w) * ActivationStep * WeightStep[t]
  BY DEF Approximate
<1>3. ErrorBound(x, t) = Absolute(x - r) * Absolute(h) + Absolute(r) * Absolute(h - g)
  BY DEF ErrorBound
<1>4. Logit(x, t) = x * h
  BY DEF Logit
<1> HIDE DEF q, w, h
<1>5. r \in Int /\ g \in Int
  BY <1>1
<1>6. (q * w) * ActivationStep * WeightStep[t] = r * g
  BY <1>1, SMT
<1> HIDE DEF r, g
<1>7. /\ r * g - (Absolute(x - r) * Absolute(h) + Absolute(r) * Absolute(h - g)) <= x * h
      /\ x * h <= r * g + (Absolute(x - r) * Absolute(h) + Absolute(r) * Absolute(h - g))
  BY <1>1, <1>5, Triangle
<1>8. /\ Absolute(x - r) \in Int /\ Absolute(h) \in Int
      /\ Absolute(r) \in Int /\ Absolute(h - g) \in Int
  BY <1>1, <1>5 DEF Absolute
<1>9. /\ r * g \in Int /\ x * h \in Int
      /\ Absolute(x - r) * Absolute(h) + Absolute(r) * Absolute(h - g) \in Int
  BY <1>1, <1>5, <1>8
<1> QED BY <1>2, <1>3, <1>4, <1>6, <1>7, <1>9

\* So the largest of the candidates is the largest of all.
LEMMA CandidatesAreEnough ==
  ASSUME NEW x \in Hiddens, NEW z, \A t \in Vocab : z[t] = ActivationQ(x) * WeightQ[t]
  PROVE  Largest(Candidates(z, x), x) \subseteq Largest(Vocab, x)
<1>1. \A t \in Vocab :
        /\ Approximate(z, t) \in Int /\ ErrorBound(x, t) \in Int /\ Logit(x, t) \in Int
        /\ Approximate(z, t) - ErrorBound(x, t) <= Logit(x, t)
        /\ Logit(x, t) <= Approximate(z, t) + ErrorBound(x, t)
  BY IntervalHoldsLogit
<1>2. PICK m \in Vocab : \A s \in Vocab : Logit(x, m) >= Logit(x, s)
  <2>1. x \in Int
    BY HeadAssumption
  <2> QED BY <2>1, LargestExists
<1>3. m \in Candidates(z, x)
  <2>1. ASSUME NEW s \in Vocab
        PROVE  Approximate(z, m) + ErrorBound(x, m) >= Approximate(z, s) - ErrorBound(x, s)
    BY <1>1, <1>2
  <2> QED BY <2>1 DEF Candidates
<1>4. ASSUME NEW t \in Largest(Candidates(z, x), x) PROVE t \in Largest(Vocab, x)
  <2>1. t \in Vocab /\ Logit(x, t) >= Logit(x, m)
    BY <1>3, CandidatesType DEF Largest
  <2>2. \A s \in Vocab : Logit(x, t) >= Logit(x, s)
    BY <1>1, <1>2, <2>1
  <2> QED BY <2>1, <2>2 DEF Largest
<1> QED BY <1>4

\* A call that has begun carries a value of the model's body, and a token it has
\* decided on, greedily, is the exact head's.
ExactInv ==
  /\ \A c \in Callers : call[c].at # "idle" => call[c].hidden \in Hiddens
  /\ TokenIsLargest

\* A decision keeps the call it is about.
LEMMA DecidedKeeps ==
  ASSUME HeadTypeOK, NEW c \in Callers, NEW t, Decided(c, t)
  PROVE  /\ call'[c].token = t
         /\ call'[c].hidden = call[c].hidden /\ call'[c].greedy = call[c].greedy
         /\ \A d \in Callers : d # c => call'[d] = call[d]
BY DEF HeadTypeOK, CallType, Decided

\* Two ways to keep the invariant: the call under way decides on a right token ...
LEMMA DecidedExact ==
  ASSUME HeadInv, ExactInv, NEW c \in Callers, NEW t, Decided(c, t), call[c].at # "idle",
         missed => missed', missed' \in BOOLEAN,
         call[c].greedy /\ ~missed' => t \in Largest(Vocab, call[c].hidden)
  PROVE  ExactInv'
<1>1. /\ call'[c].token = t
      /\ call'[c].hidden = call[c].hidden /\ call'[c].greedy = call[c].greedy
      /\ \A d \in Callers : d # c => call'[d] = call[d]
  BY DecidedKeeps DEF HeadInv
<1>2. Largest(Vocab, call[c].hidden)' = Largest(Vocab, call'[c].hidden)
  BY DEF Largest, Logit
<1>3. TokenIsLargest'
  <2> SUFFICES ASSUME NEW d \in Callers, (call[d].at = "decided" /\ call[d].greedy /\ ~missed)'
               PROVE  call'[d].token \in Largest(Vocab, call'[d].hidden)
    BY DEF TokenIsLargest, Largest, Logit
  <2>1. CASE d = c
    BY <1>1, <2>1
  <2>2. CASE d # c
    BY <1>1, <2>2 DEF ExactInv, TokenIsLargest
  <2> QED BY <2>1, <2>2
<1> QED BY <1>1, <1>3 DEF ExactInv

\* ... by the local head, whenever it is asked ...
LEMMA FallbackExact ==
  ASSUME HeadInv, ExactInv, NEW c \in Callers, Fallback(c), call[c].at # "idle",
         missed => missed', missed' \in BOOLEAN
  PROVE  ExactInv'
<1>1. PICK t \in LocalTokens(c) : Decided(c, t)
  BY DEF Fallback
<1>2. call[c].greedy => t \in Largest(Vocab, call[c].hidden)
  BY DEF LocalTokens
<1> QED BY <1>1, <1>2, DecidedExact

\* ... or by the candidates of a right answer.
LEMMA AcceptProductExact ==
  ASSUME HeadInv, ExactInv, NEW c \in Callers, AcceptProduct(c)
  PROVE  ExactInv'
<1> DEFINE m == call[c].mask
           x == call[c].hidden
           z == Recovered(call[c].y, pool[m].rho)
<1>1. call[c].at = "computed" /\ m \in Masks /\ x \in Hiddens
  BY DEF HeadInv, PoolInv, ExactInv, AcceptProduct
<1>2. /\ missed' = (missed \/ call[c].y # Product(Input(c)))
      /\ missed' \in BOOLEAN
  BY DEF AcceptProduct, HeadInv, HeadTypeOK
<1>3. CASE Fallback(c)
  BY <1>1, <1>2, <1>3, FallbackExact
<1>4. CASE ~Fallback(c)
  <2>1. PICK t \in Largest(Intervals(c), x) : Decided(c, t)
    BY <1>4 DEF AcceptProduct
  <2>2. ASSUME ~missed' PROVE t \in Largest(Vocab, x)
    <3>1. call[c].y = Product(Masked(ActivationQ(x), pool[m].rho))
      BY <1>2, <2>2 DEF Input
    <3>2. pool[m].rho \in Int
      <4>1. pool[m].rho \in Rhos \cup {0}
        BY <1>1 DEF HeadInv, HeadTypeOK, MaskType
      <4> QED BY <4>1, IntegerType
    <3>3. \A s \in Vocab : z[s] = ActivationQ(x) * WeightQ[s]
      BY <1>1, <3>1, <3>2, RecoveredIsExact
    <3> HIDE DEF z
    <3>4. Largest(Candidates(z, x), x) \subseteq Largest(Vocab, x)
      BY <1>1, <3>3, CandidatesAreEnough
    <3> QED BY <2>1, <3>4 DEF Intervals, z
  <2> QED BY <1>1, <1>2, <2>1, <2>2, DecidedExact
<1> QED BY <1>3, <1>4

\* A step that leaves every decision alone keeps it.
LEMMA NoDecisionExact ==
  ASSUME ExactInv, missed' = missed,
         \A c \in Callers : \/ call'[c] = call[c]
                            \/ /\ call'[c].at # "decided"
                               /\ call'[c].at # "idle" => call'[c].hidden \in Hiddens
  PROVE  ExactInv'
BY DEF ExactInv, TokenIsLargest, Largest, Logit

LEMMA NextExact == HeadInv /\ ExactInv /\ [HeadNext]_headVars => ExactInv'
<1> SUFFICES ASSUME HeadInv, ExactInv, [HeadNext]_headVars PROVE ExactInv'
  OBVIOUS
<1>0. HeadTypeOK
  BY DEF HeadInv
<1>1. ASSUME NEW c \in Callers, NEW x \in Hiddens, NEW greedy \in BOOLEAN,
             Ask(c, x, greedy), UNCHANGED <<pool, sent, faults, missed, past>>
      PROVE  ExactInv'
  BY <1>0, <1>1, NoDecisionExact DEF Ask, NoCall, HeadTypeOK
<1>2. ASSUME NEW c \in Callers, DecideLocally(c) PROVE ExactInv'
  <2>1. Fallback(c) /\ call[c].at # "idle" /\ missed' = missed /\ missed \in BOOLEAN
    BY <1>0, <1>2 DEF DecideLocally, HeadTypeOK
  <2> QED BY <2>1, FallbackExact
<1>3. ASSUME NEW c \in Callers, Reserve(c) PROVE ExactInv'
  BY <1>0, <1>3, NoDecisionExact DEF Reserve, ExactInv, HeadTypeOK, CallType
<1>4. ASSUME NEW c \in Callers, Send(c) PROVE ExactInv'
  <2>1. \A d \in Callers : \/ call'[d] = call[d]
                           \/ call'[d].at = "computed" /\ call'[d].hidden = call[d].hidden
                                /\ call[d].at = "reserved"
    BY <1>0, <1>4 DEF Send, HeadTypeOK, CallType
  <2> QED BY <1>4, <2>1, NoDecisionExact DEF Send, ExactInv
<1>5. ASSUME NEW c \in Callers, DecideRaises(c) \/ RejectProduct(c) PROVE ExactInv'
  <2>1. Fallback(c) /\ call[c].at # "idle" /\ missed' = missed /\ missed \in BOOLEAN
    BY <1>0, <1>5 DEF DecideRaises, RejectProduct, HeadTypeOK
  <2> QED BY <2>1, FallbackExact
<1>6. ASSUME NEW c \in Callers, Take(c), UNCHANGED <<pool, sent, faults, missed, past>>
      PROVE  ExactInv'
  BY <1>0, <1>6, NoDecisionExact DEF Take, NoCall, HeadTypeOK
<1>7. CASE UNCHANGED call /\ missed' = missed
  BY <1>7, NoDecisionExact
<1>8. CASE HeadRestart
  BY <1>8, NoDecisionExact DEF HeadRestart, NoCall
<1> QED BY <1>1, <1>2, <1>3, <1>4, <1>5, <1>6, <1>7, <1>8, AcceptProductExact
        DEF HeadNext, Decide, headVars

LEMMA InitExact == HeadInit => ExactInv
BY DEF HeadInit, NoCall, ExactInv, TokenIsLargest

\* A greedy decision returns the exact head's token, through the masked, quantized
\* product as through the local head, unless a wrong product passed the challenges:
\* for any weights, scales, masks, challenges and faults, in a ring that holds the
\* product.
THEOREM TokensAreLargest == HeadSpec => []TokenIsLargest
<1>1. HeadInit => HeadInv /\ ExactInv
  BY InitInv, InitExact
<1>2. HeadInv /\ ExactInv /\ [HeadNext]_headVars => (HeadInv /\ ExactInv)'
  BY NextInv, NextExact
<1>3. ExactInv => TokenIsLargest
  BY DEF ExactInv
<1> QED BY <1>1, <1>2, <1>3, PTL DEF HeadSpec

-----------------------------------------------------------------------------
(* The service: streams.                                                    *)

\* The generation is over: the last token ends it, or there are enough.
Complete(o) == o # <<>> /\ (Len(o) = MaxTokens \/ o[Len(o)] \in Eos)

Requests == [at : {"none", "body", "head", "done", "ended"},
             greedy : BOOLEAN, traced : BOOLEAN]
Serving == {"body", "head", "done"}

\* What is on the wire continues what the client has, token by token.
Ends(o, n) == n = Len(o) + 1 /\ Complete(o)
Gives(o, n, e) == n <= Len(o) /\ e = [seq |-> n - 1, token |-> o[n]]
Continues(o, w, g) ==
  \A i \in 1 .. Len(w) :
    \/ w[i] = Done /\ i = Len(w) /\ Ends(o, Len(g) + i)
    \/ Gives(o, Len(g) + i, w[i])

StreamTyped(r, o, w, k, g, l) ==
  /\ r \in Requests
  /\ o \in Seq(Vocab) /\ g \in Seq(Vocab) /\ w \in Seq(Event)
  /\ k \in {"new", "reading", "last", "done", "error"}
  /\ l \in {"up", "cut"}

\* Request r has generated o; w is on the wire of connection l, and client k
\* has read g.
Fits(r, o, w, k, g, l) ==
  /\ StreamTyped(r, o, w, k, g, l)
  /\ Len(g) <= Len(o) /\ \A i \in 1 .. Len(g) : g[i] = o[i]
  /\ Continues(o, w, g)
  /\ r.at = "none" => o = <<>> /\ w = <<>> /\ k \in {"new", "error"}
  /\ k = "new" => r.at = "none"
  /\ r.at \in {"body", "head"} => Len(o) < MaxTokens
  /\ r.at = "done" => Complete(o)
  /\ r.at \in Serving => k \in {"reading", "error"}
  /\ r.at \in Serving /\ l = "up" => k = "reading" /\ Len(g) + Len(w) = Len(o)
  /\ r.at # "ended" => \A i \in 1 .. Len(w) : w[i] # Done
  /\ k \in {"last", "done"} => /\ w = <<>> /\ r.at = "ended"
                               /\ Len(g) = Len(o) /\ Complete(o)

-----------------------------------------------------------------------------
(* What happens to one stream keeps it fitting.                             *)

\* An event is never mistaken for the end.
LEMMA EventIsNotDone ==
  ASSUME NEW n, NEW t \in Vocab
  PROVE  [seq |-> n, token |-> t] # Done
<1>1. t # NoToken
  BY HeadAssumption DEF NoToken
<1> QED BY <1>1 DEF Done

\* Admission: nothing is generated, sent or read yet.
LEMMA AdmitFits ==
  ASSUME NEW s \in Requests
  PROVE  /\ s.at = "body" => Fits(s, <<>>, <<>>, "reading", <<>>, "up")
         /\ s.at = "none" => Fits(s, <<>>, <<>>, "error", <<>>, "up")
<1>1. <<>> \in Seq(Vocab) /\ <<>> \in Seq(Event) /\ Len(<<>>) = 0
  BY EmptySeq
<1> QED BY <1>1, TeeAssumption DEF Fits, StreamTyped, Continues, Serving

\* The request moves on without a token.
LEMMA MoveFits ==
  ASSUME NEW r, NEW s \in Requests, NEW o, NEW w, NEW k, NEW g, NEW l,
         Fits(r, o, w, k, g, l),
         \/ r.at \in Serving /\ s.at = "ended"
         \/ r.at = "body" /\ s.at \in {"body", "head"}
  PROVE  Fits(s, o, w, k, g, l)
BY DEF Fits, StreamTyped, Serving

\* A token is generated and sent.
LEMMA YieldFits ==
  ASSUME NEW r, NEW s \in Requests, NEW o, NEW w, NEW k, NEW g, NEW t \in Vocab,
         Fits(r, o, w, k, g, "up"), r.at = "head",
         s.at = IF t \in Eos \/ Len(o) + 1 = MaxTokens THEN "done" ELSE "body"
  PROVE  Fits(s, Append(o, t), Append(w, [seq |-> Len(o), token |-> t]), k, g, "up")
<1> DEFINE e == [seq |-> Len(o), token |-> t]
           o1 == Append(o, t)
           w1 == Append(w, e)
<1>1. /\ o \in Seq(Vocab) /\ g \in Seq(Vocab) /\ w \in Seq(Event)
      /\ k = "reading" /\ Len(o) < MaxTokens /\ Len(g) + Len(w) = Len(o)
      /\ Len(o) \in Nat /\ Len(g) \in Nat /\ Len(w) \in Nat
  BY DEF Fits, StreamTyped, Serving
<1>2. e # Done /\ e \in Event
  BY <1>1, EventIsNotDone, TeeAssumption DEF Event
<1>3. /\ o1 \in Seq(Vocab) /\ Len(o1) = Len(o) + 1 /\ o1[Len(o) + 1] = t
      /\ \A i \in 1 .. Len(o) : o1[i] = o[i]
  BY <1>1
<1>4. /\ w1 \in Seq(Event) /\ Len(w1) = Len(w) + 1 /\ w1[Len(w) + 1] = e
      /\ \A i \in 1 .. Len(w) : w1[i] = w[i]
  BY <1>1, <1>2
<1> HIDE DEF e, o1, w1
<1>5. \A i \in 1 .. Len(w) : w[i] # Done
  BY DEF Fits
<1>6. Continues(o1, w1, g)
  <2> SUFFICES ASSUME NEW i \in 1 .. Len(w1)
      PROVE  Gives(o1, Len(g) + i, w1[i])
    BY DEF Continues
  <2>1. CASE i = Len(w) + 1
    BY <2>1, <1>1, <1>3, <1>4 DEF e, Gives
  <2>2. CASE i \in 1 .. Len(w)
    <3>1. Gives(o, Len(g) + i, w[i])
      BY <2>2, <1>5 DEF Fits, Continues
    <3>2. Len(g) + i \in 1 .. Len(o)
      BY <3>1, <2>2, <1>1 DEF Gives
    <3> QED BY <3>1, <3>2, <2>2, <1>1, <1>3, <1>4 DEF Gives
  <2> QED BY <2>1, <2>2, <1>1, <1>4
<1>7. \A i \in 1 .. Len(w1) : w1[i] # Done
  BY <1>1, <1>2, <1>4, <1>5
<1>8. s.at = "done" => Complete(o1)
  BY <1>1, <1>3 DEF Complete
<1>9. s.at \in {"body", "done"} /\ (s.at = "body" => Len(o1) < MaxTokens)
  BY <1>1, <1>3, TeeAssumption
<1>10. Len(g) <= Len(o1) /\ \A i \in 1 .. Len(g) : g[i] = o1[i]
  BY <1>1, <1>3 DEF Fits
<1>11. StreamTyped(s, o1, w1, k, g, "up")
  BY <1>1, <1>3, <1>4 DEF StreamTyped
<1>12. Len(g) + Len(w1) = Len(o1)
  BY <1>1, <1>3, <1>4
<1>13. Fits(s, o1, w1, k, g, "up")
  BY <1>1, <1>6, <1>7, <1>8, <1>9, <1>10, <1>11, <1>12 DEF Fits
<1> QED BY <1>13 DEF e, o1, w1

\* The last event is sent.
LEMMA SendDoneFits ==
  ASSUME NEW r, NEW s \in Requests, NEW o, NEW w, NEW k, NEW g,
         Fits(r, o, w, k, g, "up"), r.at = "done", s.at = "ended"
  PROVE  Fits(s, o, Append(w, Done), k, g, "up")
<1> DEFINE w1 == Append(w, Done)
<1>1. /\ o \in Seq(Vocab) /\ g \in Seq(Vocab) /\ w \in Seq(Event)
      /\ k = "reading" /\ Len(g) + Len(w) = Len(o) /\ Complete(o)
      /\ Len(o) \in Nat /\ Len(g) \in Nat /\ Len(w) \in Nat
  BY DEF Fits, StreamTyped, Serving
<1>2. Done \in Event
  BY DEF Event
<1>3. /\ w1 \in Seq(Event) /\ Len(w1) = Len(w) + 1 /\ w1[Len(w) + 1] = Done
      /\ \A i \in 1 .. Len(w) : w1[i] = w[i]
  BY <1>1, <1>2
<1> HIDE DEF w1
<1>4. \A i \in 1 .. Len(w) : w[i] # Done
  BY DEF Fits
<1>5. Continues(o, w1, g)
  <2> SUFFICES ASSUME NEW i \in 1 .. Len(w1)
      PROVE  \/ w1[i] = Done /\ i = Len(w1) /\ Ends(o, Len(g) + i)
             \/ Gives(o, Len(g) + i, w1[i])
    BY DEF Continues
  <2>1. CASE i = Len(w) + 1
    BY <2>1, <1>1, <1>3 DEF Ends
  <2>2. CASE i \in 1 .. Len(w)
    BY <2>2, <1>3, <1>4 DEF Fits, Continues
  <2> QED BY <2>1, <2>2, <1>1, <1>3
<1>6. StreamTyped(s, o, w1, k, g, "up")
  BY <1>1, <1>3 DEF StreamTyped
<1>7. Fits(s, o, w1, k, g, "up")
  BY <1>1, <1>5, <1>6 DEF Fits, Serving
<1> QED BY <1>7 DEF w1

\* The connection is cut and loses what is on the wire from some point on.
LEMMA CutFits ==
  ASSUME NEW r, NEW o, NEW w, NEW k, NEW g, NEW l, Fits(r, o, w, k, g, l),
         r.at # "none", NEW n \in 0 .. Len(w)
  PROVE  Fits(r, o, SubSeq(w, 1, n), k, g, "cut")
<1> DEFINE w1 == SubSeq(w, 1, n)
<1>1. /\ o \in Seq(Vocab) /\ g \in Seq(Vocab) /\ w \in Seq(Event)
      /\ Len(o) \in Nat /\ Len(g) \in Nat /\ Len(w) \in Nat /\ n \in Nat
  BY DEF Fits, StreamTyped
<1>2. /\ w1 \in Seq(Event) /\ Len(w1) = n
      /\ \A i \in 1 .. n : w1[i] = w[i]
  BY <1>1, SubSeqProperties, ElementOfSeq
<1>3. w = <<>> => w1 = <<>>
  BY <1>1, <1>2
<1> HIDE DEF w1
<1>4. Continues(o, w1, g)
  <2> SUFFICES ASSUME NEW i \in 1 .. Len(w1)
      PROVE  \/ w1[i] = Done /\ i = Len(w1) /\ Ends(o, Len(g) + i)
             \/ Gives(o, Len(g) + i, w1[i])
    BY DEF Continues
  <2>1. i \in 1 .. Len(w) /\ w1[i] = w[i] /\ (i = Len(w) => i = Len(w1))
    BY <1>1, <1>2
  <2>2. \/ w[i] = Done /\ i = Len(w) /\ Ends(o, Len(g) + i)
        \/ Gives(o, Len(g) + i, w[i])
    BY <2>1 DEF Fits, Continues
  <2> QED BY <2>1, <2>2
<1>5. StreamTyped(r, o, w1, k, g, "cut")
  BY <1>1, <1>2 DEF Fits, StreamTyped
<1>6. \A i \in 1 .. Len(w1) : i \in 1 .. Len(w) /\ w1[i] = w[i]
  BY <1>1, <1>2
<1>7. Fits(r, o, w1, k, g, "cut")
  BY <1>3, <1>4, <1>5, <1>6 DEF Fits
<1> QED BY <1>7 DEF w1

\* The process ends: the request is over, and the connection cut.
LEMMA RestartFits ==
  ASSUME NEW r, NEW s \in Requests, NEW o, NEW w, NEW k, NEW g, NEW l,
         Fits(r, o, w, k, g, l), r.at # "none", s.at = "ended", NEW n \in 0 .. Len(w)
  PROVE  Fits(s, o, SubSeq(w, 1, n), k, g, "cut")
<1>1. r.at \in Serving \/ r.at = "ended"
  BY DEF Fits, StreamTyped, Requests, Serving
<1>2. Fits(s, o, w, k, g, l)
  <2>1. CASE r.at \in Serving
    BY <2>1, MoveFits
  <2>2. CASE r.at = "ended"
    BY <2>2 DEF Fits, StreamTyped, Serving
  <2> QED BY <1>1, <2>1, <2>2
<1> QED BY <1>2, CutFits

\* The client reads an event: it is the one it expects, or the last.
LEMMA ReadFits ==
  ASSUME NEW r, NEW o, NEW w, NEW k, NEW g, NEW l, Fits(r, o, w, k, g, l),
         w # <<>>, k = "reading"
  PROVE  /\ Head(w) = Done => Fits(r, o, Tail(w), "last", g, l)
         /\ Head(w) # Done =>
              /\ Head(w).seq = Len(g) /\ Head(w).token \in Vocab
              /\ Fits(r, o, Tail(w), "reading", Append(g, Head(w).token), l)
<1>1. /\ o \in Seq(Vocab) /\ g \in Seq(Vocab) /\ w \in Seq(Event) /\ r \in Requests
      /\ Len(o) \in Nat /\ Len(g) \in Nat /\ Len(w) \in Nat /\ Len(w) > 0
      /\ Len(g) <= Len(o) /\ r.at # "none"
  BY DEF Fits, StreamTyped
<1>2. /\ Head(w) = w[1] /\ Tail(w) \in Seq(Event) /\ Len(Tail(w)) = Len(w) - 1
      /\ \A i \in 1 .. Len(Tail(w)) : Tail(w)[i] = w[i + 1]
  BY <1>1, HeadTailProperties
<1> DEFINE w1 == Tail(w)
<1> HIDE DEF w1
<1>0. w1 \in Seq(Event) /\ Len(w1) = Len(w) - 1
  BY <1>2 DEF w1
<1>3. \A i \in 1 .. Len(w1) : i + 1 \in 1 .. Len(w) /\ w1[i] = w[i + 1]
  BY <1>1, <1>2 DEF w1
<1>4. r.at # "ended" => \A i \in 1 .. Len(w) : w[i] # Done
  BY DEF Fits
<1>5. ASSUME Head(w) = Done PROVE Fits(r, o, w1, "last", g, l)
  <2>1. w[1] = Done /\ 1 \in 1 .. Len(w)
    BY <1>1, <1>2, <1>5
  <2>2. Len(w) = 1 /\ Len(g) + 1 = Len(o) + 1 /\ Complete(o)
    <3>1. \/ 1 = Len(w) /\ Ends(o, Len(g) + 1)
          \/ Gives(o, Len(g) + 1, Done)
      BY <2>1 DEF Fits, Continues
    <3>2. ~Gives(o, Len(g) + 1, Done)
      <4>1. Len(g) + 1 <= Len(o) => o[Len(g) + 1] \in Vocab
        BY <1>1
      <4> QED BY <4>1, EventIsNotDone DEF Gives
    <3> QED BY <3>1, <3>2 DEF Ends
  <2>3. w1 = <<>> /\ Len(w1) = 0
    <3>1. Len(w1) = 0
      BY <1>0, <2>2
    <3> QED BY <1>0, <3>1, EmptySeq
  <2>4. r.at = "ended" /\ Len(g) = Len(o)
    BY <1>1, <1>4, <2>1, <2>2
  <2>5. StreamTyped(r, o, w1, "last", g, l)
    BY <1>1, <1>2 DEF Fits, StreamTyped, w1
  <2>6. Continues(o, w1, g)
    BY <2>3 DEF Continues
  <2> QED BY <2>2, <2>3, <2>4, <2>5, <2>6 DEF Fits, Serving
<1>6. ASSUME Head(w) # Done
      PROVE  /\ Head(w).seq = Len(g) /\ Head(w).token \in Vocab
             /\ Fits(r, o, w1, "reading", Append(g, Head(w).token), l)
  <2>1. /\ Len(g) + 1 <= Len(o)
        /\ Head(w) = [seq |-> Len(g) + 1 - 1, token |-> o[Len(g) + 1]]
    <3>1. 1 \in 1 .. Len(w) /\ w[1] # Done /\ Head(w) = w[1]
      BY <1>1, <1>2, <1>6
    <3>2. Gives(o, Len(g) + 1, w[1])
      BY <3>1 DEF Fits, Continues
    <3> QED BY <3>1, <3>2 DEF Gives
  <2>2. /\ Head(w).seq = Len(g) /\ Head(w).token = o[Len(g) + 1]
        /\ Head(w).token \in Vocab
    BY <1>1, <2>1
  <2> DEFINE g1 == Append(g, Head(w).token)
  <2>3. /\ g1 \in Seq(Vocab) /\ Len(g1) = Len(g) + 1 /\ g1[Len(g) + 1] = o[Len(g) + 1]
        /\ \A i \in 1 .. Len(g) : g1[i] = g[i]
    BY <1>1, <2>2
  <2> HIDE DEF g1
  <2>4. Len(g1) <= Len(o) /\ \A i \in 1 .. Len(g1) : g1[i] = o[i]
    <3>1. \A i \in 1 .. Len(g) : g[i] = o[i]
      BY DEF Fits
    <3> QED BY <1>1, <2>1, <2>3, <3>1
  <2>5. Continues(o, w1, g1)
    <3> SUFFICES ASSUME NEW i \in 1 .. Len(w1)
        PROVE  \/ w1[i] = Done /\ i = Len(w1) /\ Ends(o, Len(g1) + i)
               \/ Gives(o, Len(g1) + i, w1[i])
      BY DEF Continues
    <3>1. \/ w[i + 1] = Done /\ i + 1 = Len(w) /\ Ends(o, Len(g) + (i + 1))
          \/ Gives(o, Len(g) + (i + 1), w[i + 1])
      BY <1>3 DEF Fits, Continues
    <3>2. Len(g) + (i + 1) = Len(g1) + i
      <4>1. Len(g) \in Nat /\ Len(g1) = Len(g) + 1 /\ i \in Int
        BY <1>1, <2>3
      <4> QED BY <4>1
    <3>3. i + 1 = Len(w) => i = Len(w1)
      <4>1. Len(w) \in Nat /\ Len(w1) = Len(w) - 1 /\ i \in Int
        BY <1>0, <1>1
      <4> QED BY <4>1
    <3>4. w1[i] = w[i + 1]
      BY <1>3
    <3> QED BY <3>1, <3>2, <3>3, <3>4
  <2>6. StreamTyped(r, o, w1, "reading", g1, l)
    BY <1>1, <1>2, <2>3 DEF Fits, StreamTyped, w1
  <2>7. r.at # "ended" => \A i \in 1 .. Len(w1) : w1[i] # Done
    BY <1>3, <1>4
  <2>8. r.at \in Serving /\ l = "up" => Len(g1) + Len(w1) = Len(o)
    BY <1>1, <1>2, <2>3 DEF Fits, w1
  <2>9. Fits(r, o, w1, "reading", g1, l)
    BY <1>1, <2>4, <2>5, <2>6, <2>7, <2>8 DEF Fits
  <2> QED BY <2>2, <2>9 DEF g1
<1> QED BY <1>5, <1>6 DEF w1

\* The response is over: an answer only after the last event.
LEMMA ReadEndFits ==
  ASSUME NEW r, NEW o, NEW w, NEW k, NEW g, NEW l, Fits(r, o, w, k, g, l),
         w = <<>>, l = "cut" \/ r.at = "ended"
  PROVE  /\ k = "reading" => Fits(r, o, w, "error", g, l)
         /\ k = "last" => Fits(r, o, w, "done", g, l)
BY DEF Fits, StreamTyped, Serving

-----------------------------------------------------------------------------
(* The invariant.                                                           *)

Stream(c) == Fits(req[c], out[c], wire[c], client[c], got[c], line[c])
StreamsTyped ==
  /\ req \in [Callers -> Requests]
  /\ out \in [Callers -> Seq(Vocab)] /\ got \in [Callers -> Seq(Vocab)]
  /\ wire \in [Callers -> Seq(Event)]
  /\ client \in [Callers -> {"new", "reading", "last", "done", "error"}]
  /\ line \in [Callers -> {"up", "cut"}]
  /\ breaks \in Nat
StreamsInv == StreamsTyped /\ \A c \in Callers : Stream(c)

\* As long as no provisioning request acted between another's check of the state
\* and its assignment, one of them at most is past its first check.
ServiceTyped ==
  /\ svc \in {"WAITING_FOR_PROVISIONING", "LOADING_BOUNDARY_PACKAGE", "READY", "FAILED"}
  /\ prov \in [Provisioners -> {"new", "checked", "loading", "leaving", "ended"}]
  /\ loaded \in BOOLEAN /\ raced \in BOOLEAN
Past == {"checked", "loading", "leaving"}
OneProvisions ==
  /\ svc = "WAITING_FOR_PROVISIONING"
       => \A p \in Provisioners : prov[p] \notin {"loading", "leaving"}
  /\ \A p \in Provisioners : prov[p] = "leaving" => loaded
  /\ svc = "READY" => loaded
  /\ ~raced => /\ \A p \in Provisioners :
                     /\ prov[p] = "checked" => svc = "WAITING_FOR_PROVISIONING"
                     /\ prov[p] = "leaving" => svc = "LOADING_BOUNDARY_PACKAGE"
               /\ \A p, q \in Provisioners :
                     prov[p] \in Past /\ prov[q] \in Past => p = q
               /\ svc = "READY"
                    => \A p \in Provisioners : prov[p] \notin {"loading", "leaving"}
ServiceInv ==
  /\ ServiceTyped /\ OneProvisions
  /\ \A c \in Callers : req[c].at \notin {"none", "ended"} => loaded

TeeInv == HeadInv /\ ServiceInv /\ StreamsInv

LEMMA InitTee == Init => TeeInv
<1> SUFFICES ASSUME Init PROVE TeeInv
  OBVIOUS
<1>1. HeadInv
  BY InitInv DEF Init
<1>2. ServiceInv
  BY DEF Init, ServiceInv, ServiceTyped, OneProvisions, Past, NoRequest
<1>3. /\ <<>> \in Seq(Vocab) /\ <<>> \in Seq(Event) /\ Len(<<>>) = 0
      /\ NoRequest \in Requests /\ NoRequest.at = "none"
  BY EmptySeq DEF NoRequest, Requests
<1>4. StreamsInv
  <2>1. StreamsTyped
    BY <1>3 DEF Init, StreamsTyped
  <2>2. Fits(NoRequest, <<>>, <<>>, "new", <<>>, "up")
    BY <1>3, TeeAssumption DEF Fits, StreamTyped, Continues, Serving
  <2>3. ASSUME NEW c \in Callers PROVE Stream(c)
    BY <2>2 DEF Init, Stream
  <2> QED BY <2>1, <2>3 DEF StreamsInv
<1> QED BY <1>1, <1>2, <1>4 DEF TeeInv

-----------------------------------------------------------------------------
(* The service implements MaskedHead.                                       *)

\* Whatever the service does is a step of the head, or leaves it alone.
LEMMA TeeStepIsHeadStep ==
  ASSUME StreamsTyped, [Next]_vars
  PROVE  [HeadNext]_headVars
<1>1. ASSUME NEW c \in Callers, FreshMask(c) PROVE HeadNext
  BY <1>1 DEF FreshMask, HeadNext
<1>2. ASSUME NEW c \in Callers, RunBody(c) PROVE HeadNext
  <2>1. req[c].greedy \in BOOLEAN
    BY DEF StreamsTyped, Requests
  <2> QED BY <1>2, <2>1 DEF RunBody, HeadNext
<1>3. ASSUME NEW c \in Callers, HeadStep(c) PROVE HeadNext
  BY <1>3 DEF HeadStep, HeadNext
<1>4. ASSUME NEW c \in Callers, Yield(c) PROVE HeadNext
  BY <1>4 DEF Yield, HeadNext
<1>5. ASSUME NEW c \in Callers, Dropped(c) PROVE [HeadNext]_headVars
  BY <1>5 DEF Dropped, HeadNext, headVars
<1>6. ASSUME NEW c \in Callers,
             Admit(c) \/ SendDone(c) \/ BodyRaises(c) \/ Cut(c) \/ Receive(c)
      PROVE  UNCHANGED headVars
  BY <1>6 DEF Admit, SendDone, BodyRaises, Cut, Receive, Read, ReadEnd
<1>7. ASSUME NEW p \in Provisioners,
             \/ CheckState(p) \/ MarkLoading(p) \/ CheckLoading(p) \/ MarkReady(p)
             \/ ProvisionRaises(p)
      PROVE  UNCHANGED headVars
  BY <1>7 DEF CheckState, MarkLoading, CheckLoading, MarkReady, ProvisionRaises
<1>8. CASE UNCHANGED vars
  BY <1>8 DEF vars
<1>9. CASE Restart
  BY <1>9 DEF Restart, HeadNext
<1> QED BY <1>1, <1>2, <1>3, <1>4, <1>5, <1>6, <1>7, <1>8, <1>9 DEF Next, Serve

-----------------------------------------------------------------------------
(* Provisioning.                                                            *)

\* A request is admitted when the service is READY, and refused otherwise.
LEMMA AdmitRequest ==
  ASSUME StreamsTyped, NEW c \in Callers, Admit(c)
  PROVE  \E s \in Requests, k \in {"reading", "error"} :
           /\ req' = [req EXCEPT ![c] = s] /\ client' = [client EXCEPT ![c] = k]
           /\ \/ s.at = "body" /\ k = "reading" /\ svc = "READY"
              \/ s.at = "none" /\ k = "error"
<1>1. CASE svc = "READY"
  <2>1. PICK greedy \in BOOLEAN, traced \in BOOLEAN :
          req' = [req EXCEPT ![c] = [at |-> "body", greedy |-> greedy, traced |-> traced]]
    BY <1>1 DEF Admit
  <2>2. PICK s : s = [at |-> "body", greedy |-> greedy, traced |-> traced]
    OBVIOUS
  <2>3. s \in Requests /\ s.at = "body" /\ req' = [req EXCEPT ![c] = s]
    BY <2>1, <2>2 DEF Requests
  <2>4. client' = [client EXCEPT ![c] = "reading"]
    BY <1>1 DEF Admit
  <2> QED BY <1>1, <2>3, <2>4
<1>2. CASE svc # "READY"
  <2>1. PICK s : s = [req[c] EXCEPT !.at = "none"]
    OBVIOUS
  <2>2. req[c] \in Requests
    BY DEF StreamsTyped
  <2>3. s \in Requests /\ s.at = "none"
    BY <2>1, <2>2 DEF Requests
  <2>4. req' = [req EXCEPT ![c].at = "none"] /\ client' = [client EXCEPT ![c] = "error"]
    BY <1>2 DEF Admit
  <2>5. req' = [req EXCEPT ![c] = s]
    BY <2>1, <2>2, <2>4 DEF StreamsTyped, Requests
  <2> QED BY <2>3, <2>4, <2>5
<1> QED BY <1>1, <1>2

\* What the streams do leaves the service as it is.
LEMMA StreamStepService ==
  ASSUME ServiceInv, StreamsTyped, NEW c \in Callers,
         Admit(c) \/ Serve(c) \/ BodyRaises(c) \/ Cut(c) \/ Receive(c)
  PROVE  ServiceInv' /\ svc' = svc
<1>1. UNCHANGED svcVars
  BY DEF Admit, Serve, FreshMask, RunBody, HeadStep, Yield, Dropped, SendDone, BodyRaises,
         Cut, Receive, Read, ReadEnd, streamVars
<1>2. \A d \in Callers : req'[d].at \notin {"none", "ended"} => loaded
  <2>1. CASE Admit(c)
    <3>1. PICK s \in Requests :
            req' = [req EXCEPT ![c] = s] /\ (s.at = "none" \/ svc = "READY")
      BY <2>1, AdmitRequest
    <3> QED BY <3>1 DEF ServiceInv, OneProvisions, StreamsTyped
  <2>2. CASE BodyRaises(c) \/ Cut(c) \/ Receive(c)
    BY <2>2 DEF BodyRaises, Cut, Receive, Read, ReadEnd, At, GoTo, ServiceInv, StreamsTyped
  <2>3. CASE FreshMask(c) \/ RunBody(c) \/ HeadStep(c) \/ Yield(c)
    BY <2>3 DEF FreshMask, RunBody, HeadStep, Yield, At, GoTo, AfterYield, ServiceInv,
                StreamsTyped, streamVars
  <2>4. CASE Dropped(c) \/ SendDone(c)
    BY <2>4 DEF Dropped, SendDone, At, GoTo, ServiceInv, StreamsTyped
  <2> QED BY <2>1, <2>2, <2>3, <2>4 DEF Serve
<1> QED BY <1>1, <1>2 DEF ServiceInv, ServiceTyped, OneProvisions, svcVars

LEMMA ProvisionService ==
  ASSUME ServiceInv, NEW p \in Provisioners,
         \/ CheckState(p) \/ MarkLoading(p) \/ CheckLoading(p) \/ MarkReady(p)
         \/ ProvisionRaises(p)
  PROVE  ServiceInv' /\ UNCHANGED streamVars
<1> USE DEF ServiceInv, ServiceTyped, OneProvisions, Past, Provision
<1>1. CASE CheckState(p)
  BY <1>1 DEF CheckState, streamVars
<1>2. CASE MarkLoading(p)
  BY <1>2 DEF MarkLoading, streamVars
<1>3. CASE MarkReady(p)
  BY <1>3 DEF MarkReady, streamVars
<1>4. CASE ProvisionRaises(p)
  BY <1>4 DEF ProvisionRaises, streamVars
<1>5. CASE CheckLoading(p)
  BY <1>5 DEF CheckLoading, streamVars
<1> QED BY <1>1, <1>2, <1>3, <1>4, <1>5

\* A new process has one provisioning request at a time again: those of the old one
\* are over.
LEMMA RestartService ==
  ASSUME ServiceInv, StreamsTyped, Restart
  PROVE  ServiceInv'
<1>1. \A c \in Callers : req'[c].at \in {"none", "ended"}
  BY DEF Restart, At, StreamsTyped, Requests
<1>2. \A p \in Provisioners : prov'[p] \in {"new", "ended"}
  BY DEF Restart
<1>3. ServiceTyped' /\ OneProvisions'
  BY <1>2 DEF Restart, ServiceTyped, OneProvisions, Past
<1> QED BY <1>1, <1>3 DEF ServiceInv

-----------------------------------------------------------------------------
(* The streams.                                                             *)

Undisturbed(d) ==
  /\ req'[d] = req[d] /\ out'[d] = out[d] /\ wire'[d] = wire[d]
  /\ client'[d] = client[d] /\ got'[d] = got[d] /\ line'[d] = line[d]

\* A step of one stream that fits afterwards keeps them all.
LEMMA OneStream ==
  ASSUME StreamsInv, NEW c \in Callers, StreamsTyped',
         \A d \in Callers \ {c} : Undisturbed(d),
         Fits(req'[c], out'[c], wire'[c], client'[c], got'[c], line'[c])
  PROVE  StreamsInv'
<1>1. ASSUME NEW d \in Callers PROVE Stream(d)'
  BY <1>1 DEF StreamsInv, Stream, Undisturbed
<1> QED BY <1>1 DEF StreamsInv

\* A request that moves on without a token.
LEMMA MoveStream ==
  ASSUME StreamsInv, NEW c \in Callers, NEW s \in Requests,
         req' = [req EXCEPT ![c] = s],
         \/ req[c].at \in Serving /\ s.at = "ended"
         \/ req[c].at = "body" /\ s.at \in {"body", "head"},
         UNCHANGED <<out, wire, client, got, line>>, breaks' \in Nat
  PROVE  StreamsInv'
<1>1. Fits(s, out[c], wire[c], client[c], got[c], line[c])
  BY MoveFits DEF StreamsInv, Stream
<1>2. StreamsTyped'
  BY DEF StreamsInv, StreamsTyped
<1>3. /\ req'[c] = s
      /\ \A d \in Callers \ {c} : Undisturbed(d)
  BY DEF StreamsInv, StreamsTyped, Undisturbed
<1> QED BY <1>1, <1>2, <1>3, OneStream

\* Changing where a request is.
LEMMA GoToType ==
  ASSUME StreamsInv, NEW c \in Callers, NEW at \in {"body", "head", "done", "ended"},
         GoTo(c, at)
  PROVE  \E s \in Requests : req' = [req EXCEPT ![c] = s] /\ s.at = at
<1> DEFINE s == [req[c] EXCEPT !.at = at]
<1>1. req[c] \in Requests
  BY DEF StreamsInv, StreamsTyped
<1>2. s \in Requests /\ s.at = at
  BY <1>1 DEF Requests
<1>3. req' = [req EXCEPT ![c] = s]
  BY <1>1 DEF StreamsInv, StreamsTyped, Requests, GoTo
<1> QED BY <1>2, <1>3

LEMMA AdmitStream ==
  ASSUME StreamsInv, NEW c \in Callers, Admit(c)
  PROVE  StreamsInv'
<1>2. PICK s \in Requests, k \in {"reading", "error"} :
        /\ req' = [req EXCEPT ![c] = s] /\ client' = [client EXCEPT ![c] = k]
        /\ \/ s.at = "body" /\ k = "reading" /\ svc = "READY"
           \/ s.at = "none" /\ k = "error"
  BY AdmitRequest DEF StreamsInv
<1>3. /\ out' = [out EXCEPT ![c] = <<>>] /\ wire' = [wire EXCEPT ![c] = <<>>]
      /\ got' = [got EXCEPT ![c] = <<>>] /\ line' = [line EXCEPT ![c] = "up"]
      /\ UNCHANGED breaks
  BY DEF Admit
<1>4. StreamsTyped'
  BY <1>2, <1>3, EmptySeq DEF StreamsInv, StreamsTyped
<1>5. /\ req'[c] = s /\ client'[c] = k /\ out'[c] = <<>> /\ wire'[c] = <<>>
      /\ got'[c] = <<>> /\ line'[c] = "up"
      /\ \A d \in Callers \ {c} : Undisturbed(d)
  BY <1>2, <1>3 DEF StreamsInv, StreamsTyped, Undisturbed
<1>6. Fits(s, <<>>, <<>>, k, <<>>, "up")
  BY <1>2, AdmitFits
<1> QED BY <1>4, <1>5, <1>6, OneStream

LEMMA FreshMaskStream ==
  ASSUME StreamsInv, NEW c \in Callers, FreshMask(c)
  PROVE  StreamsInv'
<1> DEFINE s == [req[c] EXCEPT !.traced = FALSE]
<1>1. req[c] \in Requests /\ req[c].at = "body" /\ breaks' \in Nat
  BY DEF StreamsInv, StreamsTyped, FreshMask, At
<1>2. s \in Requests /\ s.at = "body"
  BY <1>1 DEF Requests
<1>3. req' = [req EXCEPT ![c] = s]
  BY <1>1 DEF StreamsInv, StreamsTyped, Requests, FreshMask
<1>4. UNCHANGED <<out, wire, client, got, line>>
  BY DEF FreshMask
<1> HIDE DEF s
<1> QED BY <1>1, <1>2, <1>3, <1>4, MoveStream

LEMMA RunBodyStream ==
  ASSUME StreamsInv, NEW c \in Callers, RunBody(c)
  PROVE  StreamsInv'
<1>1. PICK s \in Requests : req' = [req EXCEPT ![c] = s] /\ s.at = "head"
  BY GoToType DEF RunBody
<1>2. req[c].at = "body" /\ UNCHANGED <<out, wire, client, got, line>> /\ breaks' \in Nat
  BY DEF RunBody, At, StreamsInv, StreamsTyped
<1> QED BY <1>1, <1>2, MoveStream

LEMMA EndStream ==
  ASSUME StreamsInv, NEW c \in Callers, BodyRaises(c) \/ Dropped(c)
  PROVE  StreamsInv'
<1>1. PICK s \in Requests : req' = [req EXCEPT ![c] = s] /\ s.at = "ended"
  BY GoToType DEF BodyRaises, Dropped
<1>2. /\ req[c].at \in Serving /\ UNCHANGED <<out, wire, client, got, line>>
      /\ breaks' \in Nat
  BY DEF BodyRaises, Dropped, At, StreamsInv, StreamsTyped, Serving
<1> QED BY <1>1, <1>2, MoveStream

LEMMA YieldStream ==
  ASSUME HeadInv, StreamsInv, NEW c \in Callers, Yield(c)
  PROVE  StreamsInv'
<1> DEFINE t == call[c].token
           e == [seq |-> Len(out[c]), token |-> t]
           o1 == Append(out[c], t)
           w1 == Append(wire[c], e)
<1>1. /\ t \in Vocab /\ req[c].at = "head" /\ line[c] = "up"
      /\ out[c] \in Seq(Vocab) /\ Len(out[c]) \in Nat
      /\ Fits(req[c], out[c], wire[c], client[c], got[c], "up")
  BY DEF Yield, Take, At, HeadInv, PoolInv, StreamsInv, StreamsTyped, Stream
<1>2. out' = [out EXCEPT ![c] = o1] /\ wire' = [wire EXCEPT ![c] = w1]
  BY DEF Yield, StreamsInv, StreamsTyped
<1>3. out'[c] = o1 /\ o1[Len(o1)] = t /\ Len(o1) = Len(out[c]) + 1
  BY <1>1, <1>2 DEF StreamsInv, StreamsTyped
<1> HIDE DEF e, o1, w1, t
<1>4. PICK s \in Requests :
        /\ req' = [req EXCEPT ![c] = s]
        /\ s.at = IF t \in Eos \/ Len(out[c]) + 1 = MaxTokens THEN "done" ELSE "body"
  BY <1>3, GoToType DEF Yield, AfterYield
<1>5. Fits(s, o1, w1, client[c], got[c], "up")
  BY <1>1, <1>4, YieldFits DEF o1, w1, e
<1>6. o1 \in Seq(Vocab) /\ w1 \in Seq(Event)
  BY <1>5 DEF Fits, StreamTyped
<1>7. UNCHANGED <<client, got, line, breaks>>
  BY DEF Yield
<1>8. StreamsTyped'
  BY <1>2, <1>4, <1>6, <1>7 DEF StreamsInv, StreamsTyped
<1>9. /\ req'[c] = s /\ wire'[c] = w1
      /\ \A d \in Callers \ {c} : Undisturbed(d)
  BY <1>2, <1>4, <1>7 DEF StreamsInv, StreamsTyped, Undisturbed
<1> QED BY <1>1, <1>3, <1>5, <1>7, <1>8, <1>9, OneStream

LEMMA SendDoneStream ==
  ASSUME StreamsInv, NEW c \in Callers, SendDone(c)
  PROVE  StreamsInv'
<1> DEFINE w1 == Append(wire[c], Done)
<1>1. /\ req[c].at = "done" /\ line[c] = "up"
      /\ Fits(req[c], out[c], wire[c], client[c], got[c], "up")
  BY DEF SendDone, At, StreamsInv, Stream
<1>2. wire' = [wire EXCEPT ![c] = w1] /\ UNCHANGED <<out, client, got, line, breaks>>
  BY DEF SendDone, StreamsInv, StreamsTyped
<1>3. PICK s \in Requests : req' = [req EXCEPT ![c] = s] /\ s.at = "ended"
  BY GoToType DEF SendDone
<1>4. Fits(s, out[c], w1, client[c], got[c], "up")
  BY <1>1, <1>3, SendDoneFits
<1> HIDE DEF w1
<1>5. w1 \in Seq(Event)
  BY <1>4 DEF Fits, StreamTyped
<1>6. StreamsTyped'
  BY <1>2, <1>3, <1>5 DEF StreamsInv, StreamsTyped
<1>7. /\ req'[c] = s /\ wire'[c] = w1
      /\ \A d \in Callers \ {c} : Undisturbed(d)
  BY <1>2, <1>3 DEF StreamsInv, StreamsTyped, Undisturbed
<1> QED BY <1>1, <1>2, <1>4, <1>6, <1>7, OneStream

LEMMA CutStream ==
  ASSUME StreamsInv, NEW c \in Callers, Cut(c)
  PROVE  StreamsInv'
<1>1. PICK n \in 0 .. Len(wire[c]) : wire' = [wire EXCEPT ![c] = SubSeq(wire[c], 1, n)]
  BY DEF Cut, StreamsInv, StreamsTyped
<1> DEFINE w1 == SubSeq(wire[c], 1, n)
<1>2. /\ req[c].at # "none"
      /\ Fits(req[c], out[c], wire[c], client[c], got[c], "up")
  BY DEF Cut, At, StreamsInv, Stream
<1>3. Fits(req[c], out[c], w1, client[c], got[c], "cut")
  BY <1>2, CutFits
<1> HIDE DEF w1
<1>4. wire' = [wire EXCEPT ![c] = w1] /\ w1 \in Seq(Event)
  BY <1>1, <1>3 DEF w1, Fits, StreamTyped
<1>5. line' = [line EXCEPT ![c] = "cut"] /\ UNCHANGED <<req, out, client, got>>
  BY DEF Cut
<1>6. StreamsTyped'
  BY <1>4, <1>5 DEF Cut, StreamsInv, StreamsTyped
<1>7. /\ line'[c] = "cut" /\ wire'[c] = w1
      /\ \A d \in Callers \ {c} : Undisturbed(d)
  BY <1>4, <1>5 DEF StreamsInv, StreamsTyped, Undisturbed
<1> QED BY <1>3, <1>5, <1>6, <1>7, OneStream

\* What the client reads is what it expects: it never reports an error while the
\* connection holds.
LEMMA ReadStream ==
  ASSUME StreamsInv, NEW c \in Callers, Read(c)
  PROVE  StreamsInv'
<1> DEFINE w == wire[c]
           w1 == Tail(wire[c])
<1>1. w # <<>> /\ w \in Seq(Event) /\ Fits(req[c], out[c], w, client[c], got[c], line[c])
  BY DEF Read, StreamsInv, StreamsTyped, Stream
<1>2. client[c] = "reading"
  BY <1>1 DEF Read, Turn, Fits
<1>3. /\ Head(w) = Done => Fits(req[c], out[c], w1, "last", got[c], line[c])
      /\ Head(w) # Done =>
           /\ Head(w).seq = Len(got[c]) /\ Head(w).token \in Vocab
           /\ Fits(req[c], out[c], w1, "reading", Append(got[c], Head(w).token), line[c])
  BY <1>1, <1>2, ReadFits
<1> HIDE DEF w1
<1>4. wire' = [wire EXCEPT ![c] = w1] /\ UNCHANGED <<req, out, line, breaks>>
  BY DEF Read, StreamsInv, StreamsTyped, w1
<1>5. CASE Head(w) = Done
  <2>1. client' = [client EXCEPT ![c] = "last"] /\ UNCHANGED got
    BY <1>5 DEF Read, Turn
  <2>2. w1 \in Seq(Event)
    BY <1>3, <1>5 DEF Fits, StreamTyped
  <2>3. StreamsTyped'
    BY <1>4, <2>1, <2>2 DEF StreamsInv, StreamsTyped
  <2>4. /\ client'[c] = "last" /\ wire'[c] = w1
        /\ \A d \in Callers \ {c} : Undisturbed(d)
    BY <1>4, <2>1 DEF StreamsInv, StreamsTyped, Undisturbed
  <2> QED BY <1>3, <1>4, <1>5, <2>1, <2>3, <2>4, OneStream
<1>6. CASE Head(w) # Done
  <2> DEFINE g1 == Append(got[c], Head(w).token)
  <2>1. Fits(req[c], out[c], w1, "reading", g1, line[c])
    BY <1>3, <1>6
  <2>2. /\ client' = [client EXCEPT ![c] = "reading"]
        /\ got' = [got EXCEPT ![c] = g1]
    BY <1>2, <1>3, <1>6 DEF Read, Turn, StreamsInv, StreamsTyped
  <2> HIDE DEF g1
  <2>3. w1 \in Seq(Event) /\ g1 \in Seq(Vocab)
    BY <2>1 DEF Fits, StreamTyped
  <2>4. StreamsTyped'
    BY <1>4, <2>2, <2>3 DEF StreamsInv, StreamsTyped
  <2>5. /\ client'[c] = "reading" /\ wire'[c] = w1 /\ got'[c] = g1
        /\ \A d \in Callers \ {c} : Undisturbed(d)
    BY <1>4, <2>2 DEF StreamsInv, StreamsTyped, Undisturbed
  <2> QED BY <1>4, <2>1, <2>4, <2>5, OneStream
<1> QED BY <1>5, <1>6

LEMMA ReadEndStream ==
  ASSUME StreamsInv, NEW c \in Callers, ReadEnd(c)
  PROVE  StreamsInv'
<1>1. /\ wire[c] = <<>> /\ (line[c] = "cut" \/ req[c].at = "ended")
      /\ Fits(req[c], out[c], wire[c], client[c], got[c], line[c])
  BY DEF ReadEnd, StreamOver, At, StreamsInv, Stream
<1>2. /\ client[c] = "reading" => Fits(req[c], out[c], wire[c], "error", got[c], line[c])
      /\ client[c] = "last" => Fits(req[c], out[c], wire[c], "done", got[c], line[c])
  BY <1>1, ReadEndFits
<1>3. PICK k \in {"error", "done"} :
        /\ client' = [client EXCEPT ![c] = k]
        /\ Fits(req[c], out[c], wire[c], k, got[c], line[c])
  BY <1>2 DEF ReadEnd, Turn
<1>4. UNCHANGED <<req, out, wire, got, line, breaks>>
  BY DEF ReadEnd
<1>5. StreamsTyped'
  BY <1>3, <1>4 DEF StreamsInv, StreamsTyped
<1>6. /\ client'[c] = k
      /\ \A d \in Callers \ {c} : Undisturbed(d)
  BY <1>3, <1>4 DEF StreamsInv, StreamsTyped, Undisturbed
<1> QED BY <1>3, <1>4, <1>5, <1>6, OneStream

\* The process ends: every stream is cut.
LEMMA RestartStreams ==
  ASSUME StreamsInv, Restart
  PROVE  StreamsInv'
<1>1. PICK n \in [Callers -> 0 .. MaxTokens + 1] :
        /\ \A c \in Callers : n[c] <= Len(wire[c])
        /\ wire' = [c \in Callers |-> SubSeq(wire[c], 1, n[c])]
  BY DEF Restart
<1>2. ASSUME NEW c \in Callers
      PROVE  /\ req'[c] \in Requests /\ wire'[c] \in Seq(Event)
             /\ Fits(req'[c], out[c], wire'[c], client[c], got[c], line'[c])
             /\ line'[c] \in {"up", "cut"}
  <2>0. /\ Fits(req[c], out[c], wire[c], client[c], got[c], line[c])
        /\ req[c] \in Requests /\ wire[c] \in Seq(Event) /\ Len(wire[c]) \in Nat
        /\ line[c] \in {"up", "cut"}
    BY DEF StreamsInv, StreamsTyped, Stream
  <2>1. n[c] \in 0 .. Len(wire[c]) /\ wire'[c] = SubSeq(wire[c], 1, n[c])
    BY <1>1, <2>0, TeeAssumption
  <2>2. CASE req[c].at = "none"
    <3>1. wire[c] = <<>> /\ wire'[c] = <<>>
      <4>1. wire[c] = <<>>
        BY <2>0, <2>2 DEF Fits
      <4>2. n[c] = 0
        BY <2>1, <4>1, EmptySeq
      <4> QED BY <2>1, <4>1, <4>2
    <3>2. req'[c] = req[c] /\ line'[c] = line[c]
      BY <2>2 DEF Restart, At
    <3> QED BY <2>0, <3>1, <3>2
  <2>3. CASE req[c].at # "none"
    <3>1. req'[c] \in Requests /\ req'[c].at = "ended" /\ line'[c] = "cut"
      BY <2>0, <2>3 DEF Restart, At, Requests
    <3>2. Fits(req'[c], out[c], wire'[c], client[c], got[c], "cut")
      BY <2>0, <2>1, <2>3, <3>1, RestartFits
    <3> QED BY <3>1, <3>2 DEF Fits, StreamTyped
  <2> QED BY <2>2, <2>3
<1>3. UNCHANGED <<out, client, got, breaks>>
  BY DEF Restart
<1>4. /\ req' = [c \in Callers |-> req'[c]] /\ wire' = [c \in Callers |-> wire'[c]]
      /\ line' = [c \in Callers |-> line'[c]]
  BY DEF Restart
<1>5. StreamsTyped'
  BY <1>2, <1>3, <1>4 DEF StreamsInv, StreamsTyped
<1> QED BY <1>2, <1>3, <1>5 DEF StreamsInv, Stream

LEMMA StreamsStutter ==
  ASSUME StreamsInv, UNCHANGED streamVars
  PROVE  StreamsInv'
BY DEF StreamsInv, StreamsTyped, Stream, streamVars

LEMMA TeeNextInv == TeeInv /\ [Next]_vars => TeeInv'
<1> SUFFICES ASSUME TeeInv, [Next]_vars PROVE TeeInv'
  OBVIOUS
<1> USE DEF TeeInv
<1>1. StreamsTyped
  BY DEF StreamsInv
<1>2. HeadInv'
  BY <1>1, TeeStepIsHeadStep, NextInv
<1>3. ASSUME NEW p \in Provisioners,
             \/ CheckState(p) \/ MarkLoading(p) \/ CheckLoading(p) \/ MarkReady(p)
             \/ ProvisionRaises(p)
      PROVE  ServiceInv' /\ StreamsInv'
  BY <1>3, ProvisionService, StreamsStutter
<1>4. ASSUME NEW c \in Callers,
             Admit(c) \/ Serve(c) \/ BodyRaises(c) \/ Cut(c) \/ Receive(c)
      PROVE  ServiceInv' /\ StreamsInv'
  <2>1. ServiceInv'
    BY <1>1, <1>4, StreamStepService
  <2>2. CASE HeadStep(c)
    BY <2>1, <2>2, StreamsStutter DEF HeadStep
  <2>3. CASE ~HeadStep(c)
    BY <1>4, <2>1, <2>3, AdmitStream, FreshMaskStream, RunBodyStream, EndStream, YieldStream,
       SendDoneStream, CutStream, ReadStream, ReadEndStream DEF Serve, Receive
  <2> QED BY <2>1, <2>2, <2>3
<1>5. ASSUME UNCHANGED vars PROVE ServiceInv' /\ StreamsInv'
  <2>1. UNCHANGED svcVars /\ UNCHANGED streamVars
    BY <1>5 DEF vars, svcVars, streamVars
  <2>2. ServiceInv'
    BY <2>1 DEF svcVars, streamVars, ServiceInv, ServiceTyped, OneProvisions
  <2> QED BY <2>1, <2>2, StreamsStutter
<1>6. ASSUME Restart PROVE ServiceInv' /\ StreamsInv'
  BY <1>1, <1>6, RestartService, RestartStreams
<1>7. ServiceInv' /\ StreamsInv'
  BY <1>3, <1>4, <1>5, <1>6 DEF Next
<1> QED BY <1>2, <1>7

-----------------------------------------------------------------------------
\* The inductive invariant of the service: the mask pool's, one provisioning
\* request at a time, and streams that continue what their clients have.
THEOREM TeeInvariant == Spec => []TeeInv
  BY InitTee, TeeNextInv, PTL DEF Spec

\* The service implements MaskedHead: it initialises the mask pool and the
\* decisions as that module does, and each of its steps, whatever requests,
\* provisioning and broken connections do, is a step of it or leaves it alone.
THEOREM ServiceIsMaskedHead == Spec => HeadSpec
<1>1. Init => HeadInit
  BY DEF Init
<1>2. TeeInv /\ [Next]_vars => [HeadNext]_headVars
  BY TeeStepIsHeadStep DEF TeeInv, StreamsInv
<1> QED BY <1>1, <1>2, TeeInvariant, PTL DEF Spec, HeadSpec

\* So a mask is used once inside the service, too.
THEOREM ServiceMasksAreUsedOnce == Spec => []MaskUsedOnce
  BY ServiceIsMaskedHead, MasksAreUsedOnce, PTL

\* And the service's greedy tokens are the exact head's.
THEOREM ServiceTokensAreLargest == Spec => []TokenIsLargest
  BY ServiceIsMaskedHead, TokensAreLargest, PTL

\* A client that reports an answer has all of it, in order, and nothing else: for
\* any number of streams, any answer length and any number of broken connections.
THEOREM AnswersAreWhole == Spec => []AnswerIsWhole
<1>1. TeeInv => AnswerIsWhole
  <2> SUFFICES ASSUME TeeInv, NEW c \in Callers
      PROVE  /\ client[c] = "done"
                  => /\ got[c] = out[c] /\ out[c] # <<>>
                     /\ Len(out[c]) = MaxTokens \/ out[c][Len(out[c])] \in Eos
             /\ Len(got[c]) <= Len(out[c]) /\ got[c] = SubSeq(out[c], 1, Len(got[c]))
    BY DEF AnswerIsWhole
  <2> DEFINE g == got[c]
             o == out[c]
  <2>1. /\ g \in Seq(Vocab) /\ o \in Seq(Vocab) /\ Len(g) <= Len(o)
        /\ \A i \in 1 .. Len(g) : g[i] = o[i]
        /\ client[c] = "done" => Len(g) = Len(o) /\ Complete(o)
    BY DEF TeeInv, StreamsInv, Stream, Fits, StreamTyped
  <2> HIDE DEF g, o
  <2>2. Len(g) = Len(o) => g = o
    BY <2>1, SeqEqual
  <2>3. g = SubSeq(o, 1, Len(g))
    <3>1. Len(g) \in Nat /\ Len(o) \in Nat /\ \A i \in 1 .. Len(g) : o[i] \in Vocab
      BY <2>1
    <3> DEFINE p == SubSeq(o, 1, Len(g))
    <3>2. /\ p \in Seq(Vocab) /\ Len(p) = Len(g)
          /\ \A i \in 1 .. Len(g) : p[i] = o[i]
      BY <2>1, <3>1
    <3> HIDE DEF p
    <3>3. g = p
      BY <2>1, <3>2, SeqEqual
    <3> QED BY <3>3 DEF p
  <2> QED BY <2>1, <2>2, <2>3 DEF g, o, Complete
<1> QED BY <1>1, TeeInvariant, PTL

\* A request is served only after a boundary package was loaded.
THEOREM ServedAfterLoading == Spec => []ServedIsLoaded
<1>1. TeeInv => ServedIsLoaded
  BY DEF TeeInv, ServiceInv, OneProvisions, ServedIsLoaded
<1> QED BY <1>1, TeeInvariant, PTL

\* FAILED is final in a process, unless a provisioning request acted between another's
\* check of the state and its assignment.
THEOREM FailureIsFinal == Spec => FailedIsFinal
<1>1. TeeInv /\ [Next]_vars
        => ((svc = "FAILED" /\ ~raced' /\ UNCHANGED restarts) => svc' = "FAILED")
  <2> SUFFICES ASSUME TeeInv, [Next]_vars, svc = "FAILED", ~raced', UNCHANGED restarts
               PROVE  svc' = "FAILED"
    OBVIOUS
  <2>1. ASSUME NEW p \in Provisioners,
               \/ CheckState(p) \/ MarkLoading(p) \/ CheckLoading(p) \/ MarkReady(p)
               \/ ProvisionRaises(p)
        PROVE  svc' = "FAILED"
    BY <2>1 DEF TeeInv, ServiceInv, OneProvisions, CheckState, MarkLoading, CheckLoading,
       MarkReady, ProvisionRaises, Provision
  <2>2. ASSUME NEW c \in Callers,
               Admit(c) \/ Serve(c) \/ BodyRaises(c) \/ Cut(c) \/ Receive(c)
        PROVE  svc' = "FAILED"
    BY <2>2, StreamStepService DEF TeeInv, StreamsInv
  <2>3. CASE UNCHANGED vars
    BY <2>3 DEF vars
  <2>4. ~Restart
    BY DEF Restart, HeadRestart, TeeInv, HeadInv, HeadTypeOK
  <2> QED BY <2>1, <2>2, <2>3, <2>4 DEF Next
<1> QED BY <1>1, TeeInvariant, PTL DEF Spec, FailedIsFinal

\* The type invariant of the service.
THEOREM TeeTypes == Spec => []TypeOK
<1>1. TeeInv => TypeOK
  BY DEF TeeInv, HeadInv, ServiceInv, ServiceTyped, StreamsInv, StreamsTyped, Requests,
         TypeOK, Tokens
<1> QED BY <1>1, TeeInvariant, PTL
=============================================================================
