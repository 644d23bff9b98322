----------------------------- MODULE KeyOrders -----------------------------
(***************************************************************************)
(* The permutations of a key: of the vocabulary, of heads within the groups *)
(* that share a key/value head, and of experts within the router's groups.  *)
(* A tensor's order says where each new place comes from; tau says where    *)
(* each plain token goes.                                                   *)
(***************************************************************************)
EXTENDS Integers

Places(n) == 0 .. n - 1

(* What torch.randperm returns and validate_permutation accepts. *)
PermutationsOf(n) ==
    {order \in [Places(n) -> Places(n)] :
        \A v \in Places(n) : \E i \in Places(n) :
            order[i] = v /\ \A j \in Places(n) : order[j] = v => j = i}

InversePermutation(order) ==
    [v \in DOMAIN order |-> CHOOSE i \in DOMAIN order : order[i] = v]

PermuteVocabRows(weight, tau) ==
    [row \in DOMAIN tau |-> weight[InversePermutation(tau)[row]]]

EncodePrivate(token, tau) == tau[token]
DecodePrivate(id, tau) == InversePermutation(tau)[id]

(* The members of an old group come together, in an order of their own: the    *)
(* k-th group of the new numbering is the old group groupOrder[k].             *)
GroupedOrder(groupOrder, within, size, n) ==
    [i \in Places(n * size) |->
        within[i \div size][i % size] + groupOrder[i \div size] * size]
=============================================================================
