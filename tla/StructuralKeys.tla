--------------------------- MODULE StructuralKeys ---------------------------
(***************************************************************************)
(* The matrices and orders a private model is made with: the key pair of    *)
(* Algorithm 1 with its family of inverses, and for each kind of decoder    *)
(* layer the orders and maps of Algorithm 2.  A draw or a seed stands for   *)
(* everything real-valued that the generators take from it.                 *)
(***************************************************************************)
EXTENDS FieldAlgebra, Sequences

CONSTANTS
    Angle(_, _),        \* rotation <<cosine, sine>> number n of a seed
    Scale(_, _),        \* non-zero scale number n of a seed
    Randperm(_, _, _),  \* permutation number n of a seed, of a size
    ValueMap(_, _, _)   \* invertible map number n of a seed, of a dimension

-----------------------------------------------------------------------------
(* Algorithm 1.  A draw has half of expansion_h = 2: a null space is spanned   *)
(* by one vector.                                                              *)

NullVector(a) ==
    CHOOSE v \in [DOMAIN a[0] -> Field] :
        v # [i \in DOMAIN v |-> 0] /\ MatVec(a, v) = [i \in DOMAIN a |-> 0]
Outer(x, y) == [i \in DOMAIN x |-> Scaled(y, x[i])]

\* INVKEYMATGEN: Q = Z^T [B^-1; F; D] with E D = 0, for any coefficients of D.
InverseKey(draw, coefficients) ==
    MatMul(Transposed(draw.z),
        Concat(Concat(InverseMatrix(draw.b), draw.f),
               Outer(NullVector(draw.e), coefficients)))

\* P = [B, C, E] Z with C F = 0.
MakeKeyPair(draw) ==
    LET c == Outer(draw.c, NullVector(Transposed(draw.f)))
        base == [i \in DOMAIN draw.b |-> Concat(Concat(draw.b[i], c[i]), draw.e[i])]
    IN [p |-> MatMul(base, draw.z), q |-> InverseKey(draw, draw.d)]

MakeInverseFamily(draw) ==
    [head |-> InverseKey(draw, draw.inverse[1]),
     attentionQ |-> InverseKey(draw, draw.inverse[2]),
     attentionK |-> InverseKey(draw, draw.inverse[3]),
     attentionV |-> InverseKey(draw, draw.inverse[4]),
     ffnGate |-> InverseKey(draw, draw.inverse[5]),
     ffnUp |-> InverseKey(draw, draw.inverse[6])]

-----------------------------------------------------------------------------
(* Maps that commute with the rotary embedding: of pairs half a head apart, or *)
(* of neighbours.                                                              *)

HalfSplitRotation(n, seed, from) ==
    LET half == n \div 2
        C(i) == Angle(seed, from + i)[1]
        S(i) == Angle(seed, from + i)[2]
    IN [i \in Places(n) |-> [j \in Places(n) |->
            CASE j = i -> C(i % half)
              [] j = i + half -> Minus(S(i))
              [] i = j + half -> S(j)
              [] OTHER -> 0]]

InterleavedRotation(n, seed, from) ==
    LET C(i) == Angle(seed, from + (i \div 2))[1]
        S(i) == Angle(seed, from + (i \div 2))[2]
    IN [i \in Places(n) |-> [j \in Places(n) |->
            CASE j = i -> C(i)
              [] j = i + 1 /\ i % 2 = 0 -> Minus(S(i))
              [] j = i - 1 /\ i % 2 = 1 -> S(i)
              [] OTHER -> 0]]

\* An orthogonal matrix no rotary embedding has to commute with.
Orthogonal(n, seed, from) == HalfSplitRotation(n, seed, from)

(* BlockPerm: windows of at most beta blocks, each permuted in itself.         *)
RECURSIVE BlockOrdersFrom(_, _, _)
BlockOrdersFrom(start, blocks, beta) ==
    IF start = blocks THEN {<<>>}
    ELSE UNION {{[i \in 1..window |-> local[i - 1] + start] \o rest :
                    local \in PermutationsOf(window),
                    rest \in BlockOrdersFrom(start + window, blocks, beta)} :
                window \in 1..(IF beta < blocks - start THEN beta ELSE blocks - start)}
BlockOrders(blocks, beta) ==
    {[i \in Places(blocks) |-> order[i + 1]] : order \in BlockOrdersFrom(0, blocks, beta)}

\* B[order[j], j] = 1 in both halves of a head, and for interleaved pairs.
BlockMatrix(order) ==
    LET blocks == Size(order)
        coordinate == Concat(order, [i \in DOMAIN order |-> order[i] + blocks])
    IN [i \in Places(2 * blocks) |-> [j \in Places(2 * blocks) |->
            IF coordinate[j] = i THEN 1 ELSE 0]]
PairPermutation(order) ==
    [i \in Places(2 * Size(order)) |-> [j \in Places(2 * Size(order)) |->
        IF i = 2 * order[j \div 2] + (j % 2) THEN 1 ELSE 0]]

Scales(n, seed, from) == [i \in Places(n) |-> Scale(seed, from + i)]
Sign(seed, n) == IF Scale(seed, n) < Prime \div 2 THEN 1 ELSE Prime - 1
Twice(v) == Concat(v, v)
EachTwice(v) == [i \in Places(2 * Size(v)) |-> v[i \div 2]]
Same(v) == v

-----------------------------------------------------------------------------
(* The keys of a layer's attention: orders of heads, and by old group the maps *)
(* of queries and keys, which cancel in a score, and of values.                *)

GroupSize(s) == s.heads \div s.groups
Heads(s, kvOrder, within) == GroupedOrder(kvOrder, within, GroupSize(s), s.groups)
ValueMaps(seed, n, dim) == [g \in Places(n) |-> ValueMap(seed, g, dim)]
Stretched(rotation, scales) == MatMul(rotation, Diagonal(scales))

AttentionKey(s, seed, kvOrder, within, qMaps, kMaps) ==
    [qOrder |-> Heads(s, kvOrder, within), kvOrder |-> kvOrder,
     qMaps |-> qMaps, kMaps |-> kMaps, scale |-> 1,
     blockOrders |-> [g \in Places(s.groups) |-> [i \in Places(s.headDim \div 2) |-> i]],
     valueMaps |-> ValueMaps(seed, s.groups, s.headDim)]

QwenKey(s, seed, kvOrder, within, orders) ==
    LET half == s.headDim \div 2
        Maps(Of(_)) == [g \in Places(s.groups) |->
            MatMul(Stretched(HalfSplitRotation(s.headDim, seed, g * half),
                             Twice(Of(Scales(half, seed, g * half)))),
                   BlockMatrix(orders[g]))]
    IN [AttentionKey(s, seed, kvOrder, within, Maps(Same), Maps(Reciprocal))
            EXCEPT !.blockOrders = orders]

GlmKey(s, seed, kvOrder, within) ==
    LET pass == s.headDim - s.rotary
        Maps(Of(_)) == [g \in Places(s.groups) |->
            BlockDiagonal(
                Stretched(InterleavedRotation(s.rotary, seed, g * s.rotary),
                          EachTwice(Of(Scales(s.rotary \div 2, seed, g * s.rotary)))),
                Stretched(Orthogonal(pass, seed, g * pass + 50),
                          Of(Scales(pass, seed, g * pass + 50))))]
    IN AttentionKey(s, seed, kvOrder, within, Maps(Same), Maps(Reciprocal))

\* Signs, the same for every head, and one scale are all that a norm shared by
\* the heads allows.  The sign of a pair turns both its coordinates.
SignKey(s, seed, kvOrder, within) ==
    LET signs == [i \in Places(s.headDim) |->
                    Sign(seed, IF i < s.rotary THEN i % (s.rotary \div 2) ELSE i)]
        maps == [g \in Places(s.groups) |-> Diagonal(signs)]
    IN [AttentionKey(s, seed, kvOrder, within, maps, maps)
            EXCEPT !.scale = Scale(seed, 40)]

\* The whole head of Qwen3 is rotated.
Qwen3Key(s, seed, kvOrder, within) ==
    SignKey([s EXCEPT !.rotary = s.headDim], seed, kvOrder, within)

\* DeepSeek: a head has coordinates without a position, mapped by head, and
\* rotary ones whose key all heads share.
LatentKey(s, seed, headOrder, qLatent, kvLatent, pairOrder) ==
    LET Nope(Of(_)) == [h \in Places(s.heads) |->
            Stretched(Orthogonal(s.nope, seed, 10 * h), Of(Scales(s.nope, seed, 10 * h)))]
        Rope(Of(_)) ==
            MatMul(Stretched(InterleavedRotation(s.rotary, seed, 30),
                             EachTwice(Of(Scales(s.rotary \div 2, seed, 30)))),
                   PairPermutation(pairOrder))
    IN [headOrder |-> headOrder, qLatentOrder |-> qLatent, kvLatentOrder |-> kvLatent,
        nopeMaps |-> Nope(Same), kNopeMaps |-> Nope(Reciprocal),
        ropeMap |-> Rope(Same), kRopeMap |-> Rope(Reciprocal), pairOrder |-> pairOrder,
        valueMaps |-> ValueMaps(seed, s.heads, s.value)]

(* The keys of the feed-forward part: an order and scales of the intermediate  *)
(* coordinates, for each expert and for what is not routed.                    *)
Coordinates(seed, n, width) ==
    [order |-> Randperm(seed, n, width), scales |-> Scales(width, seed, n)]
FeedForwardKey(s, seed, expertOrder) ==
    [dense |-> Coordinates(seed, 60, s.width),
     expertOrder |-> expertOrder,
     experts |-> [e \in DOMAIN expertOrder |-> Coordinates(seed, 61 + e, s.width)]]

\* GLM4-MoE permutes all experts, DeepSeek the router's groups and each in itself.
ExpertOrders(s) ==
    IF s.family = "deepseek"
    THEN LET size == s.experts \div s.expertGroups
         IN {GroupedOrder(order, within, size, s.expertGroups) :
                order \in PermutationsOf(s.expertGroups),
                within \in [Places(s.expertGroups) -> PermutationsOf(size)]}
    ELSE PermutationsOf(s.experts)
=============================================================================
