--------------------------- MODULE MCPrivateModel ---------------------------
(* Small instances of PrivateModel for TLC: two coordinates, two groups of    *)
(* two heads, weights that no permutation of them leaves alone.               *)
EXTENDS PrivateModel

Shape(family, route, norm) ==
    [family |-> family, route |-> route, norm |-> norm, boundary |-> "client",
     heads |-> 4, groups |-> 2, headDim |-> 4, rotary |-> 4, beta |-> 1,
     experts |-> 0, expertGroups |-> 1, topGroups |-> 1, topK |-> 1,
     width |-> 2, headNorms |-> FALSE, draft |-> FALSE,
     qRank |-> 0, kvRank |-> 0, nope |-> 0, value |-> 0]
Mixture(shape) ==
    [shape EXCEPT !.rotary = 2, !.headNorms = TRUE, !.experts = 3, !.topK = 2]
Latent(norm, qRank) ==
    [Shape("deepseek", "streamed", norm) EXCEPT
        !.heads = 2, !.beta = IF norm = "plain" THEN 1 ELSE 2,
        !.experts = 4, !.expertGroups = 2, !.qRank = qRank,
        !.kvRank = 2, !.nope = 2, !.value = 2, !.draft = norm # "plain"]

AllSettings == {
    [Shape("qwen2", "loaded", "metric") EXCEPT !.beta = 2],
    Shape("qwen2", "loaded", "kappa"), Shape("qwen2", "streamed", "kappa"),
    [Shape("qwen2", "loaded", "metric") EXCEPT !.boundary = "tee"],
    [Shape("glm", "loaded", "metric") EXCEPT !.rotary = 2],
    [Shape("qwen3", "loaded", "metric") EXCEPT !.headNorms = TRUE],
    Mixture(Shape("glm4_moe", "loaded", "metric")),
    [Mixture(Shape("glm4_moe", "streamed", "metric")) EXCEPT !.draft = TRUE],
    Latent("plain", 0), Latent("plain", 2), Latent("kappa", 2)}

-----------------------------------------------------------------------------
(* Weights.                                                                   *)
Entry(tag, i, j) == (tag * (i + 1) + 3 * i * i + 5 * j * j + 2 * i * j + j + tag + 1) % Prime
Vector(tag, n) == [i \in Places(n) |-> Entry(tag, i, 2)]
NonZero(tag, n) == [i \in Places(n) |-> 1 + ((tag + i) % (Prime - 1))]
Matrix(tag, rows, columns) ==
    [i \in Places(rows) |-> [j \in Places(columns) |-> Entry(tag, i, j)]]
Parts(tag, n, rows, columns) == [h \in Places(n) |-> Matrix(tag + h, rows, columns)]
Gated(tag, width) ==
    [gate |-> Matrix(tag, width, Hidden), up |-> Matrix(tag + 2, width, Hidden),
     down |-> Matrix(tag + 3, Hidden, width)]

Weights(s) ==
    LET latent == s.family = "deepseek"
        into == IF s.qRank > 0 THEN s.qRank ELSE Hidden
        query == IF latent THEN s.nope + s.rotary ELSE s.headDim
        bias == IF s.family \in {"qwen2", "glm"} THEN 1 ELSE 0
    IN [embed |-> Matrix(3, Tokens, Hidden),
        inputNorm |-> NonZero(1, Hidden), postNorm |-> NonZero(2, Hidden),
        finalNorm |-> NonZero(4, Hidden),
        q |-> Parts(1, s.heads, query, into),
        k |-> Parts(6, s.groups, s.headDim, Hidden),
        v |-> Parts(9, s.groups, s.headDim, Hidden),
        o |-> Parts(4, s.heads, Hidden, IF latent THEN s.value ELSE s.headDim),
        qBias |-> [h \in Places(s.heads) |-> Scaled(Vector(h + 1, s.headDim), bias)],
        kBias |-> [h \in Places(s.groups) |-> Scaled(Vector(h + 3, s.headDim), bias)],
        vBias |-> [h \in Places(s.groups) |-> Scaled(Vector(h + 5, s.headDim), bias)],
        qNorm |-> NonZero(5, IF latent THEN s.qRank ELSE s.headDim),
        kNorm |-> NonZero(6, s.headDim),
        blockOrders |-> [g \in Places(s.groups) |-> Straight(s.headDim \div 2)],
        qA |-> Matrix(2, s.qRank, Hidden),
        kvA |-> Matrix(5, s.kvRank + s.rotary, Hidden),
        kvNorm |-> NonZero(3, s.kvRank),
        kv |-> Parts(2, s.heads, s.nope + s.value, s.kvRank),
        pairOrder |-> Straight(s.rotary \div 2),
        dense |-> Gated(4, s.width),
        experts |-> [e \in Places(s.experts) |-> Gated(e + 1, s.width)],
        router |-> Matrix(6, s.experts, Hidden),
        correction |-> [e \in Places(s.experts) |-> 2 ^ e],
        head |-> Matrix(2, Tokens, Hidden),
        draft |-> Matrix(1, Hidden, 2 * Hidden),
        embedNorm |-> NonZero(3, Hidden), hiddenNorm |-> NonZero(5, Hidden)]

-----------------------------------------------------------------------------
(* Key material.                                                              *)
Rotations == <<<<2, 2>>, <<0, 1>>, <<5, 2>>, <<6, 0>>, <<2, 5>>, <<0, 6>>, <<5, 5>>>>
SomeAngle(seed, n) == Rotations[1 + ((seed + 3 * n) % 7)]
SomeScale(seed, n) == 1 + ((seed + 2 * n) % (Prime - 1))
SomeOrder(seed, n, size) == [i \in Places(size) |-> (i + seed + n) % size]
SomeMap(seed, n, dim) ==
    LET lower == [i \in Places(dim) |-> [j \in Places(dim) |->
                    IF i = j THEN 1 ELSE IF i > j THEN Entry(seed + n, i, j) ELSE 0]]
        upper == [i \in Places(dim) |-> [j \in Places(dim) |->
                    IF i = j THEN SomeScale(seed, n + i)
                    ELSE IF i < j THEN Entry(seed + n + 1, i, j) ELSE 0]]
    IN MatMul(lower, upper)

\* Rotations of pairs of the six private coordinates, one after another.
Givens(i, j, turn) ==
    [Identity(6) EXCEPT ![i][i] = turn[1], ![j][j] = turn[1],
                        ![i][j] = Minus(turn[2]), ![j][i] = turn[2]]
Mixing(seed) ==
    LET T(n) == SomeAngle(seed, n)
    IN MatMul(MatMul(MatMul(Givens(0, 3, <<2, 2>>), Givens(1, 4, T(1))), Givens(2, 5, <<2, 5>>)),
              MatMul(MatMul(Givens(0, 4, <<5, 2>>), Givens(3, 5, T(2))), Givens(1, 2, <<2, 2>>)))

Square(a, b, c, d) == [i \in Places(2) |-> [j \in Places(2) |->
    IF i = 0 THEN (IF j = 0 THEN a ELSE b) ELSE (IF j = 0 THEN c ELSE d)]]
Pair(a, b) == [i \in Places(2) |-> IF i = 0 THEN a ELSE b]
Draw(b, c, e, f, seed) ==
    [b |-> b, c |-> c, e |-> e, f |-> f, d |-> Pair(2, 5), z |-> Mixing(seed),
     inverse |-> <<Pair(1, 3), Pair(4, 0), Pair(5, 6), Pair(2, 2), Pair(0, 1), Pair(3, 4)>>]

\* Any pair cancels exactly; P of the second kind stretches all vectors alike.
AnyDraw == Draw(Square(1, 2, 3, 4), Pair(2, 1), Square(1, 3, 2, 6), Square(2, 3, 4, 6), 1)
EvenDraw == Draw(Square(5, 6, 1, 5), Pair(6, 3), Square(5, 6, 6, 3), Square(4, 5, 3, 2), 2)
SomeDraws(s) ==
    IF s.norm = "metric" THEN {AnyDraw} ELSE IF s.norm = "kappa" THEN {EvenDraw} ELSE {}

ASSUME EvenDrawAssumption ==
    LET p == MakeKeyPair(EvenDraw).p
    IN \E c \in Field \ {0} : MatMul(p, Transposed(p)) = [i \in Places(2) |-> Scaled(Identity(2)[i], c)]

CyclicVocabulary == {[v \in Places(Tokens) |-> (v + 1) % Tokens]}
TwoPrompts == {<<0, 2>>, <<1, 1>>}

-----------------------------------------------------------------------------
(* Functions that are neither linear nor one-to-one.  The root is one for      *)
(* squares: Rsqrt(k * k * x) = Rsqrt(x) / k for every square k.                *)
SomeStep(n) == IF n = 0 THEN <<2, 2>> ELSE <<0, 1>>
SomeSilu(x) == (x * x * x + 2 * x + x * x) % Prime
SomeRsqrt(x) == IF x \in {0, 1, 2, 4} THEN x ELSE (4 * x) % Prime
SomeExp(x) == 1 + ((x * x + x) % (Prime - 1))
SomeSigmoid(x) == 16 * ((x * x + 3 * x + 1) % Prime)
=============================================================================
