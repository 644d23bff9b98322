---------------------------- MODULE PrivateModel ----------------------------
(***************************************************************************)
(* What the conversion is for: the private model computes what the plain    *)
(* one does, in coordinates that only the key's holder can read.  A          *)
(* behaviour draws a key, converts a decoder layer with its embedding and    *)
(* head, and feeds the same tokens to both models, a stage of the forward    *)
(* pass at a time.  Arithmetic is that of a finite field (FieldAlgebra) and  *)
(* the non-linear functions are any functions: the identities that make the  *)
(* private model right hold for them as they do for the reals.               *)
(***************************************************************************)
EXTENDS StructuralKeys, TLC

CONSTANTS
    Settings,          \* architectures, with their shapes and converters
    Tokens,            \* size of the vocabulary
    Hidden,            \* width of the plain residual
    Prompts,           \* what is fed to the models: sequences of tokens
    Draws(_),          \* what Algorithm 1 draws for a key pair in a setting
    VocabularyKeys,    \* permutations of the vocabulary
    Seeds,             \* seeds of the structural keys
    Source(_),         \* weights of a setting's plain model
    RopeStep(_),       \* rotation of the n-th pair from one position to the next
    Silu(_), Rsqrt(_), Exp(_), Sigmoid(_)

VARIABLES
    setting,   \* the architecture
    source,    \* the plain model's weights
    pair,      \* P, the inverse keys, and the norm of the private residual
    tau,       \* the vocabulary permutation
    key,       \* the structural key of the layer
    target,    \* the private model's weights
    pc,        \* the next step
    prompt,    \* the tokens to feed
    fed,       \* how many were fed
    run        \* activations and caches of both models

vars == <<setting, source, pair, tau, key, target, pc, prompt, fed, run>>
Family == setting.family
Width == Size(pair.p[0])
Split == setting.boundary = "tee"
Straight(n) == [i \in Places(n) |-> i]
Ones(n) == [i \in Places(n) |-> 1]
ByHead(Of(_), heads) == [h \in DOMAIN heads |-> Of(heads[h])]

-----------------------------------------------------------------------------
(* The norm of the private residual: the plain length of z = xP by a metric    *)
(* G = Q Q^T, from the pair's own inverse in the Qwen models and the head's in *)
(* GLM4-MoE; or its own length, corrected by kappa, where P stretches all      *)
(* vectors alike.                                                              *)

Metric(keys) ==
    LET factor == IF Family = "glm4_moe" THEN keys.head ELSE keys.q
    IN MatMul(factor, Transposed(factor))

\* The square root, positive in that it is a square itself, of |P|^2 / D.
AnalyticKappa(p) ==
    LET squared == (Total([i \in DOMAIN p |-> Dot(p[i], p[i])])
                        * Inverse0(Size(p[0]) % Prime)) % Prime
    IN CHOOSE k \in {(x * x) % Prime : x \in Field \ {0}} : (k * k) % Prime = squared

NormWeight(n) ==
    [i \in Places(n) |-> IF setting.norm = "kappa" THEN pair.kappa ELSE 1]

-----------------------------------------------------------------------------
(* Conversion into the private residual: a projection that reads it takes the  *)
(* norm's weight and an inverse key, one that writes it takes P.               *)

InputProjection(weight, norm, inverse) ==
    [i \in DOMAIN weight |-> MatVec(inverse, Times(weight[i], norm))]
OutputProjection(weight, p) == MatMul(Transposed(p), weight)

ConvertedEmbedding(m) ==
    [m EXCEPT !.embed = PermuteVocabRows(MatMul(@, pair.p), tau)]

ConvertedAttention(m) ==
    LET Q(w) == InputProjection(w, m.inputNorm, pair.attentionQ)
        K(w) == InputProjection(w, m.inputNorm, pair.attentionK)
        V(w) == InputProjection(w, m.inputNorm, pair.attentionV)
        O(w) == OutputProjection(w, pair.p)
    IN [m EXCEPT !.q = ByHead(Q, @), !.k = ByHead(K, @), !.v = ByHead(V, @),
                 !.o = ByHead(O, @), !.inputNorm = NormWeight(Width)]

ConvertedDense(mlp, norm) ==
    [gate |-> InputProjection(mlp.gate, norm, pair.ffnGate),
     up |-> InputProjection(mlp.up, norm, pair.ffnUp),
     down |-> OutputProjection(mlp.down, pair.p)]

ConvertedFeedForward(m) ==
    [m EXCEPT !.dense = ConvertedDense(@, m.postNorm),
              !.experts = [e \in DOMAIN @ |-> ConvertedDense(@[e], m.postNorm)],
              !.router = InputProjection(@, m.postNorm, pair.ffnGate),
              !.postNorm = NormWeight(Width)]

ConvertedHead(m) ==
    [m EXCEPT !.head = PermuteVocabRows(InputProjection(@, m.finalNorm, pair.head), tau),
              !.finalNorm = NormWeight(Width)]

-----------------------------------------------------------------------------
(* Algorithm 2: the structure within a layer.                                  *)

TransformedProjection(heads, order, maps, size) ==
    [i \in DOMAIN order |->
        MatMul(Transposed(maps[order[i] \div size]), heads[order[i]])]
TransformedBias(heads, order, maps, size) ==
    [i \in DOMAIN order |-> VecMat(heads[order[i]], maps[order[i] \div size])]
TransformedOutput(heads, order, maps, size) ==
    [i \in DOMAIN order |->
        MatMul(heads[order[i]], Transposed(InverseMatrix(maps[order[i] \div size])))]

TransformedAttention(m) ==
    LET size == GroupSize(setting)
    IN [m EXCEPT
            !.q = TransformedProjection(@, key.qOrder, key.qMaps, size),
            !.k = TransformedProjection(@, key.kvOrder, key.kMaps, 1),
            !.v = TransformedProjection(@, key.kvOrder, key.valueMaps, 1),
            !.o = TransformedOutput(@, key.qOrder, key.valueMaps, size),
            !.qBias = TransformedBias(@, key.qOrder, key.qMaps, size),
            !.kBias = TransformedBias(@, key.kvOrder, key.kMaps, 1),
            !.vBias = TransformedBias(@, key.kvOrder, key.valueMaps, 1)]

\* The scale of queries and keys goes into the norms their heads share; the
\* absolute values of the signs are ones.
TransformedHeadNorms(m) ==
    [m EXCEPT !.qNorm = Scaled(@, key.scale), !.kNorm = Scaled(@, Inverse0(key.scale))]

\* The runtime keeps its heads in the new order, and so their block orders.
RuntimeBlockOrders(m) == [m EXCEPT !.blockOrders = Select(key.blockOrders, key.kvOrder)]

TransformedDense(mlp, coordinates) ==
    [gate |-> Select(mlp.gate, coordinates.order),
     up |-> [i \in DOMAIN mlp.up |->
        Scaled(mlp.up[coordinates.order[i]], Inverse0(coordinates.scales[i]))],
     down |-> [i \in DOMAIN mlp.down |->
        Times(Select(mlp.down[i], coordinates.order), coordinates.scales)]]

\* Mutant: the router's rows follow the experts and its correction does not.
TransformedFeedForward_KeepsCorrection(m) ==
    LET order == key.expertOrder
    IN [m EXCEPT
            !.dense = TransformedDense(@, key.dense),
            !.experts = [e \in DOMAIN order |-> TransformedDense(@[order[e]], key.experts[e])],
            !.router = Select(@, order)]

TransformedFeedForward(m) ==
    LET order == key.expertOrder
    IN [m EXCEPT
            !.dense = TransformedDense(@, key.dense),
            !.experts = [e \in DOMAIN order |-> TransformedDense(@[order[e]], key.experts[e])],
            !.router = Select(@, order),
            !.correction = Select(@, order)]

(* DeepSeek: the latent vectors, the heads and the two parts of each head.     *)
SplitProjection(heads, size, firstMaps, secondMaps) ==
    [h \in DOMAIN key.headOrder |->
        LET old == key.headOrder[h]
            rest == Size(heads[old]) - size
        IN Concat(MatMul(Transposed(firstMaps[old]), Slice(heads[old], 0, size)),
                  MatMul(Transposed(secondMaps[old]), Slice(heads[old], size, rest)))]

TransformedLatentAttention(m) ==
    LET QueryColumns(w) == SelectColumns(w, key.qLatentOrder)
        Columns(w) == SelectColumns(w, key.kvLatentOrder)
        sharedRope == [h \in DOMAIN m.q |-> key.ropeMap]
        latent == setting.qRank > 0
        queries == IF latent THEN ByHead(QueryColumns, m.q) ELSE m.q
    IN [m EXCEPT
        !.qA = IF latent THEN Select(@, key.qLatentOrder) ELSE @,
        !.qNorm = IF latent THEN Select(@, key.qLatentOrder) ELSE @,
        !.q = SplitProjection(queries, setting.nope, key.nopeMaps, sharedRope),
        !.kvNorm = Select(@, key.kvLatentOrder),
        !.kv = SplitProjection(ByHead(Columns, @), setting.nope, key.kNopeMaps, key.valueMaps),
        !.kvA = Concat(Select(Slice(@, 0, setting.kvRank), key.kvLatentOrder),
                       MatMul(Transposed(key.kRopeMap),
                              Slice(@, setting.kvRank, setting.rotary))),
        !.o = TransformedOutput(@, key.headOrder, key.valueMaps, 1)]

-----------------------------------------------------------------------------
(* The streaming converters write one tensor of the private checkpoint after  *)
(* another, with both algorithms in the expression of each.                   *)

StreamedHeads(heads, norm, inverse, order, maps, size) ==
    [i \in DOMAIN order |->
        MatMul(Transposed(maps[order[i] \div size]),
               InputProjection(heads[order[i]], norm, inverse))]

StreamedOutput(heads, order, maps, size) ==
    [i \in DOMAIN order |->
        MatMul(OutputProjection(heads[order[i]], pair.p),
               Transposed(InverseMatrix(maps[order[i] \div size])))]

StreamedAttention(m) ==
    LET size == GroupSize(setting)
    IN [m EXCEPT
        !.q = StreamedHeads(@, m.inputNorm, pair.attentionQ, key.qOrder, key.qMaps, size),
        !.k = StreamedHeads(@, m.inputNorm, pair.attentionK, key.kvOrder, key.kMaps, 1),
        !.v = StreamedHeads(@, m.inputNorm, pair.attentionV, key.kvOrder, key.valueMaps, 1),
        !.o = StreamedOutput(@, key.qOrder, key.valueMaps, size),
        !.qBias = TransformedBias(@, key.qOrder, key.qMaps, size),
        !.kBias = TransformedBias(@, key.kvOrder, key.kMaps, 1),
        !.vBias = TransformedBias(@, key.kvOrder, key.valueMaps, 1),
        !.qNorm = Scaled(@, key.scale),
        !.kNorm = Scaled(@, Inverse0(key.scale)),
        !.inputNorm = Ones(Width)]

StreamedDense(mlp, norm, coordinates) ==
    LET Into(w, inverse) == Select(InputProjection(w, norm, inverse), coordinates.order)
        up == Into(mlp.up, pair.ffnUp)
        down == SelectColumns(OutputProjection(mlp.down, pair.p), coordinates.order)
    IN [gate |-> Into(mlp.gate, pair.ffnGate),
        up |-> [i \in DOMAIN up |-> Scaled(up[i], Inverse0(coordinates.scales[i]))],
        down |-> [i \in DOMAIN down |-> Times(down[i], coordinates.scales)]]

(* The source's experts are read in turn; each gets the name of the place that *)
(* the key's order gives it, and that place's coordinates.                     *)
NewExpert(old) == InversePermutation(key.expertOrder)[old]
\* Mutant: the coordinates are those of the old place.
StreamedExpert_OldCoordinates(old, m) ==
    StreamedDense(m.experts[old], m.postNorm, key.experts[old])
StreamedExpert(old, m) ==
    StreamedDense(m.experts[old], m.postNorm, key.experts[NewExpert(old)])

StreamedFeedForward(m) ==
    [m EXCEPT
        !.dense = StreamedDense(@, m.postNorm, key.dense),
        !.experts = [new \in DOMAIN @ |->
            StreamedExpert(CHOOSE old \in DOMAIN @ : NewExpert(old) = new, m)],
        !.router = Select(InputProjection(@, m.postNorm, pair.ffnGate), key.expertOrder),
        !.correction = Select(@, key.expertOrder),
        !.postNorm = Ones(Width)]

\* The Qwen2 script does so for a norm with kappa, and gives the runtime no block
\* orders: its key has to be one of blocks of one.
StreamedQwenAttention(m) == [StreamedAttention(m) EXCEPT !.inputNorm = NormWeight(Width)]
StreamedQwenFeedForward(m) ==
    [m EXCEPT !.dense = StreamedDense(@, m.postNorm, key.dense), !.postNorm = NormWeight(Width)]

(* DeepSeek takes what Algorithm 2 leaves into the private residual, if there  *)
(* is one: without key matrices the residual and its norms stay as they are.   *)
ConvertedLatentAttention(m) ==
    LET Q(w) == InputProjection(w, m.inputNorm, pair.attentionQ)
        O(w) == OutputProjection(w, pair.p)
        latent == setting.qRank > 0
    IN [m EXCEPT
        !.qA = IF latent THEN Q(@) ELSE @,
        !.q = IF latent THEN @ ELSE ByHead(Q, @),
        !.kvA = InputProjection(@, m.inputNorm, pair.attentionK),
        !.o = ByHead(O, @),
        !.inputNorm = NormWeight(Width)]

PermutedVocabulary(m) ==
    [m EXCEPT !.embed = PermuteVocabRows(@, tau), !.head = PermuteVocabRows(@, tau)]

(* Multi-token prediction: the projection that joins the embedding of the next *)
(* token with the hidden state.                                                *)
ConvertedDraft(m) ==
    LET inverse == IF Family = "glm4_moe" THEN pair.head ELSE pair.q
        Half(i, from, norm) == MatVec(inverse, Times(Slice(m.draft[i], from, Hidden), norm))
    IN [m EXCEPT
        !.draft = OutputProjection([i \in DOMAIN @ |->
            Concat(Half(i, 0, m.embedNorm), Half(i, Hidden, m.hiddenNorm))], pair.p),
        !.embedNorm = NormWeight(Width), !.hiddenNorm = NormWeight(Width)]

Drafted(m) == IF setting.draft THEN ConvertedDraft(m) ELSE m

-----------------------------------------------------------------------------
(* In the TEE mode tokens stay plain, and both ends of the model are in the    *)
(* boundary's package: the rows of the embedding, and the exact head for the   *)
(* residual in plain coordinates, once as it is and once for an outside worker *)
(* that sees it in a basis of its own.                                         *)

Zeroed(a) == [i \in DOMAIN a |-> Scaled(a[i], 0)]
Boundary(basis) ==
    LET exact == [v \in DOMAIN source.head |-> Times(source.head[v], source.finalNorm)]
    IN [embedding |-> MatMul(source.embed, pair.p), qFinal |-> pair.head,
        exactHead |-> exact, basis |-> basis, outsourcedHead |-> MatMul(exact, basis)]

BoundaryLogits(private, outsourced) ==
    LET b == target.boundary
        hidden == VecMat(private, b.qFinal)
    IN IF outsourced THEN MatVec(b.outsourcedHead, VecMat(hidden, b.basis))
       ELSE MatVec(b.exactHead, hidden)

-----------------------------------------------------------------------------
(* The forward pass of a model m, plain or private.                            *)

Sides == {"plain", "private"}
Model(side) == IF side = "plain" THEN source ELSE target

\* RMSNorm, of a head or a latent vector, and of the residual.
RmsNorm(x, weight, square) == Times(Scaled(x, Rsqrt(square)), weight)
Mean(x) == (Dot(x, x) * Inverse0(Size(x) % Prime)) % Prime
Normalized(side, x, weight) ==
    IF side = "private" /\ setting.norm = "metric"
    THEN RmsNorm(x, weight,
            (Dot(VecMat(x, pair.metric), x) * Inverse0(Hidden % Prime)) % Prime)
    ELSE RmsNorm(x, weight, Mean(x))

\* The rotation of pair n at a position.
RECURSIVE Turn(_, _)
Turn(n, position) ==
    IF position = 0 THEN <<1, 0>>
    ELSE LET before == Turn(n, position - 1)
             step == RopeStep(n)
         IN <<(before[1] * step[1] + before[2] * Minus(step[2])) % Prime,
              (before[1] * step[2] + before[2] * step[1]) % Prime>>

\* apply_rotary_pos_emb on the leading coordinates, the pairs half of them apart.
RotatedHalves(x, n, position) ==
    LET half == n \div 2
        C(i) == Turn(i % half, position)[1]
        S(i) == Turn(i % half, position)[2]
    IN [i \in DOMAIN x |->
        CASE i < half -> (x[i] * C(i) + x[i + half] * Minus(S(i))) % Prime
          [] half <= i /\ i < n -> (x[i] * C(i) + x[i - half] * S(i)) % Prime
          [] OTHER -> x[i]]

\* The pairs are neighbours, and pair n turns as the model's order says.
RotatedNeighbours(x, n, order, position) ==
    LET C(i) == Turn(order[i \div 2], position)[1]
        S(i) == Turn(order[i \div 2], position)[2]
    IN [i \in DOMAIN x |->
        CASE i < n /\ i % 2 = 0 -> (x[i] * C(i) + x[i + 1] * Minus(S(i))) % Prime
          [] i < n /\ i % 2 = 1 -> (x[i] * C(i) + x[i - 1] * S(i)) % Prime
          [] OTHER -> x[i]]

\* Mutant: B is not put back after the rotation.
RotatedBlocks_NotRestored(x, order, position) ==
    RotatedHalves(VecMat(x, Transposed(BlockMatrix(order))), Size(x), position)

\* B is taken away before the rotation and put back after it.
RotatedBlocks(x, order, position) ==
    LET b == BlockMatrix(order)
    IN VecMat(RotatedHalves(VecMat(x, Transposed(b)), Size(x), position), b)

Rotated(m, x, group, position) ==
    CASE Family = "qwen2" -> RotatedBlocks(x, m.blockOrders[group], position)
      [] Family = "glm" ->
            RotatedNeighbours(x, setting.rotary, Straight(setting.rotary \div 2), position)
      [] Family \in {"qwen3", "glm4_moe"} -> RotatedHalves(x, setting.rotary, position)
      [] Family = "deepseek" ->
            Concat(Slice(x, 0, setting.nope),
                   RotatedNeighbours(Slice(x, setting.nope, setting.rotary),
                                     setting.rotary, m.pairOrder, position))

\* Queries, keys and values of a normalized residual h, before the rotation.
Projected(m, h) ==
    LET Norm(x, weight) == IF setting.headNorms THEN RmsNorm(x, weight, Mean(x)) ELSE x
        Biased(w, b, i) == Plus(MatVec(w[i], h), b[i])
    IN [q |-> [i \in DOMAIN m.q |-> Norm(Biased(m.q, m.qBias, i), m.qNorm)],
        k |-> [i \in DOMAIN m.k |-> Norm(Biased(m.k, m.kBias, i), m.kNorm)],
        v |-> [i \in DOMAIN m.v |-> Biased(m.v, m.vBias, i)]]

ProjectedLatent(m, h) ==
    LET down == MatVec(m.qA, h)
        query == IF setting.qRank > 0 THEN RmsNorm(down, m.qNorm, Mean(down)) ELSE h
        compressed == MatVec(m.kvA, h)
        latent == Slice(compressed, 0, setting.kvRank)
        kept == RmsNorm(latent, m.kvNorm, Mean(latent))
        rope == Slice(compressed, setting.kvRank, setting.rotary)
        split == [i \in DOMAIN m.kv |-> MatVec(m.kv[i], kept)]
    IN [q |-> [i \in DOMAIN m.q |-> MatVec(m.q[i], query)],
        k |-> [i \in DOMAIN m.kv |-> Concat(Slice(split[i], 0, setting.nope), rope)],
        v |-> [i \in DOMAIN m.kv |-> Slice(split[i], setting.nope, setting.value)]]

\* Each query head attends to the cache of the key/value head of its group.
Attended(m, q, keys, values) ==
    LET Group(h) == h \div (Size(q) \div Size(keys[1]))
        Weight(h, t) == Exp(Dot(q[h], keys[t][Group(h)]))
        Share(h) == Inverse0(Total([t \in Places(Len(keys)) |-> Weight(h, t + 1)]))
        HeadOutput(h) == [i \in DOMAIN values[1][0] |->
            (Share(h) * Total([t \in Places(Len(keys)) |->
                Weight(h, t + 1) * values[t + 1][Group(h)][i]])) % Prime]
        all == [h \in DOMAIN q |-> HeadOutput(h)]
    IN [i \in DOMAIN m.o[0] |-> Total([h \in DOMAIN q |-> Dot(m.o[h][i], all[h])])]

FeedForward(mlp, h) ==
    LET gate == MatVec(mlp.gate, h)
    IN MatVec(mlp.down, Times([i \in DOMAIN gate |-> Silu(gate[i])], MatVec(mlp.up, h)))

(* The router: the best groups by their two best experts, and of those groups  *)
(* the best experts, by a score with a correction that no weight includes.     *)
Best(values, places, k) ==
    {i \in places : Cardinality({j \in places : values[j] > values[i]}) < k}
Routed(m, h) ==
    LET scores == [e \in DOMAIN m.router |-> Sigmoid(Dot(m.router[e], h))]
        choice == [e \in DOMAIN scores |-> scores[e] + m.correction[e]]
        size == setting.experts \div setting.expertGroups
        Members(g) == {e \in DOMAIN choice : e \div size = g}
        groups == [g \in Places(setting.expertGroups) |->
            LET two == Best(choice, Members(g), 2)
            IN IF size = 1 THEN choice[g]
               ELSE LET one == CHOOSE e \in two : TRUE
                    IN choice[one] + choice[CHOOSE e \in two \ {one} : TRUE]]
        allowed == UNION {Members(g) : g \in Best(groups, DOMAIN groups, setting.topGroups)}
        chosen == Best(choice, allowed, setting.topK)
        Chosen(e) == IF e \in chosen THEN scores[e] % Prime ELSE 0
        share == Inverse0(Total([e \in DOMAIN scores |-> Chosen(e)]))
    IN [e \in DOMAIN scores |-> (Chosen(e) * share) % Prime]

Mixed(m, h) ==
    LET weights == Routed(m, h)
        routed == [e \in DOMAIN m.experts |-> Scaled(FeedForward(m.experts[e], h), weights[e])]
        shared == FeedForward(m.dense, h)
    IN [i \in DOMAIN shared |->
            (shared[i] + Total([e \in DOMAIN routed |-> routed[e][i]])) % Prime]

-----------------------------------------------------------------------------
Init ==
    /\ setting \in Settings
    /\ source = Source(setting)
    /\ prompt \in Prompts
    /\ target = source
    /\ pair = <<>> /\ tau = <<>> /\ key = <<>>
    /\ pc = "key pair"
    /\ fed = 0
    /\ run = [side \in Sides |-> [keys |-> <<>>, values |-> <<>>]]

Step(from, to) == pc = from /\ pc' = to
Preparing == UNCHANGED <<setting, source, prompt, fed, run>>

-----------------------------------------------------------------------------
(* Drawing the keys.                                                           *)

DrawKeyPair ==
    /\ Step("key pair", "vocabulary key")
    /\ setting.norm # "plain"
    /\ \E draw \in Draws(setting) :
        LET keys == MakeKeyPair(draw) @@ MakeInverseFamily(draw)
        IN pair' = keys @@ [metric |-> IF setting.norm = "metric" THEN Metric(keys) ELSE <<>>,
                            kappa |-> IF setting.norm = "kappa" THEN AnalyticKappa(keys.p)
                                      ELSE 1]
    /\ UNCHANGED <<tau, key, target>> /\ Preparing

\* Without key matrices the residual is the plain one.
KeepResidual ==
    /\ Step("key pair", "vocabulary key")
    /\ setting.norm = "plain"
    /\ pair' = [p |-> Identity(Hidden)]
    /\ UNCHANGED <<tau, key, target>> /\ Preparing

DrawVocabularyKey ==
    /\ Step("vocabulary key", "layer key")
    /\ tau' \in IF Split THEN {Straight(Tokens)} ELSE VocabularyKeys
    /\ UNCHANGED <<pair, key, target>> /\ Preparing

\* Qwen2 and the dense GLM draw one order within groups, the others one for each.
GroupOrders ==
    {within \in [Places(setting.groups) -> PermutationsOf(GroupSize(setting))] :
        Family \in {"qwen2", "glm"} =>
            \A g \in Places(setting.groups) : within[g] = within[0]}

DrawLayerKey ==
    /\ Step("layer key", IF setting.route = "loaded" THEN "convert embedding" ELSE "attention")
    /\ \E seed \in Seeds, experts \in ExpertOrders(setting) :
        LET feedForward == FeedForwardKey(setting, seed, experts)
        IN IF Family = "deepseek"
           THEN \E heads \in PermutationsOf(setting.heads),
                   qLatent \in PermutationsOf(setting.qRank),
                   kvLatent \in PermutationsOf(setting.kvRank),
                   pairs \in BlockOrders(setting.rotary \div 2, setting.beta) :
                key' = LatentKey(setting, seed, heads, qLatent, kvLatent, pairs)
                            @@ feedForward
           ELSE \E kvOrder \in PermutationsOf(setting.groups), within \in GroupOrders,
                   orders \in [Places(setting.groups) ->
                                BlockOrders(setting.headDim \div 2, setting.beta)] :
                key' = feedForward @@
                    CASE Family = "qwen2" -> QwenKey(setting, seed, kvOrder, within, orders)
                      [] Family = "glm" -> GlmKey(setting, seed, kvOrder, within)
                      [] Family = "qwen3" -> Qwen3Key(setting, seed, kvOrder, within)
                      [] OTHER -> SignKey(setting, seed, kvOrder, within)
    /\ UNCHANGED <<pair, tau, target>> /\ Preparing

-----------------------------------------------------------------------------
(* A loaded model is converted module by module and then transformed.          *)

Rewrite(from, to, result) ==
    /\ Step(from, to)
    /\ target' = result
    /\ UNCHANGED <<pair, tau, key>> /\ Preparing

ConvertEmbedding ==
    Rewrite("convert embedding", "convert attention", ConvertedEmbedding(target))
ConvertAttention ==
    Rewrite("convert attention", "convert feed-forward", ConvertedAttention(target))
ConvertFeedForward ==
    Rewrite("convert feed-forward", "convert head", ConvertedFeedForward(target))
ConvertHead ==
    Rewrite("convert head", "attention", ConvertedHead(target))

TransformAttention ==
    /\ setting.route = "loaded"
    /\ Rewrite("attention", "feed-forward",
            CASE Family = "qwen2" -> RuntimeBlockOrders(TransformedAttention(target))
              [] Family = "glm" -> TransformedAttention(target)
              [] OTHER -> TransformedHeadNorms(TransformedAttention(target)))

TransformFeedForward ==
    /\ setting.route = "loaded"
    /\ Rewrite("feed-forward", IF Split THEN "split" ELSE "embed",
               TransformedFeedForward(target))

SplitBoundary ==
    \E seed \in Seeds :
        Rewrite("split", "embed",
            [target EXCEPT !.embed = Zeroed(@), !.head = Zeroed(@)]
                @@ [boundary |-> Boundary(Orthogonal(Hidden, seed, 70))])

(* A checkpoint is converted tensor by tensor.                                 *)
StreamAttention ==
    /\ setting.route = "streamed"
    /\ Rewrite("attention", "feed-forward",
            IF Family = "glm4_moe" THEN StreamedAttention(target)
            ELSE IF Family = "qwen2" THEN StreamedQwenAttention(target)
            ELSE IF setting.norm = "plain" THEN TransformedLatentAttention(target)
            ELSE [ConvertedLatentAttention(TransformedLatentAttention(target))
                    EXCEPT !.pairOrder = key.pairOrder])

StreamFeedForward ==
    /\ setting.route = "streamed"
    /\ Rewrite("feed-forward", "boundary",
            IF Family = "glm4_moe" THEN StreamedFeedForward(target)
            ELSE IF Family = "qwen2" THEN StreamedQwenFeedForward(target)
            ELSE IF setting.norm = "plain" THEN TransformedFeedForward(target)
            ELSE ConvertedFeedForward(TransformedFeedForward(target)))

WriteBoundary ==
    Rewrite("boundary", "embed",
        IF setting.norm = "plain" THEN PermutedVocabulary(target)
        ELSE Drafted(ConvertedHead(ConvertedEmbedding(target))))

-----------------------------------------------------------------------------
(* Both models take the next token, a stage at a time.                         *)

Compute(from, to, Result(_, _)) ==
    /\ Step(from, to)
    /\ run' = [side \in Sides |-> Result(side, run[side])]
    /\ UNCHANGED <<setting, source, pair, tau, key, target, prompt, fed>>

Embed ==
    LET Row(side, r) ==
            LET token == prompt[fed + 1]
                id == IF side = "plain" THEN token ELSE EncodePrivate(token, tau)
                rows == IF Split /\ side = "private" THEN target.boundary.embedding
                        ELSE Model(side).embed
            IN [keys |-> r.keys, values |-> r.values, x |-> rows[id]]
    IN fed < Len(prompt) /\ Compute("embed", "project", Row)

Project ==
    LET Read(side, r) ==
            LET m == Model(side)
                h == Normalized(side, r.x, m.inputNorm)
            IN r @@ (IF Family = "deepseek" THEN ProjectedLatent(m, h) ELSE Projected(m, h))
    IN Compute("project", "rotate", Read)

\* The rotated keys and the values join the cache.
Rotate ==
    LET Turned(side, r) ==
            LET m == Model(side)
                Group(h) == h \div (Size(r.q) \div Size(r.k))
            IN [r EXCEPT
                !.q = [h \in DOMAIN @ |-> Rotated(m, @[h], Group(h), fed)],
                !.keys = Append(@, [g \in DOMAIN r.k |-> Rotated(m, r.k[g], g, fed)]),
                !.values = Append(@, r.v)]
    IN Compute("rotate", "attend", Turned)

Attend ==
    LET Joined(side, r) ==
            [keys |-> r.keys, values |-> r.values,
             x |-> Plus(r.x, Attended(Model(side), r.q, r.keys, r.values))]
    IN Compute("attend", "mix", Joined)

Mix ==
    LET Fed(side, r) ==
            LET m == Model(side)
                h == Normalized(side, r.x, m.postNorm)
            IN [r EXCEPT !.x = Plus(@,
                    IF setting.experts = 0 THEN FeedForward(m.dense, h) ELSE Mixed(m, h))]
    IN Compute("mix", "logits", Fed)

Logits ==
    \E outsourced \in IF Split THEN BOOLEAN ELSE {FALSE} :
    LET Scored(side, r) ==
            LET m == Model(side)
                h == Normalized(side, r.x, m.finalNorm)
            IN r @@ [logits |-> IF Split /\ side = "private" THEN BoundaryLogits(h, outsourced)
                               ELSE MatVec(m.head, h)]
    IN Compute("logits", IF setting.draft THEN "draft" ELSE "next", Scored)

\* What a multi-token predictor starts from, for the greatest logit as next token.
Draft ==
    LET next == CHOOSE v \in Places(Tokens) : \A w \in Places(Tokens) :
                    run["plain"].logits[w] <= run["plain"].logits[v]
        Joined(side, r) ==
            LET m == Model(side)
                id == IF side = "plain" THEN next ELSE EncodePrivate(next, tau)
            IN [r EXCEPT !.x = MatVec(m.draft,
                    Concat(Normalized(side, m.embed[id], m.embedNorm),
                           Normalized(side, r.x, m.hiddenNorm)))]
    IN Compute("draft", "next", Joined)

NextToken ==
    /\ Step("next", "embed")
    /\ fed' = fed + 1
    /\ run' = [side \in Sides |->
            [keys |-> run[side].keys, values |-> run[side].values]]
    /\ UNCHANGED <<setting, source, pair, tau, key, target, prompt>>

Next ==
    \/ DrawKeyPair \/ KeepResidual \/ DrawVocabularyKey \/ DrawLayerKey
    \/ ConvertEmbedding \/ ConvertAttention \/ ConvertFeedForward \/ ConvertHead
    \/ TransformAttention \/ TransformFeedForward \/ SplitBoundary
    \/ StreamAttention \/ StreamFeedForward \/ WriteBoundary
    \/ Embed \/ Project \/ Rotate \/ Attend \/ Mix \/ Logits \/ Draft \/ NextToken

Spec == Init /\ [][Next]_vars

-----------------------------------------------------------------------------
Has(field) == field \in DOMAIN run["plain"]

\* The private residual is the plain one times P at every stage, and the logit of
\* a private id is that of the token the vocabulary key sends there: who holds
\* the key reads the plain model's answer off the private one.
ComputesPlainModel ==
    /\ Has("x") => run["private"].x = VecMat(run["plain"].x, pair.p)
    /\ Has("logits") => \A v \in Places(Tokens) :
            run["private"].logits[EncodePrivate(v, tau)] = run["plain"].logits[v]

\* What the server caches is the plain keys and values of the heads' old groups,
\* turned by the maps the key holds for them and never put back: also where the
\* runtime takes the block order away to rotate.
Behind(x, map, private) == private = VecMat(x, map)
CacheStaysPrivate ==
    \A t \in DOMAIN run["plain"].keys :
        LET plain == run["plain"]
            private == run["private"]
        IN \A new \in DOMAIN private.keys[t] :
            IF Family = "deepseek"
            THEN LET old == key.headOrder[new]
                 IN /\ Behind(plain.keys[t][old],
                              BlockDiagonal(key.kNopeMaps[old], key.kRopeMap),
                              private.keys[t][new])
                    /\ Behind(plain.values[t][old], key.valueMaps[old], private.values[t][new])
            ELSE LET old == key.kvOrder[new]
                 IN /\ Behind(Scaled(plain.keys[t][old], Inverse0(key.scale)),
                              key.kMaps[old], private.keys[t][new])
                    /\ Behind(plain.values[t][old], key.valueMaps[old], private.values[t][new])

\* The checkpoint converters of GLM4-MoE and Qwen2 write what a loaded model becomes
\* under the same key: what one of them wrote can be read, checked or updated with the
\* key files of the other.
StreamedIsLoaded ==
    LET converted == ConvertedHead(ConvertedFeedForward(
                        ConvertedAttention(ConvertedEmbedding(source))))
        attention == TransformedAttention(converted)
    IN (Family # "deepseek" /\ setting.route = "streamed" /\ pc = "embed" /\ fed = 0) =>
        target = Drafted(TransformedFeedForward(
                    IF Family = "qwen2" THEN RuntimeBlockOrders(attention)
                    ELSE TransformedHeadNorms(attention)))
=============================================================================
