---------------------------- MODULE FieldAlgebra ----------------------------
(***************************************************************************)
(* Vectors and matrices over the field of the integers modulo Prime, indexed *)
(* from 0 as the tensors of the program are.  An identity of linear algebra  *)
(* that the program needs of the reals (a rotation commutes with a rotation, *)
(* a map cancels its inverse) is an identity over every field, and over a    *)
(* finite one it can be evaluated exactly.  A matrix is a vector of rows.    *)
(***************************************************************************)
EXTENDS KeyOrders, FiniteSets

CONSTANT Prime

ASSUME PrimeAssumption ==
    Prime \in Nat /\ Prime > 2 /\ \A d \in 2..(Prime - 1) : Prime % d # 0

Field == 0..(Prime - 1)
Minus(x) == (Prime - x) % Prime
Inverse0(x) == IF x = 0 THEN 0 ELSE CHOOSE y \in Field : (x * y) % Prime = 1

Size(v) == Cardinality(DOMAIN v)

RECURSIVE SumTo(_, _), DotTo(_, _, _)
SumTo(f, n) == IF n = 0 THEN 0 ELSE (f[n - 1] + SumTo(f, n - 1)) % Prime
DotTo(x, y, n) ==
    IF n = 0 THEN 0 ELSE (x[n - 1] * y[n - 1] + DotTo(x, y, n - 1)) % Prime

Total(v) == SumTo(v, Size(v))
Dot(x, y) == DotTo(x, y, Size(x))
Plus(x, y) == [i \in DOMAIN x |-> (x[i] + y[i]) % Prime]
Times(x, y) == [i \in DOMAIN x |-> (x[i] * y[i]) % Prime]
Scaled(x, c) == [i \in DOMAIN x |-> (x[i] * c) % Prime]
Reciprocal(x) == [i \in DOMAIN x |-> Inverse0(x[i])]

Transposed(a) == [j \in DOMAIN a[0] |-> [i \in DOMAIN a |-> a[i][j]]]
MatVec(a, x) == [i \in DOMAIN a |-> Dot(a[i], x)]
VecMat(x, a) == MatVec(Transposed(a), x)
MatMul(a, b) ==
    LET columns == Transposed(b) IN [i \in DOMAIN a |-> MatVec(columns, a[i])]
Identity(n) == [i \in Places(n) |-> [j \in Places(n) |-> IF i = j THEN 1 ELSE 0]]
Diagonal(v) == [i \in DOMAIN v |-> [j \in DOMAIN v |-> IF i = j THEN v[i] ELSE 0]]

(* torch.cat, a slice and index_select along the first dimension, torch.stack  *)
(* of blocks on the diagonal, and index_select along the second dimension.     *)
Concat(x, y) == [i \in Places(Size(x) + Size(y)) |->
                    IF i < Size(x) THEN x[i] ELSE y[i - Size(x)]]
Slice(x, from, n) == [i \in Places(n) |-> x[from + i]]
Select(x, order) == [i \in DOMAIN order |-> x[order[i]]]
SelectColumns(a, order) == [i \in DOMAIN a |-> Select(a[i], order)]
BlockDiagonal(a, b) ==
    Concat([i \in DOMAIN a |-> Concat(a[i], [j \in DOMAIN b |-> 0])],
           [i \in DOMAIN b |-> Concat([j \in DOMAIN a |-> 0], b[i])])

(* The inverse of a small matrix, as the one that cancels it. *)
RECURSIVE Minor(_, _, _), Determinant(_)
Minor(a, row, column) ==
    LET Skip(i, k) == IF i < k THEN i ELSE i + 1
    IN [i \in Places(Size(a) - 1) |-> [j \in Places(Size(a) - 1) |->
            a[Skip(i, row)][Skip(j, column)]]]
Determinant(a) ==
    IF Size(a) = 0 THEN 1
    ELSE Total([j \in DOMAIN a |->
            a[0][j] * (IF j % 2 = 0 THEN 1 ELSE Prime - 1) * Determinant(Minor(a, 0, j))])
InverseMatrix(a) ==
    LET d == Inverse0(Determinant(a))
    IN [i \in DOMAIN a |-> [j \in DOMAIN a |->
            (d * (IF (i + j) % 2 = 0 THEN 1 ELSE Prime - 1)
               * Determinant(Minor(a, j, i))) % Prime]]
=============================================================================
