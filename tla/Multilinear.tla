---------------------------- MODULE Multilinear ----------------------------
(***************************************************************************)
(* Multilinear extensions over Z_P, used to compare composite polynomials *)
(* (sums of products of extensions) as polynomials: with every product of *)
(* at most P - 1 factors, two of them are equal exactly when their values *)
(* at every point of Z_P^NumVars are.                                      *)
(***************************************************************************)
EXTENDS Integers, Sequences

CONSTANTS
    NumVars,   \* number of variables, the hypercube has 2^NumVars points
    P          \* the prime modulus of the field

HypercubeSize == 2 ^ NumVars

\* The points of Z_P^NumVars, as functions from variable index to Z_P.
Points == [1..NumVars -> 0..P - 1]

\* Bit i (1-based) of the hypercube index b.
Bit(b, i) == (b \div (2 ^ (i - 1))) % 2

\* The Lagrange weight of hypercube index b at z.
RECURSIVE WeightFrom(_, _, _)
WeightFrom(b, z, i) ==
    IF i = 0 THEN 1
    ELSE ((IF Bit(b, i) = 1 THEN z[i] ELSE 1 - z[i]) * WeightFrom(b, z, i - 1)) % P

\* The multilinear extension of v, zero-padded to the hypercube, at z.
MleAt(v, z) ==
    LET RECURSIVE SumFrom(_)
        SumFrom(b) == IF b < 0 THEN 0
                      ELSE ((IF b < Len(v) THEN v[b + 1] * WeightFrom(b, z, NumVars) ELSE 0)
                            + SumFrom(b - 1)) % P
    IN SumFrom(HypercubeSize - 1)

\* The product of the extensions of a sequence of vectors at z.
RECURSIVE ProductAt(_, _)
ProductAt(vs, z) ==
    IF vs = <<>> THEN 1 ELSE (MleAt(Head(vs), z) * ProductAt(Tail(vs), z)) % P

\* A composite polynomial, a sequence of [mult, terms] products, at z.
RECURSIVE CompositeAt(_, _)
CompositeAt(products, z) ==
    IF products = <<>> THEN 0
    ELSE (Head(products).mult * ProductAt(Head(products).terms, z)
          + CompositeAt(Tail(products), z)) % P

=============================================================================
