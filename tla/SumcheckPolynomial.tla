------------------------- MODULE SumcheckPolynomial -------------------------
(***************************************************************************)
(* What the composite-polynomial builder promises (spec 4.3): the          *)
(* polynomial it hands to sum-check is the sum, over every call made so   *)
(* far, of mult * fr * term1 * ... * termK for an fr term and of          *)
(* mult * term1 * ... * termK for a zero-sum term, each term the          *)
(* multilinear extension of its evaluation vector padded with zeros to    *)
(* 2^NumVars entries.  An fr term with no factors stands for the          *)
(* constant-one vector of the table's length, Len(Fr).  The polynomial is *)
(* kept as its values on Z_P^NumVars (module Multilinear), and so is its *)
(* zero-sum part, the sum of the zero-sum terms alone, which sum-check    *)
(* proves sums to zero on the hypercube.                                  *)
(***************************************************************************)
EXTENDS Integers, Sequences, SequencesExt, Multilinear

CONSTANTS
    Fr,        \* the random scalars f_r, a sequence of field elements
    Vectors,   \* the evaluation vectors a term may have
    Mults,     \* the multipliers
    MaxTerms   \* most factors in one term

VARIABLES
    requests,     \* the calls made: [kind, mult, vs], vs the terms' values
    poly,         \* [Points -> 0..P-1]: the whole polynomial
    zerosumPoly   \* [Points -> 0..P-1]: its zero-sum part

Ones == [k \in 1..Len(Fr) |-> 1]

Init ==
    /\ requests = <<>>
    /\ poly = [z \in Points |-> 0]
    /\ zerosumPoly = [z \in Points |-> 0]

\* The polynomial q plus mult * fr * vs[1] * ... (an empty vs is Ones).
WithFrTerm(q, mult, vs) ==
    LET factors == IF vs = <<>> THEN <<Ones>> ELSE vs IN
    [z \in Points |-> (q[z] + mult * MleAt(Fr, z) * ProductAt(factors, z)) % P]

\* The polynomial q plus mult * vs[1] * ... * vs[k].
WithZerosumTerm(q, mult, vs) ==
    [z \in Points |-> (q[z] + mult * ProductAt(vs, z)) % P]

(***************************************************************************)
(* One produce_* call adds the term it asks for; a zero-sum term has a   *)
(* factor and adds to the zero-sum part too.  (The current and next values are bound *)
(* once, so that a refinement mapping is evaluated once per step.)        *)
(***************************************************************************)
Next ==
    \E before \in {poly}, after \in {poly'},
      zBefore \in {zerosumPoly}, zAfter \in {zerosumPoly'} :
       \E mult \in Mults, vs \in BoundedSeq(Vectors, MaxTerms) :
          \/ /\ requests' = Append(requests, [kind |-> "fr", mult |-> mult, vs |-> vs])
             /\ after = WithFrTerm(before, mult, vs)
             /\ zAfter = zBefore
          \/ /\ requests' = Append(requests, [kind |-> "zerosum", mult |-> mult, vs |-> vs])
             /\ vs # <<>>
             /\ after = WithZerosumTerm(before, mult, vs)
             /\ zAfter = WithZerosumTerm(zBefore, mult, vs)

Spec == Init /\ [][Next]_<<requests, poly, zerosumPoly>>

=============================================================================
