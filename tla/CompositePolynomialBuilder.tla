--------------------- MODULE CompositePolynomialBuilder ---------------------
(***************************************************************************)
(* CompositePolynomialBuilder of sql/proof/composite_polynomial_builder.rs *)
(* The caller makes a bounded number of produce_fr_multiplicand and       *)
(* produce_zerosum_multiplicand calls; make_composite_polynomial is the   *)
(* operator MakeCompositePolynomial over the builder's state.             *)
(*                                                                         *)
(* An MLE is a model value with its evaluation vector MleData[m] and the  *)
(* key term.id() returns for it, MleId[m] (the address of its data).      *)
(* Field elements are Z_P.  Rc-shared vectors are held by value; the      *)
(* history toSumcheckTermCalls counts the materialisations of each MLE.   *)
(***************************************************************************)
EXTENDS Integers, Sequences, SequencesExt

CONSTANTS
    NumSumcheckVariables,  \* num_sumcheck_variables
    Fr,                    \* the random scalars passed to new()
    P,                     \* the field modulus
    Mles,                  \* the MLEs a caller may pass as terms
    MleData,               \* [Mles -> evaluation vector]
    MleId,                 \* [Mles -> address returned by term.id()]
    Mults,                 \* the multipliers a caller may pass
    MaxTerms,              \* most terms in one call
    MaxCalls               \* bound on the number of produce_* calls

ASSUME 2 ^ NumSumcheckVariables >= Len(Fr)      \* the assert! in new()
ASSUME \A m \in Mles : Len(MleData[m]) <= Len(Fr)  \* what mul_add accepts

VARIABLES
    frMultiplicandsDegree1,   \* Vec<ArkScalar> of length Len(Fr)
    frMultiplicandsRest,      \* sequence of [mult, terms]
    zerosumMultiplicands,     \* sequence of [mult, terms]
    mles,                     \* the cache: [ids seen -> padded vector]
    toSumcheckTermCalls,      \* history: materialisations per MLE
    requested                 \* history: the calls made, terms by value

vars == <<frMultiplicandsDegree1, frMultiplicandsRest, zerosumMultiplicands,
          mles, toSumcheckTermCalls, requested>>

\* Mutant: the vector is used unpadded.
ToSumcheckTermNoPad(v) == v

\* to_sumcheck_term: the vector zero-padded to 2^num_sumcheck_variables.
ToSumcheckTerm(v) ==
    [k \in 1..2 ^ NumSumcheckVariables |-> IF k <= Len(v) THEN v[k] ELSE 0]

\* mul_add: res[k] += mult * term[k] for every entry of the term.
MulAdd(res, term, mult) ==
    [k \in DOMAIN res |-> IF k <= Len(term) THEN (res[k] + mult * term[k]) % P ELSE res[k]]

(***************************************************************************)
(* create_multiplicand_with_deduplicated_mles: walks the terms in order,  *)
(* taking a term's padded vector from the cache when its id is there and  *)
(* materialising and caching it otherwise.  Returns the padded terms, the *)
(* new cache and the MLEs materialised, in order.                         *)
(***************************************************************************)
RECURSIVE DedupFrom(_, _, _)

\* Mutant: every term is materialised, the cache never consulted.
DedupFromUncached(terms, i, acc) ==
    IF i > Len(terms) THEN acc
    ELSE LET id == MleId[terms[i]]
             termP == ToSumcheckTerm(MleData[terms[i]])
         IN DedupFrom(terms, i + 1,
                      [termsP |-> Append(acc.termsP, termP),
                       mles   |-> [x \in DOMAIN acc.mles \cup {id} |->
                                     IF x = id THEN termP ELSE acc.mles[x]],
                       made   |-> Append(acc.made, terms[i])])

DedupFrom(terms, i, acc) ==
    IF i > Len(terms) THEN acc
    ELSE LET id == MleId[terms[i]] IN
         IF id \in DOMAIN acc.mles
         THEN DedupFrom(terms, i + 1, [acc EXCEPT !.termsP = Append(@, acc.mles[id])])
         ELSE LET termP == ToSumcheckTerm(MleData[terms[i]]) IN
              DedupFrom(terms, i + 1,
                        [termsP |-> Append(acc.termsP, termP),
                         mles   |-> [x \in DOMAIN acc.mles \cup {id} |->
                                       IF x = id THEN termP ELSE acc.mles[x]],
                         made   |-> Append(acc.made, terms[i])])

CreateMultiplicandWithDeduplicatedMles(terms) ==
    DedupFrom(terms, 1, [termsP |-> <<>>, mles |-> mles, made |-> <<>>])

\* Adds one materialisation for every MLE in made.
CountMade(made) ==
    [m \in Mles |-> toSumcheckTermCalls[m]
                      + Cardinality({k \in DOMAIN made : made[k] = m})]

----------------------------------------------------------------------------
Init ==
    /\ frMultiplicandsDegree1 = [k \in 1..Len(Fr) |-> 0]
    /\ frMultiplicandsRest = <<>>
    /\ zerosumMultiplicands = <<>>
    /\ mles = <<>>
    /\ toSumcheckTermCalls = [m \in Mles |-> 0]
    /\ requested = <<>>

\* The record of a call in the history: its kind, mult and the terms' values.
Request(kind, mult, terms) ==
    [kind |-> kind, mult |-> mult, vs |-> [k \in DOMAIN terms |-> MleData[terms[k]]]]

ProduceFrMultiplicand(mult, terms) ==
    /\ Len(requested) < MaxCalls
    /\ \/ /\ terms = <<>>
          /\ frMultiplicandsDegree1' = [k \in DOMAIN frMultiplicandsDegree1 |->
                                          (frMultiplicandsDegree1[k] + mult) % P]
          /\ UNCHANGED <<frMultiplicandsRest, mles, toSumcheckTermCalls>>
       \/ /\ Len(terms) = 1
          /\ frMultiplicandsDegree1' = MulAdd(frMultiplicandsDegree1, MleData[terms[1]], mult)
          /\ UNCHANGED <<frMultiplicandsRest, mles, toSumcheckTermCalls>>
       \/ /\ Len(terms) > 1
          /\ LET r == CreateMultiplicandWithDeduplicatedMles(terms) IN
             /\ frMultiplicandsRest' = Append(frMultiplicandsRest, [mult |-> mult, terms |-> r.termsP])
             /\ mles' = r.mles
             /\ toSumcheckTermCalls' = CountMade(r.made)
          /\ UNCHANGED frMultiplicandsDegree1
    /\ requested' = Append(requested, Request("fr", mult, terms))
    /\ UNCHANGED zerosumMultiplicands

\* The assert! on empty terms panics: no such call returns.
ProduceZerosumMultiplicand(mult, terms) ==
    /\ Len(requested) < MaxCalls
    /\ terms # <<>>
    /\ LET r == CreateMultiplicandWithDeduplicatedMles(terms) IN
       /\ zerosumMultiplicands' = Append(zerosumMultiplicands, [mult |-> mult, terms |-> r.termsP])
       /\ mles' = r.mles
       /\ toSumcheckTermCalls' = CountMade(r.made)
    /\ requested' = Append(requested, Request("zerosum", mult, terms))
    /\ UNCHANGED <<frMultiplicandsDegree1, frMultiplicandsRest>>

TermSeqs == BoundedSeq(Mles, MaxTerms)

Next ==
    \E mult \in Mults, terms \in TermSeqs :
        \/ ProduceFrMultiplicand(mult, terms)
        \/ ProduceZerosumMultiplicand(mult, terms)

Spec == Init /\ [][Next]_vars

----------------------------------------------------------------------------
\* Mutant: the fr-weighted products are added without their fr factor.
MakeCompositePolynomialNoFr ==
    LET fr == ToSumcheckTerm(Fr) IN
    << [mult |-> 1, terms |-> <<fr, ToSumcheckTerm(frMultiplicandsDegree1)>>] >>
    \o frMultiplicandsRest
    \o zerosumMultiplicands

(***************************************************************************)
(* make_composite_polynomial: the products [coefficient, factors] it adds *)
(* to the CompositePolynomial, in order.                                  *)
(***************************************************************************)
MakeCompositePolynomial ==
    LET fr == ToSumcheckTerm(Fr) IN
    << [mult |-> 1, terms |-> <<fr, ToSumcheckTerm(frMultiplicandsDegree1)>>] >>
    \o [k \in DOMAIN frMultiplicandsRest |->
          [mult |-> frMultiplicandsRest[k].mult,
           terms |-> <<fr>> \o frMultiplicandsRest[k].terms]]
    \o zerosumMultiplicands

----------------------------------------------------------------------------
ML == INSTANCE Multilinear WITH NumVars <- NumSumcheckVariables

TypeOK ==
    /\ frMultiplicandsDegree1 \in [1..Len(Fr) -> 0..P - 1]
    /\ \A k \in DOMAIN frMultiplicandsRest : Len(frMultiplicandsRest[k].terms) >= 2
    /\ \A k \in DOMAIN zerosumMultiplicands : Len(zerosumMultiplicands[k].terms) >= 1
    /\ \A id \in DOMAIN mles : Len(mles[id]) = 2 ^ NumSumcheckVariables
    /\ toSumcheckTermCalls \in [Mles -> Nat]
    /\ Len(requested) \in 0..MaxCalls

(***************************************************************************)
(* Deduplication: however many calls and terms within a call refer to the *)
(* same MLE, it is padded by to_sumcheck_term at most once, and every     *)
(* product refers to that one shared vector.                              *)
(***************************************************************************)
MaterialisedOnce == \A m \in Mles : toSumcheckTermCalls[m] <= 1

Abstract == INSTANCE SumcheckPolynomial
    WITH NumVars <- NumSumcheckVariables,
         Vectors <- {MleData[m] : m \in Mles},
         requests <- requested,
         poly <- [z \in ML!Points |-> ML!CompositeAt(MakeCompositePolynomial, z)],
         zerosumPoly <- [z \in ML!Points |-> ML!CompositeAt(zerosumMultiplicands, z)]

(***************************************************************************)
(* Refinement: after every call, the polynomial make_composite_polynomial *)
(* would build equals, as a polynomial, the sum of mult * fr * terms and  *)
(* mult * terms the calls asked for.  The degree-1 fast paths (broadcast  *)
(* of an empty term, mul_add of a single term into one accumulator),      *)
(* the cache of padded vectors, and the fr factor prepended at assembly   *)
(* together lose, add or duplicate no term, and the zero-sum products    *)
(* are exactly the zero-sum calls' terms, with no fr factor.              *)
(***************************************************************************)
BuilderRefinement == Abstract!Spec

=============================================================================
