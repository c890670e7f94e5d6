--------------------- MODULE MC_CompositePolynomialBuilder ---------------------
(***************************************************************************)
(* Instantiates CompositePolynomialBuilder for TLC over Z_5 with two      *)
(* sum-check variables and a table of three rows (so fr is padded).  m1   *)
(* and m2 hold equal values: identity, not value, must tell them apart.  *)
(* m3 is shorter than the table.                                          *)
(***************************************************************************)
EXTENDS CompositePolynomialBuilder

CONSTANTS m1, m2, m3

MCFr == <<2, 3, 1>>

MCMleData == (m1 :> <<1, 4, 2>>) @@ (m2 :> <<1, 4, 2>>) @@ (m3 :> <<3, 1>>)

\* Every MLE has its own data address.
MCMleId == (m1 :> 1) @@ (m2 :> 2) @@ (m3 :> 3)

(***************************************************************************)
(* Aliasing: m3 is a prefix slice of m1's column (as &col[..2] is of      *)
(* &col[..3]), so term.id(), the start address, is the same for both.     *)
(***************************************************************************)
MCMleDataPrefix == (m1 :> <<1, 4, 2>>) @@ (m2 :> <<1, 4, 2>>) @@ (m3 :> <<1, 4>>)

MCMleIdPrefix == (m1 :> 1) @@ (m2 :> 2) @@ (m3 :> 1)

=============================================================================
