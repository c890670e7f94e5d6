--------------------------- MODULE MC_PackScalars ---------------------------
(***************************************************************************)
(* Instantiates PackScalars for TLC.  Signed elements take the values -1  *)
(* and 1 (their biased encodings differ in every byte), Scalar-like       *)
(* elements a 4-limb value with a non-zero low limb and one with a        *)
(* non-zero high limb, booleans both values.                              *)
(***************************************************************************)
EXTENDS PackScalarsTests

MCValues ==
    [ty \in PrimTypes |->
        CASE IS_SIGNED(ty)  -> {-1, 1}
          [] ty = "bool"    -> {FALSE, TRUE}
          [] ty = "u64x4"   -> {<<1, 0, 0, 0>>, <<0, 0, 0, 2>>}
          [] OTHER          -> {1}]

\* A caller passing one sub-commit fewer than required, exactly as many,
\* or one more.
MCDeltasShort == {-1}
MCDeltasAny   == {-1, 0, 1}

=============================================================================
