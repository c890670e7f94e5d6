---------------------- MODULE MC_PackScalarsAtScale -----------------------
(* Batches around the point where the u32 bit-table sum wraps, 2^29       *)
(* bytes per matrix column, and small ones.                                *)
EXTENDS PackScalarsAtScale

\* 2^24 booleans and one scalar: 35 * 2^24 bytes, which wraps to 3 * 2^24;
\* every slice still fits the shorter buffer.
WrapsAndFits == <<[kind |-> "Boolean", len |-> 2 ^ 24], [kind |-> "Scalar", len |-> 1]>>

\* 2^26 BigInts: 9 * 2^26 bytes, which wraps to 2^26; the data overruns it.
WrapsAndOverruns == <<[kind |-> "BigInt", len |-> 2 ^ 26]>>

\* 33 * (2^24 - 2^19) bytes: just below the wrap.
JustBelowWrap == <<[kind |-> "Scalar", len |-> 2 ^ 24 - 2 ^ 19]>>

Small == <<[kind |-> "SmallInt", len |-> 3], [kind |-> "Int128", len |-> 2]>>

MCShapes == {<<>>, Small, JustBelowWrap, WrapsAndOverruns, WrapsAndFits}

\* Without the batch that wraps and still fits.
MCShapesNoSilentWrap == MCShapes \ {WrapsAndFits}
=============================================================================
