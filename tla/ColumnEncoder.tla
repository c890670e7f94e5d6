--------------------------- MODULE ColumnEncoder ---------------------------
(***************************************************************************)
(* The OffsetToBytes trait of proof_primitive/dory/offset_to_bytes.rs: the *)
(* per-primitive rule that turns a typed value into the little-endian      *)
(* bytes the packer copies into the packed-scalar buffer.  Signed integers *)
(* are biased by wrapping_sub(T::MIN) so that they read as unsigned field  *)
(* elements; everything else is passed through unbiased.                   *)
(*                                                                         *)
(* Values are TLC integers (|v| < 2^31).  Bytes of a wider integer above   *)
(* the fourth are therefore its sign extension, which is what the Rust     *)
(* to_le_bytes produces for such a value.  A [u64; 4] value is a 4-tuple   *)
(* of limbs, a bool is TRUE or FALSE.                                      *)
(***************************************************************************)
EXTENDS Integers, Sequences, SequencesExt

\* The primitive domains that implement OffsetToBytes.
PrimTypes == {"u8", "i16", "i32", "i64", "i128", "bool", "u64", "u64x4"}

\* size_of::<T>(): the length of the vector offset_to_bytes returns.
ByteWidth(t) ==
    CASE t \in {"u8", "bool"}  -> 1
      [] t = "i16"             -> 2
      [] t = "i32"             -> 4
      [] t \in {"i64", "u64"}  -> 8
      [] t = "i128"            -> 16
      [] t = "u64x4"           -> 32

\* OffsetToBytes::IS_SIGNED of each implementation.
IS_SIGNED(t) == t \in {"i16", "i32", "i64", "i128"}

\* Byte k (0-based) of the two's-complement representation of v.
TwosComplementByte(v, k) ==
    IF k <= 3 THEN (v \div (256 ^ k)) % 256
    ELSE IF v < 0 THEN 255 ELSE 0

\* x.to_le_bytes() for an integer x of w bytes.
ToLeBytes(x, w) == [k \in 1..w |-> TwosComplementByte(x, k - 1)]

\* Mutant: self.to_le_bytes(), the wrapping_sub(T::MIN) forgotten.
WrappingSubMinLeBytesUnbiased(v, w) == ToLeBytes(v, w)

(***************************************************************************)
(* self.wrapping_sub(T::MIN).to_le_bytes().  T::MIN is -2^(8w-1), so the   *)
(* wrapping subtraction adds 2^(8w-1) modulo 2^(8w): the low w-1 bytes are *)
(* those of self, the top byte gains 128 modulo 256 (the carry out of the  *)
(* top byte is what the wrapping discards).                                *)
(***************************************************************************)
WrappingSubMinLeBytes(v, w) ==
    [k \in 1..w |-> IF k = w THEN (TwosComplementByte(v, k - 1) + 128) % 256
                              ELSE TwosComplementByte(v, k - 1)]

\* Mutant: only the i16 implementation applies the bias.
OffsetToBytesBiasI16Only(t, v) ==
    CASE t = "u8"      -> <<v>>
      [] t = "i16"     -> WrappingSubMinLeBytes(v, 2)
      [] IS_SIGNED(t)  -> ToLeBytes(v, ByteWidth(t))
      [] t = "bool"    -> <<IF v THEN 1 ELSE 0>>
      [] t = "u64"     -> ToLeBytes(v, 8)
      [] t = "u64x4"   -> FlattenSeq([l \in 1..4 |-> ToLeBytes(v[l], 8)])

\* offset_to_bytes of the implementation for t.
OffsetToBytes(t, v) ==
    CASE t = "u8"      -> <<v>>
      [] IS_SIGNED(t)  -> WrappingSubMinLeBytes(v, ByteWidth(t))
      [] t = "bool"    -> <<IF v THEN 1 ELSE 0>>
      [] t = "u64"     -> ToLeBytes(v, 8)
      [] t = "u64x4"   -> FlattenSeq([l \in 1..4 |-> ToLeBytes(v[l], 8)])

----------------------------------------------------------------------------
(***************************************************************************)
(* min_as_fr: T::MIN as an element of the scalar field F, which is        *)
(* modelled by the integers modulo the prime FrModulus.  Values are        *)
(* reduced the way F::from reduces them.                                   *)
(***************************************************************************)
FrModulus == 65521

\* 256^k reduced into F, one byte at a time (every product stays below 2^31).
RECURSIVE Pow256ModFr(_)
Pow256ModFr(k) == IF k = 0 THEN 1 ELSE (256 * Pow256ModFr(k - 1)) % FrModulus

\* 2^e reduced into F, for every exponent a 256-bit value needs.
Pow2ModFr(e) == (2 ^ (e % 8) * Pow256ModFr(e \div 8)) % FrModulus

\* F::from(v) for a value of t (a [u64; 4] is read as four 64-bit limbs).
ValueAsFr(t, v) ==
    CASE t = "bool"  -> IF v THEN 1 ELSE 0
      [] t = "u64x4" -> (v[1] + v[2] * Pow2ModFr(64) + v[3] * Pow2ModFr(128)
                          + v[4] * Pow2ModFr(192)) % FrModulus
      [] OTHER       -> v % FrModulus

\* F::from(T::MIN) for the signed types, F::from(0) or F::from(false) else.
MinAsFr(t) ==
    IF IS_SIGNED(t)
    THEN (FrModulus - Pow2ModFr(8 * ByteWidth(t) - 1)) % FrModulus
    ELSE 0

=============================================================================
