-------------------------- MODULE MC_ColumnEncoder --------------------------
(***************************************************************************)
(* Checks offset_to_bytes of every signed domain against the spec's rule  *)
(* "shifted = value - MIN, little-endian": i16 over its whole domain, the *)
(* wider domains at the values TLC can represent where a byte boundary or *)
(* a domain extreme is crossed.  Each state is one (type, value) input.   *)
(***************************************************************************)
EXTENDS ColumnEncoder, FiniteSets

VARIABLES t, v

vars == <<t, v>>

I32Min == -2147483647 - 1
I32Max == 2147483647

\* Values around which some byte of the encoding changes.
Boundaries == {0, 256, -256, 65536, -65536, 16777216, -16777216}

\* The values checked for each signed domain.
Domain(ty) ==
    CASE ty = "i16" -> -32768..32767
      [] ty = "i32" -> UNION {c-2..c+1 : c \in Boundaries}
                         \cup {I32Min, I32Min + 1, I32Max - 1, I32Max}
      [] OTHER      -> UNION {c-2..c+1 : c \in Boundaries}
                         \cup {I32Min, I32Min + 1, I32Max - 1, I32Max}

SignedTypes == {ty \in PrimTypes : IS_SIGNED(ty)}

Init == /\ t \in SignedTypes
        /\ v \in Domain(t)

\* Every input is checked in its initial state; nothing else happens.
Next == UNCHANGED vars

Spec == Init /\ [][Next]_vars

\* Strict order of two equally long little-endian byte strings read as
\* unsigned integers: compare from the most significant byte down.
RECURSIVE LeLess(_, _, _)
LeLess(a, b, k) ==
    IF k = 0 THEN FALSE
    ELSE IF a[k] # b[k] THEN a[k] < b[k] ELSE LeLess(a, b, k - 1)

(***************************************************************************)
(* The i16 encoding is exactly the little-endian bytes of the unsigned    *)
(* integer value - i16::MIN (spec 4.1), the reference computed here with  *)
(* exact arithmetic, including at both domain extremes.                   *)
(***************************************************************************)
BiasMatchesReference ==
    t = "i16" =>
        OffsetToBytes(t, v) = [k \in 1..2 |-> ((v + 32768) \div (256 ^ (k - 1))) % 256]

(***************************************************************************)
(* The biased encoding of every signed domain is order preserving: the    *)
(* encoding of v + 1 is a strictly larger unsigned integer than that of   *)
(* v, so negative values sort below positive ones once committed, and     *)
(* i32::MIN and i32::MAX map to all-zero and all-one bytes.               *)
(***************************************************************************)
EncodingOrderPreserving ==
    /\ (v < I32Max /\ v + 1 \in Domain(t)) =>
          LeLess(OffsetToBytes(t, v), OffsetToBytes(t, v + 1), ByteWidth(t))
    /\ (t = "i32" /\ v = I32Min) => OffsetToBytes(t, v) = [k \in 1..4 |-> 0]
    /\ (t = "i32" /\ v = I32Max) => OffsetToBytes(t, v) = [k \in 1..4 |-> 255]

=============================================================================
