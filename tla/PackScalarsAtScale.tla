------------------------- MODULE PackScalarsAtScale -------------------------
(***************************************************************************)
(* The sizes and bounds of one packing call, for batches of millions of   *)
(* rows.  The control is that of PackScalars: the caller's                *)
(* get_num_of_sub_commits_per_full_commit, then                           *)
(* get_bit_table_and_scalars_for_packed_msm allocates and packs one       *)
(* column per step.  The data is abstracted away: a column is its kind    *)
(* and its length, the bit table is kept as runs of equal entries, and    *)
(* the writes of a column are the end of its furthest write, which is all *)
(* that the slice-index bound check of pack_bit / pack_offset_bit reads.  *)
(*                                                                         *)
(* The bit-table sums are u32.  A u32 sum that overflows panics in a       *)
(* debug build and wraps in a release build; Builds says which builds are *)
(* checked.  Every entry of the bit table is a multiple of 8 bits, so a   *)
(* sum of bits wraps at 2^32 exactly when the same sum counted in bytes   *)
(* wraps at 2^29; the model counts bytes so that TLC's integers suffice.  *)
(***************************************************************************)
EXTENDS Integers, Sequences, SequencesExt

CONSTANTS
    Shapes,          \* batches: sequences of [kind, len]
    Offsets,         \* offsets the call may be given
    NumColumnsSet,   \* values of num_columns, 0 included
    Builds           \* subset of {"debug", "release"}

ASSUME Offsets \subseteq Nat /\ NumColumnsSet \subseteq Nat
ASSUME Builds \subseteq {"debug", "release"}

VARIABLES
    shape, offset, numColumns, build,   \* the inputs
    pc,             \* "count", "call", "pack", "done" or "panic"
    numSubCommits,  \* the caller's get_num_of_sub_commits_per_full_commit
    bitTable,       \* the returned bit table, as <<[bits, count]>> runs
    subSum,         \* bit_table_sub_commits_sum, in bytes
    packedLen,      \* packed_scalars.len()
    col             \* index of the for_each over columns

inputs == <<shape, offset, numColumns, build>>
vars == <<shape, offset, numColumns, build, pc, numSubCommits, bitTable,
          subSum, packedLen, col>>

BYTE_SIZE == 8

\* 2^32 bits, in bytes: where a u32 sum of the bit table wraps.
U32WrapBytes == 2 ^ 29

\* get_byte_size
ByteSize(kind) ==
    CASE kind = "Boolean"                           -> 1
      [] kind = "SmallInt"                          -> 2
      [] kind = "Int"                               -> 4
      [] kind \in {"BigInt", "TimestampTZ"}         -> 8
      [] kind = "Int128"                            -> 16
      [] kind \in {"Decimal75", "Scalar", "VarChar"} -> 32

\* The match arms that also call pack_offset_bit.
OffsetKinds == {"SmallInt", "Int", "BigInt", "Int128", "TimestampTZ"}

\* sum::<u32>() of entries totalling `bytes`: the release build wraps.
U32Sum(bytes) == bytes % U32WrapBytes

\* The bytes of the data entries of the first n columns, nsc per column.
DataBytes(s, n, nsc) == nsc * FoldSeq(LAMBDA c, acc : ByteSize(c.kind) + acc, 0, SubSeq(s, 1, n))

MaxLength(s) == IF s = <<>> THEN 0 ELSE Max({s[i].len : i \in 1..Len(s)})

\* The element index i + offset of the last element of the column in row r
\* (-1 or below when the row holds none).
LastInRow(len, off, nc, r) == (off + len - 1) - (((off + len - 1) - r) % nc)

(***************************************************************************)
(* pack_bit / pack_offset_bit: the end of the furthest slice an element of *)
(* the column writes, offset_idx + width, with offset_idx =                *)
(* ((i + offset) % nc) * rowBytes + stride * ((i + offset) / nc) + base.   *)
(* Within a row the index grows with the element, so the furthest write    *)
(* is that of the last element of some row.                               *)
(***************************************************************************)
MaxWriteEnd(len, off, nc, rowBytes, stride, base, width) ==
    LET lasts == {jj \in {LastInRow(len, off, nc, r) : r \in 0..nc - 1} : jj >= off}
    IN IF len = 0 THEN 0
       ELSE Max({(jj % nc) * rowBytes + stride * (jj \div nc) + base + width : jj \in lasts})

\* Column i (0-based): the ends of its data writes and of its offset bytes.
ColumnWriteEnds(i) ==
    LET c        == shape[i + 1]
        b        == ByteSize(c.kind)
        rowBytes == packedLen \div numColumns
        \* bit_table.iter().take(i * nsc).sum::<u32>(): never more than
        \* subSum, so it overflows only where line 227 already did.
        curSum   == IF i > 0 THEN U32Sum(DataBytes(shape, i, numSubCommits)) ELSE 0
        offSum   == subSum + i * numSubCommits
    IN {MaxWriteEnd(c.len, offset, numColumns, rowBytes, b, curSum, b)}
       \cup (IF c.kind \in OffsetKinds
             THEN {MaxWriteEnd(c.len, offset, numColumns, rowBytes, 1, offSum, 1)}
             ELSE {})

----------------------------------------------------------------------------
Init ==
    /\ shape \in Shapes
    /\ offset \in Offsets
    /\ numColumns \in NumColumnsSet
    /\ build \in Builds
    /\ pc = "count"
    /\ numSubCommits = 0
    /\ bitTable = <<>>
    /\ subSum = 0
    /\ packedLen = 0
    /\ col = 0

\* get_num_of_sub_commits_per_full_commit: (max + offset + nc - 1) / nc.
GetNumOfSubCommitsPerFullCommit ==
    /\ pc = "count"
    /\ numColumns > 0
    /\ numSubCommits' = (MaxLength(shape) + offset + numColumns - 1) \div numColumns
    /\ pc' = "call"
    /\ UNCHANGED <<inputs, bitTable, subSum, packedLen, col>>

\* num_columns = 0: the division panics (and, for an empty batch at
\* offset 0, the subtraction before it underflows first).
GetNumDividesByZero ==
    /\ pc = "count"
    /\ numColumns = 0
    /\ pc' = "panic"
    /\ UNCHANGED <<inputs, numSubCommits, bitTable, subSum, packedLen, col>>

\* The bit table (lines 221-231): each column's bit size once per
\* sub-commit, then one 8-bit offset entry per sub-commit entry.
ExtendedBitTable(nsc) ==
    [i \in 1..Len(shape) |-> [bits |-> BYTE_SIZE * ByteSize(shape[i].kind), count |-> nsc]]
    \o <<[bits |-> BYTE_SIZE, count |-> Len(shape) * nsc]>>

\* Mutant: the buffer is sized from the data entries only.
AllocateSubTableOnly ==
    /\ pc = "call"
    /\ LET sub   == DataBytes(shape, Len(shape), numSubCommits)
           total == sub + Len(shape) * numSubCommits
       IN /\ ~(build = "debug" /\ total >= U32WrapBytes)
          /\ bitTable' = ExtendedBitTable(numSubCommits)
          /\ subSum' = U32Sum(sub)
          /\ packedLen' = U32Sum(sub) * numColumns
    /\ pc' = "pack"
    /\ col' = 0
    /\ UNCHANGED <<inputs, numSubCommits>>

\* Lines 221-236: the bit table, bit_table_sub_commits_sum (line 227),
\* bit_table_sum_in_bytes (line 233) and the zeroed buffer of
\* bit_table_sum_in_bytes * num_columns bytes; both sums are u32.
Allocate ==
    /\ pc = "call"
    /\ LET sub   == DataBytes(shape, Len(shape), numSubCommits)
           total == sub + Len(shape) * numSubCommits
       IN /\ ~(build = "debug" /\ total >= U32WrapBytes)
          /\ bitTable' = ExtendedBitTable(numSubCommits)
          /\ subSum' = U32Sum(sub)
          /\ packedLen' = U32Sum(total) * numColumns
    /\ pc' = "pack"
    /\ col' = 0
    /\ UNCHANGED <<inputs, numSubCommits>>

\* A debug build: the u32 sum of line 233 (and maybe already that of line
\* 227, which it includes) overflows and panics.
AllocateOverflowPanics ==
    /\ pc = "call"
    /\ build = "debug"
    /\ LET sub == DataBytes(shape, Len(shape), numSubCommits)
       IN sub + Len(shape) * numSubCommits >= U32WrapBytes
    /\ pc' = "panic"
    /\ UNCHANGED <<inputs, numSubCommits, bitTable, subSum, packedLen, col>>

\* One column packed, every slice inside the buffer.
PackColumn ==
    /\ pc = "pack"
    /\ col < Len(shape)
    /\ \A e \in ColumnWriteEnds(col) : e <= packedLen
    /\ col' = col + 1
    /\ UNCHANGED <<inputs, pc, numSubCommits, bitTable, subSum, packedLen>>

\* A slice of the column ends past the buffer: the index panics.
PackColumnOutOfBounds ==
    /\ pc = "pack"
    /\ col < Len(shape)
    /\ \E e \in ColumnWriteEnds(col) : e > packedLen
    /\ pc' = "panic"
    /\ UNCHANGED <<inputs, numSubCommits, bitTable, subSum, packedLen, col>>

\* Every column packed: the bit table and the buffer are returned.
Return ==
    /\ pc = "pack"
    /\ col = Len(shape)
    /\ pc' = "done"
    /\ UNCHANGED <<inputs, numSubCommits, bitTable, subSum, packedLen, col>>

Next ==
    \/ GetNumOfSubCommitsPerFullCommit \/ GetNumDividesByZero
    \/ Allocate \/ AllocateOverflowPanics
    \/ PackColumn \/ PackColumnOutOfBounds \/ Return

Spec == Init /\ [][Next]_vars

----------------------------------------------------------------------------
(* Properties.                                                              *)

\* The bytes the returned bit table describes, per matrix column.
BitTableBytes == FoldSeq(LAMBDA r, acc : (r.bits \div BYTE_SIZE) * r.count + acc, 0, bitTable)

\* The doc example of get_bit_table_and_scalars_for_packed_msm asserts
\* packed_scalars.len() = num_columns * bit_table_sum / BYTE_SIZE, which
\* is what the packed MSM reads: a call that returns, in the builds and
\* batches the run enumerates, has a buffer exactly as long as its bit
\* table says.
LengthMatchesBitTable ==
    pc = "done" => packedLen = numColumns * BitTableBytes

=============================================================================
