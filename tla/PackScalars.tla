---------------------------- MODULE PackScalars ----------------------------
(***************************************************************************)
(* The scalar packer of proof_primitive/dory/pack_scalars.rs: one call of *)
(* get_bit_table_and_scalars_for_packed_msm, preceded by the caller's     *)
(* get_num_of_sub_commits_per_full_commit.  The call allocates the bit    *)
(* table and the zeroed buffer, then packs one column per step (pack_bit  *)
(* and, for the signed variants, pack_offset_bit), then returns.  A slice *)
(* index past the end of the buffer panics.                               *)
(*                                                                         *)
(* The inputs are chosen in Init from small sets; SubCommitDeltas says    *)
(* how far the sub-commit count the caller passes is from the count       *)
(* get_num_of_sub_commits_per_full_commit computes (0: a correct caller). *)
(***************************************************************************)
EXTENDS Integers, Sequences, SequencesExt, ColumnEncoder

CONSTANTS
    Kinds,            \* CommittableColumn variants a batch may contain
    MaxColumns,       \* most columns in a batch
    MaxColumnLength,  \* most elements in a column
    Values,           \* [primitive type -> the values an element may take]
    Offsets,          \* offsets the call may be given
    NumColumnsSet,    \* commitment widths num_columns may take (>= 1)
    SubCommitDeltas   \* caller's sub-commit count minus the computed one

ASSUME MaxColumns \in Nat /\ MaxColumnLength \in Nat
ASSUME Offsets \subseteq Nat /\ NumColumnsSet \subseteq Nat \ {0}
ASSUME SubCommitDeltas \subseteq Int

VARIABLES
    committableColumns, offset, numColumns, numSubCommits,  \* the inputs
    pc,             \* "call", "pack", "done" or "panic"
    bitTable,       \* the extended bit table being returned
    packedScalars,  \* the buffer: [0..len-1 -> byte]
    col,            \* columns packed so far (index of the for_each)
    writeCount      \* history: how often each byte of the buffer was written

inputs == <<committableColumns, offset, numColumns, numSubCommits>>
vars == <<committableColumns, offset, numColumns, numSubCommits,
          pc, bitTable, packedScalars, col, writeCount>>

BYTE_SIZE == 8

\* The OffsetToBytes implementation each match arm of the packing loop uses.
ColumnType(kind) ==
    CASE kind = "SmallInt"                              -> "i16"
      [] kind = "Int"                                   -> "i32"
      [] kind \in {"BigInt", "TimestampTZ"}             -> "i64"
      [] kind = "Int128"                                -> "i128"
      [] kind \in {"Decimal75", "Scalar", "VarChar"}    -> "u64x4"
      [] kind = "Boolean"                               -> "bool"

\* Mutant: the TimestampTZ arm does not call pack_offset_bit.
OffsetKindsNoTimestamp == {"SmallInt", "Int", "BigInt", "Int128"}

\* The match arms that also call pack_offset_bit.
OffsetKinds == {"SmallInt", "Int", "BigInt", "Int128", "TimestampTZ"}

GetByteSize(column) ==
    CASE column.kind = "SmallInt"                           -> 2
      [] column.kind = "Int"                                -> 4
      [] column.kind \in {"BigInt", "TimestampTZ"}          -> 8
      [] column.kind = "Int128"                             -> 16
      [] column.kind \in {"Decimal75", "Scalar", "VarChar"} -> 32
      [] column.kind = "Boolean"                            -> 1

GetBitSize(column) == GetByteSize(column) * BYTE_SIZE

GetOutputBitTable(cols) == [i \in 1..Len(cols) |-> GetBitSize(cols[i])]

GetMaxCommittableColumnLength(cols) ==
    IF cols = <<>> THEN 0 ELSE Max({Len(cols[i].data) : i \in 1..Len(cols)})

GetRepeatedBitTable(bt, n) == FlattenSeq([i \in 1..Len(bt) |-> [k \in 1..n |-> bt[i]]])

\* Mutant: the division truncates instead of rounding up.
GetNumOfSubCommitsPerFullCommitFloor(cols, off, nc) ==
    (GetMaxCommittableColumnLength(cols) + off) \div nc

GetNumOfSubCommitsPerFullCommit(cols, off, nc) ==
    (GetMaxCommittableColumnLength(cols) + off + nc - 1) \div nc

\* bit_table.iter().sum::<u32>() (the sums stay far below 2^32 here).
RECURSIVE SumBits(_)
SumBits(s) == IF s = <<>> THEN 0 ELSE Head(s) + SumBits(Tail(s))

\* iter().take(n)
Take(s, n) == SubSeq(s, 1, IF n < Len(s) THEN n ELSE Len(s))

\* Mutant: one offset entry per column instead of per sub-commit.
ExtendedBitTableOnePerColumn(cols, nsc) ==
    LET sub == GetRepeatedBitTable(GetOutputBitTable(cols), nsc) IN
    sub \o [k \in 1..Len(cols) |-> BYTE_SIZE]

\* The data-plane table followed by one 8-bit offset entry per sub-commit.
ExtendedBitTable(cols, nsc) ==
    LET sub == GetRepeatedBitTable(GetOutputBitTable(cols), nsc) IN
    sub \o [k \in 1..Len(sub) |-> BYTE_SIZE]

\* Mutant: the shard advances the slot by one byte, not by the byte size.
PackBitNoByteStride(column, currentBitTableSum, off, currentByteSize, rowBytes, nc) ==
    [e \in 1..Len(column.data) |->
        LET j == e - 1 + off IN
        [at    |-> (j % nc) * rowBytes + (j \div nc) + currentBitTableSum \div BYTE_SIZE,
         bytes |-> OffsetToBytes(ColumnType(column.kind), column.data[e])]]

(***************************************************************************)
(* pack_bit: the writes, in order, of the encoded elements of one column.  *)
(* A write is the first buffer index and the bytes copied there.           *)
(***************************************************************************)
PackBit(column, currentBitTableSum, off, currentByteSize, rowBytes, nc) ==
    [e \in 1..Len(column.data) |->
        LET j == e - 1 + off IN
        [at    |-> (j % nc) * rowBytes + currentByteSize * (j \div nc)
                     + currentBitTableSum \div BYTE_SIZE,
         bytes |-> OffsetToBytes(ColumnType(column.kind), column.data[e])]]

\* pack_offset_bit: the byte 1 in the offset plane of every element.
PackOffsetBit(column, currentBitTableSum, off, rowBytes, nc) ==
    [e \in 1..Len(column.data) |->
        LET j == e - 1 + off IN
        [at    |-> (j % nc) * rowBytes + j \div nc + currentBitTableSum \div BYTE_SIZE,
         bytes |-> <<1>>]]

\* One iteration of the for_each over columns: column i (0-based).
ColumnWrites(i) ==
    LET column     == committableColumns[i + 1]
        nsc        == numSubCommits
        subSum     == SumBits(GetRepeatedBitTable(GetOutputBitTable(committableColumns), nsc))
        rowBytes   == SumBits(bitTable) \div BYTE_SIZE
        curSum     == IF i > 0 THEN SumBits(Take(bitTable, i * nsc)) ELSE 0
        offsetSum  == subSum + i * BYTE_SIZE * nsc
        data       == PackBit(column, curSum, offset, GetByteSize(column), rowBytes, numColumns)
    IN IF column.kind \in OffsetKinds
       THEN data \o PackOffsetBit(column, offsetSum, offset, rowBytes, numColumns)
       ELSE data

InBounds(w) == w.at + Len(w.bytes) <= Cardinality(DOMAIN packedScalars)

Covers(w, x) == w.at <= x /\ x < w.at + Len(w.bytes)

\* copy_from_slice / index assignment of every write: a byte holds the
\* last write that covers it.
ApplyWrites(buf, ws) ==
    [x \in DOMAIN buf |->
        LET hits == {k \in DOMAIN ws : Covers(ws[k], x)} IN
        IF hits = {} THEN buf[x]
        ELSE LET w == ws[Max(hits)] IN w.bytes[x - w.at + 1]]

\* Mutant: the TimestampTZ arm takes the unsigned minimum.
GetMinAsFrTimestampUnsigned(column) ==
    CASE column.kind = "TimestampTZ"                         -> MinAsFr("u64x4")
      [] column.kind \in {"Decimal75", "Scalar", "VarChar", "Boolean"} -> MinAsFr("u64x4")
      [] OTHER                                                -> MinAsFr(ColumnType(column.kind))

\* get_min_as_fr: the Boolean arm takes the minimum of [u64; 4], not bool.
GetMinAsFr(column) ==
    CASE column.kind \in {"Decimal75", "Scalar", "VarChar", "Boolean"} -> MinAsFr("u64x4")
      [] OTHER                                                -> MinAsFr(ColumnType(column.kind))

----------------------------------------------------------------------------
Columns == UNION {{[kind |-> k, data |-> d] :
                     d \in BoundedSeq(Values[ColumnType(k)], MaxColumnLength)} : k \in Kinds}

Init ==
    /\ committableColumns \in UNION {[1..n -> Columns] : n \in 0..MaxColumns}
    /\ offset \in Offsets
    /\ numColumns \in NumColumnsSet
    /\ \E d \in SubCommitDeltas :
          numSubCommits = GetNumOfSubCommitsPerFullCommit(committableColumns, offset, numColumns) + d
    /\ numSubCommits >= 0
    /\ pc = "call"
    /\ bitTable = <<>>
    /\ packedScalars = <<>>
    /\ col = 0
    /\ writeCount = <<>>

\* Lines 221-236: the extended bit table and the zeroed buffer.
AllocatePackedScalars ==
    /\ pc = "call"
    /\ LET bt  == ExtendedBitTable(committableColumns, numSubCommits)
           len == (SumBits(bt) \div BYTE_SIZE) * numColumns
       IN /\ bitTable' = bt
          /\ packedScalars' = [x \in 0..len - 1 |-> 0]
          /\ writeCount' = [x \in 0..len - 1 |-> 0]
    /\ pc' = "pack"
    /\ col' = 0
    /\ UNCHANGED inputs

\* One column packed with every write inside the buffer.
PackColumn ==
    /\ pc = "pack"
    /\ col < Len(committableColumns)
    /\ LET ws == ColumnWrites(col) IN
       /\ \A k \in DOMAIN ws : InBounds(ws[k])
       /\ packedScalars' = ApplyWrites(packedScalars, ws)
       /\ writeCount' = [x \in DOMAIN writeCount |->
                           writeCount[x] + Cardinality({k \in DOMAIN ws : Covers(ws[k], x)})]
    /\ col' = col + 1
    /\ UNCHANGED <<inputs, pc, bitTable>>

\* A write of the column indexes past the end of the buffer: panic.
PackColumnOutOfBounds ==
    /\ pc = "pack"
    /\ col < Len(committableColumns)
    /\ \E k \in DOMAIN ColumnWrites(col) : ~InBounds(ColumnWrites(col)[k])
    /\ pc' = "panic"
    /\ UNCHANGED <<inputs, bitTable, packedScalars, col, writeCount>>

\* Line 404: every column packed, the bit table and buffer are returned.
Return ==
    /\ pc = "pack"
    /\ col = Len(committableColumns)
    /\ pc' = "done"
    /\ UNCHANGED <<inputs, bitTable, packedScalars, col, writeCount>>

Next == AllocatePackedScalars \/ PackColumn \/ PackColumnOutOfBounds \/ Return

\* One call on one thread; its loop is bounded by the number of columns.
Spec == Init /\ [][Next]_vars

----------------------------------------------------------------------------
(***************************************************************************)
(* No byte of the buffer is written twice in one call: the data slots of  *)
(* every (column, shard, row) and the offset-plane bytes are disjoint.    *)
(* This is what makes the order in which columns are packed irrelevant,   *)
(* and packing them in parallel (spec 5) race free.                       *)
(***************************************************************************)
WriteOnce == \A x \in DOMAIN writeCount : writeCount[x] <= 1

(***************************************************************************)
(* The packer panics only when its caller passed fewer sub-commits than   *)
(* get_num_of_sub_commits_per_full_commit computes: with the computed     *)
(* count, or more, no slice index of pack_bit or pack_offset_bit runs     *)
(* past the buffer the bit table sized.                                   *)
(***************************************************************************)
PanicOnlyOnMismatch ==
    pc = "panic" =>
        numSubCommits < GetNumOfSubCommitsPerFullCommit(committableColumns, offset, numColumns)

(***************************************************************************)
(* The layout the commitment backend reads.  It walks the returned bit    *)
(* table: entry e of row r starts at r * (row width) plus the bytes of    *)
(* the entries before e, and is bitTable[e] / 8 bytes wide.               *)
(***************************************************************************)
BackendView ==
    LET rowBytes == SumBits(bitTable) \div BYTE_SIZE IN
    [e \in 1..Len(bitTable) |->
        [r \in 0..numColumns - 1 |->
            LET start == r * rowBytes + SumBits(Take(bitTable, e - 1)) \div BYTE_SIZE IN
            [b \in 1..bitTable[e] \div BYTE_SIZE |-> packedScalars[start + b - 1]]]]

Abstract == INSTANCE PackedLayout
    WITH result <- CASE pc = "done"  -> [tag |-> "packed", layout |-> BackendView]
                     [] pc = "panic" -> [tag |-> "failed", layout |-> <<>>]
                     [] OTHER        -> [tag |-> "none", layout |-> <<>>]

(***************************************************************************)
(* Refinement: the call implements PackedLayout.  Read through the bit    *)
(* table it returns, the buffer holds every element's encoding in the     *)
(* slot of its column, shard and row, zeros in every empty slot, and the  *)
(* offset plane marks exactly the elements of signed columns; a call that *)
(* cannot hold its elements fails.                                        *)
(***************************************************************************)
PackerRefinementSafety == Abstract!SafetySpec

\* A little-endian byte string read as an unsigned integer, in F.
RECURSIVE LeBytesAsFr(_)
LeBytesAsFr(b) ==
    IF b = <<>> THEN 0 ELSE (Head(b) + 256 * LeBytesAsFr(Tail(b))) % FrModulus

(***************************************************************************)
(* Sign correction (spec 4.2): the backend commits each data slot as the  *)
(* unsigned integer its bytes spell and each offset slot as 0 or 1; the   *)
(* verifier adds get_min_as_fr(column) times the offset slot.  For every  *)
(* element of every column of a returned layout, this recovers exactly    *)
(* the element's value in F: the bias offset_to_bytes applied, the offset *)
(* plane pack_offset_bit wrote and the constant get_min_as_fr returns      *)
(* agree for every kind, including TimestampTZ and Boolean.               *)
(***************************************************************************)
SignCorrectionRecoversValue ==
    pc = "done" =>
        LET nsc  == numSubCommits
            n    == Len(committableColumns) * nsc
            view == BackendView
        IN \A c \in 1..Len(committableColumns), s \in 0..nsc - 1, r \in 0..numColumns - 1 :
              LET column == committableColumns[c]
                  i      == s * numColumns + r - offset
                  e      == (c - 1) * nsc + s + 1
              IN (0 <= i /\ i < Len(column.data)) =>
                    (LeBytesAsFr(view[e][r])
                       + GetMinAsFr(column) * view[n + e][r][1]) % FrModulus
                    = ValueAsFr(ColumnType(column.kind), column.data[i + 1])

(***************************************************************************)
(* Spec 9 states that the timestamp variant never receives sign-          *)
(* correction bytes: once the call returns, the offset plane of every     *)
(* TimestampTZ column is all zeros.                                       *)
(***************************************************************************)
TimestampOffsetPlaneUnused ==
    pc = "done" =>
        LET n == Len(committableColumns) * numSubCommits IN
        \A c \in 1..Len(committableColumns), s \in 0..numSubCommits - 1,
           r \in 0..numColumns - 1 :
            committableColumns[c].kind = "TimestampTZ" =>
                BackendView[n + (c - 1) * numSubCommits + s + 1][r] = <<0>>

=============================================================================
