---------------------------- MODULE PackedLayout ----------------------------
(***************************************************************************)
(* What the scalar packer promises (spec 4.2, 7), stated as one atomic     *)
(* step: a call either returns the layout the commitment backend reads,   *)
(* slot by slot, or, when the sub-commit count it was given cannot hold    *)
(* every element, fails.  The layout is given per bit-table entry e and    *)
(* matrix row r: data entry e is shard s of column c and holds the         *)
(* encoding of the element i with i + offset = s * numColumns + r, or      *)
(* zeros; the offset-plane entry of (c, s) holds 1 where that element      *)
(* exists and the column is signed, else 0.                                *)
(***************************************************************************)
EXTENDS Integers, Sequences, ColumnEncoder

VARIABLES
    committableColumns,   \* the batch: a sequence of [kind, data] records
    offset,               \* row of the first element in the full commitment
    numColumns,           \* width of the commitment matrix
    numSubCommits,        \* sub-commits per column the caller asked for
    result                \* [tag: "none", "failed" or "packed", layout]

vars == <<committableColumns, offset, numColumns, numSubCommits, result>>

\* The primitive type each column variant holds (spec 3, Data model).
ElemType(kind) ==
    CASE kind = "SmallInt"                              -> "i16"
      [] kind = "Int"                                   -> "i32"
      [] kind \in {"BigInt", "TimestampTZ"}             -> "i64"
      [] kind = "Int128"                                -> "i128"
      [] kind \in {"Decimal75", "Scalar", "VarChar"}    -> "u64x4"
      [] kind = "Boolean"                               -> "bool"

NumCols == Len(committableColumns)

\* Every element's shard is below the sub-commit count.
Fits ==
    \A c \in 1..NumCols :
        \A i \in 0..Len(committableColumns[c].data) - 1 :
            (i + offset) \div numColumns < numSubCommits

\* The element of column c stored at shard s, row r, if any (0-based index).
ElemAt(c, s, r) == s * numColumns + r - offset

HasElem(c, s, r) ==
    0 <= ElemAt(c, s, r) /\ ElemAt(c, s, r) < Len(committableColumns[c].data)

DataSlot(c, s, r) ==
    LET ty == ElemType(committableColumns[c].kind) IN
    IF HasElem(c, s, r)
    THEN OffsetToBytes(ty, committableColumns[c].data[ElemAt(c, s, r) + 1])
    ELSE [b \in 1..ByteWidth(ty) |-> 0]

OffsetSlot(c, s, r) ==
    << IF HasElem(c, s, r) /\ IS_SIGNED(ElemType(committableColumns[c].kind))
       THEN 1 ELSE 0 >>

\* Entries 1..NumCols*numSubCommits are data planes, the rest offset planes.
Layout ==
    LET n == NumCols * numSubCommits IN
    [e \in 1..2 * n |->
        [r \in 0..numColumns - 1 |->
            LET d == IF e <= n THEN e - 1 ELSE e - n - 1
                c == d \div numSubCommits + 1
                s == d % numSubCommits
            IN IF e <= n THEN DataSlot(c, s, r) ELSE OffsetSlot(c, s, r)]]

NoResult == [tag |-> "none", layout |-> <<>>]
Failed   == [tag |-> "failed", layout |-> <<>>]

Init == result = NoResult

Pack ==
    /\ result = NoResult
    /\ Fits
    /\ result' = [tag |-> "packed", layout |-> Layout]
    /\ UNCHANGED <<committableColumns, offset, numColumns, numSubCommits>>

Fail ==
    /\ result = NoResult
    /\ ~Fits
    /\ result' = Failed
    /\ UNCHANGED <<committableColumns, offset, numColumns, numSubCommits>>

Next == Pack \/ Fail

SafetySpec == Init /\ [][Next]_vars

=============================================================================
