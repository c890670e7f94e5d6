-------------------------- MODULE PackScalarsTests --------------------------
(***************************************************************************)
(* The unit tests of pack_scalars.rs (its `mod tests`), stated over the   *)
(* model: the helper tests as equalities of the helper operators, and    *)
(* the packing tests as calls the packer may start with.  Their asserted *)
(* bit tables and buffers are what the model must return, byte for byte. *)
(* A column is a record [kind, data]; a [u64; 4] element is a 4-tuple of *)
(* limbs, least significant first.                                        *)
(***************************************************************************)
EXTENDS PackScalars

\* The elements a, a+1, ..., b as a sequence.
Consecutive(a, b) == [k \in 1..(b - a + 1) |-> a + k - 1]

Limbs2 == << <<1, 2, 3, 4>>, <<5, 6, 7, 8>> >>

\* The batch with one column of each of the nine variants that four of the
\* helper tests build; only the Int128 column differs between them.
AllVariants(int128) ==
    << [kind |-> "SmallInt", data |-> <<1, 2, 3>>],
       [kind |-> "Int", data |-> <<1, 2, 3>>],
       [kind |-> "BigInt", data |-> <<1, 2, 3>>],
       [kind |-> "Int128", data |-> int128],
       [kind |-> "Decimal75", data |-> Limbs2],
       [kind |-> "Scalar", data |-> Limbs2],
       [kind |-> "VarChar", data |-> Limbs2],
       [kind |-> "Boolean", data |-> <<TRUE, FALSE, TRUE>>],
       [kind |-> "TimestampTZ", data |-> <<1, 2, 3>>] >>

we_can_get_correct_data_sizes ==
    LET cols     == AllVariants(<<1, 2, 3>>)
        expected == <<16, 32, 64, 128, 64 * 4, 64 * 4, 64 * 4, 8, 64>>
    IN \A i \in 1..Len(cols) :
          /\ GetBitSize(cols[i]) = expected[i]
          /\ GetByteSize(cols[i]) = expected[i] \div BYTE_SIZE

we_can_get_max_committable_column_length_of_the_same_type ==
    GetMaxCommittableColumnLength(<< [kind |-> "Scalar", data |-> Limbs2],
                                     [kind |-> "Scalar", data |-> <<<<1, 2, 3, 4>>>>] >>) = 2

we_can_get_max_committable_column_length_of_different_types ==
    GetMaxCommittableColumnLength(AllVariants(Consecutive(1, 6))) = 6

we_can_get_a_bit_table ==
    GetOutputBitTable(AllVariants(<<1, 2, 3>>))
        = <<16, 32, 64, 128, 64 * 4, 64 * 4, 64 * 4, 8, 64>>

we_can_get_a_repeated_bit_table ==
    GetRepeatedBitTable(GetOutputBitTable(AllVariants(<<1, 2, 3>>)), 3)
        = <<16, 16, 16, 32, 32, 32, 64, 64, 64, 128, 128, 128, 256, 256,
            256, 256, 256, 256, 256, 256, 256, 8, 8, 8, 64, 64, 64>>

\* The two batches of the four sub-commit count tests.
TwoScalars  == << [kind |-> "Scalar", data |-> Limbs2],
                  [kind |-> "Scalar", data |-> <<<<1, 2, 3, 4>>>>] >>
ThreeShorts == << [kind |-> "SmallInt", data |-> Consecutive(1, 20)],
                  [kind |-> "Int", data |-> Consecutive(1, 15)],
                  [kind |-> "SmallInt", data |-> Consecutive(1, 10)] >>

we_can_get_num_of_columns ==
    /\ GetNumOfSubCommitsPerFullCommit(TwoScalars, 0, 4) = 1
    /\ GetNumOfSubCommitsPerFullCommit(TwoScalars, 5, 4) = 2
    /\ GetNumOfSubCommitsPerFullCommit(ThreeShorts, 0, 4) = 5
    /\ GetNumOfSubCommitsPerFullCommit(ThreeShorts, 1, 4) = 6

HelperUnitTests ==
    /\ we_can_get_correct_data_sizes
    /\ we_can_get_max_committable_column_length_of_the_same_type
    /\ we_can_get_max_committable_column_length_of_different_types
    /\ we_can_get_a_bit_table
    /\ we_can_get_a_repeated_bit_table
    /\ we_can_get_num_of_columns

----------------------------------------------------------------------------
(***************************************************************************)
(* The packing tests: the batch, offset and num_columns each passes, and *)
(* the sub-commit count, bit table and buffer each asserts.               *)
(***************************************************************************)
we_can_create_a_mixed_packed_scalar ==
    [columns    |-> << [kind |-> "SmallInt", data |-> Consecutive(0, 18)],
                       [kind |-> "Int", data |-> Consecutive(19, 37)],
                       [kind |-> "SmallInt", data |-> Consecutive(38, 56)] >>,
     offset     |-> 0,
     numColumns |-> 4,
     subCommits |-> 5,
     bitTable   |-> <<16, 16, 16, 16, 16, 32, 32, 32, 32, 32, 16, 16, 16, 16,
                      16, 8, 8, 8, 8, 8, 8, 8, 8, 8, 8, 8, 8, 8, 8, 8>>,
     packed     |-> <<0, 128, 4, 128, 8, 128, 12, 128, 16, 128, 19, 0, 0, 128,
                      23, 0, 0, 128, 27, 0, 0, 128, 31, 0, 0, 128, 35, 0, 0,
                      128, 38, 128, 42, 128, 46, 128, 50, 128, 54, 128, 1, 1,
                      1, 1, 1, 1, 1, 1, 1, 1, 1, 1, 1, 1, 1, 1, 128, 5, 128, 9,
                      128, 13, 128, 17, 128, 20, 0, 0, 128, 24, 0, 0, 128, 28,
                      0, 0, 128, 32, 0, 0, 128, 36, 0, 0, 128, 39, 128, 43,
                      128, 47, 128, 51, 128, 55, 128, 1, 1, 1, 1, 1, 1, 1, 1,
                      1, 1, 1, 1, 1, 1, 1, 2, 128, 6, 128, 10, 128, 14, 128,
                      18, 128, 21, 0, 0, 128, 25, 0, 0, 128, 29, 0, 0, 128, 33,
                      0, 0, 128, 37, 0, 0, 128, 40, 128, 44, 128, 48, 128, 52,
                      128, 56, 128, 1, 1, 1, 1, 1, 1, 1, 1, 1, 1, 1, 1, 1, 1,
                      1, 3, 128, 7, 128, 11, 128, 15, 128, 0, 0, 22, 0, 0, 128,
                      26, 0, 0, 128, 30, 0, 0, 128, 34, 0, 0, 128, 0, 0, 0, 0,
                      41, 128, 45, 128, 49, 128, 53, 128, 0, 0, 1, 1, 1, 1, 0,
                      1, 1, 1, 1, 0, 1, 1, 1, 1, 0>>]

we_can_create_mixed_packed_scalar_with_offset ==
    [columns    |-> << [kind |-> "SmallInt", data |-> Consecutive(0, 3)],
                       [kind |-> "Int", data |-> Consecutive(4, 7)],
                       [kind |-> "SmallInt", data |-> Consecutive(8, 11)] >>,
     offset     |-> 5,
     numColumns |-> 4,
     subCommits |-> 3,
     bitTable   |-> <<16, 16, 16, 32, 32, 32, 16, 16, 16, 8, 8, 8, 8, 8, 8, 8,
                      8, 8>>,
     packed     |-> <<0, 0, 0, 0, 3, 128, 0, 0, 0, 0, 0, 0, 0, 0, 7, 0, 0, 128,
                      0, 0, 0, 0, 11, 128, 0, 0, 1, 0, 0, 1, 0, 0, 1, 0, 0, 0,
                      128, 0, 0, 0, 0, 0, 0, 4, 0, 0, 128, 0, 0, 0, 0, 0, 0, 8,
                      128, 0, 0, 0, 1, 0, 0, 1, 0, 0, 1, 0, 0, 0, 1, 128, 0, 0,
                      0, 0, 0, 0, 5, 0, 0, 128, 0, 0, 0, 0, 0, 0, 9, 128, 0, 0,
                      0, 1, 0, 0, 1, 0, 0, 1, 0, 0, 0, 2, 128, 0, 0, 0, 0, 0,
                      0, 6, 0, 0, 128, 0, 0, 0, 0, 0, 0, 10, 128, 0, 0, 0, 1,
                      0, 0, 1, 0, 0, 1, 0>>]

\* The one test that passes its count (0) as a literal.
we_can_pack_empty_scalars ==
    [columns |-> <<>>, offset |-> 0, numColumns |-> 1, subCommits |-> 0,
     bitTable |-> <<>>, packed |-> <<>>]

TwoBigInts == << [kind |-> "BigInt", data |-> <<1, 2>>],
                 [kind |-> "BigInt", data |-> <<3, 4>>] >>

we_can_pack_scalars_with_one_full_row ==
    [columns |-> TwoBigInts, offset |-> 0, numColumns |-> 2, subCommits |-> 1,
     bitTable |-> <<64, 64, 8, 8>>,
     packed   |-> <<1, 0, 0, 0, 0, 0, 0, 128, 3, 0, 0, 0, 0, 0, 0, 128, 1, 1,
                    2, 0, 0, 0, 0, 0, 0, 128, 4, 0, 0, 0, 0, 0, 0, 128, 1, 1>>]

we_can_pack_scalars_with_more_than_one_row ==
    [columns |-> TwoBigInts, offset |-> 0, numColumns |-> 1, subCommits |-> 2,
     bitTable |-> <<64, 64, 64, 64, 8, 8, 8, 8>>,
     packed   |-> <<1, 0, 0, 0, 0, 0, 0, 128, 2, 0, 0, 0, 0, 0, 0, 128, 3, 0,
                    0, 0, 0, 0, 0, 128, 4, 0, 0, 0, 0, 0, 0, 128, 1, 1, 1, 1>>]

we_can_pack_scalars_with_one_full_row_with_offset ==
    [columns |-> TwoBigInts, offset |-> 1, numColumns |-> 2, subCommits |-> 2,
     bitTable |-> <<64, 64, 64, 64, 8, 8, 8, 8>>,
     packed   |-> <<0, 0, 0, 0, 0, 0, 0, 0, 2, 0, 0, 0, 0, 0, 0, 128, 0, 0,
                    0, 0, 0, 0, 0, 0, 4, 0, 0, 0, 0, 0, 0, 128, 0, 1, 0, 1,
                    1, 0, 0, 0, 0, 0, 0, 128, 0, 0, 0, 0, 0, 0, 0, 0, 3, 0,
                    0, 0, 0, 0, 0, 128, 0, 0, 0, 0, 0, 0, 0, 0, 1, 0, 1, 0>>]

we_can_pack_scalars_with_more_than_one_row_with_offset ==
    [columns |-> TwoBigInts, offset |-> 1, numColumns |-> 1, subCommits |-> 3,
     bitTable |-> <<64, 64, 64, 64, 64, 64, 8, 8, 8, 8, 8, 8>>,
     packed   |-> <<0, 0, 0, 0, 0, 0, 0, 0, 1, 0, 0, 0, 0, 0, 0, 128, 2, 0,
                    0, 0, 0, 0, 0, 128, 0, 0, 0, 0, 0, 0, 0, 0, 3, 0, 0, 0,
                    0, 0, 0, 128, 4, 0, 0, 0, 0, 0, 0, 128, 0, 1, 1, 0, 1, 1>>]

\* The zero bytes of this buffer are written as runs: Zeros(n) is n of them.
Zeros(n) == [k \in 1..n |-> 0]

we_can_add_offsets ==
    [columns    |-> << [kind |-> "SmallInt", data |-> Consecutive(0, 5)],
                       [kind |-> "Int", data |-> Consecutive(6, 9)],
                       [kind |-> "Scalar", data |-> << <<10, 0, 0, 0>>, <<11, 0, 0, 0>>,
                                                       <<12, 0, 0, 0>> >>] >>,
     offset     |-> 0,
     numColumns |-> 3,
     subCommits |-> 2,
     bitTable   |-> <<16, 16, 32, 32, 64 * 4, 64 * 4, 8, 8, 8, 8, 8, 8>>,
     packed     |-> <<0, 128, 3, 128, 6, 0, 0, 128, 9, 0, 0, 128, 10>> \o Zeros(63)
                    \o <<1, 1, 1, 1, 0, 0, 1, 128, 4, 128, 7, 0, 0, 128>> \o Zeros(4)
                    \o <<11>> \o Zeros(63) \o <<1, 1, 1, 0, 0, 0, 2, 128, 5, 128, 8,
                    0, 0, 128>> \o Zeros(4) \o <<12>> \o Zeros(63) \o <<1, 1, 1, 0, 0, 0>>]

\* The example of the doc comment of get_bit_table_and_scalars_for_packed_msm.
doc_example ==
    [columns    |-> << [kind |-> "SmallInt", data |-> Consecutive(0, 2)],
                       [kind |-> "SmallInt", data |-> Consecutive(3, 7)] >>,
     offset     |-> 1,
     numColumns |-> 3,
     subCommits |-> 2,
     bitTable   |-> <<16, 16, 16, 16, 8, 8, 8, 8>>,
     packed     |-> <<0, 0, 2, 128, 0, 0, 5, 128, 0, 1, 0, 1,
                      0, 128, 0, 0, 3, 128, 6, 128, 1, 0, 1, 1,
                      1, 128, 0, 0, 4, 128, 7, 128, 1, 0, 1, 1>>]

PackingUnitTests ==
    << doc_example,
       we_can_create_a_mixed_packed_scalar,
       we_can_create_mixed_packed_scalar_with_offset,
       we_can_pack_empty_scalars,
       we_can_pack_scalars_with_one_full_row,
       we_can_pack_scalars_with_more_than_one_row,
       we_can_pack_scalars_with_one_full_row_with_offset,
       we_can_pack_scalars_with_more_than_one_row_with_offset,
       we_can_add_offsets >>

\* Each packing test first calls get_num_of_sub_commits_per_full_commit on
\* its inputs (the empty one passes the same 0 directly), then packs.
UnitTestInit ==
    /\ \E k \in DOMAIN PackingUnitTests :
          /\ committableColumns = PackingUnitTests[k].columns
          /\ offset = PackingUnitTests[k].offset
          /\ numColumns = PackingUnitTests[k].numColumns
    /\ numSubCommits = GetNumOfSubCommitsPerFullCommit(committableColumns, offset, numColumns)
    /\ pc = "call"
    /\ bitTable = <<>>
    /\ packedScalars = <<>>
    /\ col = 0
    /\ writeCount = <<>>

\* The packer started on the enumerated inputs or on a unit test's inputs.
TestedSpec == (Init \/ UnitTestInit) /\ [][Next]_vars

\* The state holds the call of packing test t (kinds first, so that the
\* data of columns of different variants are never compared).
IsCallOf(t) ==
    /\ offset = t.offset
    /\ numColumns = t.numColumns
    /\ Len(committableColumns) = Len(t.columns)
    /\ \A c \in 1..Len(t.columns) : committableColumns[c].kind = t.columns[c].kind
    /\ committableColumns = t.columns

(***************************************************************************)
(* The model agrees with every assertion of the unit tests of             *)
(* pack_scalars.rs: the helper tests' sizes, maximum lengths, bit tables  *)
(* and sub-commit counts, and for each packing test the count the caller *)
(* computes, no panic, and on return the extended bit table and the       *)
(* packed buffer the test expects, byte for byte.                          *)
(***************************************************************************)
AgreesWithUnitTests ==
    /\ HelperUnitTests
    /\ \A k \in DOMAIN PackingUnitTests :
          LET t == PackingUnitTests[k] IN
          IsCallOf(t) =>
             /\ numSubCommits = t.subCommits
             /\ pc # "panic"
             /\ pc = "done" =>
                   /\ bitTable = t.bitTable
                   /\ packedScalars = [x \in 0..Len(t.packed) - 1 |-> t.packed[x + 1]]

=============================================================================
