# TLA+ models of the proof-of-sql commitment and proof assembly core

This directory holds TLA+ models of the two engines that spec.md calls the
core of the system. They are checked with TLC.

- **The scalar packer.** It lays heterogeneous typed columns out in one byte
  buffer for a single batched (packed) MSM commitment.
- **The composite-polynomial builder.** It assembles the polynomial consumed
  by sum-check.

It also models the CLI demo of `david`, which proves a query and checks the
proof through `run_dory_verification`, the entry point for callers outside
the crate.

Every definition that models code is listed with its source lines in
`PROJECT.json` under `"map"`.

## 1. Inventory

### Parts of the system and how they interact

| Part | Source | State | Operations |
|---|---|---|---|
| ColumnEncoder | `proof_primitive/dory/offset_to_bytes.rs` | none (pure) | `offset_to_bytes`, `IS_SIGNED`, `min_as_fr` for u8, i16, i32, i64, i128, bool, u64, [u64; 4] |
| ScalarPacker | `proof_primitive/dory/pack_scalars.rs` | one call: bit table, zeroed buffer, column index of the `for_each` | `get_num_of_sub_commits_per_full_commit`, `get_bit_table_and_scalars_for_packed_msm` (allocate, pack each column with `pack_bit` / `pack_offset_bit`, return), `get_min_as_fr` |
| CompositePolynomialBuilder | `sql/proof/composite_polynomial_builder.rs` | degree-1 accumulator, fr-weighted products, zero-sum products, identity-keyed cache of padded vectors | `new`, `produce_fr_multiplicand` (empty / single / multi-term), `produce_zerosum_multiplicand`, `make_composite_polynomial` |
| CLI demo | `david/src/main.rs` | the arguments of `run_dory_verification` and its result | `main` (prove, commit, call, print), `run_dory_verification`, `run_verification` |
| mod.rs files | `proofs/src/base/mod.rs`, `proof-of-sql/src/sql/mod.rs` | none | declarations only |

How the parts interact:

- The packer calls the encoder once per element, and writes a sign-correction
  byte for signed columns.
- The caller computes the sub-commit count with
  `get_num_of_sub_commits_per_full_commit` and passes it back to the packing
  call.
- The packed MSM backend reads the buffer through the returned bit table.
- The verifier undoes the sign bias with `get_min_as_fr` times the number of
  offset bytes.
- The builder is independent of the packer. Its callers pass evaluation
  vectors (MLEs) with an identity (`term.id()`, the address of the data).
  `to_sumcheck_term` and `mul_add` are defined outside `src/`; they are
  modelled from spec section 4.3.
- The demo's `main` proves its query over a table held by a test accessor,
  commits to the referenced columns, and hands query text, schema,
  commitments, proof and result to `run_dory_verification`. The verifier
  parses the text again and resolves it against the commitments alone.

### What makes it hard

- **Packer, layout arithmetic.** Row, shard and byte offsets are computed from
  `offset`, `num_columns`, the prefix sums of the bit table, and a sub-commit
  count that the caller supplies. Nothing in the call checks that the count
  matches the columns.
- **Packer, sign-correction layout.** The offset planes are interleaved after
  all the data planes.
- **Packer at scale.** The batches sit around the wrap point of 2^29 bytes
per matrix column:

- `JustBelowWrap`: 33 * (2^24 - 2^19) bytes, below it;
- `WrapsAndOverruns`: 9 * 2^26 bytes, wraps to 2^26, which the data
  overruns;
- `WrapsAndFits`: 35 * 2^24 bytes, wraps to 3 * 2^24, and every slice still
  fits.

With `num_columns` up to 2, every intermediate value stays below 2^31. The
pass run leaves out `WrapsAndFits`, the one batch whose release build returns
a short buffer. The violation run shows that case.

**Encoder.** Two's-complement wrapping at the domain extremes and across
  byte boundaries.
- **Builder, fast paths.** Two degree-1 fast paths bypass the product list.
- **Builder, the cache.** It is keyed by address, and it lives longer than the
  terms.
- **Builder, assembly.** The fr factor is applied only when the polynomial is
  assembled.
- **Concurrency.** There is none in the code. The calls are synchronous, and
  the only parallelism is a rayon `par_iter_mut` over independent elements.
  The hazards are therefore about sequences of calls, boundaries and
  identity, not about interleaving.

## 2. Modules

| Module | Models | Kind |
|---|---|---|
| `ColumnEncoder` | `offset_to_bytes`, `IS_SIGNED` and `min_as_fr` of every implementation | pure operators |
| `MC_ColumnEncoder` | one state per (signed type, value) input | MC |
| `PackScalars` | one call of `get_bit_table_and_scalars_for_packed_msm`, with its helpers | state machine |
| `PackScalarsTests` | the unit tests of `pack_scalars.rs`: helper assertions, and the packing tests' inputs and expected outputs | test translation |
| `PackScalarsAtScale` | the same call for batches of millions of rows: sizes, u32 sums and bounds checks, without the data | state machine |
| `MC_PackScalarsAtScale` | batches around the u32 wrap, and small ones | MC |
| `PackedLayout` | what the packer promises (spec 4.2, 7): slot by slot contents, or failure | abstract spec |
| `MC_PackScalars` | the values elements may take; the caller's count offsets | MC |
| `CompositePolynomialBuilder` | the builder and its cache | state machine |
| `Multilinear` | multilinear extensions over Z_P, products, sums of products | pure operators |
| `SumcheckPolynomial` | what the builder promises (spec 4.3): the requests made, the polynomial and its zero-sum part | abstract spec |
| `MC_CompositePolynomialBuilder` | the MLEs, their data and addresses | MC |
| `DoryVerificationDemo` | `main`, `run_dory_verification`, `run_verification`, and an API caller | state machine |
| `MC_DoryVerificationDemo` | the query texts, schemas and tables an API caller may use | MC |

### PackScalars

The variables are:

- the inputs `committableColumns`, `offset`, `numColumns` and
  `numSubCommits`;
- `pc` (`call`, `pack`, `done` or `panic`);
- `bitTable` and `packedScalars`, which is the buffer;
- `col`, the index of the `for_each`;
- `writeCount`, a history of writes per byte.

`Init` chooses the inputs. `numSubCommits` is the count
`GetNumOfSubCommitsPerFullCommit` computes, plus a delta from
`SubCommitDeltas`: 0 for a correct caller.

The actions are:

- `AllocatePackedScalars` (lines 221-236);
- `PackColumn`, one iteration of the `for_each`, including its
  `pack_bit`/`pack_offset_bit` calls;
- `PackColumnOutOfBounds`, where a slice index passes the end of the buffer
  and the code panics;
- `Return`.

`ColumnWrites(i)` computes, in order, the writes of column `i`. Each write is
a first index and the bytes written. `ApplyWrites` gives each byte the last
write covering it. This is exactly the effect of the sequential
`copy_from_slice` and the index assignments.

`BackendView` reads the buffer the way the backend does, through bit-table
prefix sums. It is the refinement mapping to `PackedLayout`. `PackedLayout`
defines each slot from the element index `s * numColumns + r - offset` and is
independent of the code's offset arithmetic.

### PackScalarsAtScale

The u32 sums of the bit table wrap only once they reach 2^32 bits. No batch that
`PackScalars` enumerates byte by byte comes near that. This module keeps the
call's control flow and drops the data:

- a column is `[kind, len]`;
- the bit table is kept as runs `[bits, count]`;
- a column's writes are reduced to the end of its furthest slice, which is
  all that the slice-index check reads.

`MaxWriteEnd` takes the last element of each row. Within a row the index
grows with the element (the stride is positive), so that is the furthest
write; a call panics exactly when that end passes the buffer.

Every bit-table entry is a multiple of 8. So the model counts bytes, and a
sum wraps at 2^29 bytes exactly when the u32 sum of bits wraps at 2^32. The
build is an input:

- a debug build panics on the overflow (`AllocateOverflowPanics`);
- a release build wraps (`U32Sum`).

`GetNumOfSubCommitsPerFullCommit` is the caller's step. With
`num_columns = 0` it panics (`GetNumDividesByZero`).

### PackScalarsTests

Each test of `mod tests` in `pack_scalars.rs` is one definition with the
test's name.

- The helper tests (sizes, maximum lengths, bit tables, sub-commit counts)
  are equalities over the helper operators.
- The packing tests are records of the inputs each test passes and the
  count, bit table and buffer each asserts. `doc_example` is the example in
  the doc comment of `get_bit_table_and_scalars_for_packed_msm`, which is
  written the same way.

`UnitTestInit` starts the packer on each packing test's inputs, the way the
tests call it. `TestedSpec` adds these initial states to those of `Init`.
`AgreesWithUnitTests` then checks the returned bit table and buffer against
the test's expected arrays, byte for byte. This validates the model against
the code's own assertions. It also runs every other packer property on
batches far larger than the enumerated ones: three columns of 19 elements,
offset 5, and four matrix columns.

### CompositePolynomialBuilder

The variables follow the struct: `frMultiplicandsDegree1`,
`frMultiplicandsRest`, `zerosumMultiplicands` and `mles`, the cache keyed by
`MleId`. There are two more:

- `toSumcheckTermCalls`, a history of materialisations per MLE;
- `requested`, a history of the calls made: kind, mult and the terms' values,
  which is what the caller asked for. Its length is bounded by `MaxCalls`.

`ProduceFrMultiplicand` has one disjunct per branch of lines 38-48.
`ProduceZerosumMultiplicand` takes the `assert!` as its guard: a call with no
terms panics, so it never returns. `MakeCompositePolynomial` gives the
products of `make_composite_polynomial` in order.

The refinement mapping takes `requests` to be the history `requested`, `poly`
to be those products evaluated at every point of Z_5^2, and `zerosumPoly` to be
the zero-sum products evaluated there. Each abstract step appends one request
and adds exactly that request's term. A builder that stores a different vector
than the one asked for is therefore caught, even when the result would be a
valid term for some other call. Every product has at most
3 factors, each of degree 1 in each variable. So two such polynomials agree as
polynomials exactly when they agree on Z_5^2.

### DoryVerificationDemo

`caller` is `"main"` or `"api"`. `pc` follows `main`: `"prove"`,
`"verify"`, `"print"`, `"done"`; an API caller starts at `"verify"`. The
other variables are the arguments of `run_dory_verification`, its returned
option `resultOpt` and the line `main` prints.

- `Prove` is lines 75-97: the table `sxt.table` with `a = [1,2,3]` and
  `b = [1,0,1]`, `QueryExpr::try_new(...).unwrap()` against the accessor,
  `QueryProof::new`, and the commitments of `get_column_references()`.
- `RunDoryVerification` calls `RunVerification`, lines 16-41, with its
  early returns: query parse, schema parse, `try_new` against the
  commitments, `verify`. Each failure gives `None`.
- `PrintResult` is the `match` of lines 108-114.

The parser, `try_new`, `QueryProof::new` and `verify` are not under `src/`.
They are modelled by their contracts (marked `spec_modelled` in the map):

- a query is a filter `SELECT * FROM t WHERE col = val`;
- `SELECT *` selects every column the schema accessor knows;
- a commitment binds the column data;
- `verify` accepts exactly a proof made for the verifier's expression over
  the committed data, with that expression's true result.

An API caller passes any combination of:

- the query texts and schemas of the MC module;
- commitments to all columns, or only `b`, of the honest or a tampered
  table;
- honest proofs and results of any resolvable query over either table.

## 3. Runs

| Run | cfg | Expect | Shows |
|---|---|---|---|
| encoder | `MC_ColumnEncoder.cfg` | pass | i16 encodings equal `(v - MIN)` in little-endian over the whole domain. Every signed encoding is strictly order preserving at each byte boundary and at `i32::MIN`/`MAX`. |
| packer | `MC_PackScalars.cfg` | pass | All 9 kinds, batches of up to 2 columns of up to 2 elements, offset 0/1, 1 or 2 matrix columns, correct count. No byte is written twice (`WriteOnce`), and the call refines `PackedLayout` (`PackerRefinementSafety`). Adding `get_min_as_fr` times the offset byte to the unsigned data bytes gives every element's value in F (`SignCorrectionRecoversValue`). Starting also from the inputs of the eight packing unit tests and of the function's doc example, the model returns exactly the bit tables and buffers they assert, and the helper tests hold (`AgreesWithUnitTests`). |
| packer_contract | `MC_PackScalars_contract.cfg` | pass | A count one short, exact or one over. A panic happens only when the count is short (`PanicOnlyOnMismatch`). |
| packer_mismatch | `MC_PackScalars_mismatch.cfg` | violation | A count one short can return normally with overwritten elements, where spec 7 asks for fail-fast. |
| packer_timestamp | `MC_PackScalars_timestamp.cfg` | violation | TimestampTZ columns write sign-correction bytes, where spec 9 says they never do. |
| packer_scale | `MC_PackScalarsAtScale.cfg` | pass | Both builds; offsets 0/1; `num_columns` 0, 1 or 2. Batches: empty, small, one just below the wrap, and 2^26 BigInts, which wrap and overrun the shorter buffer. Every call that returns has a buffer exactly as long as its bit table says (`LengthMatchesBitTable`). The one batch whose release build returns a short buffer is left to packer_u32_wrap. |
| packer_u32_wrap | `MC_PackScalarsAtScale_wrap.cfg` | violation | In a release build, 2^24 booleans and one scalar wrap the u32 sum. The call returns a buffer of 3 * 2^24 bytes where the bit table describes 35 * 2^24. |
| builder | `MC_CompositePolynomialBuilder.cfg` | pass | Every sequence of 2 calls, each with up to 2 of 3 MLEs and multiplier 1 or 3. Each MLE is padded at most once (`MaterialisedOnce`), and the builder refines `SumcheckPolynomial` (`BuilderRefinement`). |
| demo | `MC_DoryVerificationDemo.cfg` | pass | `main` and 768 API calls. A returned table is always the answer to the caller's own query text over the committed data (`VerifiedResultAnswersQuery`), whatever proof or result was passed. `main` prints `Verification OK, result match: true` (`DemoVerifiesItsOwnProof`). |
| builder_alias | `MC_CompositePolynomialBuilder_alias.cfg` | violation | m3 is a prefix slice of m1's column, so both have the same `id()`. The builder reuses m1's padded vector for m3. |

### Bounds, and why they are enough

**Packer.** Two columns reach a second column whose prefix sums are non-zero.
Two elements with `offset` 1 and `numColumns` 1 or 2 reach:

- a second shard;
- the last row;
- a shard that starts mid-column.

The values -1 and 1 have biased encodings that differ in every byte, so a
misplaced or truncated write changes what is read. The contract runs use 5
kinds: one per byte width, with and without an offset plane. The unit
tests' inputs add batches of three columns, columns of 19 elements, offset
5 and four matrix columns, where each column spans five sub-commits.

**Encoder.** It checks the full i16 domain. For the wider types it checks
windows around every byte boundary TLC can represent, and the i32 extremes.
TLC integers are 32-bit, so bytes 4 and above of i64/i128 values are sign
extension.

**Field.** F is modelled as Z_65521. The sign-correction identity holds over
the integers, so it holds modulo any prime. A wrong minimum shifts a value by
at least 2^15, and such a shift is not a multiple of 65521.

**Builder.** `m1` and `m2` hold equal data at different addresses. Dedup by
value would share one vector between them; that gives the same polynomial
and materialises less, so no property here tells it apart. `m3` is shorter than `Fr`, and `Fr` (3 entries) is
shorter than the hypercube (4). Two calls reach a cache hit within one call
and across calls. A third call gives more than 30,000 states, and its check does not finish
within the five-minute limit.

**Demo.** Four query texts: the demo's, one for `b = 0`, one over a
missing column, and one that does not parse. Three schemas: the right one,
another identifier, and one that does not parse. Two tables: the honest one,
and a tampered one in which every row passes the filter, so that its result
differs from the honest one. Commitments to `{a, b}` or to `{b}` only. With
`{b}` only, `SELECT *` resolves to a different expression than the prover's.
Every early return of `run_verification` is taken, and 4 of the 768 API
calls verify (with `main`'s own call, 5 calls return `Some`).

### Fairness and liveness

The packer, encoder and builder operations are each one synchronous call
with bounded loops, and no process waits on another. Their specifications
are safety specifications, and the refinements check `Init /\ [][Next]_v` of
the abstract modules.

The demo is one thread that runs `main`, or one API call, to the end, and
`run_verification` is straight-line code whose `?` operators return. Its
termination holds by the shape of the code, so no fairness is assumed and no
liveness property is checked there either.

### Findings

- **Count mismatch** (packer_mismatch). `get_bit_table_and_scalars_for_packed_msm`
  does not validate the sub-commit count. When the count is short, pack_bit
  writes element 1 of a column into the neighbouring slot. The call returns
  with the element lost. (Line 137.) Spec section 7 asks for fail-fast on
  this caller-contract violation, while spec section 4.2 calls the result of
  a mismatched count an unspecified but non-crashing layout, not a guarded
  error. The spec contradicts itself here, and the code follows 4.2.
- **Timestamp offsets** (packer_timestamp). The TimestampTZ arm calls
  `pack_offset_bit` (line 338), and `get_min_as_fr` uses `i64::MIN` for it. The
  code is self-consistent, and spec 9 is wrong about it:
  `SignCorrectionRecoversValue` holds for timestamps because their offset
  planes are written.
- **u32 bit-table sum** (packer_u32_wrap). `get_bit_table_and_scalars_for_packed_msm`
  sums the bit table as u32 (lines 227, 233, 248). A debug build panics when
  the sum reaches 2^32 bits. A release build wraps. For 2^24 booleans and one
  scalar column at offset 0 and `num_columns` 1, it returns normally with a
  buffer of 3 * 2^24 bytes where the bit table describes 35 * 2^24; at
  offset 1 (2^24 + 1 sub-commits) the buffer is 3 * 2^24 + 35 bytes against
  35 * (2^24 + 1). The doc example asserts
  `packed_scalars.len() == num_columns * bit_table_sum / BYTE_SIZE`, and the
  packed MSM reads that many bytes.
- **Address-keyed dedup** (builder_alias). The cache is keyed by `term.id()`,
  the start address of the data (line 70). A prefix slice shares its column's
  address, and so, once memory is reused, does a term of a later call. Such a
  term gets the cached vector of a different term, so `fr*m1*m3` becomes
  `fr*m1*m1`. Spec 4.3 says dedup keys on identity and that distinct columns
  must stay distinct; spec 9 itself notes that raw addresses are not a
  portable identity.

## 4. Not modelled

- The mod.rs files.
- The proof system behind the demo. The parser, `QueryExpr`, `QueryProof`
  and the Dory commitments are not under `src/`. The demo's model uses only
  their contracts, so it checks the glue code and does not check
  cryptographic soundness.
- The curve MSM and the sum-check rounds. These are external, and appear only
  as what they read.
- Rayon chunking in the broadcast. It adds the same `mult` to independent
  elements, so any partition has the same result.

## 5. Plan for later sittings

Done so far:

- The sign-correction property.
- The address-aliasing run of the builder.
- The unit tests of `pack_scalars.rs`, checked against the model.
- The CLI demo and its API entry point.
- The u32 bit-table sums at full width, and `num_columns = 0`.

Left:

1. **Address reuse after a drop.** Model the caller's term lifetimes, if a
   case arises that differs from aliasing.
2. **Contents at scale.** Check in `PackScalarsAtScale` that slices of
   different columns do not overlap after a wrap, beyond the length check.
3. **Wider packer bounds.** More values per kind in the contract run. The
   unit tests' inputs already give three columns.
4. **The builder's single-term fast path.** Add the case of a term longer
   than `fr`, which `mul_add`'s contract excludes.
