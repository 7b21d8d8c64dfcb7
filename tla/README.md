# TLA+ models of the BitMagic bit-vector (`bm::bvector`)

These modules model the bit-vector facade in `src/src/bm.h` (class
`bm::bvector`) over the two-level block tree that its blocks manager keeps,
and the XOR similarity scanner in `src/src/bmxor.h` that the serializer uses
to encode a block as the XOR of a reference block. TLC checks them.

## The system

A `bvector` stores bits 0 .. `id_max`-1 in a tree:

- A **top array** of `set_top_array_size` sub-array slots.
- Each slot is NULL, the FULL sentinel (`FULL_BLOCK_FAKE_ADDR`), or a real
  sub-array of `set_sub_array_size` block slots.
- Each **block slot** is one of:
  - NULL (all 0);
  - FULL (all 1);
  - a **bit-block** (a plain bitset of `gap_max_bits` bits);
  - a **GAP block** (run-length coded).
- A GAP block has a **level**, and the level fixes its capacity in runs
  (`gap_limit`). A GAP block that outgrows its level is extended to the next
  level. Past the last level it becomes a bit-block.

Around the tree the vector keeps three fields:

- `size_`, the logical size;
- `new_blocks_strat_`, which decides whether new blocks are bit- or GAP-blocks;
- `blockman_.is_init()`, which says whether a tree exists at all.

Every public call is a sequential walk over this tree:

- `set_bit`, `set_bit_and`, `set_bit_conditional` and `inc`/`flip` touch one
  block.
- `set_range` combines the two boundary blocks with a GAP range block and
  replaces the whole blocks between them.
- `invert` complements every slot, then clears the tail.
- `insert` and `erase` shift the rest of the vector by one bit. They carry
  one bit from block to block and from sub-array to sub-array, and every
  block kind has its own path.

The **XOR scanner** (`bmxor.h`) works on one block coordinate at a time:

- `bv_ref_vector` is the list of reference vectors, built from the rows
  of a bit-matrix (`build`, `add_vectors`; NULL rows are skipped, row
  numbers are kept), with `find` from a row number to a list position.
- `xor_scanner::compute_x_block_stats` measures the target bit-block: per
  wave (a `set_block_digest_wave_size`-word sub-block) its GAP count and
  bit count, and for the whole block the cheapest of GC, BC and iBC
  (`best_metric`).
- `search_best_xor_mask` scores every reference bit-block with
  `compute_xor_complexity_descr` (which wave XORs improve which metric),
  keeps the best, XORs its waves into the target (`bit_block_xor`) and
  accepts it if a metric of the product drops below the current best and
  `bie_limit`. It leaves the choice in `found_ridx_`, `found_block_xor_`
  and `x_d64_`.
- `search_best_xor_gap` does the same for a GAP target against GAP
  references, with a gain threshold of 2.
- `validate_found` recomputes the product with the stored digest and
  decides EQ, a metric, or no match.

The caller (the serializer, not in this repository) calls
`compute_x_block_stats` before searching for a new target and
`validate_found` only after a mask search returned true.

The blocks manager (`bmblocks.h`) and the bit and GAP kernels (`bmfunc.h`)
are not in this repository. The model takes the calls `bm.h` makes on them
from their documented behaviour. `PROJECT.json` marks those definitions
`spec_modelled`.

## Modules

| module | what it is |
|---|---|
| `AbsBitVector` | What the vector promises: a set `bits` of positions below `id_max` and a `size`. There is one action per public call, as its documentation states it. `Inserted`, `InsertCarry` and `Erased` define the shifts. |
| `BVTree` | The block tree and the `bm.h` routines that walk it, as pure operators over a tree value: single-bit writes, ranges, resize, invert, insert and erase, and the two that several modules share, `find_reverse` and the bulk `import`/`import_block`. |
| `BVector` | The facade of one vector: one action per public call over the operators of `BVTree` (see below). |
| `MCBVector` | Instantiates `BVector` for TLC: the GAP level tables, the argument sets, and three specifications that choose which calls are made. |
| `BVAlgebra` | Set algebra between several named vectors: `|=`, `^=`, `&=`, `-=` (`combine_operation_*`), the three-operand `bit_or/xor/and/sub(bv1, bv2, opt_mode)`, `merge`, and `keep(ids)`/`clear(ids)` (see below). |
| `MCBVAlgebra` | Instantiates `BVAlgebra` for TLC: the argument sets, the calls each run makes, and the symmetry of the vector names. |
| `RsBlock` | The in-block part of the rank-select index: the two sub-counts `build_rs_index` stores per block and `block_count_to`, over one block given as its set of 1 offsets. |
| `BVQuery` | The queries over one vector (see below): `count`, `any`, `count_range`, the `find` family, `check_or_next`, `find_rank`, `build_rs_index`, `count_to`, `count_to_test`, `select`, and the two writing searches `check_or_next_extract` and `sync_size`. It extends `BVector`. |
| `MCBVQuery` | Instantiates `BVQuery` for TLC, and `RsBlock` a second time with 12-bit blocks at the real border proportions. |
| `AbsEnumerator` | What an enumerator promises (specification, section 4.6): a cursor `cur` over the set `bits`, one action per call (`First`, `Up`, `GoTo(p)`, `Skip(r)`), and `Write` for a change of the vector while no cursor is positioned. |
| `BVEnum` | `bvector::enumerator` over the tree of `BVQuery`: the fields of `iterator_base` as a record `en`, one action per call, and the refinement to `AbsEnumerator` (see below). It extends `BVQuery`. |
| `BVXor` | The XOR scanner and the reference list of `bmxor.h` over one block coordinate (see below). |
| `MCBVXor` | Instantiates `BVXor` for TLC: 12-bit blocks given by their integer value, the matrices the reference list is built from, and the scan ranges. |
| `BVInsert` | The output iterators and the bulk import over the tree of `BVQuery` (see below): `inserter()` and `insert_iterator::operator=`, `bulk_insert_iterator` with its buffer, `flush` and destructor, and `set(ids, size, so)` with `import` and `import_block`. It extends `BVQuery`, so the iterators run beside the facade's calls. |
| `MCBVInsert` | Instantiates `BVInsert` for TLC over `MCBVector`: the iterators' arguments, the id arrays, and the specification in which an iterator is used on its own while it lives. |
| `MCBVEnum` | Instantiates `BVEnum` for TLC over `MCBVQuery`'s constants; it also holds the `BVQuery` properties in the form the combined run checks, and the view that hides the enumerator's dead fields. |

### How `BVector` corresponds to the code

**Scaling.** The constants `B`, `S` and `T` scale the tree down:

| constant | meaning | full size |
|---|---|---|
| `B` | bits per block | 65536 |
| `S` | blocks per sub-array | 256 |
| `T` | sub-arrays | 256 |

As in the 32-bit build, `IdMax = T*S*B - 1`. The physical bit at `IdMax`
exists but must stay 0.

**State.** `BVector` has four variables:

- `tree` is `blockman_`.
  - `tree.top[i]` is `"NULL"`, `"FULL"` or `"ARR"`.
  - `tree.blk[nb]` is a record of the block kind, the set of offsets that
    are 1, and the GAP level.
  - A block's data is abstracted to that set of offsets.
  - A GAP block's length is its number of runs (`GapLen`).
- `size` is `size_`.
- `init` is `blockman_.is_init()`.
- `strat` is `new_blocks_strat_`.

**Operators.** Each operator models one function, and each one returns the
new tree, plus the call's result where the call has one:

| operator | function(s) |
|---|---|
| `SetBitNoCheck` | `set_bit_no_check` |
| `GapBlockSet` | `gap_block_set` |
| `SetBitConditionalImpl` | `set_bit_conditional_impl` |
| `AndBitNoCheck` | `and_bit_no_check` |
| `Inc` | `inc` |
| `CombineWithGapArg` | `combine_operation_with_block` |
| `RangeNoCheck` | `set_range_no_check` and `clear_range_no_check` |
| `SetRangeOp` | `set_range` |
| `Resize` | `resize` |
| `InvertTree` | the block walk of `invert` |

**Loops.** The two nested loops of `insert` and `erase` are the `RECURSIVE`
operators `InsSubs`/`InsBlocks` and `ErsSubs`/`ErsBlocks`. They keep the
loop's control exactly:

- the `continue` paths;
- the look-ahead of `test_first_block_bit`;
- the tight scan for the next non-NULL block;
- which paths reset `j0` and which do not.

**Actions.** There is one action per public call: `SetBit`, `SetBitAnd`,
`SetBitConditional`, `IncOp`, `SetRange`, `ResizeOp`, `InvertOp`, `Insert`,
`Erase`, `Reset` and `SetNewBlocksStrat`. Each one applies the whole call,
including the resize, the `init_tree` and the tail trimming the call does.

**Refinement.** `Abs == INSTANCE AbsBitVector WITH bits <- Bits` maps the
tree to its set of 1-positions. `Refines == Abs!Spec` checks the facade
against the abstract vector.

### How `BVAlgebra` corresponds to the code

**State.** `vec[x]` is one `bvector` named `x` of the constant set `Vecs`:
its tree, `size_` and `is_init()`. `calls` counts the calls made, up to
`MaxCalls`. `last` is a history variable that records the call of the last
step; only the action properties read it, and the configurations hide it
with `VIEW StateView`.

**Block operations.** Each `combine_operation_block_*` is one operator:

| operator | function |
|---|---|
| `BlockOr2`, `BlockXor2`, `BlockAnd2`, `BlockSub2` | the in-place forms `(i, j, blk, arg_blk)` |
| `BlockOr3`, `BlockXor3`, `BlockAnd3`, `BlockSub3` | the three-operand forms `(i, j, arg_blk1, arg_blk2)`, returning the block and `need_opt` |

**Loops.** The sub-array loops are folds (`FoldLeft`) over the top slots and
the block slots, in the code's order:

- `OrSub2`/`OrBlocks`, `XorSub2`, `AndSub2`, `SubSub2` are the bodies of the
  `combine_operation_or/xor/and/sub` loops and their `BM_*_OP` macros.
- `Combine2` is their common frame: `size_` grows, then every sub-array.
- `Slot3`, `Top3`, `Build3` and `Main3` are the main path of the
  three-operand calls: the skip rule, `optimize_bit_block` under
  `opt_compress`, and `free_top_subblock` when no block came out set.
- `MergeSub`/`MergeBlocks` are the loops of `merge`, which move sub-arrays
  and blocks out of the argument.

**Calls.** `Or2Call` .. `Sub2Call`, `Or3Call` .. `Sub3Call` and `MergeCall`
keep each call's early returns in the code's order: the uninitialised
cases, `deinit_tree`, and the tests for `this == &bv1`, `this == &bv2` and
`&bv1 == &bv2`.

**Pointer identity.** The code compares block and sub-array pointers. Two
slots of different vectors are the same pointer only when both are NULL or
both the FULL sentinel (`SamePtr`). A vector compared with itself shares
every pointer, which the `self` argument of the loops expresses.

**Blocks manager.** `SetBlockPtr`, `AllocTopSub`, `FreeTopSub`,
`CloneAssign`, `CloneGap`, `OptimizeBitBlock` and `Deinit` model the
`bmblocks.h` calls from their documented behaviour. `zero_block` frees a
sub-array when it clears its last slot and every slot is NULL. `erase`
relies on exactly that (`bm.h:4550`). `set_block_ptr` is a raw store that
allocates nothing.

**compare.** `Compare(t, ta, self)` is `bvector::compare` (3196-3313):
`CompareFrom` walks the block coordinates in the code's `i`/`j` order and
returns the first non-zero result. `SameTop` is the skip of a sub-array
whose two top pointers are equal, `CmpSlot` one pass of the `j` loop:
equal pointers go on, a NULL block against a concrete one returns 1 or -1
only when that block holds a 1 bit, and two concrete blocks go to
`bitcmp`/`gapcmp`. Those live in `bmfunc.h`, outside the repository;
`BlockCmp` models them from the specification: the first differing bit
decides, and the block with a 1 there is greater.

**Actions.** `SetBitV`, `SetRangeV` and `ResetV` build vectors. `Op2`, `Op3`
and `Merge` are the algebra calls. A call may name the same vector more
than once, as C++ allows.

**keep and clear(ids).** `KeepV` and `ClearIdsV` are `keep(ids, size, so)`
and `clear(ids, size, so)` (3446-3493). `KeepCall` and `ClearIdsCall` keep
their early returns in the code's order: an empty array or a vector
without a tree, then the temporary vector. `TmpTree` is `bv_tmp.import`,
the `Import` of `BVTree` that `BVInsert` also uses. `TmpVec` is
`find_reverse` followed by `bv_tmp.resize(last+1)` from the default size
`id_max`. The temporary is then ANDed in by `And2Call` or subtracted by
`Sub2Call`, the same operators `&=` and `-=` use. When every id is
`id_max`, `import` masks it away and `find_reverse` finds nothing. The code
then takes its `BM_ASSERT(0)` branch: `keep` clears the vector with
`clear()` (`ClearAll`, `set_all_zero(false)`, which keeps the top array)
and `clear(ids)` does nothing.

### How `BVQuery` corresponds to the code

**Queries are operators.** A query is an operator of the tree and of
`init`, the result of `blockman_.is_init()`. It returns the C++ result.
`None` (-1) stands for `false` from the `bool find...(pos)` forms.

**Loops are folds.** The nested `for i` / `for j` loops over the top array
are folds over `Coords`, the block coordinates in loop order. The first hit
of the fold is the loop's early return. `FindReverse` folds over the
reversed order.

**`check_or_next`.** `CheckOrNext` first reads the block that holds `prev`.
It returns `prev` at once for a FULL block. Otherwise it searches the block
from `prev`'s offset. If that finds nothing, it continues over `After(i, j)`:
the rest of sub-array `i` from slot `j+1`, then every slot of the later
sub-arrays. That order is the `j = 0` reset at `bm.h:4236`.

**The index.** `BuildRsIndex` is `build_rs_index`. It records:

- `total`, the block of the last bit plus one;
- per block, the count and the two sub-counts (`RsBlock!SubCounts`), with
  zeros for NULL and the FULL values for a FULL sub-array.

The `rs_index` class is not in the repository. `RCount`, `RsFindBlock` and
`SelectSubRange` follow section 4.5 of the specification. That section
returns the rank reduced to the chosen sub-range.

`CountTo`, `CountToTest`, `CountRangeRs`, `Select` and `FindRankRs` are the
indexed queries. Each takes the index as an argument, as the C++ takes
`rs_idx`. `block_count_to` is `RsBlock!BlockCountTo`, with the seven
branches of its `switch`.

**Actions.** `CheckOrNextExtract(prev)` and `SyncSize` are actions over
`BVector`'s variables. `NextQuery` adds them to `ShapeQuery`, the writes that
shape the tree: `set_bit` with both strategies, `flip` at any position,
`set_range`, `resize`, `invert` and `reset`.

### How `BVEnum` corresponds to the code

**State.** `en` is one enumerator, with the fields of `iterator_base`:

- `pos` is `position_`; `IdMax` means not `valid()`;
- `bidx` is `block_idx_`, `btype` is `block_type_` (0 bit, 1 GAP);
- for a bit-block, `ptr` is `bit_.ptr` as a word offset in the block,
  `bits` the decoded offsets `bit_.bits[0 .. cnt-1]` (`cnt` is their
  length), `idx` is `bit_.idx` and `bpos` is `bit_.pos`;
- for a GAP block, `gptr` is `gap_.ptr` as the index of a run end and
  `glen` is `gap_.gap_len`.

`call` is a history variable: the call just made and its argument. Only
the refinement reads it.

**Scaling.** A bit-block is `B \div WordBits` words. A wave is `WaveWords`
words (`set_bitscan_wave_size`, 8 in the specification), and
`bm::bitscan_wave` (`WaveOffs`) decodes it into the sorted offsets of its 1
bits. `position_` arithmetic is taken modulo `NBits`, as `size_type` wraps
at 2^32, and `gap_len` modulo `B`, as `gap_word_t` wraps at 2^16. A GAP
block is read through its run ends (`RunEnds`), the words that follow the
header.

**Operators.** Each private member is an operator that returns the new
cursor, with `ok` for the `bool` it returns:

| operator | function |
|---|---|
| `DecodeWave`, `DecodeBitGroup`, `DecodeBitGroupRank` | `decode_wave`, `decode_bit_group(bdescr)`, `decode_bit_group(bdescr, rank)` |
| `SearchInBitblock`, `SearchInGapblock` (`GapScan`) | `search_in_bitblock`, `search_in_gapblock` |
| `ScanBlocks`, `SearchSlot`, `SearchInBlocks` | the `i`/`j` loops of `go_first` and `search_in_blocks` |
| `BitStep`, `GapStep`, `GoUpE` | the two cases of `go_up`, and `go_up` |
| `SkipBit`, `SkipGap`, `SkipLoop`, `SkipE`, `SkipToRankE` | the loops of `skip`, `skip`, `skip_to_rank` |
| `GoToGap`, `GoToBit`, `GoToE` | the GAP and bit-block halves of `go_to`, and `go_to` |

**Actions.** `NewEnumerator`, `GoFirst`, `GoUp`, `Skip(r)`, `SkipToRank(r)`
and `GoTo(p)` are the calls. `GoUp` needs `valid()`, the precondition that
`go_up` asserts. `SkipToRank(r)` is taken for `r >= 1`. `Write` is any
write of `NextQuery`, allowed only while the enumerator is unpositioned: a
write invalidates enumerators, and using a stale one is undefined.

**counted_enumerator.** `counted` and `cnt` (`bit_count_`) extend the
cursor. `CountedFirst` is `counted_enumerator ce = bv.first()`: the
constructor sets `bit_count_` to 1 when the enumerator is valid and leaves
it uninitialised otherwise, which the model makes any value.
`CountedUp` is `operator++`: `go_up`, then one more when still valid. The
inherited `go_first`, `skip`, `skip_to_rank` and `go_to` are not taken on a
counted cursor (see the defects below).

**Refinement.** `AbsE == INSTANCE AbsEnumerator WITH bits <- Bits, cur <-
en.pos, op <- call` maps the cursor to the position it reports.
`EnumRefines == AbsE!Spec` then checks each call against the abstract call
of the same name and argument. Without `call`, a wrong `skip(1)` that lands
on the position `skip(2)` would reach passes the check. `skip_to_rank(r)`
is mapped to `skip(r - 1)`, which is what the code does.

**Search of a FULL block.** `go_first`, `search_in_blocks` and `go_to`
read a FULL block as `FULL_BLOCK_REAL_ADDR`, a bit-block of ones, so the
model decodes it as a bit-block with every bit set.

### How `BVInsert` corresponds to the code

**State.** `ii` is the `max_bit_` of the one `insert_iterator`, `None`
when there is none. `bulk` is the `bulk_insert_iterator`: whether it is
alive, its buffer `buf_[0 .. buf_size_-1]` as a sequence, and `sorted_`.
`BufCap` is `bm::set_block_size`, the ids the buffer holds.

**Import.** `Import` is `bvector::import`: a `BM_SORTED` array whose first
and last id lie in one block is a single `import_block`; otherwise
`ImportRuns` walks the runs of ids that share a block (`RunEnd` is
`idx_arr_block_lookup` from `bmfunc.h`). `ImportBlock` allocates with the
BIT strategy whatever `new_blocks_strat_` is, deoptimizes a GAP block,
leaves a FULL block alone, ORs the run in, and clears the `id_max` bit of
the last block. `Synced` is `sync_size` on the tree just built.

**Actions.** `SetIds` is `set(ids, size, so)`. `IINew` is `inserter()`,
which caches `size()` in `max_bit_`. `IIWrite(n)` resizes only when `n`
reaches `max_bit_` and `size()`, then calls `set_bit_no_check(n)`.
`BulkNew`, `BulkWrite(n)` and `BulkFlush(off)` are the bulk iterator's
constructor, `operator=` (which imports a full buffer without
`sync_size` before storing `n`) and `flush`; with `off` it is the
destructor. Under `BM_SORTED` the caller writes each buffer in ascending
order, and `set` gets the hint only for sorted arrays: that is the
caller's side of the hint.

**Use.** `MCBVInsert` runs the facade's calls only while no iterator is
alive; an iterator is made, written and flushed or dropped on its own,
as `std::copy(first, last, bv.inserter())` uses it.

### How `BVXor` corresponds to the code

A block is its set of 1 offsets in `0 .. BlockBits-1`; a word covers
`WordBits` offsets and a wave `WaveWords` words. `XorBits` is `^`,
`PopCount` is `word_bitcount`, `ShiftR1` is `w >> 1`, and a digest
(`x_d64_`, `xor_d64`) is the set of wave indices whose bit is set.

- `bit_block_xor_change32` is translated word by word: `FirstWord` is the
  code before the loop and `WordStep` one turn of the loop, with the
  negative-value and word-border corrections; `XorChangeLoop` is the loop.
- `ChangeBC`, `BlockChangeBC`, `GapLength` and `Digest0` are the `bmfunc.h`
  counters the scanner calls (not in the repository), defined by what they
  count.
- `compute_xor_complexity_descr` is `WaveGains` (the three digests of pass
  2), `GainTotals` (the three gains) and `PickMatch` (the winner, with the
  no-gain "stunt" branch of lines 247-256 as the code has it).
- The scanner's members are variables: `x_descr`, `x_bc`, `x_gc`,
  `x_best_metric`, `x_block_best`, `x_block_mtype`, `x_d64`,
  `found_ridx`, `found_block`. `refs` is `ref_bvects_` with
  `ref_bvects_rows_`, as a sequence of `[blk, row]`, where `blk` is the
  reference's block at the coordinate being encoded (NULL, bit or GAP).
- The actions are `AddVectors` and `Build` (reference list),
  `ComputeXBlockStats`, `SearchBestXorMask(from, to)`,
  `SearchBestXorGap(b, from, to)` and `ValidateFound`. The search loops are
  recursive operators (`ScanMask`, `ScanGap`) whose accumulator holds
  `best_ri`, the best gain and the digest, and whose `stop` field is the
  loop's `break`.
- `last` records the last search call (which one, its return value, and
  `best_ri`), and `vres` what `validate_found` computed. They exist so the
  properties can talk about a call's result; the caller contract above is
  their guard: `ComputeXBlockStats`, `Build` and `AddVectors` reset `last`,
  and `ValidateFound` requires a mask search that returned true.
- The GAP codec (`gap_operation_xor`, `gap_bit_count_unr`) is modelled by
  its result on the bit set. `res_len` is the length of the XOR result,
  so the `res_len > glen` overflow test never fires.

## Runs

**Passing runs:**

| run | bounds | checks |
|---|---|---|
| `bv_refines` | B=2, S=2, T=2 (7 positions), GAP levels <1,3>, both strategies | `TypeOK`, `NoBitAtIdMax`, `GapFits`, `TailClear`, `Refines` over every call except insert, erase and set_bit_and, with flip only below size |
| `bv_shift` | B=2, S=3, T=1, insert/erase before the last block, initial size 4; iterator writes at {1, 2, 4}, a two-id bulk buffer, five id arrays | `TypeOKInsert`, `NoBitAtIdMax`, `GapFits`, `InsertShiftsRight`, `EraseShiftsLeft`, `ResultsExact`, interleaved with all writes; `ImportExact` and `InserterGrows` for `set(ids)` and both iterators on the trees those writes build |
| `bv_query` | B=2, S=2, T=2, writes at {0,1,3,4,6}, queries at every position; borders 0 and 1; `RsBlock` also at 12 bits with borders 3 and 7, half-span 2; one word of one bit per wave position, two-word waves; skip ranks 0..2, go_to at the write positions | `TypeOKEnum`, `SearchAtRest`, `CountAtRest`, `RankSelectAtRest`, `BlockCountToExact12`, `CursorMatchesBlock`, `ExtractAtRest`, `SyncSizeAtRest`, `EnumRefines`, `CountedRank` |
| `xor_scan` | 12-bit blocks: 2-bit words, 3-word waves, 2 waves; six bit targets and five GAP targets; five matrices of one to three rows; ranges [0,4), [1,4), [0,1) | `TypeOKXor`, `XorChangeExact`, `ValidateSound`, `EqOnIdentical`, `SearchResultSound`, `GapSearchSound`, `FindRow` over every interleaving of list building, stats, both searches and validation |
| `alg_all` | B=2, S=2, T=2, three vectors, GAP levels <1,3>, both strategies, both opt modes, 4 calls | `TypeOK`, `WellFormed`, `GapFits`, `TailClear`, `Op2Exact`, `Op3Exact`, `MergeExact`, `KeepClearExact` over every algebra call except the cases the findings below show; `CompareExact` over every pair of vectors, a vector with itself included |

**Violation runs.** Each one checks a single property, and TLC finds it
violated. `PROJECT.json` records each as a finding.

| run | what TLC shows |
|---|---|
| `v_insert_last_block` | `insert` into the last block sets the bit at `id_max` (`bm.h:4316`; only the loop trims it, at 4433-4436). |
| `v_insert_carry_lost` | `insert` at the end of a sub-array that is followed by a NULL sub-array drops the carry. The cause is the `nblock > nb` test at 4347. |
| `v_erase_full_subarray` | `erase` skips a FULL sub-array that is followed by a 1, and loses the bit that should move into the previous sub-array (4518). |
| `v_op3_target_alias` | `x.bit_or(x, y)` (and the XOR and SUB forms) releases `x` with `deinit_tree` before it tests whether `x` is an argument (4707-4724), so `x`'s bits are lost. |
| `v_or2_frees_target` | `x |= y` with a FULL argument block in the last slot of a sub-array whose other slots are NULL: `zero_block` frees the sub-array, then `set_block_ptr` stores FULL into it (5827-5830). |
| `v_xor_stunt` | `compute_xor_complexity_descr` with no gain and equal zero waves reports a GC match of gain `block_waves` over the target's zero waves (`bmxor.h:250-255`). That XOR changes nothing, yet it outranks real candidates: target 1408 = {7, 8, 10} against references <<192, 1187>> keeps reference 0, whose product equals the target, and the search returns false, although 1187 alone gives a BC match. `CandidateChangesTarget` states the specification's reading (section 4.7) that a candidate's masked XOR changes the target. |
| `v_enum_skip_wave` | One 8-bit bit-block of one-bit words and four-word waves, 1 bits at 0 and 6: after `go_first`, `skip(1)` lands past 6. `decode_bit_group(bdescr, rank)` counts the first 64-bit stride of the next wave (bits 4 and 5, none set), finds rank 1 larger, and steps over the whole wave (991-1004). |

**Defects that the passing runs exclude without a run of their own.** All
but the first and the last but one (a tie order that picks a real gain
either way) are listed as hazards in `PROJECT.json`:

- `and_bit_no_check` compares the new bit with `val`, not with the old bit
  (3841), so `set_bit_and(n, true)` on a 0 bit reports a change that did
  not happen. A single call shows it, so no run is spent on it;
  `BVector!AndBitExact` states the result.

- `counted_enumerator(en)` sets `bit_count_` to 1 whenever `en` is valid,
  wherever it stands (1125-1129), and the inherited `skip`, `go_to` and
  `go_first` move the cursor without touching `bit_count_`. `count()` is
  then no longer "the number of ON bits from bit 0 to the current bit", as
  its comment says (1157-1160). `bv_query` builds counted enumerators only
  with `first()` and moves them only with `++`, where `CountedRank` holds.

- `insert_iterator` caches `max_bit_ = size()` when it is made (382) and
  resizes only when `n >= max_bit_` (404). After a `resize` that shrinks
  the vector under a live inserter, `*it = n` with `size() <= n <
  max_bit_` sets bit `n` without growing the vector. TLC shows it in three
  steps (`inserter()` at size 4, `resize(2)`, `*it = 2`) when `bv_shift`
  lets the facade run under a live inserter; the run keeps them apart,
  and `InserterGrows` states the promise.

- `x ^= x` leaves `x` unchanged (5176). The specification says `a XOR a` is
  empty. `Op2Exact` fails at once when the call is allowed.
- `x.bit_and(y, y)` ORs `y` into the unreleased `x` (4892-4896).
- `x ^= y` into an uninitialised `x` takes `y`'s size, even a smaller one
  (5153-5157).
- Skipping a NULL sub-array in `insert` bypasses `j0 = 0` (4361), so the
  first blocks of the next allocated sub-array are not shifted; `erase`
  has the same defect (4509). `bv_shift` keeps both inside one sub-array.
- `x.merge(y)` with an uninitialised `y` is `move_from(y)` (4620-4624), so
  `x` loses its bits; `alg_all` excludes it (`MergeWrong`).
- `search_best_xor_gap` takes `gap_xor_len` from the target's GAP block
  (`bmxor.h:740`), not the reference's, so a reference of gap length 3 or
  less is scored although the code means to skip it: target 4087 against
  reference 4095 (length 2) is accepted as a BC match. The product is still
  a real gain, so `GapSearchSound` holds; the model keeps the typo.
- `compute_xor_complexity_descr` breaks equal gains towards the later
  metric (GC = BC gives BC, BC = iBC gives iBC, `bmxor.h:262-284`); the
  specification orders them GC, BC, iBC. Both are real gains, so no
  property depends on the order.
- `flip(n)` at or past `size()` sets a bit past the size (3698).

`MCBVAlgebra` names every exclusion as a predicate: `Op3Aliased`,
`Op2Wrong` and `MergeWrong`.

**Why the passing runs have their bounds:**

- **`bv_refines`.** Two sub-arrays of two blocks give every kind of top
  slot, every kind of block slot, and ranges that:
  - stay inside one block;
  - cover whole blocks;
  - cover a whole sub-array, which becomes the FULL sentinel or NULL.

  GAP levels <1,3> mean that the first change to a GAP block promotes it
  (`ExtendGap`), and a second level boundary is reached after that.
- **`bv_shift`.** This run uses one sub-array (`T = 1`) and inserts or
  erases only before the last block. That is the part of `insert`/`erase`
  the code gets right. The violation runs cover the other cases: more than
  one sub-array, and a target in the last block.
- **Iterators in `bv_shift`.** Initial size 4 is below `id_max` (5), so
  `sync_size` and the inserter's resize both grow the vector. The iterator
  writes hit each of the three blocks. A buffer of two ids fills after two
  writes, so the third write imports a full buffer before `flush`. The id
  arrays give the sorted one-block shortcut (`<<2, 3>>`), a sorted array
  across two blocks (`<<1, 2>>`), `id_max` itself (`<<4, 5>>`), an
  unsorted array that returns to its first block (`<<3, 0, 2>>`), and the
  empty array.
- **`ResultsExact` in `bv_shift`.** `bv_shift` makes every single-bit call
  over GAP and bit-blocks, so each returned result is compared there.
- **`bv_query`.** Two sub-arrays give FULL sub-arrays, NULL sub-arrays
  between set bits, and `check_or_next` continuing across a sub-array
  boundary.

  The writes use one or two positions per block. The queries take every
  position, and every rank up to one past the number of bits.

  With 2-bit blocks, `block_count_to` can only reach a few of its
  branches. So `MCBVQuery` also checks `RsBlock` over all 4096 blocks of 12
  bits. The borders 3 and 7 and the half-span 2 scale 21824, 43648 and
  10912 of a 65536-bit block, and every one of the seven branches is taken.
  That table is a constant. The invariant reads it in every state, so a
  wrong entry is reported as a violated invariant.
- **The enumerator in `bv_query`.** The enumerator walks every tree the
  writes reach, so it meets NULL and FULL sub-arrays, NULL, FULL, GAP and
  bit-blocks, GAP blocks of one run of 1s over the whole block (whose
  `gap_len` wraps to 0), and go_to into a FULL block. A word is one bit and
  a wave two words, so a block is one wave and `go_to` takes both parities.
  Skip ranks 0..2 reach past the last bit from most cursors. With 2-bit
  blocks a GAP block has at most one run of 1s, so `go_to` reaches only
  the first-run branch of its `gap_len` computation (see the hazards).

  One wave per block also means the 64-bit stride of `decode_bit_group`
  covers the wave, so `EnumRefines` holds here; `v_enum_skip_wave` widens
  the wave.

  The queries read only the vector, and every vector is reached with the
  enumerator unpositioned, since only such states allow a write. So
  `SearchAtRest`, `CountAtRest` and `RankSelectAtRest` check the queries in
  those states only. `ExtractAtRest` and `SyncSizeAtRest` check the steps
  that `call` tags as those two writes. `VIEW EnumView` drops `call`, which
  no action reads, and the fields of `en` that no later call reads before
  writing them (all of an invalid cursor but `position_`, and the other
  half of the `bdescr_` union), so states that differ only there are
  explored once.
- **`alg_all`.** `T = 2` is needed for whole sub-arrays: with one sub-array
  the bit at `id_max` can never be set, so a FULL sub-array never exists.
  Three vectors let a three-operand call have a target distinct from both
  arguments. The argument set `{0, 1, 3, 4, 6}` keeps one or two positions
  of each block, so ranges still cover a block and a sub-array.

  Four calls are enough to build two non-trivial vectors and combine them,
  or to combine twice. GAP levels of one and three runs mean a GAP result
  of length 2 must be promoted (`assign_gap_check`). The sizes start at 3,
  so `set_bit` and `set_range` grow them and `TailClear` compares vectors of
  different sizes.

  `keep` and `clear(ids)` take four id arrays: none, `<<1, 3>>` (sorted,
  over two blocks), `<<6, 0, 3>>` (unsorted, over both sub-arrays) and
  `<<7>>` (`id_max` alone, the `BM_ASSERT(0)` branch). Each is passed with
  and without the sorted hint where the hint is true. `keep(<<6, 0, 3>>)`
  on a vector of size 3 grows it to 7.

  `SYMMETRY` over the vector names is sound, because no call treats a name
  specially. `CHECK_DEADLOCK FALSE` is set because the run stops when the
  call bound is reached.

- **`xor_scan`.** Scaling `gap_max_bits` to 12 keeps the structure of a
  block (several words per wave, several waves, the word-border
  correction) while TLC can enumerate every pair of waves. `GainMin` is 5: the
  code's 104 bits is the size of an XOR reference header (a byte, a 64-bit
  digest and a row number), which has no counterpart at 12 bits; 5 is
  chosen so that `validate_found` both accepts and rejects candidates on
  the gain test. The blocks are chosen so that every verdict
  (none, GC, BC, iBC, EQ), the stunt branch and the early `break` of both
  loops are reached (1365 against itself gains all 12 bits); the matrices hold a NULL row,
  a NULL block, GAP and bit-blocks, and a one-row matrix added after a
  build, so `add_vectors` continues the row numbering. Deadlock is checked:
  a reference list and a target always allow another call.

**Where two calls are kept apart, and why:**

- `bv_refines` leaves out `set_bit_and` and flip beyond `size()`. Either
  would stop the refinement check at its first step (see the defects
  above).
- The argument sets are every addressable position, and `Sizes` is `{3,
  IdMax}`, so both growing and shrinking resizes happen.

**Mutants.** Every property of a passing run has a mutant in
`PROJECT.json`. The mutant is an operator defined just before the definition
it replaces, and it makes the bug a reader would expect: for example,

- a GAP block that is not extended;
- no trim at `size_` in `invert`;
- `size_` not grown by `set_range` or by `combine_operation_*`;
- the carry out of the target block dropped;
- the `j = 0` reset of `check_or_next` dropped;
- a `select_sub_range` that picks the sub-range but keeps the block rank;
- `resize(last)` in `sync_size`;
- `--gap_len` without the `gap_word_t` wrap, `go_to`'s `gap_len` without
  the `+1` for `nbit`, and a NULL sub-array passed over without moving
  `position_`;
- a FULL argument sub-array stored without freeing the target's;
- equal sub-array pointers under XOR kept instead of freed;
- the argument slot of `merge` cleared before it is read.
- `compare` returning at a NULL block without testing the other block for a
  1 bit;
- a counted enumerator constructed with `bit_count_` 0;
- `import`'s sorted shortcut taken without comparing the first and last
  block;
- an inserter that moves `max_bit_` but never resizes;
- `keep` without the `clear()` of the branch where `find_reverse` fails.

TLC finds the property violated under the run's own configuration.

## Fairness

None. The `bvector` and the XOR scanner are single-threaded objects whose
calls run to completion. The model has no waiting and no concurrency, so every property
is a safety property: an invariant, an action property, or the refinement.

## Not modelled

These parts are not modelled yet (see the components in `PROJECT.json`):

- the generic `combine_operation(bv, opcode)` (5388-5505), which nothing in
  `bm.h` calls;
- `optimize` and `optimize_gap_size`, which forward to
  `blocks_manager::optimize_tree` and the GAP-level calibration, both
  outside the repository, and do not change the set;
- `swap`, and the iterators' copy and move constructors and assignments,
  which exchange or copy pointers and buffers;
- `calc_stat` and the serialization hooks (memory accounting and files
  outside `src/`);
- the SIMD variants of the XOR scanner's kernels (`VECT_BLOCK_XOR_CHANGE`,
  `VECT_BIT_BLOCK_XOR`), whose scalar versions are modelled.

These are left out of the model entirely:

- The SIMD wave tests in the algebra loops. They only skip pairs of equal
  pointers, which the scalar path also skips.
- Pointer aliasing inside `insert`/`erase`: the code caches `blk_root` and
  `blk_blk`. The model's tree is a value, so a stale pointer cannot be
  expressed.
- Allocation failure.
- Block memory layout and word-level bit twiddling: a block is its set of
  offsets.
