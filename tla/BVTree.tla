------------------------------ MODULE BVTree -------------------------------
(***************************************************************************)
(* The block tree of a bm::bvector and the bm.h routines that walk it, as  *)
(* operators over a tree value: each takes the tree (and its arguments)    *)
(* and returns the new tree and, where the C++ function has one, its       *)
(* result.  BVector and BVAlgebra build their state machines from these.   *)
(*                                                                          *)
(* Addressing is scaled down: a block holds B bits (bm::gap_max_bits), a    *)
(* sub-array S blocks (bm::set_sub_array_size), the top array T sub-arrays  *)
(* (bm::set_top_array_size).  As in the 32-bit build the last physical bit  *)
(* is bm::id_max and the addressable positions are 0 .. id_max-1.           *)
(*                                                                          *)
(* A block is a record: its kind (NULL, FULL sentinel, bit-block or         *)
(* GAP-block), the set of in-block offsets that are 1, and for a GAP block  *)
(* its capacity level.  A GAP block's length is its number of runs; the     *)
(* capacity of a level is GapLimit[level+1] runs (bm::gap_limit).           *)
(***************************************************************************)
EXTENDS Integers, FiniteSets, Sequences

LOCAL INSTANCE SequencesExt

CONSTANTS
    B,          \* bits per block            (bm::gap_max_bits)
    S,          \* blocks per sub-array      (bm::set_sub_array_size)
    T,          \* sub-arrays in the top array (bm::set_top_array_size)
    GapLimit,   \* run capacity per GAP level (glevel_len[level] - 4)
    Strats      \* new-block strategies a caller may select

ASSUME B >= 2 /\ S >= 1 /\ T >= 1 /\ Len(GapLimit) >= 1

\* One gap_set_value adds at most two runs, and each level has room for
\* that over the threshold of the level before (the glevel_len tables).
ASSUME \A l \in 1 .. Len(GapLimit) - 1 : GapLimit[l + 1] >= GapLimit[l] + 2

NBlocks == T * S                 \* bm::set_total_blocks
NBits   == NBlocks * B
IdMax   == NBits - 1             \* bm::id_max
Pos     == 0 .. IdMax - 1        \* addressable positions
Offs    == 0 .. B - 1            \* offsets inside one block
Blocks  == 0 .. NBlocks - 1
Subs    == 0 .. T - 1
MaxLevel == Len(GapLimit) - 1    \* bm::gap_max_level

Kinds == {"NULL", "FULL", "BIT", "GAP"}
BlockT == [kind : Kinds, bits : SUBSET Offs, level : 0 .. MaxLevel]
NullBlk == [kind |-> "NULL", bits |-> {}, level |-> 0]
FullBlk == [kind |-> "FULL", bits |-> Offs, level |-> 0]
BitBlk(bs) == [kind |-> "BIT", bits |-> bs, level |-> 0]
GapBlk(bs, l) == [kind |-> "GAP", bits |-> bs, level |-> l]

\* A top slot is NULL, the FULL sentinel, or a real sub-array ("ARR").
TreeT == [top : [Subs -> {"NULL", "FULL", "ARR"}], blk : [Blocks -> BlockT]]
EmptyTree == [top |-> [i \in Subs |-> "NULL"], blk |-> [nb \in Blocks |-> NullBlk]]


-----------------------------------------------------------------------------
(* Reading the tree (get_block_coord, get_block_ptr).                       *)

SubOf(nb) == nb \div S

GetBlock(tr, nb) ==
    CASE tr.top[SubOf(nb)] = "NULL" -> NullBlk
      [] tr.top[SubOf(nb)] = "FULL" -> FullBlk
      [] OTHER                      -> tr.blk[nb]

\* The positions whose physical bit is 1, id_max included.
BitsOf(tr) == UNION {{nb * B + o : o \in GetBlock(tr, nb).bits} : nb \in Blocks}


\* get_bit / test: reads the stored bit whatever size_ is (the range
\* check is a debug assertion).
GetBit(tr, n) == (n % B) \in GetBlock(tr, n \div B).bits

-----------------------------------------------------------------------------
(* GAP codec: the length of a block is its number of runs.                  *)

GapLen(bs) == 1 + Cardinality({k \in 1 .. B - 1 : (k \in bs) # (k - 1 \in bs)})

\* gap_calc_level: the least level whose capacity holds the length, -1 if none
GapCalcLevel(bs) ==
    IF \E l \in 0 .. MaxLevel : GapLen(bs) <= GapLimit[l + 1]
    THEN CHOOSE l \in 0 .. MaxLevel : GapLen(bs) <= GapLimit[l + 1]
                    /\ \A k \in 0 .. l - 1 : GapLen(bs) > GapLimit[k + 1]
    ELSE -1

-----------------------------------------------------------------------------
(* Blocks manager (bmblocks.h).                                             *)

\* check_alloc_top_subblock: a NULL or FULL top slot becomes a real sub-array
\* of NULL or FULL blocks.
AllocSub(tr, i) ==
    IF tr.top[i] = "ARR" THEN tr
    ELSE [top |-> [tr.top EXCEPT ![i] = "ARR"],
          blk |-> [nb \in Blocks |->
                     IF SubOf(nb) = i
                     THEN IF tr.top[i] = "FULL" THEN FullBlk ELSE NullBlk
                     ELSE tr.blk[nb]]]

\* set_block / set_block_ptr
PutBlock(tr, nb, b) ==
    LET t1 == AllocSub(tr, SubOf(nb)) IN [t1 EXCEPT !.blk[nb] = b]

\* zero_block: the slot becomes NULL; freeing the last slot of a sub-array
\* whose slots are all NULL frees the sub-array.
ZeroBlock(tr, nb) ==
    IF tr.top[SubOf(nb)] = "NULL" THEN tr
    ELSE LET t1 == PutBlock(tr, nb, NullBlk)
             i  == SubOf(nb)
         IN IF nb % S = S - 1
               /\ \A k \in Blocks : SubOf(k) = i => t1.blk[k].kind = "NULL"
            THEN [t1 EXCEPT !.top[i] = "NULL"]
            ELSE t1

\* A new block of the given strategy holding the old NULL/FULL content.
NewBlock(st, bs) == IF st = "GAP" THEN GapBlk(bs, 0) ELSE BitBlk(bs)

\* check_allocate_block(nb, val, strat, &type): NULL is returned for a NULL
\* block when val is 0 and FULL for a FULL block when val is 1 (IS_VALID_ADDR
\* false); any other NULL or FULL block is materialised.
CheckAllocate(tr, nb, val, st) ==
    LET b == GetBlock(tr, nb) IN
    IF b.kind \in {"NULL", "FULL"} /\ (b.kind = "FULL") # val
    THEN PutBlock(tr, nb, NewBlock(st, b.bits))
    ELSE tr

\* check_allocate_block(nb, strat): always materialises.
CheckAllocateAlways(tr, nb, st) ==
    LET b == GetBlock(tr, nb) IN
    IF b.kind \in {"NULL", "FULL"} THEN PutBlock(tr, nb, NewBlock(st, b.bits))
    ELSE tr

\* deoptimize_block: a GAP or FULL block becomes an equal bit-block.
Deoptimize(tr, nb) ==
    LET b == GetBlock(tr, nb) IN
    IF b.kind \in {"GAP", "FULL"} THEN PutBlock(tr, nb, BitBlk(b.bits)) ELSE tr

\* Mutant: the block keeps its level.
ExtendGapStay(tr, nb) == tr

\* extend_gap_block: promote to the next level, past the last one convert
\* to a bit-block.
ExtendGap(tr, nb) ==
    LET b == tr.blk[nb] IN
    IF b.level = MaxLevel THEN [tr EXCEPT !.blk[nb] = BitBlk(b.bits)]
    ELSE [tr EXCEPT !.blk[nb].level = b.level + 1]

-----------------------------------------------------------------------------
(* Single-bit primitives of the facade.  Each returns the new tree and the  *)
(* call's boolean result.                                                    *)

\* Mutant: the grown GAP block is not extended.
GapBlockSetNoExtend(tr, nb, off, val) ==
    LET nbs == IF val THEN tr.blk[nb].bits \cup {off} ELSE tr.blk[nb].bits \ {off}
    IN [tr |-> [tr EXCEPT !.blk[nb].bits = nbs], ret |-> nbs # tr.blk[nb].bits]

\* gap_block_set: gap_set_value, then extend the block if it grew past the
\* capacity of its level.
GapBlockSet(tr, nb, off, val) ==
    LET b   == tr.blk[nb]
        nbs == IF val THEN b.bits \cup {off} ELSE b.bits \ {off}
        t1  == [tr EXCEPT !.blk[nb].bits = nbs]
        isSet == nbs # b.bits
    IN [tr  |-> IF isSet /\ GapLen(nbs) > GapLimit[b.level + 1]
                THEN ExtendGap(t1, nb) ELSE t1,
        ret |-> isSet]

\* Mutant: the bit-block branch returns the old value of the bit.
SetBitNoCheckRetOld(tr, n, val, st) ==
    LET nb == n \div B
        t1 == CheckAllocate(tr, nb, val, st)
        b  == GetBlock(t1, nb)
        off == n % B
    IN CASE b.kind \in {"NULL", "FULL"} -> [tr |-> tr, ret |-> FALSE]
         [] b.kind = "GAP" -> GapBlockSet(t1, nb, off, val)
         [] OTHER ->
              [tr  |-> [t1 EXCEPT !.blk[nb].bits =
                          IF val THEN @ \cup {off} ELSE @ \ {off}],
               ret |-> off \in b.bits]

\* bvector::set_bit_no_check(n, val)
SetBitNoCheck(tr, n, val, st) ==
    LET nb == n \div B
        t1 == CheckAllocate(tr, nb, val, st)
        b  == GetBlock(t1, nb)
        off == n % B
    IN CASE b.kind \in {"NULL", "FULL"} -> [tr |-> tr, ret |-> FALSE]
         [] b.kind = "GAP" -> GapBlockSet(t1, nb, off, val)
         [] OTHER ->
              [tr  |-> [t1 EXCEPT !.blk[nb].bits =
                          IF val THEN @ \cup {off} ELSE @ \ {off}],
               ret |-> (off \in b.bits) # val]

\* bvector::set_bit_conditional_impl(n, val, condition)
SetBitConditionalImpl(tr, n, val, condition, st) ==
    LET nb == n \div B
        t1 == CheckAllocate(tr, nb, val, st)
        b  == GetBlock(t1, nb)
        off == n % B
        isSet == off \in b.bits
    IN CASE b.kind \in {"NULL", "FULL"} -> [tr |-> tr, ret |-> FALSE]
         [] isSet # condition -> [tr |-> t1, ret |-> FALSE]
         [] isSet = val       -> [tr |-> t1, ret |-> FALSE]
         [] b.kind = "GAP"    -> GapBlockSet(t1, nb, off, val)
         [] OTHER ->
              [tr  |-> [t1 EXCEPT !.blk[nb].bits =
                          IF val THEN @ \cup {off} ELSE @ \ {off}],
               ret |-> TRUE]

\* bvector::and_bit_no_check(n, val).  The bit-block branch computes
\* new_val = is_set & val and compares it with val (bm.h:3840-3841), the
\* GAP branch compares it with the old value.
AndBitNoCheck(tr, n, val, st) ==
    LET nb == n \div B
        t1 == CheckAllocate(tr, nb, val, st)
        b  == GetBlock(t1, nb)
        off == n % B
        isSet == off \in b.bits
        newVal == isSet /\ val
    IN CASE b.kind \in {"NULL", "FULL"} -> [tr |-> tr, ret |-> FALSE]
         [] b.kind = "GAP" ->
              IF newVal # isSet THEN GapBlockSet(t1, nb, off, val)
              ELSE [tr |-> t1, ret |-> FALSE]
         [] newVal # val ->
              [tr  |-> [t1 EXCEPT !.blk[nb].bits =
                          IF newVal THEN @ \cup {off} ELSE @ \ {off}],
               ret |-> TRUE]
         [] OTHER -> [tr |-> t1, ret |-> FALSE]

\* bvector::inc(n): flip bit n, return its old value.
Inc(tr, n, st) ==
    LET nb == n \div B
        t1 == CheckAllocateAlways(tr, nb, st)
        b  == GetBlock(t1, nb)
        off == n % B
        isSet == off \in b.bits
    IN IF b.kind = "GAP"
       THEN [tr |-> GapBlockSet(t1, nb, off, ~isSet).tr, ret |-> isSet]
       ELSE [tr  |-> [t1 EXCEPT !.blk[nb].bits =
                        IF isSet THEN @ \ {off} ELSE @ \cup {off}],
             ret |-> isSet]

-----------------------------------------------------------------------------
(* Range primitives.                                                         *)

\* assign_gap: store a GAP result, raising the level if it no longer fits
\* the block's level and converting to a bit-block if it fits no level.
AssignGap(tr, nb, res) ==
    LET lvl == tr.blk[nb].level
        newLevel == GapCalcLevel(res)
    IN CASE newLevel < 0 -> [tr EXCEPT !.blk[nb] = BitBlk(res)]
         [] GapLen(res) > GapLimit[lvl + 1] -> [tr EXCEPT !.blk[nb] = GapBlk(res, newLevel)]
         [] OTHER -> [tr EXCEPT !.blk[nb].bits = res]

\* combine_operation_with_block(nb, gap, blk, arg, arg_gap=1, op) for the
\* GAP range argument built by set_range_no_check (op "OR", arg = mask) and
\* clear_range_no_check (op "AND", arg = the complement of the range).
CombineWithGapArg(tr, nb, arg, op) ==
    LET b   == GetBlock(tr, nb)
        res == IF op = "OR" THEN b.bits \cup arg ELSE b.bits \cap arg
        lvl == GapCalcLevel(arg)
    IN CASE op = "OR" /\ b.kind = "NULL" ->        \* clone_gap_block
              PutBlock(tr, nb, IF lvl < 0 THEN BitBlk(arg) ELSE GapBlk(arg, lvl))
         [] b.kind = "GAP" ->                      \* gap_operation_{or,and}
              IF res = {} THEN ZeroBlock(tr, nb) ELSE AssignGap(tr, nb, res)
         [] b.kind = "BIT" ->                      \* gap_op_to_bit in place
              IF op # "OR" /\ res = {} THEN ZeroBlock(tr, nb)
              ELSE [tr EXCEPT !.blk[nb].bits = res]
         [] b.kind = "FULL" /\ op = "AND" ->       \* bit_operation_and copies arg
              PutBlock(tr, nb, BitBlk(res))
         [] OTHER -> tr                            \* FULL OR x, NULL AND x

\* set_all_set / set_all_zero over blocks from .. to: a sub-array covered
\* whole becomes the FULL sentinel or NULL, the others get FULL / NULL
\* block slots.
SetAll(tr, from, to, v) ==
    LET InR(nb)    == from <= nb /\ nb <= to
        Whole(i)   == \A nb \in Blocks : SubOf(nb) = i => InR(nb)
        Touched(i) == \E nb \in Blocks : SubOf(nb) = i /\ InR(nb)
        Same(i)    == tr.top[i] = IF v THEN "FULL" ELSE "NULL"
        Slot(i)    == Touched(i) /\ ~Whole(i) /\ ~Same(i)
    IN [top |-> [i \in Subs |->
                   CASE Whole(i) -> IF v THEN "FULL" ELSE "NULL"
                     [] Slot(i)  -> "ARR"
                     [] OTHER    -> tr.top[i]],
        blk |-> [nb \in Blocks |->
                   CASE Whole(SubOf(nb)) -> NullBlk
                     [] Slot(SubOf(nb)) ->
                          IF InR(nb) THEN (IF v THEN FullBlk ELSE NullBlk)
                          ELSE GetBlock(tr, nb)
                     [] OTHER -> tr.blk[nb]]]

\* Mutant: the last block is always treated as covered to its end.
RangeNoCheckWholeLast(tr, left, right, v) ==
    LET nbl == left \div B
        nbr == right \div B
        op  == IF v THEN "OR" ELSE "AND"
        Arg(lo, hi) == IF v THEN lo .. hi ELSE Offs \ (lo .. hi)
        t1  == CombineWithGapArg(tr, nbl, Arg(left % B, B - 1), op)
    IN IF nbl = nbr THEN t1 ELSE SetAll(t1, nbl + 1, nbr, v)

\* set_range_no_check (v = TRUE) and clear_range_no_check (v = FALSE):
\* the two boundary blocks are combined with a GAP range block, whole blocks
\* in between are set or cleared by set_all_set / set_all_zero.
RangeNoCheck(tr, left, right, v) ==
    LET nbl == left \div B
        nbr == right \div B
        nbitR == right % B
        nbitL == left % B
        r   == IF nbl = nbr THEN nbitR ELSE B - 1
        op  == IF v THEN "OR" ELSE "AND"
        Arg(lo, hi) == IF v THEN lo .. hi ELSE Offs \ (lo .. hi)
        firstWhole == nbitL = 0 /\ r = B - 1
        t1  == IF firstWhole THEN tr ELSE CombineWithGapArg(tr, nbl, Arg(nbitL, r), op)
        nb  == IF firstWhole THEN nbl ELSE nbl + 1
        nbTo == nbr + (IF nbitR = B - 1 THEN 1 ELSE 0)
        t2  == IF nb < nbTo THEN SetAll(t1, nb, nbTo - 1, v) ELSE t1
    IN CASE ~firstWhole /\ nbl = nbr -> t1
         [] nbTo > nbr -> t2
         [] OTHER -> CombineWithGapArg(t2, nbr, Arg(0, nbitR), op)

\* Mutant: size_ is not grown to cover the range.
SetRangeOpNoGrow(tr, sz, in, left, right, v) ==
    IF ~in /\ ~v THEN [tr |-> tr, size |-> sz, init |-> in]
    ELSE [tr |-> RangeNoCheck(tr, left, right, v), size |-> sz, init |-> TRUE]

\* bvector::set_range(left, right, value) for left <= right < id_max:
\* grows size_ to cover right, then fills or clears.  Returns the new tree,
\* size_ and init state.
SetRangeOp(tr, sz, in, left, right, v) ==
    IF ~in /\ ~v THEN [tr |-> tr, size |-> sz, init |-> in]
    ELSE [tr   |-> RangeNoCheck(tr, left, right, v),
          size |-> IF right >= sz THEN right + 1 ELSE sz,
          init |-> TRUE]

\* bvector::resize(new_size): growing reserves, shrinking clears the tail.
Resize(tr, sz, in, newSize) ==
    CASE newSize = sz -> [tr |-> tr, size |-> sz, init |-> in]
      [] newSize > sz -> [tr |-> tr, size |-> newSize, init |-> TRUE]
      [] OTHER -> [SetRangeOp(tr, sz, in, newSize, sz - 1, FALSE)
                     EXCEPT !.size = newSize]

-----------------------------------------------------------------------------
(* invert, insert and erase.                                                 *)

\* Mutant: NULL and FULL block slots are complemented as if they were
\* bit-blocks, keeping their kind.
InvertTreeNoSentinel(tr) ==
    [tr EXCEPT !.top = [i \in Subs |->
                 CASE tr.top[i] = "NULL" -> "FULL"
                   [] tr.top[i] = "FULL" -> "NULL"
                   [] OTHER -> "ARR"],
               !.blk = [nb \in Blocks |->
                 IF tr.top[SubOf(nb)] # "ARR" THEN NullBlk
                 ELSE [tr.blk[nb] EXCEPT !.bits = Offs \ @]]]

\* bvector::invert, block walk: NULL <-> FULL for sub-arrays and blocks,
\* bit- and GAP-blocks complemented in place (gap_invert keeps the level).
InvertTree(tr) ==
    [top |-> [i \in Subs |->
                CASE tr.top[i] = "NULL" -> "FULL"
                  [] tr.top[i] = "FULL" -> "NULL"
                  [] OTHER -> "ARR"],
     blk |-> [nb \in Blocks |->
                LET b == tr.blk[nb] IN
                CASE tr.top[SubOf(nb)] # "ARR" -> NullBlk
                  [] b.kind = "NULL" -> FullBlk
                  [] b.kind = "FULL" -> NullBlk
                  [] OTHER -> [b EXCEPT !.bits = Offs \ b.bits]]]

\* bm::bit_block_insert(block, nbit, value): the bits shifted up by one
\* from nbit, value put at nbit; returns the bit that leaves the block.
BlockInsert(bs, nbit, v) ==
    {o \in bs : o < nbit} \cup (IF v THEN {nbit} ELSE {})
        \cup {o + 1 : o \in {x \in bs : nbit <= x /\ x < B - 1}}

\* bm::bit_block_erase(block, nbit, carry_over)
BlockErase(bs, nbit, c) ==
    {o \in bs : o < nbit} \cup {o - 1 : o \in {x \in bs : x > nbit}}
        \cup (IF c THEN {B - 1} ELSE {})

\* bit_block_shift_r1 / gap_shift_r1 and bit_block_shift_l1 / gap_shift_l1
ShiftR1(bs, c) == {o + 1 : o \in bs \ {B - 1}} \cup (IF c THEN {0} ELSE {})
ShiftL1(bs, c) == {o - 1 : o \in bs \ {0}} \cup (IF c THEN {B - 1} ELSE {})

\* Mutant: a shifted GAP block is never extended.
GapAfterShiftNoExtend(tr, nb, bs) == [tr EXCEPT !.blk[nb].bits = bs]

\* A GAP block after a shift: extended when it outgrew its level.
GapAfterShift(tr, nb, bs) ==
    LET t1 == [tr EXCEPT !.blk[nb].bits = bs] IN
    IF GapLen(bs) > GapLimit[tr.blk[nb].level + 1] THEN ExtendGap(t1, nb) ELSE t1

\* The do { } while (++j < S) loop of bvector::insert over sub-array i.
RECURSIVE InsBlocks(_, _, _, _, _)
InsBlocks(tr, i, j, c, st) ==
  IF j >= S THEN [tr |-> tr, carry |-> c]
  ELSE
    LET nblock == i * S + j
        b == tr.blk[nblock]
    IN CASE b.kind = "NULL" ->
              LET t1 == IF c THEN SetBitNoCheck(tr, nblock * B, TRUE, st).tr ELSE tr
                  nxt == {k \in j + 1 .. S - 1 : t1.blk[i * S + k].kind # "NULL"}
              IN IF nxt = {} THEN [tr |-> t1, carry |-> FALSE]
                 ELSE InsBlocks(t1, i, CHOOSE k \in nxt : \A k2 \in nxt : k <= k2, FALSE, st)
         [] b.kind = "FULL" ->
              IF c THEN InsBlocks(tr, i, j + 1, TRUE, st)
              ELSE InsBlocks(PutBlock(tr, nblock, BitBlk(Offs \ {0})), i, j + 1, TRUE, st)
         [] b.kind = "GAP" /\ nblock # NBlocks - 1 ->
              InsBlocks(GapAfterShift(tr, nblock, ShiftR1(b.bits, c)), i, j + 1,
                        (B - 1) \in b.bits, st)
         [] OTHER ->     \* bit-block (a GAP last block is deoptimized first)
              LET sh == ShiftR1(b.bits, c) IN
              IF nblock = NBlocks - 1
              THEN [tr |-> IF sh = {} THEN ZeroBlock(tr, nblock)
                           ELSE PutBlock(tr, nblock, BitBlk(sh \ {B - 1})),
                    carry |-> (B - 1) \in sh]
              ELSE InsBlocks(IF sh = {} THEN ZeroBlock(tr, nblock)
                             ELSE PutBlock(tr, nblock, BitBlk(sh)),
                             i, j + 1, (B - 1) \in b.bits, st)

\* The for (i = i0; ...) loop of bvector::insert; nb is the first block
\* after the target block.  A skipped sub-array keeps j0 for the next one.
RECURSIVE InsSubs(_, _, _, _, _, _)
InsSubs(tr, i, j0, c, nb, st) ==
  IF i >= T THEN [tr |-> tr, carry |-> c]
  ELSE CASE tr.top[i] = "NULL" ->
              IF c /\ i * S > nb
              THEN InsSubs(PutBlock(tr, i * S, BitBlk({0})), i + 1, j0, FALSE, nb, st)
              ELSE InsSubs(tr, i + 1, j0, c, nb, st)
         [] tr.top[i] = "FULL" /\ c -> InsSubs(tr, i + 1, j0, c, nb, st)
         [] OTHER ->
              LET r == InsBlocks(AllocSub(tr, i), i, j0, c, st)
              IN InsSubs(r.tr, i + 1, 0, r.carry, nb, st)

\* Mutant: the bit pushed out of the target block is not carried.
InsertTreeNoCarry(tr, n, v, st) ==
    LET nb0 == n \div B
        b   == GetBlock(tr, nb0)
        skipTarget == n = 0 /\ ~v
        touch == ~skipTarget /\ ~(b.kind = "NULL" /\ ~v)
        t1  == IF touch THEN Deoptimize(CheckAllocateAlways(tr, nb0, "BIT"), nb0) ELSE tr
        t2  == IF touch
               THEN [t1 EXCEPT !.blk[nb0].bits = BlockInsert(b.bits, n % B, v)]
               ELSE t1
        nb  == IF skipTarget THEN nb0 ELSE nb0 + 1
    IN InsSubs(t2, nb \div S, nb % S, FALSE, nb, st)

\* bvector::insert(n, value) on an initialised tree: the target block takes
\* the bit, then the rest of the vector is shifted right by one.
InsertTree(tr, n, v, st) ==
    LET nb0 == n \div B
        b   == GetBlock(tr, nb0)
        skipTarget == n = 0 /\ ~v
        touch == ~skipTarget /\ ~(b.kind = "NULL" /\ ~v)
        t1  == IF touch THEN Deoptimize(CheckAllocateAlways(tr, nb0, "BIT"), nb0) ELSE tr
        t2  == IF touch
               THEN [t1 EXCEPT !.blk[nb0].bits = BlockInsert(b.bits, n % B, v)]
               ELSE t1
        c0  == touch /\ (B - 1) \in b.bits
        nb  == IF skipTarget THEN nb0 ELSE nb0 + 1
    IN InsSubs(t2, nb \div S, nb % S, c0, nb, st)

\* test_first_block_bit(nb)
FirstBlockBit(tr, nb) == nb < NBlocks /\ GetBit(tr, nb * B)

\* The do { } while (++j < S) loop of bvector::erase over sub-array i:
\* each block is shifted left and the bit leaving it is set as the last
\* bit of the block before.  Bit-blocks shift in 0 and rely on the next
\* block to set their last bit; GAP and FULL blocks look ahead.
RECURSIVE ErsBlocks(_, _, _, _)
ErsBlocks(tr, i, j, st) ==
  IF j >= S THEN tr
  ELSE
    LET nblock == i * S + j
        b == tr.blk[nblock]
        SetPrev(t, co) ==
            IF co /\ nblock > 0
            THEN SetBitNoCheck(t, (nblock - 1) * B + B - 1, TRUE, st).tr
            ELSE t
    IN CASE b.kind = "NULL" ->
              LET nxt == {k \in j + 1 .. S - 1 : tr.blk[i * S + k].kind # "NULL"} IN
              \* a sub-array found empty from its first slot is freed
              IF nxt = {}
              THEN IF j = 0 THEN ZeroBlock(tr, i * S + S - 1) ELSE tr
              ELSE ErsBlocks(tr, i, CHOOSE k \in nxt : \A k2 \in nxt : k <= k2, st)
         [] b.kind = "FULL" ->
              LET cin == FirstBlockBit(tr, nblock + 1)
                  t1 == IF cin THEN tr ELSE PutBlock(tr, nblock, BitBlk(Offs \ {B - 1}))
              IN ErsBlocks(SetPrev(t1, TRUE), i, j + 1, st)
         [] b.kind = "GAP" ->
              LET sh == ShiftL1(b.bits, FirstBlockBit(tr, nblock + 1))
                  t1 == IF GapLen(sh) > GapLimit[b.level + 1]
                        THEN GapAfterShift(tr, nblock, sh)
                        ELSE IF sh = {} THEN ZeroBlock(tr, nblock)
                        ELSE [tr EXCEPT !.blk[nblock].bits = sh]
              IN ErsBlocks(SetPrev(t1, 0 \in b.bits), i, j + 1, st)
         [] OTHER ->
              LET sh == ShiftL1(b.bits, FALSE)
                  t1 == IF sh = {} THEN ZeroBlock(tr, nblock)
                        ELSE [tr EXCEPT !.blk[nblock].bits = sh]
              IN ErsBlocks(SetPrev(t1, 0 \in b.bits), i, j + 1, st)

\* The for (i = i0; ...) loop of bvector::erase.  A FULL sub-array whose
\* successor starts with 1 is left as it is; skipped sub-arrays keep j0.
RECURSIVE ErsSubs(_, _, _, _)
ErsSubs(tr, i, j0, st) ==
  IF i >= T THEN tr
  ELSE CASE tr.top[i] = "NULL" -> ErsSubs(tr, i + 1, j0, st)
         [] tr.top[i] = "FULL" /\ i + 1 < T /\ GetBit(tr, (i + 1) * S * B) ->
              ErsSubs(tr, i + 1, j0, st)
         [] OTHER ->
              ErsSubs(ErsBlocks(AllocSub(tr, i), i, j0, st), i + 1, 0, st)

\* Mutant: the shift loop starts at the target block (no ++nb).
EraseTreeNoAdvance(tr, n, st) ==
    LET nb0 == n \div B
        b   == GetBlock(tr, nb0)
        c   == FirstBlockBit(tr, nb0 + 1)
        t1  == CASE n = 0 -> tr
                 [] b.kind = "NULL" ->
                      IF c THEN PutBlock(tr, nb0, BitBlk({B - 1})) ELSE tr
                 [] OTHER ->
                      [Deoptimize(tr, nb0) EXCEPT
                          !.blk[nb0].bits = BlockErase(b.bits, n % B, c)]
    IN ErsSubs(t1, nb0 \div S, nb0 % S, st)

\* bvector::erase(n) on an initialised tree.
EraseTree(tr, n, st) ==
    LET nb0 == n \div B
        b   == GetBlock(tr, nb0)
        c   == FirstBlockBit(tr, nb0 + 1)
        t1  == CASE n = 0 -> tr
                 [] b.kind = "NULL" ->
                      IF c THEN PutBlock(tr, nb0, BitBlk({B - 1})) ELSE tr
                 [] OTHER ->
                      [Deoptimize(tr, nb0) EXCEPT
                          !.blk[nb0].bits = BlockErase(b.bits, n % B, c)]
        nb  == IF n = 0 THEN nb0 ELSE nb0 + 1
    IN ErsSubs(t1, nb \div S, nb % S, st)

-----------------------------------------------------------------------------
(* Searching the tree from its end and bulk import, shared by BVQuery,     *)
(* BVInsert and BVAlgebra.                                                 *)

None == -1

Hints == {"SORTED", "UNKNOWN"}          \* bm::sort_order

\* The block coordinates (i, j) in the order of the nested loops.
Coords == [k \in 1 .. NBlocks |-> <<(k - 1) \div S, (k - 1) % S>>]
NbOf(c) == c[1] * S + c[2]

\* get_topblock(i)[j], a FULL sub-array read through
\* FULL_SUB_BLOCK_REAL_ADDR, whose slots are all FULL.
Slot(tr, c) == GetBlock(tr, NbOf(c))

\* bit_find_last / gap_find_last (bmfunc.h): the last offset or None.
BlockFindLast(bs) == IF bs = {} THEN None ELSE Max(bs)

\* bvector::find_reverse(pos): i and j count down, FULL gives the block's
\* last bit.
SlotLast(tr, c) ==
    LET b == Slot(tr, c) IN
    CASE b.kind = "NULL" -> None
      [] b.kind = "FULL" -> B - 1
      [] OTHER           -> BlockFindLast(b.bits)
FindReverse(tr) ==
    FoldLeft(LAMBDA acc, c :
                IF acc # None \/ SlotLast(tr, c) = None THEN acc
                ELSE c[1] * S * B + c[2] * B + SlotLast(tr, c),
             None, Reverse(Coords))

\* idx_arr_block_lookup(ids, size, nb, start) (bmfunc.h): the index after
\* the run of ids from start that lie in block nb.
RECURSIVE RunEnd(_, _, _)
RunEnd(ids, nb, k) ==
    IF k <= Len(ids) /\ ids[k] \div B = nb THEN RunEnd(ids, nb, k + 1) ELSE k

\* import_block(ids, nblock, start, stop): a bit-block is allocated with
\* the BIT strategy whatever new_blocks_strat_ is, a GAP block is
\* deoptimized, a FULL block is left alone; set_block_bits ORs the run in
\* and the last block loses its id_max bit.
ImportBlock(tr, ids, nb, start, stop) ==
    LET t1 == CheckAllocate(tr, nb, TRUE, "BIT") IN
    IF GetBlock(t1, nb).kind = "FULL" THEN t1
    ELSE [Deoptimize(t1, nb) EXCEPT !.blk[nb].bits =
             (@ \cup {ids[k] % B : k \in start .. stop - 1})
                 \ (IF nb = NBlocks - 1 THEN {B - 1} ELSE {})]

\* import's do-while: one import_block per run of ids in one block.
RECURSIVE ImportRuns(_, _, _)
ImportRuns(tr, ids, start) ==
    IF start > Len(ids) THEN tr
    ELSE ImportRuns(ImportBlock(tr, ids, ids[start] \div B, start,
                                RunEnd(ids, ids[start] \div B, start)),
                    ids, RunEnd(ids, ids[start] \div B, start))

\* Mutant: the sorted shortcut without comparing the first and last block.
ImportNoBlockTest(tr, ids, so) ==
    IF so = "SORTED"
    THEN ImportBlock(tr, ids, ids[1] \div B, 1, Len(ids) + 1)
    ELSE ImportRuns(tr, ids, 1)

\* bvector::import(ids, size_in, sorted_idx): a sorted array whose first
\* and last id share a block is one import_block.
Import(tr, ids, so) ==
    IF so = "SORTED" /\ ids[1] \div B = ids[Len(ids)] \div B
    THEN ImportBlock(tr, ids, ids[1] \div B, 1, Len(ids) + 1)
    ELSE ImportRuns(tr, ids, 1)

=============================================================================
