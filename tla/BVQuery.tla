------------------------------ MODULE BVQuery ------------------------------
(***************************************************************************)
(* The queries of bm::bvector over its block tree: count, any,            *)
(* count_range, the find family, check_or_next, find_rank, and the        *)
(* rank-select index (build_rs_index, count_to, count_to_test, select and *)
(* the indexed count_range and find_rank); and the two calls that write   *)
(* as they search, check_or_next_extract and sync_size.                   *)
(*                                                                          *)
(* A query is an operator of the tree (and init, blockman_.is_init());    *)
(* "not found" is -1 where the C++ returns false.  The walks over the top *)
(* array are folds over the (i, j) block coordinates in the order the     *)
(* loops visit them, so that an early return is the first hit of the fold.*)
(***************************************************************************)
EXTENDS BVector

LOCAL INSTANCE SequencesExt

CONSTANTS RsBorder0, RsBorder1, RsHalfSpan

Rs == INSTANCE RsBlock
        WITH BlockBits <- B, Border0 <- RsBorder0, Border1 <- RsBorder1,
             HalfSpan <- RsHalfSpan

\* bit_find_first / gap_find_first, bit_block_find / gap_block_find from
\* nbit (bmfunc.h): an offset or None.
BlockFindFrom(bs, nbit) ==
    IF \E o \in bs : o >= nbit THEN Min({o \in bs : o >= nbit}) ELSE None

\* block_find_rank(block, rank, nbit_from, nbit_pos) (bmfunc.h): 0 and
\* the position of the rank-th 1 at or after nbit_from, or the rank left
\* over after this block's 1 bits from nbit_from.
BlockFindRank(bs, rank, from) ==
    LET cand == {o \in bs : o >= from} IN
    IF Cardinality(cand) >= rank
    THEN [rank |-> 0,
          pos  |-> CHOOSE o \in cand :
                      Cardinality({q \in cand : q <= o}) = rank]
    ELSE [rank |-> rank - Cardinality(cand), pos |-> 0]

\* The first hit of a scan over coordinates: one position per slot that
\* yields one (FULL: block_pos 0, others: the first 1 bit).
SlotFirst(tr, c) ==
    LET b == Slot(tr, c) IN
    CASE b.kind = "NULL" -> None
      [] b.kind = "FULL" -> 0
      [] OTHER           -> BlockFindFrom(b.bits, 0)
ScanFirst(tr, cs) ==
    FoldLeft(LAMBDA acc, c :
                IF acc # None \/ SlotFirst(tr, c) = None THEN acc
                ELSE c[1] * S * B + c[2] * B + SlotFirst(tr, c),
             None, cs)

\* bvector::find(pos): the first 1 bit, or None.
FindFirst(tr) == ScanFirst(tr, Coords)

\* Mutant: the continuation starts every sub-array at slot j+1, the
\* j = 0 reset at the end of the i loop dropped.
AfterNoReset(i0, j0) ==
    SelectSeq(Coords, LAMBDA c : c[1] >= i0 /\ c[2] > j0)

\* The slots the continuation of check_or_next visits: from (i0, j0+1) to
\* the end of sub-array i0, then every slot of the following ones.
After(i0, j0) ==
    SelectSeq(Coords, LAMBDA c : c[1] > i0 \/ (c[1] = i0 /\ c[2] > j0))

\* bvector::check_or_next(prev): prev when bit prev is 1, else the next 1
\* bit, 0 when there is none.  A FULL block returns prev at once.
CheckOrNext(tr, in, prev) ==
    LET nb  == prev \div B
        blk == GetBlock(tr, nb)
        hit == BlockFindFrom(blk.bits, prev % B)
        nxt == ScanFirst(tr, After(SubOf(nb), nb % S))
    IN CASE ~in                                 -> 0
         [] blk.kind = "FULL"                   -> prev
         [] blk.kind # "NULL" /\ hit # None     -> nb * B + hit
         [] nxt # None                          -> nxt
         [] OTHER                               -> 0

\* bvector::find(from, pos): find(pos) for from = 0, else check_or_next,
\* a result of 0 meaning "not found".
FindFrom(tr, in, from) ==
    IF from = 0 THEN FindFirst(tr)
    ELSE LET p == CheckOrNext(tr, in, from) IN IF p # 0 THEN p ELSE None

\* bvector::find_range(first, last): find, then find_reverse.
FindRange(tr) ==
    IF FindFirst(tr) = None THEN <<None, None>>
    ELSE <<FindFirst(tr), FindReverse(tr)>>

-----------------------------------------------------------------------------
(* Counting.                                                                *)

\* blockman_.block_bitcount(block)
BlockBitcount(b) == Cardinality(b.bits)

\* The count of sub-array i in count(): a FULL sub-array counts
\* gap_max_bits * set_sub_array_size without reading a slot.
SubCount(tr, i) ==
    CASE tr.top[i] = "NULL" -> 0
      [] tr.top[i] = "FULL" -> B * S
      [] OTHER -> FoldLeft(LAMBDA c, j : c + BlockBitcount(tr.blk[i * S + j]),
                           0, [k \in 1 .. S |-> k - 1])

\* bvector::count()
Count(tr, in) ==
    IF ~in THEN 0
    ELSE FoldLeft(LAMBDA c, i : c + SubCount(tr, i), 0, [k \in 1 .. T |-> k - 1])

\* bvector::any(): for_each_nzblock_if with block_any_func.
AnyBit(tr) == \E nb \in Blocks : GetBlock(tr, nb).bits # {}

\* for_each_nzblock_range(from, to) with block_count_func.
BlocksCount(tr, from, to) ==
    FoldLeft(LAMBDA c, nb : c + BlockBitcount(GetBlock(tr, nb)),
             0, [k \in 1 .. to - from + 1 |-> from + k - 1])

\* bvector::count_range(left, right): the left block from nbit_left (to
\* nbit_right when both ends share it), the blocks strictly between, and
\* the right block up to nbit_right.
CountRange(tr, in, left, right) ==
    LET nl == left \div B
        nr == right \div B
        r  == IF nl = nr THEN right % B ELSE B - 1
        cl == Rs!CountRange(GetBlock(tr, nl).bits, left % B, r)
    IN CASE ~in    -> 0
         [] nl = nr -> cl
         [] OTHER  -> cl + BlocksCount(tr, nl + 1, nr - 1)
                         + Rs!CountRange(GetBlock(tr, nr).bits, 0, right % B)

\* bvector::find_rank(rank, from, pos) without an index: block_find_rank
\* block after block from the block of from, the start bit zeroed after
\* the first block.  get_block reads a FULL slot as an all-1 bit-block.
FindRank(tr, in, rank, from) ==
    LET step(acc, nb) ==
          LET b == GetBlock(tr, nb)
              r == BlockFindRank(b.bits, acc.rank, acc.nbit)
          IN CASE acc.pos # None   -> acc
               [] b.kind = "NULL"  -> [acc EXCEPT !.nbit = 0]
               [] r.rank = 0       -> [acc EXCEPT !.pos = nb * B + r.pos]
               [] OTHER            -> [rank |-> r.rank, nbit |-> 0, pos |-> None]
        nb0 == from \div B
    IN IF rank = 0 \/ ~in THEN None
       ELSE FoldLeft(step, [rank |-> rank, nbit |-> from % B, pos |-> None],
                     [k \in 1 .. NBlocks - nb0 |-> nb0 + k - 1]).pos

-----------------------------------------------------------------------------
(* The rank-select index: per block its count and its two sub-counts, and *)
(* total, the number of blocks up to the one holding the last 1 bit.      *)

ZeroEntry == [count |-> 0, first |-> 0, second |-> 0]

\* rs_index::set_full_super_block(i): every block of a FULL sub-array.
FullEntry == [count |-> B, first |-> RsBorder0 + 1,
              second |-> RsBorder1 - RsBorder0]

\* bvector::build_rs_index(rs_idx): empty for an uninitialised or empty
\* vector; else sized to the block of find_reverse's result, NULL
\* sub-arrays and slots registered as zeros, FULL sub-arrays as FULL.
BuildRsIndex(tr, in) ==
    LET last == FindReverse(tr)
        entry(nb) ==
          CASE tr.top[SubOf(nb)] = "NULL"   -> ZeroEntry
            [] tr.top[SubOf(nb)] = "FULL"   -> FullEntry
            [] tr.blk[nb].kind = "NULL"     -> ZeroEntry
            [] OTHER -> [count |-> BlockBitcount(tr.blk[nb])]
                          @@ Rs!SubCounts(tr.blk[nb].bits)
    IN IF ~in \/ last = None
       THEN [total |-> 0, blk |-> [nb \in Blocks |-> ZeroEntry]]
       ELSE [total |-> last \div B + 1, blk |-> [nb \in Blocks |-> entry(nb)]]

\* rs_index::rcount(nb): the bits of blocks 0 .. nb; count(): all of them.
RCount(idx, nb) ==
    FoldLeft(LAMBDA c, k : c + idx.blk[k].count, 0, [k \in 1 .. nb + 1 |-> k - 1])
IdxCount(idx) == IF idx.total = 0 THEN 0 ELSE RCount(idx, idx.total - 1)
Before(idx, nb) == IF nb > 0 THEN RCount(idx, nb - 1) ELSE 0

\* rs_index::find(rank): the first block whose rcount reaches rank.
RsFindBlock(idx, rank) ==
    Min({nb \in 0 .. idx.total - 1 : RCount(idx, nb) >= rank})

\* Mutant: the sub-range's start bit is chosen but the rank is left
\* counted from the start of the block.
SelectSubRangeKeep(e, rank) ==
    CASE rank <= e.first            -> [rank |-> rank, from |-> 0]
      [] rank <= e.first + e.second -> [rank |-> rank, from |-> RsBorder0 + 1]
      [] OTHER                      -> [rank |-> rank, from |-> RsBorder1 + 1]

\* rs_index::select_sub_range(nb, rank) and the sub-range step of
\* rs_index::find(&rank, &nb, &sub_from): the start bit of the sub-range
\* holding the rank-th bit of the block, the rank reduced to count from it.
SelectSubRange(e, rank) ==
    CASE rank <= e.first            -> [rank |-> rank, from |-> 0]
      [] rank <= e.first + e.second -> [rank |-> rank - e.first,
                                        from |-> RsBorder0 + 1]
      [] OTHER -> [rank |-> rank - e.first - e.second, from |-> RsBorder1 + 1]

\* Mutant: a FULL block adds nbit_right, not nbit_right + 1.
CountToFullShort(tr, in, right, idx) ==
    LET nr == right \div B
        b  == GetBlock(tr, nr)
        e  == idx.blk[nr]
        nbit == right % B
    IN CASE ~in                -> 0
         [] nr >= idx.total    -> IdxCount(idx)
         [] b.kind = "NULL"    -> Before(idx, nr)
         [] b.kind = "GAP"     -> Before(idx, nr) + Rs!CountRange(b.bits, 0, nbit)
         [] b.kind = "FULL"    -> Before(idx, nr) + nbit
         [] OTHER -> Before(idx, nr) + Rs!BlockCountTo(b.bits, nbit, e, e.count)

\* bvector::count_to(right, rs_idx): the rcount of the blocks before, plus
\* the target block up to nbit_right (GAP: gap_bit_count_to, FULL:
\* nbit_right + 1, bit-block: block_count_to).
CountTo(tr, in, right, idx) ==
    LET nr == right \div B
        b  == GetBlock(tr, nr)
        e  == idx.blk[nr]
        nbit == right % B
    IN CASE ~in                -> 0
         [] nr >= idx.total    -> IdxCount(idx)
         [] b.kind = "NULL"    -> Before(idx, nr)
         [] b.kind = "GAP"     -> Before(idx, nr) + Rs!CountRange(b.bits, 0, nbit)
         [] b.kind = "FULL"    -> Before(idx, nr) + nbit + 1
         [] OTHER -> Before(idx, nr) + Rs!BlockCountTo(b.bits, nbit, e, e.count)

\* bvector::count_to_test(right, rs_idx): 0 when bit right is 0, else
\* count_to(right); it reads the block before comparing with total.
CountToTest(tr, in, right, idx) ==
    LET nr == right \div B
        b  == GetBlock(tr, nr)
        e  == idx.blk[nr]
        nbit == right % B
    IN CASE ~in \/ nbit \notin b.bits -> 0
         [] b.kind = "GAP"  -> Rs!CountRange(b.bits, 0, nbit) + Before(idx, nr)
         [] b.kind = "FULL" -> nbit + 1 + Before(idx, nr)
         [] OTHER -> Rs!BlockCountTo(b.bits, nbit, e, e.count) + Before(idx, nr)

\* bvector::count_range(left, right, rs_idx): test(left) for one position,
\* else count_to(right) - count_to(left - 1).
CountRangeRs(tr, in, left, right, idx) ==
    CASE left = right -> IF GetBit(tr, left) THEN 1 ELSE 0
      [] left = 0     -> CountTo(tr, in, right, idx)
      [] OTHER        -> CountTo(tr, in, right, idx) - CountTo(tr, in, left - 1, idx)

\* bvector::select(rank, pos, rs_idx): the block and sub-range from the
\* index, then block_find_rank inside the block from that sub-range.
Select(tr, in, rank, idx) ==
    LET nb == RsFindBlock(idx, rank)
        sr == SelectSubRange(idx.blk[nb], rank - Before(idx, nb))
    IN IF rank = 0 \/ ~in \/ IdxCount(idx) < rank THEN None
       ELSE nb * B + BlockFindRank(GetBlock(tr, nb).bits, sr.rank, sr.from).pos

\* bvector::find_rank(rank, from, pos, rs_idx): from the block of from, or
\* for from = 0 from the index's block; a block scanned from bit 0 is
\* skipped by its count or searched from its sub-range.
FindRankRs(tr, in, rank, from, idx) ==
    LET nb0 == IF from # 0 THEN from \div B ELSE RsFindBlock(idx, rank)
        r0  == IF from = 0 THEN rank - Before(idx, nb0) ELSE rank
        step(acc, nb) ==
          LET b  == GetBlock(tr, nb)
              e  == idx.blk[nb]
              sr == SelectSubRange(e, acc.rank)
              r  == BlockFindRank(b.bits, acc.rank, acc.nbit)
          IN CASE acc.pos # None                     -> acc
               [] b.kind = "NULL"                    -> [acc EXCEPT !.nbit = 0]
               [] acc.nbit = 0 /\ acc.rank <= e.count ->
                     [acc EXCEPT !.pos = nb * B +
                                 BlockFindRank(b.bits, sr.rank, sr.from).pos]
               [] acc.nbit = 0                       -> [acc EXCEPT !.rank = @ - e.count]
               [] r.rank = 0                         -> [acc EXCEPT !.pos = nb * B + r.pos]
               [] OTHER -> [rank |-> r.rank, nbit |-> 0, pos |-> None]
    IN IF rank = 0 \/ ~in \/ IdxCount(idx) < rank THEN None
       ELSE FoldLeft(step, [rank |-> r0, nbit |-> from % B, pos |-> None],
                     [k \in 1 .. idx.total - nb0 |-> nb0 + k - 1]).pos

-----------------------------------------------------------------------------
(* The calls that write: one action each.                                   *)

\* Mutant: the pos >= prev guard dropped: a failed search (0) clears bit 0.
CheckOrNextExtractNoGuard(prev) ==
    LET pos == CheckOrNext(tree, init, prev) IN
    /\ tree' = IF init THEN SetBitNoCheck(tree, pos, FALSE, strat).tr ELSE tree
    /\ UNCHANGED <<size, init, strat>>

\* bvector::check_or_next_extract(prev): check_or_next, then
\* clear_bit_no_check(pos) when pos >= prev.
CheckOrNextExtract(prev) ==
    LET pos == CheckOrNext(tree, init, prev) IN
    /\ tree' = IF init /\ pos >= prev
               THEN SetBitNoCheck(tree, pos, FALSE, strat).tr ELSE tree
    /\ UNCHANGED <<size, init, strat>>

\* Mutant: resize(last) instead of resize(last + 1).
SyncSizeShort ==
    LET last == FindReverse(tree) IN
    IF size < IdMax /\ last # None /\ last >= size
    THEN ResizeOp(last) ELSE UNCHANGED vars

\* bvector::sync_size(): resize(last + 1) when find_reverse finds a bit at
\* or beyond size_, nothing when size_ is id_max already.
SyncSize ==
    LET last == FindReverse(tree) IN
    IF size < IdMax /\ last # None /\ last >= size
    THEN ResizeOp(last + 1) ELSE UNCHANGED vars

\* The writes that shape the tree: set_bit with either block strategy,
\* flip(n) beyond size() included, set_range, resize, invert, reset.
ShapeQuery ==
    \/ \E n \in Args, v \in BOOLEAN : SetBit(n, v)
    \/ \E n \in Args : IncOp(n)
    \/ \E l, r \in Args, v \in BOOLEAN : SetRange(l, r, v)
    \/ \E ns \in Sizes : ResizeOp(ns)
    \/ InvertOp
    \/ Reset
    \/ \E st \in Strats : SetNewBlocksStrat(st)

\* The shaping writes and the two searching writes.
NextQuery ==
    \/ ShapeQuery
    \/ \E prev \in Args : CheckOrNextExtract(prev)
    \/ SyncSize

SpecQuery == Init /\ [][NextQuery]_vars

-----------------------------------------------------------------------------
(* Properties: each query against the set of positions it reads.           *)

\* The k-th smallest element of a set of positions, None beyond its size.
Kth(X, k) ==
    IF k > Cardinality(X) THEN None
    ELSE CHOOSE p \in X : Cardinality({q \in X : q <= p}) = k
From(p) == {q \in Bits : q >= p}

\* Every search lands on the right bit whatever mix of NULL, FULL, GAP
\* and bit-blocks and FULL sub-arrays lies between: find, find_reverse,
\* find_range, find(from), check_or_next (which carries its slot index
\* across sub-arrays) and the unindexed find_rank, for every start and
\* rank up to one past the last bit.
SearchExact ==
    /\ FindFirst(tree) = Kth(Bits, 1)
    /\ FindReverse(tree) = IF Bits = {} THEN None ELSE Max(Bits)
    /\ FindRange(tree) = <<Kth(Bits, 1), FindReverse(tree)>>
    /\ \A p \in Pos :
          /\ FindFrom(tree, init, p) = Kth(From(p), 1)
          /\ CheckOrNext(tree, init, p) = IF From(p) = {} THEN 0 ELSE Min(From(p))
          /\ \A k \in 1 .. Cardinality(From(p)) + 1 :
                FindRank(tree, init, k, p) = Kth(From(p), k)

\* The count consistency of the specification (section 8): count(),
\* any(), count_range(l, r), and, over an index built from the current
\* tree, count_to(r), count_to_test(r) and count_range(l, r, rs_idx) all
\* equal a direct count of the positions read as 1.
CountExact ==
    LET idx == BuildRsIndex(tree, init) IN
    /\ Count(tree, init) = Cardinality(Bits)
    /\ AnyBit(tree) = (Bits # {})
    /\ \A r \in Pos :
          /\ CountTo(tree, init, r, idx) = Cardinality({q \in Bits : q <= r})
          /\ CountToTest(tree, init, r, idx) =
                IF r \in Bits THEN Cardinality({q \in Bits : q <= r}) ELSE 0
          /\ \A l \in Pos : l <= r =>
                LET n == Cardinality({q \in Bits : l <= q /\ q <= r}) IN
                /\ CountRange(tree, init, l, r) = n
                /\ CountRangeRs(tree, init, l, r, idx) = n

\* Rank and select through the index invert each other (section 8):
\* select(count_to(i)) = i for every 1 bit i, select(k) is the k-th bit,
\* and the indexed find_rank(k, from) is the k-th bit at or after from.
RankSelectExact ==
    LET idx == BuildRsIndex(tree, init) IN
    /\ \A i \in Bits : Select(tree, init, CountTo(tree, init, i, idx), idx) = i
    /\ \A k \in 1 .. Cardinality(Bits) + 1 : Select(tree, init, k, idx) = Kth(Bits, k)
    /\ \A p \in Pos : \A k \in 1 .. Cardinality(From(p)) + 1 :
          FindRankRs(tree, init, k, p, idx) = Kth(From(p), k)

\* check_or_next_extract(prev) returns the first 1 bit at or after prev
\* and clears exactly that bit, prev itself included; when there is none
\* it returns 0 and clears nothing, though bit 0 may be 1.
ExtractStep(prev) ==
    CheckOrNextExtract(prev) =>
       IF From(prev) = {}
       THEN CheckOrNext(tree, init, prev) = 0 /\ Bits' = Bits
       ELSE /\ CheckOrNext(tree, init, prev) = Min(From(prev))
            /\ Bits' = Bits \ {Min(From(prev))}
ExtractExact == [][\A prev \in Args : ExtractStep(prev)]_vars

\* After sync_size() no 1 bit lies at or beyond size(), whatever flip(n)
\* set past it before.
SyncStep == SyncSize => \A p \in Bits' : p < size'
SyncSizeCovers == [][SyncStep]_vars

=============================================================================
