------------------------------ MODULE RsBlock ------------------------------
(***************************************************************************)
(* The in-block part of the rank-select index: the two sub-range counts    *)
(* build_rs_index stores per block, and bvector::block_count_to, which     *)
(* uses them to count the bits of a bit-block up to a position by adding   *)
(* or subtracting the bits of at most one partial sub-range.               *)
(*                                                                          *)
(* A block is the set of its offsets that are 1.  The borders split a      *)
(* block into [0, Border0], [Border0+1, Border1], [Border1+1, BlockBits-1] *)
(* (bm::rs3_border0, bm::rs3_border1); HalfSpan is bm::rs3_half_span.      *)
(***************************************************************************)
EXTENDS Integers, FiniteSets

CONSTANTS BlockBits, Border0, Border1, HalfSpan

ASSUME 0 <= Border0 /\ Border0 < Border1 /\ Border1 < BlockBits
ASSUME HalfSpan >= 0

Offs == 0 .. BlockBits - 1

\* bit_block_calc_count_range / gap_bit_count_range: the 1 bits in [l, r].
CountRange(bs, l, r) == Cardinality({o \in bs : l <= o /\ o <= r})

\* The sub-counts build_rs_index records for a non-NULL block
\* (bm.h:2632-2655): first = bits in [0, border0], second = bits in
\* [border0+1, border1].
SubCounts(bs) ==
    [first  |-> CountRange(bs, 0, Border0),
     second |-> CountRange(bs, Border0 + 1, Border1)]

\* rs_index::find_sub_range(nbit): the sub-range holding nbit.
FindSubRange(nbit) ==
    IF nbit <= Border0 THEN 0 ELSE IF nbit <= Border1 THEN 1 ELSE 2

\* Mutant: the partial count below border0 starts at nbit, not nbit+1.
BlockCountToOffByOne(bs, nbit, sc, bc) ==
    LET first == sc.first
        second == sc.second
    IN CASE FindSubRange(nbit) = 0 ->
              IF nbit <= Border0 \div 2 THEN CountRange(bs, 0, nbit)
              ELSE IF nbit = Border0 THEN first
              ELSE first - CountRange(bs, nbit, Border0)
         [] FindSubRange(nbit) = 1 ->
              IF nbit <= Border0 + HalfSpan
              THEN CountRange(bs, Border0 + 1, nbit) + first
              ELSE IF nbit = Border1 THEN first + second
              ELSE first + second - CountRange(bs, nbit + 1, Border1)
         [] OTHER ->
              IF nbit <= Border1 + HalfSpan
              THEN CountRange(bs, Border1 + 1, nbit) + first + second
              ELSE IF nbit = BlockBits - 1 THEN bc
              ELSE bc - CountRange(bs, nbit + 1, BlockBits - 1)

\* bvector::block_count_to(block, nb, nbit_right, rs_idx): sc is the
\* block's sub-counts, bc its count, both read from the index.  Inside
\* each sub-range the count is taken from whichever border is nearer.
BlockCountTo(bs, nbit, sc, bc) ==
    LET first == sc.first
        second == sc.second
    IN CASE FindSubRange(nbit) = 0 ->
              IF nbit <= Border0 \div 2 THEN CountRange(bs, 0, nbit)
              ELSE IF nbit = Border0 THEN first
              ELSE first - CountRange(bs, nbit + 1, Border0)
         [] FindSubRange(nbit) = 1 ->
              IF nbit <= Border0 + HalfSpan
              THEN CountRange(bs, Border0 + 1, nbit) + first
              ELSE IF nbit = Border1 THEN first + second
              ELSE first + second - CountRange(bs, nbit + 1, Border1)
         [] OTHER ->
              IF nbit <= Border1 + HalfSpan
              THEN CountRange(bs, Border1 + 1, nbit) + first + second
              ELSE IF nbit = BlockBits - 1 THEN bc
              ELSE bc - CountRange(bs, nbit + 1, BlockBits - 1)

\* For every block and every position in it, block_count_to with the
\* index's sub-counts equals the direct count of [0, nbit] that its
\* closing BM_ASSERT (bm.h:2793) compares it with: each of the seven
\* branches picks the right border and the right sign.
BlockCountToExact ==
    \A bs \in SUBSET Offs, nbit \in Offs :
        BlockCountTo(bs, nbit, SubCounts(bs), Cardinality(bs))
            = CountRange(bs, 0, nbit)

=============================================================================
