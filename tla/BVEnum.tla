------------------------------ MODULE BVEnum -------------------------------
(***************************************************************************)
(* bvector::enumerator (bm.h) over the block tree of BVQuery: a cursor    *)
(* en with the fields of iterator_base, and one action per call (the      *)
(* constructor, go_first, go_up, skip, skip_to_rank, go_to).              *)
(*                                                                          *)
(* A bit-block is read one wave at a time: WaveWords words                 *)
(* (set_bitscan_wave_size) of WordBits bits each, decoded by bitscan_wave  *)
(* into the sorted offsets of its 1 bits.  A GAP block is read through its *)
(* run ends (gptr[1..], the last one B-1) and the length left of the      *)
(* current run of 1s.  size_type arithmetic wraps at NBits and gap_word_t *)
(* arithmetic at B, as 2^32 and 2^16 do in the code.                      *)
(*                                                                          *)
(* The vector is written only while the enumerator is unpositioned: a     *)
(* mutation invalidates enumerators, and reading through a stale one is   *)
(* undefined.                                                               *)
(***************************************************************************)
EXTENDS BVQuery

LOCAL INSTANCE SequencesExt

CONSTANTS
    WordBits,   \* bits per word (32)
    WaveWords,  \* bm::set_bitscan_wave_size
    Ranks       \* arguments of skip and skip_to_rank

ASSUME WaveWords >= 2 /\ B % (WordBits * WaveWords) = 0

VARIABLES
    en,     \* the enumerator
    call    \* the call just made and its argument (history, for AbsEnumerator)

allvars == <<tree, size, init, strat, en, call>>

WaveBits    == WaveWords * WordBits   \* set_bitscan_wave_size * 32
BlockWords  == B \div WordBits        \* bm::set_block_size
StrideWords == 2                      \* the words of one bm::id64_t

PosAdd(p, d) == (p + d) % NBits       \* size_type position_
GapWord(x)   == x % B                 \* gap_word_t

\* position_, block_idx_, block_type_ (0 bit, 1 GAP), and bdescr_:
\* bit_.ptr (word offset in the block), bit_.bits[0 .. cnt-1], bit_.idx,
\* bit_.pos; gap_.ptr (index of a run end) and gap_.gap_len; for a
\* counted_enumerator also bit_count_ (cnt).
EnT == [pos : 0 .. IdMax, bidx : 0 .. NBlocks + S, btype : {0, 1},
        ptr : 0 .. BlockWords, bits : Seq(0 .. WaveBits - 1),
        idx : 0 .. WaveBits, bpos : 0 .. IdMax, gptr : 0 .. B,
        glen : 0 .. B - 1, counted : BOOLEAN, cnt : 0 .. NBits]

\* iterator_base(): position_ = id_max; the rest is written before it is
\* read.
EnNone == [pos |-> IdMax, bidx |-> 0, btype |-> 0, ptr |-> 0, bits |-> <<>>,
           idx |-> 0, bpos |-> 0, gptr |-> 0, glen |-> 0, counted |-> FALSE,
           cnt |-> 0]

Valid(e) == e.pos # IdMax
Invalidate(e) == [e EXCEPT !.pos = IdMax]

-----------------------------------------------------------------------------
(* Bit-blocks: the wave decoder.                                            *)

\* bitscan_wave(ptr, bits): the offsets, from ptr, of the 1 bits of the
\* wave that starts at word w.
WaveOffs(bs, w) ==
    SetToSortSeq({o - w * WordBits :
                    o \in {x \in bs : w * WordBits <= x
                                      /\ x < w * WordBits + WaveBits}}, <)

\* decode_wave: cnt = bitscan_wave(...); on a hit idx = 0, pos = position_
\* and position_ moves to the first 1 bit.
DecodeWave(e, bs) ==
    LET bl == WaveOffs(bs, e.ptr) IN
    IF bl = <<>> THEN [ok |-> FALSE, en |-> [e EXCEPT !.bits = <<>>]]
    ELSE [ok |-> TRUE,
          en |-> [e EXCEPT !.bits = bl, !.idx = 0, !.bpos = e.pos,
                           !.pos = PosAdd(e.pos, bl[1])]]

\* Past a wave: position_ and ptr move by one wave.
NextWave(e) == [e EXCEPT !.pos = PosAdd(@, WaveBits), !.ptr = @ + WaveWords]

\* decode_bit_group(bdescr): the first wave from ptr with a 1 bit.
RECURSIVE DecodeBitGroup(_, _)
DecodeBitGroup(e, bs) ==
    IF e.ptr >= BlockWords THEN [ok |-> FALSE, en |-> e]
    ELSE LET d == DecodeWave(e, bs) IN
         IF d.ok THEN d ELSE DecodeBitGroup(NextWave(d.en), bs)

\* The 1 bits of the 64-bit stride at the start of the wave at ptr.
StrideCount(e, bs) ==
    Cardinality({x \in bs : e.ptr * WordBits <= x
                            /\ x < (e.ptr + StrideWords) * WordBits})

\* decode_bit_group(bdescr, rank): a wave whose stride holds fewer than
\* rank bits is passed over and its stride count taken off rank.
RECURSIVE DecodeBitGroupRank(_, _, _)
DecodeBitGroupRank(e, bs, rank) ==
    IF e.ptr >= BlockWords THEN [ok |-> FALSE, en |-> e, rank |-> rank]
    ELSE IF rank > StrideCount(e, bs)
    THEN DecodeBitGroupRank(NextWave(e), bs, rank - StrideCount(e, bs))
    ELSE LET d == DecodeWave(e, bs) IN
         IF d.ok THEN [ok |-> TRUE, en |-> d.en, rank |-> rank]
         ELSE DecodeBitGroupRank(NextWave(d.en), bs, rank)

\* search_in_bitblock: decode from the first word of the block.
SearchInBitblock(e, bs) == DecodeBitGroup([e EXCEPT !.ptr = 0], bs)

-----------------------------------------------------------------------------
(* GAP blocks: the run cursor.                                              *)

\* The GAP words after the header: the end offset of every run, B-1 last.
RunEnds(bs) ==
    SetToSortSeq({o \in Offs : o = B - 1 \/ ((o \in bs) # (o + 1 \in bs))}, <)

\* The loop of search_in_gapblock: bitval is the value of the run that
\* ends at gptr; a run of 0s moves position_ past it.
RECURSIVE GapScan(_, _, _)
GapScan(e, bs, bitval) ==
    LET re  == RunEnds(bs)
        val == re[e.gptr]
    IN IF bitval = 1
       THEN [ok |-> TRUE,
             en |-> [e EXCEPT !.glen = IF e.gptr = 1 THEN GapWord(val + 1)
                                        ELSE GapWord(val - re[e.gptr - 1])]]
       ELSE LET e2 == [e EXCEPT !.pos = PosAdd(@, val + 1)] IN
            IF val = B - 1 THEN [ok |-> FALSE, en |-> e2]
            ELSE GapScan([e2 EXCEPT !.gptr = @ + 1], bs, 1)

\* search_in_gapblock: the first run of 1s of the block.
SearchInGapblock(e, bs) ==
    GapScan([e EXCEPT !.gptr = 1], bs, IF 0 \in bs THEN 1 ELSE 0)

-----------------------------------------------------------------------------
(* Walking the tree.                                                        *)

\* One slot of the walk of go_first and search_in_blocks: NULL moves on
\* by a block; a GAP block is searched with block_type_ 1, a bit-block or
\* FULL block (read as FULL_BLOCK_REAL_ADDR) with block_type_ 0.
SearchSlot(e, tr) ==
    LET b == GetBlock(tr, e.bidx) IN
    CASE b.kind = "NULL" -> [ok |-> FALSE, en |-> [e EXCEPT !.pos = PosAdd(@, B)]]
      [] b.kind = "GAP"  -> SearchInGapblock([e EXCEPT !.btype = 1], b.bits)
      [] OTHER           -> SearchInBitblock([e EXCEPT !.btype = 0], b.bits)

\* The i and j loops from block_idx_: a NULL sub-array adds
\* set_sub_array_size to block_idx_ and bits_in_array to position_.
RECURSIVE ScanBlocks(_, _)

\* Mutant: a NULL sub-array is passed over without moving position_.
ScanBlocksNoTopSkip(e, tr) ==
    IF e.bidx >= NBlocks THEN [ok |-> FALSE, en |-> e]
    ELSE IF tr.top[SubOf(e.bidx)] = "NULL"
    THEN ScanBlocks([e EXCEPT !.bidx = @ + S], tr)
    ELSE LET r == SearchSlot(e, tr) IN
         IF r.ok THEN r ELSE ScanBlocks([r.en EXCEPT !.bidx = @ + 1], tr)

ScanBlocks(e, tr) ==
    IF e.bidx >= NBlocks THEN [ok |-> FALSE, en |-> e]
    ELSE IF tr.top[SubOf(e.bidx)] = "NULL"
    THEN ScanBlocks([e EXCEPT !.bidx = @ + S, !.pos = PosAdd(@, S * B)], tr)
    ELSE LET r == SearchSlot(e, tr) IN
         IF r.ok THEN r ELSE ScanBlocks([r.en EXCEPT !.bidx = @ + 1], tr)

\* search_in_blocks: the walk from the block after block_idx_.
SearchInBlocks(e, tr) == ScanBlocks([e EXCEPT !.bidx = @ + 1], tr)

\* go_first(): invalid for an uninitialised vector, else the walk from
\* block 0 and position 0.
GoFirstE(e, tr, in) ==
    IF ~in THEN Invalidate(e)
    ELSE LET r == ScanBlocks([e EXCEPT !.bidx = 0, !.pos = 0], tr) IN
         IF r.ok THEN r.en ELSE Invalidate(r.en)

\* The bit-block case of go_up: the next offset of the decoded wave, else
\* position_ to the end of the wave and the next waves decoded.
BitStep(e, bs) ==
    IF e.idx + 1 < Len(e.bits)
    THEN [ok |-> TRUE, en |-> [e EXCEPT !.idx = @ + 1,
                                        !.pos = e.bpos + e.bits[e.idx + 2]]]
    ELSE DecodeBitGroup([e EXCEPT !.idx = @ + 1,
                                  !.pos = PosAdd(@, WaveBits - e.bits[e.idx + 1]),
                                  !.ptr = @ + WaveWords], bs)

\* Mutant: --gap_len without the gap_word_t wrap.
GapStepNoWrap(e, bs) ==
    LET re == RunEnds(bs)
        e1 == [e EXCEPT !.pos = PosAdd(@, 1), !.glen = @ - 1]
        prev == re[e.gptr]
        val  == re[e.gptr + 1]
        e2 == [e1 EXCEPT !.pos = PosAdd(@, val - prev), !.gptr = @ + 1]
    IN CASE e1.glen # 0  -> [ok |-> TRUE, en |-> e1]
         [] prev = B - 1 -> [ok |-> FALSE, en |-> e1]
         [] val = B - 1  -> [ok |-> FALSE, en |-> e2]
         [] OTHER -> [ok |-> TRUE,
                      en |-> [e2 EXCEPT !.gptr = @ + 1,
                                        !.glen = GapWord(re[e.gptr + 2] - val)]]

\* The GAP case of go_up: one more bit of the run, else over the next run
\* of 0s to the following run of 1s; FALSE at the block's last run end.
GapStep(e, bs) ==
    LET re == RunEnds(bs)
        e1 == [e EXCEPT !.pos = PosAdd(@, 1), !.glen = GapWord(@ - 1)]
        prev == re[e.gptr]
        val  == re[e.gptr + 1]
        e2 == [e1 EXCEPT !.pos = PosAdd(@, val - prev), !.gptr = @ + 1]
    IN CASE e1.glen # 0  -> [ok |-> TRUE, en |-> e1]
         [] prev = B - 1 -> [ok |-> FALSE, en |-> e1]
         [] val = B - 1  -> [ok |-> FALSE, en |-> e2]
         [] OTHER -> [ok |-> TRUE,
                      en |-> [e2 EXCEPT !.gptr = @ + 1,
                                        !.glen = GapWord(re[e.gptr + 2] - val)]]

\* go_up(): a step in the current block, else search_in_blocks, else
\* invalidate().
GoUpE(e, tr) ==
    LET bs == GetBlock(tr, e.bidx).bits
        r  == IF e.btype = 0 THEN BitStep(e, bs) ELSE GapStep(e, bs)
    IN IF r.ok THEN r.en
       ELSE LET s == SearchInBlocks(r.en, tr) IN
            IF s.ok THEN s.en ELSE Invalidate(s.en)

\* The bit-block loop of skip: each step of rank is one offset of the
\* wave, or a wave found by decode_bit_group(bdescr, rank); it stops at
\* the end of the block with the rank still to go.
RECURSIVE SkipBit(_, _, _)
SkipBit(e, bs, rank) ==
    IF rank = 0 THEN [en |-> e, rank |-> 0]
    ELSE IF e.idx + 1 < Len(e.bits)
    THEN SkipBit([e EXCEPT !.idx = @ + 1, !.pos = e.bpos + e.bits[e.idx + 2]],
                 bs, rank - 1)
    ELSE LET d == DecodeBitGroupRank(
                     [e EXCEPT !.idx = @ + 1,
                               !.pos = PosAdd(@, WaveBits - e.bits[e.idx + 1]),
                               !.ptr = @ + WaveWords], bs, rank)
         IN IF d.ok THEN SkipBit(d.en, bs, d.rank - 1)
            ELSE [en |-> d.en, rank |-> d.rank]

\* The GAP loop of skip: one step of the go_up GAP case per rank.
RECURSIVE SkipGap(_, _, _)
SkipGap(e, bs, rank) ==
    IF rank = 0 THEN [en |-> e, rank |-> 0]
    ELSE LET r == GapStep(e, bs) IN
         IF r.ok THEN SkipGap(r.en, bs, rank - 1) ELSE [en |-> r.en, rank |-> rank]

\* The outer loop of skip: the block loop, then search_in_blocks, whose
\* hit is one more step of rank.
RECURSIVE SkipLoop(_, _, _)
SkipLoop(e, tr, rank) ==
    LET bs == GetBlock(tr, e.bidx).bits
        r  == IF e.btype = 0 THEN SkipBit(e, bs, rank) ELSE SkipGap(e, bs, rank)
        s  == SearchInBlocks(r.en, tr)
    IN CASE r.rank = 0     -> r.en
         [] ~s.ok          -> Invalidate(s.en)
         [] r.rank - 1 = 0 -> s.en
         [] OTHER          -> SkipLoop(s.en, tr, r.rank - 1)

\* skip(rank): nothing for an invalid enumerator or rank 0.
SkipE(e, tr, rank) == IF ~Valid(e) \/ rank = 0 THEN e ELSE SkipLoop(e, tr, rank)

\* skip_to_rank(rank): skip(rank - 1) in size_type; rank 0 wraps.
SkipToRankE(e, tr, rank) ==
    LET r == (rank - 1) % NBits IN IF r = 0 THEN e ELSE SkipE(e, tr, r)

\* Mutant: gap_len counted without the +1 for nbit itself.
GoToGapShort(e, bs, nb, np, nbit) ==
    LET s  == SearchInGapblock([e EXCEPT !.pos = nb * B], bs).en
        re == RunEnds(bs)
        g  == Min({k \in DOMAIN re : re[k] >= nbit})
    IN IF s.pos = np THEN s
       ELSE [s EXCEPT !.pos = np, !.gptr = g,
                !.glen = IF g = 1 THEN GapWord(re[1] - nbit)
                         ELSE GapWord(GapWord(re[g] - re[g - 1])
                                      - GapWord(nbit - re[g - 1]))]

\* go_to on a GAP block: search_in_gapblock from the block's start; when
\* that is not pos, gap_bfind gives the run of pos and gap_len the bits
\* left in it from nbit.
GoToGap(e, bs, nb, np, nbit) ==
    LET s  == SearchInGapblock([e EXCEPT !.pos = nb * B], bs).en
        re == RunEnds(bs)
        g  == Min({k \in DOMAIN re : re[k] >= nbit})
    IN IF s.pos = np THEN s
       ELSE [s EXCEPT !.pos = np, !.gptr = g,
                !.glen = IF g = 1 THEN GapWord(re[1] - (nbit - 1))
                         ELSE GapWord(GapWord(re[g] - re[g - 1])
                                      - GapWord(nbit - re[g - 1]) + 1)]

\* go_to on a bit-block: search_in_bitblock for nbit 0, else the wave
\* holding nbit decoded (stepping back by the word's parity) and idx set
\* to nbit's place in it.
GoToBit(e, bs, nb, nbit) ==
    LET nword  == nbit \div WordBits
        parity == nword % WaveWords
        w      == nword - parity
        bl     == WaveOffs(bs, w)
        target == (nbit % WordBits) + WordBits * parity
    IN IF nbit = 0 THEN SearchInBitblock(e, bs).en
       ELSE [e EXCEPT !.ptr = w, !.bits = bl, !.bpos = nb * B + w * WordBits,
                      !.idx = CHOOSE k \in 0 .. Len(bl) - 1 : bl[k + 1] = target]

\* go_to(pos): go_first for 0; else check_or_next(pos), invalid for 0,
\* and the cursor set up on the block of the position found.
GoToE(e, tr, in, p) ==
    LET np == CheckOrNext(tr, in, p)
        nb == np \div B
        b  == GetBlock(tr, nb)
        e1 == [e EXCEPT !.pos = np, !.bidx = nb,
                        !.btype = IF b.kind = "GAP" THEN 1 ELSE 0]
    IN CASE p = 0             -> GoFirstE(e, tr, in)
         [] np = 0            -> Invalidate(e)
         [] b.kind = "GAP"    -> GoToGap(e1, b.bits, nb, np, np % B)
         [] OTHER             -> GoToBit(e1, b.bits, nb, np % B)

-----------------------------------------------------------------------------
(* The calls: one action each.  The vector's writes need an unpositioned  *)
(* enumerator.                                                               *)

\* enumerator(bv): an unpositioned enumerator.
NewEnumerator == en' = EnNone /\ call' = <<"create">> /\ UNCHANGED vars

GoFirst ==
    ~en.counted /\ en' = GoFirstE(en, tree, init) /\ call' = <<"first">> /\ UNCHANGED vars

\* go_up() / operator++, BM_ASSERT(valid()).
GoUp ==
    ~en.counted /\ Valid(en) /\ en' = GoUpE(en, tree) /\ call' = <<"up">> /\ UNCHANGED vars

Skip(r) ==
    ~en.counted /\ en' = SkipE(en, tree, r) /\ call' = <<"skip", r>> /\ UNCHANGED vars

\* skip_to_rank(r) for r >= 1, the rank of the current bit being 1.
SkipToRank(r) ==
    /\ r >= 1 /\ ~en.counted
    /\ en' = SkipToRankE(en, tree, r) /\ call' = <<"skip", r - 1>>
    /\ UNCHANGED vars

GoTo(p) ==
    ~en.counted /\ en' = GoToE(en, tree, init, p) /\ call' = <<"goto", p>> /\ UNCHANGED vars

CountedFirstNoCount ==
    LET e == GoFirstE(EnNone, tree, init) IN
    /\ en' = [e EXCEPT !.counted = TRUE, !.cnt = 0]
    /\ call' = <<"first">> /\ UNCHANGED vars

\* counted_enumerator ce = bv.first(): a copy of a go_first enumerator;
\* bit_count_ is 1 when it is valid and left uninitialised otherwise.
CountedFirst ==
    LET e == GoFirstE(EnNone, tree, init) IN
    /\ \E c \in IF Valid(e) THEN {1} ELSE 0 .. NBits :
          en' = [e EXCEPT !.counted = TRUE, !.cnt = c]
    /\ call' = <<"first">> /\ UNCHANGED vars

\* ++ce: go_up(), then bit_count_ + 1 if the enumerator is still valid.
CountedUp ==
    /\ en.counted /\ Valid(en)
    /\ LET e == GoUpE(en, tree) IN
       en' = [e EXCEPT !.cnt = IF Valid(e) THEN @ + 1 ELSE @]
    /\ call' = <<"up">> /\ UNCHANGED vars

\* A write of NextQuery (set_bit, flip, set_range, resize, invert, reset,
\* the strategy, check_or_next_extract, sync_size); call names the two
\* searching writes.
Write ==
    /\ en = EnNone
    /\ \/ ShapeQuery /\ call' = <<"write", "shape">>
       \/ \E prev \in Args : CheckOrNextExtract(prev) /\ call' = <<"write", "extract", prev>>
       \/ SyncSize /\ call' = <<"write", "sync">>
    /\ en' = en

NextEnum ==
    \/ Write
    \/ NewEnumerator
    \/ GoFirst
    \/ GoUp
    \/ CountedFirst
    \/ CountedUp
    \/ \E r \in Ranks : Skip(r)
    \/ \E r \in Ranks : SkipToRank(r)
    \/ \E p \in Args : GoTo(p)

InitEnum == Init /\ en = EnNone /\ call = <<"none">>

SpecEnum == InitEnum /\ [][NextEnum]_allvars

-----------------------------------------------------------------------------
(* Properties.                                                              *)

\* The vector is well typed and every field of the enumerator stays in the
\* range of its C type: bit_.idx within the decoded wave, gap_.ptr within
\* the GAP block, gap_len a gap_word_t.
TypeOKEnum == TypeOK /\ en \in EnT

\* The cursor agrees with the block it stands on: a valid enumerator is on
\* a 1 bit of block block_idx_; on a bit-block the decoded wave is the
\* wave at ptr and bits[idx] is the position, on a GAP block gptr is the
\* end of the run holding the position and gap_len the bits left in that
\* run counting the position, in gap_word_t (a run of 2^16 bits has 0).
CursorMatchesBlock ==
    Valid(en) =>
      LET b   == GetBlock(tree, en.bidx)
          off == en.pos % B
          re  == RunEnds(b.bits)
      IN /\ en.pos \in Bits
         /\ en.bidx = en.pos \div B
         /\ en.btype = (IF b.kind = "GAP" THEN 1 ELSE 0)
         /\ en.btype = 0 =>
               /\ en.bits = WaveOffs(b.bits, en.ptr)
               /\ en.bpos = en.bidx * B + en.ptr * WordBits
               /\ en.idx < Len(en.bits)
               /\ en.pos = en.bpos + en.bits[en.idx + 1]
         /\ en.btype = 1 =>
               /\ en.gptr \in DOMAIN re
               /\ re[en.gptr] >= off
               /\ en.gptr = 1 \/ re[en.gptr - 1] < off
               /\ en.glen = GapWord(re[en.gptr] - off + 1)

\* counted_enumerator::count() is what its comment says: the number of 1
\* bits from bit 0 to the current bit, 1 on the first, after bv.first()
\* and any number of ++ over bit-blocks, GAP runs and block searches.
CountedRank ==
    en.counted /\ Valid(en) => en.cnt = Cardinality({q \in Bits : q <= en.pos})

\* The enumerator implements AbsEnumerator: each call lands on the 1 bit
\* the call of the same name and argument names there (go_first: the
\* least; go_up: the next; go_to(p): the least at or after p; skip(r): the
\* r-th after the current one, the wave counts of decode_bit_group(bdescr,
\* rank) included; skip_to_rank(r): skip(r - 1)), or makes the enumerator
\* invalid when there is none, and the vector changes only under an
\* enumerator that is not positioned.
AbsE == INSTANCE AbsEnumerator
          WITH Positions <- Pos, NoPos <- IdMax, bits <- Bits, cur <- en.pos,
               op <- IF call[1] = "write" THEN <<"write">> ELSE call
EnumRefines == AbsE!Spec

=============================================================================
