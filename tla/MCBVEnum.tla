------------------------------ MODULE MCBVEnum ------------------------------
(***************************************************************************)
(* BVEnum for TLC, over the tree and the writes of MCBVQuery.              *)
(***************************************************************************)
EXTENDS MCBVQuery, BVEnum

\* skip(0) and skip_to_rank(0), and ranks up to past the last bit a cursor
\* can have after it.
MCRanks == 0 .. 2

\* The part of the cursor a later call reads: an invalid enumerator is
\* rewritten by go_first or go_to before anything reads it (bit_count_
\* included), and of bdescr_ only the half of block_type_ is read.
LiveEn(e) ==
    CASE ~Valid(e)    -> [pos |-> e.pos, counted |-> e.counted]
      [] e.btype = 0  -> [pos |-> e.pos, bidx |-> e.bidx, btype |-> 0,
                          ptr |-> e.ptr, bits |-> e.bits, idx |-> e.idx,
                          bpos |-> e.bpos, counted |-> e.counted, cnt |-> e.cnt]
      [] OTHER        -> [pos |-> e.pos, bidx |-> e.bidx, btype |-> 1,
                          gptr |-> e.gptr, glen |-> e.glen,
                          counted |-> e.counted, cnt |-> e.cnt]
\* call is a history variable that no action reads.
EnumView == <<vars, LiveEn(en)>>

\* The queries of BVQuery read only the vector, and every vector the
\* writes reach is reached with the enumerator unpositioned (a write needs
\* one and leaves it so); they are checked in those states.
AtRest == en = EnNone

\* With no enumerator positioned, find, find_reverse, find_range,
\* find(from), check_or_next and the unindexed find_rank land on the right
\* bit for every start and rank.
SearchAtRest == AtRest => SearchExact

\* With no enumerator positioned, count, count_range and count_to, with
\* and without the rank-select index, equal the direct counts.
CountAtRest == AtRest => CountExact

\* With no enumerator positioned, select and find_rank through the index
\* invert count_to and return the k-th 1 bit.
RankSelectAtRest == AtRest => RankSelectExact

\* check_or_next_extract(prev) clears exactly the first 1 bit at or after
\* prev and returns it, 0 and nothing cleared when there is none.
ExtractAtRest ==
    [][\A prev \in Args : call' = <<"write", "extract", prev>> => ExtractStep(prev)]_allvars

\* After sync_size() no 1 bit lies at or beyond size(), whatever flip(n)
\* set past it before.
SyncSizeAtRest == [][call' = <<"write", "sync">> => SyncStep]_allvars

\* One 1 bit in each wave of an eight-bit block of two four-word waves,
\* the second in the half of its wave past the first 64-bit stride.
MCWaveArgs == {0, 6}

=============================================================================
