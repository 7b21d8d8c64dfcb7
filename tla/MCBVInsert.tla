---------------------------- MODULE MCBVInsert -----------------------------
(***************************************************************************)
(* BVInsert for TLC: the facade of MCBVector and the iterators.  An        *)
(* iterator is used on its own from its construction to its end, as in    *)
(* std::copy(first, last, bv.inserter()); the facade's calls run while no *)
(* iterator is alive.                                                       *)
(***************************************************************************)
EXTENDS MCBVector, BVInsert

\* Iterator writes: one position in each block.
MCIterArgs == {1, 2, 4}

\* Id arrays: sorted within one block, sorted across two blocks, one that
\* holds id_max, and an unsorted one that returns to its first block.
MCIdLists == {<<>>, <<2, 3>>, <<1, 2>>, <<4, 5>>, <<3, 0, 2>>}

NoIter == ii = None /\ ~bulk.on

\* The inserter goes out of scope; its destructor does nothing.
IIDrop == ii # None /\ ii' = None /\ UNCHANGED <<tree, size, init, strat, bulk>>

InitInsert == Init /\ ii = None /\ bulk = NoBulk

\* A call of the facade (writes, set_bit_and, insert, erase).
FacadeStep == NoIter /\ (NextBits \/ NextAnd \/ NextShift) /\ UNCHANGED <<ii, bulk>>

\* set(ids), the iterators' constructors, and the steps of a live iterator.
IterStep ==
    \/ NoIter /\ \E ids \in IdLists, so \in Hints : SetIds(ids, so)
    \/ NoIter /\ IINew
    \/ NoIter /\ \E so \in Hints : BulkNew(so)
    \/ \E n \in IterArgs : IIWrite(n) \/ BulkWrite(n)
    \/ \E off \in BOOLEAN : BulkFlush(off)
    \/ IIDrop

SpecShiftIter == InitInsert /\ [][FacadeStep \/ IterStep]_allvars
=============================================================================
