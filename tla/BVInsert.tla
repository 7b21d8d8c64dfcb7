----------------------------- MODULE BVInsert -----------------------------
(***************************************************************************)
(* The output iterators of bm::bvector and the bulk import they feed:      *)
(* insert_iterator (bv.inserter()), bulk_insert_iterator with its buffer,  *)
(* and set(ids, size, so), whose import and import_block are operators     *)
(* of BVTree.  They act on the facade of BVector.                          *)
(***************************************************************************)
EXTENDS BVQuery

LOCAL INSTANCE SequencesExt

CONSTANTS
    BufCap,     \* ids the bulk buffer holds (bm::set_block_size)
    IterArgs,   \* positions written through the iterators
    IdLists     \* id arrays passed to set(ids, ids_size, so)

VARIABLES
    ii,     \* insert_iterator::max_bit_, None when no inserter exists
    bulk    \* bulk_insert_iterator: alive, buf_[0 .. buf_size_-1], sorted_

allvars == <<tree, size, init, strat, ii, bulk>>

NoBulk == [on |-> FALSE, buf |-> <<>>, so |-> "UNKNOWN"]

\* The positions an id array names; id_max is not one of them.
Ids(s) == ToSet(s) \cap Pos

-----------------------------------------------------------------------------
(* set(ids).                                                               *)

\* sync_size() over the tree tr: grow size_ to cover the last 1 bit.
Synced(tr, sz, in) ==
    IF sz < IdMax /\ FindReverse(tr) # None /\ FindReverse(tr) >= sz
    THEN Resize(tr, sz, in, FindReverse(tr) + 1)
    ELSE [tr |-> tr, size |-> sz, init |-> in]

\* bvector::set(ids, ids_size, so): init_tree, import, sync_size.
SetIds(ids, so) ==
    /\ so = "SORTED" => IsSorted(ids, <=)
    /\ IF ids = <<>>
       THEN UNCHANGED allvars
       ELSE LET r == Synced(Import(tree, ids, so), size, TRUE) IN
            /\ tree' = r.tr
            /\ size' = r.size
            /\ init' = r.init
            /\ UNCHANGED <<strat, ii, bulk>>

-----------------------------------------------------------------------------
(* insert_iterator.                                                         *)

\* bv.inserter(): insert_iterator(bvect) caches max_bit_ = size() and
\* calls init(); assigning it replaces the previous inserter.
IINew ==
    /\ ii' = size
    /\ init' = TRUE
    /\ UNCHANGED <<tree, size, strat, bulk>>

\* Mutant: the vector is never resized, only max_bit_ moves.
IIWriteNoResize(n) ==
    /\ ii # None
    /\ ii' = IF n >= ii THEN n ELSE ii
    /\ tree' = SetBitNoCheck(tree, n, TRUE, strat).tr
    /\ init' = TRUE
    /\ UNCHANGED <<size, strat, bulk>>

\* insert_iterator::operator=(n): when n >= max_bit_, max_bit_ = n and the
\* vector is resized to cover n if size() does not; then
\* set_bit_no_check(n).  Allocating a block in a released tree (after
\* reset()) reserves the top array again, so the tree is initialised.
IIWrite(n) ==
    LET grow == n >= ii /\ n >= size
        r    == IF grow
                THEN Resize(tree, size, init, IF n = IdMax THEN IdMax ELSE n + 1)
                ELSE [tr |-> tree, size |-> size, init |-> init]
    IN /\ ii # None
       /\ ii' = IF n >= ii THEN n ELSE ii
       /\ tree' = SetBitNoCheck(r.tr, n, TRUE, strat).tr
       /\ size' = r.size
       /\ init' = TRUE
       /\ UNCHANGED <<strat, bulk>>

-----------------------------------------------------------------------------
(* bulk_insert_iterator.                                                    *)

\* bulk_insert_iterator(bvect, so): init(), an empty buffer.
BulkNew(so) ==
    /\ ~bulk.on
    /\ bulk' = [on |-> TRUE, buf |-> <<>>, so |-> so]
    /\ init' = TRUE
    /\ UNCHANGED <<tree, size, strat, ii>>

\* bulk_insert_iterator::operator=(n): a full buffer is imported, without
\* sync_size, before n is stored.  Under BM_SORTED the caller writes each
\* buffer in ascending order.
BulkWrite(n) ==
    /\ bulk.on
    /\ bulk.so = "SORTED" /\ bulk.buf # <<>> => Last(bulk.buf) <= n
    /\ IF Len(bulk.buf) = BufCap
       THEN /\ tree' = Import(tree, bulk.buf, bulk.so)
            /\ init' = TRUE
            /\ bulk' = [bulk EXCEPT !.buf = <<n>>]
       ELSE /\ bulk' = [bulk EXCEPT !.buf = Append(@, n)]
            /\ UNCHANGED <<tree, init>>
    /\ UNCHANGED <<size, strat, ii>>

\* The tree after flush() imports the buffer, when there is one.
Flushed(tr, b) == IF b.buf = <<>> THEN tr ELSE Import(tr, b.buf, b.so)

\* flush(): import the buffer, empty it, sync_size(); with off, the
\* destructor, which flushes and frees buf_.
BulkFlush(off) ==
    LET r == Synced(Flushed(tree, bulk), size, init \/ bulk.buf # <<>>) IN
    /\ bulk.on
    /\ tree' = r.tr
    /\ size' = r.size
    /\ init' = r.init
    /\ bulk' = IF off THEN NoBulk ELSE [bulk EXCEPT !.buf = <<>>]
    /\ UNCHANGED <<strat, ii>>

NextInsert ==
    \/ \E ids \in IdLists, so \in Hints : SetIds(ids, so)
    \/ IINew
    \/ \E n \in IterArgs : IIWrite(n)
    \/ \E so \in Hints : BulkNew(so)
    \/ \E n \in IterArgs : BulkWrite(n)
    \/ \E off \in BOOLEAN : BulkFlush(off)

-----------------------------------------------------------------------------
(* Properties.                                                               *)

TypeOKInsert ==
    /\ TypeOK
    /\ ii \in {None} \cup 0 .. IdMax
    /\ bulk.on \in BOOLEAN
    /\ bulk.so \in Hints
    /\ Len(bulk.buf) \in 0 .. BufCap
    /\ \A k \in 1 .. Len(bulk.buf) : bulk.buf[k] \in Pos
    /\ ~bulk.on => bulk = NoBulk

\* Every import puts exactly the ids it is given into the vector.
\* set(ids) and flush() (the destructor included) leave the buffered or
\* passed ids set, nothing else changed, and no 1 bit at or past size(),
\* through import's sorted shortcut, its per-block runs and sync_size; a
\* bulk write that imports a full buffer loses and adds nothing of what the
\* vector and the buffer hold together.
ImportExact ==
    [][/\ \A ids \in IdLists, so \in Hints :
             SetIds(ids, so) =>
                /\ Bits' = Bits \cup Ids(ids)
                /\ ids # <<>> => \A p \in Bits' : p < size'
       /\ \A n \in IterArgs :
             BulkWrite(n) =>
                Bits' \cup Ids(bulk'.buf) = Bits \cup Ids(bulk.buf) \cup {n}
       /\ \A off \in BOOLEAN :
             BulkFlush(off) =>
                /\ Bits' = Bits \cup Ids(bulk.buf)
                /\ \A p \in Bits' : p < size'
      ]_allvars

\* insert_iterator keeps its promise that the vector grows with it: after
\* *it = n bit n is set and lies below size(), although operator= resizes
\* only when n reaches the cached max_bit_.
InserterGrows ==
    [][\A n \in IterArgs : IIWrite(n) => n \in Bits' /\ n < size']_allvars

=============================================================================
