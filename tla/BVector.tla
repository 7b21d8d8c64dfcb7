------------------------------ MODULE BVector ------------------------------
(***************************************************************************)
(* The bit-vector facade of bm.h (class bm::bvector) as a state machine:  *)
(* one action per public call, over the operators of BVTree.              *)
(***************************************************************************)
EXTENDS BVTree

VARIABLES
    tree,   \* blockman_ : top array and blocks
    size,   \* size_
    init,   \* blockman_.is_init()
    strat   \* new_blocks_strat_

vars == <<tree, size, init, strat>>

\* The positions whose physical bit is 1, id_max included.
Bits == BitsOf(tree)

-----------------------------------------------------------------------------
(* The public operations: one action per call of the facade.  The value a  *)
(* call returns is an operator of its arguments and the state before it.  *)

CONSTANTS
    InitSizes,  \* sizes a vector is constructed with (bv_size)
    Sizes,      \* arguments of resize
    Args,       \* bit positions passed to single-bit calls and ranges
    ShiftArgs   \* positions passed to insert and erase

Init ==
    /\ tree = EmptyTree
    /\ init = FALSE
    /\ size \in InitSizes
    /\ strat \in Strats

\* bvector::set_bit(n, val); also set(n, val), clear_bit(n) and writes
\* through reference::operator=.
SetBit(n, val) ==
    LET r == SetBitNoCheck(tree, n, val, strat) IN
    /\ tree' = r.tr
    /\ size' = IF n >= size THEN n + 1 ELSE size
    /\ init' = TRUE
    /\ UNCHANGED strat

\* bvector::set_bit_and(n, val), used by reference::operator&=; n < size_
\* is its precondition.
SetBitAnd(n, val) ==
    LET r == AndBitNoCheck(tree, n, val, strat) IN
    /\ n < size
    /\ tree' = r.tr
    /\ init' = TRUE
    /\ UNCHANGED <<size, strat>>

\* bvector::set_bit_conditional(n, val, condition)
SetBitConditional(n, val, condition) ==
    IF val = condition
    THEN UNCHANGED vars
    ELSE LET r == SetBitConditionalImpl(tree, n, val, condition, strat) IN
         /\ tree' = r.tr
         /\ size' = IF n >= size THEN n + 1 ELSE size
         /\ init' = (init \/ n >= size \/ r.tr # tree)
         /\ UNCHANGED strat

\* bvector::inc(n), also flip(n): no size check, no resize.
IncOp(n) ==
    LET r == Inc(tree, n, strat) IN
    /\ tree' = r.tr
    /\ init' = TRUE
    /\ UNCHANGED <<size, strat>>

\* bvector::set_range(left, right, value)
SetRange(left, right, v) ==
    LET r == SetRangeOp(tree, size, init, left, right, v) IN
    /\ left <= right
    /\ tree' = r.tr
    /\ size' = r.size
    /\ init' = r.init
    /\ UNCHANGED strat

\* bvector::resize(new_size)
ResizeOp(newSize) ==
    LET r == Resize(tree, size, init, newSize) IN
    /\ tree' = r.tr
    /\ size' = r.size
    /\ init' = r.init
    /\ UNCHANGED strat

\* Mutant: the complement is not trimmed at size_.
InvertOpNoTrim ==
    /\ tree' = InvertTree(tree)
    /\ init' = TRUE
    /\ UNCHANGED <<size, strat>>

\* bvector::invert (flip()): reserve the whole top array, complement every
\* slot, then clear [size_, id_max].
InvertOp ==
    LET t1 == InvertTree(tree) IN
    /\ tree' = IF size = IdMax THEN SetBitNoCheck(t1, IdMax, FALSE, strat).tr
               ELSE RangeNoCheck(t1, size, IdMax, FALSE)
    /\ init' = TRUE
    /\ UNCHANGED <<size, strat>>

\* bvector::insert(n, value); shift_right() is insert(0, false).
Insert(n, v) ==
    LET sz == IF size < IdMax THEN size + 1 ELSE size
        r  == InsertTree(tree, n, v, strat)
    IN IF ~init
       THEN \* set(n) when value, then return 0
            /\ tree' = IF v THEN SetBitNoCheck(tree, n, TRUE, strat).tr ELSE tree
            /\ size' = IF v /\ n >= sz THEN n + 1 ELSE sz
            /\ init' = v
            /\ UNCHANGED strat
       ELSE /\ tree' = r.tr
            /\ size' = sz
            /\ UNCHANGED <<init, strat>>

\* bvector::erase(n); shift_left() is test(0) then erase(0).
Erase(n) ==
    /\ tree' = IF init THEN EraseTree(tree, n, strat) ELSE tree
    /\ UNCHANGED <<size, init, strat>>

\* bvector::reset(): clear(true) releases the tree.
Reset ==
    /\ tree' = EmptyTree
    /\ init' = FALSE
    /\ UNCHANGED <<size, strat>>

\* bvector::set_new_blocks_strat(strat)
SetNewBlocksStrat(st) ==
    /\ strat' = st
    /\ UNCHANGED <<tree, size, init>>

-----------------------------------------------------------------------------
(* Next-state relation, grouped by the part of the facade exercised.       *)

\* Single-bit writes, ranges, resize, invert, reset.
NextBits ==
    \/ \E n \in Args, v \in BOOLEAN : SetBit(n, v)
    \/ \E n \in Args, v, c \in BOOLEAN : SetBitConditional(n, v, c)
    \/ \E n \in Args : IncOp(n)
    \/ \E l, r \in Args, v \in BOOLEAN : SetRange(l, r, v)
    \/ \E ns \in Sizes : ResizeOp(ns)
    \/ InvertOp
    \/ Reset
    \/ \E st \in Strats : SetNewBlocksStrat(st)

\* reference::operator&=
NextAnd == \E n \in Args, v \in BOOLEAN : SetBitAnd(n, v)

\* insert / erase (shift_right / shift_left)
NextShift ==
    \/ \E n \in ShiftArgs, v \in BOOLEAN : Insert(n, v)
    \/ \E n \in ShiftArgs : Erase(n)

Next == NextBits \/ NextAnd \/ NextShift

Spec == Init /\ [][Next]_vars

-----------------------------------------------------------------------------
(* Properties.                                                               *)

TypeOK ==
    /\ tree \in TreeT
    /\ \A nb \in Blocks :
          /\ tree.top[SubOf(nb)] # "ARR" => tree.blk[nb] = NullBlk
          /\ tree.blk[nb].kind = "FULL" => tree.blk[nb].bits = Offs
          /\ tree.blk[nb].kind = "NULL" => tree.blk[nb].bits = {}
          /\ tree.blk[nb].kind # "GAP" => tree.blk[nb].level = 0
    /\ size \in 0 .. IdMax
    /\ init \in BOOLEAN
    /\ strat \in Strats
    /\ ~init => tree = EmptyTree

\* The abstract bit-set this tree stands for.
Abs == INSTANCE AbsBitVector WITH bits <- Bits, size <- size

\* The facade implements the abstract bit-vector: every call changes the
\* set of positions read by test() and size() as AbsBitVector says
\* (set_bit, set_bit_conditional, flip, set_range, resize, invert, reset).
Refines == Abs!Spec

\* The physical bit at id_max is never 1: insert, invert and the range
\* calls all trim it (bm.h:4427-4428, 3066-3069, 3612-3613).
NoBitAtIdMax == IdMax \notin Bits

\* No position at or beyond size() reads 1 (the size invariant of the
\* specification, section 3), whatever sequence of calls led here.
TailClear == \A p \in Bits : p < size

\* Every GAP block fits the capacity of its level: each GAP update that
\* may lengthen a block promotes it (gap_block_set, insert, erase,
\* assign_gap) before it overflows.
GapFits ==
    \A nb \in Blocks :
        tree.blk[nb].kind = "GAP" =>
            GapLen(tree.blk[nb].bits) <= GapLimit[tree.blk[nb].level + 1]

\* The result of set_bit, set_bit_conditional and inc: the first two return
\* TRUE exactly when the bit changed, inc returns the bit's old value.
ResultsExact ==
    [][/\ \A n \in Args, v \in BOOLEAN :
            SetBit(n, v) => SetBitNoCheck(tree, n, v, strat).ret = (Bits' # Bits)
       /\ \A n \in Args, v, c \in BOOLEAN :
            (SetBitConditional(n, v, c) /\ v # c) =>
               SetBitConditionalImpl(tree, n, v, c, strat).ret = (Bits' # Bits)
       /\ \A n \in Args : IncOp(n) => Inc(tree, n, strat).ret = (n \in Bits)
      ]_vars

\* set_bit_and(n, val) leaves bit n equal to (bit n AND val) and reports
\* TRUE exactly when that changed the bit (bm.h:1446-1452).
AndBitExact ==
    [][\A n \in Args, v \in BOOLEAN :
          SetBitAnd(n, v) =>
             /\ Bits' = (IF v THEN Bits ELSE Bits \ {n})
             /\ AndBitNoCheck(tree, n, v, strat).ret = (Bits' # Bits)]_vars

\* insert(n, v) moves every position from n up by one, puts v at n and
\* returns the bit pushed past the last position as its carry.
InsertShiftsRight ==
    [][\A n \in ShiftArgs, v \in BOOLEAN :
          Insert(n, v) =>
             /\ Bits' = Abs!Inserted(Bits, n, v)
             /\ init => InsertTree(tree, n, v, strat).carry = Abs!InsertCarry(Bits, n)
      ]_vars

\* erase(n) removes position n and moves every higher position down by one.
EraseShiftsLeft ==
    [][\A n \in ShiftArgs : Erase(n) => Bits' = Abs!Erased(Bits, n)]_vars

=============================================================================
