----------------------------- MODULE BVAlgebra -----------------------------
(***************************************************************************)
(* Set algebra between bm::bvector objects (bm.h): the two-operand forms   *)
(* bit_or/bit_xor/bit_and/bit_sub(bv) (combine_operation_{or,xor,and,sub}),  *)
(* the three-operand forms bit_or/bit_xor/bit_and/bit_sub(bv1, bv2, opt)    *)
(* and the destructive merge(bv).                                           *)
(*                                                                          *)
(* The state is a small set of named vectors.  Each holds the tree of its  *)
(* blocks manager, its size_ and blockman_.is_init().  Vectors are built   *)
(* with set_bit and set_range and then combined; a call may name the same  *)
(* vector twice, as C++ allows (a.bit_or(a), c.bit_and(a, a)).              *)
(*                                                                          *)
(* Block pointers are compared in the code to detect "same block": two     *)
(* slots of different vectors are the same pointer only when both are NULL *)
(* or both the FULL sentinel; a vector compared with itself shares all.     *)
(***************************************************************************)
EXTENDS BVTree

LOCAL INSTANCE SequencesExt

CONSTANTS
    Vecs,       \* the vectors of the program
    InitSizes,  \* sizes they are constructed with
    Args,       \* positions passed to set_bit and set_range
    OptModes,   \* opt_mode arguments of the three-operand calls
    MaxCalls,   \* bound on the number of calls in a behaviour
    IdLists     \* id arrays passed to keep(ids) and clear(ids)

VARIABLES
    vec,        \* vec[x] = [tr |-> blockman_ tree, size |-> size_, init |-> is_init]
    calls,      \* number of calls made so far
    last        \* the call made by the last step (a history variable only
                \* the properties read): <<call, op, x, y1, y2, mode>>

vars == <<vec, calls, last>>

VBits(x) == BitsOf(vec[x].tr)

MaxOf(a, b) == IF a >= b THEN a ELSE b

ISeq == [k \in 1 .. T |-> k - 1]     \* for (i = 0; i < top_blocks; ++i)
JSeq == [k \in 1 .. S |-> k - 1]     \* do { ... } while (++j < set_sub_array_size)

-----------------------------------------------------------------------------
(* Blocks manager calls made by the algebra (bmblocks.h).                  *)

\* set_block_ptr(i, j, p): a raw store into the sub-array slot; the
\* sub-array is not allocated by it.
SetBlockPtr(tr, nb, b) == [tr EXCEPT !.blk[nb] = b]

\* alloc_top_subblock(i): a new sub-array of NULL slots.
AllocTopSub(tr, i) ==
    [top |-> [tr.top EXCEPT ![i] = "ARR"],
     blk |-> [nb \in Blocks |-> IF SubOf(nb) = i THEN NullBlk ELSE tr.blk[nb]]]

\* deallocate_top_subblock(i) / free_top_subblock(i): the slot becomes NULL
\* and its blocks are released.
FreeTopSub(tr, i) ==
    [top |-> [tr.top EXCEPT ![i] = "NULL"],
     blk |-> [nb \in Blocks |-> IF SubOf(nb) = i THEN NullBlk ELSE tr.blk[nb]]]

\* clone_assign_block(i, j, src, invert): a deep copy, complemented when
\* invert is set (the FULL sentinel copies as FULL, its complement is NULL).
CloneAssign(b, inv) ==
    CASE b.kind = "FULL" -> IF inv THEN NullBlk ELSE FullBlk
      [] b.kind = "GAP"  -> IF inv THEN [b EXCEPT !.bits = Offs \ b.bits] ELSE b
      [] OTHER           -> BitBlk(IF inv THEN Offs \ b.bits ELSE b.bits)

\* clone_gap_block(i, j, gap_buf, len): the GAP result at the level that
\* holds its length, a bit-block when no level does.
CloneGap(bs) ==
    IF GapCalcLevel(bs) < 0 THEN BitBlk(bs) ELSE GapBlk(bs, GapCalcLevel(bs))

\* optimize_bit_block(i, j): an all-zero bit-block is freed, an all-one
\* block becomes FULL, one whose GAP form fits a level is converted.
OptimizeBitBlock(b) ==
    CASE b.kind # "BIT"          -> b
      [] b.bits = {}             -> NullBlk
      [] b.bits = Offs           -> FullBlk
      [] GapCalcLevel(b.bits) >= 0 -> GapBlk(b.bits, GapCalcLevel(b.bits))
      [] OTHER                   -> b

\* deinit_tree(): the tree is released; size_ is kept.
Deinit(v) == [v EXCEPT !.tr = EmptyTree, !.init = FALSE]

\* Two block slots of different vectors hold the same pointer.
SamePtr(b, a) == b.kind = a.kind /\ b.kind \in {"NULL", "FULL"}

-----------------------------------------------------------------------------
(* Two-operand block operations: slot nb of this tree (in an allocated     *)
(* sub-array) combined in place with the argument's block a.               *)

\* Mutant: the GAP result is stored at the target's level unchecked.
BlockOr2Mut(tr, nb, a) ==
    LET b  == tr.blk[nb]
        or == b.bits \cup a.bits
    IN CASE b.kind = "FULL" \/ a.kind = "NULL" -> tr
         [] a.kind = "FULL" ->
              SetBlockPtr(IF b.kind # "NULL" THEN ZeroBlock(tr, nb) ELSE tr,
                          nb, FullBlk)
         [] b.kind = "GAP" /\ a.kind = "GAP" -> [tr EXCEPT !.blk[nb].bits = or]
         [] b.kind = "GAP" -> SetBlockPtr(tr, nb, BitBlk(or))
         [] a.kind = "GAP" /\ b.kind = "NULL" -> PutBlock(tr, nb, a)
         [] a.kind = "GAP" -> SetBlockPtr(tr, nb, BitBlk(or))
         [] b.kind = "NULL" -> SetBlockPtr(tr, nb, BitBlk(a.bits))
         [] or = Offs -> SetBlockPtr(tr, nb, FullBlk)
         [] OTHER -> SetBlockPtr(tr, nb, BitBlk(or))

\* combine_operation_block_or(i, j, blk, arg_blk).  A FULL argument frees
\* the target with zero_block and then stores FULL with set_block_ptr.
BlockOr2(tr, nb, a) ==
    LET b  == tr.blk[nb]
        or == b.bits \cup a.bits
    IN CASE b.kind = "FULL" \/ a.kind = "NULL" -> tr
         [] a.kind = "FULL" ->
              SetBlockPtr(IF b.kind # "NULL" THEN ZeroBlock(tr, nb) ELSE tr,
                          nb, FullBlk)
         [] b.kind = "GAP" /\ a.kind = "GAP" -> AssignGap(tr, nb, or)
         [] b.kind = "GAP" -> SetBlockPtr(tr, nb, BitBlk(or))
         [] a.kind = "GAP" /\ b.kind = "NULL" -> PutBlock(tr, nb, a)
         [] a.kind = "GAP" -> SetBlockPtr(tr, nb, BitBlk(or))
         [] b.kind = "NULL" -> SetBlockPtr(tr, nb, BitBlk(a.bits))
         [] or = Offs -> SetBlockPtr(tr, nb, FullBlk)
         [] OTHER -> SetBlockPtr(tr, nb, BitBlk(or))

\* Mutant: the complement under a FULL argument runs one bit too far.
BlockXor2Mut(tr, nb, a) ==
    LET b   == tr.blk[nb]
        t1  == IF b.kind = "FULL" THEN SetBlockPtr(tr, nb, BitBlk(Offs)) ELSE tr
        c   == t1.blk[nb]
        xor == (c.bits \ a.bits) \cup (a.bits \ c.bits)
    IN CASE a.kind = "NULL" -> tr
         [] a.kind = "FULL" ->
              CASE b.kind \in {"GAP", "BIT"} -> [tr EXCEPT !.blk[nb].bits = (0 .. B) \ @]
                [] b.kind = "FULL" -> SetBlockPtr(tr, nb, NullBlk)
                [] OTHER -> SetBlockPtr(tr, nb, FullBlk)
         [] c.kind = "GAP" /\ a.kind = "GAP" -> AssignGap(t1, nb, xor)
         [] c.kind = "GAP" -> SetBlockPtr(t1, nb, BitBlk(xor))
         [] a.kind = "GAP" /\ c.kind = "NULL" -> PutBlock(t1, nb, a)
         [] a.kind = "GAP" -> SetBlockPtr(t1, nb, BitBlk(xor))
         [] c.kind = "NULL" -> SetBlockPtr(t1, nb, BitBlk(a.bits))
         [] xor = {} -> SetBlockPtr(t1, nb, NullBlk)
         [] OTHER -> SetBlockPtr(t1, nb, BitBlk(xor))

\* combine_operation_block_xor(i, j, blk, arg_blk).  A FULL target is first
\* replaced by a bit-block of ones.
BlockXor2(tr, nb, a) ==
    LET b   == tr.blk[nb]
        t1  == IF b.kind = "FULL" THEN SetBlockPtr(tr, nb, BitBlk(Offs)) ELSE tr
        c   == t1.blk[nb]
        xor == (c.bits \ a.bits) \cup (a.bits \ c.bits)
    IN CASE a.kind = "NULL" -> tr
         [] a.kind = "FULL" ->
              CASE b.kind \in {"GAP", "BIT"} -> [tr EXCEPT !.blk[nb].bits = Offs \ @]
                [] b.kind = "FULL" -> SetBlockPtr(tr, nb, NullBlk)
                [] OTHER -> SetBlockPtr(tr, nb, FullBlk)
         [] c.kind = "GAP" /\ a.kind = "GAP" -> AssignGap(t1, nb, xor)
         [] c.kind = "GAP" -> SetBlockPtr(t1, nb, BitBlk(xor))
         [] a.kind = "GAP" /\ c.kind = "NULL" -> PutBlock(t1, nb, a)
         [] a.kind = "GAP" -> SetBlockPtr(t1, nb, BitBlk(xor))
         [] c.kind = "NULL" -> SetBlockPtr(t1, nb, BitBlk(a.bits))
         [] xor = {} -> SetBlockPtr(t1, nb, NullBlk)
         [] OTHER -> SetBlockPtr(t1, nb, BitBlk(xor))

\* combine_operation_block_and(i, j, blk, arg_blk), blk and arg_blk not NULL.
BlockAnd2(tr, nb, a) ==
    LET b   == tr.blk[nb]
        and == b.bits \cap a.bits
    IN CASE a.kind = "FULL" -> tr
         [] b.kind = "GAP" /\ a.kind = "GAP" -> AssignGap(tr, nb, and)
         [] b.kind = "GAP" ->
              SetBlockPtr(tr, nb, IF and = {} THEN NullBlk ELSE BitBlk(and))
         [] a.kind = "GAP" /\ a.bits = {} -> ZeroBlock(tr, nb)
         [] a.kind = "GAP" /\ b.kind = "FULL" -> SetBlockPtr(tr, nb, a)
         [] a.kind = "GAP" ->
              IF and = {} THEN ZeroBlock(tr, nb)
              ELSE SetBlockPtr(tr, nb, BitBlk(and))
         [] b.kind = "FULL" -> SetBlockPtr(tr, nb, BitBlk(a.bits))
         [] and = {} -> SetBlockPtr(tr, nb, NullBlk)
         [] OTHER -> SetBlockPtr(tr, nb, BitBlk(and))

\* combine_operation_block_sub(i, j, blk, arg_blk), blk and arg_blk not NULL.
\* A GAP target under a bit argument is converted (convert_gap2bitset); a
\* FULL target takes the complement of the argument in a new bit-block.
BlockSub2(tr, nb, a) ==
    LET b   == tr.blk[nb]
        sub == b.bits \ a.bits
    IN CASE a.kind = "FULL" -> ZeroBlock(tr, nb)
         [] b.kind = "GAP" /\ a.kind = "GAP" -> AssignGap(tr, nb, sub)
         [] b.kind = "BIT" /\ a.kind = "GAP" ->
              IF sub = {} THEN ZeroBlock(tr, nb)
              ELSE SetBlockPtr(tr, nb, BitBlk(sub))
         [] b.kind = "FULL" -> SetBlockPtr(tr, nb, BitBlk(sub))
         [] sub = {} -> SetBlockPtr(tr, nb, NullBlk)
         [] OTHER -> SetBlockPtr(tr, nb, BitBlk(sub))

-----------------------------------------------------------------------------
(* Two-operand loops over the top array.  self is TRUE when the argument   *)
(* is this vector, so every pointer comparison finds equal pointers.       *)

\* The block loop of combine_operation_or: slots with equal pointers are
\* skipped (BM_OR_OP).
OrBlocks(t, ta, i) ==
    FoldLeft(LAMBDA u, j :
                LET nb == i * S + j IN
                IF SamePtr(u.blk[nb], ta.blk[nb]) THEN u
                ELSE BlockOr2(u, nb, ta.blk[nb]),
             t, JSeq)

\* Mutant: a FULL argument sub-array is stored without freeing the target's.
OrSub2Mut(t, ta, i, self) ==
    LET top == t.top[i]
        atop == ta.top[i]
    IN CASE atop = "NULL" \/ self \/ top = "FULL" -> t
         [] atop = "FULL" -> [t EXCEPT !.top[i] = "FULL"]
         [] OTHER -> OrBlocks(IF top = "NULL" THEN AllocTopSub(t, i) ELSE t, ta, i)

\* combine_operation_or(bv), one sub-array.
OrSub2(t, ta, i, self) ==
    LET top == t.top[i]
        atop == ta.top[i]
    IN CASE atop = "NULL" \/ self \/ top = "FULL" -> t
         [] atop = "FULL" -> [FreeTopSub(t, i) EXCEPT !.top[i] = "FULL"]
         [] OTHER -> OrBlocks(IF top = "NULL" THEN AllocTopSub(t, i) ELSE t, ta, i)

\* combine_operation_xor(bv), one sub-array; BM_XOR_OP visits every slot
\* and a FULL argument sub-array reads as FULL slots.
XorSub2(t, ta, i, self) ==
    LET top == t.top[i]
        atop == ta.top[i]
        t1 == CASE top = "FULL" -> AllocSub(t, i)
                [] top = "NULL" -> AllocTopSub(t, i)
                [] OTHER -> t
    IN CASE atop = "NULL" -> t
         [] self \/ (top = "FULL" /\ atop = "FULL") ->
              IF top = "FULL" THEN [t EXCEPT !.top[i] = "NULL"] ELSE t
         [] atop = "FULL" /\ top = "NULL" -> [t EXCEPT !.top[i] = "FULL"]
         [] OTHER ->
              FoldLeft(LAMBDA u, j : BlockXor2(u, i * S + j, GetBlock(ta, i * S + j)),
                       t1, JSeq)

\* Mutant: a NULL argument sub-array leaves the target's in place.
AndSub2Mut(t, ta, i) ==
    LET top == t.top[i]
        atop == ta.top[i]
    IN CASE top = "NULL" -> t
         [] atop = "NULL" -> t
         [] atop = "FULL" -> t
         [] OTHER ->
              FoldLeft(LAMBDA u, j :
                         LET nb == i * S + j IN
                         CASE u.blk[nb].kind = "NULL" -> u
                           [] ta.blk[nb].kind = "NULL" -> ZeroBlock(u, nb)
                           [] OTHER -> BlockAnd2(u, nb, ta.blk[nb]),
                       AllocSub(t, i), JSeq)

\* combine_operation_and(bv), one sub-array (BM_AND_OP: a NULL argument
\* slot zeroes the target slot).
AndSub2(t, ta, i) ==
    LET top == t.top[i]
        atop == ta.top[i]
    IN CASE top = "NULL" -> t
         [] atop = "NULL" -> FreeTopSub(t, i)
         [] atop = "FULL" -> t
         [] OTHER ->
              FoldLeft(LAMBDA u, j :
                         LET nb == i * S + j IN
                         CASE u.blk[nb].kind = "NULL" -> u
                           [] ta.blk[nb].kind = "NULL" -> ZeroBlock(u, nb)
                           [] OTHER -> BlockAnd2(u, nb, ta.blk[nb]),
                       AllocSub(t, i), JSeq)

\* combine_operation_sub(bv), one sub-array (BM_SUB_OP).
SubSub2(t, ta, i) ==
    LET top == t.top[i]
        atop == ta.top[i]
    IN CASE top = "NULL" \/ atop = "NULL" -> t
         [] atop = "FULL" -> FreeTopSub(t, i)
         [] OTHER ->
              FoldLeft(LAMBDA u, j :
                         LET nb == i * S + j IN
                         IF u.blk[nb].kind = "NULL" \/ ta.blk[nb].kind = "NULL" THEN u
                         ELSE BlockSub2(u, nb, ta.blk[nb]),
                       AllocSub(t, i), JSeq)

\* The sub-array step of combine_operation_{or,xor,and,sub}.
SubStep2(op, t, ta, i, self) ==
    CASE op = "OR"  -> OrSub2(t, ta, i, self)
      [] op = "XOR" -> XorSub2(t, ta, i, self)
      [] op = "AND" -> AndSub2(t, ta, i)
      [] op = "SUB" -> SubSub2(t, ta, i)

\* Mutant: size_ is not grown to the argument's.
Combine2Mut(op, v, a, self) ==
    [tr   |-> FoldLeft(LAMBDA u, i : SubStep2(op, u, a.tr, i, self), v.tr, ISeq),
     size |-> v.size,
     init |-> TRUE]

\* The common frame of the four loops: size_ grows to the argument's,
\* reserve_top_blocks initialises the tree, then every sub-array in order.
Combine2(op, v, a, self) ==
    [tr   |-> FoldLeft(LAMBDA u, i : SubStep2(op, u, a.tr, i, self), v.tr, ISeq),
     size |-> MaxOf(v.size, a.size),
     init |-> TRUE]

\* bvector::operator=(bv): deinit, copy the blocks, resize(bv.size()).
Assign(v, a) ==
    LET r == Resize(a.tr, v.size, a.init, a.size) IN
    [tr |-> r.tr, size |-> r.size, init |-> r.init]

\* bit_or(bv) = combine_operation_or(bv)
Or2Call(v, a, self) ==
    IF ~a.init THEN v
    ELSE Combine2("OR", v, a, self)

\* bit_xor(bv) = combine_operation_xor(bv): an uninitialised target is
\* assigned the argument.
Xor2Call(v, a, self) ==
    CASE ~a.init -> v
      [] ~v.init -> Assign(v, a)
      [] OTHER   -> Combine2("XOR", v, a, self)

\* bit_and(bv) = combine_operation_and(bv): an uninitialised argument
\* clears this with clear(true).
And2Call(v, a) ==
    CASE ~v.init -> v
      [] ~a.init -> Deinit(v)
      [] OTHER   -> Combine2("AND", v, a, FALSE)

\* bit_sub(bv) = combine_operation_sub(bv)
Sub2Call(v, a) ==
    IF ~v.init \/ ~a.init THEN v
    ELSE Combine2("SUB", v, a, FALSE)

\* clear(false) = set_all_zero(false): every block is freed, the top array
\* stays allocated; a vector without a tree is left alone.
ClearAll(v) == [v EXCEPT !.tr = EmptyTree]

\* The tree of bv_tmp after bv_tmp.import(ids, ids_size, so).
TmpTree(ids, so) == Import(EmptyTree, ids, so)

\* bv_tmp.resize(last + 1) for the last 1 bit found by find_reverse; a
\* default bvector has size id_max.
TmpVec(tr) == Resize(tr, IdMax, TRUE, FindReverse(tr) + 1)

\* Mutant: keep forgets the clear() of the branch find_reverse fails.
KeepCallNoClear(v, ids, so) ==
    CASE ids = <<>> \/ ~v.init             -> ClearAll(v)
      [] FindReverse(TmpTree(ids, so)) # None -> And2Call(v, TmpVec(TmpTree(ids, so)))
      [] OTHER                              -> v

\* keep(ids, ids_size, so): an empty array or a vector without a tree is
\* cleared; otherwise the ids are imported into bv_tmp, which is cut to
\* its last 1 bit and ANDed in; when bv_tmp holds no 1 bit (every id is
\* id_max) the vector is cleared.
KeepCall(v, ids, so) ==
    CASE ids = <<>> \/ ~v.init             -> ClearAll(v)
      [] FindReverse(TmpTree(ids, so)) # None -> And2Call(v, TmpVec(TmpTree(ids, so)))
      [] OTHER                              -> ClearAll(v)

\* clear(ids, ids_size, so): the same bv_tmp subtracted with bit_sub; an
\* empty array, a vector without a tree or an empty bv_tmp change nothing.
ClearIdsCall(v, ids, so) ==
    IF ids = <<>> \/ ~v.init \/ FindReverse(TmpTree(ids, so)) = None THEN v
    ELSE Sub2Call(v, TmpVec(TmpTree(ids, so)))

-----------------------------------------------------------------------------
(* Three-operand block operations: the new block of the target for the     *)
(* argument blocks a1, a2, and whether the call asks for optimisation      *)
(* (the need_opt result).                                                   *)

Res(b, opt) == [blk |-> b, opt |-> opt]

\* combine_operation_block_or(i, j, arg_blk1, arg_blk2)
BlockOr3(a1, a2) ==
    LET or == a1.bits \cup a2.bits IN
    CASE a1.kind = "NULL" -> Res(CloneAssign(a2, FALSE), FALSE)
      [] a2.kind = "NULL" -> Res(CloneAssign(a1, FALSE), FALSE)
      [] "FULL" \in {a1.kind, a2.kind} -> Res(FullBlk, FALSE)
      [] a1.kind = "GAP" /\ a2.kind = "GAP" -> Res(CloneGap(or), FALSE)
      [] "GAP" \in {a1.kind, a2.kind} -> Res(BitBlk(or), TRUE)
      [] or = Offs -> Res(FullBlk, FALSE)
      [] OTHER -> Res(BitBlk(or), TRUE)

\* combine_operation_block_xor(i, j, arg_blk1, arg_blk2)
BlockXor3(a1, a2) ==
    LET xor == (a1.bits \ a2.bits) \cup (a2.bits \ a1.bits) IN
    CASE a1.kind = "NULL" -> Res(CloneAssign(a2, FALSE), FALSE)
      [] a2.kind = "NULL" -> Res(CloneAssign(a1, FALSE), FALSE)
      [] a1.kind = "FULL" -> Res(CloneAssign(a2, TRUE), FALSE)
      [] a2.kind = "FULL" -> Res(CloneAssign(a1, TRUE), FALSE)
      [] a1.kind = "GAP" /\ a2.kind = "GAP" -> Res(CloneGap(xor), FALSE)
      [] "GAP" \in {a1.kind, a2.kind} -> Res(BitBlk(xor), TRUE)
      [] xor = {} -> Res(NullBlk, FALSE)
      [] OTHER -> Res(BitBlk(xor), TRUE)

\* combine_operation_block_and(i, j, arg_blk1, arg_blk2)
BlockAnd3(a1, a2) ==
    LET and == a1.bits \cap a2.bits IN
    CASE "NULL" \in {a1.kind, a2.kind} -> Res(NullBlk, FALSE)
      [] a1.kind = "FULL" /\ a2.kind = "FULL" -> Res(FullBlk, FALSE)
      [] a1.kind = "FULL" -> Res(CloneAssign(a2, FALSE), FALSE)
      [] a2.kind = "FULL" -> Res(CloneAssign(a1, FALSE), FALSE)
      [] a1.kind = "GAP" /\ a2.kind = "GAP" -> Res(CloneGap(and), FALSE)
      [] "GAP" \in {a1.kind, a2.kind} -> Res(BitBlk(and), TRUE)
      [] and = {} -> Res(NullBlk, FALSE)
      [] OTHER -> Res(BitBlk(and), TRUE)

\* Mutant: FULL_BLOCK_REAL_ADDR read one bit past the block.
BlockSub3Mut(a1, a2) ==
    LET b1  == IF a1.kind = "FULL" THEN BitBlk(0 .. B) ELSE a1
        sub == b1.bits \ a2.bits
    IN CASE a1.kind = "NULL" -> Res(NullBlk, FALSE)
         [] a2.kind = "NULL" -> Res(CloneAssign(a1, FALSE), FALSE)
         [] a2.kind = "FULL" -> Res(NullBlk, FALSE)
         [] b1.kind = "GAP" /\ a2.kind = "GAP" -> Res(CloneGap(sub), FALSE)
         [] b1.kind = "GAP" \/ a2.kind # "GAP" ->
              IF sub = {} THEN Res(NullBlk, FALSE) ELSE Res(BitBlk(sub), TRUE)
         [] OTHER -> Res(BitBlk(sub), TRUE)

\* combine_operation_block_sub(i, j, arg_blk1, arg_blk2).  A FULL first
\* argument is read through FULL_BLOCK_REAL_ADDR, a bit-block of ones.
BlockSub3(a1, a2) ==
    LET b1  == IF a1.kind = "FULL" THEN BitBlk(Offs) ELSE a1
        sub == a1.bits \ a2.bits
    IN CASE a1.kind = "NULL" -> Res(NullBlk, FALSE)
         [] a2.kind = "NULL" -> Res(CloneAssign(a1, FALSE), FALSE)
         [] a2.kind = "FULL" -> Res(NullBlk, FALSE)
         [] b1.kind = "GAP" /\ a2.kind = "GAP" -> Res(CloneGap(sub), FALSE)
         [] b1.kind = "GAP" \/ a2.kind # "GAP" ->
              IF sub = {} THEN Res(NullBlk, FALSE) ELSE Res(BitBlk(sub), TRUE)
         [] OTHER -> Res(BitBlk(sub), TRUE)

BlockOp3(op, a1, a2) ==
    CASE op = "OR"  -> BlockOr3(a1, a2)
      [] op = "XOR" -> BlockXor3(a1, a2)
      [] op = "AND" -> BlockAnd3(a1, a2)
      [] op = "SUB" -> BlockSub3(a1, a2)

\* The block loop of the three-operand calls: a pair the loop skips leaves
\* the slot NULL, a result that asks for it is optimised under opt_compress.
Slot3(op, t1, t2, nb, mode) ==
    LET a1 == GetBlock(t1, nb)
        a2 == GetBlock(t2, nb)
        r  == BlockOp3(op, a1, a2)
        skip == IF op = "XOR" THEN SamePtr(a1, a2) ELSE a1.kind = "NULL" /\ a2.kind = "NULL"
    IN CASE skip -> NullBlk
         [] r.opt /\ mode = "compress" -> OptimizeBitBlock(r.blk)
         [] OTHER -> r.blk

\* Mutant: two equal argument pointers under XOR give that pointer.
Top3Mut(op, t1, t2, i, slot) ==
    LET p1 == t1.top[i]
        p2 == t2.top[i]
        same == p1 = p2 /\ p1 \in {"NULL", "FULL"}
        any  == \E nb \in Blocks : SubOf(nb) = i /\ slot[nb] # NullBlk
    IN CASE op = "OR" /\ same -> p1
         [] op = "OR" /\ "FULL" \in {p1, p2} -> "FULL"
         [] op = "XOR" /\ same -> p1
         [] op = "AND" /\ same -> p1
         [] op = "SUB" /\ (same \/ p2 = "FULL") -> "NULL"
         [] any -> "ARR"
         [] OTHER -> "NULL"

\* The top slot the three-operand call gives sub-array i: the cases it
\* settles on the argument sub-array pointers alone, else a sub-array that
\* is allocated, filled with the slots, and freed again when no slot is set
\* (any_blocks).
Top3(op, t1, t2, i, slot) ==
    LET p1 == t1.top[i]
        p2 == t2.top[i]
        same == p1 = p2 /\ p1 \in {"NULL", "FULL"}
        any  == \E nb \in Blocks : SubOf(nb) = i /\ slot[nb] # NullBlk
    IN CASE op = "OR" /\ same -> p1
         [] op = "OR" /\ "FULL" \in {p1, p2} -> "FULL"
         [] op = "XOR" /\ same -> "NULL"
         [] op = "AND" /\ same -> p1
         [] op = "SUB" /\ (same \/ p2 = "FULL") -> "NULL"
         [] any -> "ARR"
         [] OTHER -> "NULL"

\* Mutant: every slot is stored, whatever the top slot.
Build3Mut(op, t1, t2, mode) ==
    LET slot == [nb \in Blocks |-> Slot3(op, t1, t2, nb, mode)]
        top  == [i \in Subs |-> Top3(op, t1, t2, i, slot)]
    IN [top |-> top,
        blk |-> slot]

\* The tree built by bit_or/bit_xor/bit_and/bit_sub(bv1, bv2, opt_mode) on
\* its main path: every sub-array i in turn.
Build3(op, t1, t2, mode) ==
    LET slot == [nb \in Blocks |-> Slot3(op, t1, t2, nb, mode)]
        top  == [i \in Subs |-> Top3(op, t1, t2, i, slot)]
    IN [top |-> top,
        blk |-> [nb \in Blocks |-> IF top[SubOf(nb)] = "ARR" THEN slot[nb] ELSE NullBlk]]

\* Mutant: size_ is taken from bv1 only.
Main3Mut(op, v1, v2, mode) ==
    [tr   |-> Build3(op, v1.tr, v2.tr, mode),
     size |-> v1.size,
     init |-> v1.init \/ v2.init]

\* The main path of the three-operand calls: the new tree, size_ the larger
\* of the two (bv1 and bv2 sizes), initialised when either argument is.
Main3(op, v1, v2, mode) ==
    [tr   |-> Build3(op, v1.tr, v2.tr, mode),
     size |-> MaxOf(v1.size, v2.size),
     init |-> v1.init \/ v2.init]

-----------------------------------------------------------------------------
(* The three-operand calls: the new value of the target x.  The target is  *)
(* released first where the code does so, and an argument that is x reads *)
(* the released vector.                                                      *)

\* bit_or(bv1, bv2, opt_mode)
Or3Call(x, y1, y2, mode) ==
    LET d == Deinit(vec[x])
        Arg(y) == IF y = x THEN d ELSE vec[y]
    IN CASE y1 = y2 -> Or2Call(d, Arg(y2), y2 = x)
         [] x = y1  -> Or2Call(d, vec[y2], FALSE)
         [] x = y2  -> Or2Call(d, vec[y1], FALSE)
         [] OTHER   -> Main3("OR", vec[y1], vec[y2], mode)

\* bit_xor(bv1, bv2, opt_mode)
Xor3Call(x, y1, y2, mode) ==
    LET d == Deinit(vec[x]) IN
    CASE y1 = y2       -> d
      [] x = y1        -> Xor2Call(d, vec[y2], FALSE)
      [] x = y2        -> Xor2Call(d, vec[y1], FALSE)
      [] ~vec[y1].init -> Assign(d, vec[y2])
      [] ~vec[y2].init -> Assign(d, vec[y1])
      [] OTHER         -> Main3("XOR", vec[y1], vec[y2], mode)

\* bit_and(bv1, bv2, opt_mode): the aliasing cases are handled before the
\* target is released.
And3Call(x, y1, y2, mode) ==
    LET d == Deinit(vec[x]) IN
    CASE y1 = y2 -> Or2Call(vec[x], vec[y1], y1 = x)
      [] x = y1  -> And2Call(vec[x], vec[y2])
      [] x = y2  -> And2Call(vec[x], vec[y1])
      [] ~vec[y1].init \/ ~vec[y2].init -> d
      [] OTHER   -> Main3("AND", vec[y1], vec[y2], mode)

\* bit_sub(bv1, bv2, opt_mode)
Sub3Call(x, y1, y2, mode) ==
    LET d == Deinit(vec[x]) IN
    CASE y1 = y2       -> d
      [] x = y1        -> Sub2Call(d, vec[y2])
      [] x = y2        -> Sub2Call(d, vec[y1])
      [] ~vec[y1].init -> d
      [] ~vec[y2].init -> Or2Call(d, vec[y1], FALSE)
      [] OTHER         -> Main3("SUB", vec[y1], vec[y2], mode)

Op3Call(op, x, y1, y2, mode) ==
    CASE op = "OR"  -> Or3Call(x, y1, y2, mode)
      [] op = "XOR" -> Xor3Call(x, y1, y2, mode)
      [] op = "AND" -> And3Call(x, y1, y2, mode)
      [] op = "SUB" -> Sub3Call(x, y1, y2, mode)

Op2Call(op, v, a, self) ==
    CASE op = "OR"  -> Or2Call(v, a, self)
      [] op = "XOR" -> Xor2Call(v, a, self)
      [] op = "AND" -> And2Call(v, a)
      [] op = "SUB" -> Sub2Call(v, a)

-----------------------------------------------------------------------------
(* merge(bv): OR that moves the argument's sub-arrays and blocks into this *)
(* where this has none.  Both trees change: p.t is this, p.a the argument. *)

\* Mutant: the argument slot is cleared before it is read.
MergeBlocksMut(p, i) ==
    FoldLeft(LAMBDA q, j :
               LET nb == i * S + j
                   b  == q.t.blk[nb]
                   ab == q.a.blk[nb]
               IN CASE SamePtr(b, ab) -> q
                    [] b.kind = "NULL" ->          \* block transfer
                         [t |-> SetBlockPtr(q.t, nb, NullBlk), a |-> SetBlockPtr(q.a, nb, NullBlk)]
                    [] OTHER -> [q EXCEPT !.t = BlockOr2(q.t, nb, ab)],
             p, JSeq)

\* The block loop of merge for sub-array i.
MergeBlocks(p, i) ==
    FoldLeft(LAMBDA q, j :
               LET nb == i * S + j
                   b  == q.t.blk[nb]
                   ab == q.a.blk[nb]
               IN CASE SamePtr(b, ab) -> q
                    [] b.kind = "NULL" ->          \* block transfer
                         [t |-> SetBlockPtr(q.t, nb, ab), a |-> SetBlockPtr(q.a, nb, NullBlk)]
                    [] OTHER -> [q EXCEPT !.t = BlockOr2(q.t, nb, ab)],
             p, JSeq)

\* merge(bv), one sub-array.
MergeSub(p, i, self) ==
    LET top  == p.t.top[i]
        atop == p.a.top[i]
    IN CASE atop = "NULL" \/ self \/ (top = "FULL" /\ atop = "FULL") -> p
         [] top = "NULL" ->                        \* top block transfer
              [t |-> [top |-> [p.t.top EXCEPT ![i] = atop],
                      blk |-> [nb \in Blocks |-> IF SubOf(nb) = i THEN p.a.blk[nb]
                                                 ELSE p.t.blk[nb]]],
               a |-> FreeTopSub(p.a, i)]
         [] top = "FULL" -> p
         [] atop = "FULL" -> [p EXCEPT !.t = [FreeTopSub(p.t, i) EXCEPT !.top[i] = "FULL"]]
         [] OTHER -> MergeBlocks(p, i)

\* bvector::merge(bv): an uninitialised argument is moved in (move_from),
\* otherwise size_ grows to bv's and every sub-array is merged.  Returns
\* the new values of this and of bv.
MergeCall(v, a, self) ==
    IF ~a.init
    THEN IF self THEN [t |-> v, a |-> a] ELSE [t |-> a, a |-> a]
    ELSE LET p == FoldLeft(LAMBDA q, i : MergeSub(q, i, self),
                           [t |-> v.tr, a |-> a.tr], ISeq)
         IN [t |-> [tr |-> p.t, size |-> MaxOf(v.size, a.size), init |-> TRUE],
             a |-> [a EXCEPT !.tr = p.a]]

-----------------------------------------------------------------------------
(* compare(bv): the block loop of bvector::compare (bm.h:3198-3313).       *)

\* bitcmp / gapcmp / the mixed GAP-bit form (bmfunc.h): the first offset
\* at which the two blocks differ decides, the block with 1 there is
\* greater.
BlockCmp(p, q) ==
    IF p = q THEN 0
    ELSE IF Min((p \ q) \cup (q \ p)) \in p THEN 1 ELSE -1

CmpSlotNoZeroTest(b, a, self) ==
    CASE self \/ SamePtr(b, a) -> 0
      [] b.kind = "NULL"       -> -1
      [] a.kind = "NULL"       -> 1
      [] OTHER                 -> BlockCmp(b.bits, a.bits)

\* One j of the inner loop on the blocks b (this) and a (the argument), the
\* FULL sentinel read as FULL_BLOCK_REAL_ADDR: equal pointers go on; a NULL
\* block against a block with any 1 decides; otherwise the contents decide.
CmpSlot(b, a, self) ==
    CASE self \/ SamePtr(b, a) -> 0
      [] b.kind = "NULL"       -> IF a.bits = {} THEN 0 ELSE -1
      [] a.kind = "NULL"       -> IF b.bits = {} THEN 0 ELSE 1
      [] OTHER                 -> BlockCmp(b.bits, a.bits)

\* the top slots of sub-array i hold the same pointer (blk_blk == arg_blk_blk)
SameTop(t, ta, i, self) == self \/ (t.top[i] = ta.top[i] /\ t.top[i] \in {"NULL", "FULL"})

\* the loops from block nb on: the first non-zero slot result is returned
RECURSIVE CompareFrom(_, _, _, _)
CompareFrom(t, ta, self, nb) ==
    IF nb >= NBlocks THEN 0
    ELSE LET r == IF SameTop(t, ta, SubOf(nb), self) THEN 0
                  ELSE CmpSlot(GetBlock(t, nb), GetBlock(ta, nb), self)
         IN  IF r # 0 THEN r ELSE CompareFrom(t, ta, self, nb + 1)

\* x.compare(y) on the trees of x and y; self when x and y are one object
Compare(t, ta, self) == CompareFrom(t, ta, self, 0)

-----------------------------------------------------------------------------
(* The program: vectors are constructed, written with set_bit and           *)
(* set_range, cleared, and combined.                                        *)

Init ==
    /\ vec \in [Vecs -> [tr : {EmptyTree}, size : InitSizes, init : {FALSE}]]
    /\ calls = 0
    /\ last \in {<<"init", "none", x, x, x, "none">> : x \in Vecs}

\* Every call counts against the bound MaxCalls.
Count == calls < MaxCalls /\ calls' = calls + 1

\* x.set_new_blocks_strat(st); x.set_bit(n, val)
SetBitV(x, n, val, st) ==
    /\ Count
    /\ vec' = [vec EXCEPT ![x] =
                 [tr   |-> SetBitNoCheck(@.tr, n, val, st).tr,
                  size |-> IF n >= @.size THEN n + 1 ELSE @.size,
                  init |-> TRUE]]
    /\ last' = <<"set_bit", "none", x, x, x, "none">>

\* x.set_range(left, right, v)
SetRangeV(x, left, right, v) ==
    /\ Count
    /\ left <= right
    /\ vec' = [vec EXCEPT ![x] = SetRangeOp(@.tr, @.size, @.init, left, right, v)]
    /\ last' = <<"set_range", "none", x, x, x, "none">>

\* x.reset()
ResetV(x) ==
    /\ Count
    /\ vec' = [vec EXCEPT ![x] = Deinit(@)]
    /\ last' = <<"reset", "none", x, x, x, "none">>

\* x.bit_or(y), x.bit_xor(y), x.bit_and(y), x.bit_sub(y) (|=, ^=, &=, -=)
Op2(op, x, y) ==
    /\ Count
    /\ vec' = [vec EXCEPT ![x] = Op2Call(op, vec[x], vec[y], x = y)]
    /\ last' = <<"op2", op, x, y, y, "none">>

\* x.bit_or(y1, y2, mode) and the XOR, AND, SUB forms
Op3(op, x, y1, y2, mode) ==
    /\ Count
    /\ vec' = [vec EXCEPT ![x] = Op3Call(op, x, y1, y2, mode)]
    /\ last' = <<"op3", op, x, y1, y2, mode>>

\* x.merge(y)
Merge(x, y) ==
    LET r == MergeCall(vec[x], vec[y], x = y) IN
    /\ Count
    /\ vec' = IF x = y THEN [vec EXCEPT ![x] = r.t]
              ELSE [vec EXCEPT ![x] = r.t, ![y] = r.a]
    /\ last' = <<"merge", "none", x, y, y, "none">>

\* x.keep(ids, ids_size, so); under BM_SORTED the caller passes ids in
\* ascending order.
KeepV(x, ids, so) ==
    /\ Count
    /\ so = "SORTED" => IsSorted(ids, <=)
    /\ vec' = [vec EXCEPT ![x] = KeepCall(@, ids, so)]
    /\ last' = <<"keep", so, x, x, x, ids>>

\* x.clear(ids, ids_size, so)
ClearIdsV(x, ids, so) ==
    /\ Count
    /\ so = "SORTED" => IsSorted(ids, <=)
    /\ vec' = [vec EXCEPT ![x] = ClearIdsCall(@, ids, so)]
    /\ last' = <<"clear", so, x, x, x, ids>>

Ops == {"OR", "XOR", "AND", "SUB"}

\* The OR block loop of combine_operation_or and merge reaches the last
\* slot of sub-array i with a FULL argument block while every other slot of
\* the target is NULL: zero_block then frees the sub-array before
\* set_block_ptr stores FULL into it (bm.h:5827-5831).
OrFreesTarget(t, ta) ==
    \E i \in Subs :
        LET jl == i * S + S - 1 IN
        /\ t.top[i] = "ARR" /\ ta.top[i] = "ARR"
        /\ ta.blk[jl].kind = "FULL"
        /\ t.blk[jl].kind \in {"BIT", "GAP"}
        /\ \A nb \in Blocks : SubOf(nb) = i /\ nb # jl =>
              t.blk[nb].kind = "NULL" /\ ta.blk[nb].kind = "NULL"

NextBuild ==
    \/ \E x \in Vecs, n \in Args, v \in BOOLEAN, st \in Strats : SetBitV(x, n, v, st)
    \/ \E x \in Vecs, l, r \in Args : SetRangeV(x, l, r, TRUE)
    \/ \E x \in Vecs : ResetV(x)

Next ==
    \/ NextBuild
    \/ \E op \in Ops, x, y \in Vecs : Op2(op, x, y)
    \/ \E op \in Ops, x, y1, y2 \in Vecs, m \in OptModes : Op3(op, x, y1, y2, m)
    \/ \E x, y \in Vecs : Merge(x, y)
    \/ \E x \in Vecs, ids \in IdLists, so \in Hints : KeepV(x, ids, so)
    \/ \E x \in Vecs, ids \in IdLists, so \in Hints : ClearIdsV(x, ids, so)

Spec == Init /\ [][Next]_vars

\* The program state without the history variable.
StateView == <<vec, calls>>

-----------------------------------------------------------------------------
(* Properties.                                                               *)

OpSet(op, p, q) ==
    CASE op = "OR"  -> p \cup q
      [] op = "XOR" -> (p \ q) \cup (q \ p)
      [] op = "AND" -> p \cap q
      [] op = "SUB" -> p \ q

TypeOK ==
    /\ vec \in [Vecs -> [tr : TreeT, size : 0 .. IdMax, init : BOOLEAN]]
    /\ calls \in 0 .. MaxCalls
    /\ \/ last \in {"init", "set_bit", "set_range", "reset", "op2", "op3", "merge"}
                    \X (Ops \cup {"none"}) \X Vecs \X Vecs \X Vecs \X (OptModes \cup {"none"})
       \/ last \in {"keep", "clear"} \X Hints \X Vecs \X Vecs \X Vecs \X IdLists

\* Every tree is well formed after any sequence of calls: no block is left
\* in a sub-array slot the top array does not hold (a store through a
\* freed or never allocated sub-array), NULL and FULL slots carry no data,
\* and a vector without a tree has no blocks.
WellFormed ==
    \A x \in Vecs :
        LET tr == vec[x].tr IN
        /\ \A nb \in Blocks :
              /\ tr.top[SubOf(nb)] # "ARR" => tr.blk[nb] = NullBlk
              /\ tr.blk[nb].kind = "FULL" => tr.blk[nb].bits = Offs
              /\ tr.blk[nb].kind = "NULL" => tr.blk[nb].bits = {}
              /\ tr.blk[nb].kind # "GAP" => tr.blk[nb].level = 0
        /\ ~vec[x].init => tr = EmptyTree

\* Every GAP block of every vector fits its level after the GAP results
\* the algebra stores (assign_gap_check, clone_gap_block, gap_invert).
GapFits ==
    \A x \in Vecs, nb \in Blocks :
        LET b == vec[x].tr.blk[nb] IN
        b.kind = "GAP" => GapLen(b.bits) <= GapLimit[b.level + 1]

\* No vector reads 1 at or beyond its size(): every call that builds a
\* result from other vectors also takes over a size that covers it.
TailClear == \A x \in Vecs : \A p \in VBits(x) : p < vec[x].size

\* x op= y leaves x holding (x op y) and changes no other vector; for
\* x = y this is the idempotence the specification states (a OR a = a,
\* a AND a = a, a SUB a = a XOR a = empty).
Op2Exact ==
    [][\A op \in Ops, x, y \in Vecs :
          last' = <<"op2", op, x, y, y, "none">> =>
             /\ VBits(x)' = OpSet(op, VBits(x), VBits(y))
             /\ \A z \in Vecs \ {x} : VBits(z)' = VBits(z)]_vars

\* x.op(y1, y2, mode) leaves x holding y1 op y2, whatever vectors the
\* three names denote, and changes no other vector.
Op3Exact ==
    [][\A op \in Ops, x, y1, y2 \in Vecs, m \in OptModes :
          last' = <<"op3", op, x, y1, y2, m>> =>
             /\ VBits(x)' = OpSet(op, VBits(y1), VBits(y2))
             /\ \A z \in Vecs \ {x} : VBits(z)' = VBits(z)]_vars

\* the order of two bit sets as bit strings from position 0
LexOrder(P, Q) ==
    LET FirstDiffIn(X, Y) ==
            \E k \in X \ Y : \A m \in 0 .. k - 1 : (m \in X) = (m \in Y)
    IN  CASE FirstDiffIn(P, Q) -> 1
          [] FirstDiffIn(Q, P) -> -1
          [] OTHER             -> 0

\* x.compare(y) orders any two vectors, whatever blocks encode their bits
\* (NULL, all-zero bit- or GAP blocks, FULL slots and sub-arrays), as their
\* bit strings from position 0: 0 for equal sets, otherwise 1 when x has
\* the 1 at the first position where they differ, -1 when y has it.
CompareExact ==
    \A x, y \in Vecs : Compare(vec[x].tr, vec[y].tr, x = y) = LexOrder(VBits(x), VBits(y))

\* keep(ids) leaves x holding x AND ids and clear(ids) x minus ids, for
\* ids in any order, with or without the sorted hint and with id_max among
\* them, through the import into bv_tmp, its resize to the last id and
\* bit_and / bit_sub against vectors of every shape.
KeepClearExact ==
    [][\A x \in Vecs, ids \in IdLists, so \in Hints :
          /\ last' = <<"keep", so, x, x, x, ids>> =>
                VBits(x)' = VBits(x) \cap ToSet(ids)
          /\ last' = <<"clear", so, x, x, x, ids>> =>
                VBits(x)' = VBits(x) \ ToSet(ids)]_vars

\* x.merge(y) leaves x holding x OR y (y may be emptied).
MergeExact ==
    [][\A x, y \in Vecs :
          last' = <<"merge", "none", x, y, y, "none">> => VBits(x)' = VBits(x) \cup VBits(y)]_vars

=============================================================================
