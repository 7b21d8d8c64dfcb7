--------------------------- MODULE MCBVAlgebra -----------------------------
(***************************************************************************)
(* Instantiations of BVAlgebra for TLC.  The pass specifications leave out *)
(* the calls that the violation runs show to be wrong; each exclusion is a *)
(* named predicate over the call's arguments and the state.               *)
(***************************************************************************)
EXTENDS BVAlgebra, TLC

MCGapLimit2 == <<1, 3>>

MCPos == 0 .. IdMax - 1

\* For B = S = T = 2: one or two positions of every block, so that ranges
\* still cover a whole block and a whole sub-array.
MCArgs3 == {0, 1, 3, 4, 6}

\* Id arrays for keep and clear: none, a sorted pair across two blocks, an
\* unsorted triple over two sub-arrays, and id_max alone.
MCIdLists == {<<>>, <<1, 3>>, <<6, 0, 3>>, <<7>>}

\* The three-operand calls that name the target as an argument and release
\* it first (OR, XOR, SUB; x.bit_or(x, x) included), and bit_and(a, a)
\* into another vector.
Op3Aliased(op, x, y1, y2) ==
    \/ op = "OR" /\ x \in {y1, y2}
    \/ op \in {"XOR", "SUB"} /\ y1 # y2 /\ x \in {y1, y2}
    \/ op = "AND" /\ y1 = y2 /\ x # y1

\* The two-operand calls and merges the code gets wrong: x ^= x, an OR
\* that frees its target sub-array, a merge of an uninitialised vector.
Op2Wrong(op, x, y) ==
    \/ op = "XOR" /\ x = y
    \/ op = "OR" /\ x # y /\ OrFreesTarget(vec[x].tr, vec[y].tr)
MergeWrong(x, y) ==
    \/ x # y /\ ~vec[y].init
    \/ x # y /\ OrFreesTarget(vec[x].tr, vec[y].tr)


\* Every call of the program, keep and clear(ids) included, except the aliased three-operand calls and
\* the cases of Op2Wrong and MergeWrong.
NextAlgebra ==
    \/ NextBuild
    \/ \E op \in Ops, x, y \in Vecs : ~Op2Wrong(op, x, y) /\ Op2(op, x, y)
    \/ \E x, y \in Vecs : ~MergeWrong(x, y) /\ Merge(x, y)
    \/ \E op \in Ops, x, y1, y2 \in Vecs, m \in OptModes :
          ~Op3Aliased(op, x, y1, y2) /\ Op3(op, x, y1, y2, m)
    \/ \E x \in Vecs, ids \in IdLists, so \in Hints : KeepV(x, ids, so)
    \/ \E x \in Vecs, ids \in IdLists, so \in Hints : ClearIdsV(x, ids, so)

\* The calls each violation run makes besides set_bit / set_range / reset.
NextOp3Target ==
    \/ NextBuild
    \/ \E op \in {"OR", "XOR", "SUB"}, x, y \in Vecs, m \in OptModes :
          Op3(op, x, x, y, m) \/ Op3(op, x, y, x, m)
NextOrOnly == NextBuild \/ \E x, y \in Vecs : x # y /\ Op2("OR", x, y)
NextMerge  == NextBuild \/ \E x, y \in Vecs : x # y /\ Merge(x, y)

SpecAlgebra   == Init /\ [][NextAlgebra]_vars
SpecOp3Target == Init /\ [][NextOp3Target]_vars
SpecOrOnly    == Init /\ [][NextOrOnly]_vars
SpecMerge     == Init /\ [][NextMerge]_vars

\* The vectors are interchangeable: no call treats one name specially.
VecSymmetry == Permutations(Vecs)

=============================================================================
