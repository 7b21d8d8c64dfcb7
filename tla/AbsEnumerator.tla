--------------------------- MODULE AbsEnumerator ----------------------------
(***************************************************************************)
(* What bvector::enumerator promises (specification, section 4.6): a      *)
(* cursor over the 1 bits of a vector in increasing order.  cur is the    *)
(* position the enumerator reports, NoPos when valid() is false.  The     *)
(* vector may change only while no positioned cursor is in use: a         *)
(* mutation invalidates every enumerator.  op is the call just made, with *)
(* its argument, so that each step is checked against the call of the    *)
(* same name and argument.                                                 *)
(***************************************************************************)
EXTENDS Integers, FiniteSets

CONSTANTS
    Positions,  \* the addressable positions of the vector
    NoPos       \* the position of an enumerator that is not valid()

ASSUME NoPos \notin Positions

VARIABLES bits, cur, op

\* The least element of X, NoPos for an empty X.
Least(X) == IF X = {} THEN NoPos ELSE CHOOSE q \in X : \A r \in X : q <= r

\* The k-th smallest element of X (k >= 1), NoPos when X has fewer.
KthOf(X, k) ==
    IF k > Cardinality(X) THEN NoPos
    ELSE CHOOSE q \in X : Cardinality({r \in X : r <= q}) = k

Init == bits \in SUBSET Positions /\ cur = NoPos /\ op = <<"none">>

\* Any mutation of the vector, with no enumerator positioned on it.
Write ==
    /\ cur = NoPos /\ bits' \in SUBSET Positions /\ cur' = NoPos
    /\ op' = <<"write">>

\* A new enumerator is not positioned.
Create == cur' = NoPos /\ op' = <<"create">> /\ UNCHANGED bits

\* go_first(): the least 1 bit.
First == cur' = Least(bits) /\ op' = <<"first">> /\ UNCHANGED bits

\* go_up() on a valid enumerator: the next 1 bit.
Up ==
    /\ cur # NoPos /\ cur' = Least({q \in bits : q > cur})
    /\ op' = <<"up">> /\ UNCHANGED bits

\* go_to(p): the least 1 bit at or after p.
GoTo(p) ==
    cur' = Least({q \in bits : q >= p}) /\ op' = <<"goto", p>> /\ UNCHANGED bits

\* skip(r): r 1 bits further; nothing for r = 0 or an invalid cursor.
Skip(r) ==
    /\ cur' = IF r = 0 \/ cur = NoPos THEN cur
              ELSE KthOf({q \in bits : q > cur}, r)
    /\ op' = <<"skip", r>>
    /\ UNCHANGED bits

Ranks == 0 .. Cardinality(Positions) + 1

Next ==
    \/ Write
    \/ Create
    \/ First
    \/ Up
    \/ \E p \in Positions : GoTo(p)
    \/ \E r \in Ranks : Skip(r)

Spec == Init /\ [][Next]_<<bits, cur, op>>

=============================================================================
