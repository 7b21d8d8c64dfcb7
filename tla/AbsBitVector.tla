---------------------------- MODULE AbsBitVector ---------------------------
(***************************************************************************)
(* What a bm::bvector promises, with no blocks: a set of positions below   *)
(* id_max and a logical size.  Each action is a public call as its          *)
(* documentation in bm.h and the specification describe it.                *)
(***************************************************************************)
EXTENDS Integers

CONSTANTS IdMax, InitSizes

VARIABLES bits, size

Pos == 0 .. IdMax - 1
Grown(n) == IF n >= size THEN n + 1 ELSE size

Init == bits = {} /\ size \in InitSizes

\* set_bit(n, val): bit n takes val, the vector grows to cover n.
SetBit(n, val) ==
    /\ size' = Grown(n)
    /\ bits' = IF val THEN bits \cup {n} ELSE bits \ {n}

\* set_bit_and(n, val): bit n becomes (bit n AND val).
SetBitAnd(n, val) ==
    /\ n < size
    /\ UNCHANGED size
    /\ bits' = IF val THEN bits ELSE bits \ {n}

\* set_bit_conditional(n, val, condition): bit n takes val only when it
\* equals condition.
SetBitConditional(n, val, condition) ==
    IF val = condition THEN UNCHANGED <<bits, size>>
    ELSE /\ bits' = IF (n \in bits) = condition
                    THEN (IF val THEN bits \cup {n} ELSE bits \ {n})
                    ELSE bits
         /\ size' = Grown(n)

\* inc(n) / flip(n): bit n, a position below size, is complemented.
Flip(n) ==
    /\ n < size
    /\ UNCHANGED size
    /\ bits' = IF n \in bits THEN bits \ {n} ELSE bits \cup {n}

\* set_range(left, right, v).  Clearing a range of a vector that has no
\* storage yet returns before the vector grows.
SetRange(left, right, v) ==
    /\ IF v THEN size' = Grown(right) ELSE size' \in {size, Grown(right)}
    /\ bits' = IF v THEN bits \cup (left .. right) ELSE bits \ (left .. right)

\* resize(n): shrinking clears the tail.
Resize(n) ==
    /\ size' = n
    /\ bits' = {p \in bits : p < n}

\* invert(): every position below size is complemented, the rest is 0.
Invert ==
    /\ UNCHANGED size
    /\ bits' = {p \in 0 .. size - 1 : p \notin bits}

\* reset(): no bit is set.
Reset ==
    /\ UNCHANGED size
    /\ bits' = {}

\* insert(n, v): positions from n move up by one, v lands at n, the bit
\* pushed past id_max - 1 is the returned carry.
Inserted(bs, n, v) ==
    {p \in bs : p < n} \cup (IF v THEN {n} ELSE {})
        \cup {p + 1 : p \in {q \in bs : q >= n /\ q + 1 < IdMax}}
InsertCarry(bs, n) == (IdMax - 1) \in bs /\ n <= IdMax - 1

\* erase(n): positions above n move down by one.
Erased(bs, n) == {p \in bs : p < n} \cup {p - 1 : p \in {q \in bs : q > n}}

Insert(n, v) ==
    LET sz == IF size < IdMax THEN size + 1 ELSE size IN
    /\ size' \in {sz, IF v /\ n >= sz THEN n + 1 ELSE sz}
    /\ bits' = Inserted(bits, n, v)

Erase(n) ==
    /\ UNCHANGED size
    /\ bits' = Erased(bits, n)

Next ==
    \/ \E n \in Pos, v \in BOOLEAN :
          SetBit(n, v) \/ SetBitAnd(n, v) \/ Insert(n, v)
    \/ \E n \in Pos, v, c \in BOOLEAN : SetBitConditional(n, v, c)
    \/ \E n \in Pos : Flip(n) \/ Erase(n) \/ Resize(n) \/ Resize(IdMax)
    \/ \E l \in Pos : \E r \in l .. IdMax - 1, v \in BOOLEAN : SetRange(l, r, v)
    \/ Invert
    \/ Reset

Spec == Init /\ [][Next]_<<bits, size>>

TypeOK == bits \subseteq Pos /\ size \in 0 .. IdMax

=============================================================================
