---------------------------- MODULE MCBVector ------------------------------
(***************************************************************************)
(* Instantiations of BVector for TLC.  The cfg files give B, S and T; the   *)
(* definitions here give the argument sets the calls are made with.        *)
(***************************************************************************)
EXTENDS BVector

\* Two GAP levels: a one-run block is promoted on its first change.
MCGapLimit2 == <<1, 3>>

\* One GAP level: a block that outgrows two runs becomes a bit-block.
MCGapLimit1 == <<2>>

\* Every addressable position.
MCPos == 0 .. IdMax - 1

\* Insert and erase positions outside the last block.
MCShiftPos == 0 .. (NBlocks - 1) * B - 1

MCSizes == {3, IdMax}

\* NextBits with flip(n) called only for n below size().
NextBitsInSize ==
    \/ \E n \in Args, v \in BOOLEAN : SetBit(n, v)
    \/ \E n \in Args, v, c \in BOOLEAN : SetBitConditional(n, v, c)
    \/ \E n \in Args : n < size /\ IncOp(n)
    \/ \E l, r \in Args, v \in BOOLEAN : SetRange(l, r, v)
    \/ \E ns \in Sizes : ResizeOp(ns)
    \/ InvertOp
    \/ Reset
    \/ \E st \in Strats : SetNewBlocksStrat(st)

SpecBits == Init /\ [][NextBitsInSize]_vars

\* Every call, flip(n) at any position included.
SpecAll == Init /\ [][Next]_vars

\* Writes, set_bit_and, insert and erase.
SpecShift == Init /\ [][NextBits \/ NextAnd \/ NextShift]_vars
=============================================================================
