------------------------------ MODULE MCBVXor ------------------------------
(***************************************************************************)
(* BVXor for TLC: 2-bit words, 3 words per wave and 2 waves, so a block    *)
(* has 12 bits, a wave 6, and bie_limit is 4.  The block values are chosen *)
(* so that every branch of the scanner is taken (see README.md).           *)
(***************************************************************************)
EXTENDS BVXor

\* the block whose 1 bits are the 1 bits of the binary number v
Blk(v) == {k \in Offsets : (v \div 2^k) % 2 = 1}

\* Bit-blocks (bits 0-5 are wave 0, bits 6-11 wave 1).  Validated alone
\* against one reference they give every verdict: 1408 vs 1187 BC,
\* 1187 vs 1883 GC, 3901 vs 192 iBC, 1883 vs 1187 none, any block vs
\* itself EQ; 1408 vs 192 takes the no-gain GC branch (both have wave 0
\* empty), and with gain 2 that candidate outranks 1187 for 1408.
\* 1365 alternates 0101.. in both waves (GAP count 6 each): against
\* itself its GC gain is 12 = gap_max_bits, which breaks the mask loop.
MCBitBlocks == {Blk(1408), Blk(192), Blk(1883), Blk(3901), Blk(1187), Blk(1365)}

\* GAP blocks: against the reference 1344, 1344 is identical, 1342 wins on
\* length (GC) and 175 on inverse count (iBC); against 4095 (one run, 2
\* words long) 4087 wins on bit count; 4095 as a target is too short.
MCGapBlocks == {Blk(1344), Blk(1342), Blk(175), Blk(4087), Blk(4095)}

BitB(v) == [form |-> "bit", val |-> Blk(v)]
GapB(v) == [form |-> "gap", val |-> Blk(v)]

\* the rows of the bit-matrices handed to build / add_vectors; the
\* one-row matrices also follow a build in add_vectors
MCMatrices == { << BitB(192), BitB(1187) >>,
                << NoRow, BitB(1883), GapB(1344) >>,
                << GapB(4095), NullBlock, BitB(1408) >>,
                << BitB(1408) >>, << BitB(1365) >> }
\* the full list with ridx_to past its end (clamped), a tail and a head
MCRanges == { <<0, 4>>, <<1, 4>>, <<0, 1>> }
=============================================================================
