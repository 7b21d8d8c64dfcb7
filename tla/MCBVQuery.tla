----------------------------- MODULE MCBVQuery ------------------------------
(***************************************************************************)
(* BVQuery for TLC: the tree of MCBVector, and block_count_to checked on   *)
(* its own over every block of twelve bits, where all seven of its         *)
(* branches are reachable (they are not with two-bit blocks).             *)
(***************************************************************************)
EXTENDS MCBVector, BVQuery

\* The writes' positions: one or two of every block, so that set_range
\* still fills a whole block and a whole sub-array.
MCWriteArgs == {0, 1, 3, 4, 6}

\* A twelve-bit block split as rs3_border0 / rs3_border1 / rs3_half_span
\* split the 65536 bits of a real block (21824, 43648, 10912).
Rs12 == INSTANCE RsBlock
          WITH BlockBits <- 12, Border0 <- 3, Border1 <- 7, HalfSpan <- 2

\* block_count_to agrees with a direct count of [0, nbit] for every
\* twelve-bit block and every nbit, through each of its seven branches.
\* The table is a constant TLC computes once; it is read in every state
\* so that a wrong entry is reported as a violated invariant.
BlockCountToTable12 == Rs12!BlockCountToExact
BlockCountToExact12 == tree \in TreeT => BlockCountToTable12

=============================================================================
