------------------------------- MODULE BVXor -------------------------------
(***************************************************************************)
(* The XOR similarity scanner of BitMagic (src/src/bmxor.h): the per-wave  *)
(* complexity descriptor of a bit-block, the XOR descriptor against a      *)
(* reference block, the choice of the best XOR digest, the reference-      *)
(* vector list (bv_ref_vector) and the scanner object (xor_scanner) with   *)
(* its search, GAP search and validation steps.                            *)
(*                                                                         *)
(* A block is the set of the offsets of its 1 bits.  Word n is offsets     *)
(* n*WordBits .. n*WordBits+WordBits-1 with its lowest offset as bit 0,    *)
(* and wave i is words i*WaveWords .. i*WaveWords+WaveWords-1, the layout  *)
(* of bm::word_t arrays with set_block_digest_wave_size words per wave.  A *)
(* word is the set of its 1-bit positions, so w ^ v is the symmetric       *)
(* difference and w >> 1 moves every position down by one.  A 64-bit wave *)
(* digest is the set of the wave numbers it has.                           *)
(***************************************************************************)
EXTENDS Naturals, FiniteSets, Sequences, FiniteSetsExt

CONSTANTS
    WordBits,    \* bits in a bm::word_t (32 in the code)
    WaveWords,   \* bm::set_block_digest_wave_size (32 in the code)
    Waves,       \* bm::block_waves (64 in the code)
    GainMin,     \* validate_found's overhead floor (13 bytes = 104 bits)
    BitBlocks,   \* bit-block contents a target or a reference can hold
    GapBlocks,   \* GAP-block contents (as the bits they decode to)
    Matrices,    \* bit-matrices add_vectors may be given (rows: NoRow or a block)
    RefMax,      \* bound on the length of the reference list
    Ranges       \* [ridx_from, ridx_to) ranges the caller scans

NoRow == [form |-> "no_row", val |-> {}]   \* bmatr.get_row(r) returned NULL

BlockBits == Waves * WaveWords * WordBits   \* bm::gap_max_bits
WaveBits == WaveWords * WordBits            \* set_block_digest_wave_size * 32
WaveIdx == 0 .. Waves - 1
Offsets == 0 .. BlockBits - 1
WaveSpan(i) == i * WaveBits .. i * WaveBits + WaveBits - 1

\* bm::gap_max_bits / 3.0 of search_best_xor_mask (bie_bits_per_int = 3)
BieLimit == BlockBits \div 3

\* a ^ b of two words or blocks
XorBits(a, b) == (a \ b) \cup (b \ a)

Word(x, n) == {k - n * WordBits : k \in {k \in x : k \div WordBits = n}}

\* bm::word_bitcount
PopCount(w) == Cardinality(w)

\* w >> 1
ShiftR1(w) == {k - 1 : k \in w \ {0}}

\* w >> w_shift with w_shift = bits-per-word - 1: the word's top bit
TopBit(w) == IF WordBits - 1 \in w THEN 1 ELSE 0

\* w & 1
LowBit(w) == IF 0 \in w THEN 1 ELSE 0

(***************************************************************************)
(* bit_block_xor_change32: the GAP count and bit count of block XOR        *)
(* xor_block over size words starting at word n.  The first word is done  *)
(* before the loop; XorChangeLoop is the for loop, carrying gap_count,     *)
(* bit_count and w_prev.                                                   *)
(***************************************************************************)
\* the first word, done before the loop
FirstWord(w0) ==
    [gc |-> 1 + PopCount(XorBits(w0, ShiftR1(w0))) - TopBit(w0),
     bc |-> PopCount(w0), wprev |-> TopBit(w0)]

WordStepNoBorder(acc, w0) ==
    IF w0 = {}
    THEN [gc |-> acc.gc + 1 - (1 - acc.wprev), bc |-> acc.bc, wprev |-> 0]
    ELSE [gc |-> acc.gc + 1 + PopCount(XorBits(w0, ShiftR1(w0))) - TopBit(w0),
          bc |-> acc.bc + PopCount(w0), wprev |-> TopBit(w0)]

\* one turn of the loop on w0 = *block ^ *xor_block
WordStep(acc, w0) ==
    IF w0 = {}
    THEN [gc |-> acc.gc + 1 - (1 - acc.wprev), bc |-> acc.bc, wprev |-> 0]
    ELSE [gc |-> acc.gc + 1 + PopCount(XorBits(w0, ShiftR1(w0))) - TopBit(w0)
                 - (IF acc.wprev = LowBit(w0) THEN 1 ELSE 0),
          bc |-> acc.bc + PopCount(w0), wprev |-> TopBit(w0)]

RECURSIVE XorChangeLoop(_, _, _, _, _)
XorChangeLoop(a, b, n, end, acc) ==
    IF n >= end THEN acc
    ELSE XorChangeLoop(a, b, n + 1, end, WordStep(acc, XorBits(Word(a, n), Word(b, n))))

XorChange32(a, b, n, size) ==
    LET res == XorChangeLoop(a, b, n + 1, n + size, FirstWord(XorBits(Word(a, n), Word(b, n))))
    IN  [gc |-> res.gc, bc |-> res.bc]

\* bit_block_xor_change: the dispatcher, over wave i of the two blocks
BitBlockXorChange(a, b, i) == XorChange32(a, b, i * WaveWords, WaveWords)

(***************************************************************************)
(* The bmfunc.h counters the scanner calls (bit_block_change32,            *)
(* bit_count_min_unroll, bit_block_change_bc): the GAP count of a range is *)
(* one plus the number of adjacent bits that differ, the bit count is the  *)
(* number of ones.  ChangeBC(x, lo, n) covers offsets lo .. lo+n-1.         *)
(***************************************************************************)
ChangeBC(x, lo, n) ==
    [gc |-> 1 + Cardinality({k \in lo .. lo + n - 2 : (k \in x) # (k + 1 \in x)}),
     bc |-> Cardinality(x \cap lo .. lo + n - 1)]

BlockChangeBC(x) == ChangeBC(x, 0, BlockBits)

\* gap_length: the header word plus one end position per run
GapLength(x) == BlockChangeBC(x).gc + 1

\* calc_block_digest0: the waves that hold a one bit
Digest0(x) == {i \in WaveIdx : x \cap WaveSpan(i) # {}}

\* compute_complexity_descr: sb_gc / sb_bc of each wave of the target
ComputeComplexityDescr(x) == [i \in WaveIdx |-> ChangeBC(x, i * WaveBits, WaveBits)]

(***************************************************************************)
(* compute_xor_complexity_descr: pass 1 measures each wave of block XOR    *)
(* xor_block, pass 2 sums the GC, BC and iBC gains over the non-zero waves *)
(* of block, and the larger gain wins (GC only when strictly above both).  *)
(* With no gain at all, the match is GC over the zero waves when both      *)
(* blocks have the same zero waves (the "stunt" branch), otherwise none.   *)
(***************************************************************************)
\* pass 2 over the descriptor xd of the XOR and descr of the target: the
\* digests of the non-zero waves of the target that improve on each metric
WaveGains(live, xd, descr) ==
    [gc  |-> {i \in live : xd[i].gc <= 1 \/ xd[i].gc < descr[i].gc},
     bc  |-> {i \in live : xd[i].bc < descr[i].bc},
     ibc |-> {i \in live : WaveBits - xd[i].bc < WaveBits - descr[i].bc}]

\* block_gc_gain, block_bc_gain and block_ibc_gain summed over the digests
GainTotals(d, xd, descr) ==
    [gc  |-> MapThenSumSet(LAMBDA i : IF xd[i].gc <= 1 THEN descr[i].gc
                                      ELSE descr[i].gc - xd[i].gc, d.gc),
     bc  |-> MapThenSumSet(LAMBDA i : descr[i].bc - xd[i].bc, d.bc),
     ibc |-> MapThenSumSet(LAMBDA i : xd[i].bc - descr[i].bc, d.ibc)]

Match(t, g, d) == [mtype |-> t, gain |-> g, digest |-> d]

\* the winning metric; d0 and d0x are the zero waves of block and xor_block
PickMatch(d, g, d0, d0x) ==
    IF g.gc + g.bc + g.ibc = 0
    THEN IF d0 = d0x THEN Match("GC", Waves, d0) ELSE Match("none", 0, {})
    ELSE IF g.gc > g.bc
         THEN IF g.gc > g.ibc THEN Match("GC", g.gc, d.gc) ELSE Match("iBC", g.ibc, d.ibc)
         ELSE IF g.bc > g.ibc THEN Match("BC", g.bc, d.bc) ELSE Match("iBC", g.ibc, d.ibc)

XorMatch(d, xd, descr, d0, d0x) == PickMatch(d, GainTotals(d, xd, descr), d0, d0x)

ComputeXorComplexityDescr(block, xor_block, descr) ==
    LET xd == [i \in WaveIdx |-> BitBlockXorChange(block, xor_block, i)]
    IN  XorMatch(WaveGains(Digest0(block), xd, descr), xd, descr,
                 WaveIdx \ Digest0(block), WaveIdx \ Digest0(xor_block))

\* bit_block_xor: the waves in digest are XORed with xor_block, the others copied
BitBlockXor(block, xor_block, digest) ==
    UNION {IF i \in digest
           THEN XorBits(block \cap WaveSpan(i), xor_block \cap WaveSpan(i))
           ELSE block \cap WaveSpan(i) : i \in WaveIdx}

\* xor_scanner::best_metric: the cheapest of GC, BC and iBC for (bc, gc)
BestMetric(bc, gc) ==
    LET ibc == BlockBits - bc
    IN  CASE ibc = 0 -> [mtype |-> "GC", best |-> gc]
          [] gc < bc /\ gc < ibc -> [mtype |-> "GC", best |-> gc]
          [] gc >= bc /\ bc < ibc -> [mtype |-> "BC", best |-> bc]
          [] OTHER -> [mtype |-> "iBC", best |-> ibc]

(***************************************************************************)
(* The reference list and the scanner object.  A reference block (what     *)
(* get_ref_block returns for the block coordinate being encoded) is a      *)
(* record: form "null" (not IS_VALID_ADDR), "bit" or "gap".                *)
(***************************************************************************)
NullBlock == [form |-> "null", val |-> {}]
BlockForms == {NullBlock} \cup [form : {"bit"}, val : BitBlocks]
                          \cup [form : {"gap"}, val : GapBlocks]
NoBlock == [form |-> "none", val |-> {}]     \* found_block_xor_ = 0
MatchTypes == {"none", "GC", "BC", "iBC", "EQ"}

VARIABLES
    refs,           \* bv_ref_vector: ref_bvects_ with ref_bvects_rows_, as <<[blk, row]>>
    rows_acc,       \* bv_ref_vector::rows_acc_
    blk,            \* the block the caller passes in: [form, val]
    x_descr,        \* x_descr_.sb_gc / sb_bc, per wave
    x_bc, x_gc,     \* x_bc_, x_gc_
    x_best_metric,  \* x_best_metric_
    x_block_best,   \* x_block_best_metric_
    x_block_mtype,  \* x_block_mtype_
    x_d64,          \* x_d64_ (a set of waves)
    found_ridx,     \* found_ridx_
    found_block,    \* found_block_xor_ (the block it points to, or NoBlock)
    last,           \* the last search call, its result and best_ri: [op, ret, cand]
    vres            \* what validate_found just computed (the caller uses it at once)

vars == <<refs, rows_acc, blk, x_descr, x_bc, x_gc, x_best_metric, x_block_best,
          x_block_mtype, x_d64, found_ridx, found_block, last, vres>>
scanVars == <<x_descr, x_bc, x_gc, x_best_metric, x_block_best, x_block_mtype,
              x_d64, found_ridx, found_block>>

\* no search made since the target or the reference list was last set
NoSearch == [op |-> "none", ret |-> FALSE, cand |-> -1]
NoVres == [called |-> FALSE, verdict |-> "none", t |-> {}, key |-> {}, d64 |-> {}, out |-> {}]

TypeOKXor ==
    /\ refs \in Seq([blk : BlockForms, row : Nat]) /\ Len(refs) <= RefMax
    /\ rows_acc \in Nat
    /\ blk \in {NoBlock} \cup BlockForms
    /\ x_descr \in [WaveIdx -> [gc : Nat, bc : Nat]]
    /\ x_bc \in Nat /\ x_gc \in Nat /\ x_best_metric \in Nat /\ x_block_best \in Nat
    /\ x_block_mtype \in MatchTypes
    /\ x_d64 \subseteq WaveIdx
    /\ found_ridx \in Nat
    /\ found_block \in BlockForms \cup {NoBlock}
    /\ last \in [op : {"none", "mask", "gap"}, ret : BOOLEAN, cand : {-1} \cup Nat]
    /\ vres \in [called : BOOLEAN, verdict : MatchTypes, t : SUBSET Offsets, key : SUBSET Offsets,
                 d64 : SUBSET WaveIdx, out : SUBSET Offsets]

\* The members of xor_scanner have no initialiser; the guards below never
\* read one before compute_x_block_stats or a search has written it.
Init ==
    /\ refs = <<>> /\ rows_acc = 0
    /\ blk = NoBlock
    /\ x_descr = [i \in WaveIdx |-> [gc |-> 0, bc |-> 0]]
    /\ x_bc = 0 /\ x_gc = 0 /\ x_best_metric = 0 /\ x_block_best = 0
    /\ x_block_mtype = "none" /\ x_d64 = {}
    /\ found_ridx = 0 /\ found_block = NoBlock
    /\ last = NoSearch
    /\ vres = NoVres

(***************************************************************************)
(* bv_ref_vector::add_vectors (and add): every non-NULL row r of the       *)
(* matrix is appended with row index rows_acc_ + r, then rows_acc_ grows   *)
(* by the number of rows.  build is reset followed by add_vectors.  The    *)
(* serializer fills the list before it scans the blocks, so a change of   *)
(* the list starts the scan again (last is reset).                        *)
(***************************************************************************)
AddRowsKeepNull(rs, acc, m) ==
    rs \o [r \in 1 .. Len(m) |-> [blk |-> m[r], row |-> acc + r - 1]]

AddRows(rs, acc, m) ==
    rs \o SelectSeq([r \in 1 .. Len(m) |-> [blk |-> m[r], row |-> acc + r - 1]],
                    LAMBDA e : e.blk # NoRow)

AddVectors(m) ==
    /\ Len(AddRows(refs, rows_acc, m)) <= RefMax
    /\ refs' = AddRows(refs, rows_acc, m)
    /\ rows_acc' = rows_acc + Len(m)
    /\ last' = NoSearch
    /\ vres' = NoVres
    /\ UNCHANGED <<blk, scanVars>>

BuildNoAcc(m) ==
    /\ refs' = AddRows(<<>>, 0, m)
    /\ rows_acc' = 0
    /\ last' = NoSearch
    /\ vres' = NoVres
    /\ UNCHANGED <<blk, scanVars>>

Build(m) ==
    /\ refs' = AddRows(<<>>, 0, m)
    /\ rows_acc' = Len(m)
    /\ last' = NoSearch
    /\ vres' = NoVres
    /\ UNCHANGED <<blk, scanVars>>

\* bv_ref_vector::find: the first position holding row index idx, or ~0
NotFound == -1
Find(rs, idx) ==
    IF \E k \in 1 .. Len(rs) : rs[k].row = idx
    THEN (CHOOSE k \in 1 .. Len(rs) : rs[k].row = idx /\ \A k2 \in 1 .. k - 1 : rs[k2].row # idx) - 1
    ELSE NotFound

(***************************************************************************)
(* compute_x_block_stats: the wave descriptor, the whole-block GC and BC,  *)
(* and the block's best metric, which also starts x_best_metric_.  A new  *)
(* target starts a new search: last records that none was made for it.    *)
(***************************************************************************)
ComputeXBlockStats(b) ==
    LET ch == BlockChangeBC(b)
        bm == BestMetric(ch.bc, ch.gc)
    IN  /\ Len(refs) > 0
        /\ blk' = [form |-> "bit", val |-> b]
        /\ x_descr' = ComputeComplexityDescr(b)
        /\ x_gc' = ch.gc /\ x_bc' = ch.bc
        /\ x_block_mtype' = bm.mtype
        /\ x_block_best' = bm.best /\ x_best_metric' = bm.best
        /\ last' = NoSearch
        /\ vres' = NoVres
        /\ UNCHANGED <<refs, rows_acc, x_d64, found_ridx, found_block>>

(***************************************************************************)
(* search_best_xor_mask, the for-ri loop: acc holds best_ri,               *)
(* best_block_gain and d64, and stop once the loop breaks.  A reference    *)
(* that is not a valid bit-block is skipped; a candidate replaces the best *)
(* only with a strictly larger gain and a non-empty digest, and a gain of  *)
(* gap_max_bits ends the loop.                                             *)
(***************************************************************************)
MaskStep(acc, ri, form, m) ==
    IF form = "bit" /\ m.digest # {} /\ m.gain > acc.gain
    THEN [ri |-> ri, gain |-> m.gain, d64 |-> m.digest, stop |-> m.gain >= BlockBits]
    ELSE acc

RECURSIVE ScanMask(_, _, _, _, _, _)
ScanMask(t, descr, rs, ri, hi, acc) ==
    IF ri >= hi \/ acc.stop THEN acc
    ELSE ScanMask(t, descr, rs, ri + 1, hi,
                  MaskStep(acc, ri, rs[ri + 1].blk.form,
                           ComputeXorComplexityDescr(t, rs[ri + 1].blk.val, descr)))

NoCandidate == [ri |-> -1, gain |-> 0, d64 |-> {}, stop |-> FALSE]

AcceptNoLimit(best, metric) == IF metric < best THEN metric ELSE best

\* x_best_metric_ after one of the GC, BC, iBC checks on metric
Accept(best, metric) == IF metric < best /\ metric < BieLimit THEN metric ELSE best

(***************************************************************************)
(* search_best_xor_mask: clamp ridx_to, clear found_block_xor_, scan, then *)
(* validate the best candidate c on the XOR product tb: an all-zero tb is  *)
(* a BC match; otherwise GC, BC and iBC of tb are tried in that order,     *)
(* each accepted when below both x_best_metric_ and bie_limit.  x_d64_     *)
(* takes the candidate's digest whether or not it was accepted.            *)
(***************************************************************************)
MaskResult(c) ==
    LET rb == refs[c.ri + 1].blk
        ch == BlockChangeBC(BitBlockXor(blk.val, rb.val, c.d64))
        best == Accept(Accept(Accept(x_best_metric, ch.gc), ch.bc), BlockBits - ch.bc)
        eq == c.ri # -1 /\ ch.bc = 0
        found == eq \/ (c.ri # -1 /\ best < x_best_metric)
    IN  /\ x_best_metric' = IF eq THEN 0 ELSE IF c.ri # -1 THEN best ELSE x_best_metric
        /\ x_block_mtype' = IF eq THEN "BC" ELSE x_block_mtype
        /\ found_ridx' = IF found THEN c.ri ELSE found_ridx
        /\ found_block' = IF found THEN rb ELSE NoBlock
        /\ x_d64' = c.d64
        /\ last' = [op |-> "mask", ret |-> found, cand |-> c.ri]

SearchBestXorMask(from, to) ==
    /\ blk.form = "bit"
    /\ from <= to
    /\ MaskResult(ScanMask(blk.val, x_descr, refs, from,
                           IF to > Len(refs) THEN Len(refs) ELSE to, NoCandidate))
    /\ vres' = NoVres
    /\ UNCHANGED <<refs, rows_acc, blk, x_descr, x_bc, x_gc, x_block_best>>

(***************************************************************************)
(* search_best_xor_gap, the for-ri loop over GAP references: acc holds     *)
(* best_gap_metric, kb_found and the found_ridx_ / found_block_xor_ /      *)
(* x_block_mtype_ it sets.  Each improvement of length, bit count or       *)
(* inverse bit count must gain more than 2; an all-zero product is taken   *)
(* as identical; a best metric of 1 or less ends the loop.  The length a   *)
(* reference must exceed 3 in is gap_length(gap_block), the target's.      *)
(* gap_operation_xor's res_len is the length of the product, so the        *)
(* res_len > glen overflow test never skips.                               *)
(***************************************************************************)
GapTakeAnyGain(acc, metric, ri, r, mt) ==
    IF metric < acc.best
    THEN [acc EXCEPT !.best = metric, !.found = TRUE, !.ri = ri, !.blk = r, !.mtype = mt]
    ELSE acc

GapTake(acc, metric, ri, r, mt) ==
    IF metric < acc.best /\ acc.best - metric > 2
    THEN [acc EXCEPT !.best = metric, !.found = TRUE, !.ri = ri, !.blk = r, !.mtype = mt]
    ELSE acc

\* the loop breaks after a GAP reference leaves best_gap_metric at 1 or less
GapStop(acc) == [acc EXCEPT !.stop = acc.best <= 1]

GapStep(acc, ri, r, res_len, res_bc) ==
    GapTake(GapTake(GapTake(IF res_bc = 0
                            THEN [acc EXCEPT !.best = 0, !.found = TRUE, !.ri = ri,
                                             !.blk = r, !.mtype = "BC"]
                            ELSE acc,
                            res_len, ri, r, "GC"),
                    res_bc, ri, r, "BC"),
            BlockBits - res_bc, ri, r, "iBC")

RECURSIVE ScanGap(_, _, _, _, _)
ScanGap(t, rs, ri, hi, acc) ==
    IF ri >= hi \/ acc.stop THEN acc
    ELSE IF rs[ri + 1].blk.form # "gap" \/ GapLength(t) <= 3
    THEN ScanGap(t, rs, ri + 1, hi, acc)
    ELSE ScanGap(t, rs, ri + 1, hi,
                 GapStop(GapStep(acc, ri, rs[ri + 1].blk,
                                 GapLength(XorBits(t, rs[ri + 1].blk.val)),
                                 BlockChangeBC(XorBits(t, rs[ri + 1].blk.val)).bc)))

GapResult(g) ==
    /\ found_ridx' = g.ri /\ found_block' = g.blk /\ x_block_mtype' = g.mtype
    /\ last' = [op |-> "gap", ret |-> g.found, cand |-> -1]

SearchBestXorGap(b, from, to) ==
    LET bc == BlockChangeBC(b).bc
        start == [best |-> IF bc < GapLength(b) THEN bc ELSE GapLength(b),
                  found |-> FALSE, ri |-> found_ridx, blk |-> found_block,
                  mtype |-> x_block_mtype, stop |-> FALSE]
    IN  /\ from <= to
        /\ blk' = [form |-> "gap", val |-> b]
        /\ GapResult(IF GapLength(b) <= 3 THEN start
                     ELSE ScanGap(b, refs, from, IF to > Len(refs) THEN Len(refs) ELSE to, start))
        /\ vres' = NoVres
        /\ UNCHANGED <<refs, rows_acc, x_descr, x_bc, x_gc, x_best_metric, x_block_best,
                       x_d64>>

(***************************************************************************)
(* validate_found: XOR the target with the found block under x_d64_ into   *)
(* the caller's buffer and score it.  An all-zero product of a target      *)
(* bit-equal to the found block is EQ; otherwise the product's best metric *)
(* must beat the target's block metric by more than the overhead, counted  *)
(* as 3 bits per unit of metric.  The serializer calls it only after       *)
(* search_best_xor_mask returned true (it asserts x_d64_ and dereferences  *)
(* found_block_xor_).                                                      *)
(***************************************************************************)
\* the verdict for target t, found block key, product score ch and its
\* best_metric bm, against the block metric xbest
VerdictEqGC(t, key, ch, bm, xbest) ==
    IF bm.mtype = "GC" /\ ch.bc = 0 /\ t = key THEN "EQ"
    ELSE IF bm.best < xbest /\ 3 * (xbest - bm.best) > GainMin THEN bm.mtype ELSE "none"

VerdictNoGainMin(t, key, ch, bm, xbest) ==
    IF bm.mtype = "BC" /\ ch.bc = 0 /\ t = key THEN "EQ"
    ELSE IF bm.best < xbest THEN bm.mtype ELSE "none"

Verdict(t, key, ch, bm, xbest) ==
    IF bm.mtype = "BC" /\ ch.bc = 0 /\ t = key THEN "EQ"
    ELSE IF bm.best < xbest /\ 3 * (xbest - bm.best) > GainMin THEN bm.mtype ELSE "none"

ValidateOut(t, key, out) ==
    LET ch == BlockChangeBC(out)
    IN  vres' = [called |-> TRUE, t |-> t, key |-> key, d64 |-> x_d64, out |-> out,
                 verdict |-> Verdict(t, key, ch, BestMetric(ch.bc, ch.gc), x_block_best)]

ValidateFound ==
    /\ last.op = "mask" /\ last.ret
    /\ ValidateOut(blk.val, found_block.val, BitBlockXor(blk.val, found_block.val, x_d64))
    /\ UNCHANGED <<refs, rows_acc, blk, scanVars, last>>

Next ==
    \/ \E m \in Matrices : AddVectors(m) \/ Build(m)
    \/ \E b \in BitBlocks : ComputeXBlockStats(b)
    \/ \E r \in Ranges : SearchBestXorMask(r[1], r[2])
    \/ \E b \in GapBlocks, r \in Ranges : SearchBestXorGap(b, r[1], r[2])
    \/ ValidateFound

Spec == Init /\ [][Next]_vars

(***************************************************************************)
(* Reference definitions the properties compare against: T XOR (R & D) as *)
(* the specification writes it, and the three encoding costs of a block.  *)
(***************************************************************************)
WaveMask(D) == UNION {WaveSpan(i) : i \in D}
XorUnder(t, r, D) == XorBits(t, r \cap WaveMask(D))

Cost(x, kind) ==
    CASE kind = "GC"  -> BlockChangeBC(x).gc
      [] kind = "BC"  -> BlockChangeBC(x).bc
      [] kind = "iBC" -> BlockBits - BlockChangeBC(x).bc
SpecBest(x) == Min({Cost(x, k) : k \in {"GC", "BC", "iBC"}})

\* The cost search_best_xor_gap scores a GAP product by: its length for GC.
GapCost(x, kind) == IF kind = "GC" THEN GapLength(x) ELSE Cost(x, kind)

(***************************************************************************)
(* bit_block_xor_change32's word-at-a-time count (shifts, the top-bit      *)
(* correction and the word-border correction), as the mask search takes it *)
(* for the current target against every reference row in the list, equals *)
(* in every wave one plus the number of bit changes and the number of ones *)
(* of the XOR product.                                                     *)
(***************************************************************************)
XorChangeExact ==
    \A k \in 1 .. Len(refs) : \A i \in WaveIdx :
        LET a == blk.val
            b == refs[k].blk.val
        IN  BitBlockXorChange(a, b, i) = ChangeBC(XorBits(a, b), i * WaveBits, WaveBits)

(***************************************************************************)
(* validate_found is sound: a GC, BC or iBC verdict means T XOR (R & D),   *)
(* with R the found block and D the search digest, costs strictly less on *)
(* that metric than T's cheapest encoding, by more than the overhead; an  *)
(* EQ verdict means T is bit-equal to R and the product is empty.  It     *)
(* rests on compute_x_block_stats, the search and the validation agreeing *)
(* on one target, digest and block.                                       *)
(***************************************************************************)
ValidateSound ==
    LET out == XorUnder(vres.t, vres.key, vres.d64)
    IN  /\ vres.verdict \in {"GC", "BC", "iBC"} =>
               /\ Cost(out, vres.verdict) < SpecBest(vres.t)
               /\ 3 * (SpecBest(vres.t) - Cost(out, vres.verdict)) > GainMin
        /\ vres.verdict = "EQ" => vres.t = vres.key /\ out = {}
        /\ vres.called => vres.out = out

(***************************************************************************)
(* When the block search_best_xor_mask settles on is bit-equal to the      *)
(* target, validate_found reports EQ and the digest covers every non-zero *)
(* wave of the target (section 8 of the specification).                   *)
(***************************************************************************)
EqOnIdentical ==
    vres.called /\ vres.key = vres.t =>
        /\ vres.verdict = "EQ"
        /\ Digest0(vres.t) \subseteq vres.d64

(***************************************************************************)
(* After search_best_xor_mask returns true, found_ridx_ and                *)
(* found_block_xor_ name the same reference, a bit-block, and              *)
(* x_best_metric_ is a cost of T XOR (R & x_d64_) below bie_limit, or 0    *)
(* for an empty product, however many earlier searches lowered it.        *)
(***************************************************************************)
SearchResultSound ==
    last.op = "mask" /\ last.ret =>
        LET out == XorUnder(blk.val, found_block.val, x_d64)
        IN  /\ found_ridx < Len(refs)
            /\ found_block = refs[found_ridx + 1].blk
            /\ found_block.form = "bit"
            /\ \/ out = {} /\ x_best_metric = 0
               \/ /\ x_best_metric \in {Cost(out, k) : k \in {"GC", "BC", "iBC"}}
                  /\ x_best_metric < BieLimit

(***************************************************************************)
(* After search_best_xor_gap returns true, the found reference is a GAP    *)
(* block at found_ridx_, and the product scores, on the kind recorded in  *)
(* x_block_mtype_, at least 3 below the target's min(length, bit count),  *)
(* unless the product is empty (an identical block).                      *)
(***************************************************************************)
GapSearchSound ==
    last.op = "gap" /\ last.ret =>
        LET t == blk.val
            res == XorBits(t, found_block.val)
            start == Min({GapLength(t), Cost(t, "BC")})
        IN  /\ found_ridx < Len(refs)
            /\ found_block = refs[found_ridx + 1].blk
            /\ found_block.form = "gap"
            /\ \/ res = {} /\ x_block_mtype = "BC"
               \/ GapCost(res, x_block_mtype) + 3 <= start

(***************************************************************************)
(* bv_ref_vector::find inverts get_row_idx over any sequence of build and *)
(* add_vectors calls: every reference's row index is found at its own     *)
(* position, so no two references share a row index.                      *)
(***************************************************************************)
FindRow == \A k \in 1 .. Len(refs) : Find(refs, refs[k].row) = k - 1

(***************************************************************************)
(* The candidate search_best_xor_mask validates changes the target:       *)
(* specification section 4.7 emits a match with no gain on any metric    *)
(* only when T XOR R is empty.                                           *)
(***************************************************************************)
CandidateChangesTarget ==
    last.op = "mask" /\ last.cand # -1 =>
        LET r == refs[last.cand + 1].blk.val
        IN  XorUnder(blk.val, r, x_d64) # blk.val \/ XorBits(blk.val, r) = {}

=============================================================================
