--------------------------- MODULE SequencePacks ---------------------------
(***************************************************************************)
(* The rows of a microbatch packed into one row, for Megatron              *)
(* (nemo_rl/models/megatron/common.py) and for flash attention             *)
(* (nemo_rl/models/huggingface/common.py), and what a model attends to.    *)
(*                                                                         *)
(* A cu is the sequence of the places where the segments of a packed row   *)
(* start, and where the last one ends.                                     *)
(***************************************************************************)
EXTENDS ContextParallel

Sum(s) == FoldLeft(LAMBDA a, b : a + b, 0, s)
CuSeqlens(lens) == [i \in 1 .. Len(lens) + 1 |-> Sum(Upto(lens, i - 1))]
RoundUpToMultiple(value, multiple) == ((value + multiple - 1) \div multiple) * multiple

\* What a Megatron model is given: each sequence padded to a multiple of p.each, the whole to
\* one of p.whole, or to exactly p.exact (0: not).  m is the worker's configuration, with
\* m.fp8 the divisor the recipe asks for (0: no fp8).
PackParameters(m, longest) ==
    LET split == (IF m.cp > 1 THEN m.cp * 2 ELSE 1) * (IF m.tp > 1 /\ m.sp THEN m.tp ELSE 1)
        whole == IF m.fp8 > 0 THEN m.fp8 * split ELSE 1
    IN  [each |-> split, whole |-> whole,
         exact |-> IF m.pp > 1 THEN RoundUpToMultiple(longest, whole) ELSE 0]

\* Where the sequences start once padded; the last ends where the whole does.
End(p, unpadded) ==
    IF p.exact > 0 THEN p.exact ELSE RoundUpToMultiple(unpadded, p.whole)
PaddedCuSeqlens(lens, p) ==
    LET cu == CuSeqlens([i \in DOMAIN lens |-> RoundUpToMultiple(lens[i], p.each)])
    IN  [cu EXCEPT ![Len(cu)] = End(p, @)]

\* The tokens: sequences padded one by one, the last one up to the end, and cut for the
\* context-parallel ranks; or, where they need no padding of their own, put end to end.
PaddedSegments(rows, lens, p) ==
    LET cu == PaddedCuSeqlens(lens, p)
        size(i) == IF i < Len(lens) THEN RoundUpToMultiple(lens[i], p.each) ELSE cu[i + 1] - cu[i]
    IN  [i \in DOMAIN lens |-> RightPadded(Upto(rows[i], lens[i]), size(i), 0)]
EndToEnd(rows, lens, p) ==
    LET tokens == FlattenSeq([i \in DOMAIN lens |-> Upto(rows[i], lens[i])])
    IN  RightPadded(tokens, End(p, Len(tokens)), 0)
PackForMegatron(rows, lens, p, cp) ==
    LET segments == PaddedSegments(rows, lens, p)
        whole == IF p.each > 1 THEN FlattenSeq(segments) ELSE EndToEnd(rows, lens, p)
        shard(r) == IF p.each > 1 THEN FlattenSeq([i \in DOMAIN segments |-> TokensOnRank(segments[i], r, cp)])
                    ELSE whole
    IN  [ids |-> whole, onRank |-> [r \in Ranks(cp) |-> shard(r)], cu |-> PaddedCuSeqlens(lens, p)]

\* For flash attention: sequences end to end, padded to at least `least` tokens with `pad`.
GroupAndCat(sequences, pad, least) == RightPadded(FlattenSeq(sequences), least, pad)
PackSequences(rows, lens, pad, least) ==
    GroupAndCat([i \in DOMAIN lens |-> Upto(rows[i], lens[i])], pad, least)
FlashCuSeqlens(lens) == CuSeqlens(lens)

\* Segments from a packed row, `width` wide.
UnpackTensor(packed, lens, width, zero) ==
    [i \in DOMAIN lens |-> RightPadded(SegmentOf(packed, CuSeqlens(lens), i), width, zero)]

-----------------------------------------------------------------------------
\* What a model attends to: the tokens before, in the same row or segment.  With context
\* parallelism the ranks exchange what they hold.  Beyond the last segment anything.
Causal(ids) == [p \in DOMAIN ids |-> SubSeq(ids, 1, p)]
CausalOnRanks(ids, cp) == [r \in Ranks(cp) |-> TokensOnRank(Causal(ids), r, cp)]
CausalInSegments(ids, cu) ==
    RightPadded(FlattenSeq([i \in 1 .. Len(cu) - 1 |-> Causal(SegmentOf(ids, cu, i))]), Len(ids), <<0>>)
PackedContexts(onRank, cu, cp) ==
    IF cp = 1 THEN [r \in Ranks(1) |-> CausalInSegments(onRank[0], cu)]
    ELSE [r \in Ranks(cp) |-> FlattenSeq([i \in 1 .. Len(cu) - 1 |->
             TokensOnRank(Causal(AllGathered([q \in Ranks(cp) |-> SegmentOnRank(onRank[q], cu, i, cp)], cp)), r, cp)])]
=============================================================================
