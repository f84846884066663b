-------------------------- MODULE ContextParallel --------------------------
(***************************************************************************)
(* nemo_rl/distributed/model_utils.py: log probabilities, top-k logits and *)
(* gathered logits of tokens when the logits of a sequence are spread over *)
(* context-parallel ranks (its positions) and tensor-parallel ranks (the   *)
(* vocabulary).                                                            *)
(*                                                                         *)
(* Logits.  What the model computed at a position is determined by what it *)
(* attended to there, its context: a sequence of token ids.  Logits are a  *)
(* sequence of contexts, on every context-parallel rank its own (ranks     *)
(* count from 0).  Tensor-parallel rank t has the columns t * g.columns .. *)
(* (t + 1) * g.columns - 1 of all of them.                                 *)
(*                                                                         *)
(* Numbers.  The log probability of a token after a context is the set     *)
(* {<<context, token>>}; 0 is {}, and a sum is the union.                  *)
(*                                                                         *)
(* A geometry g is a record [cp, tp, columns].                             *)
(***************************************************************************)
EXTENDS Integers, Sequences, SequencesExt, FiniteSets, FiniteSetsExt, Functions, TLC

Ranks(n) == 0 .. n - 1
Zeros(n) == [k \in 1 .. n |-> 0]
\* f itself; TLC computes its values here, once.
Whole(f) == f @@ <<>>
RightPadded(s, n, pad) == s \o [k \in 1 .. Max({0, n - Len(s)}) |-> pad]
Rolled(s) == Tail(s) \o <<Head(s)>>
Slice(s, start, end) == SubSeq(s, start + 1, end)
Upto(s, n) == SubSeq(s, 1, IF n < Len(s) THEN n ELSE Len(s))

\* The pieces of s, `size` long, in which the chunked versions go through it.
Pieces(s, size) ==
    [c \in 1 .. (Len(s) + size - 1) \div size |-> Upto(Slice(s, (c - 1) * size, Len(s)), size)]

-----------------------------------------------------------------------------
\* Context parallelism.  A rank has chunks r and 2 * cp - 1 - r of 2 * cp.
TokensOnRank(s, r, cp) ==
    LET size == Len(s) \div (2 * cp)
        chunk(i) == Slice(s, i * size, (i + 1) * size)
    IN  IF cp = 1 THEN s ELSE chunk(r) \o chunk(2 * cp - r - 1)

\* all_gather, then undo the chunking: every shard is cut in two (torch.chunk gives the first
\* piece the odd element), the pieces are sorted by the index of their chunk.
AllGathered(shards, cp) ==
    LET all == Whole(shards)
        half(r) == (Len(all[r]) + 1) \div 2
        piece(i) == IF i < cp THEN Slice(all[i], 0, half(i))
                    ELSE LET r == 2 * cp - i - 1 IN Slice(all[r], half(r), Len(all[r]))
    IN  FlattenSeq([i \in 1 .. 2 * cp |-> piece(i - 1)])
\* Its gradient: the sum over the ranks, and of it the chunks of the rank.
GradientOfGathered(grads, r, cp) ==
    TokensOnRank([p \in DOMAIN grads[0] |-> MapThenSumSet(LAMBDA q : grads[q][p], Ranks(cp))], r, cp)

-----------------------------------------------------------------------------
\* Log probabilities on a tensor-parallel rank: the normaliser is summed over the ranks, the
\* columns are the rank's own, and a target elsewhere counts 0.
LogSoftmax(context, t, g) == [column \in Ranks(g.columns) |-> {<<context, t * g.columns + column>>}]
IsMasked(target, t, g) == target < t * g.columns \/ target >= (t + 1) * g.columns
MaskedTarget(target, t, g) == IF IsMasked(target, t, g) THEN 0 ELSE target - t * g.columns
LocalLogprob(context, target, t, g) ==
    IF IsMasked(target, t, g) THEN {} ELSE LogSoftmax(context, t, g)[MaskedTarget(target, t, g)]

DistributedLogprob(contexts, targets, g) ==
    Whole([p \in DOMAIN targets |-> UNION {LocalLogprob(contexts[p], targets[p], t, g) : t \in Ranks(g.tp)}])
ChunkedDistributedLogprob(contexts, targets, g, size) ==
    FlattenSeq([c \in DOMAIN Pieces(contexts, size) |->
        DistributedLogprob(Pieces(contexts, size)[c], Pieces(targets, size)[c], g)])
Logprob(contexts, targets, g, size) ==
    IF size = 0 THEN DistributedLogprob(contexts, targets, g)
    ELSE ChunkedDistributedLogprob(contexts, targets, g, size)

\* The backward adds the gradient of position p at one place of rank t's flattened logits;
\* these are the <<position, token>> of the places.
FlatChosen(targets, t, g) ==
    {(p - 1) * g.columns + MaskedTarget(targets[p], t, g) : p \in {q \in DOMAIN targets : ~IsMasked(targets[q], t, g)}}
ChosenBy(targets, g) ==
    UNION {{<<flat \div g.columns + 1, t * g.columns + (flat % g.columns)>> : flat \in FlatChosen(targets, t, g)}
           : t \in Ranks(g.tp)}

\* The same for k given tokens at every position: local columns are clamped, then masked.
Clamped(index, t, g) == Max({0, Min({index - t * g.columns, g.columns - 1})})
LocalGather(context, index, t, g) ==
    IF IsMasked(index, t, g) THEN {} ELSE LogSoftmax(context, t, g)[Clamped(index, t, g)]
GatherLogprobs(contexts, indices, g) ==
    Whole([p \in DOMAIN indices |-> Whole([j \in DOMAIN indices[p] |->
        UNION {LocalGather(contexts[p], indices[p][j], t, g) : t \in Ranks(g.tp)}])])
ChunkedDistributedGatherLogprob(contexts, indices, g, size) ==
    FlattenSeq([c \in DOMAIN Pieces(contexts, size) |->
        GatherLogprobs(Pieces(contexts, size)[c], Pieces(indices, size)[c], g)])

\* Entropy over the whole vocabulary: every column of every rank counts.
Entropy(contexts, g) ==
    Whole([p \in DOMAIN contexts |-> UNION {UNION Range(LogSoftmax(contexts[p], t, g)) : t \in Ranks(g.tp)}])
ChunkedDistributedEntropy(contexts, g, size) ==
    FlattenSeq([c \in DOMAIN Pieces(contexts, size) |-> Entropy(Pieces(contexts, size)[c], g)])

-----------------------------------------------------------------------------
\* Log probabilities of the tokens of a row, each given the ones before it; contexts[r] is
\* what rank r holds, size the chunk size (0: none).  Every rank returns the whole row.
Sorted(s, index) == [p \in DOMAIN s |-> s[CHOOSE q \in DOMAIN s : index[q] = p - 1]]
Joined(shards, cp) == FlattenSeq([r \in 1 .. cp |-> shards[r - 1]])

\* DTensors: torch shards the row like TokensOnRank and seq_index says what went where.
SeqIndex(n, cp) == Joined([r \in Ranks(cp) |-> TokensOnRank([p \in 1 .. n |-> p - 1], r, cp)], cp)
TargetsAsSharded(ids, g) ==
    LET index == SeqIndex(Len(ids), g.cp)
        full == Joined([r \in Ranks(g.cp) |-> TokensOnRank(ids, r, g.cp)], g.cp)
        rolled == Rolled(Sorted(full, index))
    IN  [q \in DOMAIN rolled |-> rolled[index[q] + 1]]
DTensorTargets(ids, r, g) ==
    LET n == Len(ids) \div g.cp
    IN  IF g.cp > 1 THEN Slice(TargetsAsSharded(ids, g), r * n, (r + 1) * n) ELSE Rolled(ids)
LogprobsFromDTensor(contexts, ids, g, size) ==
    LET logprobs == Joined([r \in Ranks(g.cp) |-> Logprob(contexts[r], DTensorTargets(ids, r, g), g, size)], g.cp)
    IN  IF g.cp > 1 THEN Front(Sorted(logprobs, SeqIndex(Len(ids), g.cp)))
        ELSE Front(logprobs)
VocabParallelLogprobs(contexts, ids, g, size) == LogprobsFromDTensor(contexts, ids, g, size)

\* Megatron: targets are padded to what the ranks hold together, the padding is dropped.
ParallelTargets(contexts, ids, r, g) ==
    TokensOnRank(RightPadded(Rolled(ids), Len(contexts[0]) * g.cp, 0), r, g.cp)
LogprobsFromParallelLogits(contexts, ids, g, size) ==
    LET shards == [r \in Ranks(g.cp) |-> Logprob(contexts[r], ParallelTargets(contexts, ids, r, g), g, size)]
    IN  Front(Upto(IF g.cp > 1 THEN AllGathered(shards, g.cp) ELSE shards[0], Len(ids)))

\* The rows of a packed row: cu are the places where its segments start and the last ends.
\* Each segment is rolled and sharded on its own; rows get `width` - 1 columns.
SegmentOf(s, cu, i) == Slice(s, cu[i], cu[i + 1])
SegmentOnRank(s, cu, i, cp) == Slice(s, cu[i] \div cp, cu[i + 1] \div cp)
BadRolledTargets(ids, cu, r, cp) == TokensOnRank(Rolled(ids), r, cp)
RolledTargets(ids, cu, r, cp) ==
    FlattenSeq([i \in 1 .. Len(cu) - 1 |-> TokensOnRank(Rolled(SegmentOf(ids, cu, i)), r, cp)])
GatheredSegments(shards, cu, cp) ==
    LET all == Whole(shards)
    IN  IF cp = 1 THEN all[0]
        ELSE FlattenSeq([i \in 1 .. Len(cu) - 1 |->
                 AllGathered([r \in Ranks(cp) |-> SegmentOnRank(all[r], cu, i, cp)], cp)])
LogprobsFromPackedSequences(contexts, ids, cu, width, g, size) ==
    LET logprobs == GatheredSegments([r \in Ranks(g.cp) |->
                        Logprob(contexts[r], RolledTargets(ids, cu, r, g.cp), g, size)], cu, g.cp)
        row(i) == Upto(Front(SegmentOf(logprobs, cu, i)), width - 1)
    IN  [i \in 1 .. Len(cu) - 1 |-> RightPadded(row(i), width - 1, {})]

-----------------------------------------------------------------------------
\* Top-k of logits.  The logit of a token after a context is external; this one orders the
\* tokens differently after every context (Skew has no factor in common with the vocabulary).
Skew == 7
Logit(context, token, g) == (Skew * token + FoldLeft(LAMBDA a, b : a + b, 0, context)) % (g.tp * g.columns)
Better(tokens, token, context, g) == {b \in tokens : Logit(context, b, g) > Logit(context, token, g)}
BestOf(tokens, k, context, g) ==
    Whole([j \in 1 .. Min({k, Cardinality(tokens)}) |->
        CHOOSE token \in tokens : Cardinality(Better(tokens, token, context, g)) = j - 1])

\* Every rank's own top-k, in global token ids, are the candidates for the global one.
Candidates(context, k, t, g) == Range(BestOf({t * g.columns + c : c \in Ranks(g.columns)}, k, context, g))
VocabTopk(context, k, g) == BestOf(UNION {Candidates(context, k, t, g) : t \in Ranks(g.tp)}, k, context, g)
DistributedVocabTopk(contexts, k, g, size) ==
    LET pieces == Pieces(contexts, IF size = 0 THEN Len(contexts) ELSE size)
    IN  FlattenSeq([c \in DOMAIN pieces |-> [p \in DOMAIN pieces[c] |-> VocabTopk(pieces[c][p], k, g)]])

\* The logits of the k given tokens at every position of a row.  indices are padded only
\* if context parallelism is on.
IndicesOnRank(indices, local, r, cp) ==
    IF cp = 1 THEN indices
    ELSE TokensOnRank(RightPadded(indices, local * cp, <<0>>), r, cp)
GatherLogits(contexts, indices, g) ==
    LET gathered == AllGathered([r \in Ranks(g.cp) |->
                        GatherLogprobs(contexts[r], IndicesOnRank(indices, Len(contexts[r]), r, g.cp), g)], g.cp)
    IN  IF g.cp > 1 THEN Upto(gathered, Len(indices)) ELSE GatherLogprobs(contexts[0], indices, g)
=============================================================================
