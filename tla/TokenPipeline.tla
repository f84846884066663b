--------------------------- MODULE TokenPipeline ---------------------------
(***************************************************************************)
(* A training step, token by token: conversations become rows of tokens,   *)
(* the rows go to the data-parallel ranks in microbatches, are packed and  *)
(* cut for context- and tensor-parallel ranks, log probabilities come back *)
(* to the driver, and the loss of the next call reads them, every one for  *)
(* the token and context it belongs to.                                    *)
(*                                                                         *)
(* The policy workers (nemo_rl/models/policy/workers) run one microbatch   *)
(* after the other, data-parallel ranks at their own pace; collectives,    *)
(* dummies and optimizer steps are those of PolicyWorkers.  "v1" and "v2"  *)
(* are the two DTensor workers; where their code is the same, a definition *)
(* stands for that of both.                                                *)
(***************************************************************************)
EXTENDS TokenLosses

CONSTANTS
    Jobs,       \* the training steps, each a record of the kind IsJob says
    Capacity,   \* train_mb_tokens, logprob_mb_tokens
    Round       \* dynamic_batching.sequence_length_round

Drivers == {"grpo", "async_grpo", "distillation", "sft", "dpo", "rm"}
Plain == "plain"
Dynamic == "dynamic"

\* A job: its driver; level: how GRPO's loss is aggregated; data: the logs of the data set
\* (for preferences chosen and rejected in turn); answers: what a rollout adds to them;
\* truncated: the samples whose generation was cut off; most: the longest prompt;
\* the worker's backend, its batching mode and its parallelism; gbs, mbs: batch sizes;
\* multiple: make_sequence_length_divisible_by; chunk: logprob_chunk_size (0: none);
\* best: topk_logits_k; rest: zero_outside_topk.
IsJob(j) ==
    /\ j.driver \in Drivers
    /\ j.backend \in {"v1", "v2", "megatron"}
    /\ j.mode \in {Plain, Dynamic, "concatenative", "modified_first_fit_decreasing"}
    /\ {j.dp, j.cp, j.tp, j.pp, j.gbs, j.mbs, j.multiple, j.vocab, j.most} \subseteq Nat \ {0}
    /\ {j.chunk, j.best, j.fp8} \subseteq Nat /\ {j.sp, j.rest} \subseteq BOOLEAN
    /\ j.vocab % j.tp = 0
    /\ j.backend = "megatron" =>
          /\ j.driver # "rm"
          /\ j.cp > 1 => j.mode \notin {Plain, Dynamic}
          /\ j.rest => j.cp > 1 \/ j.mode = Plain
    /\ j.backend # "megatron" => j.pp = 1 /\ (j.cp > 1 => j.mode \in {Plain, Dynamic})
    /\ j.mode \in {Plain, Dynamic} /\ j.cp > 1 => j.multiple % (2 * j.cp) = 0 /\ Round % (2 * j.cp) = 0
    /\ j.driver \in {"dpo", "rm"} => j.mode = Plain /\ j.mbs % 2 = 0
ASSUME JobsAssumption == \A j \in Jobs : IsJob(j)

VARIABLES
    job,
    phase,      \* "data", "call", "work" or "end"
    calls,      \* the calls to the policy still to be made, the one at work first
    batch,      \* train_data: per key, the rows of the samples
    shards, order,  \* how the batch was sharded for the call
    rank,       \* per data-parallel rank: global batch, microbatch, results, packed rows
    trained     \* per rank and global batch, the terms of the loss
vars == <<job, phase, calls, batch, shards, order, rank, trained>>

op == Head(calls)
Packed == job.mode \notin {Plain, Dynamic}
Megatron == job.backend = "megatron"
Loss == IF job.driver \in {"grpo", "async_grpo"} THEN job.level ELSE job.driver
Samples == DOMAIN job.data
Geometry == [cp |-> job.cp, tp |-> job.tp, columns |-> job.vocab \div job.tp]
DataRanks == 1 .. job.dp

\* sequence_length_pad_multiple
PackMultiple == IF job.cp > 1 THEN job.cp * 2 * job.tp ELSE job.tp
C == INSTANCE BatchSharding WITH
         PadMultiple <- IF Packed THEN PackMultiple ELSE job.multiple,
         PipelineParallel <- 1, TensorParallel <- 1

-----------------------------------------------------------------------------
\* The drivers prepare the data.
Processed(i) ==
    CASE job.processor = "math" -> MathProcessor(job.data[i], job.most)
      [] job.processor = "math_hf" -> MathHfProcessor(job.data[i], job.most)
      [] job.processor = "helpsteer" -> HelpsteerProcessor(job.data[i], job.most)
      [] OTHER -> MultichoiceProcessor(job.data[i])
Collated == RlCollate([i \in Samples |-> Processed(i)])
Rollout(i) ==
    FoldLeft(LAMBDA log, m : IF m.role = "assistant" THEN GenerateResponse(log, m.token_ids) ELSE Append(log, m),
             Collated.message_log[i], job.answers[i])
Advantage(i) == 10 + i

TrainData(flat, sample_mask) ==
    LET extra == {"advantages", "generation_logprobs"} \cap DOMAIN flat.rows
    IN  [key \in extra |-> flat.rows[key]]
        @@ [input_ids |-> flat.rows.token_ids, input_lengths |-> flat.lens, sample_mask |-> sample_mask]
        @@ (IF "token_loss_mask" \in DOMAIN flat.rows THEN [token_mask |-> flat.rows.token_loss_mask] ELSE <<>>)
Prepare(data, ops) ==
    /\ phase = "data"
    /\ batch' = data /\ calls' = ops /\ phase' = "call"
    /\ UNCHANGED <<job, shards, order, rank, trained>>

GrpoData(sample_mask) ==
    LET log(i) == WithAdvantages(WithGenerationLogprobs(MaskedByRole(Rollout(i))), Advantage(i))
    IN  TrainData(FlatBatch([i \in Samples |-> log(i)], job.multiple), sample_mask)
WithoutTruncated(sample_mask) == [i \in Samples |-> IF i \in job.truncated THEN 0 ELSE sample_mask[i]]

PrepareGrpo ==
    /\ job.driver = "grpo"
    /\ Prepare(GrpoData(WithoutTruncated(Collated.loss_multiplier)), <<"logprobs", "reference", "train">>)
PrepareAsyncGrpo ==
    /\ job.driver = "async_grpo"
    /\ Prepare(GrpoData(Collated.loss_multiplier), <<"logprobs", "reference", "train">>)
PrepareDistillation ==
    /\ job.driver = "distillation"
    /\ Prepare(TrainData(FlatBatch([i \in Samples |-> MaskedByRole(Rollout(i))], job.multiple),
                         Collated.loss_multiplier), <<"topk", "train">>)

\* sft_preprocessor and dpo_preprocessor (examples/) format the log and cut it if too long.
SftPreprocessor(log) ==
    LET formatted == Formatted(log, job.template, job.prompts, TRUE, TRUE)
    IN  CutIfTooLong(formatted, job.most, Min({4, job.most \div Len(log)}))
PrepareSft ==
    /\ job.driver = "sft"
    /\ LET data == RlCollate([i \in Samples |-> SftPreprocessor(job.data[i])])
       IN  Prepare(TrainData(FlatBatch([i \in Samples |-> MaskedByRole(data.message_log[i])], job.multiple),
                             data.loss_multiplier), <<"train">>)

CutIfEitherTooLong(logs) ==
    LET tooLong == \E a \in DOMAIN logs : LengthOf(logs[a]) > job.most
        limit(log) == Min({4, job.most \div Len(log)})
        datum(log) == IF tooLong THEN Datum(CutTo(log, limit(log)), LengthOf(log), 0)
                      ELSE Datum(log, LengthOf(log), 1)
    IN  [a \in DOMAIN logs |-> datum(logs[a])]
DpoPreprocessor(chosen, rejected) ==
    LET log(l) == Formatted(l, job.template, FALSE, TRUE, TRUE)
    IN  CutIfEitherTooLong(<<log(chosen), log(rejected)>>)
PreparePreferences ==
    /\ job.driver \in {"dpo", "rm"}
    /\ \E collated \in {PreferenceCollate(
                            [k \in 1 .. Len(job.data) \div 2 |-> DpoPreprocessor(job.data[2 * k - 1], job.data[2 * k])],
                            job.multiple, job.driver = "dpo")} :
           Prepare(TrainData(collated.flat, collated.sample_mask),
                   IF job.driver = "dpo" THEN <<"reference", "train">> ELSE <<"train">>)

-----------------------------------------------------------------------------
\* A call to the policy: shard, run on the ranks, put the results back in order.
Size == IF op = "train" THEN job.gbs ELSE Len(job.data)
GlobalBatches == Len(job.data) \div Size
Shardings ==
    CASE job.mode = Plain -> C!ShardPlain(batch.input_lengths, Size, job.dp)
      [] job.mode = Dynamic -> C!ShardDynamic(batch.input_lengths, Size, job.dp)
      [] OTHER -> C!ShardPacked(batch.input_lengths, Size, job.dp, job.mode)
Start(call) ==
    /\ phase = "call" /\ op = call
    /\ \E s \in Shardings : shards' = s.shards /\ order' = s.order
    /\ rank' = [d \in DataRanks |-> [gb |-> 1, mb |-> 1, out |-> <<>>, packs |-> <<>>]]
    /\ phase' = "work"
    /\ UNCHANGED <<job, calls, batch, trained>>
StartLogprobs == Start("logprobs")
StartReferenceLogprobs == Start("reference")
StartTopkLogits == Start("topk")
StartTraining == Start("train")

Width == Len(batch.input_ids[1])
GlobalBatch(d, gb) == C!GlobalBatch(shards[d], gb, Size \div job.dp, Packed)
Microbatches(d, gb) ==
    IF job.mode = Plain THEN C!EvenMicrobatches(GlobalBatch(d, gb), job.mbs, batch.input_lengths)
    ELSE C!CutMicrobatches(GlobalBatch(d, gb), shards[d].gbs[gb].mbs)
CanRun(d) ==
    /\ phase = "work" /\ rank[d].gb <= GlobalBatches
    /\ rank[d].mb <= Len(Microbatches(d, rank[d].gb))
    /\ \A e \in DataRanks : rank[e].gb >= rank[d].gb

\* The rows of the microbatch; a dynamic one is only as wide as it needs to be.
Lens(mb) == [i \in DOMAIN mb.samples |-> batch.input_lengths[mb.samples[i]]]
RowWidth(mb) == IF Packed THEN Width ELSE mb.length
Ids(mb) == [i \in DOMAIN mb.samples |-> Upto(batch.input_ids[mb.samples[i]], RowWidth(mb))]

\* What the model attends to starts with the mark of the model.
MarkOf(call) ==
    CASE call = "reference" -> <<ReferenceMark>> [] call = "topk" -> <<TeacherMark>> [] OTHER -> <<>>
Marked(contexts) ==
    LET marked(own) == [p \in DOMAIN own |-> MarkOf(op) \o own[p]]
    IN  Whole([r \in DOMAIN contexts |-> Whole(marked(contexts[r]))])

\* A microbatch as the backend's model sees it: [ids, cu, contexts, onRank].  For the DTensor
\* workers a packed row is at least `least` long; its segments start at cu.
DTensorPack(mb, least) ==
    LET ids == PackSequences(Ids(mb), Lens(mb), EosToken, least)
        cu == FlashCuSeqlens(Lens(mb))
    IN  [ids |-> ids, cu |-> cu, onRank |-> [r \in {0} |-> ids],
         contexts |-> Marked([r \in {0} |-> CausalInSegments(ids, cu)])]
DTensorRow(ids) == Marked(CausalOnRanks(ids, job.cp))

Longest(d, gb) == Max({Microbatches(d, gb)[k].length : k \in DOMAIN Microbatches(d, gb)})
WithContexts(pack) == pack @@ [contexts |-> Marked(PackedContexts(pack.onRank, pack.cu, job.cp))]
MegatronPack(d, mb) ==
    WithContexts(PackForMegatron(Ids(mb), Lens(mb), PackParameters(job, Longest(d, rank[d].gb)), job.cp))
MegatronRow(ids) == Marked([r \in {0} |-> Causal(ids)])

-----------------------------------------------------------------------------
\* Results of a microbatch, one row per sample, as wide as the batch.
FirstZero(logprobs) == <<{}>> \o logprobs
PaddedResult(row, zero) == RightPadded(row, Width, zero)

MaskedByLength(row, len) == [p \in DOMAIN row |-> IF p <= len THEN row[p] ELSE {}]
DTensorLogprobs(mb) ==
    LET row(ids) == FirstZero(LogprobsFromDTensor(DTensorRow(ids), ids, Geometry, job.chunk))
    IN  [i \in DOMAIN mb.samples |-> MaskedByLength(row(Ids(mb)[i]), Lens(mb)[i])]
DTensorPackedLogprobs(mb) ==
    LET pack == DTensorPack(mb, 0)
        row == FirstZero(LogprobsFromDTensor(pack.contexts, pack.ids, Geometry, job.chunk))
    IN  [i \in DOMAIN mb.samples |-> <<{}>> \o Slice(row, pack.cu[i] + 1, pack.cu[i + 1])]
MegatronLogprobs(mb) ==
    LET row(ids) == FirstZero(LogprobsFromParallelLogits(MegatronRow(ids), ids, Geometry, job.chunk))
    IN  [i \in DOMAIN mb.samples |-> row(Ids(mb)[i])]
MegatronPackedLogprobs(pack) ==
    LET rows == LogprobsFromPackedSequences(pack.contexts, pack.ids, pack.cu, Width, Geometry, job.chunk)
    IN  [i \in DOMAIN rows |-> FirstZero(rows[i])]

\* Top-k: indices and, of the same rank of the sort, logits.
NoTopk == [indices |-> [j \in 1 .. job.best |-> 0], logits |-> [j \in 1 .. job.best |-> {}]]
TopkOf(contexts, size) ==
    LET best == DistributedVocabTopk(contexts, job.best, Geometry, size)
    IN  Whole([p \in DOMAIN contexts |->
            [indices |-> best[p], logits |-> Whole([j \in DOMAIN best[p] |-> {<<contexts[p], best[p][j]>>}])]])
DTensorTopk(mb) ==
    LET row(ids) == LET local == [r \in Ranks(job.cp) |-> TopkOf(DTensorRow(ids)[r], 0)]
                    IN  IF job.cp > 1 THEN AllGathered(local, job.cp) ELSE local[0]
    IN  [i \in DOMAIN mb.samples |-> row(Ids(mb)[i])]
DTensorPackedTopk(mb) ==
    LET pack == DTensorPack(mb, 0)
    IN  UnpackTensor(TopkOf(pack.contexts[0], 0), Lens(mb), Width, NoTopk)
MegatronTopk(mb) == [i \in DOMAIN mb.samples |-> TopkOf(MegatronRow(Ids(mb)[i])[0], job.chunk)]
MegatronPackedTopk(mb, pack) ==
    LET whole == GatheredSegments([r \in Ranks(job.cp) |-> TopkOf(pack.contexts[r], job.chunk)], pack.cu, job.cp)
    IN  [i \in DOMAIN mb.samples |-> Slice(whole, pack.cu[i], pack.cu[i] + Lens(mb)[i])]

Answer(d, rows, zero, packs) ==
    /\ CanRun(d)
    /\ rank' = [rank EXCEPT ![d].mb = @ + 1, ![d].packs = @ \o packs,
                            ![d].out = @ \o [i \in DOMAIN rows |-> PaddedResult(rows[i], zero)]]
    /\ UNCHANGED <<job, phase, calls, batch, shards, order, trained>>
Current(d) == Microbatches(d, rank[d].gb)[rank[d].mb]

DTensorGetLogprobs(d) ==
    /\ phase = "work" /\ op \in {"logprobs", "reference"} /\ CanRun(d)
    /\ Answer(d, IF Packed THEN DTensorPackedLogprobs(Current(d)) ELSE DTensorLogprobs(Current(d)), {}, <<>>)
V1GetLogprobs(d) == job.backend = "v1" /\ DTensorGetLogprobs(d)
V2GetLogprobs(d) == job.backend = "v2" /\ DTensorGetLogprobs(d)
MegatronGetLogprobs(d) ==
    /\ Megatron /\ phase = "work" /\ op \in {"logprobs", "reference"} /\ CanRun(d)
    /\ IF Packed
       THEN LET pack == MegatronPack(d, Current(d)) IN Answer(d, MegatronPackedLogprobs(pack), {}, <<pack>>)
       ELSE Answer(d, MegatronLogprobs(Current(d)), {}, <<>>)

DTensorGetTopkLogits(d) ==
    /\ phase = "work" /\ op = "topk" /\ CanRun(d)
    /\ Answer(d, IF Packed THEN DTensorPackedTopk(Current(d)) ELSE DTensorTopk(Current(d)), NoTopk, <<>>)
V1GetTopkLogits(d) == job.backend = "v1" /\ DTensorGetTopkLogits(d)
V2GetTopkLogits(d) == job.backend = "v2" /\ DTensorGetTopkLogits(d)
MegatronGetTopkLogits(d) ==
    /\ Megatron /\ phase = "work" /\ op = "topk" /\ CanRun(d)
    /\ IF Packed
       THEN LET pack == MegatronPack(d, Current(d)) IN Answer(d, MegatronPackedTopk(Current(d), pack), NoTopk, <<pack>>)
       ELSE Answer(d, MegatronTopk(Current(d)), NoTopk, <<>>)

\* The driver puts the results into train_data.  DPO rolls them to the token predicted.
Results ==
    LET rows == C!Stacked([d \in DataRanks |-> rank[d].out])
    IN  IF job.mode = Plain THEN rows ELSE C!Reordered(rows, order)
AsKeys(rows) ==
    CASE op = "logprobs" -> [prev_logprobs |-> rows]
      [] op = "topk" -> [teacher_topk_logits |-> [i \in DOMAIN rows |-> [p \in DOMAIN rows[i] |-> rows[i][p].logits]],
                         teacher_topk_indices |-> [i \in DOMAIN rows |-> [p \in DOMAIN rows[i] |-> rows[i][p].indices]]]
      [] job.driver = "dpo" -> [reference_policy_logprobs |-> [i \in DOMAIN rows |-> Rolled(rows[i])]]
      [] OTHER -> [reference_policy_logprobs |-> rows]
Collect ==
    /\ phase = "work" /\ op # "train"
    /\ \A d \in DataRanks : rank[d].mb > Len(Microbatches(d, 1))
    /\ batch' = AsKeys(Results) @@ batch
    /\ calls' = Tail(calls) /\ phase' = "call"
    /\ UNCHANGED <<job, shards, order, rank, trained>>

-----------------------------------------------------------------------------
\* Training.  Of a sample's row, what the loss reads from the batch, `width` wide.
RowOf(i, width) ==
    [key \in DOMAIN batch \ {"input_lengths"} |->
        IF key = "sample_mask" THEN batch[key][i] ELSE Upto(batch[key][i], width)]
Norms(gb) ==
    LET rows(d) == [k \in DOMAIN GlobalBatch(d, gb) |-> RowOf(GlobalBatch(d, gb)[k], Width)]
    IN  [seqs |-> MapThenSumSet(LAMBDA d : ValidSeqs(rows(d)), DataRanks),
         toks |-> MapThenSumSet(LAMBDA d : ValidToks(rows(d)), DataRanks)]

\* How the gradient of a loss gets to the logits.  Every context-parallel rank differentiates
\* the loss of the whole row: the DTensor workers multiply it by the ranks over which FSDP
\* takes the mean, the Megatron one divides it by cp.  A weight is [number, times, per].
Upstream == IF Megatron THEN 1 ELSE job.dp * job.cp
Averaged == IF Megatron THEN job.cp ELSE job.dp * job.cp
Ones(n) == Whole([p \in 1 .. n |-> 1])
BadThroughGather(n, r) == TokensOnRank(Ones(n * job.cp), r, job.cp)
ThroughGather(n, r) == GradientOfGathered([q \in Ranks(job.cp) |-> Ones(n * job.cp)], r, job.cp)
Pull(context, token, times) == [number |-> <<context, token>>, times |-> times * Upstream, per |-> Averaged]
ByPosition(pulls, n) == Whole([p \in 1 .. n |-> {w \in pulls : Len(w.number[1]) = p}])

LogprobPulls(contexts, targets, times) ==
    {Pull(contexts[c[1]], c[2], times[c[1]]) : c \in ChosenBy(targets, Geometry)}
TopkPulls(contexts, indices, times) ==
    UNION {{Pull(contexts[p], token, times[p]) : token \in Range(indices[p])} : p \in DOMAIN indices}

\* curr_logprobs.  What a DTensor gathers gives its gradient back to the owner alone.
LogprobRow(ids, contexts) ==
    LET targets(r) == IF Megatron THEN ParallelTargets(contexts, ids, r, Geometry) ELSE DTensorTargets(ids, r, Geometry)
        size(r) == Len(contexts[r])
        times(r) == IF Megatron /\ job.cp > 1 THEN ThroughGather(size(r), r) ELSE Ones(size(r))
        pulls(r) == LogprobPulls(contexts[r], targets(r), times(r))
    IN  [curr_logprobs |-> IF Megatron THEN Upto(LogprobsFromParallelLogits(contexts, ids, Geometry, 0), Len(ids) - 1)
                           ELSE LogprobsFromDTensor(contexts, ids, Geometry, 0),
         weights |-> ByPosition(UNION {pulls(r) : r \in Ranks(job.cp)}, Len(ids) - 1)]

\* The student's log probabilities of the teacher's tokens, with zero_outside_topk the entropy.
StudentOf(contexts, indices) ==
    LET own(r) == IndicesOnRank(indices, Len(contexts[r]), r, job.cp)
        local(r) == ChunkedDistributedGatherLogprob(contexts[r], own(r), Geometry, Len(contexts[r]))
        entropy(r) == ChunkedDistributedEntropy(contexts[r], Geometry, Len(contexts[r]))
        paired(s, h) == Whole([p \in DOMAIN s |-> [topk |-> s[p], entropy |-> h[p]]])
        pairs(r) == paired(local(r), entropy(r))
        gathered == AllGathered([r \in Ranks(job.cp) |-> pairs(r)], job.cp)
    IN  IF job.cp > 1 THEN Upto(gathered, Len(indices)) ELSE pairs(0)
StudentRow(ids, contexts, indices) ==
    LET plain == GatherLogits(contexts, indices, Geometry)
        own(r) == IndicesOnRank(indices, Len(contexts[r]), r, job.cp)
        times(r) == IF job.cp > 1 THEN ThroughGather(Len(contexts[r]), r) ELSE Ones(Len(contexts[r]))
        pulls(r) == TopkPulls(contexts[r], own(r), times(r))
    IN  [student |-> IF job.rest THEN StudentOf(contexts, indices)
                     ELSE [p \in DOMAIN plain |-> [topk |-> plain[p], entropy |-> {}]],
         weights |-> ByPosition(UNION {pulls(r) : r \in Ranks(job.cp)}, Len(ids) - 1)]

\* A reward model reads a row up to its last token (external).
RewardRow(ids, len) == [reward |-> Upto(ids, len), weights |-> <<>>]
TrainRow(row, len, contexts) ==
    row @@ CASE Loss = "rm" -> RewardRow(row.input_ids, len)
             [] Loss = "distillation" -> StudentRow(row.input_ids, contexts, row.teacher_topk_indices)
             [] OTHER -> LogprobRow(row.input_ids, contexts)

\* The loss of a microbatch.  SequencePackingLossWrapper gives every sample its own logits and
\* as much of its row as its segment holds, with Megatron padding too.
UnpackedTerms(mb, contexts(_), norms) ==
    LET row(i) == RowOf(mb.samples[i], RowWidth(mb))
    IN  LossFn(Loss, [i \in DOMAIN mb.samples |-> TrainRow(row(i), Lens(mb)[i], contexts(row(i).input_ids))], norms)
PackedTerms(mb, pack, norms) ==
    LET contexts(i) == [r \in Ranks(job.cp) |-> SegmentOnRank(pack.contexts[r], pack.cu, i, job.cp)]
        row(i) == RowOf(mb.samples[i], pack.cu[i + 1] - pack.cu[i])
    IN  PackedLoss(Loss, [i \in DOMAIN mb.samples |-> TrainRow(row(i), Lens(mb)[i], contexts(i))], norms)

\* After the last microbatch of a global batch the rank goes on with the next one.
Learn(d, terms, packs) ==
    LET gb == rank[d].gb
        last == rank[d].mb = Len(Microbatches(d, gb))
        before == IF rank[d].mb = 1 THEN <<>> ELSE rank[d].packs
    IN  /\ trained' = [trained EXCEPT ![d] = IF rank[d].mb = 1 THEN Append(@, terms)
                                             ELSE [@ EXCEPT ![gb] = @ \o terms]]
        /\ rank' = [rank EXCEPT ![d] = [gb |-> IF last THEN gb + 1 ELSE gb, mb |-> IF last THEN 1 ELSE @.mb + 1,
                                        out |-> <<>>, packs |-> before \o packs]]
        /\ UNCHANGED <<job, phase, calls, batch, shards, order>>

DTensorTrain(d) ==
    /\ phase = "work" /\ op = "train" /\ CanRun(d)
    /\ LET pack == DTensorPack(Current(d), Capacity)
           norms == Norms(rank[d].gb)
       IN  Learn(d, IF Packed THEN PackedTerms(Current(d), pack, norms)
                    ELSE UnpackedTerms(Current(d), DTensorRow, norms), <<>>)
V1Train(d) == job.backend = "v1" /\ DTensorTrain(d)
V2Train(d) == job.backend = "v2" /\ DTensorTrain(d)
MegatronTrain(d) ==
    /\ Megatron /\ phase = "work" /\ op = "train" /\ CanRun(d)
    /\ LET pack == MegatronPack(d, Current(d))
           norms == Norms(rank[d].gb)
       IN  IF Packed THEN Learn(d, PackedTerms(Current(d), pack, norms), <<pack>>)
           ELSE Learn(d, UnpackedTerms(Current(d), MegatronRow, norms), <<>>)
Finish ==
    /\ phase = "work" /\ op = "train"
    /\ \A d \in DataRanks : rank[d].gb > GlobalBatches
    /\ phase' = "end"
    /\ UNCHANGED <<job, calls, batch, shards, order, rank, trained>>
Ended == phase = "end" /\ UNCHANGED vars

Init ==
    /\ job \in Jobs /\ phase = "data"
    /\ calls = <<>> /\ batch = <<>> /\ shards = <<>> /\ order = <<>> /\ rank = <<>>
    /\ trained = [d \in DataRanks |-> <<>>]
Driver == PrepareGrpo \/ PrepareAsyncGrpo \/ PrepareDistillation \/ PrepareSft \/ PreparePreferences
Policy == StartLogprobs \/ StartReferenceLogprobs \/ StartTopkLogits \/ StartTraining \/ Collect \/ Finish
Worker(d) ==
    \/ V1GetLogprobs(d) \/ V2GetLogprobs(d) \/ MegatronGetLogprobs(d)
    \/ V1GetTopkLogits(d) \/ V2GetTopkLogits(d) \/ MegatronGetTopkLogits(d)
    \/ V1Train(d) \/ V2Train(d) \/ MegatronTrain(d)
Next == Driver \/ Policy \/ (\E d \in DataRanks : Worker(d)) \/ Ended
Spec == Init /\ [][Next]_vars

-----------------------------------------------------------------------------
\* The loss as the samples say it: nothing is packed, cut, sharded or padded.
Log(i) ==
    IF job.driver \in {"sft", "dpo", "rm"} THEN Formatted(job.data[i], job.template, job.prompts, TRUE, TRUE)
    ELSE job.data[i] \o job.answers[i]
Conversation(i) ==
    IF job.driver \in {"sft", "dpo", "rm"}
    THEN WithEos(WithBos(Templated(job.data[i], job.template, FALSE), TRUE), TRUE)
    ELSE Passthrough(Log(i))
PromptFits(i) == LengthOf(IF job.driver \in {"sft", "dpo", "rm"} THEN Log(i) ELSE job.data[i]) <= job.most
Counts(i) ==
    CASE job.driver \in {"dpo", "rm"} -> PromptFits(i) /\ PromptFits(IF i % 2 = 1 THEN i + 1 ELSE i - 1)
      [] job.driver = "grpo" -> PromptFits(i) /\ i \notin job.truncated
      [] OTHER -> PromptFits(i)

\* The tokens to learn: an assistant's, for preferences those of the last message.
MessageAt(log, q) ==
    CHOOSE m \in DOMAIN log : LengthOf(SubSeq(log, 1, m - 1)) < q /\ q <= LengthOf(SubSeq(log, 1, m))
LearntOf(log, length) ==
    {q \in 2 .. length :
        IF job.driver = "dpo" THEN MessageAt(log, q) = Len(log) ELSE log[MessageAt(log, q)].role = "assistant"}
Learnt(i) == LearntOf(Log(i), Len(Conversation(i)))
Batch(c) == {i \in (c - 1) * job.gbs + 1 .. c * job.gbs : Counts(i)}
ToksIn(c) == MapThenSumSet(LAMBDA i : Cardinality(Learnt(i)), Batch(c))

Before(i, q) == SubSeq(Conversation(i), 1, q - 1)
Number(mark, i, q) == {<<mark \o Before(i, q), Conversation(i)[q]>>}
OfSample(mark, i) == UNION {Number(mark, i, q) : q \in Learnt(i)}
RatioOf(mark, i, q) == IF job.level = "gspo" THEN OfSample(mark, i) ELSE Number(mark, i, q)
IdealGrpo(c, i, q) ==
    [ratio |-> [curr |-> RatioOf(<<>>, i, q), prev |-> RatioOf(<<>>, i, q)],
     importance |-> [actor |-> RatioOf(<<>>, i, q), behaviour |-> RatioOf(<<EngineMark>>, i, q)],
     reference |-> Number(<<ReferenceMark>>, i, q), advantage |-> Advantage(i),
     over |-> IF job.level = "token" THEN ToksIn(c) ELSE Cardinality(Learnt(i)) * Cardinality(Batch(c))]
IdealNll(over, i, q) == [likelihood |-> Number(<<>>, i, q), over |-> over]
IdealDistillation(c, i, q) ==
    LET taught == <<TeacherMark>> \o Before(i, q)
        best == BestOf(Ranks(job.vocab), job.best, taught, Geometry)
    IN  [teacher |-> [j \in DOMAIN best |-> {<<taught, best[j]>>}],
         student |-> [topk |-> [j \in DOMAIN best |-> {<<Before(i, q), best[j]>>}],
                      entropy |-> IF job.rest THEN {<<Before(i, q), token>> : token \in Ranks(job.vocab)} ELSE {}],
         over |-> ToksIn(c)]
IdealReward(i) ==
    IF job.driver = "rm" THEN Conversation(i)
    ELSE {<<Number(<<>>, i, q), Number(<<ReferenceMark>>, i, q)>> : q \in Learnt(i)}
IdealPair(c, i) ==
    [chosen |-> IdealReward(i), rejected |-> IdealReward(i + 1), over |-> Cardinality(Batch(c)) \div 2]
Chosen(c) == {i \in Batch(c) : i % 2 = 1}
Ideal(c) ==
    CASE job.driver \in {"grpo", "async_grpo"} -> UNION {{IdealGrpo(c, i, q) : q \in Learnt(i)} : i \in Batch(c)}
      [] job.driver = "distillation" -> UNION {{IdealDistillation(c, i, q) : q \in Learnt(i)} : i \in Batch(c)}
      [] job.driver = "sft" -> UNION {{IdealNll(ToksIn(c), i, q) : q \in Learnt(i)} : i \in Batch(c)}
      [] job.driver = "rm" -> {IdealPair(c, i) : i \in Chosen(c)}
      [] OTHER -> {IdealPair(c, i) : i \in Chosen(c)}
                  \cup UNION {{IdealNll(Cardinality(Batch(c)) \div 2, i, q) : q \in Learnt(i)} : i \in Chosen(c)}

\* The terms of a global batch are, each once, those of its samples: every token that counts,
\* with the numbers of the policy, the reference, the engine or the teacher for that very token
\* after that very context, however the batch was sorted, packed, padded and cut.
Value(term) == [key \in DOMAIN term \ {"weights"} |-> term[key]]
TermsOf(c) == FlattenSeq([d \in DataRanks |-> trained[d][c]])
LossReadsItsTokens ==
    phase = "end" =>
        \A c \in 1 .. GlobalBatches : \E ideal \in {Ideal(c)} :
            /\ {Value(t) : t \in ToSet(TermsOf(c))} = ideal
            /\ Len(TermsOf(c)) = Cardinality(ideal)

\* The gradient of a term gets to the logits of the tokens the term reads, to each of them
\* exactly once, over all data-, context- and tensor-parallel ranks.
Reads(term) ==
    CASE "ratio" \in DOMAIN term -> term.ratio.curr
      [] "likelihood" \in DOMAIN term -> term.likelihood
      [] "student" \in DOMAIN term -> UNION Range(term.student.topk)
      [] job.driver = "dpo" -> UNION {pair[1] : pair \in term.chosen \cup term.rejected}
      [] OTHER -> {}
GradientWeights ==
    \A d \in DOMAIN trained : \A c \in DOMAIN trained[d] : \A term \in ToSet(trained[d][c]) :
        /\ {w.number : w \in term.weights} = Reads(term)
        /\ \A w \in term.weights : w.times = w.per

\* A packed row is one a Megatron model takes: context-parallel ranks have as much of it each,
\* sequence-parallel and fp8 layers can split it, pipeline stages, which announce one length to
\* each other, get that length every time; and no token of a sample is lost.
PackFits(pack, first) ==
    /\ \A r \in Ranks(job.cp) :
          /\ Len(pack.onRank[r]) = Len(pack.ids) \div job.cp
          /\ job.sp => Len(pack.onRank[r]) % job.tp = 0
          /\ job.fp8 > 0 => Len(pack.onRank[r]) % job.fp8 = 0
    /\ job.pp > 1 => Len(pack.ids) = Len(first.ids)
    /\ FlattenSeq([i \in 1 .. Len(pack.cu) - 1 |-> SegmentOf(pack.ids, pack.cu, i)]) = pack.ids
    /\ MapThenSumSet(LAMBDA r : Len(pack.onRank[r]), Ranks(job.cp)) = Len(pack.ids)
PackedFits ==
    phase = "work" => \A d \in DataRanks : \A k \in DOMAIN rank[d].packs : PackFits(rank[d].packs[k], rank[d].packs[1])

\* Together: the rows the model is given and the numbers the loss takes from what it returns.
TokensInPlace == LossReadsItsTokens /\ PackedFits
=============================================================================
