--------------------------- MODULE PolicyWorkers ---------------------------
(***************************************************************************)
(* One call of the policy or of the engine on a batch                      *)
(* (nemo_rl/models/policy/lm_policy.py and the workers): the driver shards *)
(* the batch, the data-parallel ranks run their microbatches and meet in   *)
(* collectives, the driver puts the results together.                      *)
(*                                                                         *)
(* A rank that has reached a collective waits there until every rank has;  *)
(* NCCL checks nothing, so ranks that disagree on the next collective hang *)
(* or exchange garbage.  With DTensor (FSDP) the forward of a microbatch   *)
(* gathers parameters from all ranks; with Megatron it does not.  The      *)
(* workers of one rank run in lock step.  Every token counts in the loss.  *)
(***************************************************************************)
EXTENDS BatchSharding

CONSTANT Jobs   \* the calls made, each a record of JobType

Ops == {"train", "get_logprobs", "get_topk_logits", "score", "generate", "vllm_generate"}
Modes == {"plain", "dynamic"} \cup Packers

\* lens: the batch; dp: data-parallel ranks; gbs, mbs: samples of a global batch (of the
\* whole batch except in training) and of a microbatch.
IsJob(j) ==
    /\ j.op \in Ops /\ j.backend \in {"dtensor", "megatron", "vllm"} /\ j.mode \in Modes
    /\ j.lens \in Seq(Nat \ {0}) /\ {j.dp, j.gbs, j.mbs} \subseteq Nat \ {0}
    /\ j.backend = "vllm" <=> j.op = "vllm_generate"
    /\ j.op = "generate" => j.backend = "megatron"
    /\ j.op = "score" => j.backend = "dtensor" /\ j.mode \notin Packers
ASSUME JobsAssumption == \A j \in Jobs : IsJob(j)

VARIABLES
    job,        \* the call
    phase,      \* "sharding", "working", "done", or "error": an exception was raised
    shards,     \* what every rank got
    order,      \* batch_sorted_indices
    rank,       \* what every rank does (see Rank0)
    steps,      \* the optimizer steps: [samples, tokens]
    result      \* the rows returned to the caller

vars == <<job, phase, shards, order, rank, steps, result>>

-----------------------------------------------------------------------------
Packed == job.mode \in Packers
RankShare == job.gbs \div job.dp
Ranks == DOMAIN rank
MeetsInForward == job.backend = "dtensor"
CountsMicrobatches == Packed /\ job.backend = "dtensor"

\* How the calls shard the batch.  score and the generations never sort it, so they make
\* no microbatches either.
SortedOrNot(j) ==
    CASE j.mode = "plain" -> ShardPlain(j.lens, j.gbs, j.dp)
      [] j.mode = "dynamic" -> ShardDynamic(j.lens, j.gbs, j.dp)
      [] OTHER -> ShardPacked(j.lens, j.gbs, j.dp, j.mode)
ShardForTraining(j) == SortedOrNot(j)
ShardForLogprobs(j) == SortedOrNot([j EXCEPT !.gbs = Len(j.lens)])
ShardForTopk(j) == SortedOrNot([j EXCEPT !.gbs = Len(j.lens)])
ShardForScore(j) == ShardPlain(j.lens, Len(j.lens), j.dp)
ShardForGeneration(j) == ShardPlain(j.lens, Len(j.lens), j.dp)
ShardForEngine(j) == ShardUneven(j.lens, j.dp)
Shardings(j) ==
    CASE j.op = "train" -> ShardForTraining(j)
      [] j.op = "get_logprobs" -> ShardForLogprobs(j)
      [] j.op = "get_topk_logits" -> ShardForTopk(j)
      [] j.op = "score" -> ShardForScore(j)
      [] j.op = "generate" -> ShardForGeneration(j)
      [] j.op = "vllm_generate" -> ShardForEngine(j)

\* at: the collective or local step a rank is on its way to, or waits at (`waits`);
\* gb, mb: the global batch and the microbatch; total: microbatches it will run;
\* batches, tokens: what the ranks agreed on; out: the microbatches it ran.
AfterBatch == IF CountsMicrobatches THEN "counts" ELSE "forward"
Rank0(s) == [at |-> IF job.op = "train" THEN "sizes" ELSE AfterBatch, waits |-> FALSE,
             gb |-> 1, mb |-> 1, extra |-> 0, batches |-> 1, tokens |-> 0, out |-> <<>>]

Slice(s) ==
    IF job.op = "train" \/ Packed THEN GlobalBatch(shards[s], rank[s].gb, RankShare, Packed)
    ELSE shards[s].rows

\* The microbatches of a rank's global batch.  score makes them of at most batch_size, a
\* generation takes its shard in one piece.
MicrobatchSize(s) == IF job.op = "score" THEN Min({job.mbs, Len(Slice(s))}) ELSE job.mbs
InMicrobatches(s) ==
    IF job.mode = "plain" THEN EvenMicrobatches(Slice(s), MicrobatchSize(s), job.lens)
    ELSE CutMicrobatches(Slice(s), shards[s].gbs[rank[s].gb].mbs)
InOnePiece(s) == <<[samples |-> Slice(s), length |-> Width(job.lens)]>>
Microbatches(s) ==
    IF job.op \in {"generate", "vllm_generate"} THEN InOnePiece(s) ELSE InMicrobatches(s)

\* Where a microbatch iterator raises: rows left over, or no microbatches were made for it
\* (Policy.score never makes any, the worker asks for them if dynamic batching is on).
Raises(s) ==
    \/ job.op \in {"train", "get_logprobs", "get_topk_logits", "score"} /\ job.mode = "plain"
       /\ Len(Slice(s)) % MicrobatchSize(s) # 0
    \/ job.op = "score" /\ job.mode = "dynamic"

Total(s) == Len(Microbatches(s)) + rank[s].extra

\* The k-th microbatch of the rank: dummies repeat its own from the first on.
Microbatch(s) ==
    LET own == Microbatches(s)
        k == rank[s].mb
        mb == own[((k - 1) % Len(own)) + 1]
    IN  [gb |-> rank[s].gb, samples |-> mb.samples, length |-> mb.length, dummy |-> k > Len(own)]

\* Where a rank goes once it has run a microbatch.
AfterMicrobatch(s) ==
    IF rank[s].mb < Total(s) THEN "forward"
    ELSE IF job.op = "train" THEN "step" ELSE "end"
RunMicrobatch(s) ==
    [rank[s] EXCEPT !.waits = FALSE, !.mb = @ + 1, !.at = AfterMicrobatch(s),
                    !.out = Append(@, Microbatch(s))]

-----------------------------------------------------------------------------
Init ==
    /\ job \in Jobs
    /\ phase = "sharding"
    /\ shards = <<>> /\ order = <<>> /\ rank = <<>> /\ steps = <<>> /\ result = <<>>

ShardBatch ==
    /\ phase = "sharding"
    /\ \E sharding \in Shardings(job) :
        /\ shards' = sharding.shards
        /\ order' = sharding.order
    /\ rank' = [s \in 1 .. job.dp |-> Rank0(s)]
    /\ phase' = "working"
    /\ UNCHANGED <<job, steps, result>>

CannotShard ==
    /\ phase = "sharding" /\ Shardings(job) = {}
    /\ phase' = "error"
    /\ UNCHANGED <<job, shards, order, rank, steps, result>>

\* A rank's own work up to its next collective.
Collective(s) == rank[s].at \notin {"forward", "end"} \/ (rank[s].at = "forward" /\ MeetsInForward)
Reach(s) ==
    /\ phase = "working" /\ ~rank[s].waits /\ Collective(s)
    /\ rank[s].at = "forward" => ~Raises(s)
    /\ rank' = [rank EXCEPT ![s].waits = TRUE]
    /\ UNCHANGED <<job, phase, shards, order, steps, result>>

Fail(s) ==
    /\ phase = "working" /\ ~rank[s].waits /\ rank[s].at = "forward" /\ Raises(s)
    /\ phase' = "error"
    /\ UNCHANGED <<job, shards, order, rank, steps, result>>

\* Megatron's forward and backward of a microbatch, a generation.
Forward(s) ==
    /\ phase = "working" /\ rank[s].at = "forward" /\ ~MeetsInForward /\ ~Raises(s)
    /\ rank' = [rank EXCEPT ![s] = RunMicrobatch(s)]
    /\ UNCHANGED <<job, phase, shards, order, steps, result>>

\* Every rank waits at this collective.
AllAt(at) == phase = "working" /\ \A s \in Ranks : rank[s].waits /\ rank[s].at = at
Leave(s, at) == [rank[s] EXCEPT !.waits = FALSE, !.at = at]
SumOver(values) == MapThenSumSet(LAMBDA s : values[s], Ranks)

ReduceSizes ==
    /\ AllAt("sizes")
    /\ rank' = [s \in Ranks |->
                   [Leave(s, "valid") EXCEPT !.batches = SumOver([t \in Ranks |-> Len(shards[t].rows)]) \div job.gbs]]
    /\ UNCHANGED <<job, phase, shards, order, steps, result>>

\* The denominator of the loss: the valid tokens of the global batch on all ranks.
Tokens(samples) == MapThenSumSet(LAMBDA k : job.lens[samples[k]], DOMAIN samples)
ReduceValid ==
    /\ AllAt("valid")
    /\ rank' = [s \in Ranks |-> [Leave(s, AfterBatch) EXCEPT !.mb = 1, !.extra = 0,
                                                             !.tokens = SumOver([t \in Ranks |-> Tokens(Slice(t))])]]
    /\ UNCHANGED <<job, phase, shards, order, steps, result>>

ReduceCounts ==
    /\ AllAt("counts")
    /\ LET most == Max({Len(Microbatches(s)) : s \in Ranks})
       IN  rank' = [s \in Ranks |-> [Leave(s, "forward") EXCEPT !.extra = most - Len(Microbatches(s))]]
    /\ UNCHANGED <<job, phase, shards, order, steps, result>>

ForwardTogether ==
    /\ AllAt("forward")
    /\ rank' = [s \in Ranks |-> RunMicrobatch(s)]
    /\ UNCHANGED <<job, phase, shards, order, steps, result>>

\* The gradients of the microbatches since the last step; those of dummies are 0.
Trained(s) == FlattenSeq([k \in DOMAIN rank[s].out |->
                             IF rank[s].out[k].gb = rank[s].gb /\ ~rank[s].out[k].dummy
                             THEN rank[s].out[k].samples ELSE <<>>])
OptimizerStep ==
    /\ AllAt("step")
    /\ steps' = Append(steps, [samples |-> FlattenSeq([s \in Ranks |-> Trained(s)]),
                               tokens |-> rank[1].tokens])
    /\ rank' = [s \in Ranks |-> IF rank[s].gb < rank[s].batches
                                THEN [Leave(s, "valid") EXCEPT !.gb = @ + 1]
                                ELSE Leave(s, "loss")]
    /\ UNCHANGED <<job, phase, shards, order, result>>

ReduceLoss ==
    /\ AllAt("loss")
    /\ rank' = [s \in Ranks |-> Leave(s, "end")]
    /\ UNCHANGED <<job, phase, shards, order, steps, result>>

\* What the ranks return.  get_logprobs drops the dummies, the others do not.
RowsOf(microbatches) == FlattenSeq([k \in DOMAIN microbatches |-> microbatches[k].samples])
AllRows == [s \in Ranks |-> RowsOf(rank[s].out)]
RealRows == [s \in Ranks |-> RowsOf(SelectSeq(rank[s].out, LAMBDA mb : ~mb.dummy))]

\* What the caller gets: the ranks' rows, in the order of the batch again if it was sorted.
Coords == [w \in ToSet(Workers(job.dp)) |->
              IF job.backend = "vllm" THEN EngineCoords(w) ELSE PolicyCoords(w, job.dp)]
Gathered(outputs) == Stacked(WorkerResults(outputs, Coords))
Unsorted(rows) == IF job.mode = "plain" THEN rows ELSE Reordered(rows, order)
Collect(op, rows) ==
    /\ phase = "working" /\ job.op = op /\ \A s \in Ranks : rank[s].at = "end"
    /\ phase' = "done"
    /\ result' = rows
    /\ UNCHANGED <<job, shards, order, rank, steps>>
CollectTraining == Collect("train", <<>>)
CollectLogprobs == Collect("get_logprobs", Unsorted(Gathered(RealRows)))
CollectTopk == Collect("get_topk_logits", Unsorted(Gathered(AllRows)))
CollectScores == Collect("score", Gathered(AllRows))
CollectGeneration == Collect("generate", Gathered(AllRows))
CollectFromEngine == Collect("vllm_generate", Gathered(AllRows))

Ended == phase \in {"done", "error"} /\ UNCHANGED vars

Next ==
    \/ ShardBatch \/ CannotShard
    \/ \E s \in Ranks : Reach(s) \/ Fail(s) \/ Forward(s)
    \/ ReduceSizes \/ ReduceValid \/ ReduceCounts \/ ForwardTogether \/ OptimizerStep \/ ReduceLoss
    \/ CollectTraining \/ CollectLogprobs \/ CollectTopk
    \/ CollectScores \/ CollectGeneration \/ CollectFromEngine
    \/ Ended

Spec == Init /\ [][Next]_vars

-----------------------------------------------------------------------------
Places == {"sizes", "valid", "counts", "forward", "step", "loss", "end"}

TypeOK ==
    /\ IsJob(job)
    /\ phase \in {"sharding", "working", "done", "error"}
    /\ \A s \in Ranks :
        /\ rank[s].at \in Places /\ rank[s].waits \in BOOLEAN
        /\ rank[s].gb \in 1 .. Len(job.lens) /\ rank[s].mb \in Nat \ {0} /\ rank[s].extra \in Nat
    /\ \A k \in DOMAIN order : order[k] \in DOMAIN job.lens
    /\ Len(steps) <= Len(job.lens)

\* An optimizer step is taken on a whole global batch: each of its samples once, on some
\* rank, none of another, with the tokens of just these as the denominator of the loss;
\* and a training call that ends has taken a step on every global batch, in order.
StepsAreGlobalBatches ==
    /\ \A g \in DOMAIN steps :
        /\ ToSet(steps[g].samples) = ToSet(Chunk(g, job.gbs))
        /\ Len(steps[g].samples) = job.gbs
        /\ steps[g].tokens = Tokens(Chunk(g, job.gbs))
    /\ phase = "done" /\ job.op = "train" => Len(steps) * job.gbs = Len(job.lens)

\* Row i of what the caller gets is about sample i of what it gave, however the samples
\* were sorted, packed, dealt out (unevenly for an engine) and stacked again.
ResultsInOrder ==
    phase = "done" /\ job.op # "train" => result = Indices(job.lens)

\* The ranks never wait for each other at different collectives, nor for one that has
\* ended: all have the same number of global batches and of microbatches in each.
RanksAgree ==
    \A s, t \in Ranks :
        (rank[s].waits /\ (rank[t].waits \/ rank[t].at = "end")) =>
            /\ rank[s].at = rank[t].at
            /\ rank[s].gb = rank[t].gb
            /\ rank[s].at = "forward" => rank[s].mb = rank[t].mb

\* No microbatch is empty or exceeds the memory it was made for, and none is narrower than
\* one of its samples: no token is cut off.
MicrobatchesFit ==
    \A s \in Ranks : \A k \in DOMAIN rank[s].out :
        LET mb == rank[s].out[k]
        IN  /\ mb.samples = <<>> => job.op = "vllm_generate"
            /\ \A i \in DOMAIN mb.samples : job.lens[mb.samples[i]] <= mb.length
            /\ job.op \notin {"generate", "vllm_generate"} /\ job.mode # "plain" =>
                   (IF Packed THEN mb.length ELSE Len(mb.samples) * mb.length) <= Capacity

\* rm.py:499-500 of training a reward model, whose batches hold chosen and rejected answers
\* in turn: "the pair needs to be processed as part of the same microbatch" - at rows 2k-1
\* and 2k of it, where PreferenceLoss (loss_functions.py:591-593) looks for them.
PairsTogether ==
    job.op = "train" => \A s \in Ranks : \A k \in DOMAIN rank[s].out :
        LET rows == rank[s].out[k].samples
        IN  /\ Len(rows) % 2 = 0
            /\ \A p \in 1 .. Len(rows) \div 2 :
                rows[2 * p - 1] % 2 = 1 /\ rows[2 * p] = rows[2 * p - 1] + 1
=============================================================================
