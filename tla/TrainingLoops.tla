--------------------------- MODULE TrainingLoops ---------------------------
(***************************************************************************)
(* The drivers of SFT, DPO, reward-model training and on-policy            *)
(* distillation (nemo_rl/algorithms/{sft,dpo,rm,distillation}.py): one     *)
(* loop over epochs and batches with validation, checkpoints, early stops  *)
(* and restarts, and what each algorithm adds to it: reference logprobs    *)
(* (DPO), pairs and unlimited steps (RM), a generation engine and a        *)
(* teacher on the student's GPUs (distillation).                           *)
(*                                                                         *)
(* Weights are named by the sequence of batches they were trained on.  A   *)
(* refit is one step here (SyncGrpo and Refit take it apart), and so is    *)
(* the writing of a checkpoint (CheckpointManager).                        *)
(***************************************************************************)
EXTENDS Integers, Sequences, SequencesExt, FiniteSets

CONSTANTS
    Configs,        \* the configurations a run may have (see ConfigType)
    MaxEpochs,      \* max_num_epochs
    Batches,        \* len(train_dataloader)
    SavePeriod,     \* checkpointing.save_period
    ValSamples,     \* size of a validation set
    ValidSamples,   \* for every validation set, those of them with loss_multiplier 1
    ValBatchSize,   \* val_global_batch_size
    PadTo,          \* data-parallel size * validation micro-batch size
    MaxCrashes      \* how often a run is started again

\* maxSteps: max_num_steps, -1 for no limit (rm only); metric: metric_name asks
\* for a validation metric; valBatches: val_batches (0 for all), in distillation
\* max_val_samples // val_batch_size; sets: how many validation sets there are (dpo and
\* rm may have several); colocated: distillation's engine shares the GPUs.
ConfigType == [alg: {"sft", "dpo", "rm", "distillation"}, maxSteps: Nat \cup {-1},
               saving: BOOLEAN, metric: BOOLEAN, valAtStart: BOOLEAN, valPeriod: Nat,
               valBatches: Nat, sets: Nat \ {0}, colocated: BOOLEAN]

ASSUME ConfigAssumption ==
    /\ Configs \subseteq ConfigType
    /\ \A c \in Configs :
        /\ c.maxSteps = -1 => c.alg = "rm"
        /\ c.colocated => c.alg = "distillation"
        /\ c.sets = 1 \/ c.alg \in {"dpo", "rm"}
ASSUME SizeAssumption ==
    /\ {MaxEpochs, MaxCrashes} \subseteq Nat
    /\ {Batches, SavePeriod, ValSamples, ValBatchSize, PadTo} \subseteq Nat \ {0}
    /\ \A c \in Configs : c.sets \in DOMAIN ValidSamples
    /\ \A k \in DOMAIN ValidSamples : ValidSamples[k] \subseteq 1..ValSamples

None == <<0>>       \* no weights; a metric that may be absent is a set of at most one

VARIABLES
    cfg,      \* the configuration
    pc, ret,  \* where the driver is; where it goes on after a validation
    at,       \* its counters, and the position of the data loader
    policy,   \* the trained (student) policy's workers
    teacher,  \* where the teacher's model is
    engine,   \* the generation engine
    stale,    \* POLICY_GENERATION_STALE
    batch,    \* what the batch at hand was made with
    val,      \* the validation under way, and the step's val_metrics
    info,     \* the validation metrics in the save state
    timed,    \* should_save_by_timeout
    disk,     \* the newest whole checkpoint
    crashes

vars == <<cfg, pc, ret, at, policy, teacher, engine, stale, batch, val, info, timed, disk,
          crashes>>

Distillation == cfg.alg = "distillation"

\* No sample has been counted.
NoneCounted == [i \in 1..ValSamples |-> 0]

NoVal == [set |-> 1, seen |-> 0, counted |-> NoneCounted, metrics |-> {}]
NoBatch == [index |-> 0, ref |-> None, from |-> None]
NoInfo == [named |-> {}, all |-> {}, counts |-> {}]

\* _default_*_save_state, and a loader at its beginning.
Fresh == [step |-> 0, total |-> 0, epoch |-> 0, loader |-> 0, consumed |-> 0,
          trained |-> <<>>, info |-> NoInfo]

-----------------------------------------------------------------------------
(* Policy workers *)

PrepareForTraining(p) == [p EXCEPT !.model = "gpu"]

OffloadAfterRefit(p) == [p EXCEPT !.model = "cpu"]

\* Built from the base model; the reference is copied before a checkpoint is
\* restored, so that it stays the base model in every restart.
NewPolicy(trained) ==
    [trained |-> trained, model |-> "gpu", ref |-> IF cfg.alg = "dpo" THEN <<>> ELSE None]

-----------------------------------------------------------------------------
Init ==
    /\ cfg \in Configs
    /\ pc = "setup" /\ ret = "setup"
    /\ at = [step |-> 0, total |-> 0, epoch |-> 0, loader |-> 0, consumed |-> 0]
    /\ policy = [trained |-> <<>>, model |-> "gpu", ref |-> None]
    /\ teacher = "cpu" /\ engine = [holds |-> None, awake |-> FALSE]
    /\ stale = TRUE
    /\ batch = NoBatch /\ val = NoVal /\ info = NoInfo
    /\ timed = FALSE /\ disk = Fresh /\ crashes = 0

\* Load the newest checkpoint, or start afresh, and build the workers.
Restore ==
    /\ pc = "setup" /\ pc' = "start"
    /\ at' = [step |-> disk.step, total |-> disk.total, epoch |-> disk.epoch,
              loader |-> disk.loader, consumed |-> disk.consumed]
    /\ policy' = NewPolicy(disk.trained)
    /\ stale' = TRUE /\ batch' = NoBatch /\ val' = NoVal
    /\ info' = disk.info /\ timed' = FALSE
    /\ UNCHANGED <<cfg, ret, disk, crashes>>

SetupSft == cfg.alg = "sft" /\ Restore /\ UNCHANGED <<teacher, engine>>

SetupRm == cfg.alg = "rm" /\ Restore /\ UNCHANGED <<teacher, engine>>

SetupDpo == cfg.alg = "dpo" /\ Restore /\ UNCHANGED <<teacher, engine>>

\* The teacher is built from its own model in every run; teacher and colocated
\* engine leave the GPU before the student is built.
SetupDistillation ==
    /\ Distillation
    /\ Restore
    /\ teacher' = "cpu"
    /\ engine' = [holds |-> None, awake |-> ~cfg.colocated]

\* refit_policy_generation when the engine is stale, else prepare_for_generation.
ReadyEngine ==
    IF stale
    THEN /\ engine' = [holds |-> policy.trained, awake |-> TRUE]
         /\ policy' = IF cfg.colocated THEN OffloadAfterRefit(policy) ELSE policy
         /\ stale' = FALSE
    ELSE engine' = [engine EXCEPT !.awake = TRUE] /\ UNCHANGED <<policy, stale>>

\* finish_generation: a colocated engine goes to sleep.
FinishGeneration == [engine EXCEPT !.awake = @ /\ ~cfg.colocated]

StartValidation ==
    /\ pc' = "validate"
    /\ val' = NoVal
    /\ IF Distillation THEN ReadyEngine ELSE UNCHANGED <<policy, engine, stale>>

\* The counters of the save state and, if asked for, a first validation.
Start ==
    /\ pc = "start"
    /\ ret' = "epoch"
    /\ IF cfg.valAtStart /\ at.total = 0
       THEN StartValidation
       ELSE /\ pc' = "epoch"
            /\ policy' = IF Distillation THEN policy ELSE PrepareForTraining(policy)
            /\ UNCHANGED <<engine, stale, val>>
    /\ UNCHANGED <<cfg, at, teacher, batch, info, timed, disk, crashes>>

StartSft == cfg.alg = "sft" /\ Start
StartRm == cfg.alg = "rm" /\ Start
StartDpo == cfg.alg = "dpo" /\ Start
StartDistillation == Distillation /\ Start

-----------------------------------------------------------------------------
(* Validation *)

\* The samples of the next validation batch.
NextVal == {i \in 1..ValSamples : val.seen < i /\ i <= val.seen + ValBatchSize}

\* Padding that repeats the last sample's mask too.
BadPadLast(samples) ==
    samples \o [i \in 1..((PadTo - (Len(samples) % PadTo)) % PadTo) |-> Last(samples)]

\* maybe_pad_last_batch: copies of the last sample, masked out, up to a
\* multiple of PadTo.  A sample is its number and its sample_mask.
PadLast(samples) ==
    LET missing == (PadTo - (Len(samples) % PadTo)) % PadTo
    IN samples \o [i \in 1..missing |-> [Last(samples) EXCEPT !.mask = 0]]

\* The forward pass weighs every sample by its mask: how often a batch counts one.
Counted(samples, i) == Cardinality({k \in DOMAIN samples : samples[k] = [id |-> i, mask |-> 1]})

\* No sample after the first valBatches batches is looked at.
BeforeLimit(seen) ==
    \/ cfg.valBatches = 0 /\ ~Distillation
    \/ seen < cfg.valBatches * ValBatchSize

MoreVal == NextVal # {} /\ BeforeLimit(val.seen)

\* The samples of the next batch, with their masks.
ValBatch(masked) ==
    [i \in 1..Cardinality(NextVal) |->
        [id |-> val.seen + i, mask |-> IF val.seen + i \in masked THEN 0 ELSE 1]]

MaskedOut == (1..ValSamples) \ ValidSamples[val.set]

ValidateNext(batchSeen, samples) ==
    /\ pc = "validate" /\ MoreVal
    /\ val' = [val EXCEPT !.seen = @ + Len(batchSeen),
                          !.counted = [i \in 1..ValSamples |-> @[i] + Counted(samples, i)]]
    /\ UNCHANGED <<cfg, pc, ret, at, policy, teacher, engine, stale, batch, info, timed, disk,
                   crashes>>

\* What a validation of one set gives: its metric, of the weights that were run over the
\* samples counted (zeros if none was).
Metrics(weights) == {[set |-> val.set, weights |-> weights, samples |-> val.counted]}

\* SFT pads a batch that is smaller than the others ...
ValidateTokens ==
    LET samples == ValBatch(MaskedOut)
    IN /\ cfg.alg = "sft"
       /\ ValidateNext(samples, IF Len(samples) < ValBatchSize THEN PadLast(samples)
                                                               ELSE samples)

EndTokens ==
    /\ cfg.alg = "sft" /\ pc = "validate" /\ ~MoreVal
    /\ val' = [val EXCEPT !.metrics = Metrics(policy.trained)]
    /\ policy' = PrepareForTraining(policy)
    /\ pc' = ret
    /\ UNCHANGED <<cfg, ret, at, teacher, engine, stale, batch, info, timed, disk, crashes>>

\* ... and so does RM, in pairs ...
ValidateScores ==
    LET samples == ValBatch(MaskedOut)
    IN /\ cfg.alg = "rm"
       /\ ValidateNext(samples, IF Len(samples) < ValBatchSize THEN PadLast(samples)
                                                               ELSE samples)

\* ... DPO one that does not divide, as it adds the reference's logprobs.
ValidatePairs ==
    /\ cfg.alg = "dpo"
    /\ ValidateNext(ValBatch(MaskedOut), PadLast(ValBatch(MaskedOut)))

\* Both take one set after the other and keep the metrics apart by its name.
NextDataset ==
    /\ pc = "validate" /\ ~MoreVal
    /\ LET found == val.metrics \cup Metrics(policy.trained)
       IN  IF val.set < cfg.sets
           THEN pc' = pc /\ val' = [NoVal EXCEPT !.set = val.set + 1, !.metrics = found]
           ELSE pc' = ret /\ val' = [val EXCEPT !.metrics = found]
    /\ policy' = PrepareForTraining(policy)
    /\ UNCHANGED <<cfg, ret, at, teacher, engine, stale, batch, info, timed, disk, crashes>>

EndScores == cfg.alg = "rm" /\ NextDataset
EndPairs == cfg.alg = "dpo" /\ NextDataset

\* Distillation generates answers and takes the reward of every sample.
ValidateAnswers == Distillation /\ ValidateNext(ValBatch({}), ValBatch({}))

EndAnswers ==
    /\ Distillation /\ pc = "validate" /\ ~MoreVal
    /\ val' = [val EXCEPT !.metrics = Metrics(engine.holds)]
    /\ engine' = FinishGeneration
    /\ pc' = ret
    /\ UNCHANGED <<cfg, ret, at, policy, teacher, stale, batch, info, timed, disk, crashes>>

-----------------------------------------------------------------------------
(* Epochs and steps *)

Unlimited == cfg.maxSteps = -1

\* A loop that takes -1 for a limit already passed.
BadWithinLimit(total) == total < cfg.maxSteps

WithinLimit(total) == Unlimited \/ total < cfg.maxSteps

StartEpoch ==
    /\ pc = "epoch"
    /\ pc' = IF at.epoch < MaxEpochs /\ WithinLimit(at.total) THEN "batch" ELSE "done"
    /\ UNCHANGED <<cfg, ret, at, policy, teacher, engine, stale, batch, val, info, timed, disk,
                   crashes>>

NextBatch(then) ==
    /\ pc = "batch" /\ at.loader < Batches
    /\ at' = [at EXCEPT !.loader = @ + 1]
    /\ batch' = [NoBatch EXCEPT !.index = at.loader + 1]
    /\ val' = NoVal
    /\ pc' = then
    /\ UNCHANGED <<cfg, ret, teacher, info, timed, disk, crashes>>

\* add_ref_logprobs_to_data hands DPO its batches (see ReferenceLogprobs); distillation
\* readies the engine for the prompts.
NextTokens == NextBatch("train") /\ UNCHANGED <<policy, engine, stale>>
NextPairs == NextBatch("reference") /\ UNCHANGED <<policy, engine, stale>>
NextPrompts == NextBatch("generate") /\ ReadyEngine

EndEpoch ==
    /\ pc = "batch" /\ at.loader = Batches
    /\ at' = [at EXCEPT !.epoch = @ + 1, !.step = 0, !.loader = 0]
    /\ pc' = "epoch"
    /\ UNCHANGED <<cfg, ret, policy, teacher, engine, stale, batch, val, info, timed, disk,
                   crashes>>

\* add_ref_logprobs_to_data: the reference weights are swapped in for the
\* forward pass and the trained ones back again.
ReferenceLogprobs ==
    /\ pc = "reference"
    /\ batch' = [batch EXCEPT !.ref = policy.ref]
    /\ pc' = "train"
    /\ UNCHANGED <<cfg, ret, at, policy, teacher, engine, stale, val, info, timed, disk,
                   crashes>>

Generate ==
    /\ pc = "generate"
    /\ batch' = [batch EXCEPT !.from = engine.holds]
    /\ engine' = FinishGeneration
    /\ pc' = "teacher"
    /\ UNCHANGED <<cfg, ret, at, policy, teacher, stale, val, info, timed, disk, crashes>>

TeacherLogits ==
    /\ pc = "teacher"
    /\ teacher' = "gpu"
    /\ pc' = "prepare"
    /\ UNCHANGED <<cfg, ret, at, policy, engine, stale, batch, val, info, timed, disk, crashes>>

\* A driver that brings the student back beside the teacher.
BadPrepareStudent ==
    /\ pc = "prepare" /\ pc' = "train"
    /\ policy' = PrepareForTraining(policy) /\ stale' = TRUE
    /\ UNCHANGED <<cfg, ret, at, teacher, engine, batch, val, info, timed, disk, crashes>>

PrepareStudent ==
    /\ pc = "prepare"
    /\ teacher' = "cpu"
    /\ policy' = PrepareForTraining(policy)
    /\ stale' = TRUE
    /\ pc' = "train"
    /\ UNCHANGED <<cfg, ret, at, engine, batch, val, info, timed, disk, crashes>>

Train ==
    /\ pc = "train"
    /\ policy' = [policy EXCEPT !.trained = Append(@, batch.index)]
    /\ pc' = "trained"
    /\ UNCHANGED <<cfg, ret, at, teacher, engine, stale, batch, val, info, timed, disk, crashes>>

MaybeValidate ==
    /\ pc = "trained"
    /\ ret' = "save"
    /\ IF cfg.valPeriod > 0 /\ (at.total + 1) % cfg.valPeriod = 0
       THEN StartValidation
       ELSE pc' = "save" /\ UNCHANGED <<policy, engine, stale, val>>
    /\ UNCHANGED <<cfg, at, teacher, batch, info, timed, disk, crashes>>

-----------------------------------------------------------------------------
(* Checkpoints *)

IsLastStep ==
    \/ ~Unlimited /\ at.total + 1 >= cfg.maxSteps
    \/ at.epoch + 1 = MaxEpochs /\ at.step + 1 = Batches

\* The entry metric_name asks for is that of this step (of the first validation set, where
\* there are several), or is removed.
NamedMetric == IF cfg.metric THEN {m \in val.metrics : m.set = 1} ELSE info.named

\* A checkpoint by period, at the last step or when time runs out: the save state, the
\* weights and the loader, in one.
SaveStep(step, newInfo) ==
    /\ pc = "save"
    /\ timed' \in BOOLEAN
    /\ at' = [at EXCEPT !.consumed = @ + 1]
    /\ IF cfg.saving /\ (IsLastStep \/ (at.total + 1) % SavePeriod = 0 \/ timed')
       THEN /\ policy' = IF Distillation THEN PrepareForTraining(policy) ELSE policy
            /\ info' = newInfo
            /\ disk' = [step |-> step, total |-> at.total + 1, epoch |-> at.epoch,
                        loader |-> at.loader, consumed |-> at.consumed + 1,
                        trained |-> policy.trained, info |-> newInfo]
       ELSE UNCHANGED <<policy, info, disk>>
    /\ pc' = "step_end"
    /\ UNCHANGED <<cfg, ret, teacher, engine, stale, batch, val, crashes>>

\* SFT, DPO and RM start an epoch over at 0.
StepInEpoch == (at.step + 1) % Batches

\* SFT keeps the named metric alone.
SaveSft == SaveStep(StepInEpoch, [info EXCEPT !.named = NamedMetric])

\* RM keeps every metric of every set and removes those of earlier steps by their names.
SaveRm ==
    SaveStep(StepInEpoch, [info EXCEPT !.named = NamedMetric, !.all = val.metrics])

\* So does DPO, but the names it removes leave out how many samples were valid.
SaveDpo ==
    SaveStep(StepInEpoch,
             [named |-> NamedMetric, all |-> val.metrics,
              counts |-> IF val.metrics = {} THEN info.counts ELSE val.metrics])

\* Distillation keeps the reward as val_reward, brings the student back to save it, and does
\* not wrap the step.
SaveDistillation ==
    SaveStep(at.step + 1, [info EXCEPT !.named = NamedMetric, !.all = val.metrics])

EndStep ==
    /\ pc = "step_end"
    /\ at' = [at EXCEPT !.step = @ + 1, !.total = @ + 1]
    /\ pc' = IF timed \/ ~WithinLimit(at.total + 1) THEN "done" ELSE "batch"
    /\ UNCHANGED <<cfg, ret, policy, teacher, engine, stale, batch, val, info, timed, disk,
                   crashes>>

\* The process dies, or is started again after it stopped.
Crash ==
    /\ pc # "setup" /\ crashes < MaxCrashes
    /\ crashes' = crashes + 1
    /\ pc' = "setup"
    /\ UNCHANGED <<cfg, ret, at, policy, teacher, engine, stale, batch, val, info, timed, disk>>

Ended == pc = "done" /\ UNCHANGED vars

\* One turn of each driver's loop over its batches.
AfterTraining(save) == MaybeValidate \/ save \/ EndStep
SftStep == cfg.alg = "sft" /\ (NextTokens \/ Train \/ AfterTraining(SaveSft))
RmStep == cfg.alg = "rm" /\ (NextTokens \/ Train \/ AfterTraining(SaveRm))
DpoStep ==
    cfg.alg = "dpo" /\ (NextPairs \/ ReferenceLogprobs \/ Train \/ AfterTraining(SaveDpo))
DistillationStep ==
    /\ Distillation
    /\ \/ NextPrompts \/ Generate \/ TeacherLogits \/ PrepareStudent \/ Train
       \/ AfterTraining(SaveDistillation)

Progress ==
    \/ SetupSft \/ SetupRm \/ SetupDpo \/ SetupDistillation
    \/ StartSft \/ StartRm \/ StartDpo \/ StartDistillation
    \/ ValidateTokens \/ EndTokens \/ ValidateScores \/ EndScores
    \/ ValidatePairs \/ EndPairs \/ ValidateAnswers \/ EndAnswers
    \/ StartEpoch \/ SftStep \/ RmStep \/ DpoStep \/ DistillationStep \/ EndEpoch

Next == Progress \/ Crash \/ Ended

Spec == Init /\ [][Next]_vars

-----------------------------------------------------------------------------
(* Properties *)

\* The batches the weights of a run of `n` steps must be trained on.
InOrder(n) == [i \in 1..n |-> ((i - 1) % Batches) + 1]

\* The samples the validation of a set must count: the valid ones of the first valBatches
\* batches, each once (every one in distillation, which has no mask there).
ToCount(k) ==
    {i \in 1..ValSamples : /\ \/ cfg.valBatches = 0 /\ ~Distillation
                              \/ i <= cfg.valBatches * ValBatchSize
                           /\ Distillation \/ i \in ValidSamples[k]}

Weights == Seq(1..Batches)
Metric == [set: 1..cfg.sets, weights: Weights \cup {None}, samples: [1..ValSamples -> Nat]]
Info == [named: SUBSET Metric, all: SUBSET Metric, counts: SUBSET Metric]

TypeOK ==
    /\ cfg \in Configs
    /\ pc \in {"setup", "start", "validate", "epoch", "batch", "reference", "generate",
              "teacher", "prepare", "train", "trained", "save", "step_end", "done"}
    /\ ret \in {"setup", "epoch", "save"}
    /\ at \in [step: Nat, total: Nat, epoch: Nat, loader: 0..Batches, consumed: Nat]
    /\ policy \in [trained: Weights, model: {"gpu", "cpu"}, ref: Weights \cup {None}]
    /\ teacher \in {"gpu", "cpu"}
    /\ engine \in [holds: Weights \cup {None}, awake: BOOLEAN]
    /\ stale \in BOOLEAN /\ timed \in BOOLEAN /\ crashes \in 0..MaxCrashes
    /\ batch \in [index: 0..Batches, ref: Weights \cup {None}, from: Weights \cup {None}]
    /\ val \in [set: 1..cfg.sets, seen: Nat, counted: [1..ValSamples -> Nat],
                metrics: SUBSET Metric]
    /\ info \in Info
    /\ disk \in [step: Nat, total: Nat, epoch: Nat, loader: 0..Batches, consumed: Nat,
                 trained: Weights, info: Info]

\* Every batch of every epoch is trained on once and in order in the history
\* the weights have, through epoch ends, limits, timeouts and restarts, though
\* weights, counters and the loader's position are saved and restored apart
\* (the save blocks and setup of the four drivers); and a run that ends
\* untimed has trained as long as its limits allow.
BatchesInOrder ==
    /\ pc \in {"epoch", "batch", "save", "step_end", "done"} =>
         /\ policy.trained = InOrder(at.total + IF pc \in {"save", "step_end"} THEN 1 ELSE 0)
         /\ at.consumed = Len(policy.trained) - IF pc = "save" THEN 1 ELSE 0
    /\ pc = "done" /\ ~timed =>
         at.total = IF Unlimited \/ cfg.maxSteps > MaxEpochs * Batches
                    THEN MaxEpochs * Batches ELSE cfg.maxSteps

\* A validation metric saved with a checkpoint was measured on the very weights
\* the checkpoint holds, over each valid sample of the first val_batches
\* batches of its set exactly once, whatever padding filled the last batch and whatever
\* metrics the save state still had from earlier sets, steps or runs.  (DPO's numbers of valid
\* samples, info.counts, may be those of an earlier step.)
MetricOfItsCheckpoint ==
    /\ \A m \in disk.info.named \cup disk.info.all :
          /\ m.weights = disk.trained
          /\ m.samples = [i \in 1..ValSamples |-> IF i \in ToCount(m.set) THEN 1 ELSE 0]
    /\ disk.info.all # {} => {m.set : m \in disk.info.all} = 1..cfg.sets

\* A run with checkpoints never has more than a save period of steps to lose
\* and leaves its final weights on disk when it comes to its end, be it by the
\* limit on steps, the epochs or the timeout.
WorkIsSaved ==
    cfg.saving =>
        /\ Len(policy.trained) - Len(disk.trained) <= SavePeriod
        /\ pc = "done" => disk.trained = policy.trained

\* A run ends with its last weights on disk and every checkpoint with the metric of its own.
CheckpointsKeepUp == MetricOfItsCheckpoint /\ WorkIsSaved

\* What a loss compares the trained weights with: DPO's reference is the base
\* model, in restarts too, and never the checkpoint they resume from;
\* distillation's answers come from the weights the step starts from.
LossInputs ==
    pc = "train" =>
        /\ cfg.alg = "dpo" => batch.ref = <<>>
        /\ Distillation => batch.from = policy.trained

\* A training step reads the next batch and compares it with the right weights, in whatever
\* process it runs.
StepInputs == BatchesInOrder /\ LossInputs

\* Student, teacher and colocated engine hold the GPU one at a time, but for
\* one case: after a step that validated and saved, distillation wakes the
\* engine without a refit and so without offloading the student that
\* saving brought back (distillation.py:607-617; grpo.py:1145 offloads here).
SavedAfterValidation ==
    /\ cfg.valPeriod > 0 /\ at.total % cfg.valPeriod = 0
    /\ disk.total = at.total
OneOnGpu ==
    cfg.colocated /\ pc # "setup" =>
        /\ ~(engine.awake /\ teacher = "gpu")
        /\ policy.model = "gpu" => SavedAfterValidation \/ (teacher = "cpu" /\ ~engine.awake)

=============================================================================
