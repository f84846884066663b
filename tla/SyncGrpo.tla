------------------------------ MODULE SyncGrpo ------------------------------
(***************************************************************************)
(* The synchronous GRPO driver: setup and resumption, the generation       *)
(* engine's refit and sleep cycle, dynamic sampling, training, validation  *)
(* and checkpoints of nemo_rl/algorithms/grpo.py, with what the calls do   *)
(* to the GPU (policy workers and VllmGeneration.prepare/finish).          *)
(*                                                                         *)
(* The weights are named by the number of optimizer steps behind them; a   *)
(* generated sample is the set of weights its tokens come from (those the  *)
(* engine holds and those its prefix cache was filled by).  A checkpoint   *)
(* is written in one step here: CheckpointManager takes it apart.          *)
(***************************************************************************)
EXTENDS Integers, Sequences

CONSTANTS
    Configs,        \* the configurations a run may have (records, see ConfigType)
    MaxEpochs,      \* grpo.max_num_epochs
    Batches,        \* len(dataloader)
    SavePeriod,     \* checkpointing.save_period
    ValPeriod,      \* grpo.val_period, 0 for none
    BatchSize,      \* samples of one generated batch
    TrainSize,      \* num_prompts_per_step * num_generations_per_prompt
    MaxGenBatches,  \* grpo.dynamic_sampling_max_gen_batches
    MaxCrashes      \* how often a run is started again

\* engine: who generates; dynamic: use_dynamic_sampling; fp8: the KV cache
\* needs scales; spare: offload_optimizer_for_logprob; overlap: Megatron's
\* distributed optimizer with overlap_param_gather; metric: metric_name asks for
\* a validation metric; valBatches: the batches a validation rolls out (those of
\* its loader, max_val_samples // val_batch_size at most); maxSteps:
\* max_num_steps; the rest as in the configuration file.
ConfigType == [engine: {"vllm", "megatron"}, colocated: BOOLEAN, dynamic: BOOLEAN,
               fp8: BOOLEAN, spare: BOOLEAN, overlap: BOOLEAN, saving: BOOLEAN,
               valAtStart: BOOLEAN, metric: BOOLEAN, valBatches: Nat, maxSteps: Nat]

ASSUME ConfigAssumption ==
    /\ Configs \subseteq ConfigType
    /\ \A c \in Configs :
        /\ c.engine = "megatron" => c.colocated /\ ~c.fp8
        /\ ~c.dynamic => BatchSize = TrainSize
ASSUME SizeAssumption ==
    /\ {MaxEpochs, ValPeriod, BatchSize, MaxCrashes} \subseteq Nat
    /\ {Batches, SavePeriod, TrainSize, MaxGenBatches} \subseteq Nat \ {0}

None == -1      \* no weights (a dummy-loaded engine), no scales

VARIABLES
    cfg,      \* the configuration
    pc, ret,  \* where the driver is; where it goes on after the engine is ready
    at,       \* counters of the driver and of its data loader
    stale,    \* POLICY_GENERATION_STALE
    policy,   \* the policy workers
    engine,   \* the vLLM workers
    scales,   \* kv_scales_cache: the weights they were calibrated for
    cache,    \* batch_cache
    numGen,   \* dynamic_sampling_num_gen_batches
    batch,    \* the samples generated, then the samples to train on
    info,     \* the metric in grpo_save_state, the step's val_metrics, and the
              \* validation going on; a metric is the weights it was measured on
    timed,    \* should_save_by_timeout
    disk,     \* the newest whole checkpoint
    crashes

vars == <<cfg, pc, ret, at, stale, policy, engine, scales, cache, numGen, batch,
          info, timed, disk, crashes>>
driver == <<at, cache, numGen, batch, info, timed>>

-----------------------------------------------------------------------------
(* The policy workers: where model and optimizer are, and the model's mode. *)

PrepareForLpInference(p) ==
    [p EXCEPT !.model = "gpu", !.mode = "eval", !.optim = IF cfg.spare THEN "cpu" ELSE @]

PrepareForTraining(p) ==
    [p EXCEPT !.model = "gpu", !.mode = "train",
              !.optim = IF cfg.spare \/ cfg.colocated THEN "gpu" ELSE @]

OffloadBeforeRefit(p) == [p EXCEPT !.optim = "cpu"]

OffloadAfterRefit(p) == OffloadBeforeRefit([p EXCEPT !.model = "cpu", !.mode = "eval"])

\* Megatron's own generation brings the parameters back only if they are gathered
\* ahead of the layers; PolicyMemory says what that means for the pass.
ReloadForGenerate(p) == IF cfg.overlap THEN [p EXCEPT !.model = "gpu"] ELSE p

(* The vLLM workers.  Only a colocated engine sleeps; sleep level 1 keeps   *)
(* the weights' values and drops the KV cache.                              *)

WakeUp(e, tags) ==
    IF cfg.colocated
    THEN [e EXCEPT !.weights = @ \/ "weights" \in tags, !.kv = @ \/ "kv_cache" \in tags]
    ELSE e

FinishGeneration(e) ==
    IF cfg.colocated THEN [e EXCEPT !.prefix = {}, !.weights = FALSE, !.kv = FALSE]
                     ELSE [e EXCEPT !.prefix = {}]

\* The engine is loaded with dummy weights and put to sleep.
NewEngine == FinishGeneration(
    [version |-> None, scales |-> None, weights |-> TRUE, kv |-> TRUE, prefix |-> {}])

NeedRefit == cfg.engine = "vllm"

-----------------------------------------------------------------------------
NoInfo == [metric |-> {}, val |-> {}, rolled |-> 0, used |-> {}]

Fresh == [step |-> 0, total |-> 0, epoch |-> 0, loader |-> 0, seen |-> 0,
          version |-> 0, metric |-> {}]

Init ==
    /\ cfg \in Configs
    /\ pc = "setup" /\ ret = "setup"
    /\ at = [step |-> 0, total |-> 0, epoch |-> 0, loader |-> 0, seen |-> 0]
    /\ stale = TRUE
    /\ policy = [version |-> 0, model |-> "gpu", optim |-> "gpu", mode |-> "train"]
    /\ engine = [version |-> None, scales |-> None, weights |-> FALSE, kv |-> FALSE,
                 prefix |-> {}]
    /\ scales = None
    /\ cache = <<>> /\ numGen = 0 /\ batch = <<>>
    /\ info = NoInfo
    /\ timed = FALSE
    /\ disk = Fresh
    /\ crashes = 0

\* A setup that does not restore the data loader's state.
BadSetup ==
    /\ pc = "setup" /\ pc' = "start"
    /\ at' = [step |-> disk.step, total |-> disk.total, epoch |-> disk.epoch,
              loader |-> 0, seen |-> disk.seen]
    /\ policy' = [version |-> disk.version, model |-> "gpu", optim |-> "gpu",
                  mode |-> "train"]
    /\ engine' = NewEngine /\ stale' = TRUE /\ scales' = None
    /\ cache' = <<>> /\ numGen' = 0 /\ batch' = <<>> /\ timed' = FALSE
    /\ info' = [NoInfo EXCEPT !.metric = disk.metric]
    /\ UNCHANGED <<cfg, ret, disk, crashes>>

\* Load the newest checkpoint, or start afresh, and build engine and workers.
Setup ==
    /\ pc = "setup"
    /\ pc' = "start"
    /\ at' = [step |-> disk.step, total |-> disk.total, epoch |-> disk.epoch,
              loader |-> disk.loader, seen |-> disk.seen]
    /\ policy' = [version |-> disk.version, model |-> "gpu", optim |-> "gpu",
                  mode |-> "train"]
    /\ engine' = NewEngine
    /\ stale' = TRUE /\ scales' = None
    /\ cache' = <<>> /\ numGen' = 0 /\ batch' = <<>> /\ timed' = FALSE
    /\ info' = [NoInfo EXCEPT !.metric = disk.metric]
    /\ UNCHANGED <<cfg, ret, disk, crashes>>

\* What precedes every use of the engine: a refit when its weights are stale,
\* else a wake-up, before which the policy leaves the GPU (but for the
\* initial validation).  The driver goes on at `next`.
ReadyEngine(next, offload) ==
    /\ ret' = next
    /\ IF NeedRefit /\ stale
       THEN /\ pc' = IF cfg.colocated THEN "refit_offload" ELSE "refit_update"
            /\ UNCHANGED <<policy, engine>>
       ELSE /\ pc' = next
            /\ policy' = IF offload /\ cfg.colocated THEN OffloadAfterRefit(policy)
                                                     ELSE policy
            /\ engine' = WakeUp(engine, {"weights", "kv_cache"})

InitialValidation ==
    /\ pc = "start"
    /\ IF cfg.valAtStart /\ at.step = 0
       THEN ReadyEngine("val_start", FALSE)
       ELSE pc' = "epoch" /\ UNCHANGED <<ret, policy, engine>>
    /\ UNCHANGED <<cfg, driver, stale, scales, disk, crashes>>

StartEpoch ==
    /\ pc = "epoch"
    /\ pc' = IF at.epoch < MaxEpochs /\ at.total < cfg.maxSteps THEN "batch" ELSE "done"
    /\ cache' = <<>> /\ numGen' = 0
    /\ UNCHANGED <<cfg, ret, at, stale, policy, engine, scales, batch, info, timed, disk,
                   crashes>>

\* A driver that wakes a refitted engine with the optimizer still on the GPU.
BadNextBatch ==
    /\ pc = "batch" /\ at.loader < Batches
    /\ at' = [at EXCEPT !.loader = @ + 1, !.seen = @ + 1]
    /\ info' = [info EXCEPT !.val = {}]
    /\ ReadyEngine("generate", FALSE)
    /\ UNCHANGED <<cfg, stale, scales, cache, numGen, batch, timed, disk, crashes>>

\* The next batch of the loader.  Scales are calibrated once before a refit.
NextBatch ==
    /\ pc = "batch" /\ at.loader < Batches
    /\ at' = [at EXCEPT !.loader = @ + 1, !.seen = @ + 1]
    /\ info' = [info EXCEPT !.val = {}]
    /\ IF NeedRefit /\ stale /\ cfg.fp8 /\ scales = None
       THEN /\ pc' = "calibrate" /\ UNCHANGED <<ret, policy, engine>>
       ELSE ReadyEngine("generate", TRUE)
    /\ UNCHANGED <<cfg, stale, scales, cache, numGen, batch, timed, disk, crashes>>

CalibrateScales ==
    /\ pc = "calibrate"
    /\ scales' = policy.version
    /\ ret' = "generate"
    /\ pc' = IF cfg.colocated THEN "refit_offload" ELSE "refit_update"
    /\ policy' = PrepareForLpInference(policy)
    /\ UNCHANGED <<cfg, driver, stale, engine, disk, crashes>>

EndEpoch ==
    /\ pc = "batch" /\ at.loader = Batches
    /\ pc' = "epoch"
    /\ at' = [at EXCEPT !.epoch = @ + 1, !.step = 0, !.loader = 0]
    /\ UNCHANGED <<cfg, ret, stale, policy, engine, scales, cache, numGen, batch, info,
                   timed, disk, crashes>>

-----------------------------------------------------------------------------
(* refit_policy_generation *)

RefitOffload ==
    /\ pc = "refit_offload"
    /\ policy' = OffloadBeforeRefit(policy)
    /\ pc' = "refit_wake"
    /\ UNCHANGED <<cfg, ret, driver, stale, engine, scales, disk, crashes>>

RefitWakeWeights ==
    /\ pc = "refit_wake"
    /\ engine' = WakeUp(engine, {"weights"})
    /\ pc' = "refit_update"
    /\ UNCHANGED <<cfg, ret, driver, stale, policy, scales, disk, crashes>>

\* The weights reach every worker, or some worker reports that they did not
\* and the driver raises.  Validation at the start passes no scales.
RefitUpdate ==
    /\ pc = "refit_update"
    /\ \/ /\ engine' = [engine EXCEPT
                !.version = policy.version,
                !.scales = IF cfg.fp8 /\ ret # "val_start" THEN scales ELSE None]
          /\ IF cfg.colocated THEN pc' = "refit_release" /\ UNCHANGED stale
                              ELSE pc' = ret /\ stale' = FALSE
       \/ pc' = "failed" /\ UNCHANGED <<engine, stale>>
    /\ UNCHANGED <<cfg, ret, driver, policy, scales, disk, crashes>>

RefitRelease ==
    /\ pc = "refit_release"
    /\ policy' = OffloadAfterRefit(policy)
    /\ pc' = "refit_wake_kv"
    /\ UNCHANGED <<cfg, ret, driver, stale, engine, scales, disk, crashes>>

RefitWakeKv ==
    /\ pc = "refit_wake_kv"
    /\ engine' = WakeUp(engine, {"kv_cache"})
    /\ stale' = FALSE
    /\ pc' = ret
    /\ UNCHANGED <<cfg, ret, driver, policy, scales, disk, crashes>>

-----------------------------------------------------------------------------
(* Generation and dynamic sampling *)

\* The weights a sample generated now comes from.
Source == IF NeedRefit THEN {engine.version} \cup engine.prefix ELSE {policy.version}

Generated(e) == IF NeedRefit THEN [e EXCEPT !.prefix = @ \cup {e.version}] ELSE e

Generate ==
    /\ pc = "generate"
    /\ numGen' = numGen + 1
    /\ batch' = [i \in 1..BatchSize |-> Source]
    /\ policy' = IF NeedRefit THEN policy ELSE ReloadForGenerate(policy)
    /\ engine' = Generated(engine)
    /\ pc' = "finish"
    /\ UNCHANGED <<cfg, ret, at, stale, scales, cache, info, timed, disk, crashes>>

FinishBatch ==
    /\ pc = "finish"
    /\ engine' = IF NeedRefit THEN FinishGeneration(engine) ELSE engine
    /\ pc' = "sample"
    /\ UNCHANGED <<cfg, ret, driver, stale, policy, scales, disk, crashes>>

\* Too many masked samples, or groups without reward: the driver raises.
SignalCollapsed ==
    /\ pc = "sample"
    /\ pc' = "failed"
    /\ UNCHANGED <<cfg, ret, driver, stale, policy, engine, scales, disk, crashes>>

TrainOnAll ==
    /\ pc = "sample" /\ ~cfg.dynamic
    /\ pc' = "logprobs"
    /\ UNCHANGED <<cfg, ret, driver, stale, policy, engine, scales, disk, crashes>>

\* dynamic_sampling: `useful` samples of the batch have a spread of rewards
\* and join the cache; a batch without any leaves it out of account.
DynamicSampling ==
    /\ pc = "sample" /\ cfg.dynamic
    /\ \E useful \in 0..BatchSize :
         LET joined == cache \o SubSeq(batch, 1, useful)
             size   == IF useful = 0 THEN 0 ELSE Len(joined)
         IN /\ cache' = joined
            /\ IF size >= TrainSize
               THEN batch' = SubSeq(joined, 1, TrainSize) /\ pc' = "logprobs"
               ELSE /\ batch' = batch
                    /\ pc' = IF numGen <= MaxGenBatches THEN "batch" ELSE "failed"
    /\ UNCHANGED <<cfg, ret, at, stale, policy, engine, scales, numGen, info, timed, disk,
                   crashes>>

-----------------------------------------------------------------------------
(* Training, validation, saving *)

LogProbs ==
    /\ pc = "logprobs"
    /\ policy' = PrepareForLpInference(policy)
    /\ pc' = "prepare"
    /\ UNCHANGED <<cfg, ret, driver, stale, engine, scales, disk, crashes>>

PrepareTraining ==
    /\ pc = "prepare"
    /\ policy' = PrepareForTraining(policy)
    /\ stale' = TRUE
    /\ pc' = "train"
    /\ UNCHANGED <<cfg, ret, driver, engine, scales, disk, crashes>>

Train ==
    /\ pc = "train"
    /\ policy' = [policy EXCEPT !.version = @ + 1]
    /\ scales' = IF cfg.fp8 THEN policy.version + 1 ELSE scales
    /\ pc' = "trained"
    /\ UNCHANGED <<cfg, ret, driver, stale, engine, disk, crashes>>

\* A last step that is never the last of an epoch.
BadIsLastStep == at.total + 1 >= cfg.maxSteps

IsLastStep ==
    \/ at.total + 1 >= cfg.maxSteps
    \/ at.epoch + 1 = MaxEpochs /\ at.step + 1 = Batches

MaybeValidate ==
    /\ pc = "trained"
    /\ IF ValPeriod > 0 /\ (at.total + 1) % ValPeriod = 0
       THEN ReadyEngine("val", TRUE)
       ELSE pc' = "save" /\ UNCHANGED <<ret, policy, engine>>
    /\ UNCHANGED <<cfg, driver, stale, scales, disk, crashes>>

\* One batch of validate: a rollout by the engine as it stands.
ValidateBatch ==
    /\ pc \in {"val", "val_start"} /\ info.rolled < cfg.valBatches
    /\ info' = [info EXCEPT !.rolled = @ + 1, !.used = @ \cup Source]
    /\ policy' = IF NeedRefit THEN policy ELSE ReloadForGenerate(policy)
    /\ engine' = Generated(engine)
    /\ UNCHANGED <<cfg, pc, ret, at, stale, scales, cache, numGen, batch, timed, disk,
                   crashes>>

\* The rest of validate, and finish_generation.  Without any batch the metrics
\* to report were never set and validate raises.
EndValidation ==
    /\ pc \in {"val", "val_start"} /\ info.rolled = cfg.valBatches
    /\ info' = [info EXCEPT !.val = IF pc = "val" THEN info.used ELSE @,
                           !.rolled = 0, !.used = {}]
    /\ engine' = IF NeedRefit /\ cfg.valBatches > 0 THEN FinishGeneration(engine)
                                                   ELSE engine
    /\ pc' = IF cfg.valBatches = 0 THEN "failed"
             ELSE IF pc = "val" THEN "save" ELSE "epoch"
    /\ UNCHANGED <<cfg, ret, at, stale, policy, scales, cache, numGen, batch, timed, disk,
                   crashes>>

\* A validation that did not happen at this step takes the old metric out.
SavedMetric == IF cfg.metric THEN info.val ELSE {}

Save ==
    /\ pc = "save"
    /\ timed' \in BOOLEAN
    /\ pc' = "step_end"
    /\ IF cfg.saving /\ (IsLastStep \/ (at.total + 1) % SavePeriod = 0 \/ timed')
       THEN /\ policy' = PrepareForTraining(policy)
            /\ info' = [info EXCEPT !.metric = SavedMetric]
            /\ disk' = [step |-> at.step + 1, total |-> at.total + 1, epoch |-> at.epoch,
                        loader |-> at.loader, seen |-> at.seen,
                        version |-> policy.version, metric |-> SavedMetric]
       ELSE UNCHANGED <<policy, info, disk>>
    /\ UNCHANGED <<cfg, ret, at, stale, engine, scales, cache, numGen, batch, crashes>>

\* A step that leaves its batch in the cache of dynamic sampling.
BadEndStep ==
    /\ pc = "step_end" /\ numGen' = 0
    /\ at' = [at EXCEPT !.step = @ + 1, !.total = @ + 1]
    /\ pc' = IF timed \/ at.total + 1 >= cfg.maxSteps THEN "done" ELSE "batch"
    /\ UNCHANGED <<cfg, ret, stale, policy, engine, scales, cache, batch, info, timed, disk, crashes>>

EndStep ==
    /\ pc = "step_end"
    /\ cache' = <<>> /\ numGen' = 0
    /\ at' = [at EXCEPT !.step = @ + 1, !.total = @ + 1]
    /\ pc' = IF timed \/ at.total + 1 >= cfg.maxSteps THEN "done" ELSE "batch"
    /\ UNCHANGED <<cfg, ret, stale, policy, engine, scales, batch, info, timed, disk, crashes>>

-----------------------------------------------------------------------------
\* The process dies, or has raised or stopped, and is started again.
Crash ==
    /\ pc # "setup" /\ crashes < MaxCrashes
    /\ crashes' = crashes + 1
    /\ pc' = "setup"
    /\ UNCHANGED <<cfg, ret, driver, stale, policy, engine, scales, disk>>

Ended == pc \in {"done", "failed"} /\ UNCHANGED vars

Progress ==
    \/ Setup \/ InitialValidation \/ StartEpoch \/ NextBatch \/ CalibrateScales \/ EndEpoch
    \/ RefitOffload \/ RefitWakeWeights \/ RefitUpdate \/ RefitRelease \/ RefitWakeKv
    \/ Generate \/ FinishBatch \/ SignalCollapsed \/ TrainOnAll \/ DynamicSampling
    \/ LogProbs \/ PrepareTraining \/ Train \/ MaybeValidate \/ ValidateBatch \/ EndValidation
    \/ Save \/ EndStep

Next == Progress \/ Crash \/ Ended

Spec == Init /\ [][Next]_vars

-----------------------------------------------------------------------------
(* Properties *)

Phases ==
    {"setup", "start", "epoch", "batch", "calibrate", "refit_offload", "refit_wake",
     "refit_update", "refit_release", "refit_wake_kv", "val_start", "generate", "finish",
     "sample", "logprobs", "prepare", "train", "trained", "val", "save", "step_end", "done",
     "failed"}
CounterType == [step: Nat, total: Nat, epoch: Nat, loader: 0..Batches, seen: Nat]
PolicyType == [version: Nat, model: {"gpu", "cpu"}, optim: {"gpu", "cpu"},
               mode: {"train", "eval"}]
EngineType == [version: Nat \cup {None}, scales: Nat \cup {None}, weights: BOOLEAN,
               kv: BOOLEAN, prefix: SUBSET (Nat \cup {None})]
InfoType == [metric: SUBSET Nat, val: SUBSET Nat, rolled: Nat, used: SUBSET (Nat \cup {None})]
CheckpointType == [step: Nat, total: Nat, epoch: Nat, loader: 0..Batches, seen: Nat,
                   version: Nat, metric: SUBSET Nat]

TypeOK ==
    /\ cfg \in Configs
    /\ pc \in Phases
    /\ ret \in {"setup", "generate", "val_start", "val"}
    /\ at \in CounterType
    /\ stale \in BOOLEAN /\ timed \in BOOLEAN
    /\ policy \in PolicyType
    /\ engine \in EngineType
    /\ scales \in Nat \cup {None}
    /\ numGen \in Nat /\ crashes \in 0..MaxCrashes
    /\ info \in InfoType
    /\ disk \in CheckpointType

\* Every sample a step trains on was generated, in all its tokens, by the
\* weights the step starts from, whatever refits, validations, cached batches
\* of dynamic sampling and restarts came between (grpo_train's
\* POLICY_GENERATION_STALE, batch_cache and finish_generation).  With an fp8
\* KV cache the engine's scales belong to those weights too; only the first
\* step after a validation at the start runs without (grpo.py:1043).
OnPolicy ==
    pc = "train" =>
        /\ \A i \in DOMAIN batch : batch[i] = {policy.version}
        /\ cfg.fp8 => \/ engine.scales = policy.version
                      \/ cfg.valAtStart /\ engine.scales = None

\* A colocated engine and the policy never hold the GPU against each other:
\* the KV cache is there only while model and optimizer are on the host, the
\* engine's weights only while the optimizer is; and each phase finds on the
\* GPU what it computes with.
GpuShared ==
    /\ cfg.colocated /\ NeedRefit =>
         /\ engine.kv => policy.model = "cpu"
         /\ engine.weights => policy.optim = "cpu"
    /\ pc \in {"generate", "val", "val_start"} /\ cfg.colocated /\ NeedRefit =>
         engine.weights /\ engine.kv
    /\ pc = "refit_update" => policy.model = "gpu" /\ (cfg.colocated => engine.weights)
    /\ pc = "prepare" => policy.model = "gpu" /\ policy.mode = "eval"
    /\ pc = "train" => policy.model = "gpu" /\ policy.mode = "train" /\ policy.optim = "gpu"

\* No batch of the data is skipped or taken twice in the history a run builds
\* on, through epoch ends, early stops and restarts from any checkpoint: the
\* batches seen are those before the loader's position, and the weights are as
\* many steps old as the step counter says.
LoaderFollowsCounters ==
    /\ pc # "setup" => at.seen = at.epoch * Batches + at.loader
    /\ pc \in {"epoch", "batch", "train", "done"} => policy.version = at.total

\* The validation metric a checkpoint is ranked by was measured, in all its
\* batches, on the weights the checkpoint holds.
MetricOfItsWeights == disk.metric \subseteq {disk.version}

\* What one checkpoint holds, and a run goes on from, is of one step.
StateOfOneStep == LoaderFollowsCounters /\ MetricOfItsWeights

\* A run with checkpoints never has more than a save period of steps to lose,
\* and leaves its final weights on disk when it comes to its end.  (With
\* dynamic sampling a run that ends by its epochs does not: is_last_step
\* compares a count of steps with the number of batches.)
WorkIsSaved ==
    cfg.saving =>
        /\ policy.version - disk.version <= SavePeriod
        /\ pc = "done" => \/ disk.version = policy.version
                          \/ cfg.dynamic /\ at.epoch = MaxEpochs

=============================================================================
