---------------------------- MODULE PolicyMemory ----------------------------
(***************************************************************************)
(* What one policy worker holds and where: parameters, buffers, gradients  *)
(* and optimizer state on the GPU or the CPU, whose weights are in the     *)
(* model, the copy of the reference weights, and the optimizer state that  *)
(* belongs to the weights.  The workers are those of                       *)
(* nemo_rl/models/policy/workers/{megatron_policy_worker,                  *)
(* dtensor_policy_worker,dtensor_policy_worker_v2}.py with their           *)
(* checkpoint code (utils/native_checkpoint.py, automodel_checkpoint.py).  *)
(*                                                                         *)
(* The drivers are the sequences of calls one training step of each makes: *)
(* `todo` holds the calls that are still to come.  All workers of a group  *)
(* get the same calls, so one stands for all of them.                      *)
(***************************************************************************)
EXTENDS Integers, Sequences

CONSTANTS
    Jobs,        \* the configurations a run may have (see JobType)
    Formats,     \* model_save_format values a run may be (re)started with
    MaxSteps,    \* training steps
    MaxCrashes   \* how often a run is started again

\* backend: the worker class; driver: the algorithm that calls it; engine: who
\* generates; colocated: generation.colocated.enabled; spare:
\* offload_optimizer_for_logprob; offload: dtensor_cfg.cpu_offload, or Megatron's
\* optimizer_cpu_offload; overlap: distributed optimizer and overlap_param_gather;
\* fp8: the engine's KV cache needs scales; lora: lora_cfg.enabled; dynamic:
\* use_dynamic_sampling; evalFirst: val_at_start.
JobType == [backend: {"megatron", "dtensor", "dtensor_v2"},
            driver: {"sync", "async", "sft", "dpo", "rm"},
            engine: {"none", "vllm", "megatron"}, colocated: BOOLEAN, spare: BOOLEAN,
            offload: BOOLEAN, overlap: BOOLEAN, fp8: BOOLEAN, lora: BOOLEAN,
            dynamic: BOOLEAN, evalFirst: BOOLEAN]

\* What the workers' and the drivers' set-up accepts.
JobAssumptions(j) ==
    /\ j.driver \in {"sync", "async"} <=> j.engine # "none"
    /\ j.engine = "none" => ~j.colocated /\ ~j.fp8
    /\ j.driver = "async" => j.engine = "vllm" /\ ~j.colocated
    /\ j.engine = "megatron" => j.backend = "megatron" /\ j.colocated /\ ~j.fp8
    /\ j.fp8 \/ j.overlap => j.backend = "megatron"
    /\ j.lora => j.backend = "dtensor_v2"
    /\ j.driver = "rm" => j.backend # "megatron"
    /\ j.dynamic \/ j.fp8 => j.driver = "sync"
    /\ j.evalFirst => j.driver # "async"      \* async validation leaves the policy alone

ASSUME JobAssumption == Jobs \subseteq JobType /\ \A j \in Jobs : JobAssumptions(j)
ASSUME BoundAssumption == {MaxSteps, MaxCrashes} \subseteq Nat

Base == 0       \* the pretrained weights; n: the weights after n training steps
None == -1      \* no weights
NoCheckpoint == [weights |-> None, optim |-> None, format |-> "none", peft |-> FALSE,
                 step |-> 0]

VARIABLES
    job,      \* the configuration
    format,   \* checkpointing.model_save_format of this process
    todo,     \* the worker calls the driver has still to make
    policy,   \* the worker (see NewWorker)
    stale,    \* POLICY_GENERATION_STALE
    scaled,   \* kv_scales_cache is set
    step,     \* training steps the driver has counted
    disk,     \* the newest whole checkpoint (CheckpointManager has its writing)
    up,       \* the process runs
    crashes

vars == <<job, format, todo, policy, stale, scaled, step, disk, up, crashes>>

-----------------------------------------------------------------------------
(* The worker's methods, as functions of its state. *)

Megatron == job.backend = "megatron"

\* Where parameters live between calls, and where the optimizer steps.
ParamHome == IF job.offload /\ ~Megatron THEN "cpu" ELSE "gpu"
OptimHome == IF job.offload THEN "cpu" ELSE "gpu"

\* Moving an optimizer moves the state there is: none before the first step.
MoveOptimizer(w, device) ==
    IF w.optim.at = "none" THEN w ELSE [w EXCEPT !.optim.at = device]

\* Megatron's model has parameters and gradients in buffers of their own; a
\* gradient buffer that is offloaded is freed.
MoveModel(w, device, params, grads) ==
    [w EXCEPT !.params = IF params THEN device ELSE @,
              !.grads = IF grads THEN device ELSE @]

\* DTensor's model moves with its buffers.
MoveToDevice(w, device) == [w EXCEPT !.params = device, !.buffers = device]

\* To the GPU for a forward pass; with cpu_offload FSDP brings the parameters
\* itself, and only the buffers have to be moved.
OnloadModel(w) ==
    IF job.offload THEN [w EXCEPT !.buffers = "gpu"] ELSE MoveToDevice(w, "gpu")

MegatronForLpInference(w) ==
    LET m == MoveModel(MoveModel(w, "gpu", TRUE, FALSE), "cpu", FALSE, TRUE)
    IN IF ~job.offload /\ job.spare THEN MoveOptimizer(m, "cpu") ELSE m

DTensorForLpInference(w) ==
    IF job.spare THEN MoveOptimizer(OnloadModel(w), "cpu") ELSE OnloadModel(w)

\* An optimizer that is brought back only where logprobs have moved it away.
BadOptimizerComesBack == ~job.offload /\ job.spare

\* The optimizer comes back if something may have moved it away.
OptimizerComesBack == ~job.offload /\ (job.spare \/ job.colocated)

MegatronForTraining(w) ==
    LET m == MoveModel(w, "gpu", TRUE, TRUE)
    IN IF OptimizerComesBack THEN MoveOptimizer(m, "gpu") ELSE m

DTensorForTraining(w) ==
    IF OptimizerComesBack THEN MoveOptimizer(OnloadModel(w), "gpu") ELSE OnloadModel(w)

MegatronBeforeRefit(w) ==
    LET m == MoveModel(w, "cpu", FALSE, TRUE)
    IN IF job.offload THEN m ELSE MoveOptimizer(m, "cpu")

DTensorBeforeRefit(w) == MoveOptimizer(w, "cpu")

ForLpInference(w) == IF Megatron THEN MegatronForLpInference(w) ELSE DTensorForLpInference(w)
ForTraining(w) == IF Megatron THEN MegatronForTraining(w) ELSE DTensorForTraining(w)
BeforeRefit(w) == IF Megatron THEN MegatronBeforeRefit(w) ELSE DTensorBeforeRefit(w)

\* All that can go: the model, and what goes before a refit once more.
AfterRefit(w) ==
    BeforeRefit(IF Megatron THEN MoveModel(w, "cpu", TRUE, TRUE) ELSE MoveToDevice(w, "cpu"))

\* Megatron's own generation brings the parameters back only if they are gathered
\* ahead of the layers.
ForGeneration(w) ==
    IF job.engine = "megatron" /\ job.overlap THEN MoveModel(w, "gpu", TRUE, FALSE) ELSE w

\* With cpu_offload the weights are brought to the GPU to be sent.
OnloadForStream(w) ==
    IF job.offload /\ ~Megatron THEN MoveToDevice(w, "gpu") ELSE w

\* The broadcast sends them back afterwards.
OffloadAfterBroadcast(w) ==
    IF job.offload /\ ~Megatron THEN MoveToDevice(w, "cpu") ELSE w

\* use_reference_model: the weights are copied to the CPU and the reference's
\* are written into the model where it is ...
SwapIn(w) == [w EXCEPT !.saved = w.weights, !.weights = w.reference]

\* ... and back, also when the forward pass raised.
SwapOut(w) == [w EXCEPT !.saved = None, !.weights = w.saved]

\* An optimizer step makes the state it needs beside the parameters.
TrainStep(w) ==
    [w EXCEPT !.weights = @ + 1,
              !.optim = [at |-> IF @.at = "none" THEN OptimHome ELSE @.at, of |-> @.of + 1]]

-----------------------------------------------------------------------------
(* A worker is built: base weights, the reference's copy, then the newest  *)
(* checkpoint if there is one.                                             *)

NeedsReference == job.driver \in {"sync", "async", "dpo"}

\* A load with the configuration of the process.
BadDetected(io, ckpt) == io

\* The automodel checkpointer reads what its configuration says is there:
\* format and adapters are found out from the files' names first, which is taken
\* to be exact.
Detected(io, ckpt) == [format |-> ckpt.format, peft |-> ckpt.peft]

\* What the checkpointer's configuration says is what it reads.
Read(w, io, ckpt) ==
    [w EXCEPT !.io = io,
              !.weights = IF io = [format |-> ckpt.format, peft |-> ckpt.peft]
                          THEN ckpt.weights ELSE None,
              !.optim = [at |-> OptimHome, of |-> ckpt.optim]]

\* The native checkpoint and Megatron's have one format.
Restored(w, ckpt) ==
    IF ckpt = NoCheckpoint THEN w
    ELSE Read(w, IF job.backend = "dtensor_v2" THEN Detected(w.io, ckpt) ELSE w.io, ckpt)

\* The automodel checkpointer starts out with the format of the base weights.
BaseIo == IF job.backend = "dtensor_v2" THEN [format |-> "safetensors", peft |-> job.lora]
          ELSE [format |-> "none", peft |-> FALSE]

BaseWorker ==
    [weights |-> Base, params |-> ParamHome,
     buffers |-> IF Megatron THEN "none" ELSE ParamHome,
     grads |-> IF Megatron THEN "gpu" ELSE "none",
     optim |-> [at |-> "none", of |-> 0], reference |-> None, saved |-> None, io |-> BaseIo]

WithReference(w, weights) == IF NeedsReference THEN [w EXCEPT !.reference = weights] ELSE w

\* A worker that copies the model once it is complete.
BadNewDTensor(ckpt) ==
    LET w == Restored(BaseWorker, ckpt) IN WithReference(w, w.weights)

\* DTensor workers copy the model before they restore it.
NewDTensor(ckpt) == Restored(WithReference(BaseWorker, BaseWorker.weights), ckpt)

\* Megatron's is restored first and loads the reference from the pretrained
\* checkpoint, with the model on the CPU meanwhile.
NewMegatron(ckpt) ==
    MoveModel(WithReference(MoveModel(Restored(BaseWorker, ckpt), "cpu", TRUE, TRUE), Base),
              "gpu", TRUE, TRUE)

NewWorker(ckpt) == IF Megatron THEN NewMegatron(ckpt) ELSE NewDTensor(ckpt)

-----------------------------------------------------------------------------
(* The drivers: which calls one training step makes, in order.             *)

Optional(condition, calls) == IF condition THEN calls ELSE <<>>

NeedRefit == job.engine = "vllm"

RefitCalls ==
    IF job.colocated THEN <<"offload_before_refit", "stream_weights", "offload_after_refit">>
    ELSE <<"broadcast_weights">>

\* The engine gets new weights, or only the room it needs.
ReadyToGenerate(outdated) ==
    IF NeedRefit /\ outdated THEN RefitCalls
    ELSE Optional(job.colocated, <<"offload_after_refit">>)

ReferenceCalls == <<"use_reference_model", "reference_forward", "restore_model">>
LogprobCalls == <<"prepare_for_lp_inference", "get_logprobs">> \o ReferenceCalls
TrainCalls == <<"prepare_for_training", "train">>
SaveCalls == <<"prepare_for_training", "save_checkpoint">>

\* grpo_train, up to the first step.
SyncStart(fresh) ==
    Optional(fresh /\ job.evalFirst,
             (IF NeedRefit THEN RefitCalls ELSE <<>>) \o <<"generate">>)

\* grpo_train: extra: dynamic sampling goes round once more.
SyncStep(extra, val, save) ==
    Optional(NeedRefit /\ stale /\ job.fp8 /\ ~scaled,
             <<"prepare_for_lp_inference", "calibrate">>)
    \o ReadyToGenerate(stale) \o <<"generate">>
    \o Optional(extra, ReadyToGenerate(FALSE) \o <<"generate">>)
    \o LogprobCalls \o TrainCalls \o Optional(job.fp8, <<"calibrate">>)
    \o Optional(val, ReadyToGenerate(TRUE) \o <<"generate">>) \o Optional(save, SaveCalls)

\* async_grpo_train sends the weights after every step, and offloads after a save.
AsyncStep(save) ==
    LogprobCalls \o TrainCalls \o RefitCalls
    \o Optional(save, SaveCalls \o <<"offload_after_refit">>)

\* sft.validate brings everything to the GPU first; dpo's and rm's only after.
Validation ==
    Optional(job.driver = "sft", <<"prepare_for_training">>)
    \o Optional(job.driver = "dpo", ReferenceCalls) \o <<"eval", "prepare_for_training">>

\* sft_train, rm_train and dpo_train, whose data loader adds the reference logprobs.
SupervisedStart(fresh) == Optional(fresh /\ job.evalFirst, Validation) \o <<"prepare_for_training">>
SupervisedStep(val, save) ==
    Optional(job.driver = "dpo", ReferenceCalls) \o <<"train">>
    \o Optional(val, Validation) \o Optional(save, <<"save_checkpoint">>)

\* fresh: no training step has been counted yet.
StartCalls(fresh) ==
    CASE job.driver = "sync"  -> SyncStart(fresh)
      [] job.driver = "async" -> RefitCalls
      [] OTHER                -> SupervisedStart(fresh)

-----------------------------------------------------------------------------
Init ==
    /\ job \in Jobs
    /\ format = "unset" /\ todo = <<>> /\ policy = [weights |-> None]
    /\ stale = FALSE /\ scaled = FALSE /\ step = 0 /\ disk = NoCheckpoint
    /\ up = FALSE /\ crashes = 0

\* A process starts, from the newest checkpoint.
Setup ==
    /\ ~up /\ crashes <= MaxCrashes
    /\ format' \in Formats
    /\ up' = TRUE /\ stale' = TRUE /\ scaled' = FALSE
    /\ policy' = NewWorker(disk) /\ step' = disk.step
    /\ todo' = StartCalls(disk.step = 0)
    /\ UNCHANGED <<job, disk, crashes>>

\* The driver begins the next training step; when it validates and saves is
\* val_period's and save_period's to say.
Begin ==
    /\ up /\ todo = <<>> /\ step < MaxSteps
    /\ \E val, save \in BOOLEAN, extra \in {FALSE, job.dynamic} :
         todo' = CASE job.driver = "sync"  -> SyncStep(extra, val, save)
                   [] job.driver = "async" -> AsyncStep(save)
                   [] OTHER                -> SupervisedStep(val, save)
    /\ UNCHANGED <<job, format, policy, stale, scaled, step, disk, up, crashes>>

Call(name) == up /\ todo # <<>> /\ Head(todo) = name /\ todo' = Tail(todo)

\* The calls that only move things or swap weights.
Effect(name, w) ==
    CASE name = "prepare_for_lp_inference" -> ForLpInference(w)
      [] name = "prepare_for_training"     -> ForTraining(w)
      [] name = "offload_before_refit"     -> BeforeRefit(w)
      [] name = "offload_after_refit"      -> AfterRefit(w)
      [] name = "use_reference_model"      -> SwapIn(w)
      [] name = "restore_model"            -> SwapOut(w)

Move ==
    /\ \E name \in {"prepare_for_lp_inference", "prepare_for_training",
                    "offload_before_refit", "offload_after_refit",
                    "use_reference_model", "restore_model"} :
         Call(name) /\ policy' = Effect(name, policy)
    /\ UNCHANGED <<job, format, stale, scaled, step, disk, up, crashes>>

\* Forward passes leave the worker as it is; a generation may be the worker's own.
Forward ==
    /\ \E name \in {"get_logprobs", "reference_forward", "eval", "generate"} :
         /\ Call(name)
         /\ policy' = IF name = "generate" THEN ForGeneration(policy) ELSE policy
    /\ UNCHANGED <<job, format, stale, scaled, step, disk, up, crashes>>

Calibrate ==
    /\ Call("calibrate") /\ scaled' = TRUE /\ stale' = TRUE
    /\ UNCHANGED <<job, format, policy, step, disk, up, crashes>>

Train ==
    /\ Call("train")
    /\ policy' = TrainStep(policy) /\ stale' = TRUE /\ step' = step + 1
    /\ UNCHANGED <<job, format, scaled, disk, up, crashes>>

StreamWeights ==
    /\ Call("stream_weights")
    /\ policy' = OnloadForStream(policy) /\ stale' = FALSE
    /\ UNCHANGED <<job, format, scaled, step, disk, up, crashes>>

BroadcastWeights ==
    /\ Call("broadcast_weights")
    /\ policy' = OffloadAfterBroadcast(OnloadForStream(policy)) /\ stale' = FALSE
    /\ UNCHANGED <<job, format, scaled, step, disk, up, crashes>>

\* Saving sets the checkpointer to the format asked for, if one is.
SaveIo(w) ==
    IF job.backend # "dtensor_v2" THEN w.io
    ELSE [format |-> IF format = "unset" THEN w.io.format ELSE format,
          peft |-> w.io.peft \/ job.lora]

\* The first DTensor worker has no such choice.
SaveRefused == job.backend = "dtensor" /\ format # "unset"

SaveCheckpoint ==
    /\ Call("save_checkpoint") /\ ~SaveRefused
    /\ policy' = [policy EXCEPT !.io = SaveIo(policy)]
    /\ disk' = [weights |-> policy.weights, optim |-> policy.optim.of,
                format |-> SaveIo(policy).format, peft |-> SaveIo(policy).peft, step |-> step]
    /\ UNCHANGED <<job, format, stale, scaled, step, up, crashes>>

\* Killed, or stopped by the exception a refused save raises.
Stop ==
    /\ up /\ up' = FALSE /\ crashes' = crashes + 1 /\ todo' = <<>>
    /\ \/ crashes < MaxCrashes
       \/ todo # <<>> /\ Head(todo) = "save_checkpoint" /\ SaveRefused
    /\ UNCHANGED <<job, format, policy, stale, scaled, step, disk>>

Ended ==
    /\ IF up THEN todo = <<>> /\ step = MaxSteps ELSE crashes > MaxCrashes
    /\ UNCHANGED vars

Next ==
    \/ Setup \/ Begin \/ Move \/ Forward \/ Calibrate \/ Train \/ StreamWeights
    \/ BroadcastWeights \/ SaveCheckpoint \/ Stop \/ Ended

Spec == Init /\ [][Next]_vars
-----------------------------------------------------------------------------
(* Properties.                                                             *)

\* Three kinds of jobs of which a part of InItsPlace does not hold: the
\* asynchronous driver offloads the optimizer after a save, and nothing brings it
\* back ...
OptimizerLeft(j) == j.driver = "async" /\ ~j.spare /\ ~j.offload

\* ... dpo and rm validate before anything has moved the buffers to the GPU ...
BuffersLeft(j) == j.driver \in {"dpo", "rm"} /\ j.evalFirst /\ j.offload /\ j.backend # "megatron"

\* ... and the driver offloads the parameters Megatron is about to generate with,
\* which nothing brings back.
ParamsLeft(j) == j.engine = "megatron" /\ ~j.overlap

TypeOK ==
    /\ job \in Jobs /\ format \in Formats \cup {"unset"} /\ step \in 0..MaxSteps
    /\ {stale, scaled, up} \subseteq BOOLEAN /\ crashes \in 0..MaxCrashes + 1
    /\ up => /\ policy.params \in {"cpu", "gpu"} /\ policy.weights \in None..MaxSteps
             /\ policy.optim.at \in {"none", "cpu", "gpu"}

\* The next call is one of these.
AboutTo(names) == up /\ todo # <<>> /\ Head(todo) \in names

\* Whenever the policy computes logprobs, calibrates, evaluates or trains, its
\* parameters are where a pass needs them and its buffers are on the GPU; when it
\* trains, the gradients have a place and the optimizer state is beside the
\* weights it updates.  What a call may count on depends on all that moved things
\* since: the offloads around a refit, the logprob passes, the saves.
\* prepare_for_training: "onload models and optimizer state to cuda".
PassInPlace ==
    /\ AboutTo({"get_logprobs", "reference_forward", "calibrate", "eval", "train"}) =>
         policy.params = ParamHome /\ policy.buffers \in {"none", "gpu"}
    /\ AboutTo({"train"}) =>
         policy.optim.at \in {"none", OptimHome} /\ (Megatron => policy.grads = "gpu")

\* And whenever Megatron's model generates: the driver has moved it away before,
\* "to make space for generation", and the worker must bring it back.
GenerationInPlace ==
    AboutTo({"generate"}) /\ job.engine = "megatron" =>
        ForGeneration(policy).params = ParamHome

\* The reference policy is the one training began with, in every process: also
\* after a restart, when the model itself holds the weights of a checkpoint.
ReferenceIsBase == AboutTo({"reference_forward"}) => policy.weights = Base

\* Apart from the reference pass, the model holds the weights of the training
\* steps counted, and the optimizer state belongs to them: through weight swaps,
\* through saves and restarts, and whatever formats the processes write.
WeightsOfStep ==
    AboutTo({"get_logprobs", "calibrate", "eval", "train", "stream_weights",
             "broadcast_weights", "save_checkpoint"}) =>
        policy.weights = step /\ policy.optim.of = step /\ policy.saved = None

\* When an engine on the same GPUs generates, the policy has nothing left there:
\* neither after a refit nor after a save that brought everything back.
\* grpo_train: "unload optimizer to make space for generation".
GpuFree ==
    AboutTo({"generate"}) /\ job.colocated /\ NeedRefit =>
        "gpu" \notin {policy.params, policy.buffers, policy.grads, policy.optim.at}

\* The policy has on the GPU what a call needs there, and nothing when it is the
\* engine's turn: in every job, but for what the three kinds leave behind.
InItsPlace ==
    /\ ~OptimizerLeft(job) /\ ~BuffersLeft(job) => PassInPlace
    /\ ~ParamsLeft(job) => GenerationInPlace
    /\ GpuFree

=============================================================================
