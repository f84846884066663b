# NeMo RL: a TLA+ development

NeMo RL post-trains language models: a *driver* (one Python process) runs a
training loop over a *policy* (GPU workers that hold the weights and the
optimizer), a *generation engine* (vLLM or Megatron workers that sample text),
*environments* that score it, and a *checkpoint directory*. The modules here
model the parts whose correctness hangs on order, interleaving, failure or index
arithmetic, translate them from the source, model-check them with TLC on small
instances, and prove the theorems of section 6 with TLAPS for every instance.

`PROJECT.json` maps every definition to the lines of `src/` it stands for, lists
the runs, and for each property a *mutant*: an operator `Bad...` beside the
definition it replaces, a plausible bug of that code, under which TLC finds the
property violated.

File names below are those of `src/nemo_rl/`: `async_utils.py`, `grpo.py`,
`sft.py`, `dpo.py`, `rm.py`, `distillation.py`, `loss_functions.py` are in
`algorithms/`.

## 1. Inventory

| Component | State | Operations | Talks to | What is hard |
|---|---|---|---|---|
| `ReplayBuffer` actor (`async_utils.py`) | three parallel lists, a high-water mark | push, sample, clear, getters | workers, collection thread, driver | index arithmetic on three lists, fullness, order of arrival |
| `AsyncTrajectoryCollector` actor (`async_utils.py`) | three events, version, reservations, thread set, semaphore | collection loop, worker threads, seven calls of the driver | buffer, engine, driver | threads against calls, checks and uses apart, pauses |
| `async_grpo_train` | step, weight version | fill wait, sample, train, refit, validate, save | all of the above | stalls, calls that are not awaited, exceptions, timeouts |
| `grpo_train` | counters, staleness of the engine, cache of dynamic sampling | generate, filter, train, refit, validate, save, resume | engine, policy, checkpoints | who is on the GPU, cache across batches, counters restored apart |
| SFT, DPO, RM, distillation loops | counters, metrics, position of the loader | train, validate, save, resume | policy, teacher, engine, checkpoints | ends of epochs and limits, restarts, partial validation batches |
| `CheckpointManager` (`utils/checkpoint.py`) | the directory | begin, finalize, prune, find latest | drivers | crashes between file-system calls, retention order |
| Rollouts (`experience/rollouts.py`) and evaluation (`evals/eval.py`) | active samples, turns, scores | multi-turn generation by turns, by coroutines, by NeMo-Gym | engine, environments | truncation, errors of one sample, results by index |
| Streams of the vLLM workers (`vllm_generation.py`) | queue, tasks, a flag | generate with time limit | rollouts, workers | order in which an event loop runs its tasks |
| Sequence packing, sharding (`data/packing`, `batched_data_dict.py`) | none | pack, shard, cut into microbatches, reorder | policy | bins of equal count, reordering undone exactly |
| Policy workers (`models/policy/`) | weights, optimizer, reference copy, where each is | train, logprobs, top-k, score, refit, offload, save, load | driver, engine, collectives | collectives that must agree, offloads by configuration, formats of checkpoints |
| Token layout (`distributed/model_utils.py`, `models/megatron/common.py`, `loss_functions.py`) | none | pad, pack, cut, roll, gather, losses | policy workers | numbers of the wrong token without any error |
| Weight transfer (`policy/utils.py`, `utils/packed_tensor.py`, vLLM back end) | two buffers, sockets | pack and send, receive and load | policy, engine | buffers shared by two processes, two loops that must cut alike |
| Virtual cluster, worker groups (`distributed/`) | placement groups, workers | place, retry, rank, start, join | Ray, drivers | numbering of bundles, GPUs left over, actors that race |
| Environments | per environment | step, metrics | rollouts | pools of workers, timeouts of user code |
| Logger, timers, configuration, virtual environments, data sets | process-wide | set-up, output | everything | nothing the properties could be about |

The hazards are in `PROJECT.json`, each at its line with the properties that
watch it.

## 2. Modules

| Module | Models |
|---|---|
| `ReplayBuffer` | the buffer actor as one sequence of records |
| `ReplayBufferLists` | the same actor with its three lists and its index pops; implements `ReplayBuffer` |
| `AsyncGrpo` | collector, worker threads, actor thread, driver, with `ReplayBuffer` inside |
| `BoundedStaleness` | what asynchronous GRPO promises, with none of its machinery |
| `SyncGrpo` | the synchronous driver, with what its calls do to GPU, engine and caches |
| `TrainingLoops` | the drivers of SFT, DPO, reward models and distillation |
| `CheckpointManager` | the checkpoint directory, one file-system call a step, with crashes |
| `CheckpointStore` | what the directory promises to a run that may die |
| `AsyncGeneration` | one engine call: worker, consumer task, queue, caller, timer |
| `Evaluation` | scores of an evaluation, the verifier's worker pool (operators) |
| `Rollouts` | the three rollouts and the evaluation loop, on top of the two |
| `Refit` | weight transfer over shared buffers and over broadcasts |
| `BinPacking`, `BatchSharding` | packers and `BatchedDataDict` (operators) |
| `PolicyWorkers` | one call of policy or engine: shards, ranks, collectives, results |
| `ContextParallel`, `SequencePacks`, `MessageLogs`, `TokenLosses` | rows over ranks, packed rows, conversations, losses (operators) |
| `TokenPipeline` | a training step token by token, composed of them and of `BatchSharding` |
| `PolicyMemory` | where one worker's parameters, buffers, optimizer and reference copy are, and whose |
| `Clusters` | from a configuration to running, joined worker groups |
| `MC...` | instances TLC checks: only constants |
| `...Proofs` | theorems and proofs of the module named; those of `BoundedStaleness` are in `AsyncGrpoProofs` |

What one module takes as one step another takes apart: a refit is a few steps of
`SyncGrpo`, one of `TrainingLoops`, and `Refit` is its protocol; a checkpoint is
one step of the drivers and of `PolicyMemory`, and `CheckpointManager` writes it
file by file; a generation is one step of `SyncGrpo` and a `Rollouts` behaviour;
a training step is one step of the drivers, `PolicyWorkers` runs it over ranks
and `TokenPipeline` over tokens.

### 2.1 Asynchronous GRPO

`AsyncGrpo` has one control variable per process.

| Process | Variable | Code |
|---|---|---|
| driver | `tpc` | `async_grpo_train` |
| actor thread of the collector | `apc`, queue `calls` | the methods the driver calls, in the order of the calls |
| collection thread | `cpc` | `_collection_loop`, `_process_batch` |
| worker `w` | `wpc[w]` | `_run_prompt_group_worker` |

A worker is named by the batch and the prompt it rolls out, and so is the prompt
group it makes. Reads of shared state that the code makes without a lock are
steps of their own: the version (`ReadVersion`), the high-water mark
(`ReadLastTarget`), the limit test, the comparison with the warning version, its
update from a second read of the version and the clear of the event
(`DecideLimits`, `WarnLimits`, `NoteWarning`, `ClearLimitEvent`), the test of the
refit event, the acquire of a permit together with the record of the thread,
and the start of the thread. `set_weight_version` is two steps, because the
version is set before the event. A push that meets a full buffer is a step
(`BufferFull`), and so is the loop's next test of `running` (`RetryPush`). The
`finally` clause of a worker is one step: its three parts only release, and each
is under a lock of its own.

Calls the driver awaits (`prepare_for_refit`, `get_dataloader_state`) leave the
driver at `prepare` or `saving` until the actor's thread has served them; calls
it does not await (`set_weight_version`, `pause`, `resume`,
`resume_after_refit`) only join the queue. Ray delivers the calls of one caller
to an actor in order. When the loop ends the actors are killed: every action of
the actors and their threads requires `~Finished`. After a failed first refit
`async_grpo_train` returns before its `try` block, and the actors go on.

Abstracted: the content of groups and of a training step, losses, logging, the
engine. A rollout ends or raises, at any moment. `wait_for_pending_generations`
polls; each look is a step (`PollPending`). The driver's retries of a sample that
returns `None` and of the initial fill are not steps. Exceptions of a push itself
mean that the buffer actor is dead and are left out, as are exceptions of the
dataloader.

The guide's promise (`src/docs/guides/async-grpo.md`) is `BoundedStaleness`: a
group is made with some version and meant for a later one at most `MaxAge` on;
each step takes exactly `NumPrompts` groups meant for the current version; no
group is used twice. Nothing in the contract, and nothing in the code at the time
a step runs, tests the age of what it uses: that it is bounded follows from how
targets are chosen. The refinement maps `fresh` to the groups of workers that
have not pushed, `pool` to the set of buffer entries, `taken` to what the last
sample returned until the next version is published.

### 2.2 Checkpoints

`CheckpointManager` keeps the directory as a function from the directories there
are (`tmp_step_N`, `step_N`, `old_step_N`) to the save that wrote each of their
files. `mkdir`, each file, each rename, each unlink and `rmdir` of `rmtree` is a
step; `Crash` may happen between any two and `Resume` starts a new process from
the latest `step_N`. The policy's weights, its optimizer and the tokenizer are one
"file". `caller` says who saves: `"driver"` a training loop, which saves later and
later steps, `"other"` any caller, which may save a step again (the docstring of
`finalize_checkpoint` speaks of it, the tests do it, and only this reaches the
branch with `old_step_N`).

The promise, `CheckpointStore`: checkpoints appear whole, for later and later
steps; one is given up only when it is not the latest and `KeepTopK` better ones
are there; a crash does not show. The refinement maps the store to the set of
*whole* `step_N` directories of a driver, with the score in their
`training_info.json`.

### 2.3 Synchronous GRPO and the other drivers

`SyncGrpo` and `TrainingLoops` have the same shape: `pc` is the place in the
driver, one action per block of its loop, and `ret` where it goes on after a
sub-procedure (a refit in `SyncGrpo`, a validation in `TrainingLoops`). Weights
are named by what made them: the number of optimizer steps in `SyncGrpo`, the
sequence of batches trained on in `TrainingLoops`. So a loader that is one batch
off, a reference model taken from a checkpoint, or a metric of other weights are
visible in the state.

* `at` holds the counters of the save state and the position of the data loader.
  Code that restores them apart (setup reads `training_info.json`, the loader
  reads `train_dataloader.pt`, workers read the weights) restores them in one
  `Setup`, each from its part of `disk`.
* In `SyncGrpo` the policy is `[version, model, optim, mode]` and the engine
  `[version, scales, weights, kv, prefix]`: who is on the GPU, which weights the
  engine holds, for which weights its KV scales were made, and by which weights
  its prefix cache was filled. A sample is the set of weights its tokens come
  from: of those the engine holds and those in its prefix cache. A refit takes
  five steps (`RefitOffload` to `RefitWakeKv`) with `stale` cleared at the end.
* `cache` and `numGen` are dynamic sampling's `batch_cache` and its counter; a
  generated batch has some number of samples with signal, from none to all.
* Validation takes one step a batch, with its results counted on the weights they
  were measured on; `TrainingLoops` counts how often it looked at each sample. `Save` writes the newest checkpoint in one step.
* `Crash` ends the process anywhere; the next `Setup` starts from `disk`.
* `TrainingLoops` adds what each algorithm has of its own: `ReferenceLogprobs`
  (DPO), `Unlimited` (reward models), `ReadyEngine`, `Generate`, `TeacherLogits`,
  `PrepareStudent` (distillation), and several validation sets with masks and the
  padding of the last batch. What the four drivers do differently at the same
  place is an operator each (`SaveSft`, `SaveRm`, `SaveDpo`, `SaveDistillation`,
  `StepInEpoch`).

Abstracted: rewards, advantages and losses, logging, timers (`timed` may be set
at any step, as `TimeoutChecker` may say so).

### 2.4 Rollouts and evaluation

`AsyncGeneration` is one call of a vLLM worker as seen from the driver's event
loop: a consumer task that awaits the worker's stream and fills a queue, a caller
that empties it until a flag is set, and a timer. The loop is `ready`, the
sequence of tasks that can run; a task runs from one `await` to the next.
`Emit`, `EndStream` and `Resolve` are the worker's side and may come at any time.

`Rollouts` runs on top of it in one of four modes. `sync` is
`run_multi_turn_rollout` (a turn of the whole batch, with `active` the active
indices), `async` is one coroutine a sample, `gym` the call of the NeMo-Gym actor
whose rows complete in any order and which may be restarted, `eval` the loop of
`evals/eval.py`. `hist` is a history variable: per sample what its turns were
(tokens generated and observed, whether the environment ended it, which stop
strings were used). No action reads it. Rewards are named by the sample and the
turn they are for.

`Evaluation` has the scores as functions: `chunk_list_to_workers`, the verifier,
pass@k and cons@k, in parts of n! so that they are whole numbers.

### 2.5 Weight transfer

`Refit` has a record per policy worker (`sender`), per engine worker
(`receiver`), the two halves of each shared buffer by offset, and the one message
between the sockets of a pair. Pair `r` is the policy worker and the engine
worker of one GPU. A parameter is its index in the list; `Load` reads the half at
the offset the receiver computes by its own sizes and sets `torn` when it finds
another parameter there. `Fetch` is a collective of the policy workers (a
parameter is gathered from all of them). `PackGroup` and `UnpackGroup` are the
loops of the producer and of the consumer, each with its own target. `Fault` is a
worker that raises: a policy worker is lost to the driver's `ray.get`, an engine
worker returns `False` and sends no acknowledgement, and the sockets' timeouts
end the rest.

### 2.6 One call on all ranks, and its tokens

`PolicyWorkers` is one call of `Policy` or of the engine with the batch given by
the lengths of its samples: the driver shards it (`BatchSharding`, `BinPacking`),
the data-parallel ranks run their microbatches and stop at their collectives, the
driver collects and puts back in order. Ranks are at different places unless a
collective holds them. With DTensor the forward pass of a microbatch is a
collective itself (FSDP gathers parameters); with Megatron it is not.

`TokenPipeline` is a training step with the tokens: data processor, message log,
flat batch, the driver's calls (logprobs, reference, top-k, train), and in each
the microbatch that is padded, packed (`SequencePacks`) and cut over
context-parallel ranks (`ContextParallel`), the log probabilities over the
vocabulary cut over tensor-parallel ranks, and the losses (`TokenLosses`). A
number the model computes *is* the context it saw and the token it is about, so a
shift by one, a wrong segment or a mask of another row gives another number. What
a loss should be is said without any of it: from the samples' conversations
(`Ideal`).

The two modules share `BatchSharding`; collectives, dummies and optimizer steps
are in the first, tokens and gradients in the second.

### 2.7 Memory, and whose weights

`PolicyMemory` is one policy worker. A driver is the sequence of calls a training
step of it makes (`SyncStep`, `AsyncStep`, `SupervisedStep`), with any pattern of
validations and saves; `todo` holds those still to come and each call is a method
of the worker, for Megatron and for DTensor. The state has where parameters,
buffers, gradients and optimizer are, whose weights the model and the optimizer
belong to, the reference copy and the swapped-out weights. A restart builds a
worker anew, base weights first, and loads what the newest checkpoint has in the
format it is detected to have.

Conventions: all workers of a group get the same calls, so one stands for all. A
save is one step. Exceptions inside `use_reference_model` restore the weights and
end the run. v1 with `model_save_format` set raises at the first save
(`lm_policy.py:806`). `Detected` takes the scan of file names
(`automodel_checkpoint.py:393`) as exact. A colocated engine of another kind needs
the policy's GPU; Megatron's own generation needs the policy's parameters on it,
and `ForGeneration` is what `generate` does about that. `OptimizerLeft`,
`BuffersLeft` and `ParamsLeft` name the three kinds of jobs in which a call does
not find what it needs (section 5).

### 2.8 Clusters

`Clusters` has one process per thread of the setup (policy, engine, teacher) and
one for the reward-model environment, an actor that makes its own cluster at the
same time. `RequestGroups`, `GroupsReady`, `GroupsTimeOut` and `RetryLater` are
`RayVirtualCluster`; `Place` is Ray, which gives a placement group all its bundles
or none, when it likes; `Join` is a node that joins the Ray cluster late. Then a
worker group creates its workers (rank 0 first, for the master address), and the
driver joins the groups for weight updates. `MaxRetries` bounds the retries, as
in the code.

## 3. Runs

Twelve runs, one per question; all pass. The configuration of a run has its name
(`async_in_flight`: `AsyncInFlight.cfg`), and its module is the `MC` module of
the same part where there is one. Bounds are CONSTANTS in the `.cfg`, or
sets of configurations in the `MC` module. `CHECK_DEADLOCK FALSE` stands only in
the asynchronous, checkpoint and replay-buffer runs, where a driver stops and
kills its actors or waits for good, a run uses up its saves, or every group has
been pushed; elsewhere an `Ended` action marks the legal ends.

| Run | Instance | Properties |
|---|---|---|
| `replay_buffer` | 4 groups in a buffer of 3, 2 to a sample, age 1 | `ImplementsBuffer` |
| `async_in_flight` | 2 prompts, age 1, 3 batches, 3 steps, in-flight refits, validation and checkpoint at the second step, timeout; 823 989 states | `WindowAdmitsIntended`, `ReservedOrBuffered`, `FullBufferHasStep`, `KeepsStalenessBounded` |
| `async_live` | 1 prompt, age 1, 5 batches, 2 steps, refits that wait, validation at the start, one failure; 293 758 states | `PausesEnd`, `RefitHappens`, `ReservedStepArrivesOnce` |
| `checkpoint` | 3 steps, 3 saves, 2 scores or none, `KeepTopK` 1, 2 crashes | `ResumesFromWholeCheckpoint`, `ImplementsStore`, `OldKeptUntilReplaced` |
| `sync_grpo` | 17 configurations, 2 epochs of 3 batches, save period 4, validation period 2, 2 restarts; 55 259 states | `OnPolicy`, `GpuShared`, `StateOfOneStep`, `WorkIsSaved` |
| `training_loops` | 4 drivers, limits before, beyond and without end, 5 validation samples in twos, 2 sets, 2 restarts; 122 096 states | `StepInputs`, `CheckpointsKeepUp`, `OneOnGpu` |
| `rollouts` | 3 samples in turn (sync, gym), 2 concurrently, 2 turns, contexts that overflow, evaluations of up to 3 prompts and 3 tests; 266 972 states | `NoResultLost`, `OutcomeOfItsTurns`, `ScoreOfEveryPrompt`, `RolloutsEnd` |
| `refit` | 2 pairs, 5 models with 0 or 2 scales, buffer of 9 bytes aligned to 2, target 3, one fault; 92 227 states | `NeverTorn`, `BroadcastsAgree`, `RefitIsWhole`, `RefitEnds` |
| `data_parallel` | 4260 calls: batches of 4 to 6 samples of lengths 1 to 7, 1 to 4 ranks, plain, dynamic and four packers | `StepsAreGlobalBatches`, `ResultsInOrder`, `RanksAgree`, `MicrobatchesFit` |
| `token_pipeline` | 6 drivers, 3 worker classes, plain, dynamic and packed, cp, tp, pp up to 2 (tp 4 once), 4 samples | `TokensInPlace`, `GradientWeights` |
| `policy_memory` | every configuration set-up accepts, 2 steps, 2 restarts, 3 formats; 580 238 states | `InItsPlace`, `ReferenceIsBase`, `WeightsOfStep` |
| `clusters` | machines of 1 to 3 nodes of 2 to 4 GPUs, 4 engine shapes, reward model, teacher, a late node, 2 retries; 86 676 states | `PairsShareGpus`, `LayersOnOneNode`, `MasterRunsRankZero`, `FailsOnlyIfUnfit`, `SetupEnds` |

### What the properties say, and why the bounds are enough

**Asynchronous GRPO.** `WindowAdmitsIntended`: `sample` filters by age first and
by target second; no group meant for the step the driver is at is lost to the
first filter, although its version was read long before, with refits in between.
`ReservedOrBuffered`: a target once reserved is reserved or covered by the
high-water mark, although the first worker and every `finally` release it.
`FullBufferHasStep`: unless two batches were reserved for one target, a full
buffer holds the groups of the driver's step, whatever rollouts failed, so
workers that wait for room wait for the driver and not the other way round. `KeepsStalenessBounded`: the system
implements the contract. Three batches against a window of two targets make the
collector run out of targets, pause, be woken and reserve again; two prompts
split a batch over a refit; three steps let a group outlive its step.

`PausesEnd`: a pause of the collector for a refit ends, unless two batches were
reserved for one target, and one for a validation ends in any case.
`RefitHappens`: so does the wait before a refit. `ReservedStepArrivesOnce`: a step
a batch was reserved for is trained on, unless two were for one target or a
rollout failed. Five batches make the hypothesis matter: two targets reserved
twice leave a full buffer, a worker that waits for room and a batch to come, when
the driver prepares its first refit. Without `[]TargetsDistinct =>` TLC refutes
`RefitPauseEnds` and `RefitHappens` at these bounds (section 5). One
failure, of a rollout or of the driver, comes at any point. Validations in
mid-run, checkpoints and timeouts are left to `async_in_flight`: with them these
bounds are beyond a liveness check, and a validation in mid-run makes the same two
calls as the one at the start, which the run has, with the collector already at work.

**Checkpoints.** `ResumesFromWholeCheckpoint`: what the next process resumes from
has all its files, and of one save, whatever a crash left in `tmp_step_N` or in a
removal. `ImplementsStore`: the promise of `CheckpointStore`.
`OldKeptUntilReplaced`: the order of an override. The second of two crashes hits
what the first left behind; three saves with `KeepTopK` 1 make every order of
better, worse and unscored.

**Drivers.** `OnPolicy`: every sample a step trains on comes, in all its tokens,
from the weights the step starts from. `GpuShared` and `OneOnGpu`: who holds the
GPU. `StateOfOneStep`, `StepInputs`: weights, counters, loader, metric and
reference model agree in every process of a run. `WorkIsSaved`,
`CheckpointsKeepUp`: never more than a save period to lose, the last weights are
on disk at the end, and a checkpoint's metric is of its own weights over each
valid sample once. A save period (4) that is no multiple of an epoch (3) and a
last validation batch that is not full (5 samples in twos) make the cases that
multiples hide. `StateOfOneStep`, `CheckpointsKeepUp` and `StepInputs` are
conjunctions of named parts, one for each direction the state can drift apart.

**Rollouts and evaluation.** `NoResultLost`: although the caller stops at a flag
and leaves the queue, every text the worker yielded is used. `OutcomeOfItsTurns`:
a sample's rewards, tokens, truncation and end are those of its own turns,
whatever becomes of the others. `ScoreOfEveryPrompt`: however batches, streams
and chunks cut the responses, the score is that of each prompt's own. `RolloutsEnd`:
a silent worker blocks neither an asynchronous rollout nor an evaluation
(NeMo-Gym rollouts and synchronous ones have no timeout, and nothing is claimed
of them).

**Weight transfer.** `NeverTorn`, `BroadcastsAgree`, `RefitIsWhole`, `RefitEnds`.
The five models have groups that end exactly at the target and one byte beyond,
parameters that need alignment, one that is too large for a half, and one group
only.

**Calls and tokens.** `StepsAreGlobalBatches`, `ResultsInOrder`, `RanksAgree`,
`MicrobatchesFit` say that dealing out, packing and sorting are undone exactly and
that no rank waits in a collective alone. `TokensInPlace` (`LossReadsItsTokens`
and `PackedFits`): the terms of a loss are, each once, those of the tokens that
count. `GradientWeights`: each term's gradient reaches each of its tokens exactly
once over all ranks. Four samples (two pairs of preferences) include a prompt that
is too long, a generation that was cut off and a conversation of two turns.

**Memory.** `InItsPlace`: a call that computes finds on the GPU what it computes with
(`PassInPlace`), also when Megatron's model itself generates (`GenerationInPlace`),
and a colocated vLLM engine finds the GPU free (`GpuFree`). All jobs are in the run;
`OptimizerLeft` and `BuffersLeft` are excluded from the first part, `ParamsLeft` from the
second, where it is false of them (section 5). `ReferenceIsBase`: the reference model is the base model,
also after a restart. `WeightsOfStep`: model and optimizer are those of the step
counted, through swaps, saves, formats and restarts.

**Clusters.** `PairsShareGpus`: policy and engine worker of a pair are on the same
GPU. `LayersOnOneNode`: tensor-parallel workers are on one node, unless a reward model
asks for more GPUs of each node than it has: the code does not assert that it does not
(`grpo.py:305-329`), and those groups may leave the policy's last one the rest of two
nodes (five nodes of two GPUs, of which three are to give three).
`MasterRunsRankZero`: the address all connect to is rank 0's. `FailsOnlyIfUnfit`
and `SetupEnds`: setup ends, and fails only for machines too small or division
that does not divide; with two exceptions (section 5).

## 4. Fairness

Weak fairness everywhere, and only of what a scheduler runs: no process competes
for a lock it could lose for ever.

* `AsyncGrpo`: the collection thread, each worker, the actor's thread, the driver.
  Threads and Ray actors are scheduled, rollouts and training steps end. Nothing
  obliges a rollout or the driver to raise: fairness is of their steps that do
  not count a failure. `RefitPauseEnds`, `RefitHappens` and
  `ReservedStepArrivesOnce` are conditional on `[]TargetsDistinct`, which can fail
  (section 5): they say that nothing else is in the way.
* `Refit`: each policy worker and engine worker (a socket's timeout is one of its
  steps), the arrivals at a broadcast, the broadcast, the driver. Faults need not
  happen. A broadcast has no timeout in the model: `RefitEnds` claims nothing of
  a collective in which a worker has failed.
* `Rollouts`: the event loop runs its next task, and a timer expires. The worker
  is under no obligation, so `RolloutsEnd` also holds of one that never answers.
* `Clusters`: Ray places what can be placed, threads and driver go on.

The other modules state safety only, with no fairness.

## 5. Known behaviours

Where the code does something else than a reader, a comment or a document
expects. Those with a configuration are claims TLC refutes; run
`tlc -config <cfg> <module>` to see the behaviour.

| Claim | Configuration, module | What happens |
|---|---|---|
| `StaleDiscarded` | `ClaimStale.cfg`, `AsyncGrpo` | A group older than the window ends the training with a ValueError (`async_utils.py:143`), where the guide says it is discarded. It gets that old because the high-water mark is read before the lock (328, 332) and two batches are made for one target (put `OneBatchPerTarget` in place of the claim to see only that). |
| `NoGenerationDuringRefit` | `AsyncLive.cfg` with `SPECIFICATION Spec` and this invariant in place of its properties, `AsyncGrpo` | Test of the refit event, record and start of a worker are not atomic (476-506), and a thread not yet started counts as finished (609): a rollout runs during a refit that waits for all of them. |
| `StallEnds` | `ClaimStallFailed.cfg`, `AsyncGrpo` | A prompt's rollout raises after the first prompt's group was buffered: the step's target is not generated again, and the driver waits for good. |
| `StepNeverSkipped` | `ClaimStallSkipped.cfg`, `AsyncGrpo` | A version offers only later targets (321). A collector that is late offers a step's target never again, and the driver waits for good though nothing failed. |
| `NoCircularWait` | `AsyncLive.cfg` with `SPECIFICATION Spec` and this invariant in place of its properties, `AsyncGrpo` | With surplus groups in the buffer, `prepare_for_refit` waits for a worker that waits for room, which only the driver makes. The pause for the refit then never ends (`RefitPauseEnds` and `RefitHappens` exclude it by `[]TargetsDistinct`). |
| `OverrideSucceeds` | `ClaimOverride.cfg`, `CheckpointManager` | A crash during the removal of `old_step_N` makes every later override of step N raise (`checkpoint.py:173`). |
| `RefittedEverywhere` | `ClaimRefit.cfg`, `MCRefit` | The engine reports the first worker's result (`vllm_worker.py:784`), so a refit that failed on another one succeeds (`grpo.py:965` checks it). |
| `PairsTogether` | `ClaimPairs.cfg`, `MCPolicyWorkers` | Dynamic batching sorts a reward model's pairs apart, against `rm.py:499-500`. |
| `GradientWeights` | `ClaimCpGradient.cfg`, `MCTokenPipeline` | Distillation on context-parallel DTensors: the gradient of gathered logits is cp times too large (`examples/configs/distillation_math.yaml` has cp 2). The passing run leaves these jobs out. |
| `PassInPlace` | `PolicyMemory.cfg` with `Jobs <- MCOptimizerLeft` and this invariant, `MCPolicyMemory` | Asynchronous GRPO offloads the optimizer after a save (`grpo.py:2649`); with the defaults nothing brings it back before the next training step. |
| `PassInPlace` | the same with `Jobs <- MCBuffersLeft` | DPO and reward-model runs that validate first with a CPU-offloaded DTensor worker, whose buffers nothing has moved to the GPU. |
| `GenerationInPlace` | the same with `Jobs <- MCParamsLeft` and this invariant | With Megatron's own generation the driver calls `offload_after_refit` before each rollout, "to make space for generation" (`grpo.py:1145-1146`, and 1454-1455 for a validation), which moves the parameters too; `generate` reloads them only under `should_disable_forward_pre_hook` (`megatron_policy_worker.py:1850`). Without distributed optimizer and overlapped gather the model generates with its parameters on the host. |

Seen while modelling, without a configuration of their own:

* Dynamic sampling stops one batch after `dynamic_sampling_max_gen_batches`
  (`docs/guides/dapo.md:76`, `grpo.py:793`). With it, a run that ends by its
  epochs is not saved (`is_last_step` compares steps with batches), and the
  leave-one-out baseline drops the sample that alone differs.
* With an fp8 cache, the first step after a validation at the start runs without
  scales (`grpo.py:1043`).
* Distillation wakes the engine without a refit after a step that validated and
  saved, with the student on the GPU (`distillation.py:607-617`); `grpo.py:1145`
  offloads there. `OneOnGpu` names the case (`SavedAfterValidation`).
* DPO's save state keeps numbers of valid samples of an earlier step
  (`dpo.py:642-655`).
* A validation without a loader asserts through `master_config["dpo"]` in the
  other drivers too (`sft.py:245`, `grpo.py:1762`); `max_val_samples` below
  `val_batch_size` raises UnboundLocalError (`grpo.py:1784`, `1852`).
* A response that fails to verify late is scored twice
  (`math_environment.py:115`, `135`), which shifts every score behind it in
  pass@k and breaks cons@k's assertion (`eval.py:249`).
* NeMo-Gym: an agent with one sample makes `statistics.stdev` raise
  (`rollouts.py:970`), a conversation without any response raises (1147), and a
  message that is not contiguous fails the whole call.
* In a synchronous rollout a `None` of stop strings takes the old ones away, in an
  asynchronous one it keeps them; `natural_termination_rate` counts truncated
  samples.
* `score` with dynamic batching always raises. The reported loss of a training
  step is scaled by dp * cp.
* Setups that fail although their GPUs are enough: a colocated distillation whose
  engine spans nodes (the teacher's groups come first, `distillation.py:385`;
  `TeacherFirst`), a colocated engine across nodes beside a reward model
  (`RewardNodesInTheWay`). Distillation with Megatron generation waits for good
  (`distillation.py:288`) and is excluded by `IsSetup`.
* `init_ray`'s docstring says it detaches from a mismatched cluster; the code
  does not (`virtual_cluster.py:85-166`).
* `get_best_checkpoint_path` looks at the first entry before sorting
  (`checkpoint.py:249`; no driver calls it); a directory whose
  `training_info.json` an interrupted removal took is in no history any more (314).
* `prepare_for_generation` and `finish_generation` of vLLM swallow exceptions
  (`vllm_generation.py:713`). Collection starts before the first refit
  (`grpo.py:2057`), and the limit event is cleared after its condition may have
  changed (`async_utils.py:428`).
* Processors leave `length` as it was before truncation; helpsteer's puts the
  preferred completion into the prompt's tokens (`processors.py:95-102`).
* `_unpack_sequences_from_megatron` (`common.py:296`) uses unpadded offsets with
  sequence parallelism at cp 1; nothing in `src/` calls it.

## 6. Proofs

`tlapm` checks every obligation of eight modules. Every inductive invariant was
checked with TLC on the small instances before. Each proof has the same shape:
`IInv`, a conjunction of named parts; what each action changes, as lemmas; one
lemma per part that every step keeps it; then the theorems.

### Induction over data

The library's induction theorems take an operator as a parameter, which no backend
here can instantiate. What `ReplayBufferListsProofs` does instead serves any bounded
recursion, and `RolloutsProofs` (sums, factorials, flattening) too: the definition is
a recursive function on `0..n`; that such a function
exists, and that what is wanted holds at every `k`, is proved by `Induction`, a lemma
about membership in a set, which follows from the least element of a set of naturals
(`LeastExists`).

### The contract of asynchronous GRPO

`StalenessIsBounded`, about `BoundedStaleness` (first part of `AsyncGrpoProofs`), follows from `TypeOK`, `UsedOnce` and
`AgeInv` (a group's target is at most `MaxAge` after its version; what is taken is
meant for the current version). `AgeInv` is needed because `StalenessBounded`
alone says nothing of groups not yet taken.

### The buffer's lists (`ReplayBufferListsProofs`)

For any sizes, versions, age and calls, `ListsImplementBuffer`: the three lists, with
the code's comprehensions over indices and its pops, implement the single list of
`ReplayBuffer`. The inductive invariant is `Aligned`: the lists have their types and
one length. `Lists(s, S)` says that `s` enumerates `S` in increasing order;
`KeptLists` that a comprehension over an increasing list enumerates what it lets
pass, so the intended indices are `Intended` and the first `NumGroups` of them the
oldest. `Pops` is the argument for popping the highest index first: what lies below
the last index popped has not moved (`Below`), so the next index still is its own
place, and each of the three lists loses the same members. `SampleKeeps` puts the
parts together.

### Asynchronous GRPO (`AsyncGrpoProofs`)

For any number of prompts, age, batches, steps and failures, with or without
in-flight updates; the only assumption is `ConfigAssumption`. `IInv` is

* `Types`, the type invariant without the bound on the permits;
* `PermitAccounting`, which gives the bound;
* `SpawnInv`: where the collection thread is in a batch decides which workers do
  not exist yet, so `AcquirePermit` makes a new one each time;
* `VersionInv`: the versions in the queue of calls are in order and between the
  collector's and the trainer's;
* `CallInv`: at most one of each awaited call is under way, and the driver is
  where it waits for it;
* `StampInv`: what the collection thread, every worker and every entry carries is
  a version already announced and a target at most `MaxAge` later;
* `OnceInv`: an entry belongs to a worker that has pushed, and to one entry;
* `ReservedInv`: while collection runs and nothing has failed, a worker past its
  push has brought its group to the buffer, so the high-water mark covers it;
* `ReservedOrBuffered` itself;
* `UsedInv`: every step trained used up `NumPrompts` groups meant for it, which
  were offered and are no longer in the buffer.

`ThreadFrame`, `WorkerFrame`, `ActorFrame` and `TrainerFrame` say what each
process leaves alone. From `Invariance` follow `TypeCorrect`, `PermitsAccounted`,
`IntendedIsValid` (the run's `WindowAdmitsIntended`), `VersionsAreOrdered`,
`NoTargetIsForgotten` (`ReservedOrBuffered`) and

* `FullBufferIsEnough` (`FullBufferHasStep`), by counting: with distinct targets
  there are `NumPrompts` groups a target; by `UsedInv` none of an earlier step is
  left, so a full buffer lies within `MaxAge + 1` targets of `NumPrompts` groups
  each, and has no room to spare for the driver's target to be short of one;
* the refinement `ImplementsContract`, where a push is `Offer`, a lost group
  `Lose`, a sample `Train` (the count of groups taken needs `OnceInv`), a refit
  `Publish`, the end of the loop `Stop` and all else a stutter; `TrainsInAgeOnce`
  carries the contract's theorem over: the asynchronous system never trains on a
  group out of its age or twice.

### Synchronous GRPO (`SyncGrpoProofs`)

For every set of configurations, number of batches, epochs, periods and restarts,
from the assumptions of `SyncGrpo`: `TrainsOnPolicy`, `GpuIsShared`,
`CheckpointsAreOfOneStep`, `LosesAPeriodAtMost`. `IInv` is

* `TypeOK`;
* `ReturnInv`: where the driver goes on after an engine was made ready fits where
  it was;
* `CountInv`: the loader's position, the counters and the weights agree at every
  place, with the step that is half done counted where it is;
* `DiskInv`: the same of the checkpoint, without which a restart loses it;
* `EngineInv`: an engine that is not stale holds the policy's weights, and its
  prefix cache was filled by no others;
* `ScalesInv`: the same of KV scales, in the engine and in the driver's cache;
* `SamplesInv`: what was generated, and what waits in dynamic sampling's cache,
  is of the current weights;
* `MetricInv`: a metric not yet saved is of the current weights;
* `PhaseInv`: what each place may count on about GPU, mode and cache;
* `StepInv`: without dynamic sampling the step counter, which `is_last_step`
  compares, is the loader's position; steps are made within the limits only;
* `WorkInv`: the steps not saved are those since the last multiple of the period
  (`Decided - disk.total <= Decided % SavePeriod`), and none at a place from which
  the run ends, except after the last epoch of dynamic sampling.

`OnPolicy` alone says nothing of the cache that a later batch is trained with, nor
of the engine between two batches; `EngineInv` and `SamplesInv` do. `WorkIsSaved`
says nothing of the counter `is_last_step` reads; `StepInv` does.

### The other drivers (`TrainingLoopsProofs`)

For every set of configurations of SFT, DPO, reward models and distillation,
every size of epochs, batches, validation sets and periods, and any number of
restarts: `TypesHold`, `TrainsInOrder` (`StepInputs`), `CheckpointsOfTheirSteps`
(`CheckpointsKeepUp`) and `GpuIsShared` (`OneOnGpu`). `IInv` is

* `TypeOK`, and `PhaseInv`: which algorithms reach a place;
* `StepInv`: between two steps the position is one `AtRest`
  (`total = epoch * Batches + loader`, every batch consumed, a step for each),
  and within one the position it will have `After` it is; the weights are those
  trained on the batches up to there, in order;
* `DiskInv`: the checkpoint is at rest too, with the weights of its step;
* `DoneInv`, `WorkInv`: as in `SyncGrpo`, with the four drivers' conditions;
* `MetricInv`: validation has counted each valid sample up to where it is once
  and no other (`CountedSoFar`), each finished set has a metric of the current
  weights, and what is written with a checkpoint is complete;
* `EngineInv`: the reference is the base model, an engine that is not stale holds
  the student, what is trained on was generated by the present weights;
* `GpuInv`: phase by phase who is on the GPU; where the engine is not stale, the
  student is there only if a checkpoint was saved right after a validation, the
  case `OneOnGpu` names.

The step counter is reset at the end of an epoch and tested modulo the number of
batches, so `StepInv` needs remainders of sums, which the lemmas `Remainder` to
`StepsOfEpochs` derive from the division the solver knows.

### Checkpoints (`CheckpointManagerProofs`)

For any number of steps, saves and crashes, any scores and any `KeepTopK`, from
`CheckpointConfig`: `ResumesFromWhole`, `OldIsKept`, and `KeepsThePromise`, that
one file-system call a step, with crashes between, implements `CheckpointStore`.
From the promise follow `OneCheckpointPerStep` and `ResumePointNeverGoesBack`. `IInv` is `Types`
and

* `SaveInv`: the files written so far are all of the present save, and all are
  written when it is finalized;
* `DoomedInv`: what is to be removed is the checkpoint replaced, whose successor
  is whole, or are checkpoints of steps;

and of a training loop, which saves later and later steps,

* `DriverInv`: nothing is ever replaced, the latest directory is whole;
* `PartialInv`: a removal cut short by a crash leaves a directory that ranks
  behind `KeepTopK` whole ones. It may still be read as history, and this is why
  it never takes a whole one's place;
* `KeptInv`: while directories are removed, `KeepTopK` whole ones stay that rank
  before all that go, so a crash in the middle restores `PartialInv`.

The code sorts the history and removes all but the first `KeepTopK`; the model
ranks a step by how many come before it, and `TopIsFull` and `SurplusIsListed`
(from well-foundedness and counting) say that these are as many as there should
be. A rename publishes, the first unlink in a directory gives it up, everything
else stutters.

### Weight transfer (`RefitProofs`)

For every list of sizes, buffer size, alignment, target and number of workers and
faults: `NothingTorn`, `BroadcastsMatch`, `RefitsAreWhole`, from `RefitAssumption`
and `SameTarget` (both sides take the same packing size, as both compute it from
the same total memory by `get_target_packed_tensor_size`). `IInv` is `Types` and

* `TransportOf`, `ListOf`: which places belong to which transport, and how far a
  policy worker is in the list at each;
* `HandshakeOf`: the group that was sent or is being read is in the half the
  policy worker does not fill, an acknowledgement means that nothing is left to
  read, and there is one message at most;
* `PackedOf`: the parameters of the group being filled, sent or read lie one
  behind the other in their half (`Laid`), from the offset the receiver is at;
* `DeliveredOf`: a parameter packed is loaded, or in one of the three places it
  can wait;
* `CollectiveInv`: all workers of a collective refit are at the same group, and an
  engine worker has loaded all before it;
* `OutcomeInv`: a refit called a success had every worker end.

`NeverTorn` follows from `PackedOf`, which needs `HandshakeOf` for the step that
packs: it must not touch the half being read. `LaidOneMore` and `LaidFirst` say
what packing one more and reading the first do to a group. `GroupIsNotEmpty`
(every group ends at or after its first parameter) needs the least element of a
set of naturals, which `MinIsLeast` gets from well-foundedness.

### Memory (`PolicyMemoryProofs`)

For every set of jobs and formats, any number of steps and restarts, from
`JobAssumption` and `BoundAssumption`: `WeightsAreOfTheStep` (`WeightsOfStep`),
`ReferencePassIsBase` (`ReferenceIsBase`) and `CallsFindTheirPlace` (`InItsPlace`).
The property of the last one excludes `OptimizerLeft`, `BuffersLeft` and `ParamsLeft`
each from the part that is false of it, as TLC shows (section 5); the theorem has no
hypothesis of its own.

What a worker may count on depends on the calls still to come, a sequence that
differs by driver, configuration and step. `IInv` speaks of any sequence:

* `Types`;
* `PolicyInv`: model and optimizer are of the steps counted, and reference passes
  come as swap, forward, restore in a row (`Whole`) — or the worker is inside one,
  with the reference's weights in the model and its own waiting;
* `DiskInv`: a checkpoint's weights and optimizer are of its step, and only the
  automodel checkpointer's have a format;
* `PlaceInv`: what is always so (`Kinds`, `Settled`, `Cold`), and that each call
  to come that needs parameters, a trainable state or a free GPU comes after one
  that makes it, with none between that breaks it, unless it is so already (`Met`).

`Met` and `Whole` are closed under joining two sequences (`MetOfBoth`,
`WholeBoth`), so a driver's calls are shown `Sound` part by part
(`SoundLogprobs`, `SoundTraining`, `SoundRefit`, ...) instead of one case for each
of the possible patterns; and under taking the first call off (`MetOfRest`,
`WholeRest`), which is the step. What a method of the worker moves is a lemma each
(`Onloaded`, `ReadyForTraining`, `OffloadedAfter`, ...).

### Rollouts (`RolloutsProofs`)

For any number of samples, turns, prompts and tests, any lengths and any restarts,
from `RolloutAssumption` and `WorkersAssumption`: `NothingIsLost` (`NoResultLost`),
`OutcomesAreTheirTurns` (`OutcomeOfItsTurns`) and `ScoresAreDue`
(`ScoreOfEveryPrompt`). `Inv` is the conjunction of two
halves. `LoopInv` is about the event loop:

* `CallInv`: at any moment each index a call was asked for is in exactly one place:
  with the worker, in its stream, in the queue or with the caller (`CarriedOnce`);
  an error or an end is the last thing the stream holds (`StreamOK`);
* `ReadyInv`: each task is on the loop at most once, and a caller that is woken runs
  before its consumer does again. That is why the queue holds only what the consumer put
  there in one step (`QueueOK`), and why the caller, which stops at the flag, leaves no
  sample behind;
* `ModeInv`, `TextsInv`, `FailedInv`: which calls a mode may have, that an evaluation's
  texts are in place, and that failed samples had a fault of their own.

`Quiet` (a blocking evaluation makes no call) is an invariant beside it. `OutcomeInv`
says per mode that a sample's state is the `Outcome` of its history: `SyncInv` also
that the active ones are those not over, all at the batch's turn; `AsyncInv` that a
sample waiting for an answer may go on (`GoesOn`); `GymInv` that each row already
there fits its history (`RowOK`), whatever the order.

The steps of a consumer and of a caller are pure functions of the call's record, so
`ConsumerStep` and `CallerStep` are proved without the loop, and the lemmas of the
actions place them in it (`LoopStep`). `Sorted` says that putting distinct indices in
order gives each its place, from `Counting` (a sequence of `n` distinct numbers in
`1..n` has each of them). `GroupsCover` and `OwnFeedback` say that grouping by
environment and going back by index gives each sample its own feedback.
`TokensAppend` and `ConversationPrefix` add up tokens turn by turn, with `KeptFacts`
and `TotalAppend` by the induction above.

`ScoresAreDue` needs of the loop only that the texts come in their prompts' places
(`TextsInv`); its own invariant, `ScoreInv`, adds what `setup` has checked. The rest is
about what the definitions compute, for every input:

* `Stepped`: what the environment's workers return, flattened, is each response's score
  and answer in the responses' order. `Flattened` says so of any parts that follow one
  another, `ChunksCover` that the chunks do, with some short or empty;
* `SplitEven`: groups of `tests` are the prompts' own responses;
* `PassOfGroupIsPassAtK`: the product formula counts the choices that have a right
  response. `Pascal` splits the choices of `k + 1` by whether they have one element,
  `ChoicesCounted` gives `n! = |choices| * k! * (n - k)!` by induction from it, and
  the choices the formula subtracts are those among the wrong responses;
* `ConsOfGroupIsConsAtK`: the vote elects the most frequent answer, and of several the
  first (`WinnerIsMajority`), in whose place the reward is looked up (`FirstPlace`).

A torn response ends the claim (`eval.torn`), as in the property.

### Only model-checked

The properties of `PolicyWorkers`, `TokenPipeline` and `Clusters`. Those of
`PolicyWorkers` and `TokenPipeline` are about what definitions over data compute (bins,
shards, packed rows), many of them `RECURSIVE` operators or folds, which the provers cannot unfold; the
technique above would need them rewritten as recursive functions.
Everything temporal under fairness (`PausesEnd`, `RefitHappens`,
`ReservedStepArrivesOnce`, `RolloutsEnd`, `RefitEnds`, `SetupEnds`) is out of
the prover's reach too.

## 7. Not modelled

* Tensor arithmetic: forward and backward passes, optimizers, kernels, the values
  of losses, rewards and advantages. The token modules say which numbers are
  combined, not what comes out.
* What is external: Ray's scheduler beyond `Place`, vLLM's own scheduler, Megatron
  core, torch.distributed.checkpoint's serialisation, NCCL beyond who meets whom.
* Configuration, logging, virtual environments, the environments' own games and
  tools, data sets, the rendering rewards: they hold no state the properties
  could be about, or only call out.
* In `Clusters`: `init_ray`, shutdown of groups and clusters, CPUs, GPU-id actors,
  engine seeds, workers that raise in their constructors.
* In `TokenPipeline`: multimodal keys, dummies (`PolicyWorkers` has them); jobs
  the code rejects are excluded by `IsJob`, with one that it accepts:
  `zero_outside_topk` with Megatron packing at cp 1.
* In `AsyncGrpo`: exceptions of a push or of the data loader.

The components are listed one by one in `PROJECT.json`, with their status.

Left for later, the most useful first: the invariants of `Clusters` as theorems, and
what the packers and `BatchedDataDict` compute, by induction over their data.
