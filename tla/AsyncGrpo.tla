------------------------------ MODULE AsyncGrpo ------------------------------
(***************************************************************************)
(* Asynchronous GRPO: the training loop async_grpo_train (grpo.py), the     *)
(* AsyncTrajectoryCollector actor with its collection thread and its worker *)
(* threads, and the ReplayBuffer actor between them (async_utils.py).       *)
(*                                                                         *)
(* Processes and where they are:                                            *)
(*   tpc        the driver, in async_grpo_train                             *)
(*   apc        the collector actor's own thread, which serves the driver's *)
(*              calls one at a time in the order they were made (calls)     *)
(*   cpc        the collection thread, _collection_loop and _process_batch  *)
(*   wpc[w]     worker thread w, _run_prompt_group_worker                   *)
(* The ReplayBuffer actor serves one call at a time: one action per call.   *)
(*                                                                         *)
(* A worker is named by the dataloader batch and the prompt it rolls out;   *)
(* the prompt group it produces has the same name.                          *)
(***************************************************************************)
EXTENDS Integers, Sequences, FiniteSets

CONSTANTS
    NumPrompts,     \* grpo.num_prompts_per_step
    MaxAge,         \* grpo.async_grpo.max_trajectory_age_steps
    StartStep,      \* grpo_save_state["current_step"]
    MaxSteps,       \* grpo.max_num_steps
    NumBatches,     \* batches the dataloader yields before it is exhausted
    InFlight,       \* grpo.async_grpo.in_flight_weight_updates
    ValPeriod,      \* grpo.val_period, 0 for none
    ValAtStart,     \* grpo.val_at_start
    SavePeriod,     \* checkpointing.save_period, 0 if checkpointing is off
    MustSaveBy,     \* whether checkpointing.checkpoint_must_save_by is set
    MaxFailures     \* bound: exceptions raised in rollouts or in the trainer

ASSUME ConfigAssumption ==
    /\ NumPrompts \in Nat \ {0}
    /\ MaxAge \in Nat \ {0}
    /\ StartStep \in Nat
    /\ MaxSteps \in Nat
    /\ NumBatches \in Nat
    /\ InFlight \in BOOLEAN
    /\ ValPeriod \in Nat
    /\ ValAtStart \in BOOLEAN
    /\ SavePeriod \in Nat
    /\ MustSaveBy \in BOOLEAN
    /\ MaxFailures \in Nat

Batches == 1..NumBatches
Prompts == 0..(NumPrompts - 1)
Workers == Batches \X Prompts
NoTarget == -1

\* max_inflight = num_prompts_per_step * max_trajectory_age_steps, or 1
MaxInflight == NumPrompts * MaxAge

BadBufferSize == NumPrompts * MaxAge    \* fault: no slack for late arrivals

\* optimal_buffer_size, with late_arrival_slack = 2
BufferSize == NumPrompts * MaxAge * 2

VARIABLES
    \* ReplayBuffer
    entries, lastTarget, sampled,
    \* AsyncTrajectoryCollector: attributes shared by its threads
    running, manualPauseCleared, refitPauseCleared, generationLimitCleared,
    currentVersion, warnedVersion, generatingTargets, permits, inflight,
    \* the actor's thread and its calls
    apc, calls,
    \* the collection thread and its locals
    cpc, batch, prompt, genVersion, lastSeen,
    \* per batch: the target it was reserved for; per worker: where it is,
    \* the version it stamps on its group
    target, wpc, wver,
    \* driver
    tpc, step, weightVersion, timedOut,
    \* exceptions raised so far
    failures

bufferVars == <<entries, lastTarget, sampled>>
eventVars == <<manualPauseCleared, refitPauseCleared, generationLimitCleared>>
actorVars == <<apc, calls>>
locals == <<batch, prompt, genVersion, lastSeen, warnedVersion>>
threadVars == <<cpc, locals>>
stamps == <<target, wver>>
workerVars == <<wpc, stamps>>
trainerLocals == <<step, weightVersion, timedOut>>
trainerVars == <<tpc, trainerLocals>>
poolVars == <<generatingTargets, permits, inflight>>

\* Groups of variables a step leaves alone.
sharedVars == <<running, eventVars, currentVersion, poolVars>>
notCollector == <<bufferVars, trainerVars, failures>>
notThread == <<notCollector, sharedVars, actorVars, workerVars>>
collectorVars == <<sharedVars, actorVars, threadVars, workerVars>>

vars == <<bufferVars, running, eventVars, currentVersion, poolVars, actorVars,
          threadVars, workerVars, trainerVars, failures>>

Buffer == INSTANCE ReplayBuffer WITH Trajectories <- Workers, MaxSize <- BufferSize

\* The driver kills both actors when its loop ends; nothing runs after that.
\* A failed first refit returns before the try block: the actors stay alive.
Finished == tpc \in {"done", "stale", "failed"}
InLoop == tpc \in {"sample", "train", "prepare", "refit", "validate",
                   "validating", "checkpoint", "saving", "end_step"}

Alive(w) == wpc[w] \in {"rollout", "push", "retry", "release", "cleanup"}
LiveThreads == {w \in inflight : Alive(w)}

Init ==
    /\ Buffer!Init
    /\ running = FALSE
    /\ manualPauseCleared = TRUE
    /\ refitPauseCleared = TRUE
    /\ generationLimitCleared = TRUE
    /\ currentVersion = StartStep
    /\ warnedVersion = -1
    /\ generatingTargets = {}
    /\ permits = MaxInflight
    /\ inflight = {}
    /\ apc = "idle"
    /\ calls = << [op |-> "start_collection"],
                  [op |-> "set_weight_version", version |-> StartStep] >>
    /\ cpc = "unstarted"
    /\ batch = 0
    /\ prompt = 0
    /\ genVersion = StartStep
    /\ lastSeen = NoTarget
    /\ target = [b \in Batches |-> NoTarget]
    /\ wpc = [w \in Workers |-> "none"]
    /\ wver = [w \in Workers |-> 0]
    /\ tpc = "initial_refit"
    /\ step = StartStep
    /\ weightVersion = StartStep
    /\ timedOut = FALSE
    /\ failures = 0

-----------------------------------------------------------------------------
(* Collection thread: _collection_loop                                      *)

CollectorStep(from, to) == ~Finished /\ cpc = from /\ cpc' = to

\* for batch in self.dataloader; at the end, finally: self.running = False
FetchBatch ==
    /\ batch < NumBatches
    /\ CollectorStep("fetch", "manual_pause")
    /\ batch' = batch + 1
    /\ UNCHANGED <<notThread, prompt, genVersion, lastSeen, warnedVersion>>

DataloaderExhausted ==
    /\ batch = NumBatches
    /\ CollectorStep("fetch", "stopped")
    /\ running' = FALSE
    /\ UNCHANGED <<locals, notCollector, eventVars, currentVersion, poolVars,
                   actorVars, workerVars>>

PassManualPause ==
    /\ manualPauseCleared
    /\ CollectorStep("manual_pause", "refit_pause")
    /\ UNCHANGED <<locals, notThread>>

PassRefitPause ==
    /\ refitPauseCleared
    /\ CollectorStep("refit_pause", "limit_version")
    /\ UNCHANGED <<locals, notThread>>

BadTargets(version) ==  \* fault: one target too many for the first version
    IF version = StartStep
    THEN StartStep..(StartStep + MaxAge + 1)
    ELSE (version + 1)..(version + MaxAge)

\* _calculate_target_weights
Targets(version) ==
    IF version = StartStep
    THEN StartStep..(StartStep + MaxAge)
    ELSE (version + 1)..(version + MaxAge)

\* The test both _should_pause_for_generation_limits and
\* _get_next_target_for_generation make under _generation_check_lock, with
\* the version and the high-water mark they read before they took it.
Needed ==
    {t \in Targets(genVersion) : t > lastSeen /\ t \notin generatingTargets}

\* target_weights = self._calculate_target_weights(self.current_weight_version)
\* and, in _process_batch, generation_weight_version = self.current_weight_version
ReadVersion(from, to) ==
    /\ CollectorStep(from, to)
    /\ genVersion' = currentVersion
    /\ UNCHANGED <<notThread, batch, prompt, lastSeen, warnedVersion>>

\* ray.get(replay_buffer.get_last_target_weight_already_generated.remote())
ReadLastTarget(from, to) ==
    /\ CollectorStep(from, to)
    /\ lastSeen' = lastTarget
    /\ UNCHANGED <<notThread, batch, prompt, genVersion, warnedVersion>>

DecideLimits ==
    /\ CollectorStep("limit_decide", IF Needed # {} THEN "process" ELSE "limit_warn")
    /\ lastSeen' = NoTarget
    /\ UNCHANGED <<notThread, batch, prompt, genVersion, warnedVersion>>

\* Only the first pause of a version clears the event. The version is read
\* twice, without a lock: to compare it with the last one warned of, and to
\* note it.
WarnLimits ==
    /\ CollectorStep("limit_warn",
          IF warnedVersion # currentVersion THEN "limit_note" ELSE "limit_wait")
    /\ UNCHANGED <<locals, notThread>>

NoteWarning ==
    /\ CollectorStep("limit_note", "limit_clear")
    /\ warnedVersion' = currentVersion
    /\ UNCHANGED <<notThread, batch, prompt, genVersion, lastSeen>>

ClearLimitEvent ==
    /\ CollectorStep("limit_clear", "limit_wait")
    /\ generationLimitCleared' = FALSE
    /\ UNCHANGED <<locals, notCollector, running, manualPauseCleared,
                   refitPauseCleared, currentVersion, poolVars, actorVars,
                   workerVars>>

WaitLimits ==
    /\ generationLimitCleared
    /\ CollectorStep("limit_wait", "process")
    /\ UNCHANGED <<locals, notThread>>

\* _process_batch returns: its locals are gone.
OutOfScope == lastSeen' = NoTarget /\ genVersion' = StartStep

-----------------------------------------------------------------------------
(* Collection thread: _process_batch                                        *)

BadReserveTarget ==     \* fault: the batch is generated without a reservation
    /\ ~Finished
    /\ cpc = "reserve"
    /\ \E t \in Needed :
          /\ \A u \in Needed : t <= u
          /\ target' = [target EXCEPT ![batch] = t]
          /\ lastSeen' = NoTarget
          /\ cpc' = "prompt"
    /\ UNCHANGED <<sharedVars, notCollector, actorVars, batch, prompt,
                   genVersion, warnedVersion, wpc, wver>>

\* _get_next_target_for_generation, the part under the lock.
ReserveTarget ==
    /\ ~Finished
    /\ cpc = "reserve"
    /\ \E t \in Needed :
          /\ \A u \in Needed : t <= u
          /\ target' = [target EXCEPT ![batch] = t]
          /\ generatingTargets' = generatingTargets \cup {t}
          /\ lastSeen' = NoTarget
          /\ cpc' = "prompt"
    /\ UNCHANGED <<notCollector, running, eventVars, currentVersion, permits,
                   inflight, actorVars, batch, prompt, genVersion,
                   warnedVersion, wpc, wver>>

\* No target needs generation: the fetched batch is dropped.
DropBatch ==
    /\ Needed = {}
    /\ CollectorStep("reserve", "fetch")
    /\ OutOfScope
    /\ UNCHANGED <<notThread, batch, prompt, warnedVersion>>

CheckRefit ==
    /\ CollectorStep("prompt", IF refitPauseCleared THEN "acquire" ELSE "refit_wait")
    /\ UNCHANGED <<locals, notThread>>

WaitRefit ==
    /\ refitPauseCleared
    /\ CollectorStep("refit_wait", "reread_version")
    /\ UNCHANGED <<locals, notThread>>

\* _inflight_sema.acquire(), the Thread object and its place in the set
AcquirePermit ==
    LET w == <<batch, prompt>>
    IN  /\ permits > 0
        /\ CollectorStep("acquire", "start")
        /\ permits' = permits - 1
        /\ inflight' = inflight \cup {w}
        /\ wpc' = [wpc EXCEPT ![w] = "created"]
        /\ wver' = [wver EXCEPT ![w] = genVersion]
        /\ UNCHANGED <<locals, notCollector, running, eventVars,
                       currentVersion, generatingTargets, actorVars, target>>

\* worker.start(); after the last prompt, _cleanup_finished_threads
StartWorker ==
    LET w    == <<batch, prompt>>
        last == prompt = NumPrompts - 1
    IN  /\ CollectorStep("start", IF last THEN "fetch" ELSE "prompt")
        /\ wpc' = [wpc EXCEPT ![w] = "rollout"]
        /\ prompt' = IF last THEN 0 ELSE prompt + 1
        /\ genVersion' = IF last THEN StartStep ELSE genVersion
        /\ inflight' = IF last THEN LiveThreads \cup (inflight \cap {w}) ELSE inflight
        /\ UNCHANGED <<stamps, notCollector, running, eventVars,
                       currentVersion, generatingTargets, permits, actorVars,
                       batch, lastSeen, warnedVersion>>

CollectionThread ==
    \/ FetchBatch
    \/ DataloaderExhausted
    \/ PassManualPause
    \/ PassRefitPause
    \/ ReadVersion("limit_version", "limit_last")
    \/ ReadLastTarget("limit_last", "limit_decide")
    \/ DecideLimits
    \/ WarnLimits
    \/ NoteWarning
    \/ ClearLimitEvent
    \/ WaitLimits
    \/ ReadVersion("process", "target_last")
    \/ ReadLastTarget("target_last", "reserve")
    \/ ReserveTarget
    \/ DropBatch
    \/ CheckRefit
    \/ WaitRefit
    \/ ReadVersion("reread_version", "acquire")
    \/ AcquirePermit
    \/ StartWorker

-----------------------------------------------------------------------------
(* Worker threads: _run_prompt_group_worker                                 *)

WorkerStep(w, from, to) ==
    /\ ~Finished
    /\ wpc[w] = from
    /\ wpc' = [wpc EXCEPT ![w] = to]

\* The push loop is entered only while collection runs.
FinishRollout(w) ==
    /\ WorkerStep(w, "rollout", IF running THEN "push" ELSE "cleanup")
    /\ UNCHANGED <<stamps, sharedVars, notCollector, actorVars, threadVars>>

\* run_async_multi_turn_rollout raises: no group for this prompt.
FailRollout(w) ==
    /\ failures < MaxFailures
    /\ WorkerStep(w, "rollout", "cleanup")
    /\ failures' = failures + 1
    /\ UNCHANGED <<stamps, sharedVars, bufferVars, actorVars, threadVars,
                   trainerVars>>

Group(w) == [trajectory |-> w, version |-> wver[w], target |-> target[w[1]]]

BadPushGroup(w) ==      \* fault: the push waits for the refit to be over
    /\ refitPauseCleared
    /\ Buffer!Push(Group(w))
    /\ WorkerStep(w, "push", IF w[2] = 0 THEN "release" ELSE "cleanup")
    /\ UNCHANGED <<stamps, sharedVars, actorVars, threadVars, trainerVars,
                   failures>>

\* A round of the push loop ends in "success", or in "full" and a sleep.
PushGroup(w) ==
    /\ Buffer!Push(Group(w))
    /\ WorkerStep(w, "push", IF w[2] = 0 THEN "release" ELSE "cleanup")
    /\ UNCHANGED <<stamps, sharedVars, actorVars, threadVars, trainerVars,
                   failures>>

BufferFull(w) ==
    /\ Buffer!Full
    /\ WorkerStep(w, "push", "retry")
    /\ UNCHANGED <<stamps, sharedVars, notCollector, actorVars, threadVars>>

\* The loop's test; once collection has stopped the group is lost.
RetryPush(w) ==
    /\ WorkerStep(w, "retry", IF running THEN "push" ELSE "cleanup")
    /\ UNCHANGED <<stamps, sharedVars, notCollector, actorVars, threadVars>>

\* The worker of the first prompt releases the reservation once it is buffered.
ReleaseReservation(w) ==
    /\ WorkerStep(w, "release", "cleanup")
    /\ generatingTargets' = generatingTargets \ {target[w[1]]}
    /\ UNCHANGED <<stamps, notCollector, running, eventVars, currentVersion,
                   permits, inflight, actorVars, threadVars>>

\* finally: reservation, thread record, permit. The three steps only release;
\* any interleaving of them is one where they happen together at the last.
CleanUp(w) ==
    /\ WorkerStep(w, "cleanup", "exited")
    /\ generatingTargets' = generatingTargets \ {target[w[1]]}
    /\ inflight' = inflight \ {w}
    /\ permits' = permits + 1
    /\ wver' = [wver EXCEPT ![w] = 0]
    /\ UNCHANGED <<target, notCollector, running, eventVars, currentVersion,
                   actorVars, threadVars>>

Worker(w) ==
    \/ FinishRollout(w)
    \/ FailRollout(w)
    \/ PushGroup(w)
    \/ BufferFull(w)
    \/ RetryPush(w)
    \/ ReleaseReservation(w)
    \/ CleanUp(w)

-----------------------------------------------------------------------------
(* The collector actor's thread: one call at a time, in the order made      *)

Serve(op) ==
    /\ ~Finished
    /\ apc = "idle"
    /\ calls # <<>>
    /\ Head(calls).op = op

Done == calls' = Tail(calls)

ServeStartCollection ==
    /\ Serve("start_collection") /\ Done
    /\ running' = TRUE
    /\ cpc' = "fetch"
    /\ UNCHANGED <<locals, notCollector, eventVars, currentVersion, poolVars,
                   apc, workerVars>>

\* set_weight_version sets the version, then looks at the event and sets it.
ServeSetWeightVersion ==
    /\ Serve("set_weight_version") /\ Done
    /\ currentVersion' = Head(calls).version
    /\ apc' = "signal"
    /\ UNCHANGED <<notCollector, running, eventVars, poolVars, threadVars,
                   workerVars>>

SignalLimitCleared ==
    /\ ~Finished
    /\ apc = "signal"
    /\ apc' = "idle"
    /\ generationLimitCleared' = TRUE
    /\ UNCHANGED <<notCollector, running, manualPauseCleared,
                   refitPauseCleared, currentVersion, poolVars, calls,
                   threadVars, workerVars>>

ServePause ==
    /\ Serve("pause") /\ Done
    /\ manualPauseCleared' = FALSE
    /\ UNCHANGED <<notCollector, running, refitPauseCleared,
                   generationLimitCleared, currentVersion, poolVars, apc,
                   threadVars, workerVars>>

ServeResume ==
    /\ Serve("resume") /\ Done
    /\ manualPauseCleared' = TRUE
    /\ UNCHANGED <<notCollector, running, refitPauseCleared,
                   generationLimitCleared, currentVersion, poolVars, apc,
                   threadVars, workerVars>>

\* With in-flight updates the call returns at once; otherwise it goes on to
\* wait_for_pending_generations.
ServePrepareForRefit ==
    /\ Serve("prepare_for_refit") /\ Done
    /\ refitPauseCleared' = FALSE
    /\ apc' = IF InFlight THEN "idle" ELSE "draining"
    /\ tpc' = IF InFlight THEN "refit" ELSE tpc
    /\ UNCHANGED <<trainerLocals, bufferVars, running, manualPauseCleared,
                   generationLimitCleared, currentVersion, poolVars,
                   threadVars, workerVars, failures>>

\* One look of wait_for_pending_generations: threads that are not alive,
\* those not yet started included, leave the set; an empty set ends the wait.
PollPending ==
    /\ ~Finished
    /\ apc = "draining"
    /\ inflight' = LiveThreads
    /\ IF LiveThreads = {}
       THEN apc' = "idle" /\ tpc' = "refit"
       ELSE UNCHANGED <<apc, tpc>>
    /\ UNCHANGED <<trainerLocals, bufferVars, running, eventVars,
                   currentVersion, generatingTargets, permits, calls,
                   threadVars, workerVars, failures>>

ServeResumeAfterRefit ==
    /\ Serve("resume_after_refit") /\ Done
    /\ refitPauseCleared' = TRUE
    /\ UNCHANGED <<notCollector, running, manualPauseCleared,
                   generationLimitCleared, currentVersion, poolVars, apc,
                   threadVars, workerVars>>

\* get_dataloader_state: the driver has been waiting for the reply.
ServeDataloaderState ==
    /\ Serve("get_dataloader_state") /\ Done
    /\ tpc' = "end_step"
    /\ UNCHANGED <<trainerLocals, sharedVars, bufferVars, apc, threadVars,
                   workerVars, failures>>

CollectorActor ==
    \/ ServeStartCollection
    \/ ServeSetWeightVersion
    \/ SignalLimitCleared
    \/ ServePause
    \/ ServeResume
    \/ ServePrepareForRefit
    \/ PollPending
    \/ ServeResumeAfterRefit
    \/ ServeDataloaderState

-----------------------------------------------------------------------------
(* Driver: async_grpo_train                                                 *)

TrainerStep(from, to) == tpc = from /\ tpc' = to

Call(op) == calls' = Append(calls, [op |-> op])

\* refit_policy_generation while the collector already runs
InitialRefit ==
    /\ TrainerStep("initial_refit",
          IF ValAtStart /\ step = 0 THEN "initial_validate" ELSE "fill")
    /\ UNCHANGED <<trainerLocals, collectorVars, bufferVars, failures>>

InitialRefitFails ==
    /\ failures < MaxFailures
    /\ TrainerStep("initial_refit", "abandoned")
    /\ failures' = failures + 1
    /\ UNCHANGED <<trainerLocals, collectorVars, bufferVars>>

\* Validation pauses the collector and resumes it; neither call is awaited.
PauseForValidation(from, to) ==
    /\ TrainerStep(from, to)
    /\ Call("pause")
    /\ UNCHANGED <<trainerLocals, sharedVars, bufferVars, apc, threadVars,
                   workerVars, failures>>

ResumeAfterValidation(from, to) ==
    /\ TrainerStep(from, to)
    /\ Call("resume")
    /\ UNCHANGED <<trainerLocals, sharedVars, bufferVars, apc, threadVars,
                   workerVars, failures>>

\* The wait for the initial buffer fill, then the loop's first test.
BufferFilled ==
    /\ Len(entries) >= NumPrompts
    /\ TrainerStep("fill", IF step < MaxSteps THEN "sample" ELSE "done")
    /\ UNCHANGED <<trainerLocals, collectorVars, bufferVars, failures>>

\* A sample that returns None is retried after a sleep: no step here.
SampleStep ==
    /\ TrainerStep("sample", "train")
    /\ Buffer!Sample(NumPrompts, weightVersion, MaxAge)
    /\ UNCHANGED <<trainerLocals, collectorVars, failures>>

\* sample raises ValueError: the loop's except clause, then finally.
SampleRaises ==
    /\ TrainerStep("sample", "stale")
    /\ Buffer!SampleRaises(weightVersion, MaxAge)
    /\ UNCHANGED <<trainerLocals, collectorVars, bufferVars, failures>>

TrainPolicy ==
    /\ TrainerStep("train", "prepare")
    /\ Call("prepare_for_refit")
    /\ UNCHANGED <<trainerLocals, sharedVars, bufferVars, apc, threadVars,
                   workerVars, failures>>

ValidationDue == ValPeriod > 0 /\ (step + 1) % ValPeriod = 0

Validate == IF ValidationDue THEN "validate" ELSE "checkpoint"

BadRefit ==             \* fault: the collector is not resumed
    /\ TrainerStep("refit", Validate)
    /\ weightVersion' = weightVersion + 1
    /\ calls' = Append(calls, [op |-> "set_weight_version", version |-> weightVersion + 1])
    /\ UNCHANGED <<sharedVars, bufferVars, apc, threadVars, workerVars, step,
                   timedOut, failures>>

\* The weight transfer ends; the version is announced, then the collector
\* resumed, without waiting for either call.
Refit ==
    /\ TrainerStep("refit", Validate)
    /\ weightVersion' = weightVersion + 1
    /\ calls' = Append(Append(calls,
                     [op |-> "set_weight_version", version |-> weightVersion + 1]),
                     [op |-> "resume_after_refit"])
    /\ UNCHANGED <<sharedVars, bufferVars, apc, threadVars, workerVars, step,
                   timedOut, failures>>

\* step += 1; return on the timeout or at the last step, and finally kill.
NextStep(late) ==
    /\ step' = step + 1
    /\ tpc' = IF late \/ step + 1 >= MaxSteps THEN "done" ELSE "sample"

SaveDue == step + 1 = MaxSteps \/ (step + 1) % SavePeriod = 0

\* timeout.check_save(): the wall clock decides. Without a checkpoint the
\* step is over; with one, the collector is asked for the dataloader's state.
CheckpointStep ==
    /\ tpc = "checkpoint"
    /\ \E late \in IF MustSaveBy THEN BOOLEAN ELSE {FALSE} :
          /\ timedOut' = late
          /\ IF SavePeriod > 0 /\ (late \/ SaveDue)
             THEN tpc' = "saving" /\ Call("get_dataloader_state") /\ UNCHANGED step
             ELSE NextStep(late) /\ UNCHANGED calls
    /\ UNCHANGED <<sharedVars, bufferVars, apc, threadVars, workerVars,
                   weightVersion, failures>>

EndStep ==
    /\ tpc = "end_step"
    /\ NextStep(timedOut)
    /\ UNCHANGED <<bufferVars, collectorVars, weightVersion, timedOut,
                   failures>>

\* Any other exception inside the loop (training, refit, a failed C.10
\* assertion): except prints it, finally kills the actors.
LoopRaises ==
    /\ InLoop
    /\ failures < MaxFailures
    /\ tpc' = "failed"
    /\ failures' = failures + 1
    /\ UNCHANGED <<trainerLocals, collectorVars, bufferVars>>

Trainer ==
    \/ InitialRefit
    \/ InitialRefitFails
    \/ PauseForValidation("initial_validate", "initial_validating")
    \/ ResumeAfterValidation("initial_validating", "fill")
    \/ BufferFilled
    \/ SampleStep
    \/ SampleRaises
    \/ TrainPolicy
    \/ Refit
    \/ PauseForValidation("validate", "validating")
    \/ ResumeAfterValidation("validating", "checkpoint")
    \/ CheckpointStep
    \/ EndStep
    \/ LoopRaises

Next ==
    \/ CollectionThread
    \/ \E w \in Workers : Worker(w)
    \/ CollectorActor
    \/ Trainer

Spec == Init /\ [][Next]_vars

\* Each thread keeps being scheduled and the driver keeps going; nothing
\* obliges a rollout or the training step to raise. A sample that finds too few
\* groups is not a step.
Fairness ==
    /\ WF_vars(CollectionThread)
    /\ \A w \in Workers : WF_vars(Worker(w) /\ UNCHANGED failures)
    /\ WF_vars(CollectorActor)
    /\ WF_vars(Trainer /\ UNCHANGED failures)

FairSpec == Spec /\ Fairness

-----------------------------------------------------------------------------
(* Properties                                                               *)

CallRecord ==
    [op : {"start_collection", "pause", "resume", "prepare_for_refit",
           "resume_after_refit", "get_dataloader_state"}]
    \cup [op : {"set_weight_version"}, version : Nat]

CollectorTypes ==
    /\ running \in BOOLEAN /\ manualPauseCleared \in BOOLEAN
    /\ refitPauseCleared \in BOOLEAN /\ generationLimitCleared \in BOOLEAN
    /\ currentVersion \in Nat
    /\ generatingTargets \subseteq Nat
    /\ permits \in Nat
    /\ inflight \subseteq Workers
    /\ apc \in {"idle", "signal", "draining"}
    /\ calls \in Seq(CallRecord)

ThreadTypes ==
    /\ cpc \in {"unstarted", "fetch", "manual_pause", "refit_pause",
                "limit_version", "limit_last", "limit_decide", "limit_warn",
                "limit_note", "limit_clear", "limit_wait", "process",
                "target_last", "reserve", "prompt", "refit_wait", "reread_version",
                "acquire", "start", "stopped"}
    /\ batch \in 0..NumBatches /\ prompt \in Prompts
    /\ genVersion \in Nat
    /\ warnedVersion \in Nat \cup {-1}
    /\ lastSeen \in Nat \cup {-1}

WorkerStates == {"none", "created", "rollout", "push", "retry", "release",
                 "cleanup", "exited"}

WorkerTypes ==
    /\ target \in [Batches -> Nat \cup {NoTarget}]
    /\ wpc \in [Workers -> WorkerStates]
    /\ wver \in [Workers -> Nat]

DriverTypes ==
    /\ tpc \in {"initial_refit", "initial_validate", "initial_validating",
                "fill", "abandoned", "failed", "stale", "done", "sample",
                "train", "prepare", "refit", "validate", "validating",
                "checkpoint", "saving", "end_step"}
    /\ step \in Nat /\ weightVersion \in Nat /\ timedOut \in BOOLEAN
    /\ failures \in Nat

\* Every variable stays in its type; the semaphore never has more permits than
\* it was made with.
TypeOK ==
    /\ Buffer!TypeOK
    /\ CollectorTypes
    /\ ThreadTypes
    /\ WorkerTypes
    /\ DriverTypes
    /\ permits <= MaxInflight

\* sample drops groups outside the age window; a group waiting for the step
\* the trainer is at is never among them, however the refits, the version
\* announcements and the reservation of its target interleaved.
WindowAdmitsIntended ==
    \A i \in DOMAIN entries :
        entries[i].target = weightVersion =>
            i \in Buffer!Valid(weightVersion, MaxAge)

Holding == {w \in Workers : wpc[w] \notin {"none", "exited"}}

\* The semaphore: a permit is free or held by one worker, whatever its rollout
\* or its push came to. A leak would end collection without an error.
PermitAccounting == permits + Cardinality(Holding) = MaxInflight

\* While collection runs and no rollout has failed, a target some batch was
\* reserved for is still reserved or the high-water mark covers it: no target
\* is left to be generated again because a reservation was released early.
ReservedOrBuffered ==
    running /\ failures = 0 =>
        \A b \in Batches :
            target[b] # NoTarget =>
                target[b] \in generatingTargets \/ target[b] <= lastTarget

\* No two batches have been reserved for one target.
TargetsDistinct ==
    \A b, c \in Batches :
        b # c /\ target[b] # NoTarget => target[b] # target[c]

\* Claimed: "Simple lock to prevent race conditions when checking/spawning
\* workers": unless a rollout failed, no two batches are generated for one
\* target.
OneBatchPerTarget == failures = 0 => TargetsDistinct

\* The buffer is sized on the ground that "each weight version generates exactly
\* num_prompts_per_step trajectories": a full buffer holds the groups of the
\* step the driver is at, as long as no two batches were reserved for one
\* target, failed rollouts or not. Workers that wait for room then wait for the
\* driver, and not the driver for them.
FullBufferHasStep ==
    /\ tpc = "sample" /\ TargetsDistinct
    /\ Len(entries) >= BufferSize
    => Cardinality(Buffer!Intended(weightVersion, MaxAge)) >= NumPrompts

\* The versions the trainer announces are served in order: neither the
\* collector's version nor the high-water mark goes back.
VersionsNeverGoBack ==
    [][currentVersion' >= currentVersion /\ lastTarget' >= lastTarget]_vars

\* A group nobody has offered, one offered, and one of the step under way.
Fresh == {w \in Workers : wpc[w] \in {"none", "created", "rollout", "push", "retry"}}
Pool == {entries[i] : i \in DOMAIN entries}
Training == tpc \in {"train", "prepare", "refit"}
Taken == IF Training THEN {sampled[i] : i \in DOMAIN sampled} ELSE {}
Phase == IF Finished THEN "over" ELSE IF Training THEN "train" ELSE "collect"

Contract == INSTANCE BoundedStaleness WITH
    Groups  <- Workers,
    First   <- StartStep,
    version <- weightVersion,
    fresh   <- Fresh,
    pool    <- Pool,
    taken   <- Taken,
    phase   <- Phase

\* Collector, buffer and driver together keep the promise of BoundedStaleness.
KeepsStalenessBounded == Contract!Spec

\* A pause for a refit ends while the driver runs, as long as no two batches are
\* reserved for one target. When two are, the actor may wait for pending
\* generations for good (NoCircularWait), and serves no call that ends the pause.
RefitPauseEnds ==
    []TargetsDistinct => (~refitPauseCleared ~> (refitPauseCleared \/ Finished))

\* A pause for a validation ends whatever is reserved: no call that may wait comes
\* between those that begin and end it.
ManualPauseEnds == ~manualPauseCleared ~> (manualPauseCleared \/ Finished)

\* No pause of the collector outlives what the driver asked for it for.
PausesEnd == RefitPauseEnds /\ ManualPauseEnds

\* prepare_for_refit returns: as long as no two batches are reserved for one
\* target, the wait for the workers on record ends. The driver does not wait
\* for workers that wait for something only the driver does.
RefitHappens == []TargetsDistinct => (tpc = "prepare" ~> tpc # "prepare")

\* While collection runs and no rollout fails, a batch reserved for the step
\* the driver stalls on arrives whole.
ReservedStepArrives ==
    (/\ tpc = "sample" /\ running
     /\ \E b \in Batches : target[b] = weightVersion)
    ~> (tpc # "sample" \/ ~running)

\* The driver never stalls for good on a step a batch was reserved for, unless
\* two batches were reserved for one target, a rollout failed or the
\* dataloader ended: the buffer has room for the groups it waits for.
ReservedStepArrivesOnce ==
    [](TargetsDistinct /\ failures = 0) => ReservedStepArrives

\* Claimed: prepare_for_refit "waits for all pending generations to complete":
\* it does not wait for workers that wait for room in the buffer, which only the
\* driver makes. With batches left the collection thread stops at the refit
\* pause, collection stays running, and the workers do not give up.
NoCircularWait ==
    ~ /\ apc = "draining" /\ batch < NumBatches
      /\ Len(entries) >= BufferSize
      /\ \E w \in inflight : wpc[w] \in {"push", "retry"}

\* Claimed: without in-flight updates, no generation runs during a refit.
NoGenerationDuringRefit ==
    ~InFlight /\ tpc = "refit" => \A w \in Workers : wpc[w] # "rollout"

\* Claimed: a stalled step waits "until the remaining trajectories are
\* generated": while collection runs, a stall ends.
StallEnds == tpc = "sample" /\ running ~> (tpc # "sample" \/ ~running)

\* Claimed: the same, for a step no batch has been reserved for yet: one will
\* be, or the collection ends.
StepNeverSkipped ==
    (tpc = "sample" /\ \A b \in Batches : target[b] # weightVersion)
    ~> (~running \/ \E b \in Batches : target[b] = weightVersion)

\* Claimed: trajectories that are too old are discarded; the run goes on.
StaleDiscarded == tpc # "stale"

=============================================================================
