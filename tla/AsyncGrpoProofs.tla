-------------------------- MODULE AsyncGrpoProofs --------------------------
(***************************************************************************)
(* What holds of asynchronous GRPO for every number of prompts, every age,  *)
(* every dataloader and any number of failures.                             *)
(***************************************************************************)
EXTENDS AsyncGrpo, TLAPS, FiniteSetTheorems, SequenceTheorems

Types ==
    /\ Buffer!TypeOK
    /\ CollectorTypes
    /\ ThreadTypes
    /\ WorkerTypes
    /\ DriverTypes

\* Where the collection thread is in a batch.
BeforeReservation ==
    {"manual_pause", "refit_pause", "limit_version", "limit_last", "limit_decide",
     "limit_warn", "limit_note", "limit_clear", "limit_wait", "process", "target_last", "reserve"}
AfterReservation == {"prompt", "refit_wait", "reread_version", "acquire"}

\* Workers are made in the order of batches and prompts, each one once.
SpawnInv ==
    /\ \A w \in Workers : wpc[w] # "none" => w[1] <= batch
    /\ cpc \notin AfterReservation \cup {"start"} => prompt = 0
    /\ cpc \in BeforeReservation => \A w \in Workers : w[1] = batch => wpc[w] = "none"
    /\ cpc \in AfterReservation =>
          \A w \in Workers : w[1] = batch /\ w[2] >= prompt => wpc[w] = "none"
    /\ cpc = "start" =>
          \A w \in Workers : w[1] = batch /\ w[2] > prompt => wpc[w] = "none"
    /\ cpc = "start" => wpc[<<batch, prompt>>] = "created"
    /\ cpc \in BeforeReservation \cup AfterReservation \cup {"start"} => batch \in Batches

\* Versions are announced in order, and the collector's is one announced.
Announced(i) == calls[i].op = "set_weight_version"
VersionInv ==
    /\ StartStep <= currentVersion /\ currentVersion <= weightVersion
    /\ StartStep <= genVersion /\ genVersion <= currentVersion
    /\ \A i \in DOMAIN calls :
          Announced(i) => currentVersion <= calls[i].version /\ calls[i].version <= weightVersion
    /\ \A i, j \in DOMAIN calls :
          i < j /\ Announced(i) /\ Announced(j) => calls[i].version <= calls[j].version

\* Each call of these is under way once at a time: the collection is started
\* once, and the driver waits while the calls that answer it are under way.
Is(i, op) == calls[i].op = op
CallInv ==
    /\ \A i \in DOMAIN calls :
          /\ Is(i, "start_collection") => cpc = "unstarted"
          /\ Is(i, "prepare_for_refit") => tpc = "prepare" \/ Finished
          /\ Is(i, "get_dataloader_state") => tpc = "saving" \/ Finished
    /\ \A i, j \in DOMAIN calls :
          \A op \in {"start_collection", "prepare_for_refit", "get_dataloader_state"} :
              Is(i, op) /\ Is(j, op) => i = j
    /\ apc = "draining" =>
          /\ tpc = "prepare" \/ Finished
          /\ \A i \in DOMAIN calls : ~Is(i, "prepare_for_refit")

\* A group is stamped with a version at most MaxAge before its target.
InAge(made, use) ==
    /\ made \in StartStep..weightVersion
    /\ use \in StartStep..(made + MaxAge)

StampInv ==
    /\ cpc \in AfterReservation \cup {"start"} =>
          target[batch] \in StartStep..(genVersion + MaxAge)
    /\ \A w \in Workers :
          wpc[w] \in {"created", "rollout", "push", "retry"} => InAge(wver[w], target[w[1]])
    /\ \A i \in DOMAIN entries : InAge(entries[i].version, entries[i].target)

\* A group is in the buffer once.
Unoffered == {"none", "created", "rollout", "push", "retry"}
OnceInv ==
    /\ \A i \in DOMAIN entries : wpc[entries[i].trajectory] \notin Unoffered
    /\ \A i, j \in DOMAIN entries :
          entries[i].trajectory = entries[j].trajectory => i = j

\* While collection runs and no rollout has failed, a worker is past its push
\* only if its group reached the buffer, whose high-water mark then covers it.
ReservedInv ==
    /\ cpc = "unstarted" => batch = 0
    /\ \A b \in Batches : target[b] # NoTarget => b <= batch
    /\ running /\ failures = 0 =>
          \A w \in Workers :
              wpc[w] \in {"release", "cleanup", "exited"} => target[w[1]] <= lastTarget

\* Every step trained, or being trained, has used up a full set of groups meant
\* for it: they were offered, and have left the buffer.
Used(G, t) ==
    /\ Cardinality(G) = NumPrompts
    /\ \A w \in G :
          /\ target[w[1]] = t /\ wpc[w] \notin Unoffered
          /\ \A i \in DOMAIN entries : entries[i].trajectory # w

TrainedSteps == StartStep..(IF Training THEN weightVersion ELSE weightVersion - 1)

UsedInv ==
    /\ \A i \in DOMAIN entries : entries[i].target = target[entries[i].trajectory[1]]
    /\ \A t \in TrainedSteps : \E G \in SUBSET Workers : Used(G, t)

IInv ==
    /\ Types
    /\ PermitAccounting
    /\ SpawnInv
    /\ VersionInv
    /\ CallInv
    /\ StampInv
    /\ OnceInv
    /\ ReservedInv
    /\ ReservedOrBuffered
    /\ UsedInv

-----------------------------------------------------------------------------
(* What each process leaves alone                                           *)

LEMMA ThreadFrame ==
    ASSUME CollectionThread
    PROVE  /\ ~Finished /\ cpc # "unstarted"
           /\ UNCHANGED <<entries, lastTarget, sampled, tpc, step, weightVersion,
                          timedOut, failures, apc, calls, manualPauseCleared,
                          refitPauseCleared, currentVersion>>
  BY DEF CollectionThread, FetchBatch, DataloaderExhausted, PassManualPause,
         PassRefitPause, ReadVersion, ReadLastTarget, DecideLimits, WarnLimits, NoteWarning,
         ClearLimitEvent, WaitLimits, ReserveTarget, DropBatch, CheckRefit,
         WaitRefit, AcquirePermit, StartWorker, CollectorStep,
         notThread, notCollector, bufferVars, trainerVars, trainerLocals,
         sharedVars, eventVars, actorVars

LEMMA WorkerFrame ==
    ASSUME NEW w \in Workers, Worker(w)
    PROVE  /\ ~Finished
           /\ UNCHANGED <<tpc, step, weightVersion, timedOut, apc, calls, running,
                          manualPauseCleared, refitPauseCleared,
                          generationLimitCleared, currentVersion, cpc, batch,
                          prompt, genVersion, lastSeen, warnedVersion, target>>
  BY DEF Worker, FinishRollout, FailRollout, PushGroup, BufferFull, RetryPush,
         ReleaseReservation, CleanUp, WorkerStep, sharedVars, eventVars,
         actorVars, threadVars, locals, notCollector, trainerVars,
         trainerLocals, stamps

LEMMA ActorFrame ==
    ASSUME CollectorActor
    PROVE  /\ ~Finished
           /\ UNCHANGED <<entries, lastTarget, sampled, step, weightVersion,
                          timedOut, failures, generatingTargets, permits, batch,
                          prompt, genVersion, lastSeen, warnedVersion, wpc, wver,
                          target>>
  BY DEF CollectorActor, ServeStartCollection, ServeSetWeightVersion,
         SignalLimitCleared, ServePause, ServeResume, ServePrepareForRefit,
         PollPending, ServeResumeAfterRefit, ServeDataloaderState, Serve,
         sharedVars, poolVars, threadVars, locals, notCollector, bufferVars,
         workerVars, stamps, trainerVars, trainerLocals

LEMMA TrainerFrame ==
    ASSUME Trainer
    PROVE  UNCHANGED <<running, manualPauseCleared, refitPauseCleared,
                       generationLimitCleared, currentVersion, generatingTargets,
                       permits, inflight, apc, cpc, batch, prompt, genVersion,
                       lastSeen, warnedVersion, wpc, wver, target, lastTarget>>
  BY DEF Trainer, InitialRefit, InitialRefitFails, PauseForValidation,
         ResumeAfterValidation, BufferFilled, SampleStep, SampleRaises,
         TrainPolicy, Refit, CheckpointStep, EndStep, LoopRaises, Buffer!Sample,
         collectorVars, sharedVars, eventVars, poolVars, actorVars, threadVars,
         locals, workerVars, stamps, bufferVars

-----------------------------------------------------------------------------
(* Types                                                                    *)

\* The prompts and batches a worker is named by.
LEMMA WorkerNames ==
    /\ \A w \in Workers : w[1] \in Batches /\ w[2] \in Prompts /\ w = <<w[1], w[2]>>
    /\ \A b \in Batches, p \in Prompts : <<b, p>> \in Workers
    /\ \A b \in Batches : b \in Nat
    /\ \A p \in Prompts : p \in Nat
  BY ConfigAssumption DEF Workers, Batches, Prompts

LEMMA TargetsInAge ==
    ASSUME Types, StartStep <= genVersion
    PROVE  Needed \subseteq StartStep..(genVersion + MaxAge)
  BY ConfigAssumption DEF Needed, Targets, Types, ThreadTypes

LEMMA ThreadTypesNext ==
    ASSUME Types, SpawnInv, VersionInv, CollectionThread
    PROVE  Types'
<1>0. Needed \subseteq Nat
  <2>1. genVersion \in Nat
    BY DEF Types, ThreadTypes
  <2> QED
    BY <2>1, TargetsInAge, ConfigAssumption DEF VersionInv
<1> USE ConfigAssumption, ThreadFrame DEF CollectorStep
<1>1. Buffer!TypeOK'
  BY DEF Types, Buffer!TypeOK
<1>2. DriverTypes'
  BY DEF Types, DriverTypes
<1>3. ThreadTypes'
  <2> USE DEF Types, ThreadTypes, CollectorTypes, Prompts, NoTarget
  <2>1. CASE FetchBatch
    BY <2>1 DEF FetchBatch
  <2>2. CASE ReadLastTarget("limit_last", "limit_decide") \/ ReadLastTarget("target_last", "reserve")
    BY <2>2 DEF ReadLastTarget, Buffer!TypeOK
  <2>3. CASE ReserveTarget
    BY <2>3 DEF ReserveTarget
  <2>4. CASE StartWorker
    BY <2>4 DEF StartWorker
  <2> QED
    BY <2>1, <2>2, <2>3, <2>4
       DEF CollectionThread, DataloaderExhausted, PassManualPause,
           PassRefitPause, ReadVersion, DecideLimits, WarnLimits, NoteWarning,
           ClearLimitEvent, WaitLimits, DropBatch, OutOfScope, CheckRefit,
           WaitRefit, AcquirePermit, locals
<1>4. CollectorTypes'
  <2> USE DEF Types, CollectorTypes
  <2>1. running' \in BOOLEAN /\ generationLimitCleared' \in BOOLEAN
    BY DEF CollectionThread, FetchBatch, DataloaderExhausted, PassManualPause,
           PassRefitPause, ReadVersion, ReadLastTarget, DecideLimits, WarnLimits, NoteWarning,
           ClearLimitEvent, WaitLimits, ReserveTarget, DropBatch, CheckRefit,
           WaitRefit, AcquirePermit, StartWorker, notThread, sharedVars, eventVars
  <2>2. generatingTargets' \subseteq Nat
    <3>1. CASE ReserveTarget
      BY <1>0, <3>1 DEF ReserveTarget
    <3> QED
      BY <3>1 DEF CollectionThread, FetchBatch, DataloaderExhausted, PassManualPause,
           PassRefitPause, ReadVersion, ReadLastTarget, DecideLimits, WarnLimits, NoteWarning,
           ClearLimitEvent, WaitLimits, DropBatch, CheckRefit, WaitRefit,
           AcquirePermit, StartWorker, notThread, sharedVars, poolVars
  <2>3. permits' \in Nat
    BY DEF CollectionThread, FetchBatch, DataloaderExhausted, PassManualPause,
           PassRefitPause, ReadVersion, ReadLastTarget, DecideLimits, WarnLimits, NoteWarning,
           ClearLimitEvent, WaitLimits, ReserveTarget, DropBatch, CheckRefit,
           WaitRefit, AcquirePermit, StartWorker, notThread, sharedVars, poolVars
  <2>4. inflight' \subseteq Workers
    <3>1. CASE AcquirePermit
      BY <3>1, WorkerNames DEF AcquirePermit, SpawnInv, AfterReservation, ThreadTypes
    <3> QED
      BY <3>1 DEF CollectionThread, FetchBatch, DataloaderExhausted, PassManualPause,
           PassRefitPause, ReadVersion, ReadLastTarget, DecideLimits, WarnLimits, NoteWarning,
           ClearLimitEvent, WaitLimits, ReserveTarget, DropBatch, CheckRefit,
           WaitRefit, StartWorker, LiveThreads, notThread, sharedVars, poolVars
  <2> QED
    BY <2>1, <2>2, <2>3, <2>4
<1>5. WorkerTypes'
  <2> USE DEF Types, WorkerTypes
  <2>1. CASE ReserveTarget
    BY <1>0, <2>1 DEF ReserveTarget
  <2>2. CASE AcquirePermit
    BY <2>2 DEF AcquirePermit, ThreadTypes, WorkerStates
  <2>3. CASE StartWorker
    BY <2>3 DEF StartWorker, stamps, WorkerStates
  <2> QED
    BY <2>1, <2>2, <2>3
       DEF CollectionThread, FetchBatch, DataloaderExhausted, PassManualPause,
           PassRefitPause, ReadVersion, ReadLastTarget, DecideLimits,
           WarnLimits, NoteWarning, ClearLimitEvent, WaitLimits, DropBatch, CheckRefit,
           WaitRefit, notThread, workerVars, stamps
<1> QED
  BY <1>1, <1>2, <1>3, <1>4, <1>5 DEF Types

LEMMA WorkerTypesNext ==
    ASSUME Types, StampInv, NEW w \in Workers, Worker(w)
    PROVE  Types'
<1> USE ConfigAssumption, WorkerFrame DEF WorkerStep
<1>1. Buffer!TypeOK' /\ DriverTypes'
  <2> USE DEF Types, Buffer!TypeOK, DriverTypes
  <2>1. CASE PushGroup(w)
    <3>1. Group(w) \in Buffer!Entry
      <4>1. InAge(wver[w], target[w[1]]) /\ wver[w] \in Nat
        BY <2>1 DEF PushGroup, StampInv, WorkerTypes
      <4> QED
        BY <4>1, SMTT(40) DEF Group, Buffer!Entry, InAge
    <3> QED
      BY <2>1, <3>1 DEF PushGroup, Buffer!Push, Buffer!Entry
  <2> QED
    BY <2>1 DEF Worker, FinishRollout, FailRollout, BufferFull, RetryPush,
         ReleaseReservation, CleanUp, notCollector, bufferVars
<1>2. CollectorTypes'
  <2>1. generatingTargets' \subseteq generatingTargets /\ inflight' \subseteq inflight
    BY DEF Worker, FinishRollout, FailRollout, PushGroup, BufferFull, RetryPush,
           ReleaseReservation, CleanUp, sharedVars, poolVars
  <2>2. permits' = permits \/ permits' = permits + 1
    BY DEF Worker, FinishRollout, FailRollout, PushGroup, BufferFull, RetryPush,
           ReleaseReservation, CleanUp, sharedVars, poolVars
  <2> QED
    BY <2>1, <2>2 DEF Types, CollectorTypes
<1>3. ThreadTypes'
  BY DEF Types, ThreadTypes
<1>4. WorkerTypes'
  BY DEF Types, WorkerTypes, WorkerStates, Worker, FinishRollout, FailRollout, PushGroup,
         BufferFull, RetryPush, ReleaseReservation, CleanUp, stamps
<1> QED
  BY <1>1, <1>2, <1>3, <1>4 DEF Types

\* The cardinality an instance of ReplayBuffer speaks of is the library's.
LEMMA BufferCardinality == \A S : Buffer!Cardinality(S) = Cardinality(S)
  BY DEF Buffer!Cardinality, Cardinality

\* An enumeration of indices picks each of them once, in order.
LEMMA Picked ==
    ASSUME NEW S \in SUBSET DOMAIN entries, entries \in Seq(Buffer!Entry),
           NEW f \in Buffer!Enumerations(S)
    PROVE  LET q == [i \in DOMAIN f |-> entries[f[i]]]
           IN  /\ q \in Seq(Buffer!Entry)
               /\ \A i \in DOMAIN q : f[i] \in S /\ q[i] = entries[f[i]]
               /\ \A k \in S : \E i \in DOMAIN q : f[i] = k
               /\ \A i, j \in DOMAIN q : f[i] = f[j] => i = j
<1> DEFINE q == [i \in DOMAIN f |-> entries[f[i]]]
<1>1. IsFiniteSet(S)
  <2>1. IsFiniteSet(1..Len(entries))
    BY FS_Interval
  <2> QED
    BY <2>1, FS_Subset
<1>2. Cardinality(S) \in Nat
  BY <1>1, FS_CardinalityType
<1>3. f \in [1..Cardinality(S) -> S] /\ DOMAIN f = 1..Cardinality(S)
  BY BufferCardinality DEF Buffer!Enumerations
<1>4. q \in Seq(Buffer!Entry)
  BY <1>2, <1>3, SMTT(40)
<1>5. \A i, j \in 1..Cardinality(S) : f[i] = f[j] => i = j
  <2> SUFFICES ASSUME NEW i \in 1..Cardinality(S), NEW j \in 1..Cardinality(S),
                      f[i] = f[j], i < j
               PROVE  FALSE
    BY <1>2
  <2>1. f[i] < f[j]
    BY BufferCardinality DEF Buffer!Enumerations
  <2>2. f[i] \in Nat
    BY <1>3
  <2> QED
    BY <2>1, <2>2
<1>6. \A k \in S : \E i \in 1..Cardinality(S) : f[i] = k
  BY BufferCardinality DEF Buffer!Enumerations
<1> QED
  BY <1>3, <1>4, <1>5, <1>6

\* A sample takes groups meant for the step from the buffer, and leaves the rest.
LEMMA SampleTakes ==
    ASSUME Types, SampleStep
    PROVE  /\ entries' \in Seq(Buffer!Entry)
           /\ sampled' \in Seq(Buffer!Entry)
           /\ \E S \in SUBSET Buffer!Intended(weightVersion, MaxAge) :
                 /\ Cardinality(S) = NumPrompts
                 /\ \E f \in Buffer!Enumerations(S) :
                       sampled' = [i \in DOMAIN f |-> entries[f[i]]]
                 /\ \E f \in Buffer!Enumerations(DOMAIN entries \ S) :
                       entries' = [i \in DOMAIN f |-> entries[f[i]]]
<1>1. PICK S \in Buffer!Selections(NumPrompts, weightVersion, MaxAge) :
          /\ \E f \in Buffer!Enumerations(S) :
                sampled' = [i \in DOMAIN f |-> entries[f[i]]]
          /\ \E f \in Buffer!Enumerations(DOMAIN entries \ S) :
                entries' = [i \in DOMAIN f |-> entries[f[i]]]
  BY DEF SampleStep, Buffer!Sample
<1>2. /\ S \in SUBSET Buffer!Intended(weightVersion, MaxAge)
      /\ Cardinality(S) = NumPrompts
  BY BufferCardinality DEF Buffer!Selections
<1>3. S \in SUBSET DOMAIN entries
  BY <1>2 DEF Buffer!Intended, Buffer!Valid
<1>4. entries \in Seq(Buffer!Entry)
  BY DEF Types, Buffer!TypeOK
<1>5. sampled' \in Seq(Buffer!Entry)
  BY <1>1, <1>3, <1>4, Picked
<1>6. entries' \in Seq(Buffer!Entry)
  BY <1>1, <1>4, Picked
<1> QED
  BY <1>1, <1>2, <1>5, <1>6

LEMMA CallTypes ==
    /\ \A op \in {"start_collection", "pause", "resume", "prepare_for_refit",
                   "resume_after_refit", "get_dataloader_state"} :
          [op |-> op] \in CallRecord
    /\ \A v \in Nat : [op |-> "set_weight_version", version |-> v] \in CallRecord
  BY DEF CallRecord

LEMMA ActorTypesNext ==
    ASSUME Types, VersionInv, CollectorActor
    PROVE  Types'
<1> USE ActorFrame
<1>1. Buffer!TypeOK' /\ WorkerTypes'
  BY DEF Types, Buffer!TypeOK, WorkerTypes
<1>2. ThreadTypes' /\ DriverTypes'
  BY ZenonT(40) DEF Types, ThreadTypes, DriverTypes, CollectorActor, ServeStartCollection,
         ServeSetWeightVersion, SignalLimitCleared, ServePause, ServeResume,
         ServePrepareForRefit, PollPending, ServeResumeAfterRefit,
         ServeDataloaderState, threadVars, locals, notCollector, trainerVars
<1>3. CollectorTypes'
  <2>1. calls' \in Seq(CallRecord)
    BY DEF Types, CollectorTypes, CollectorActor, ServeStartCollection,
           ServeSetWeightVersion, SignalLimitCleared, ServePause, ServeResume,
           ServePrepareForRefit, PollPending, ServeResumeAfterRefit,
           ServeDataloaderState, Serve, Done
  <2>2. currentVersion' \in Nat
    <3>1. CASE ServeSetWeightVersion
      <4>1. /\ calls \in Seq(CallRecord) /\ calls # <<>>
            /\ calls[1].op = "set_weight_version"
            /\ currentVersion' = calls[1].version
        BY <3>1 DEF ServeSetWeightVersion, Serve, Types, CollectorTypes
      <4>2. calls[1] \in CallRecord
        BY <4>1
      <4> QED
        BY <4>1, <4>2 DEF CallRecord
    <3> QED
      BY <3>1 DEF Types, CollectorTypes, CollectorActor, ServeStartCollection,
           SignalLimitCleared, ServePause, ServeResume, ServePrepareForRefit,
           PollPending, ServeResumeAfterRefit, ServeDataloaderState, sharedVars
  <2>3. inflight' \subseteq Workers /\ apc' \in {"idle", "signal", "draining"}
    BY DEF Types, CollectorTypes, CollectorActor, ServeStartCollection,
           ServeSetWeightVersion, SignalLimitCleared, ServePause, ServeResume,
           ServePrepareForRefit, PollPending, ServeResumeAfterRefit,
           ServeDataloaderState, LiveThreads, sharedVars, poolVars
  <2>4. /\ running' \in BOOLEAN /\ manualPauseCleared' \in BOOLEAN
        /\ refitPauseCleared' \in BOOLEAN /\ generationLimitCleared' \in BOOLEAN
    BY DEF Types, CollectorTypes, CollectorActor, ServeStartCollection,
           ServeSetWeightVersion, SignalLimitCleared, ServePause, ServeResume,
           ServePrepareForRefit, PollPending, ServeResumeAfterRefit,
           ServeDataloaderState, sharedVars, eventVars
  <2> QED
    BY <2>1, <2>2, <2>3, <2>4 DEF Types, CollectorTypes
<1> QED
  BY <1>1, <1>2, <1>3 DEF Types

LEMMA TrainerTypesNext ==
    ASSUME Types, Trainer
    PROVE  Types'
<1> USE ConfigAssumption, TrainerFrame
<1>1. Buffer!TypeOK'
  <2>1. CASE SampleStep
    BY <2>1, SampleTakes DEF Types, Buffer!TypeOK
  <2> QED
    BY <2>1 DEF Types, Buffer!TypeOK, Trainer, InitialRefit, InitialRefitFails,
           PauseForValidation, ResumeAfterValidation, BufferFilled, SampleRaises,
           TrainPolicy, Refit, CheckpointStep, EndStep, LoopRaises, bufferVars
<1>2. CollectorTypes'
  <2>0. calls \in Seq(CallRecord) /\ weightVersion \in Nat
    BY DEF Types, CollectorTypes, DriverTypes
  <2>1. ASSUME Refit
        PROVE  calls' \in Seq(CallRecord)
    <3> DEFINE c == [op |-> "set_weight_version", version |-> weightVersion + 1]
               d == [op |-> "resume_after_refit"]
    <3>1. c \in CallRecord /\ d \in CallRecord
      BY <2>0, CallTypes
    <3>2. calls' = Append(Append(calls, c), d)
      BY <2>1 DEF Refit
    <3> HIDE DEF c, d
    <3>3. Append(calls, c) \in Seq(CallRecord)
      BY <2>0, <3>1
    <3> QED
      BY <3>1, <3>2, <3>3
  <2>2. \A op \in {"pause", "resume", "prepare_for_refit", "get_dataloader_state"} :
            Call(op) => calls' \in Seq(CallRecord)
    BY <2>0, CallTypes DEF Call
  <2>3. ~Refit => calls' \in Seq(CallRecord)
    BY <2>0, <2>2 DEF Trainer, InitialRefit, InitialRefitFails,
       PauseForValidation, ResumeAfterValidation, BufferFilled, SampleStep,
       SampleRaises, TrainPolicy, CheckpointStep, EndStep, LoopRaises,
       collectorVars, actorVars
  <2> QED
    BY <2>1, <2>3 DEF Types, CollectorTypes
<1>3. ThreadTypes' /\ WorkerTypes'
  BY DEF Types, ThreadTypes, WorkerTypes
<1>4. DriverTypes'
  <2> USE DEF Types, DriverTypes
  <2>1. CASE CheckpointStep
    <3>1. PICK late \in BOOLEAN :
              /\ timedOut' = late
              /\ \/ tpc' = "saving" /\ step' = step
                 \/ NextStep(late)
      BY <2>1 DEF CheckpointStep
    <3>2. UNCHANGED <<weightVersion, failures>>
      BY <2>1 DEF CheckpointStep
    <3> QED
      BY <3>1, <3>2 DEF NextStep
  <2>2. CASE EndStep
    BY <2>2 DEF EndStep, NextStep
  <2>3. CASE Refit
    BY <2>3 DEF Refit, TrainerStep, Validate
  <2>4. CASE LoopRaises \/ InitialRefitFails
    BY <2>4 DEF LoopRaises, InitialRefitFails, TrainerStep, trainerLocals
  <2> QED
    BY <2>1, <2>2, <2>3, <2>4
       DEF Trainer, InitialRefit, PauseForValidation, ResumeAfterValidation,
           BufferFilled, SampleStep, SampleRaises, TrainPolicy, TrainerStep,
           trainerLocals
<1> QED
  BY <1>1, <1>2, <1>3, <1>4 DEF Types

-----------------------------------------------------------------------------
(* Workers are made once                                                    *)

\* A step of a worker moves that worker only, and only once it was started.
LEMMA WorkerMoves ==
    ASSUME Types, NEW w \in Workers, Worker(w)
    PROVE  /\ wpc[w] \in {"rollout", "push", "retry", "release", "cleanup"}
           /\ wpc'[w] \in {"push", "retry", "release", "cleanup", "exited"}
           /\ wpc'[w] = "push" => wpc[w] \in {"rollout", "retry"}
           /\ wpc'[w] = "retry" => wpc[w] = "push"
           /\ wpc' = [wpc EXCEPT ![w] = wpc'[w]]
<1>1. wpc \in [Workers -> WorkerStates]
  BY DEF Types, WorkerTypes
<1> QED
  BY <1>1 DEF Worker, FinishRollout, FailRollout, PushGroup, BufferFull, RetryPush,
         ReleaseReservation, CleanUp, WorkerStep

LEMMA SpawnNext ==
    ASSUME IInv, [Next]_vars
    PROVE  SpawnInv'
<1> USE DEF SpawnInv, BeforeReservation, AfterReservation
<1>0. /\ SpawnInv /\ Types
      /\ wpc \in [Workers -> WorkerStates]
      /\ batch \in 0..NumBatches /\ prompt \in 0..(NumPrompts - 1)
  BY DEF IInv, Types, WorkerTypes, ThreadTypes, Prompts
<1>1. CASE CollectionThread
  <2> USE ConfigAssumption, WorkerNames DEF CollectorStep, Batches, Prompts
  <2>1. CASE FetchBatch
    BY <1>0, <2>1 DEF FetchBatch, notThread, workerVars
  <2>2. CASE ReserveTarget
    BY <1>0, <2>2 DEF ReserveTarget
  <2>3. CASE AcquirePermit
    BY <1>0, <2>3 DEF AcquirePermit, locals
  <2>4. CASE StartWorker
    BY <1>0, <2>4 DEF StartWorker
  <2>5. CASE DataloaderExhausted \/ ClearLimitEvent
    BY <1>0, <2>5 DEF DataloaderExhausted, ClearLimitEvent, locals, workerVars
  <2> QED
    BY <1>0, <1>1, <2>1, <2>2, <2>3, <2>4, <2>5
       DEF CollectionThread, PassManualPause, PassRefitPause, ReadVersion,
           ReadLastTarget, DecideLimits, WarnLimits, NoteWarning, WaitLimits, DropBatch,
           OutOfScope, CheckRefit, WaitRefit, notThread, locals, workerVars
<1>2. ASSUME NEW w \in Workers, Worker(w)
      PROVE  SpawnInv'
  <2>1. UNCHANGED <<cpc, batch, prompt>>
    BY <1>2, WorkerFrame
  <2>2. \A v \in Workers :
            /\ wpc'[v] = "none" <=> wpc[v] = "none"
            /\ wpc[v] = "created" => wpc'[v] = "created"
    BY <1>0, <1>2, WorkerMoves
  <2>3. cpc = "start" => <<batch, prompt>> \in Workers
    BY <1>0, WorkerNames DEF Prompts
  <2> QED
    BY <1>0, <2>1, <2>2, <2>3
<1>3. CASE CollectorActor
  <2>1. CASE ServeStartCollection
    <3>1. cpc = "unstarted"
      BY <2>1 DEF ServeStartCollection, Serve, IInv, CallInv, Is, Types, CollectorTypes
    <3> QED
      BY <1>0, <1>3, <2>1, <3>1, ActorFrame DEF ServeStartCollection
  <2> QED
    BY <1>0, <1>3, <2>1, ActorFrame, ZenonT(40)
       DEF CollectorActor, ServeSetWeightVersion, SignalLimitCleared, ServePause,
           ServeResume, ServePrepareForRefit, PollPending,
           ServeResumeAfterRefit, ServeDataloaderState, threadVars
<1>4. CASE Trainer
  BY <1>0, <1>4, TrainerFrame
<1>5. CASE UNCHANGED vars
  BY <1>0, <1>5 DEF vars, threadVars, locals, workerVars
<1> QED
  BY <1>1, <1>2, <1>3, <1>4, <1>5 DEF Next

-----------------------------------------------------------------------------
(* Permits                                                                  *)

LEMMA WorkersFinite == IsFiniteSet(Workers)
<1>1. IsFiniteSet(Batches) /\ IsFiniteSet(Prompts)
  BY ConfigAssumption, FS_Interval DEF Batches, Prompts
<1> QED
  BY <1>1, FS_Product DEF Workers

LEMMA HoldingFinite == IsFiniteSet(Holding) /\ Cardinality(Holding) \in Nat
  BY WorkersFinite, FS_Subset, FS_CardinalityType DEF Holding

LEMMA PermitsNext ==
    ASSUME IInv, [Next]_vars
    PROVE  PermitAccounting'
<1>0. /\ permits \in Nat
      /\ permits + Cardinality(Holding) = MaxInflight
      /\ wpc \in [Workers -> WorkerStates]
  BY DEF IInv, Types, CollectorTypes, WorkerTypes, PermitAccounting
<1>1. CASE AcquirePermit
  <2> DEFINE w == <<batch, prompt>>
  <2>1. w \in Workers /\ wpc[w] = "none"
    BY <1>1, WorkerNames, ConfigAssumption
       DEF AcquirePermit, CollectorStep, IInv, SpawnInv, AfterReservation, Types,
           ThreadTypes, Prompts
  <2>2. Holding' = Holding \cup {w} /\ w \notin Holding
    BY <1>0, <1>1, <2>1 DEF AcquirePermit, Holding
  <2>3. Cardinality(Holding') = Cardinality(Holding) + 1
    BY <2>2, HoldingFinite, FS_AddElement
  <2> QED
    BY <1>0, <1>1, <2>3, HoldingFinite DEF AcquirePermit, PermitAccounting
<1>2. ASSUME NEW w \in Workers, CleanUp(w)
      PROVE  PermitAccounting'
  <2>1. Holding' = Holding \ {w} /\ w \in Holding
    BY <1>0, <1>2 DEF CleanUp, WorkerStep, Holding
  <2>2. Cardinality(Holding') = Cardinality(Holding) - 1
    BY <2>1, HoldingFinite, FS_RemoveElement
  <2> QED
    BY <1>0, <1>2, <2>2, HoldingFinite DEF CleanUp, PermitAccounting
<1>3. ASSUME UNCHANGED permits, Holding' = Holding
      PROVE  PermitAccounting'
  BY <1>0, <1>3 DEF PermitAccounting
<1>4. CASE CollectionThread /\ ~AcquirePermit
  <2>1. CASE StartWorker
    <3>1. wpc[<<batch, prompt>>] = "created"
      BY <2>1 DEF StartWorker, CollectorStep, IInv, SpawnInv
    <3> QED
      BY <1>0, <1>3, <2>1, <3>1 DEF StartWorker, Holding
  <2> QED
    BY <1>3, <1>4, <2>1
       DEF CollectionThread, FetchBatch, DataloaderExhausted, PassManualPause,
           PassRefitPause, ReadVersion, ReadLastTarget, DecideLimits,
           WarnLimits, NoteWarning, ClearLimitEvent, WaitLimits, ReserveTarget, DropBatch,
           CheckRefit, WaitRefit, notThread, sharedVars, poolVars, workerVars,
           Holding
<1>5. ASSUME NEW w \in Workers, Worker(w), ~CleanUp(w)
      PROVE  PermitAccounting'
  <2>1. UNCHANGED permits
    BY <1>5 DEF Worker, FinishRollout, FailRollout, PushGroup, BufferFull, RetryPush,
                ReleaseReservation, sharedVars, poolVars
  <2>2. wpc'[w] # "exited"
    BY <1>0, <1>5 DEF Worker, FinishRollout, FailRollout, PushGroup, BufferFull, RetryPush,
                ReleaseReservation, WorkerStep
  <2>3. Holding' = Holding
    BY <1>0, <1>5, <2>2, WorkerMoves DEF Holding, IInv
  <2> QED
    BY <1>3, <2>1, <2>3
<1>6. CASE CollectorActor
  BY <1>3, <1>6, ActorFrame DEF Holding
<1>7. CASE Trainer
  BY <1>3, <1>7, TrainerFrame DEF Holding
<1>8. CASE UNCHANGED vars
  BY <1>3, <1>8 DEF vars, poolVars, workerVars, Holding
<1> QED
  BY <1>1, <1>2, <1>4, <1>5, <1>6, <1>7, <1>8 DEF Next

-----------------------------------------------------------------------------
(* The calls under way                                                      *)

\* Serving a call removes the first one; the driver adds one or two, of the
\* kinds its step makes.
LEMMA ServedTail ==
    ASSUME Types, CollectorActor
    PROVE  \/ calls' = calls
           \/ /\ calls # <<>> /\ calls' = Tail(calls)
              /\ Len(calls) \in Nat \ {0} /\ Len(calls') = Len(calls) - 1
              /\ \A i \in DOMAIN calls' : i + 1 \in DOMAIN calls /\ calls'[i] = calls[i + 1]
<1>1. calls \in Seq(CallRecord)
  BY DEF Types, CollectorTypes
<1>2. \/ calls' = calls
      \/ calls # <<>> /\ calls' = Tail(calls)
  <2>1. SignalLimitCleared \/ PollPending => calls' = calls
    BY DEF SignalLimitCleared, PollPending
  <2>2. \/ ServeStartCollection \/ ServeSetWeightVersion \/ ServePause
           \/ ServeResume \/ ServePrepareForRefit \/ ServeResumeAfterRefit
           \/ ServeDataloaderState
        => calls # <<>> /\ calls' = Tail(calls)
    BY DEF ServeStartCollection, ServeSetWeightVersion, ServePause, ServeResume,
           ServePrepareForRefit, ServeResumeAfterRefit, ServeDataloaderState,
           Serve, Done
  <2> QED
    BY <2>1, <2>2 DEF CollectorActor
<1> QED
  BY <1>1, <1>2

LEMMA Appended ==
    ASSUME Types, NEW c,
           calls' = Append(calls, c)
    PROVE  /\ Len(calls) \in Nat /\ DOMAIN calls = 1..Len(calls)
           /\ DOMAIN calls' = 1..(Len(calls) + 1)
           /\ \A i \in DOMAIN calls : calls'[i] = calls[i]
           /\ calls'[Len(calls) + 1] = c
<1>1. calls \in Seq(CallRecord)
  BY DEF Types, CollectorTypes
<1> QED
  BY <1>1

LEMMA RefitCalls ==
    ASSUME Types, Refit
    PROVE  /\ Len(calls) \in Nat /\ DOMAIN calls = 1..Len(calls)
           /\ DOMAIN calls' = 1..(Len(calls) + 2)
           /\ \A i \in DOMAIN calls : calls'[i] = calls[i]
           /\ calls'[Len(calls) + 1] =
                 [op |-> "set_weight_version", version |-> weightVersion + 1]
           /\ calls'[Len(calls) + 2] = [op |-> "resume_after_refit"]
<1>1. calls \in Seq(CallRecord)
  BY DEF Types, CollectorTypes
<1> DEFINE c == [op |-> "set_weight_version", version |-> weightVersion + 1]
           d == [op |-> "resume_after_refit"]
<1>2. calls' = Append(Append(calls, c), d)
  BY DEF Refit
<1> HIDE DEF c, d
<1>3. Append(calls, c) \in Seq(CallRecord \cup {c})
  BY <1>1
<1>4. /\ Len(calls) \in Nat /\ DOMAIN calls = 1..Len(calls)
      /\ DOMAIN calls' = 1..(Len(calls) + 2)
      /\ \A i \in DOMAIN calls : calls'[i] = calls[i]
      /\ calls'[Len(calls) + 1] = c
      /\ calls'[Len(calls) + 2] = d
  BY <1>1, <1>2, <1>3
<1> QED
  BY <1>4 DEF c, d

\* The driver's other steps add at most one call, and announce no version.
LEMMA TrainerCalls ==
    ASSUME Trainer, ~Refit
    PROVE  /\ weightVersion' = weightVersion
           /\ \/ calls' = calls
              \/ \E op \in {"pause", "resume", "prepare_for_refit", "get_dataloader_state"} :
                    /\ calls' = Append(calls, [op |-> op])
                    /\ op = "prepare_for_refit" => tpc = "train" /\ tpc' = "prepare"
                    /\ op = "get_dataloader_state" => tpc = "checkpoint" /\ tpc' = "saving"
  BY DEF Trainer, InitialRefit, InitialRefitFails, PauseForValidation,
         ResumeAfterValidation, BufferFilled, SampleStep, SampleRaises,
         TrainPolicy, CheckpointStep, EndStep, LoopRaises, TrainerStep, Call,
         collectorVars, actorVars, trainerLocals

LEMMA VersionNext ==
    ASSUME IInv, [Next]_vars
    PROVE  VersionInv'
<1>0. /\ Types /\ VersionInv /\ SpawnInv
      /\ StartStep \in Nat /\ currentVersion \in Nat /\ genVersion \in Nat
      /\ weightVersion \in Nat /\ calls \in Seq(CallRecord)
  BY ConfigAssumption DEF IInv, Types, CollectorTypes, ThreadTypes, DriverTypes
<1> USE DEF VersionInv, Announced
<1>1. CASE CollectionThread
  <2>1. genVersion' \in {genVersion, currentVersion, StartStep}
    BY <1>1 DEF CollectionThread, FetchBatch, DataloaderExhausted,
         PassManualPause, PassRefitPause, ReadVersion, ReadLastTarget,
         DecideLimits, WarnLimits, NoteWarning, ClearLimitEvent, WaitLimits, ReserveTarget,
         DropBatch, OutOfScope, CheckRefit, WaitRefit, AcquirePermit,
         StartWorker, locals
  <2> QED
    BY <1>0, <1>1, <2>1, ThreadFrame
<1>2. ASSUME NEW w \in Workers, Worker(w)
      PROVE  VersionInv'
  BY <1>0, <1>2, WorkerFrame
<1>3. CASE CollectorActor
  <2>1. CASE ServeSetWeightVersion
    <3>1. /\ calls # <<>> /\ calls[1].op = "set_weight_version"
          /\ currentVersion' = calls[1].version
      BY <2>1 DEF ServeSetWeightVersion, Serve
    <3>2. 1 \in DOMAIN calls /\ calls[1] \in CallRecord
      BY <1>0, <3>1
    <3>3. calls[1].version \in Nat
      BY <3>1, <3>2 DEF CallRecord
    <3>4. currentVersion <= calls[1].version /\ calls[1].version <= weightVersion
      BY <1>0, <3>1, <3>2
    <3>5. /\ calls' = Tail(calls) /\ DOMAIN calls = 1..Len(calls)
          /\ \A i \in DOMAIN calls' : i + 1 \in DOMAIN calls /\ calls'[i] = calls[i + 1]
          /\ DOMAIN calls' = 1..(Len(calls) - 1) /\ Len(calls) \in Nat
      BY <1>0, <3>1, <2>1 DEF ServeSetWeightVersion, Done
    <3>6. /\ \A i \in DOMAIN calls' : calls'[i].op = "set_weight_version" =>
                calls[1].version <= calls'[i].version /\ calls'[i].version <= weightVersion
          /\ \A i, j \in DOMAIN calls' :
                /\ i < j
                /\ calls'[i].op = "set_weight_version"
                /\ calls'[j].op = "set_weight_version"
                => calls'[i].version <= calls'[j].version
      <4>1. ASSUME NEW i \in DOMAIN calls', calls'[i].op = "set_weight_version"
            PROVE  /\ calls[1].version <= calls'[i].version
                   /\ calls'[i].version <= weightVersion
        <5>1. /\ i + 1 \in DOMAIN calls /\ Announced(i + 1) /\ 1 < i + 1
              /\ calls'[i].version = calls[i + 1].version
          BY <3>5, <4>1
        <5>2. Announced(1)
          BY <3>1
        <5> QED
          BY <1>0, <3>2, <5>1, <5>2
      <4>2. ASSUME NEW i \in DOMAIN calls', NEW j \in DOMAIN calls', i < j,
                   calls'[i].op = "set_weight_version",
                   calls'[j].op = "set_weight_version"
            PROVE  calls'[i].version <= calls'[j].version
        <5>1. /\ i + 1 \in DOMAIN calls /\ Announced(i + 1)
              /\ j + 1 \in DOMAIN calls /\ Announced(j + 1) /\ i + 1 < j + 1
              /\ calls'[i].version = calls[i + 1].version
              /\ calls'[j].version = calls[j + 1].version
          BY <3>5, <4>2
        <5> QED
          BY <1>0, <5>1
      <4> QED
        BY <4>1, <4>2
    <3>7. UNCHANGED <<weightVersion, genVersion>>
      BY <1>3, ActorFrame
    <3> QED
      BY <1>0, <3>1, <3>3, <3>4, <3>6, <3>7
  <2>2. CASE ~ServeSetWeightVersion
    <3>1. UNCHANGED <<currentVersion, weightVersion, genVersion>>
      BY <1>3, <2>2, ActorFrame
         DEF CollectorActor, ServeStartCollection, SignalLimitCleared,
             ServePause, ServeResume, ServePrepareForRefit, PollPending,
             ServeResumeAfterRefit, ServeDataloaderState, sharedVars
    <3>2. /\ \A i \in DOMAIN calls' : calls'[i].op = "set_weight_version" =>
                currentVersion <= calls'[i].version /\ calls'[i].version <= weightVersion
          /\ \A i, j \in DOMAIN calls' :
                /\ i < j
                /\ calls'[i].op = "set_weight_version"
                /\ calls'[j].op = "set_weight_version"
                => calls'[i].version <= calls'[j].version
      <4>1. CASE calls' = calls
        BY <1>0, <3>1, <4>1
      <4>2. CASE calls' # calls
        <5>1. /\ DOMAIN calls = 1..Len(calls) /\ Len(calls) \in Nat
              /\ DOMAIN calls' \subseteq Int
              /\ \A i \in DOMAIN calls' : i + 1 \in DOMAIN calls /\ calls'[i] = calls[i + 1]
          BY <1>0, <1>3, <4>2, ServedTail
        <5>2. ASSUME NEW i \in DOMAIN calls', calls'[i].op = "set_weight_version"
              PROVE  /\ i + 1 \in DOMAIN calls /\ Announced(i + 1)
                     /\ calls'[i].version = calls[i + 1].version
          BY <5>1, <5>2
        <5>3. \A i, j \in DOMAIN calls' : i < j => i + 1 < j + 1
          BY <5>1
        <5> QED
          BY <1>0, <5>2, <5>3
      <4> QED
        BY <4>1, <4>2
    <3> QED
      BY <1>0, <3>1, <3>2
  <2> QED
    BY <2>1, <2>2
<1>4. CASE Refit
  <2>1. /\ weightVersion' = weightVersion + 1
        /\ UNCHANGED <<currentVersion, genVersion>>
    BY <1>4, TrainerFrame DEF Refit, Trainer
  <2>2. \A i \in DOMAIN calls : Announced(i) => calls[i].version \in Nat
    BY <1>0 DEF CallRecord
  <2>3. /\ Len(calls) \in Nat /\ DOMAIN calls = 1..Len(calls)
        /\ DOMAIN calls' = 1..(Len(calls) + 2)
        /\ \A i \in DOMAIN calls : calls'[i] = calls[i]
        /\ calls'[Len(calls) + 1].version = weightVersion + 1
        /\ calls'[Len(calls) + 2].op # "set_weight_version"
    BY <1>0, <1>4, RefitCalls
  <2>4. ASSUME NEW i \in DOMAIN calls', Announced(i)'
        PROVE  /\ \/ i \in DOMAIN calls /\ Announced(i)
                  \/ i = Len(calls) + 1
               /\ currentVersion <= calls'[i].version
               /\ calls'[i].version <= weightVersion + 1
    BY <1>0, <2>2, <2>3, <2>4, SMTT(40)
  <2>5. ASSUME NEW i \in DOMAIN calls', NEW j \in DOMAIN calls',
               i < j, Announced(i)', Announced(j)'
        PROVE  calls'[i].version <= calls'[j].version
    BY <1>0, <2>2, <2>3, <2>4, <2>5
  <2> QED
    BY <1>0, <2>1, <2>4, <2>5
<1>5. CASE Trainer /\ ~Refit
  <2>1. UNCHANGED <<currentVersion, genVersion, weightVersion>>
    BY <1>5, TrainerFrame, TrainerCalls
  <2>2. CASE calls' = calls
    BY <1>0, <2>1, <2>2
  <2>3. ASSUME NEW op \in {"pause", "resume", "prepare_for_refit", "get_dataloader_state"},
               calls' = Append(calls, [op |-> op])
        PROVE  VersionInv'
    BY <1>0, <2>1, <2>3, Appended
  <2> QED
    BY <1>5, <2>2, <2>3, TrainerCalls
<1>6. CASE UNCHANGED vars
  BY <1>0, <1>6 DEF vars, actorVars, threadVars, locals, trainerVars, trainerLocals
<1> QED
  BY <1>1, <1>2, <1>3, <1>4, <1>5, <1>6 DEF Next

LEMMA CallNext ==
    ASSUME IInv, [Next]_vars
    PROVE  CallInv'
<1>0. Types /\ CallInv /\ calls \in Seq(CallRecord)
  BY DEF IInv, Types, CollectorTypes
<1> USE DEF CallInv, Is, Finished
<1>1. CASE CollectionThread
  BY <1>0, <1>1, ThreadFrame
<1>2. ASSUME NEW w \in Workers, Worker(w)
      PROVE  CallInv'
  BY <1>0, <1>2, WorkerFrame
<1>3. CASE CollectorActor
  <2>0. ~Finished
    BY <1>3, ActorFrame
  <2>1. CASE SignalLimitCleared
    BY <1>0, <2>1 DEF SignalLimitCleared, threadVars, notCollector, trainerVars
  <2>2. CASE PollPending
    <3>1. UNCHANGED <<calls, cpc>> /\ apc = "draining"
      BY <2>2 DEF PollPending, threadVars
    <3>2. \/ UNCHANGED <<apc, tpc>>
          \/ apc' = "idle" /\ tpc' = "refit"
      BY <2>2 DEF PollPending
    <3> QED
      BY <1>0, <2>0, <3>1, <3>2
  <2>3. ASSUME NEW op, Serve(op), Done
        PROVE  /\ 1 \in DOMAIN calls /\ calls[1].op = op /\ apc = "idle"
               /\ DOMAIN calls' \subseteq Nat \ {0}
               /\ \A i \in DOMAIN calls' : i + 1 \in DOMAIN calls /\ calls'[i] = calls[i + 1]
    BY <1>0, <2>3 DEF Serve, Done
  <2>4. CASE ServeStartCollection
    BY <1>0, <2>0, <2>3, <2>4 DEF ServeStartCollection, notCollector, trainerVars
  <2>5. CASE ServeSetWeightVersion \/ ServePause \/ ServeResume \/ ServeResumeAfterRefit
    <3>1. /\ UNCHANGED <<cpc, tpc>> /\ apc' # "draining"
          /\ DOMAIN calls' \subseteq Nat \ {0}
          /\ \A i \in DOMAIN calls' : i + 1 \in DOMAIN calls /\ calls'[i] = calls[i + 1]
      BY <2>3, <2>5 DEF ServeSetWeightVersion, ServePause, ServeResume,
           ServeResumeAfterRefit, Serve, threadVars, notCollector, trainerVars
    <3> QED
      BY <1>0, <2>0, <3>1
  <2>6. CASE ServePrepareForRefit
    BY <1>0, <2>0, <2>3, <2>6 DEF ServePrepareForRefit, threadVars
  <2>7. CASE ServeDataloaderState
    BY <1>0, <2>0, <2>3, <2>7 DEF ServeDataloaderState, threadVars
  <2> QED
    BY <1>3, <2>1, <2>2, <2>4, <2>5, <2>6, <2>7 DEF CollectorActor
<1>4. CASE Refit
  <2>1. UNCHANGED <<apc, cpc>> /\ tpc = "refit"
    BY <1>4, TrainerFrame DEF Refit, Trainer, TrainerStep
  <2>2. \A i \in DOMAIN calls : ~Is(i, "prepare_for_refit") /\ ~Is(i, "get_dataloader_state")
    BY <1>0, <2>1
  <2>3. \A i \in DOMAIN calls' :
            \/ i \in DOMAIN calls /\ calls'[i] = calls[i]
            \/ calls'[i].op \in {"set_weight_version", "resume_after_refit"}
    BY <1>0, <1>4, RefitCalls
  <2> QED
    BY <1>0, <2>1, <2>2, <2>3
<1>5. CASE Trainer /\ ~Refit
  <2>1. UNCHANGED <<apc, cpc>>
    BY <1>5, TrainerFrame
  <2>2. tpc \in {"prepare", "saving"} \/ Finished => Finished' /\ calls' = calls
    BY <1>5 DEF Trainer, InitialRefit, InitialRefitFails, PauseForValidation,
         ResumeAfterValidation, BufferFilled, SampleStep, SampleRaises,
         TrainPolicy, CheckpointStep, EndStep, LoopRaises, TrainerStep, Call,
         InLoop, collectorVars, actorVars
  <2>3. CASE calls' = calls
    BY <1>0, <2>1, <2>2, <2>3
  <2>4. ASSUME NEW op \in {"pause", "resume", "prepare_for_refit", "get_dataloader_state"},
               calls' = Append(calls, [op |-> op]), calls' # calls,
               op = "prepare_for_refit" => tpc = "train" /\ tpc' = "prepare",
               op = "get_dataloader_state" => tpc = "checkpoint" /\ tpc' = "saving"
        PROVE  CallInv'
    <3>1. \A i \in DOMAIN calls : ~Is(i, "prepare_for_refit") /\ ~Is(i, "get_dataloader_state")
      BY <1>0, <2>2, <2>4
    <3>2. /\ Len(calls) \in Nat
          /\ \A i \in DOMAIN calls' :
                \/ i \in DOMAIN calls /\ calls'[i] = calls[i]
                \/ i = Len(calls) + 1 /\ calls'[i].op = op
      BY <1>0, <2>4, Appended
    <3>3. apc # "draining"
      BY <1>0, <2>2, <2>4
    <3> QED
      BY <1>0, <2>1, <2>4, <3>1, <3>2, <3>3
  <2> QED
    BY <1>5, <2>3, <2>4, TrainerCalls
<1>6. CASE UNCHANGED vars
  BY <1>0, <1>6 DEF vars, actorVars, threadVars, trainerVars
<1> QED
  BY <1>1, <1>2, <1>3, <1>4, <1>5, <1>6 DEF Next

-----------------------------------------------------------------------------
(* Stamps and groups                                                        *)

\* What a worker's push adds to the buffer.
LEMMA PushAdds ==
    ASSUME Types, StampInv, NEW w \in Workers, PushGroup(w)
    PROVE  /\ Group(w) \in Buffer!Entry
           /\ InAge(wver[w], target[w[1]])
           /\ wpc[w] = "push"
           /\ Len(entries) \in Nat /\ DOMAIN entries = 1..Len(entries)
           /\ DOMAIN entries' = 1..(Len(entries) + 1)
           /\ \A i \in DOMAIN entries : entries'[i] = entries[i]
           /\ entries'[Len(entries) + 1] = Group(w)
<1>1. wpc[w] = "push" /\ entries' = Append(entries, Group(w))
  BY DEF PushGroup, WorkerStep, Buffer!Push
<1>2. entries \in Seq(Buffer!Entry) /\ wver \in [Workers -> Nat]
  BY DEF Types, Buffer!TypeOK, WorkerTypes
<1>3. InAge(wver[w], target[w[1]])
  BY <1>1 DEF StampInv
<1>4. Group(w) \in Buffer!Entry
  BY <1>2, <1>3, ConfigAssumption DEF Group, Buffer!Entry, InAge
<1> QED
  BY <1>1, <1>2, <1>3, <1>4

\* A step that is not a push or a sample leaves the buffer alone.
LEMMA EntriesFrame ==
    ASSUME [Next]_vars, \A w \in Workers : ~PushGroup(w), ~SampleStep
    PROVE  entries' = entries
<1>1. CASE CollectionThread
  BY <1>1, ThreadFrame
<1>2. ASSUME NEW w \in Workers, Worker(w)
      PROVE  entries' = entries
  BY <1>2 DEF Worker, FinishRollout, FailRollout, BufferFull, RetryPush,
              ReleaseReservation, CleanUp, notCollector, bufferVars
<1>3. CASE CollectorActor
  BY <1>3, ActorFrame
<1>4. CASE Trainer
  BY <1>4 DEF Trainer, InitialRefit, InitialRefitFails, PauseForValidation,
         ResumeAfterValidation, BufferFilled, SampleRaises, TrainPolicy, Refit,
         CheckpointStep, EndStep, LoopRaises, bufferVars
<1>5. CASE UNCHANGED vars
  BY <1>5 DEF vars, bufferVars
<1> QED
  BY <1>1, <1>2, <1>3, <1>4, <1>5 DEF Next

\* A sample keeps the order and the names of the groups it leaves.
LEMMA SampleKeeps ==
    ASSUME Types, SampleStep
    PROVE  \E f : /\ \A i \in DOMAIN entries' :
                       f[i] \in DOMAIN entries /\ entries'[i] = entries[f[i]]
                  /\ \A i, j \in DOMAIN entries' : f[i] = f[j] => i = j
<1>1. PICK S \in SUBSET Buffer!Intended(weightVersion, MaxAge) :
          \E f \in Buffer!Enumerations(DOMAIN entries \ S) :
              entries' = [i \in DOMAIN f |-> entries[f[i]]]
  BY SampleTakes
<1>2. PICK f \in Buffer!Enumerations(DOMAIN entries \ S) :
          entries' = [i \in DOMAIN f |-> entries[f[i]]]
  BY <1>1
<1>3. entries \in Seq(Buffer!Entry) /\ DOMAIN entries \ S \in SUBSET DOMAIN entries
  BY DEF Types, Buffer!TypeOK
<1>4. /\ \A i \in DOMAIN entries' :
             f[i] \in DOMAIN entries \ S /\ entries'[i] = entries[f[i]]
      /\ \A i, j \in DOMAIN entries' : f[i] = f[j] => i = j
  BY <1>2, <1>3, Picked
<1> QED
  BY <1>4

\* A group that was offered stays offered.
LEMMA OfferedStays ==
    ASSUME IInv, [Next]_vars
    PROVE  \A w \in Workers : wpc[w] \notin Unoffered => wpc'[w] \notin Unoffered
<1>0. Types /\ SpawnInv /\ wpc \in [Workers -> WorkerStates]
  BY DEF IInv, Types, WorkerTypes
<1> USE DEF Unoffered
<1>1. CASE CollectionThread
  <2>1. CASE AcquirePermit
    <3>1. wpc[<<batch, prompt>>] = "none"
      BY <1>0, <2>1, WorkerNames, ConfigAssumption
         DEF AcquirePermit, CollectorStep, SpawnInv, AfterReservation, Types,
             ThreadTypes, Prompts
    <3> QED
      BY <1>0, <2>1, <3>1 DEF AcquirePermit
  <2>2. CASE StartWorker
    <3>1. wpc[<<batch, prompt>>] = "created"
      BY <1>0, <2>2 DEF StartWorker, CollectorStep, SpawnInv
    <3> QED
      BY <1>0, <2>2, <3>1 DEF StartWorker
  <2> QED
    BY <1>1, <2>1, <2>2
       DEF CollectionThread, FetchBatch, DataloaderExhausted, PassManualPause,
           PassRefitPause, ReadVersion, ReadLastTarget, DecideLimits,
           WarnLimits, NoteWarning, ClearLimitEvent, WaitLimits, ReserveTarget, DropBatch,
           CheckRefit, WaitRefit, notThread, workerVars
<1>2. ASSUME NEW w \in Workers, Worker(w), NEW v \in Workers, wpc[v] \notin Unoffered
      PROVE  wpc'[v] \notin Unoffered
  BY <1>0, <1>2, WorkerMoves
<1> QED
  BY <1>1, <1>2, ActorFrame, TrainerFrame DEF Next, vars, workerVars

LEMMA OnceNext ==
    ASSUME IInv, [Next]_vars
    PROVE  OnceInv'
<1>0. /\ Types /\ OnceInv /\ StampInv /\ SpawnInv
      /\ wpc \in [Workers -> WorkerStates]
      /\ \A i \in DOMAIN entries : entries[i].trajectory \in Workers
  <2>1. \A i \in DOMAIN entries : entries[i] \in Buffer!Entry
    BY DEF IInv, Types, Buffer!TypeOK
  <2> QED
    BY <2>1 DEF IInv, Types, WorkerTypes, Buffer!Entry
<1>1. \A w \in Workers : wpc[w] \notin Unoffered => wpc'[w] \notin Unoffered
  BY OfferedStays
<1>2. ASSUME NEW w \in Workers, PushGroup(w)
      PROVE  OnceInv'
  <2>1. wpc'[w] \notin Unoffered
    BY <1>0, <1>2 DEF PushGroup, WorkerStep, Unoffered
  <2>2. \A i \in DOMAIN entries : entries[i].trajectory # w
    BY <1>0, <1>2, PushAdds DEF OnceInv, Unoffered
  <2>3. entries'[Len(entries) + 1].trajectory = w
    <3>1. entries'[Len(entries) + 1] = Group(w)
      BY <1>0, <1>2, PushAdds
    <3> QED
      BY <3>1 DEF Group
  <2>4. /\ Len(entries) \in Nat
        /\ \A i \in DOMAIN entries' :
              \/ i \in DOMAIN entries /\ entries'[i] = entries[i]
              \/ i = Len(entries) + 1 /\ entries'[i].trajectory = w
    BY <1>0, <1>2, <2>3, PushAdds
  <2> QED
    BY <1>0, <1>1, <2>1, <2>2, <2>4 DEF OnceInv
<1>3. CASE SampleStep
  BY <1>0, <1>1, <1>3, SampleKeeps DEF OnceInv
<1>4. CASE entries' = entries
  BY <1>0, <1>1, <1>4 DEF OnceInv
<1> QED
  BY <1>2, <1>3, <1>4, EntriesFrame

LEMMA StampNext ==
    ASSUME IInv, [Next]_vars
    PROVE  StampInv'
<1>0. /\ Types /\ StampInv /\ SpawnInv /\ VersionInv
      /\ wpc \in [Workers -> WorkerStates]
      /\ wver \in [Workers -> Nat] /\ target \in [Batches -> Nat \cup {NoTarget}]
      /\ weightVersion \in Nat /\ genVersion \in Nat /\ currentVersion \in Nat
      /\ StartStep \in Nat /\ MaxAge \in Nat
  BY ConfigAssumption
     DEF IInv, Types, WorkerTypes, DriverTypes, ThreadTypes, CollectorTypes
<1>1. weightVersion' \in Nat /\ weightVersion <= weightVersion'
  <2>1. CASE Refit
    BY <1>0, <2>1 DEF Refit
  <2> QED
    BY <1>0, <2>1, ThreadFrame, WorkerFrame, ActorFrame, TrainerCalls
       DEF Next, vars, trainerVars, trainerLocals
<1>2. \A made, use : InAge(made, use) => InAge(made, use)'
  BY <1>0, <1>1 DEF InAge
<1>3. \A i \in DOMAIN entries' : InAge(entries'[i].version, entries'[i].target)
  <2>1. ASSUME NEW w \in Workers, PushGroup(w), NEW i \in DOMAIN entries'
        PROVE  InAge(entries'[i].version, entries'[i].target)
    <3>1. /\ InAge(wver[w], target[w[1]])
          /\ \/ i \in DOMAIN entries /\ entries'[i] = entries[i]
             \/ entries'[i] = Group(w)
      BY <1>0, <2>1, PushAdds
    <3>2. Group(w).version = wver[w] /\ Group(w).target = target[w[1]]
      BY DEF Group
    <3> QED
      BY <1>0, <3>1, <3>2 DEF StampInv
  <2>2. CASE SampleStep
    BY <1>0, <2>2, SampleKeeps DEF StampInv
  <2>3. CASE entries' = entries
    BY <1>0, <2>3 DEF StampInv
  <2> QED
    BY <2>1, <2>2, <2>3, EntriesFrame
<1> DEFINE Reserved == cpc \in AfterReservation \cup {"start"}
           Stamped(w) == wpc[w] \in {"created", "rollout", "push", "retry"}
<1>4. Reserved' => target'[batch'] \in StartStep..(genVersion' + MaxAge)
  <2>0. Reserved => /\ batch \in Batches
                    /\ target[batch] \in StartStep..(genVersion + MaxAge)
    BY <1>0 DEF SpawnInv, StampInv
  <2> USE DEF AfterReservation
  <2>1. CASE CollectionThread
    <3>1. CASE ReserveTarget
      <4>1. batch \in Batches
        BY <1>0, <3>1 DEF ReserveTarget, SpawnInv, BeforeReservation
      <4>2. Needed \subseteq StartStep..(genVersion + MaxAge)
        BY <1>0, TargetsInAge DEF VersionInv
      <4> QED
        BY <1>0, <3>1, <4>1, <4>2 DEF ReserveTarget
    <3>2. CASE ReadVersion("reread_version", "acquire")
      <4>1. cpc = "reread_version" /\ genVersion' = currentVersion /\ genVersion <= currentVersion
        BY <1>0, <3>2 DEF ReadVersion, CollectorStep, VersionInv
      <4>2. UNCHANGED <<batch, target>>
        BY <3>2 DEF ReadVersion, notThread, workerVars, stamps
      <4> QED
        BY <1>0, <2>0, <4>1, <4>2
    <3>3. CASE StartWorker
      BY <2>0, <3>3 DEF StartWorker, CollectorStep, stamps
    <3>4. CASE CheckRefit \/ WaitRefit \/ AcquirePermit
      BY <2>0, <3>4 DEF CheckRefit, WaitRefit, AcquirePermit, CollectorStep,
           locals, notThread, workerVars, stamps
    <3> QED
      BY <2>1, <3>1, <3>2, <3>3, <3>4
         DEF CollectionThread, FetchBatch, DataloaderExhausted, PassManualPause,
             PassRefitPause, ReadVersion, ReadLastTarget, DecideLimits,
             WarnLimits, NoteWarning, ClearLimitEvent, WaitLimits, DropBatch, CollectorStep
  <2>2. ASSUME NEW w \in Workers, Worker(w)
        PROVE  Reserved' => target'[batch'] \in StartStep..(genVersion' + MaxAge)
    BY <2>0, <2>2, WorkerFrame
  <2>3. CASE CollectorActor
    <3>1. Reserved' => Reserved
      BY <2>3 DEF CollectorActor, ServeStartCollection, ServeSetWeightVersion,
           SignalLimitCleared, ServePause, ServeResume, ServePrepareForRefit,
           PollPending, ServeResumeAfterRefit, ServeDataloaderState, threadVars
    <3> QED
      BY <2>0, <2>3, <3>1, ActorFrame
  <2> QED
    BY <2>0, <2>1, <2>2, <2>3, TrainerFrame DEF Next, vars, threadVars, locals, workerVars, stamps
<1>5. \A w \in Workers : Stamped(w)' => InAge(wver'[w], target'[w[1]])
  <2>0. \A w \in Workers : Stamped(w) => InAge(wver[w], target[w[1]])
    BY <1>0 DEF StampInv
  <2>1. CASE CollectionThread
    <3>1. CASE ReserveTarget
      <4>1. \A w \in Workers : Stamped(w)' => w[1] # batch /\ wpc'[w] = wpc[w]
        BY <1>0, <3>1 DEF ReserveTarget, SpawnInv, BeforeReservation
      <4> QED
        BY <1>0, <2>0, <3>1, <4>1, WorkerNames DEF ReserveTarget
    <3>2. CASE AcquirePermit
      <4>1. /\ cpc = "acquire" /\ <<batch, prompt>> \in Workers
            /\ UNCHANGED target
        BY <1>0, <3>2, WorkerNames DEF AcquirePermit, CollectorStep, SpawnInv,
           AfterReservation, Types, ThreadTypes
      <4>2. InAge(genVersion, target[batch])
        BY <1>0, <4>1 DEF InAge, StampInv, VersionInv, AfterReservation
      <4> QED
        BY <1>0, <2>0, <3>2, <4>1, <4>2 DEF AcquirePermit
    <3>3. CASE StartWorker
      <4>1. wpc[<<batch, prompt>>] = "created"
        BY <1>0, <3>3 DEF StartWorker, CollectorStep, SpawnInv
      <4> QED
        BY <1>0, <2>0, <3>3, <4>1 DEF StartWorker, stamps
    <3> QED
      BY <2>0, <2>1, <3>1, <3>2, <3>3
         DEF CollectionThread, FetchBatch, DataloaderExhausted, PassManualPause,
             PassRefitPause, ReadVersion, ReadLastTarget, DecideLimits,
             WarnLimits, NoteWarning, ClearLimitEvent, WaitLimits, DropBatch, CheckRefit,
             WaitRefit, notThread, workerVars, stamps
  <2>2. ASSUME NEW w \in Workers, Worker(w), NEW v \in Workers, Stamped(v)'
        PROVE  InAge(wver'[v], target'[v[1]])
    <3>1. Stamped(v) /\ target' = target
      BY <1>0, <2>2, WorkerMoves, WorkerFrame
    <3>2. wver'[v] = wver[v]
      <4>1. CASE CleanUp(w)
        BY <1>0, <2>2, <4>1 DEF CleanUp, WorkerStep
      <4> QED
        BY <2>2, <4>1 DEF Worker, FinishRollout, FailRollout, PushGroup,
           BufferFull, RetryPush, ReleaseReservation, stamps
    <3> QED
      BY <2>0, <3>1, <3>2
  <2> QED
    BY <2>0, <2>1, <2>2, ActorFrame, TrainerFrame DEF Next, vars, workerVars, stamps
<1> QED
  BY <1>2, <1>3, <1>4, <1>5 DEF StampInv

-----------------------------------------------------------------------------
(* Reservations                                                             *)

\* A batch is given its target before its workers are made, and keeps it.
LEMMA TargetStays ==
    ASSUME IInv, [Next]_vars
    PROVE  /\ target' \in [Batches -> Nat \cup {NoTarget}]
           /\ \A w \in Workers : wpc[w] # "none" => target'[w[1]] = target[w[1]]
           /\ ~ReserveTarget => target' = target
<1>1. CASE ReserveTarget
  <2>1. /\ cpc = "reserve" /\ batch \in Batches
        /\ \A w \in Workers : w[1] = batch => wpc[w] = "none"
    BY <1>1 DEF ReserveTarget, IInv, SpawnInv, BeforeReservation
  <2>2. PICK t \in Needed : target' = [target EXCEPT ![batch] = t]
    BY <1>1 DEF ReserveTarget
  <2>3. Needed \subseteq Nat
    <3>1. StartStep <= genVersion /\ genVersion \in Nat /\ Types
      BY DEF IInv, VersionInv, Types, ThreadTypes
    <3> QED
      BY <3>1, TargetsInAge, ConfigAssumption
  <2>4. target \in [Batches -> Nat \cup {NoTarget}]
    BY DEF IInv, Types, WorkerTypes
  <2> QED
    BY <1>1, <2>1, <2>2, <2>3, <2>4, WorkerNames
<1>2. CASE ~ReserveTarget
  <2>1. CollectionThread => target' = target
    BY <1>2 DEF CollectionThread, FetchBatch, DataloaderExhausted, PassManualPause,
       PassRefitPause, ReadVersion, ReadLastTarget, DecideLimits, WarnLimits, NoteWarning,
       ClearLimitEvent, WaitLimits, DropBatch, CheckRefit, WaitRefit, AcquirePermit,
       StartWorker, notThread, workerVars, stamps
  <2>2. target' = target
    BY <2>1, WorkerFrame, ActorFrame, TrainerFrame DEF Next, vars, workerVars, stamps
  <2> QED
    BY <1>2, <2>2 DEF IInv, Types, WorkerTypes
<1> QED
  BY <1>1, <1>2

\* The high-water mark only rises.
LEMMA MarkRises ==
    ASSUME IInv, [Next]_vars
    PROVE  /\ lastTarget \in Nat \cup {-1} /\ lastTarget' \in Nat \cup {-1}
           /\ lastTarget <= lastTarget'
<1>0. Types /\ StampInv /\ lastTarget \in Nat \cup {-1}
  BY DEF IInv, Types, Buffer!TypeOK
<1>1. ASSUME NEW w \in Workers, PushGroup(w)
      PROVE  lastTarget <= lastTarget' /\ lastTarget' \in Nat \cup {-1}
  <2>1. Group(w).target \in Nat
    BY <1>0, <1>1, PushAdds DEF Buffer!Entry
  <2> QED
    BY <1>0, <1>1, <2>1 DEF PushGroup, Buffer!Push
<1>2. ASSUME NEW w \in Workers, Worker(w), ~PushGroup(w)
      PROVE  lastTarget' = lastTarget
  BY <1>2 DEF Worker, FinishRollout, FailRollout, BufferFull, RetryPush,
     ReleaseReservation, CleanUp, notCollector, bufferVars
<1> QED
  BY <1>0, <1>1, <1>2, ThreadFrame, ActorFrame, TrainerFrame DEF Next, vars, bufferVars

\* A worker gets past its push by a push, a failure or the end of collection.
LEMMA PastPush ==
    ASSUME IInv, NEW w \in Workers, Worker(w),
           wpc'[w] \in {"release", "cleanup", "exited"}
    PROVE  \/ wpc[w] \in {"release", "cleanup"}
           \/ ~running
           \/ failures' # 0
           \/ target[w[1]] <= lastTarget'
<1>0. wpc \in [Workers -> WorkerStates] /\ failures \in Nat
  BY DEF IInv, Types, WorkerTypes, DriverTypes
<1>1. CASE PushGroup(w)
  <2>1. Group(w).target \in Nat /\ lastTarget \in Nat \cup {-1} /\ Group(w).target = target[w[1]]
    BY <1>1, PushAdds DEF IInv, Types, Buffer!TypeOK, Buffer!Entry, Group
  <2> QED
    BY <1>1, <2>1 DEF PushGroup, Buffer!Push
<1>2. CASE FinishRollout(w) \/ RetryPush(w)
  BY <1>0, <1>2 DEF FinishRollout, RetryPush, WorkerStep
<1>3. CASE FailRollout(w)
  BY <1>0, <1>3 DEF FailRollout
<1>4. CASE BufferFull(w) \/ ReleaseReservation(w) \/ CleanUp(w)
  BY <1>0, <1>4 DEF BufferFull, ReleaseReservation, CleanUp, WorkerStep
<1> QED
  BY <1>1, <1>2, <1>3, <1>4 DEF Worker

\* Failures are counted, and collection starts once.
LEMMA RunningFrame ==
    ASSUME IInv, [Next]_vars
    PROVE  /\ failures' = 0 => failures = 0
           /\ running' /\ ~running => cpc = "unstarted" /\ UNCHANGED <<wpc, target>>
<1>0. failures \in Nat
  BY DEF IInv, Types, DriverTypes
<1>1. CASE CollectionThread
  <2>1. running' => running
    BY <1>1 DEF CollectionThread, FetchBatch, DataloaderExhausted, PassManualPause,
       PassRefitPause, ReadVersion, ReadLastTarget, DecideLimits, WarnLimits, NoteWarning,
       ClearLimitEvent, WaitLimits, ReserveTarget, DropBatch, CheckRefit, WaitRefit,
       AcquirePermit, StartWorker, notThread, sharedVars
  <2> QED
    BY <1>1, <2>1, ThreadFrame
<1>2. ASSUME NEW w \in Workers, Worker(w)
      PROVE  (failures' = 0 => failures = 0) /\ running' = running
  BY <1>0, <1>2, WorkerFrame
     DEF Worker, FinishRollout, FailRollout, PushGroup, BufferFull, RetryPush,
         ReleaseReservation, CleanUp, notCollector
<1>3. CASE CollectorActor
  <2>1. CASE ServeStartCollection
    <3>1. cpc = "unstarted"
      BY <2>1 DEF ServeStartCollection, Serve, IInv, CallInv, Is, Types, CollectorTypes
    <3> QED
      BY <1>3, <3>1, ActorFrame
  <2>2. CASE ~ServeStartCollection
    <3>1. running' = running
      BY <1>3, <2>2
         DEF CollectorActor, ServeSetWeightVersion, SignalLimitCleared, ServePause,
             ServeResume, ServePrepareForRefit, PollPending,
             ServeResumeAfterRefit, ServeDataloaderState, sharedVars
    <3> QED
      BY <1>3, <3>1, ActorFrame
  <2> QED
    BY <2>1, <2>2
<1>4. CASE Trainer
  <2>1. failures' = failures \/ failures' = failures + 1
    BY <1>4 DEF Trainer, InitialRefit, InitialRefitFails, PauseForValidation,
         ResumeAfterValidation, BufferFilled, SampleStep, SampleRaises, TrainPolicy, Refit,
         CheckpointStep, EndStep, LoopRaises
  <2> QED
    BY <1>0, <1>4, <2>1, TrainerFrame
<1> QED
  BY <1>1, <1>2, <1>3, <1>4 DEF Next, vars

\* The collection thread makes workers and starts them; it does not end one.
LEMMA ThreadEndsNone ==
    ASSUME IInv, CollectionThread, NEW w \in Workers,
           wpc'[w] \in {"release", "cleanup", "exited"}
    PROVE  wpc[w] = wpc'[w]
<1>0. wpc \in [Workers -> WorkerStates]
  BY DEF IInv, Types, WorkerTypes
<1> QED
  BY <1>0 DEF CollectionThread, FetchBatch, DataloaderExhausted, PassManualPause,
     PassRefitPause, ReadVersion, ReadLastTarget, DecideLimits, WarnLimits, NoteWarning,
     ClearLimitEvent, WaitLimits, ReserveTarget, DropBatch, CheckRefit, WaitRefit,
     AcquirePermit, StartWorker, notThread, workerVars

LEMMA ReservedNext ==
    ASSUME IInv, [Next]_vars
    PROVE  ReservedInv'
<1>0. /\ ReservedInv /\ SpawnInv
      /\ wpc \in [Workers -> WorkerStates]
      /\ batch \in 0..NumBatches /\ NumBatches \in Nat
      /\ target \in [Batches -> Nat \cup {NoTarget}]
  BY ConfigAssumption DEF IInv, Types, WorkerTypes, ThreadTypes
<1>1. /\ cpc' = "unstarted" => cpc = "unstarted" /\ batch' = batch
      /\ batch' \in Nat /\ batch <= batch' /\ (ReserveTarget => batch' = batch)
  <2>1. CASE CollectionThread
    BY <1>0, <2>1, ThreadFrame
       DEF CollectionThread, FetchBatch, DataloaderExhausted, PassManualPause,
           PassRefitPause, ReadVersion, ReadLastTarget, DecideLimits, WarnLimits, NoteWarning,
           ClearLimitEvent, WaitLimits, ReserveTarget, DropBatch, CheckRefit, WaitRefit,
           AcquirePermit, StartWorker, CollectorStep, locals
  <2>2. CASE CollectorActor
    <3>1. cpc' = "unstarted" => cpc = "unstarted"
      BY <2>2
         DEF CollectorActor, ServeStartCollection, ServeSetWeightVersion,
             SignalLimitCleared, ServePause, ServeResume, ServePrepareForRefit,
             PollPending, ServeResumeAfterRefit, ServeDataloaderState, threadVars
    <3>2. batch' = batch
      BY <2>2, ActorFrame
    <3> QED
      BY <1>0, <3>1, <3>2
  <2> QED
    BY <1>0, <2>1, <2>2, WorkerFrame, TrainerFrame
       DEF Next, vars, threadVars, locals, ReserveTarget
<1>2. \A b \in Batches : target'[b] # NoTarget => b <= batch'
  <2>1. CASE ReserveTarget
    <3>1. batch \in Batches /\ batch' = batch
      BY <1>0, <1>1, <2>1 DEF ReserveTarget, SpawnInv, BeforeReservation
    <3> QED
      BY <1>0, <2>1, <3>1 DEF ReserveTarget, ReservedInv, Batches
  <2>2. CASE ~ReserveTarget
    <3>1. target' = target
      BY <2>2, TargetStays
    <3> QED
      BY <1>0, <1>1, <3>1 DEF ReservedInv, Batches
  <2> QED
    BY <2>1, <2>2
<1>3. ASSUME running', failures' = 0, NEW w \in Workers,
             wpc'[w] \in {"release", "cleanup", "exited"}
      PROVE  target'[w[1]] <= lastTarget'
  <2>0. failures = 0 /\ w[1] \in Batches
    BY <1>3, RunningFrame, WorkerNames
  <2>1. CASE ~running
    <3>1. cpc = "unstarted" /\ wpc'[w] = wpc[w]
      BY <1>3, <2>1, RunningFrame
    <3>2. batch = 0 /\ wpc[w] # "none"
      BY <1>0, <1>3, <3>1 DEF ReservedInv
    <3> QED
      BY <1>0, <2>0, <3>2 DEF SpawnInv, Batches
  <2>2. CASE running /\ wpc[w] \in {"release", "cleanup", "exited"}
    <3>1. target[w[1]] <= lastTarget
      BY <1>0, <2>0, <2>2 DEF ReservedInv
    <3>2. target'[w[1]] = target[w[1]]
      BY <2>2, TargetStays
    <3>3. target[w[1]] \in Int
      BY <1>0, <2>0 DEF NoTarget
    <3> QED
      BY <3>1, <3>2, <3>3, MarkRises
  <2>3. CASE running /\ wpc[w] \notin {"release", "cleanup", "exited"}
    <3>1. PICK v \in Workers : Worker(v)
      BY <1>3, <2>3, ThreadEndsNone, ActorFrame, TrainerFrame DEF Next, vars, workerVars
    <3>2. v = w
      BY <1>0, <1>3, <2>3, <3>1, WorkerMoves DEF IInv
    <3>3. target[w[1]] <= lastTarget'
      BY <1>3, <2>3, <3>1, <3>2, PastPush
    <3> QED
      BY <3>1, <3>3, WorkerFrame
  <2> QED
    BY <2>1, <2>2, <2>3
<1> QED
  BY <1>0, <1>1, <1>2, <1>3 DEF ReservedInv

\* Only a worker whose group is in takes its reservation back.
LEMMA ReservedOrBufferedNext ==
    ASSUME IInv, [Next]_vars
    PROVE  ReservedOrBuffered'
<1> SUFFICES ASSUME running', failures' = 0, NEW b \in Batches, target'[b] # NoTarget
             PROVE  target'[b] \in generatingTargets' \/ target'[b] <= lastTarget'
  BY DEF ReservedOrBuffered
<1>0. /\ ReservedInv /\ ReservedOrBuffered /\ failures = 0
      /\ target \in [Batches -> Nat \cup {NoTarget}]
      /\ wpc \in [Workers -> WorkerStates]
  BY RunningFrame DEF IInv, Types, WorkerTypes
<1>1. CASE ~running
  <2>1. cpc = "unstarted" /\ target' = target
    BY <1>1, RunningFrame
  <2> QED
    BY <1>0, <2>1 DEF ReservedInv, Batches
<1>2. CASE running /\ ReserveTarget
  <2>1. batch \in Batches
    BY <1>2 DEF ReserveTarget, IInv, SpawnInv, BeforeReservation
  <2>2. PICK t \in Needed : /\ target' = [target EXCEPT ![batch] = t]
                            /\ generatingTargets' = generatingTargets \cup {t}
    BY <1>2 DEF ReserveTarget
  <2>3. lastTarget' = lastTarget
    BY <1>2 DEF ReserveTarget, notCollector, bufferVars
  <2>4. CASE b = batch
    BY <1>0, <2>1, <2>2, <2>4
  <2>5. CASE b # batch
    <3>1. target'[b] = target[b]
      BY <1>0, <2>2, <2>5
    <3> QED
      BY <1>0, <1>2, <2>2, <2>3, <3>1 DEF ReservedOrBuffered
  <2> QED
    BY <2>4, <2>5
<1>3. CASE running /\ ~ReserveTarget
  <2>1. target' = target
    BY <1>3, TargetStays
  <2>2. target[b] \in generatingTargets \/ target[b] <= lastTarget
    BY <1>0, <1>3, <2>1 DEF ReservedOrBuffered
  <2>3. target[b] \in Int
    BY <1>0 DEF NoTarget
  <2>4. CASE target[b] <= lastTarget
    BY <2>1, <2>3, <2>4, MarkRises
  <2>5. CASE target[b] \in generatingTargets /\ \E w \in Workers : ReleaseReservation(w) \/ CleanUp(w)
    <3>1. PICK w \in Workers : ReleaseReservation(w) \/ CleanUp(w)
      BY <2>5
    <3>2. /\ generatingTargets' = generatingTargets \ {target[w[1]]}
          /\ wpc[w] \in {"release", "cleanup"}
      BY <3>1 DEF ReleaseReservation, CleanUp, WorkerStep
    <3>3. target[w[1]] <= lastTarget
      BY <1>0, <1>3, <3>2 DEF ReservedInv
    <3> QED
      BY <2>1, <2>3, <2>5, <3>2, <3>3, MarkRises
  <2>6. CASE ~\E w \in Workers : ReleaseReservation(w) \/ CleanUp(w)
    <3>1. CollectionThread => generatingTargets' = generatingTargets
      BY <1>3 DEF CollectionThread, FetchBatch, DataloaderExhausted, PassManualPause,
         PassRefitPause, ReadVersion, ReadLastTarget, DecideLimits, WarnLimits, NoteWarning,
         ClearLimitEvent, WaitLimits, DropBatch, CheckRefit, WaitRefit, AcquirePermit,
         StartWorker, notThread, sharedVars, poolVars
    <3>2. \A w \in Workers : Worker(w) => generatingTargets' = generatingTargets
      BY <2>6 DEF Worker, FinishRollout, FailRollout, PushGroup, BufferFull, RetryPush,
         sharedVars, poolVars
    <3>3. generatingTargets' = generatingTargets
      BY <3>1, <3>2, ActorFrame, TrainerFrame DEF Next, vars, poolVars
    <3> QED
      BY <2>1, <2>2, <2>3, <3>3, MarkRises
  <2> QED
    BY <2>2, <2>4, <2>5, <2>6
<1> QED
  BY <1>1, <1>2, <1>3

-----------------------------------------------------------------------------
(* Groups used up                                                           *)

\* A group in the buffer was there before, or has just been pushed.
LEMMA EntriesStep ==
    ASSUME IInv, [Next]_vars, NEW i \in DOMAIN entries'
    PROVE  \/ \E j \in DOMAIN entries : entries'[i] = entries[j]
           \/ \E w \in Workers : PushGroup(w) /\ entries'[i] = Group(w)
<1>0. Types /\ StampInv
  BY DEF IInv
<1>1. ASSUME NEW w \in Workers, PushGroup(w)
      PROVE  (\E j \in DOMAIN entries : entries'[i] = entries[j]) \/ entries'[i] = Group(w)
  BY <1>0, <1>1, PushAdds
<1>2. CASE SampleStep
  BY <1>0, <1>2, SampleKeeps
<1>3. CASE entries' = entries
  BY <1>3
<1> QED
  BY <1>1, <1>2, <1>3, EntriesFrame

\* The groups of the buffer are named by workers.
LEMMA GroupsAreWorkers ==
    ASSUME Types
    PROVE  \A i \in DOMAIN entries : entries[i].trajectory \in Workers
<1>1. \A i \in DOMAIN entries : entries[i] \in Buffer!Entry
  BY DEF Types, Buffer!TypeOK
<1> QED
  BY <1>1 DEF Buffer!Entry

\* What is used up stays used up.
LEMMA UsedStays ==
    ASSUME IInv, [Next]_vars, NEW G \in SUBSET Workers, NEW t, Used(G, t)
    PROVE  Used(G, t)'
<1> SUFFICES ASSUME NEW w \in G
             PROVE  /\ target'[w[1]] = t /\ wpc'[w] \notin Unoffered
                    /\ \A i \in DOMAIN entries' : entries'[i].trajectory # w
  BY DEF Used
<1>1. /\ w \in Workers /\ target[w[1]] = t /\ wpc[w] \notin Unoffered
      /\ \A i \in DOMAIN entries : entries[i].trajectory # w
  BY DEF Used
<1>2. target'[w[1]] = t
  BY <1>1, TargetStays DEF Unoffered
<1>3. wpc'[w] \notin Unoffered
  BY <1>1, OfferedStays
<1>4. ASSUME NEW i \in DOMAIN entries'
      PROVE  entries'[i].trajectory # w
  <2>1. ASSUME NEW v \in Workers, PushGroup(v), entries'[i] = Group(v)
        PROVE  entries'[i].trajectory # w
    <3>1. wpc[v] = "push" /\ Group(v).trajectory = v
      BY <2>1 DEF PushGroup, WorkerStep, Group
    <3> QED
      BY <1>1, <2>1, <3>1 DEF Unoffered
  <2> QED
    BY <1>1, <2>1, EntriesStep
<1> QED
  BY <1>2, <1>3, <1>4

\* The groups a sample takes are those of a step, used up from then on.
LEMMA SampleUses ==
    ASSUME IInv, SampleStep
    PROVE  \E G \in SUBSET Workers : Used(G, weightVersion)'
<1>0. /\ Types /\ OnceInv /\ UsedInv
      /\ \A i \in DOMAIN entries : entries[i].trajectory \in Workers
      /\ entries \in Seq(Buffer!Entry)
  BY GroupsAreWorkers DEF IInv, Types, Buffer!TypeOK
<1>1. PICK S \in SUBSET Buffer!Intended(weightVersion, MaxAge) :
          /\ Cardinality(S) = NumPrompts
          /\ \E f \in Buffer!Enumerations(DOMAIN entries \ S) :
                entries' = [i \in DOMAIN f |-> entries[f[i]]]
  BY <1>0, SampleTakes
<1>2. /\ S \in SUBSET DOMAIN entries
      /\ \A i \in S : entries[i].target = weightVersion
  BY <1>1 DEF Buffer!Intended, Buffer!Valid
<1>3. IsFiniteSet(S)
  <2>1. IsFiniteSet(1..Len(entries)) /\ DOMAIN entries = 1..Len(entries)
    BY <1>0, FS_Interval
  <2> QED
    BY <1>2, <2>1, FS_Subset
<1> DEFINE G == {entries[i].trajectory : i \in S}
           name == [i \in S |-> entries[i].trajectory]
<1>4. Cardinality(G) = NumPrompts
  <2>1. name \in Surjection(S, G) /\ name \in Injection(S, G)
    BY <1>0, <1>2 DEF OnceInv, Surjection, Injection, IsInjective
  <2> HIDE DEF G, name
  <2> QED
    BY <1>1, <1>3, <2>1, FS_Surjection
<1>5. G \in SUBSET Workers
  BY <1>0, <1>2
<1>6. UNCHANGED <<target, wpc, weightVersion>>
  BY TrainerFrame DEF SampleStep, Trainer, trainerLocals
<1>7. ASSUME NEW w \in G
      PROVE  /\ target'[w[1]] = weightVersion /\ wpc'[w] \notin Unoffered
             /\ \A i \in DOMAIN entries' : entries'[i].trajectory # w
  <2>1. PICK k \in S : w = entries[k].trajectory
    OBVIOUS
  <2>2. target[w[1]] = weightVersion /\ wpc[w] \notin Unoffered
    BY <1>0, <1>2, <2>1 DEF UsedInv, OnceInv
  <2>3. ASSUME NEW i \in DOMAIN entries'
        PROVE  entries'[i].trajectory # w
    <3>1. PICK f \in Buffer!Enumerations(DOMAIN entries \ S) :
              entries' = [j \in DOMAIN f |-> entries[f[j]]]
      BY <1>1
    <3>2. f[i] \in DOMAIN entries \ S /\ entries'[i] = entries[f[i]]
      BY <1>0, <3>1, Picked
    <3> QED
      BY <1>0, <1>2, <2>1, <3>2 DEF OnceInv
  <2> QED
    BY <1>6, <2>2, <2>3
<1> HIDE DEF G
<1>8. PICK H \in SUBSET Workers : H = G
  BY <1>5
<1>9. Used(H, weightVersion)'
  BY <1>4, <1>6, <1>7, <1>8 DEF Used
<1> QED
  BY <1>9

\* Training starts with a sample, and the version rises when it ends.
LEMMA TrainedStepsGrow ==
    ASSUME IInv, [Next]_vars, ~SampleStep
    PROVE  TrainedSteps' \subseteq TrainedSteps
<1>0. weightVersion \in Nat /\ StartStep \in Nat
  BY ConfigAssumption DEF IInv, Types, DriverTypes
<1>1. CASE Refit
  BY <1>0, <1>1 DEF Refit, TrainerStep, Validate, TrainedSteps, Training
<1>2. CASE ~Refit
  <2>1. weightVersion' = weightVersion
    BY <1>2, ThreadFrame, WorkerFrame, ActorFrame, TrainerCalls
       DEF Next, vars, trainerVars, trainerLocals
  <2>2. Training' => Training
    <3>1. CASE CollectorActor
      <4>1. apc = "draining" => tpc = "prepare" \/ Finished
        BY DEF IInv, CallInv
      <4>2. ServePrepareForRefit => tpc = "prepare" \/ Finished
        <5>1. calls \in Seq(CallRecord)
          BY DEF IInv, Types, CollectorTypes
        <5> QED
          BY <5>1 DEF ServePrepareForRefit, Serve, IInv, CallInv, Is
      <4>3. ~Finished
        BY <3>1, ActorFrame
      <4> QED
        BY <3>1, <4>1, <4>2, <4>3
           DEF CollectorActor, ServeStartCollection, ServeSetWeightVersion,
               SignalLimitCleared, ServePause, ServeResume, PollPending,
               ServeResumeAfterRefit, ServeDataloaderState, Training,
               notCollector, trainerVars
    <3>2. CASE Trainer
      <4>1. CASE CheckpointStep \/ EndStep
        BY <4>1 DEF CheckpointStep, EndStep, NextStep, Training
      <4> QED
        BY <1>2, <3>2, <4>1
           DEF Trainer, InitialRefit, InitialRefitFails, PauseForValidation,
               ResumeAfterValidation, BufferFilled, SampleRaises, TrainPolicy, LoopRaises,
               TrainerStep, Training
    <3> QED
      BY <3>1, <3>2, ThreadFrame, WorkerFrame DEF Next, vars, trainerVars, Training
  <2> QED
    BY <1>0, <2>1, <2>2 DEF TrainedSteps
<1> QED
  BY <1>1, <1>2

LEMMA UsedNext ==
    ASSUME IInv, [Next]_vars
    PROVE  UsedInv'
<1>0. /\ Types /\ OnceInv /\ UsedInv
      /\ \A i \in DOMAIN entries : entries[i].trajectory \in Workers
  BY GroupsAreWorkers DEF IInv
<1>1. ASSUME NEW i \in DOMAIN entries'
      PROVE  entries'[i].target = target'[entries'[i].trajectory[1]]
  <2>1. ASSUME NEW j \in DOMAIN entries, entries'[i] = entries[j]
        PROVE  entries'[i].target = target'[entries'[i].trajectory[1]]
    BY <1>0, <2>1, TargetStays DEF UsedInv, OnceInv, Unoffered
  <2>2. ASSUME NEW w \in Workers, PushGroup(w), entries'[i] = Group(w)
        PROVE  entries'[i].target = target'[entries'[i].trajectory[1]]
    <3>1. target' = target
      BY <2>2 DEF PushGroup, stamps
    <3> QED
      BY <2>2, <3>1 DEF Group
  <2> QED
    BY <2>1, <2>2, EntriesStep
<1>2. ASSUME NEW t \in TrainedSteps'
      PROVE  \E G \in SUBSET Workers : Used(G, t)'
  <2>1. CASE t \in TrainedSteps
    <3>1. PICK G \in SUBSET Workers : Used(G, t)
      BY <1>0, <2>1 DEF UsedInv
    <3> QED
      BY <3>1, UsedStays
  <2>2. CASE t \notin TrainedSteps
    <3>1. SampleStep
      BY <1>2, <2>2, TrainedStepsGrow
    <3>2. /\ tpc = "sample" /\ weightVersion' = weightVersion
          /\ weightVersion \in Nat /\ StartStep \in Nat
      BY <3>1, ConfigAssumption
         DEF SampleStep, TrainerStep, trainerLocals, IInv, Types, DriverTypes
    <3>3. t = weightVersion
      BY <1>2, <2>2, <3>2 DEF TrainedSteps, Training
    <3>4. PICK G \in SUBSET Workers : Used(G, weightVersion)'
      BY <3>1, SampleUses
    <3>5. t = weightVersion'
      BY <3>2, <3>3
    <3> QED
      BY <3>4, <3>5 DEF Used
  <2> QED
    BY <2>1, <2>2
<1> QED
  BY <1>1, <1>2 DEF UsedInv

-----------------------------------------------------------------------------
(* The invariant                                                            *)

LEMMA InitIInv ==
    ASSUME Init
    PROVE  IInv
<1> USE ConfigAssumption DEF Init
<1>1. Types
  <2>1. Buffer!TypeOK
    BY DEF Buffer!Init, Buffer!TypeOK
  <2>2. CollectorTypes
    <3>1. MaxInflight \in Nat
      BY DEF MaxInflight
    <3> DEFINE c == [op |-> "start_collection"]
               d == [op |-> "set_weight_version", version |-> StartStep]
    <3>2. c \in CallRecord /\ d \in CallRecord
      BY CallTypes
    <3> HIDE DEF c, d
    <3>3. <<c, d>> \in Seq(CallRecord)
      BY <3>2
    <3> QED
      BY <3>1, <3>3 DEF CollectorTypes, c, d
  <2>3. ThreadTypes
    BY DEF ThreadTypes, Prompts, NoTarget
  <2>4. WorkerTypes
    BY DEF WorkerTypes, WorkerStates
  <2>5. DriverTypes
    BY DEF DriverTypes
  <2> QED
    BY <2>1, <2>2, <2>3, <2>4, <2>5 DEF Types
<1>2. PermitAccounting
  <2>1. Holding = {} /\ MaxInflight \in Nat
    BY DEF Holding, MaxInflight
  <2> QED
    BY <2>1, FS_EmptySet DEF PermitAccounting
<1>3. SpawnInv
  BY DEF SpawnInv, BeforeReservation, AfterReservation
<1>4. VersionInv
  BY DEF VersionInv, Announced
<1>5. CallInv
  BY DEF CallInv, Is
<1>6. StampInv
  BY DEF StampInv, AfterReservation, Buffer!Init
<1>7. OnceInv
  BY DEF OnceInv, Buffer!Init
<1>8. ReservedInv /\ ReservedOrBuffered
  BY DEF ReservedInv, ReservedOrBuffered
<1>9. UsedInv
  BY DEF UsedInv, TrainedSteps, Training, Buffer!Init
<1> QED
  BY <1>1, <1>2, <1>3, <1>4, <1>5, <1>6, <1>7, <1>8, <1>9 DEF IInv

LEMMA NextIInv ==
    ASSUME IInv, [Next]_vars
    PROVE  IInv'
<1>1. Types'
  <2>0. Types /\ SpawnInv /\ VersionInv /\ StampInv
    BY DEF IInv
  <2>1. CASE UNCHANGED vars
    BY <2>0, <2>1 DEF vars, bufferVars, eventVars, poolVars, actorVars,
       threadVars, locals, workerVars, stamps, trainerVars, trainerLocals,
       Types, Buffer!TypeOK, CollectorTypes, ThreadTypes, WorkerTypes, DriverTypes
  <2> QED
    BY <2>0, <2>1, ThreadTypesNext, WorkerTypesNext, ActorTypesNext,
       TrainerTypesNext DEF Next
<1> QED
  BY <1>1, SpawnNext, PermitsNext, VersionNext, CallNext, StampNext, OnceNext, ReservedNext,
     ReservedOrBufferedNext, UsedNext DEF IInv

THEOREM Invariance == Spec => []IInv
  BY InitIInv, NextIInv, PTL DEF Spec

\* Every variable stays in its type, and the semaphore never has more permits
\* than it was made with: no exit of a worker, by whatever path, releases twice.
THEOREM TypeCorrect == Spec => []TypeOK
<1>1. IInv => TypeOK
  BY HoldingFinite DEF IInv, Types, TypeOK, PermitAccounting, CollectorTypes,
     MaxInflight
<1> QED
  BY <1>1, Invariance, PTL

\* A permit is free or held by one worker, from its acquire in the collection
\* thread to the finally clause of the worker.
THEOREM PermitsAccounted == Spec => []PermitAccounting
<1>1. IInv => PermitAccounting
  BY DEF IInv
<1> QED
  BY <1>1, Invariance, PTL

\* No group that waits for the step the driver is at is outside the age window:
\* sample never drops a group it should train on.
THEOREM IntendedIsValid == Spec => []WindowAdmitsIntended
<1>1. ASSUME IInv
      PROVE  WindowAdmitsIntended
  <2> SUFFICES ASSUME NEW i \in DOMAIN entries, entries[i].target = weightVersion
               PROVE  i \in Buffer!Valid(weightVersion, MaxAge)
    BY DEF WindowAdmitsIntended
  <2>1. /\ entries[i].version \in StartStep..weightVersion
        /\ weightVersion \in StartStep..(entries[i].version + MaxAge)
    BY <1>1 DEF IInv, StampInv, InAge
  <2> QED
    BY <2>1, ConfigAssumption DEF Buffer!Valid, Buffer!MinValidVersion
<1> QED
  BY <1>1, Invariance, PTL

\* While collection runs and no rollout has failed, no target a batch was
\* reserved for is left to be generated again: it is reserved, or the high-water
\* mark covers it (_get_next_target_for_generation and the two releases of a
\* reservation in _run_prompt_group_worker).
THEOREM NoTargetIsForgotten == Spec => []ReservedOrBuffered
<1>1. IInv => ReservedOrBuffered
  BY DEF IInv
<1> QED
  BY <1>1, Invariance, PTL

\* With one batch for each target, the groups of a step trained are all gone.
LEMMA NoneLeft ==
    ASSUME IInv, TargetsDistinct, tpc = "sample", NEW i \in DOMAIN entries
    PROVE  entries[i].target \in weightVersion..(weightVersion + MaxAge)
<1> DEFINE w == entries[i].trajectory
           t == entries[i].target
<1>0. /\ w \in Workers /\ t = target[w[1]]
      /\ entries[i].version \in StartStep..weightVersion
      /\ t \in StartStep..(entries[i].version + MaxAge)
      /\ StartStep \in Nat /\ weightVersion \in Nat /\ MaxAge \in Nat
  BY GroupsAreWorkers, ConfigAssumption
     DEF IInv, UsedInv, StampInv, InAge, Types, DriverTypes
<1> HIDE DEF t
<1>1. ASSUME t < weightVersion
      PROVE  FALSE
  <2>1. t \in TrainedSteps
    BY <1>0, <1>1 DEF TrainedSteps, Training
  <2>2. PICK G \in SUBSET Workers : Used(G, t)
    BY <2>1 DEF IInv, UsedInv
  <2> DEFINE row == {<<w[1], p>> : p \in Prompts}
  <2>3. G \subseteq row \ {w}
    <3> SUFFICES ASSUME NEW v \in G
                 PROVE  v \in row \ {w}
      OBVIOUS
    <3>1. v \in Workers /\ target[v[1]] = t /\ v # w
      BY <2>2 DEF Used
    <3>2. v[1] = w[1]
      <4>1. v[1] \in Batches /\ w[1] \in Batches /\ target[v[1]] # NoTarget
        BY <1>0, <3>1, WorkerNames DEF NoTarget
      <4> QED
        BY <1>0, <3>1, <4>1 DEF TargetsDistinct
    <3> QED
      BY <3>1, <3>2, WorkerNames
  <2>4. IsFiniteSet(row) /\ Cardinality(row) <= NumPrompts /\ w \in row
    <3> DEFINE f == [p \in Prompts |-> <<w[1], p>>]
    <3>1. f \in Surjection(Prompts, row)
      BY DEF Surjection
    <3>2. IsFiniteSet(Prompts) /\ Cardinality(Prompts) = NumPrompts
      BY ConfigAssumption, FS_Interval DEF Prompts
    <3>3. w \in row
      BY <1>0, WorkerNames
    <3> HIDE DEF f, row
    <3> QED
      BY <3>1, <3>2, <3>3, FS_Surjection
  <2> HIDE DEF row
  <2>5. IsFiniteSet(row \ {w}) /\ Cardinality(row \ {w}) = Cardinality(row) - 1
    BY <2>4, FS_RemoveElement
  <2>6. Cardinality(G) <= Cardinality(row) - 1
    BY <2>3, <2>5, FS_Subset
  <2>7. Cardinality(G) = NumPrompts /\ Cardinality(row) \in Nat /\ NumPrompts \in Nat
    BY <2>2, <2>4, ConfigAssumption, FS_CardinalityType DEF Used
  <2> QED
    BY <2>4, <2>6, <2>7
<1> QED
  BY <1>0, <1>1 DEF t

\* A full buffer holds the groups of the step the driver is at, unless two
\* batches were reserved for one target: then waiting workers wait for the driver
\* and not the driver for them (optimal_buffer_size of async_grpo_train).
THEOREM FullBufferIsEnough == Spec => []FullBufferHasStep
<1>1. ASSUME IInv, tpc = "sample", TargetsDistinct, Len(entries) >= BufferSize
      PROVE  Cardinality(Buffer!Intended(weightVersion, MaxAge)) >= NumPrompts
  <2> DEFINE Now == {i \in DOMAIN entries : entries[i].target = weightVersion}
             Later == DOMAIN entries \ Now
             Ahead == (weightVersion + 1)..(weightVersion + MaxAge)
  <2>0. /\ Types /\ OnceInv /\ UsedInv /\ entries \in Seq(Buffer!Entry)
        /\ weightVersion \in Nat /\ MaxAge \in Nat \ {0} /\ NumPrompts \in Nat \ {0}
    BY <1>1, ConfigAssumption DEF IInv, Types, Buffer!TypeOK, DriverTypes
  <2>1. Now = Buffer!Intended(weightVersion, MaxAge)
    <3>1. \A i \in Now : i \in Buffer!Valid(weightVersion, MaxAge)
      <4> SUFFICES ASSUME NEW i \in Now
                   PROVE  i \in Buffer!Valid(weightVersion, MaxAge)
        OBVIOUS
      <4>1. /\ entries[i].version \in StartStep..weightVersion
            /\ weightVersion \in StartStep..(entries[i].version + MaxAge)
        BY <1>1 DEF IInv, StampInv, InAge
      <4> QED
        BY <4>1, ConfigAssumption DEF Buffer!Valid, Buffer!MinValidVersion
    <3> QED
      BY <3>1 DEF Buffer!Intended, Buffer!Valid
  <2>2. /\ IsFiniteSet(DOMAIN entries) /\ Cardinality(DOMAIN entries) = Len(entries)
        /\ Len(entries) \in Nat
    <3>1. DOMAIN entries = 1..Len(entries) /\ Len(entries) \in Nat
      BY <2>0, SMTT(40)
    <3>2. PICK n \in Nat : n = Len(entries)
      BY <3>1
    <3>3. IsFiniteSet(1..n) /\ Cardinality(1..n) = n
      BY FS_Interval
    <3> QED
      BY <3>1, <3>2, <3>3
  <2>3. /\ IsFiniteSet(Now) /\ IsFiniteSet(Later)
        /\ Cardinality(Now) \in Nat /\ Cardinality(Later) \in Nat
        /\ Len(entries) = Cardinality(Now) + Cardinality(Later)
    <3>1. IsFiniteSet(Now) /\ IsFiniteSet(Later)
      BY <2>2, FS_Subset
    <3>2. Now \cup Later = DOMAIN entries /\ Now \cap Later = {}
      OBVIOUS
    <3> HIDE DEF Now, Later
    <3>3. Cardinality(Now \cup Later) = Cardinality(Now) + Cardinality(Later)
      <4>1. Cardinality(Now \cap Later) = 0
        BY <3>2, FS_EmptySet
      <4>2. Cardinality(Now) \in Nat /\ Cardinality(Later) \in Nat
        BY <3>1, FS_CardinalityType
      <4>3. Cardinality(Now \cup Later)
              = Cardinality(Now) + Cardinality(Later) - Cardinality(Now \cap Later)
        BY <3>1, FS_Union
      <4> QED
        BY <4>1, <4>2, <4>3
    <3> QED
      BY <2>2, <3>1, <3>2, <3>3, FS_CardinalityType
  <2>4. Cardinality(Later) <= MaxAge * NumPrompts
    <3> DEFINE Slots == Ahead \X Prompts
               slot == [i \in Later |-> <<entries[i].target, entries[i].trajectory[2]>>]
    <3>1. \A i \in Later : slot[i] \in Slots
      <4> SUFFICES ASSUME NEW i \in Later
                   PROVE  entries[i].target \in Ahead /\ entries[i].trajectory[2] \in Prompts
        OBVIOUS
      <4>1. entries[i].target \in weightVersion..(weightVersion + MaxAge)
        BY <1>1, NoneLeft
      <4>2. entries[i].target # weightVersion
        OBVIOUS
      <4>3. entries[i].trajectory[2] \in Prompts
        BY <2>0, GroupsAreWorkers, WorkerNames
      <4> QED
        BY <2>0, <4>1, <4>2, <4>3
    <3>2. \A i, j \in Later : slot[i] = slot[j] => i = j
      <4> SUFFICES ASSUME NEW i \in Later, NEW j \in Later,
                          entries[i].target = entries[j].target,
                          entries[i].trajectory[2] = entries[j].trajectory[2]
                   PROVE  i = j
        OBVIOUS
      <4> DEFINE v == entries[i].trajectory
                 w == entries[j].trajectory
      <4>1. v \in Workers /\ w \in Workers /\ target[v[1]] = target[w[1]]
        BY <2>0, GroupsAreWorkers DEF UsedInv
      <4>2. target[v[1]] # NoTarget
        <5>1. target[v[1]] \in Ahead
          BY <2>0, <3>1 DEF UsedInv
        <5> QED
          BY <2>0, <5>1 DEF NoTarget
      <4>3. v[1] = w[1]
        BY <1>1, <4>1, <4>2, WorkerNames DEF TargetsDistinct
      <4>4. v = w
        BY <4>1, <4>3, WorkerNames
      <4> QED
        BY <2>0, <4>4 DEF OnceInv
    <3>3. slot \in Injection(Later, Slots)
      BY <3>1, <3>2 DEF Injection, IsInjective
    <3>4. IsFiniteSet(Slots) /\ Cardinality(Slots) = MaxAge * NumPrompts
      <4>1. /\ IsFiniteSet(Ahead) /\ Cardinality(Ahead) = MaxAge
            /\ IsFiniteSet(Prompts) /\ Cardinality(Prompts) = NumPrompts
        <5>1. IsFiniteSet(Ahead) /\ Cardinality(Ahead) = MaxAge
          BY <2>0, FS_Interval
        <5>2. IsFiniteSet(Prompts) /\ Cardinality(Prompts) = NumPrompts
          BY <2>0, FS_Interval DEF Prompts
        <5> QED
          BY <5>1, <5>2
      <4> QED
        BY <4>1, FS_Product
    <3> HIDE DEF slot, Slots, Later
    <3> QED
      BY <3>3, <3>4, FS_Injection
  <2> HIDE DEF Now, Later
  <2> DEFINE room == MaxAge * NumPrompts
  <2>5. room \in Nat /\ BufferSize = room + room /\ room >= NumPrompts
    <3>1. room = NumPrompts * (MaxAge - 1) + NumPrompts
      BY <2>0
    <3>2. NumPrompts * (MaxAge - 1) \in Nat
      BY <2>0
    <3> QED
      BY <2>0, <3>1, <3>2 DEF BufferSize
  <2> HIDE DEF room
  <2>6. Cardinality(Now) >= NumPrompts
    <3>1. Cardinality(Later) <= room
      BY <2>4 DEF room
    <3> QED
      BY <1>1, <2>0, <2>2, <2>3, <2>5, <3>1
  <2> QED
    BY <2>1, <2>6
<1>2. IInv => FullBufferHasStep
  BY <1>1 DEF FullBufferHasStep
<1> QED
  BY <1>2, Invariance, PTL

\* The collector's version and the high-water mark of the buffer never go back.
THEOREM VersionsAreOrdered == Spec => VersionsNeverGoBack
<1>1. ASSUME IInv, [Next]_vars
      PROVE  currentVersion' >= currentVersion /\ lastTarget' >= lastTarget
  <2>0. /\ Types /\ VersionInv /\ StampInv /\ currentVersion \in Nat
        /\ lastTarget \in Nat \cup {-1} /\ calls \in Seq(CallRecord)
    BY <1>1 DEF IInv, Types, CollectorTypes, Buffer!TypeOK
  <2>1. currentVersion' >= currentVersion
    <3>1. CASE ServeSetWeightVersion
      <4>1. /\ calls # <<>> /\ calls[1].op = "set_weight_version"
            /\ currentVersion' = calls[1].version
        BY <3>1 DEF ServeSetWeightVersion, Serve
      <4>2. 1 \in DOMAIN calls /\ calls[1] \in CallRecord
        BY <2>0, <4>1
      <4>3. calls[1].version \in Nat /\ currentVersion <= calls[1].version
        BY <2>0, <4>1, <4>2 DEF VersionInv, Announced, CallRecord
      <4> QED
        BY <2>0, <4>1, <4>3
    <3>2. CASE CollectorActor /\ ~ServeSetWeightVersion
      BY <2>0, <3>2
         DEF CollectorActor, ServeStartCollection, SignalLimitCleared,
             ServePause, ServeResume, ServePrepareForRefit, PollPending,
             ServeResumeAfterRefit, ServeDataloaderState, sharedVars
    <3> QED
      BY <1>1, <2>0, <3>1, <3>2, ThreadFrame, WorkerFrame, TrainerFrame DEF Next, vars
  <2>2. lastTarget' >= lastTarget
    <3>1. ASSUME NEW w \in Workers, PushGroup(w)
          PROVE  lastTarget' >= lastTarget
      <4>1. Group(w).target \in Int
        BY <2>0, <3>1, PushAdds DEF Buffer!Entry
      <4> QED
        BY <2>0, <3>1, <4>1 DEF PushGroup, Buffer!Push
    <3>2. ASSUME NEW w \in Workers, Worker(w), ~PushGroup(w)
          PROVE  lastTarget' >= lastTarget
      BY <2>0, <3>2 DEF Worker, FinishRollout, FailRollout, BufferFull, RetryPush,
         ReleaseReservation, CleanUp, notCollector, bufferVars
    <3> QED
      BY <1>1, <2>0, <3>1, <3>2, ThreadFrame, ActorFrame, TrainerFrame
         DEF Next, vars, bufferVars
  <2> QED
    BY <2>1, <2>2
<1>2. IInv /\ [Next]_vars => [currentVersion' >= currentVersion /\ lastTarget' >= lastTarget]_vars
  BY <1>1
<1> QED
  BY <1>2, Invariance, PTL DEF Spec, VersionsNeverGoBack

-----------------------------------------------------------------------------
(* Collector, buffer and driver implement the contract                      *)

LEMMA InitRefines ==
    ASSUME Init
    PROVE  Contract!Init
  BY DEF Init, Contract!Init, Fresh, Pool, Taken, Training, Phase, Finished,
         Buffer!Init

\* A step that leaves what the contract speaks of alone.
Stutters == UNCHANGED <<weightVersion, Fresh, Pool, Taken, Phase>>

LEMMA ThreadStutters ==
    ASSUME IInv, CollectionThread
    PROVE  Stutters
<1>1. UNCHANGED <<entries, sampled, tpc, weightVersion>>
  BY ThreadFrame
<1>2. Fresh' = Fresh
  <2>0. /\ SpawnInv
        /\ wpc \in [Workers -> WorkerStates]
    BY DEF IInv, Types, WorkerTypes
  <2>1. CASE AcquirePermit
    <3>1. wpc[<<batch, prompt>>] = "none"
      BY <2>0, <2>1, WorkerNames, ConfigAssumption
         DEF AcquirePermit, CollectorStep, SpawnInv, AfterReservation, IInv,
             Types, ThreadTypes, Prompts
    <3> QED
      BY <2>0, <2>1, <3>1 DEF AcquirePermit, Fresh
  <2>2. CASE StartWorker
    <3>1. wpc[<<batch, prompt>>] = "created"
      BY <2>0, <2>2 DEF StartWorker, CollectorStep, SpawnInv
    <3> QED
      BY <2>0, <2>2, <3>1 DEF StartWorker, Fresh
  <2> QED
    BY <2>1, <2>2
       DEF CollectionThread, FetchBatch, DataloaderExhausted, PassManualPause,
           PassRefitPause, ReadVersion, ReadLastTarget, DecideLimits,
           WarnLimits, NoteWarning, ClearLimitEvent, WaitLimits, ReserveTarget, DropBatch,
           CheckRefit, WaitRefit, notThread, workerVars, Fresh
<1> QED
  BY <1>1, <1>2 DEF Stutters, Pool, Taken, Training, Phase, Finished

LEMMA WorkerRefines ==
    ASSUME IInv, NEW w \in Workers, Worker(w)
    PROVE  Contract!Next \/ Stutters
<1>0. /\ Types /\ StampInv
      /\ wpc \in [Workers -> WorkerStates]
  BY DEF IInv, Types, WorkerTypes
<1>1. UNCHANGED <<tpc, weightVersion>> /\ ~Finished
  BY WorkerFrame
<1>2. sampled' = sampled
  BY DEF Worker, FinishRollout, FailRollout, PushGroup, BufferFull, RetryPush,
         ReleaseReservation, CleanUp, notCollector, bufferVars, Buffer!Push
<1>3. UNCHANGED <<weightVersion, Taken, Phase>> /\ Phase # "over"
  BY <1>1, <1>2 DEF Taken, Training, Phase, Finished
<1>4. CASE PushGroup(w)
  <2>1. /\ Group(w) \in Buffer!Entry /\ InAge(wver[w], target[w[1]])
        /\ wpc[w] = "push" /\ Len(entries) \in Nat
        /\ DOMAIN entries = 1..Len(entries)
        /\ DOMAIN entries' = 1..(Len(entries) + 1)
        /\ \A i \in DOMAIN entries : entries'[i] = entries[i]
        /\ entries'[Len(entries) + 1] = Group(w)
    BY <1>0, <1>4, PushAdds
  <2>2. Pool' = Pool \cup {Group(w)}
    BY <2>1 DEF Pool
  <2>3. w \in Fresh /\ Fresh' = Fresh \ {w}
    BY <1>0, <1>4, <2>1 DEF Fresh, PushGroup, WorkerStep
  <2>4. Contract!Offer(w, wver[w], target[w[1]])
    BY <1>3, <2>1, <2>2, <2>3 DEF Contract!Offer, Group, InAge
  <2> QED
    BY <2>1, <2>4 DEF Contract!Next, InAge
<1>5. ASSUME ~PushGroup(w)
      PROVE  Pool' = Pool
  BY <1>5 DEF Worker, FinishRollout, FailRollout, BufferFull, RetryPush,
     ReleaseReservation, CleanUp, notCollector, bufferVars, Pool
<1>6. CASE wpc[w] \in {"rollout", "retry"} /\ wpc'[w] = "cleanup" /\ ~PushGroup(w)
  <2>1. w \in Fresh /\ Fresh' = Fresh \ {w}
    BY <1>0, <1>6, WorkerMoves DEF Fresh
  <2>2. Contract!Lose(w)
    BY <1>3, <1>5, <1>6, <2>1 DEF Contract!Lose
  <2> QED
    BY <2>2 DEF Contract!Next
<1>7. CASE ~PushGroup(w) /\ ~(wpc[w] \in {"rollout", "retry"} /\ wpc'[w] = "cleanup")
  <2>1. \/ wpc[w] \in {"rollout", "push", "retry"} /\ wpc'[w] \in {"push", "retry"}
        \/ wpc[w] \in {"release", "cleanup"} /\ wpc'[w] \in {"cleanup", "exited"}
    BY <1>0, <1>7 DEF Worker, FinishRollout, FailRollout, BufferFull, RetryPush,
       ReleaseReservation, CleanUp, WorkerStep
  <2>2. Fresh' = Fresh
    BY <1>0, <2>1, WorkerMoves DEF Fresh
  <2> QED
    BY <1>3, <1>5, <1>7, <2>2 DEF Stutters
<1> QED
  BY <1>4, <1>6, <1>7

LEMMA ActorStutters ==
    ASSUME IInv, CollectorActor
    PROVE  Stutters
<1>1. UNCHANGED <<entries, sampled, weightVersion, wpc>> /\ ~Finished
  BY ActorFrame
<1>2. \/ tpc' = tpc
      \/ tpc = "prepare" /\ tpc' = "refit"
      \/ tpc = "saving" /\ tpc' = "end_step"
  <2>0. CallInv /\ calls \in Seq(CallRecord)
    BY DEF IInv, Types, CollectorTypes
  <2>1. CASE ServePrepareForRefit \/ ServeDataloaderState
    <3>1. calls # <<>> /\ calls[1].op \in {"prepare_for_refit", "get_dataloader_state"}
      BY <2>1 DEF ServePrepareForRefit, ServeDataloaderState, Serve
    <3>2. 1 \in DOMAIN calls
      BY <2>0, <3>1
    <3> QED
      BY <1>1, <2>0, <2>1, <3>2
         DEF ServePrepareForRefit, ServeDataloaderState, Serve, CallInv, Is
  <2>2. CASE PollPending
    BY <1>1, <2>0, <2>2 DEF PollPending, CallInv
  <2> QED
    BY <2>1, <2>2 DEF CollectorActor, ServeStartCollection,
       ServeSetWeightVersion, SignalLimitCleared, ServePause, ServeResume,
       ServeResumeAfterRefit, notCollector, trainerVars
<1> QED
  BY <1>1, <1>2 DEF Stutters, Fresh, Pool, Taken, Training, Phase, Finished

\* The groups a sample takes are as many as the step needs.
LEMMA SampleRefines ==
    ASSUME IInv, SampleStep
    PROVE  Contract!Next
<1>0. /\ Types /\ OnceInv /\ entries \in Seq(Buffer!Entry)
      /\ NumPrompts \in Nat
  BY ConfigAssumption DEF IInv, Types, Buffer!TypeOK
<1>1. PICK S \in SUBSET Buffer!Intended(weightVersion, MaxAge) :
          /\ Cardinality(S) = NumPrompts
          /\ \E f \in Buffer!Enumerations(S) :
                sampled' = [i \in DOMAIN f |-> entries[f[i]]]
          /\ \E f \in Buffer!Enumerations(DOMAIN entries \ S) :
                entries' = [i \in DOMAIN f |-> entries[f[i]]]
  BY <1>0, SampleTakes
<1>2. S \in SUBSET DOMAIN entries /\ \A k \in S : entries[k].target = weightVersion
  BY DEF Buffer!Intended, Buffer!Valid
<1> DEFINE R == {entries[k] : k \in S}
<1>3. {sampled'[i] : i \in DOMAIN sampled'} = R
  <2>1. PICK f \in Buffer!Enumerations(S) : sampled' = [i \in DOMAIN f |-> entries[f[i]]]
    BY <1>1
  <2> QED
    BY <1>0, <1>2, <2>1, Picked
<1>4. {entries'[i] : i \in DOMAIN entries'} = {entries[k] : k \in DOMAIN entries \ S}
  <2>1. PICK f \in Buffer!Enumerations(DOMAIN entries \ S) :
            entries' = [i \in DOMAIN f |-> entries[f[i]]]
    BY <1>1
  <2> QED
    BY <1>0, <2>1, Picked, SMTT(40)
<1>5. \A i, j \in DOMAIN entries : entries[i] = entries[j] => i = j
  BY <1>0 DEF OnceInv
<1>6. Pool' = Pool \ R
  BY <1>2, <1>4, <1>5, SMTT(40) DEF Pool
<1>7. R \subseteq {r \in Pool : r.target = weightVersion}
  BY <1>2 DEF Pool
<1>8. Contract!Cardinality(R) = NumPrompts
  <2>1. IsFiniteSet(S)
    <3>1. IsFiniteSet(1..Len(entries)) /\ DOMAIN entries = 1..Len(entries)
      BY <1>0, FS_Interval
    <3> QED
      BY <1>2, <3>1, FS_Subset
  <2> DEFINE g == [k \in S |-> entries[k]]
  <2>2. g \in Surjection(S, R) /\ g \in Injection(S, R)
    BY <1>2, <1>5 DEF Surjection, Injection, IsInjective
  <2>3. Cardinality(R) = Cardinality(S)
    BY <2>1, <2>2, FS_Surjection
  <2> QED
    BY <1>1, <2>3 DEF Contract!Cardinality, Cardinality
<1>9. /\ Phase = "collect" /\ Phase' = "train" /\ Taken' = R
      /\ UNCHANGED <<weightVersion, Fresh>>
  BY <1>3, TrainerFrame DEF SampleStep, Trainer, TrainerStep, Phase, Training,
     Finished, Taken, Fresh, trainerLocals
<1>10. Contract!Train(R)
  BY <1>6, <1>7, <1>8, <1>9 DEF Contract!Train
<1> QED
  BY <1>7, <1>10 DEF Contract!Next

LEMMA TrainerRefines ==
    ASSUME IInv, Trainer
    PROVE  Contract!Next \/ Stutters
<1>1. CASE SampleStep
  BY <1>1, SampleRefines
<1>2. ASSUME ~SampleStep
      PROVE  UNCHANGED <<entries, sampled, Fresh, Pool>>
  BY <1>2, TrainerFrame DEF Trainer, InitialRefit, InitialRefitFails,
     PauseForValidation, ResumeAfterValidation, BufferFilled, SampleRaises,
     TrainPolicy, Refit, CheckpointStep, EndStep, LoopRaises, bufferVars, Fresh,
     Pool
<1>3. CASE Refit
  <2>1. /\ tpc = "refit" /\ tpc' \in {"validate", "checkpoint"}
        /\ weightVersion' = weightVersion + 1 /\ ~SampleStep
    BY <1>3 DEF Refit, TrainerStep, Validate, SampleStep
  <2>2. Contract!Publish
    BY <1>2, <2>1 DEF Contract!Publish, Phase, Training, Taken, Finished
  <2> QED
    BY <2>2 DEF Contract!Next
<1>4. ASSUME ~SampleStep, ~Refit, Finished'
      PROVE  Contract!Next
  <2>1. Phase' = "over" /\ Taken' = {} /\ weightVersion' = weightVersion
    BY <1>4, TrainerCalls DEF Phase, Taken, Training, Finished
  <2> QED
    BY <1>2, <1>4, <2>1 DEF Contract!Stop, Contract!Next
<1>5. ASSUME ~SampleStep, ~Refit, ~Finished'
      PROVE  Stutters
  <2>1. (Training' <=> Training) /\ ~Finished
    <3>1. CASE CheckpointStep
      <4>1. tpc = "checkpoint" /\ tpc' \in {"saving", "done", "sample"}
        BY <3>1 DEF CheckpointStep, NextStep
      <4> QED
        BY <1>5, <4>1 DEF Training, Finished
    <3>2. CASE EndStep
      <4>1. tpc = "end_step" /\ tpc' \in {"done", "sample"}
        BY <3>2 DEF EndStep, NextStep
      <4> QED
        BY <1>5, <4>1 DEF Training, Finished
    <3> QED
      BY <1>5, <3>1, <3>2
         DEF Trainer, InitialRefit, InitialRefitFails, PauseForValidation,
             ResumeAfterValidation, BufferFilled, SampleRaises, TrainPolicy,
             LoopRaises, TrainerStep, Training, Finished
  <2>2. weightVersion' = weightVersion
    BY <1>5, TrainerCalls
  <2> QED
    BY <1>2, <1>5, <2>1, <2>2 DEF Stutters, Phase, Taken
<1> QED
  BY <1>1, <1>3, <1>4, <1>5

LEMMA StepRefines ==
    ASSUME IInv, [Next]_vars
    PROVE  [Contract!Next]_(Contract!vars)
<1>1. CASE UNCHANGED vars
  BY <1>1 DEF vars, bufferVars, trainerVars, trainerLocals, workerVars,
     Contract!vars, Fresh, Pool, Taken, Training, Phase, Finished
<1>2. CASE Next
  BY <1>2, ThreadStutters, WorkerRefines, ActorStutters, TrainerRefines
     DEF Next, Stutters, Contract!vars
<1> QED
  BY <1>1, <1>2

\* Collector, buffer and driver together implement BoundedStaleness: no group is
\* trained on twice or outside its age, whatever threads, pauses and refits do.
THEOREM ImplementsContract == Spec => KeepsStalenessBounded
  BY InitRefines, StepRefines, Invariance, PTL
     DEF Spec, KeepsStalenessBounded, Contract!Spec

-----------------------------------------------------------------------------
(* What follows from the contract alone                                     *)

\* Why the age is bounded: a group keeps the version it was made with and a
\* target at most MaxAge further on, and is taken for that target only.
AgeInv ==
    /\ \A r \in Pool \cup Taken :
          r.version <= weightVersion /\ r.target <= r.version + MaxAge
    /\ \A r \in Taken : r.target = weightVersion
    /\ Phase # "train" => Taken = {}

ContractInv == Contract!TypeOK /\ AgeInv /\ Contract!UsedOnce

LEMMA InitContract ==
    ASSUME Contract!Init
    PROVE  ContractInv
  BY ConfigAssumption
     DEF Contract!Init, ContractInv, Contract!TypeOK, AgeInv, Contract!UsedOnce

LEMMA NextContract ==
    ASSUME ContractInv, [Contract!Next]_(Contract!vars)
    PROVE  ContractInv'
<1> USE ConfigAssumption
    DEF ContractInv, Contract!TypeOK, AgeInv, Contract!UsedOnce, Contract!Record
<1> HIDE DEF Fresh, Pool, Taken, Phase
<1>1. ASSUME NEW g \in Workers, NEW made \in StartStep..weightVersion,
             NEW use \in StartStep..(made + MaxAge), Contract!Offer(g, made, use)
      PROVE  ContractInv'
  <2> DEFINE r == [trajectory |-> g, version |-> made, target |-> use]
  <2>1. r \in Contract!Record
    OBVIOUS
  <2> QED
    BY <1>1, <2>1 DEF Contract!Offer
<1>2. ASSUME NEW g \in Workers, Contract!Lose(g)
      PROVE  ContractInv'
  BY <1>2 DEF Contract!Lose
<1>3. ASSUME NEW S \in SUBSET Pool, Contract!Train(S)
      PROVE  ContractInv'
  BY <1>3 DEF Contract!Train
<1>4. CASE Contract!Publish
  BY <1>4 DEF Contract!Publish
<1>5. CASE Contract!Stop
  BY <1>5 DEF Contract!Stop
<1>6. CASE UNCHANGED Contract!vars
  BY <1>6 DEF Contract!vars
<1> QED
  BY <1>1, <1>2, <1>3, <1>4, <1>5, <1>6 DEF Contract!Next

\* The contract bounds the age of what a step trains on: at most MaxAge versions
\* old, never from the future, and nothing is used twice (the replay buffer's
\* window and the targets given out by the collector).
THEOREM StalenessIsBounded ==
    Contract!Spec => [](Contract!StalenessBounded /\ Contract!UsedOnce)
<1>1. ContractInv => Contract!StalenessBounded /\ Contract!UsedOnce
  <2> HIDE DEF Fresh, Pool, Taken, Phase
  <2> QED
    BY ConfigAssumption
       DEF ContractInv, Contract!TypeOK, AgeInv, Contract!Record,
           Contract!StalenessBounded, Contract!UsedOnce
<1>2. Contract!Spec => []ContractInv
  BY InitContract, NextContract, PTL DEF Contract!Spec
<1> QED
  BY <1>1, <1>2, PTL

\* What the guide on asynchronous GRPO promises: a training step never uses a
\* group older than MaxAge versions or a group twice. No code tests the first
\* when the step runs.
THEOREM TrainsInAgeOnce == Spec => [](Contract!StalenessBounded /\ Contract!UsedOnce)
  BY ImplementsContract, StalenessIsBounded DEF KeepsStalenessBounded

=============================================================================
