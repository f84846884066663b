--------------------------- MODULE SyncGrpoProofs ---------------------------
(***************************************************************************)
(* What holds of synchronous GRPO for every configuration, every size of    *)
(* batches, loaders, epochs and periods, and any number of restarts.        *)
(***************************************************************************)
EXTENDS SyncGrpo, TLAPS, SequenceTheorems

Live == pc \notin {"setup", "failed"}
RefitPhases == {"refit_offload", "refit_wake", "refit_update", "refit_release", "refit_wake_kv"}
InRefit(nexts) == pc \in RefitPhases /\ ret \in nexts
Validating == pc \in {"val", "val_start"}

ReturnInv == pc \in RefitPhases => ret \in {"generate", "val_start", "val"}

\* Between training and the end of the step the weights are one step ahead.
Ahead == pc \in {"trained", "val", "save", "step_end"} \/ InRefit({"val"})

CountInv ==
    /\ pc # "setup" => at.seen = at.epoch * Batches + at.loader
    /\ Live => policy.version = IF Ahead THEN at.total + 1 ELSE at.total

DiskInv ==
    /\ disk.seen = disk.epoch * Batches + disk.loader
    /\ disk.version = disk.total
    /\ disk.metric \subseteq {disk.version}

\* An engine that is not stale holds the policy's weights, and so does its
\* prefix cache, which is filled between a wake-up and the next sleep only.
EngineInv ==
    Live =>
      /\ ~stale \/ pc \in {"refit_release", "refit_wake_kv"} => engine.version = policy.version
      /\ NeedRefit /\ (Validating \/ pc \in {"generate", "finish"}) => ~stale
      /\ pc \in {"start", "train", "trained"} => stale
      /\ engine.prefix \subseteq {policy.version}
      /\ ~NeedRefit \/ ~(Validating \/ pc = "finish") => engine.prefix = {}

\* The engine's scales belong to its weights, unless the first validation has
\* loaded it without.
ScalesReady == engine.scales = policy.version \/ (cfg.valAtStart /\ engine.scales = None)

ScalesInv ==
    Live /\ cfg.fp8 =>
      /\ scales \in {None, policy.version}
      /\ InRefit({"generate", "val"}) \/ pc = "trained" => scales = policy.version
      /\ InRefit({"val_start"}) => cfg.valAtStart
      /\ ~stale \/ pc \in {"refit_release", "refit_wake_kv", "finish", "sample", "logprobs",
                          "prepare", "train"} => ScalesReady

\* Samples of the present weights, all of them.
Own == Seq({{policy.version}})

SamplesInv ==
    /\ pc \in {"batch", "calibrate", "generate", "finish", "sample"} \/ InRefit({"generate"}) =>
         cache \in Own
    /\ pc \in {"finish", "sample"} => batch \in Own /\ Len(batch) = BatchSize
    /\ pc \in {"logprobs", "prepare", "train"} => batch \in Own

MetricInv ==
    Live =>
      /\ info.used \subseteq {policy.version}
      /\ ~Validating => info.used = {}
      /\ pc \in {"calibrate", "generate", "finish", "sample", "logprobs", "prepare", "train",
                "trained", "val"} \/ InRefit({"generate", "val"}) => info.val = {}
      /\ pc = "save" => info.val \subseteq {policy.version}

\* Who is on the GPU, phase by phase.
PhaseInv ==
    /\ cfg.colocated /\ NeedRefit =>
         /\ engine.kv => policy.model = "cpu"
         /\ engine.weights => policy.optim = "cpu"
         /\ Live /\ ~Validating /\ pc \notin {"generate", "finish"} =>
              /\ ~engine.kv
              /\ engine.weights => pc \in {"refit_update", "refit_release", "refit_wake_kv"}
         /\ pc \in {"refit_wake", "refit_update", "refit_release", "refit_wake_kv"} =>
              policy.optim = "cpu"
         /\ pc \in {"refit_update", "refit_release", "refit_wake_kv"} => engine.weights
         /\ pc = "refit_wake_kv" => policy.model = "cpu"
         /\ Validating \/ pc = "generate" => engine.weights /\ engine.kv
    /\ NeedRefit /\ Live /\ stale /\ pc # "refit_wake_kv" => policy.model = "gpu"
    /\ pc \in RefitPhases => NeedRefit /\ stale
    /\ ~cfg.colocated => policy.model = "gpu"
    /\ ~cfg.colocated /\ ~cfg.spare => policy.optim = "gpu"
    /\ pc \in {"refit_offload", "refit_wake", "refit_release", "refit_wake_kv"} => cfg.colocated
    /\ pc = "calibrate" => NeedRefit /\ stale
    /\ pc = "prepare" => policy.model = "gpu" /\ policy.mode = "eval"
    /\ pc = "train" => policy.model = "gpu" /\ policy.mode = "train" /\ policy.optim = "gpu"

\* A step from its batch to the count of it.
InStep == \/ pc \in {"calibrate", "generate", "finish", "sample", "logprobs", "prepare",
                     "train", "trained", "val", "save", "step_end"}
          \/ InRefit({"generate", "val"})

\* Without dynamic sampling every batch makes a step, so that the counter the
\* last step is told by is the loader's position; steps are made within the
\* limits only.
StepInv ==
    /\ ~cfg.dynamic => disk.step = disk.loader
    /\ ~cfg.dynamic /\ Live => at.loader = IF InStep THEN at.step + 1 ELSE at.step
    /\ InStep \/ pc = "batch" => at.epoch < MaxEpochs /\ at.total < cfg.maxSteps

\* The steps that could have been saved by now.
Decided == IF pc = "step_end" THEN at.total + 1 ELSE at.total

WorkInv ==
    cfg.saving =>
      /\ policy.version - disk.version <= SavePeriod
      /\ Live => Decided - disk.total <= Decided % SavePeriod
      /\ pc \in {"start", "val_start"} \/ InRefit({"val_start"}) => disk.total = at.total
      /\ pc = "epoch" /\ disk.total # at.total =>
           /\ at.loader = 0 /\ at.total < cfg.maxSteps
           /\ at.epoch < MaxEpochs \/ (cfg.dynamic /\ at.epoch = MaxEpochs)
      /\ pc = "batch" /\ ~cfg.dynamic /\ at.loader = Batches /\ at.epoch + 1 = MaxEpochs =>
           disk.total = at.total
      /\ pc = "step_end" /\ (timed \/ IsLastStep) => disk.total = at.total + 1
      /\ pc = "done" => \/ disk.total = at.total
                        \/ cfg.dynamic /\ at.epoch = MaxEpochs

IInv == TypeOK /\ ReturnInv /\ CountInv /\ DiskInv /\ EngineInv /\ ScalesInv
          /\ SamplesInv /\ MetricInv /\ PhaseInv /\ StepInv /\ WorkInv

-----------------------------------------------------------------------------
\* The calls on the policy move it and change its mode; its weights stay.
LEMMA PolicyCalls ==
    ASSUME NEW p \in PolicyType, cfg \in Configs
    PROVE  \A q \in {PrepareForLpInference(p), PrepareForTraining(p), OffloadBeforeRefit(p),
                     OffloadAfterRefit(p), ReloadForGenerate(p)} :
               q \in PolicyType /\ q.version = p.version
BY ConfigAssumption, ZenonT(40)
   DEF PolicyType, PrepareForLpInference, PrepareForTraining, OffloadBeforeRefit,
       OffloadAfterRefit, ReloadForGenerate, ConfigType

\* Sleep and wake-up leave weights and scales what they were; sleep empties
\* the prefix cache, generation fills it.
LEMMA EngineCalls ==
    ASSUME NEW e \in EngineType, NEW tags
    PROVE  /\ \A f \in {WakeUp(e, tags), FinishGeneration(e), Generated(e)} :
                f \in EngineType /\ f.version = e.version /\ f.scales = e.scales
           /\ WakeUp(e, tags).prefix = e.prefix
           /\ FinishGeneration(e).prefix = {}
<1>1. WakeUp(e, tags) \in EngineType
  BY DEF EngineType, WakeUp
<1>2. FinishGeneration(e) \in EngineType
  BY DEF EngineType, FinishGeneration
<1>3. Generated(e) \in EngineType
  BY DEF EngineType, Generated
<1> QED
  BY <1>1, <1>2, <1>3 DEF EngineType, WakeUp, FinishGeneration, Generated

\* A new engine holds nobody's weights.
LEMMA NewEngineIsDummy ==
    /\ NewEngine \in EngineType
    /\ NewEngine.version = None /\ NewEngine.scales = None /\ NewEngine.prefix = {}
BY DEF NewEngine, FinishGeneration, EngineType, None

\* Whatever way the engine is made ready, its weights and the policy's stay
\* what they are; a refit lies ahead when they differ.
LEMMA ReadyEngineKeeps ==
    ASSUME NEW next, NEW offload, ReadyEngine(next, offload), TypeOK
    PROVE  /\ ret' = next
           /\ policy' \in PolicyType /\ engine' \in EngineType
           /\ policy'.version = policy.version
           /\ engine'.version = engine.version /\ engine'.scales = engine.scales
           /\ engine'.prefix = engine.prefix
           /\ \/ NeedRefit /\ stale /\ pc' \in {"refit_offload", "refit_update"}
              \/ ~(NeedRefit /\ stale) /\ pc' = next
BY PolicyCalls, EngineCalls DEF ReadyEngine, TypeOK

\* The three ways the counters move.
LEMMA CountersMove ==
    ASSUME NEW c \in CounterType
    PROVE  /\ c.loader < Batches =>
                [c EXCEPT !.loader = @ + 1, !.seen = @ + 1] \in CounterType
           /\ [c EXCEPT !.epoch = @ + 1, !.step = 0, !.loader = 0] \in CounterType
           /\ [c EXCEPT !.step = @ + 1, !.total = @ + 1] \in CounterType
<1>1. /\ c.step + 1 \in Nat /\ c.total + 1 \in Nat
      /\ c.epoch + 1 \in Nat /\ c.seen + 1 \in Nat
  BY DEF CounterType
<1>2. 0 \in 0..Batches /\ (c.loader < Batches => c.loader + 1 \in 0..Batches)
  BY SizeAssumption DEF CounterType
<1>3. c.loader < Batches => [c EXCEPT !.loader = @ + 1, !.seen = @ + 1] \in CounterType
  BY <1>1, <1>2 DEF CounterType
<1>4. [c EXCEPT !.epoch = @ + 1, !.step = 0, !.loader = 0] \in CounterType
  BY <1>1, <1>2 DEF CounterType
<1>5. [c EXCEPT !.step = @ + 1, !.total = @ + 1] \in CounterType
  BY <1>1 DEF CounterType
<1> QED
  BY <1>3, <1>4, <1>5

\* A batch forgets the last validation.
LEMMA InfoMoves ==
    ASSUME NEW i \in InfoType
    PROVE  [i EXCEPT !.val = {}] \in InfoType
BY DEF InfoType

\* Making the engine ready keeps what is known of its weights.
LEMMA ReadyEngineEngine ==
    ASSUME IInv, NEW next \in {"val", "val_start", "generate"}, NEW offload,
           ReadyEngine(next, offload), Live, ~Validating, pc # "finish", UNCHANGED <<cfg, stale>>
    PROVE  EngineInv'
<1>1. /\ policy'.version = policy.version
      /\ engine'.version = engine.version /\ engine'.scales = engine.scales
      /\ engine'.prefix = engine.prefix
      /\ \/ NeedRefit /\ stale /\ pc' \in {"refit_offload", "refit_update"}
         \/ ~(NeedRefit /\ stale) /\ pc' = next
  BY ReadyEngineKeeps DEF IInv
<1>2. engine.prefix = {} /\ (~stale => engine.version = policy.version)
  BY DEF IInv, EngineInv
<1>3. NeedRefit' = NeedRefit
  BY DEF NeedRefit
<1> QED
  BY <1>1, <1>2, <1>3 DEF EngineInv, Live, Validating

\* Counting on by one, the remainder grows until it starts again at zero.
LEMMA NextMod ==
    ASSUME NEW p \in Nat \ {0}, NEW n \in Nat
    PROVE  /\ n % p \in 0..(p - 1)
           /\ (n + 1) % p # 0 => (n + 1) % p = (n % p) + 1
OBVIOUS

\* A run that starts afresh.
LEMMA InitIInv == Init => IInv
<1> SUFFICES ASSUME Init
             PROVE  IInv
  OBVIOUS
<1>1. TypeOK
  <2>1. 0 \in 0..Batches /\ 0 \in 0..MaxCrashes
    BY SizeAssumption
  <2>2. at \in CounterType /\ disk \in CheckpointType
    BY <2>1 DEF Init, CounterType, CheckpointType, Fresh
  <2>3. policy \in PolicyType /\ engine \in EngineType
    BY DEF Init, PolicyType, EngineType, None
  <2>4. info \in InfoType
    BY DEF Init, InfoType, NoInfo
  <2> QED
    BY <2>1, <2>2, <2>3, <2>4 DEF Init, TypeOK, Phases
<1>2. ReturnInv /\ CountInv /\ DiskInv /\ EngineInv /\ ScalesInv /\ MetricInv
  BY SizeAssumption
     DEF Init, ReturnInv, CountInv, DiskInv, EngineInv, ScalesInv, MetricInv, Live,
         RefitPhases,
         Fresh
<1>3. SamplesInv
  BY DEF Init, SamplesInv, InRefit, RefitPhases
<1>4. PhaseInv
  BY DEF Init, PhaseInv, Live, Validating, RefitPhases
<1>5. StepInv /\ WorkInv
  <2>1. SavePeriod \in Nat \ {0} /\ 0 % SavePeriod \in 0..(SavePeriod - 1)
    BY SizeAssumption, NextMod
  <2> QED
    BY <2>1 DEF Init, StepInv, WorkInv, Live, InStep, InRefit, RefitPhases, Fresh
<1> QED
  BY <1>1, <1>2, <1>3, <1>4, <1>5 DEF IInv

\* A step that changes something.
Step == Progress \/ Crash

-----------------------------------------------------------------------------
(* Types *)

\* Setup keeps the types.
LEMMA SetupTypeOK == IInv /\ Setup => TypeOK'
<1> SUFFICES ASSUME IInv, Setup
             PROVE  TypeOK'
  OBVIOUS
<1>1. at' \in CounterType /\ policy' \in PolicyType
  BY DEF IInv, TypeOK, Setup, CounterType, PolicyType, CheckpointType
<1>2. info' \in InfoType
  BY SMTT(40) DEF IInv, TypeOK, Setup, CheckpointType, InfoType, NoInfo
<1> QED
  BY <1>1, <1>2, NewEngineIsDummy DEF IInv, TypeOK, Phases, Setup, None

\* NextBatch keeps the types.
LEMMA NextBatchTypeOK == IInv /\ NextBatch => TypeOK'
BY PolicyCalls, ReadyEngineKeeps, CountersMove, InfoMoves, ZenonT(40)
  DEF IInv, TypeOK, Phases, NextBatch

\* RefitWakeKv keeps the types.
LEMMA RefitWakeKvTypeOK == IInv /\ RefitWakeKv => TypeOK'
<1> SUFFICES ASSUME IInv, RefitWakeKv
             PROVE  TypeOK'
  OBVIOUS
<1>1. pc' \in Phases
  BY DEF IInv, ReturnInv, RefitPhases, RefitWakeKv, Phases
<1> QED
  BY <1>1, EngineCalls DEF IInv, TypeOK, RefitWakeKv, driver

\* EndEpoch keeps the types.
LEMMA EndEpochTypeOK == IInv /\ EndEpoch => TypeOK'
BY CountersMove DEF IInv, TypeOK, Phases, EndEpoch

\* Train keeps the types.
LEMMA TrainTypeOK == IInv /\ Train => TypeOK'
BY DEF IInv, TypeOK, Phases, Train, PolicyType, driver

\* ValidateBatch keeps the types.
LEMMA ValidateBatchTypeOK == IInv /\ ValidateBatch => TypeOK'
<1> SUFFICES ASSUME IInv, ValidateBatch
             PROVE  TypeOK'
  OBVIOUS
<1>1. Source \subseteq Nat \cup {None}
  BY DEF IInv, TypeOK, Source, EngineType, PolicyType
<1>2. info' \in InfoType
  <2>1. info.used \in SUBSET (Nat \cup {None}) /\ info.rolled + 1 \in Nat
    BY DEF IInv, TypeOK, InfoType
  <2>2. info.used \cup Source \in SUBSET (Nat \cup {None})
    BY <1>1, <2>1
  <2> QED
    BY <2>1, <2>2 DEF IInv, TypeOK, ValidateBatch, InfoType
<1> QED
  BY <1>2, PolicyCalls, EngineCalls DEF IInv, TypeOK, ValidateBatch

\* EndValidation keeps the types.
LEMMA EndValidationTypeOK == IInv /\ EndValidation => TypeOK'
<1> SUFFICES ASSUME IInv, EndValidation
             PROVE  TypeOK'
  OBVIOUS
<1>1. info.used \subseteq Nat
  BY DEF IInv, TypeOK, EndValidation, PolicyType, MetricInv, Live, Validating
<1>2. info' \in InfoType
  BY <1>1 DEF IInv, TypeOK, EndValidation, InfoType
<1>3. pc' \in Phases
  BY DEF EndValidation, Phases
<1> QED
  BY <1>2, <1>3, EngineCalls DEF IInv, TypeOK, EndValidation

\* EndStep keeps the types.
LEMMA EndStepTypeOK == IInv /\ EndStep => TypeOK'
<1> SUFFICES ASSUME IInv, EndStep
             PROVE  TypeOK'
  OBVIOUS
<1>1. at' \in CounterType
  BY CountersMove DEF IInv, TypeOK, EndStep
<1>2. pc' \in Phases
  BY DEF EndStep, Phases
<1> QED
  BY <1>1, <1>2 DEF IInv, TypeOK, EndStep

\* Every step keeps the types.
LEMMA TypeOKKept == IInv /\ Step => TypeOK'
<1> SUFFICES ASSUME IInv, Step
             PROVE  TypeOK'
  OBVIOUS
<1> USE DEF IInv, TypeOK, Phases
<1>1. CASE Setup
  BY <1>1, SetupTypeOK
<1>2. CASE InitialValidation
  BY <1>2, ReadyEngineKeeps DEF driver, InitialValidation
<1>3. CASE StartEpoch
  BY <1>3 DEF StartEpoch
<1>4. CASE NextBatch
  BY <1>4, NextBatchTypeOK
<1>5. CASE CalibrateScales
  BY <1>5, PolicyCalls DEF driver, CalibrateScales, PolicyType
<1>6. CASE LogProbs
  BY <1>6, PolicyCalls DEF driver, LogProbs
<1>7. CASE PrepareTraining
  BY <1>7, PolicyCalls DEF driver, PrepareTraining
<1>8. CASE RefitOffload
  BY <1>8, PolicyCalls DEF driver, RefitOffload
<1>9. CASE RefitRelease
  BY <1>9, PolicyCalls DEF driver, RefitRelease
<1>10. CASE RefitWakeWeights
  BY <1>10, EngineCalls DEF driver, RefitWakeWeights
<1>11. CASE RefitWakeKv
  BY <1>11, RefitWakeKvTypeOK
<1>12. CASE RefitUpdate
  BY <1>12, ZenonT(40) DEF driver, RefitUpdate, EngineType, PolicyType, ReturnInv, RefitPhases
<1>13. CASE EndEpoch
  BY <1>13, EndEpochTypeOK
<1>14. CASE Generate
  BY <1>14, PolicyCalls, EngineCalls DEF Generate
<1>15. CASE FinishBatch
  BY <1>15, EngineCalls DEF driver, FinishBatch
<1>16. CASE SignalCollapsed
  BY <1>16 DEF driver, SignalCollapsed
<1>17. CASE TrainOnAll
  BY <1>17 DEF driver, TrainOnAll
<1>18. CASE Crash
  BY <1>18, SizeAssumption DEF driver, Crash
<1>19. CASE DynamicSampling
  BY <1>19 DEF DynamicSampling
<1>20. CASE Train
  BY <1>20, TrainTypeOK
<1>21. CASE MaybeValidate
  BY <1>21, ReadyEngineKeeps DEF driver, MaybeValidate
<1>22. CASE ValidateBatch
  BY <1>22, ValidateBatchTypeOK
<1>23. CASE EndValidation
  BY <1>23, EndValidationTypeOK
<1>24. CASE Save
  BY <1>24, PolicyCalls
     DEF Save, InfoType, CheckpointType, CounterType, PolicyType, SavedMetric
<1>25. CASE EndStep
  BY <1>25, EndStepTypeOK
<1> QED
  BY <1>1, <1>2, <1>3, <1>4, <1>5, <1>6, <1>7, <1>8, <1>9, <1>10, <1>11, <1>12, <1>13,
     <1>14, <1>15, <1>16, <1>17, <1>18, <1>19, <1>20, <1>21, <1>22, <1>23, <1>24, <1>25
     DEF Step, Progress

-----------------------------------------------------------------------------
(* The way back from a refit *)

\* Every step keeps the way back from a refit.
LEMMA ReturnInvKept == IInv /\ Step => ReturnInv'
<1> SUFFICES ASSUME IInv, Step
             PROVE  ReturnInv'
  OBVIOUS
<1> USE DEF IInv, ReturnInv, RefitPhases
<1>1. CASE Setup
  BY <1>1 DEF Setup
<1>2. CASE InitialValidation
  BY <1>2, ReadyEngineKeeps DEF InitialValidation, TypeOK
<1>3. CASE StartEpoch
  BY <1>3 DEF StartEpoch
<1>4. CASE NextBatch
  BY <1>4, ReadyEngineKeeps DEF NextBatch, TypeOK
<1>5. CASE CalibrateScales \/ LogProbs \/ PrepareTraining
            \/ RefitOffload \/ RefitRelease
  BY <1>5 DEF driver, CalibrateScales, LogProbs, PrepareTraining, RefitOffload, RefitRelease
<1>6. CASE RefitWakeWeights
  BY <1>6 DEF driver, RefitWakeWeights
<1>7. CASE RefitWakeKv
  BY <1>7 DEF driver, RefitWakeKv
<1>8. CASE RefitUpdate
  BY <1>8 DEF driver, RefitUpdate
<1>9. CASE EndEpoch
  BY <1>9 DEF EndEpoch
<1>10. CASE Generate
  BY <1>10 DEF Generate
<1>11. CASE FinishBatch
  BY <1>11 DEF driver, FinishBatch
<1>12. CASE SignalCollapsed \/ TrainOnAll \/ Crash
  BY <1>12 DEF driver, SignalCollapsed, TrainOnAll, Crash
<1>13. CASE DynamicSampling
  BY <1>13 DEF DynamicSampling
<1>14. CASE Train
  BY <1>14 DEF driver, Train
<1>15. CASE MaybeValidate
  BY <1>15, ReadyEngineKeeps DEF MaybeValidate, TypeOK
<1>16. CASE ValidateBatch
  BY <1>16 DEF ValidateBatch
<1>17. CASE EndValidation
  BY <1>17 DEF EndValidation
<1>18. CASE Save
  BY <1>18 DEF Save
<1>19. CASE EndStep
  BY <1>19 DEF EndStep
<1> QED
  BY <1>1, <1>2, <1>3, <1>4, <1>5, <1>6, <1>7, <1>8, <1>9, <1>10, <1>11, <1>12, <1>13,
     <1>14, <1>15, <1>16, <1>17, <1>18, <1>19 DEF Step, Progress

-----------------------------------------------------------------------------
(* Counters *)

\* Setup keeps the counters.
LEMMA SetupCountInv == IInv /\ Setup => CountInv'
BY DEF IInv, TypeOK, Setup, CheckpointType, DiskInv, CountInv, Live, Ahead, InRefit,
   RefitPhases

\* InitialValidation keeps the counters.
LEMMA InitialValidationCountInv == IInv /\ InitialValidation => CountInv'
<1> SUFFICES ASSUME IInv, InitialValidation
             PROVE  CountInv'
  OBVIOUS
<1>1. CASE ReadyEngine("val_start", FALSE)
  <2>1. /\ ret' = "val_start" /\ policy'.version = policy.version
        /\ engine'.scales = engine.scales
        /\ \/ NeedRefit /\ stale /\ pc' \in {"refit_offload", "refit_update"}
           \/ ~(NeedRefit /\ stale) /\ pc' = "val_start"
    BY <1>1, ReadyEngineKeeps DEF IInv
  <2> QED
    BY <2>1
       DEF InitialValidation, IInv, driver, CountInv, Live, Ahead, InRefit, RefitPhases
<1>2. CASE pc' = "epoch" /\ UNCHANGED <<policy, engine>>
  BY <1>2
     DEF InitialValidation, IInv, driver, CountInv, Live, Ahead, InRefit, RefitPhases
<1> QED
  BY <1>1, <1>2 DEF InitialValidation

\* NextBatch keeps the counters.
LEMMA NextBatchCountInv == IInv /\ NextBatch => CountInv'
<1> SUFFICES ASSUME IInv, NextBatch
             PROVE  CountInv'
  OBVIOUS
<1>1. at'.seen = at.seen + 1 /\ at'.loader = at.loader + 1
  BY DEF IInv, TypeOK, CounterType, NextBatch
<1>2. at'.epoch = at.epoch /\ at'.total = at.total
  BY DEF IInv, TypeOK, CounterType, NextBatch
<1>3. at'.seen = at'.epoch * Batches + at'.loader
  <2>1. at.seen = at.epoch * Batches + at.loader
    BY DEF IInv, CountInv, NextBatch
  <2>2. at.epoch * Batches \in Nat /\ at.loader \in Nat
    BY SizeAssumption DEF IInv, TypeOK, CounterType
  <2> QED
    BY <1>1, <1>2, <2>1, <2>2
<1>4. policy.version = at.total
  BY DEF IInv, CountInv, NextBatch, Live, Ahead, InRefit, RefitPhases
<1>5. policy'.version = policy.version /\ ~Ahead'
  <2>1. CASE ReadyEngine("generate", TRUE)
    <3>1. /\ ret' = "generate" /\ policy'.version = policy.version
          /\ pc' \in {"refit_offload", "refit_update", "generate"}
      BY <2>1, ReadyEngineKeeps DEF IInv
    <3> QED
      BY <3>1 DEF Ahead, InRefit, RefitPhases
  <2>2. CASE pc' = "calibrate" /\ UNCHANGED policy
    BY <2>2 DEF Ahead, InRefit, RefitPhases
  <2> QED
    BY <2>1, <2>2 DEF NextBatch
<1> QED
  BY <1>2, <1>3, <1>4, <1>5 DEF CountInv

\* Every step keeps the counters.
LEMMA CountInvKept == IInv /\ Step => CountInv'
<1> SUFFICES ASSUME IInv, Step
             PROVE  CountInv'
  OBVIOUS
<1> USE DEF IInv, TypeOK, ReturnInv, CountInv, Live, Ahead, InRefit, RefitPhases
<1>1. CASE Setup
  BY <1>1, SetupCountInv
<1>2. CASE InitialValidation
  BY <1>2, InitialValidationCountInv
<1>3. CASE StartEpoch
  BY <1>3 DEF StartEpoch
<1>4. CASE NextBatch
  BY <1>4, NextBatchCountInv
<1>5. CASE CalibrateScales \/ LogProbs \/ PrepareTraining
            \/ RefitOffload \/ RefitRelease
  BY <1>5, PolicyCalls
     DEF driver, CalibrateScales, LogProbs, PrepareTraining, RefitOffload, RefitRelease,
         PolicyType
<1>6. CASE RefitWakeWeights
  BY <1>6, EngineCalls DEF driver, RefitWakeWeights
<1>7. CASE RefitWakeKv
  BY <1>7, EngineCalls DEF driver, RefitWakeKv
<1>8. CASE RefitUpdate
  BY <1>8 DEF driver, RefitUpdate, EngineType, PolicyType
<1>9. CASE EndEpoch
  BY <1>9 DEF EndEpoch, CounterType
<1>10. CASE Generate
  BY <1>10, PolicyCalls, EngineCalls DEF Generate
<1>11. CASE FinishBatch
  BY <1>11, EngineCalls DEF driver, FinishBatch
<1>12. CASE SignalCollapsed \/ TrainOnAll \/ Crash
  BY <1>12 DEF driver, SignalCollapsed, TrainOnAll, Crash
<1>13. CASE DynamicSampling
  BY <1>13 DEF DynamicSampling
<1>14. CASE Train
  BY <1>14 DEF driver, Train, PolicyType
<1>15. CASE MaybeValidate
  BY <1>15, ReadyEngineKeeps DEF driver, MaybeValidate
<1>16. CASE ValidateBatch
  BY <1>16, PolicyCalls, EngineCalls
     DEF ValidateBatch, InfoType, Source, EngineType, PolicyType
<1>17. CASE EndValidation
  BY <1>17, EngineCalls DEF EndValidation, InfoType, PolicyType
<1>18. CASE Save
  BY <1>18, PolicyCalls
     DEF Save, InfoType, CheckpointType, CounterType, PolicyType, SavedMetric
<1>19. CASE EndStep
  BY <1>19 DEF EndStep, CounterType
<1> QED
  BY <1>1, <1>2, <1>3, <1>4, <1>5, <1>6, <1>7, <1>8, <1>9, <1>10, <1>11, <1>12, <1>13,
     <1>14, <1>15, <1>16, <1>17, <1>18, <1>19 DEF Step, Progress

-----------------------------------------------------------------------------
(* The checkpoint *)

\* Every step keeps the checkpoint.
LEMMA DiskInvKept == IInv /\ Step => DiskInv'
<1> SUFFICES ASSUME IInv, Step
             PROVE  DiskInv'
  OBVIOUS
<1> USE DEF IInv, DiskInv
<1>1. CASE Setup
  BY <1>1 DEF Setup
<1>2. CASE InitialValidation
  BY <1>2 DEF driver, InitialValidation
<1>3. CASE StartEpoch
  BY <1>3 DEF StartEpoch
<1>4. CASE NextBatch
  BY <1>4 DEF NextBatch
<1>5. CASE CalibrateScales \/ LogProbs \/ PrepareTraining
            \/ RefitOffload \/ RefitRelease
  BY <1>5 DEF driver, CalibrateScales, LogProbs, PrepareTraining, RefitOffload, RefitRelease
<1>6. CASE RefitWakeWeights
  BY <1>6 DEF driver, RefitWakeWeights
<1>7. CASE RefitWakeKv
  BY <1>7 DEF driver, RefitWakeKv
<1>8. CASE RefitUpdate
  BY <1>8 DEF driver, RefitUpdate
<1>9. CASE EndEpoch
  BY <1>9 DEF EndEpoch
<1>10. CASE Generate
  BY <1>10 DEF Generate
<1>11. CASE FinishBatch
  BY <1>11 DEF driver, FinishBatch
<1>12. CASE SignalCollapsed \/ TrainOnAll \/ Crash
  BY <1>12 DEF driver, SignalCollapsed, TrainOnAll, Crash
<1>13. CASE DynamicSampling
  BY <1>13 DEF DynamicSampling
<1>14. CASE Train
  BY <1>14 DEF driver, Train
<1>15. CASE MaybeValidate
  BY <1>15 DEF driver, MaybeValidate
<1>16. CASE ValidateBatch
  BY <1>16 DEF ValidateBatch
<1>17. CASE EndValidation
  BY <1>17 DEF EndValidation
<1>18. CASE Save
  BY <1>18, PolicyCalls
     DEF Save, InfoType, CheckpointType, CounterType, PolicyType, SavedMetric, TypeOK,
         CountInv, MetricInv, Live, Ahead
<1>19. CASE EndStep
  BY <1>19 DEF EndStep
<1> QED
  BY <1>1, <1>2, <1>3, <1>4, <1>5, <1>6, <1>7, <1>8, <1>9, <1>10, <1>11, <1>12, <1>13,
     <1>14, <1>15, <1>16, <1>17, <1>18, <1>19 DEF Step, Progress

-----------------------------------------------------------------------------
(* The engine's weights *)

\* InitialValidation keeps what is known of the engine's weights.
LEMMA InitialValidationEngineInv == IInv /\ InitialValidation => EngineInv'
<1> SUFFICES ASSUME IInv, InitialValidation
             PROVE  EngineInv'
  OBVIOUS
<1>1. CASE ReadyEngine("val_start", FALSE)
  BY <1>1, ReadyEngineEngine DEF InitialValidation, Live, Validating
<1>2. CASE pc' = "epoch" /\ UNCHANGED <<policy, engine, stale>>
  BY <1>2 DEF IInv, EngineInv, InitialValidation, Live, Validating
<1> QED
  BY <1>1, <1>2 DEF InitialValidation

\* NextBatch keeps what is known of the engine's weights.
LEMMA NextBatchEngineInv == IInv /\ NextBatch => EngineInv'
<1> SUFFICES ASSUME IInv, NextBatch
             PROVE  EngineInv'
  OBVIOUS
<1>1. CASE ReadyEngine("generate", TRUE)
  BY <1>1, ReadyEngineEngine DEF NextBatch, Live, Validating
<1>2. CASE pc' = "calibrate" /\ UNCHANGED <<policy, engine, stale>>
  BY <1>2 DEF IInv, EngineInv, NextBatch, Live, Validating
<1> QED
  BY <1>1, <1>2 DEF NextBatch

\* Generate keeps what is known of the engine's weights.
LEMMA GenerateEngineInv == IInv /\ Generate => EngineInv'
<1> SUFFICES ASSUME IInv, Generate
             PROVE  EngineInv'
  OBVIOUS
<1>1. policy'.version = policy.version
  BY PolicyCalls DEF IInv, TypeOK, Generate
<1>2. /\ engine'.version = engine.version
      /\ engine'.prefix = IF NeedRefit THEN engine.prefix \cup {engine.version} ELSE engine.prefix
  BY DEF IInv, TypeOK, EngineType, Generate, Generated
<1> QED
  BY <1>1, <1>2 DEF Generate, IInv, EngineInv, NeedRefit, Live, Validating

\* FinishBatch keeps what is known of the engine's weights.
LEMMA FinishBatchEngineInv == IInv /\ FinishBatch => EngineInv'
<1> SUFFICES ASSUME IInv, FinishBatch
             PROVE  EngineInv'
  OBVIOUS
<1>1. UNCHANGED <<policy, stale, cfg>> /\ pc = "finish" /\ pc' = "sample"
  BY DEF FinishBatch
<1>2. engine'.version = engine.version /\ (NeedRefit => engine'.prefix = {})
  BY EngineCalls DEF IInv, TypeOK, FinishBatch
<1>3. /\ engine.prefix \subseteq {policy.version}
      /\ ~NeedRefit => engine.prefix = {} /\ engine' = engine
      /\ ~stale => engine.version = policy.version
  BY <1>1 DEF IInv, EngineInv, Live, FinishBatch
<1> QED
  BY <1>1, <1>2, <1>3 DEF EngineInv, Live, Validating, NeedRefit

\* MaybeValidate keeps what is known of the engine's weights.
LEMMA MaybeValidateEngineInv == IInv /\ MaybeValidate => EngineInv'
<1> SUFFICES ASSUME IInv, MaybeValidate
             PROVE  EngineInv'
  OBVIOUS
<1>1. CASE ReadyEngine("val", TRUE)
  BY <1>1, ReadyEngineEngine DEF MaybeValidate, Live, Validating
<1>2. CASE pc' = "save" /\ UNCHANGED <<policy, engine, stale>>
  BY <1>2 DEF IInv, EngineInv, MaybeValidate, Live, Validating
<1> QED
  BY <1>1, <1>2 DEF MaybeValidate

\* ValidateBatch keeps what is known of the engine's weights.
LEMMA ValidateBatchEngineInv == IInv /\ ValidateBatch => EngineInv'
<1> SUFFICES ASSUME IInv, ValidateBatch
             PROVE  EngineInv'
  OBVIOUS
<1>1. policy'.version = policy.version
  BY PolicyCalls DEF IInv, TypeOK, ValidateBatch
<1>2. /\ engine'.version = engine.version
      /\ engine'.prefix = IF NeedRefit THEN engine.prefix \cup {engine.version} ELSE engine.prefix
  BY DEF IInv, TypeOK, EngineType, ValidateBatch, Generated
<1> QED
  BY <1>1, <1>2 DEF ValidateBatch, IInv, EngineInv, NeedRefit, Live, Validating

\* EndValidation keeps what is known of the engine's weights.
LEMMA EndValidationEngineInv == IInv /\ EndValidation => EngineInv'
<1> SUFFICES ASSUME IInv, EndValidation
             PROVE  EngineInv'
  OBVIOUS
<1>1. /\ UNCHANGED <<policy, stale, cfg>>
      /\ Validating /\ pc' \in {"failed", "save", "epoch"}
      /\ pc' # "failed" => cfg.valBatches # 0
  BY DEF EndValidation, Validating
<1>2. /\ engine'.version = engine.version
      /\ NeedRefit /\ pc' # "failed" => engine'.prefix = {}
      /\ ~NeedRefit => engine' = engine
  <2>1. cfg.valBatches \in Nat
    BY ConfigAssumption DEF IInv, TypeOK, ConfigType
  <2> QED
    BY <1>1, <2>1, EngineCalls DEF IInv, TypeOK, EndValidation
<1>3. /\ engine.prefix \subseteq {policy.version}
      /\ ~NeedRefit => engine.prefix = {}
      /\ ~stale => engine.version = policy.version
  BY <1>1 DEF IInv, EngineInv, Live, Validating
<1> QED
  BY <1>1, <1>2, <1>3 DEF EngineInv, Live, Validating, NeedRefit

\* Every step keeps what is known of the engine's weights.
LEMMA EngineInvKept == IInv /\ Step => EngineInv'
<1> SUFFICES ASSUME IInv, Step
             PROVE  EngineInv'
  OBVIOUS
<1> USE DEF IInv, TypeOK, ReturnInv, EngineInv, Live, Validating, RefitPhases
<1>1. CASE Setup
  BY <1>1, NewEngineIsDummy
     DEF Setup, CounterType, PolicyType, CheckpointType, InfoType, NoInfo, None
<1>2. CASE InitialValidation
  BY <1>2, InitialValidationEngineInv
<1>3. CASE StartEpoch
  BY <1>3 DEF StartEpoch
<1>4. CASE NextBatch
  BY <1>4, NextBatchEngineInv
<1>5. CASE CalibrateScales \/ LogProbs \/ PrepareTraining
            \/ RefitOffload \/ RefitRelease
  BY <1>5, PolicyCalls
     DEF driver, CalibrateScales, LogProbs, PrepareTraining, RefitOffload, RefitRelease,
         PolicyType
<1>6. CASE RefitWakeWeights
  BY <1>6, EngineCalls DEF driver, RefitWakeWeights
<1>7. CASE RefitWakeKv
  BY <1>7, EngineCalls DEF driver, RefitWakeKv
<1>8. CASE RefitUpdate
  BY <1>8 DEF driver, RefitUpdate, EngineType, PolicyType, NeedRefit
<1>9. CASE EndEpoch
  BY <1>9 DEF EndEpoch, CounterType
<1>10. CASE Generate
  BY <1>10, GenerateEngineInv
<1>11. CASE FinishBatch
  BY <1>11, FinishBatchEngineInv
<1>12. CASE SignalCollapsed \/ TrainOnAll \/ Crash
  BY <1>12 DEF driver, SignalCollapsed, TrainOnAll, Crash
<1>13. CASE DynamicSampling
  BY <1>13 DEF DynamicSampling
<1>14. CASE Train
  BY <1>14 DEF driver, Train, PolicyType, NeedRefit
<1>15. CASE MaybeValidate
  BY <1>15, MaybeValidateEngineInv
<1>16. CASE ValidateBatch
  BY <1>16, ValidateBatchEngineInv
<1>17. CASE EndValidation
  BY <1>17, EndValidationEngineInv
<1>18. CASE Save
  BY <1>18, PolicyCalls
     DEF Save, InfoType, CheckpointType, CounterType, PolicyType, SavedMetric, NeedRefit
<1>19. CASE EndStep
  BY <1>19 DEF EndStep, CounterType
<1> QED
  BY <1>1, <1>2, <1>3, <1>4, <1>5, <1>6, <1>7, <1>8, <1>9, <1>10, <1>11, <1>12, <1>13,
     <1>14, <1>15, <1>16, <1>17, <1>18, <1>19 DEF Step, Progress

-----------------------------------------------------------------------------
(* The engine's scales *)

\* InitialValidation keeps what is known of the scales.
LEMMA InitialValidationScalesInv == IInv /\ InitialValidation => ScalesInv'
<1> SUFFICES ASSUME IInv, InitialValidation
             PROVE  ScalesInv'
  OBVIOUS
<1>1. CASE ReadyEngine("val_start", FALSE)
  <2>1. /\ ret' = "val_start" /\ policy'.version = policy.version
        /\ engine'.scales = engine.scales
        /\ \/ NeedRefit /\ stale /\ pc' \in {"refit_offload", "refit_update"}
           \/ ~(NeedRefit /\ stale) /\ pc' = "val_start"
    BY <1>1, ReadyEngineKeeps DEF IInv
  <2>2. cfg.fp8 => NeedRefit
    BY ConfigAssumption DEF IInv, TypeOK, NeedRefit, ConfigType
  <2> QED
    BY <2>1, <2>2
       DEF InitialValidation, IInv, driver, EngineInv, ScalesInv, ScalesReady, Live,
           InRefit, RefitPhases
<1>2. CASE pc' = "epoch" /\ UNCHANGED <<policy, engine>>
  BY <1>2
     DEF InitialValidation, IInv, driver, EngineInv, ScalesInv, ScalesReady, Live, InRefit,
         RefitPhases
<1> QED
  BY <1>1, <1>2 DEF InitialValidation

\* NextBatch keeps what is known of the scales.
LEMMA NextBatchScalesInv == IInv /\ NextBatch => ScalesInv'
<1> SUFFICES ASSUME IInv, NextBatch
             PROVE  ScalesInv'
  OBVIOUS
<1>1. UNCHANGED <<cfg, scales, stale>> /\ pc = "batch"
  BY DEF NextBatch
<1>2. CASE ReadyEngine("generate", TRUE) /\ ~(NeedRefit /\ stale /\ cfg.fp8 /\ scales = None)
  <2>1. /\ ret' = "generate" /\ policy'.version = policy.version
        /\ engine'.scales = engine.scales
        /\ \/ NeedRefit /\ stale /\ pc' \in {"refit_offload", "refit_update"}
           \/ ~(NeedRefit /\ stale) /\ pc' = "generate"
    BY <1>2, ReadyEngineKeeps DEF IInv
  <2>2. cfg.fp8 => NeedRefit
    BY ConfigAssumption DEF IInv, TypeOK, NeedRefit, ConfigType
  <2> QED
    BY <1>1, <1>2, <2>1, <2>2 DEF IInv, ScalesInv, ScalesReady, Live, InRefit, RefitPhases
<1>3. CASE pc' = "calibrate" /\ stale /\ UNCHANGED <<policy, engine>>
  BY <1>1, <1>3 DEF IInv, ScalesInv, ScalesReady, Live, InRefit, RefitPhases
<1> QED
  BY <1>2, <1>3 DEF NextBatch

\* Generate keeps what is known of the scales.
LEMMA GenerateScalesInv == IInv /\ Generate => ScalesInv'
<1> SUFFICES ASSUME IInv, Generate
             PROVE  ScalesInv'
  OBVIOUS
<1>1. policy'.version = policy.version /\ engine'.scales = engine.scales
  BY PolicyCalls, EngineCalls DEF IInv, TypeOK, Generate
<1>2. cfg.fp8 => ~stale
  BY ConfigAssumption DEF IInv, TypeOK, EngineInv, Generate, Live, NeedRefit, ConfigType
<1> QED
  BY <1>1, <1>2 DEF Generate, IInv, ScalesInv, ScalesReady, Live, InRefit, RefitPhases

\* MaybeValidate keeps what is known of the scales.
LEMMA MaybeValidateScalesInv == IInv /\ MaybeValidate => ScalesInv'
<1> SUFFICES ASSUME IInv, MaybeValidate
             PROVE  ScalesInv'
  OBVIOUS
<1>1. CASE ReadyEngine("val", TRUE)
  <2>1. /\ ret' = "val" /\ policy'.version = policy.version
        /\ engine'.scales = engine.scales
        /\ \/ NeedRefit /\ stale /\ pc' \in {"refit_offload", "refit_update"}
           \/ ~(NeedRefit /\ stale) /\ pc' = "val"
    BY <1>1, ReadyEngineKeeps DEF IInv
  <2>2. cfg.fp8 => NeedRefit
    BY ConfigAssumption DEF IInv, TypeOK, NeedRefit, ConfigType
  <2> QED
    BY <2>1, <2>2
       DEF MaybeValidate, IInv, driver, EngineInv, ScalesInv, ScalesReady, Live, InRefit,
           RefitPhases
<1>2. CASE pc' = "save" /\ UNCHANGED <<policy, engine>>
  BY <1>2
     DEF MaybeValidate, IInv, driver, EngineInv, ScalesInv, ScalesReady, Live, InRefit,
         RefitPhases
<1> QED
  BY <1>1, <1>2 DEF MaybeValidate

\* Every step keeps what is known of the scales.
LEMMA ScalesInvKept == IInv /\ Step => ScalesInv'
<1> SUFFICES ASSUME IInv, Step
             PROVE  ScalesInv'
  OBVIOUS
<1> USE DEF IInv, TypeOK, ReturnInv, EngineInv, ScalesInv, ScalesReady, Live, Validating,
        NeedRefit, InRefit, RefitPhases
<1>1. CASE Setup
  BY <1>1, ConfigAssumption, NewEngineIsDummy
     DEF Setup, CounterType, PolicyType, CheckpointType, InfoType, NoInfo, None, ConfigType
<1>2. CASE InitialValidation
  BY <1>2, InitialValidationScalesInv
<1>3. CASE StartEpoch
  BY <1>3, ConfigAssumption DEF StartEpoch, None
<1>4. CASE NextBatch
  BY <1>4, NextBatchScalesInv
<1>5. CASE CalibrateScales \/ LogProbs \/ PrepareTraining
            \/ RefitOffload \/ RefitRelease
  BY <1>5, ConfigAssumption, PolicyCalls
     DEF driver, CalibrateScales, LogProbs, PrepareTraining, RefitOffload, RefitRelease,
         PolicyType, None
<1>6. CASE RefitWakeWeights
  BY <1>6, ConfigAssumption, EngineCalls DEF driver, RefitWakeWeights, None
<1>7. CASE RefitWakeKv
  BY <1>7, ConfigAssumption, EngineCalls DEF driver, RefitWakeKv, None
<1>8. CASE RefitUpdate
  BY <1>8, ConfigAssumption DEF driver, RefitUpdate, EngineType, PolicyType, None, ConfigType
<1>9. CASE EndEpoch
  BY <1>9, ConfigAssumption DEF EndEpoch, CounterType, None
<1>10. CASE Generate
  BY <1>10, GenerateScalesInv
<1>11. CASE FinishBatch
  BY <1>11, ConfigAssumption, EngineCalls DEF driver, FinishBatch, None
<1>12. CASE SignalCollapsed \/ TrainOnAll \/ Crash
  BY <1>12, ConfigAssumption DEF driver, SignalCollapsed, TrainOnAll, Crash, None
<1>13. CASE DynamicSampling
  BY <1>13, ConfigAssumption DEF DynamicSampling, None
<1>14. CASE Train
  BY <1>14, ConfigAssumption DEF driver, Train, PolicyType, None
<1>15. CASE MaybeValidate
  BY <1>15, MaybeValidateScalesInv
<1>16. CASE ValidateBatch
  BY <1>16, ConfigAssumption, PolicyCalls, EngineCalls
     DEF ValidateBatch, InfoType, Source, EngineType, PolicyType, None
<1>17. CASE EndValidation
  BY <1>17, ConfigAssumption, EngineCalls DEF EndValidation, InfoType, PolicyType, None
<1>18. CASE Save
  BY <1>18, ConfigAssumption, PolicyCalls
     DEF Save, InfoType, CheckpointType, CounterType, PolicyType, SavedMetric, None
<1>19. CASE EndStep
  BY <1>19, ConfigAssumption DEF EndStep, CounterType, None
<1> QED
  BY <1>1, <1>2, <1>3, <1>4, <1>5, <1>6, <1>7, <1>8, <1>9, <1>10, <1>11, <1>12, <1>13,
     <1>14, <1>15, <1>16, <1>17, <1>18, <1>19 DEF Step, Progress

-----------------------------------------------------------------------------
(* Samples *)

\* InitialValidation keeps what is known of the samples.
LEMMA InitialValidationSamplesInv == IInv /\ InitialValidation => SamplesInv'
<1> SUFFICES ASSUME IInv, InitialValidation
             PROVE  SamplesInv'
  OBVIOUS
<1>1. CASE ReadyEngine("val_start", FALSE)
  <2>1. /\ ret' = "val_start" /\ policy'.version = policy.version
        /\ engine'.scales = engine.scales
        /\ \/ NeedRefit /\ stale /\ pc' \in {"refit_offload", "refit_update"}
           \/ ~(NeedRefit /\ stale) /\ pc' = "val_start"
    BY <1>1, ReadyEngineKeeps DEF IInv
  <2> QED
    BY <2>1
       DEF InitialValidation, IInv, driver, SamplesInv, Own, InRefit, RefitPhases
<1>2. CASE pc' = "epoch" /\ UNCHANGED <<policy, engine>>
  BY <1>2
     DEF InitialValidation, IInv, driver, SamplesInv, Own, InRefit, RefitPhases
<1> QED
  BY <1>1, <1>2 DEF InitialValidation

\* NextBatch keeps what is known of the samples.
LEMMA NextBatchSamplesInv == IInv /\ NextBatch => SamplesInv'
<1> SUFFICES ASSUME IInv, NextBatch
             PROVE  SamplesInv'
  OBVIOUS
<1>1. CASE ReadyEngine("generate", TRUE)
  <2>1. /\ ret' = "generate" /\ policy'.version = policy.version
        /\ engine'.scales = engine.scales
        /\ \/ NeedRefit /\ stale /\ pc' \in {"refit_offload", "refit_update"}
           \/ ~(NeedRefit /\ stale) /\ pc' = "generate"
    BY <1>1, ReadyEngineKeeps DEF IInv
  <2> QED
    BY <2>1
       DEF NextBatch, IInv, SamplesInv, Own, InRefit, RefitPhases
<1>2. CASE pc' = "calibrate" /\ UNCHANGED <<policy, engine>>
  BY <1>2
     DEF NextBatch, IInv, SamplesInv, Own, InRefit, RefitPhases
<1> QED
  BY <1>1, <1>2 DEF NextBatch

\* Generate keeps what is known of the samples.
LEMMA GenerateSamplesInv == IInv /\ Generate => SamplesInv'
<1> SUFFICES ASSUME IInv, Generate
             PROVE  SamplesInv'
  OBVIOUS
<1>1. policy'.version = policy.version
  BY PolicyCalls DEF IInv, TypeOK, Generate
<1>2. Source = {policy.version}
  BY DEF IInv, Generate, EngineInv, Source, Live, Validating
<1>3. batch' \in Seq({{policy.version}}) /\ Len(batch') = BatchSize
  BY <1>2, SizeAssumption DEF Generate
<1>4. cache' \in Own' /\ pc' = "finish"
  BY <1>1 DEF IInv, SamplesInv, Generate, Own
<1> QED
  BY <1>1, <1>3, <1>4 DEF SamplesInv, Own, InRefit, RefitPhases

\* DynamicSampling keeps what is known of the samples.
LEMMA DynamicSamplingSamplesInv == IInv /\ DynamicSampling => SamplesInv'
<1> SUFFICES ASSUME IInv, DynamicSampling
             PROVE  SamplesInv'
  OBVIOUS
<1>1. cache \in Own /\ batch \in Own /\ Len(batch) = BatchSize
  BY DEF IInv, SamplesInv, DynamicSampling
<1>2. PICK useful \in 0..BatchSize :
         LET joined == cache \o SubSeq(batch, 1, useful)
             size   == IF useful = 0 THEN 0 ELSE Len(joined)
         IN /\ cache' = joined
            /\ IF size >= TrainSize
               THEN batch' = SubSeq(joined, 1, TrainSize) /\ pc' = "logprobs"
               ELSE /\ batch' = batch
                    /\ pc' = IF numGen <= MaxGenBatches THEN "batch" ELSE "failed"
  BY DEF DynamicSampling
<1> DEFINE joined == cache \o SubSeq(batch, 1, useful)
<1>3. SubSeq(batch, 1, useful) \in Own
  BY <1>1, SizeAssumption, SubSeqProperties DEF Own
<1>4. joined \in Own
  BY <1>1, <1>3, ConcatProperties DEF Own
<1>5. Len(joined) >= TrainSize => SubSeq(joined, 1, TrainSize) \in Own
  BY <1>4, SizeAssumption, SubSeqProperties DEF Own
<1>6. /\ cache' \in Own /\ (pc' = "logprobs" => batch' \in Own)
      /\ pc' \in {"logprobs", "batch", "failed"}
  <2>1. CASE useful = 0 \/ Len(joined) < TrainSize
    BY <1>1, <1>2, <1>4, <2>1, SizeAssumption, SMTT(40) DEF Own
  <2>2. CASE useful # 0 /\ Len(joined) >= TrainSize
    BY <1>2, <1>4, <1>5, <2>2
  <2> QED
    BY <2>1, <2>2, <1>4, SizeAssumption DEF Own
<1>7. Own' = Own
  BY DEF DynamicSampling, Own
<1> QED
  BY <1>6, <1>7 DEF SamplesInv, InRefit, RefitPhases

\* MaybeValidate keeps what is known of the samples.
LEMMA MaybeValidateSamplesInv == IInv /\ MaybeValidate => SamplesInv'
<1> SUFFICES ASSUME IInv, MaybeValidate
             PROVE  SamplesInv'
  OBVIOUS
<1>1. CASE ReadyEngine("val", TRUE)
  <2>1. /\ ret' = "val" /\ policy'.version = policy.version
        /\ engine'.scales = engine.scales
        /\ \/ NeedRefit /\ stale /\ pc' \in {"refit_offload", "refit_update"}
           \/ ~(NeedRefit /\ stale) /\ pc' = "val"
    BY <1>1, ReadyEngineKeeps DEF IInv
  <2> QED
    BY <2>1
       DEF MaybeValidate, IInv, driver, SamplesInv, Own, InRefit, RefitPhases
<1>2. CASE pc' = "save" /\ UNCHANGED <<policy, engine>>
  BY <1>2
     DEF MaybeValidate, IInv, driver, SamplesInv, Own, InRefit, RefitPhases
<1> QED
  BY <1>1, <1>2 DEF MaybeValidate

\* Every step keeps what is known of the samples.
LEMMA SamplesInvKept == IInv /\ Step => SamplesInv'
<1> SUFFICES ASSUME IInv, Step
             PROVE  SamplesInv'
  OBVIOUS
<1> USE DEF IInv, TypeOK, ReturnInv, SamplesInv, Own, InRefit, RefitPhases
<1>1. CASE Setup
  BY <1>1, NewEngineIsDummy
     DEF Setup, CounterType, PolicyType, CheckpointType, InfoType, NoInfo, None
<1>2. CASE InitialValidation
  BY <1>2, InitialValidationSamplesInv
<1>3. CASE StartEpoch
  BY <1>3 DEF StartEpoch
<1>4. CASE NextBatch
  BY <1>4, NextBatchSamplesInv
<1>5. CASE CalibrateScales \/ LogProbs \/ PrepareTraining
            \/ RefitOffload \/ RefitRelease
  BY <1>5, PolicyCalls, SMTT(40)
     DEF driver, CalibrateScales, LogProbs, PrepareTraining, RefitOffload, RefitRelease,
         PolicyType
<1>6. CASE RefitWakeWeights
  BY <1>6, EngineCalls DEF driver, RefitWakeWeights
<1>7. CASE RefitWakeKv
  BY <1>7, EngineCalls DEF driver, RefitWakeKv
<1>8. CASE RefitUpdate
  BY <1>8 DEF driver, RefitUpdate, EngineType, PolicyType
<1>9. CASE EndEpoch
  BY <1>9 DEF EndEpoch, CounterType
<1>10. CASE Generate
  BY <1>10, GenerateSamplesInv
<1>11. CASE FinishBatch
  BY <1>11, EngineCalls DEF driver, FinishBatch
<1>12. CASE SignalCollapsed \/ TrainOnAll \/ Crash
  BY <1>12 DEF driver, SignalCollapsed, TrainOnAll, Crash
<1>13. CASE DynamicSampling
  BY <1>13, DynamicSamplingSamplesInv
<1>14. CASE Train
  BY <1>14 DEF driver, Train, PolicyType
<1>15. CASE MaybeValidate
  BY <1>15, MaybeValidateSamplesInv
<1>16. CASE ValidateBatch
  BY <1>16, PolicyCalls, EngineCalls
     DEF ValidateBatch, InfoType, Source, EngineType, PolicyType
<1>17. CASE EndValidation
  BY <1>17, EngineCalls DEF EndValidation, InfoType, PolicyType
<1>18. CASE Save
  BY <1>18, PolicyCalls
     DEF Save, InfoType, CheckpointType, CounterType, PolicyType, SavedMetric
<1>19. CASE EndStep
  BY <1>19 DEF EndStep, CounterType
<1> QED
  BY <1>1, <1>2, <1>3, <1>4, <1>5, <1>6, <1>7, <1>8, <1>9, <1>10, <1>11, <1>12, <1>13,
     <1>14, <1>15, <1>16, <1>17, <1>18, <1>19 DEF Step, Progress

-----------------------------------------------------------------------------
(* Metrics *)

\* InitialValidation keeps what is known of the metrics.
LEMMA InitialValidationMetricInv == IInv /\ InitialValidation => MetricInv'
<1> SUFFICES ASSUME IInv, InitialValidation
             PROVE  MetricInv'
  OBVIOUS
<1>1. CASE ReadyEngine("val_start", FALSE)
  <2>1. /\ ret' = "val_start" /\ policy'.version = policy.version
        /\ engine'.scales = engine.scales
        /\ \/ NeedRefit /\ stale /\ pc' \in {"refit_offload", "refit_update"}
           \/ ~(NeedRefit /\ stale) /\ pc' = "val_start"
    BY <1>1, ReadyEngineKeeps DEF IInv
  <2> QED
    BY <2>1
       DEF InitialValidation, IInv, driver, MetricInv, Live, Validating, InRefit, RefitPhases
<1>2. CASE pc' = "epoch" /\ UNCHANGED <<policy, engine>>
  BY <1>2
     DEF InitialValidation, IInv, driver, MetricInv, Live, Validating, InRefit, RefitPhases
<1> QED
  BY <1>1, <1>2 DEF InitialValidation

\* Every step keeps what is known of the metrics.
LEMMA MetricInvKept == IInv /\ Step => MetricInv'
<1> SUFFICES ASSUME IInv, Step
             PROVE  MetricInv'
  OBVIOUS
<1> USE DEF IInv, TypeOK, ReturnInv, EngineInv, MetricInv, NeedRefit, Live, Validating,
        InRefit, RefitPhases
<1>1. CASE Setup
  BY <1>1, NewEngineIsDummy
     DEF Setup, CounterType, PolicyType, CheckpointType, InfoType, NoInfo, None
<1>2. CASE InitialValidation
  BY <1>2, InitialValidationMetricInv
<1>3. CASE StartEpoch
  BY <1>3 DEF StartEpoch
<1>4. CASE NextBatch
  BY <1>4, ReadyEngineKeeps DEF NextBatch, CounterType, InfoType
<1>5. CASE CalibrateScales \/ LogProbs \/ PrepareTraining
            \/ RefitOffload \/ RefitRelease
  BY <1>5, PolicyCalls
     DEF driver, CalibrateScales, LogProbs, PrepareTraining, RefitOffload, RefitRelease,
         PolicyType
<1>6. CASE RefitWakeWeights
  BY <1>6, EngineCalls DEF driver, RefitWakeWeights
<1>7. CASE RefitWakeKv
  BY <1>7, EngineCalls DEF driver, RefitWakeKv
<1>8. CASE RefitUpdate
  BY <1>8 DEF driver, RefitUpdate, EngineType, PolicyType
<1>9. CASE EndEpoch
  BY <1>9 DEF EndEpoch, CounterType
<1>10. CASE Generate
  BY <1>10, PolicyCalls, EngineCalls DEF Generate
<1>11. CASE FinishBatch
  BY <1>11, EngineCalls DEF driver, FinishBatch
<1>12. CASE SignalCollapsed \/ TrainOnAll \/ Crash
  BY <1>12 DEF driver, SignalCollapsed, TrainOnAll, Crash
<1>13. CASE DynamicSampling
  BY <1>13 DEF DynamicSampling
<1>14. CASE Train
  BY <1>14 DEF driver, Train, PolicyType
<1>15. CASE MaybeValidate
  BY <1>15, ReadyEngineKeeps DEF driver, MaybeValidate
<1>16. CASE ValidateBatch
  BY <1>16, PolicyCalls, EngineCalls
     DEF ValidateBatch, InfoType, Source, EngineType, PolicyType
<1>17. CASE EndValidation
  BY <1>17, EngineCalls DEF EndValidation, InfoType, PolicyType
<1>18. CASE Save
  BY <1>18, PolicyCalls
     DEF Save, InfoType, CheckpointType, CounterType, PolicyType, SavedMetric
<1>19. CASE EndStep
  BY <1>19 DEF EndStep, CounterType
<1> QED
  BY <1>1, <1>2, <1>3, <1>4, <1>5, <1>6, <1>7, <1>8, <1>9, <1>10, <1>11, <1>12, <1>13,
     <1>14, <1>15, <1>16, <1>17, <1>18, <1>19 DEF Step, Progress

-----------------------------------------------------------------------------
(* The GPU *)

\* NextBatch keeps who is on the GPU.
LEMMA NextBatchPhaseInv == IInv /\ NextBatch => PhaseInv'
<1> SUFFICES ASSUME IInv, NextBatch
             PROVE  PhaseInv'
  OBVIOUS
<1>1. UNCHANGED <<cfg, stale>> /\ pc = "batch"
  BY DEF NextBatch
<1>2. CASE ReadyEngine("generate", TRUE)
  BY <1>1, <1>2, ZenonT(40)
     DEF IInv, TypeOK, PolicyType, EngineType, PhaseInv, NeedRefit, Live, Validating,
         RefitPhases, ReadyEngine, OffloadAfterRefit, OffloadBeforeRefit, WakeUp
<1>3. CASE pc' = "calibrate" /\ NeedRefit /\ stale /\ UNCHANGED <<policy, engine>>
  BY <1>1, <1>3 DEF IInv, PhaseInv, NeedRefit, Live, Validating, RefitPhases
<1> QED
  BY <1>2, <1>3 DEF NextBatch

\* DynamicSampling keeps who is on the GPU.
LEMMA DynamicSamplingPhaseInv == IInv /\ DynamicSampling => PhaseInv'
<1> SUFFICES ASSUME IInv, DynamicSampling
             PROVE  PhaseInv'
  OBVIOUS
<1>1. /\ pc = "sample" /\ pc' \in {"logprobs", "batch", "failed"}
      /\ UNCHANGED <<cfg, stale, policy, engine>>
  BY DEF DynamicSampling
<1> QED
  BY <1>1 DEF IInv, PhaseInv, NeedRefit, Live, Validating, RefitPhases

\* EndValidation keeps who is on the GPU.
LEMMA EndValidationPhaseInv == IInv /\ EndValidation => PhaseInv'
<1> SUFFICES ASSUME IInv, EndValidation
             PROVE  PhaseInv'
  OBVIOUS
<1>1. /\ Validating /\ pc' \in {"failed", "save", "epoch"}
      /\ UNCHANGED <<cfg, stale, policy>>
  BY DEF EndValidation, Validating
<1>2. cfg.colocated /\ NeedRefit =>
         IF pc' = "failed" THEN engine' = engine ELSE ~engine'.weights /\ ~engine'.kv
  <2>1. cfg.valBatches \in Nat
    BY ConfigAssumption DEF IInv, TypeOK, ConfigType
  <2> QED
    BY <2>1 DEF EndValidation, FinishGeneration, IInv, TypeOK, EngineType
<1>3. NeedRefit => ~stale
  BY <1>1 DEF IInv, EngineInv, Live, Validating
<1> QED
  BY <1>1, <1>2, <1>3 DEF IInv, PhaseInv, NeedRefit, Live, Validating, RefitPhases

\* Save keeps who is on the GPU.
LEMMA SavePhaseInv == IInv /\ Save => PhaseInv'
<1> SUFFICES ASSUME IInv, Save
             PROVE  PhaseInv'
  OBVIOUS
<1>1. /\ pc = "save" /\ pc' = "step_end"
      /\ UNCHANGED <<cfg, stale, engine>>
      /\ policy' \in {policy, PrepareForTraining(policy)}
  BY DEF Save
<1>2. CASE policy' = policy
  BY <1>1, <1>2 DEF IInv, PhaseInv, NeedRefit, Live, Validating, RefitPhases
<1>3. CASE policy' = PrepareForTraining(policy)
  BY <1>1, <1>3
     DEF IInv, TypeOK, PolicyType, PhaseInv, NeedRefit, Live, Validating, RefitPhases,
         PrepareForTraining
<1> QED
  BY <1>1, <1>2, <1>3

\* Every step keeps who is on the GPU.
LEMMA PhaseInvKept == IInv /\ Step => PhaseInv'
<1> SUFFICES ASSUME IInv, Step
             PROVE  PhaseInv'
  OBVIOUS
<1> USE DEF IInv, TypeOK, ReturnInv, EngineInv, PhaseInv, NeedRefit, Live, Validating,
        RefitPhases
<1>1. CASE Setup
  BY <1>1, ConfigAssumption DEF Setup, PolicyType, EngineType, NewEngine, FinishGeneration
<1>2. CASE InitialValidation
  BY <1>2, ConfigAssumption
     DEF driver, InitialValidation, ReadyEngine, OffloadAfterRefit, OffloadBeforeRefit,
         WakeUp, PolicyType, EngineType
<1>3. CASE StartEpoch
  BY <1>3, ConfigAssumption DEF StartEpoch
<1>4. CASE NextBatch
  BY <1>4, NextBatchPhaseInv
<1>5. CASE CalibrateScales \/ LogProbs \/ PrepareTraining
            \/ RefitOffload \/ RefitRelease
  BY <1>5, ConfigAssumption, ZenonT(40)
     DEF driver, CalibrateScales, LogProbs, PrepareTraining, RefitOffload, RefitRelease,
         PrepareForLpInference, PrepareForTraining, OffloadBeforeRefit, OffloadAfterRefit,
         PolicyType
<1>6. CASE RefitWakeWeights
  BY <1>6, ConfigAssumption DEF driver, RefitWakeWeights, WakeUp, EngineType
<1>7. CASE RefitWakeKv
  BY <1>7, ConfigAssumption DEF driver, RefitWakeKv, WakeUp, EngineType
<1>8. CASE RefitUpdate
  BY <1>8, ConfigAssumption DEF driver, RefitUpdate, EngineType
<1>9. CASE EndEpoch
  BY <1>9, ConfigAssumption DEF EndEpoch
<1>10. CASE Generate
  BY <1>10, ConfigAssumption
     DEF Generate, ReloadForGenerate, Generated, PolicyType, EngineType
<1>11. CASE FinishBatch
  BY <1>11, ConfigAssumption DEF driver, FinishBatch, FinishGeneration, EngineType
<1>12. CASE SignalCollapsed \/ TrainOnAll \/ Crash
  BY <1>12, ConfigAssumption DEF driver, SignalCollapsed, TrainOnAll, Crash
<1>13. CASE DynamicSampling
  BY <1>13, DynamicSamplingPhaseInv
<1>14. CASE Train
  BY <1>14, ConfigAssumption DEF driver, Train, PolicyType
<1>15. CASE MaybeValidate
  BY <1>15, ConfigAssumption
     DEF driver, MaybeValidate, ReadyEngine, OffloadAfterRefit, OffloadBeforeRefit, WakeUp,
         PolicyType, EngineType
<1>16. CASE ValidateBatch
  BY <1>16, ConfigAssumption
     DEF ValidateBatch, ReloadForGenerate, Generated, PolicyType, EngineType
<1>17. CASE EndValidation
  BY <1>17, EndValidationPhaseInv
<1>18. CASE Save
  BY <1>18, SavePhaseInv
<1>19. CASE EndStep
  BY <1>19, ConfigAssumption DEF EndStep
<1> QED
  BY <1>1, <1>2, <1>3, <1>4, <1>5, <1>6, <1>7, <1>8, <1>9, <1>10, <1>11, <1>12, <1>13,
     <1>14, <1>15, <1>16, <1>17, <1>18, <1>19 DEF Step, Progress

-----------------------------------------------------------------------------
(* Steps and what is saved of them *)

\* From setup to the first epoch.
Starting == pc \in {"start", "val_start"} \/ InRefit({"val_start"})

\* A move of the driver within a step, back to the loader for another batch of
\* dynamic sampling, within the start, or out of the run.
Move ==
    \/ pc' \in {"failed", "setup"}
    \/ Starting /\ Starting'
    \/ Starting /\ pc' = "epoch"
    \/ InStep /\ pc # "step_end" /\ InStep' /\ pc' # "step_end"
    \/ InStep /\ pc # "step_end" /\ cfg.dynamic /\ pc' = "batch"

Quiet == UNCHANGED <<cfg, at, disk>> /\ Move

\* Making the engine ready, in a step or at the start.
LEMMA ReadyEngineMoves ==
    ASSUME IInv, NEW next \in {"val", "val_start", "generate"}, NEW offload,
           ReadyEngine(next, offload)
    PROVE  /\ policy'.version = policy.version
           /\ next = "val_start" => Starting'
           /\ next # "val_start" => InStep' /\ pc' # "step_end"
<1>1. /\ ret' = next /\ policy'.version = policy.version
      /\ pc' \in {"refit_offload", "refit_update", next}
  BY ReadyEngineKeeps DEF IInv
<1> QED
  BY <1>1 DEF Starting, InStep, InRefit, RefitPhases

\* Most of the actions move the driver and leave the counters alone.
LEMMA QuietSteps ==
    ASSUME IInv,
           \/ InitialValidation \/ CalibrateScales \/ RefitOffload \/ RefitWakeWeights
           \/ RefitUpdate \/ RefitRelease \/ RefitWakeKv \/ Generate \/ FinishBatch
           \/ SignalCollapsed \/ TrainOnAll \/ DynamicSampling \/ LogProbs \/ PrepareTraining
           \/ MaybeValidate \/ ValidateBatch \/ EndValidation \/ Crash
    PROVE  Quiet /\ policy'.version = policy.version
<1> USE DEF Quiet, Move, driver
<1>1. CASE InitialValidation
  <2>1. CASE ReadyEngine("val_start", FALSE)
    BY <1>1, <2>1, ReadyEngineMoves DEF InitialValidation, Starting
  <2>2. CASE pc' = "epoch" /\ UNCHANGED policy
    BY <1>1, <2>2 DEF InitialValidation, Starting
  <2> QED
    BY <1>1, <2>1, <2>2 DEF InitialValidation
<1>2. CASE CalibrateScales
  <2>1. policy'.version = policy.version
    BY <1>2, PolicyCalls DEF CalibrateScales, IInv, TypeOK
  <2> QED
    BY <1>2, <2>1 DEF CalibrateScales, InStep, InRefit, RefitPhases
<1>3. CASE RefitOffload \/ RefitRelease
  <2>1. policy'.version = policy.version
    BY <1>3, PolicyCalls DEF RefitOffload, RefitRelease, IInv, TypeOK
  <2> QED
    BY <1>3, <2>1
       DEF RefitOffload, RefitRelease, InStep, Starting, InRefit, RefitPhases, IInv, ReturnInv
<1>4. CASE RefitWakeWeights
  BY <1>4 DEF RefitWakeWeights, InStep, Starting, InRefit, RefitPhases, IInv, ReturnInv
<1>5. CASE RefitUpdate
  BY <1>5 DEF RefitUpdate, InStep, Starting, InRefit, RefitPhases, IInv, ReturnInv
<1>6. CASE RefitWakeKv
  BY <1>6 DEF RefitWakeKv, InStep, Starting, InRefit, RefitPhases, IInv, ReturnInv
<1>7. CASE Generate
  BY <1>7, PolicyCalls DEF Generate, InStep, InRefit, RefitPhases, IInv, TypeOK
<1>8. CASE FinishBatch \/ SignalCollapsed \/ TrainOnAll
  BY <1>8 DEF FinishBatch, SignalCollapsed, TrainOnAll, InStep, InRefit, RefitPhases
<1>9. CASE DynamicSampling
  <2>1. /\ pc = "sample" /\ cfg.dynamic /\ pc' \in {"logprobs", "batch", "failed"}
        /\ UNCHANGED <<cfg, at, disk, policy>>
    BY <1>9 DEF DynamicSampling
  <2> QED
    BY <2>1 DEF InStep, InRefit, RefitPhases
<1>10. CASE LogProbs \/ PrepareTraining
  <2>1. policy'.version = policy.version
    BY <1>10, PolicyCalls DEF LogProbs, PrepareTraining, IInv, TypeOK
  <2> QED
    BY <1>10, <2>1 DEF LogProbs, PrepareTraining, InStep, InRefit, RefitPhases
<1>11. CASE MaybeValidate
  <2>1. CASE ReadyEngine("val", TRUE)
    BY <1>11, <2>1, ReadyEngineMoves DEF MaybeValidate, InStep
  <2>2. CASE pc' = "save" /\ UNCHANGED policy
    BY <1>11, <2>2 DEF MaybeValidate, InStep
  <2> QED
    BY <1>11, <2>1, <2>2 DEF MaybeValidate
<1>12. CASE ValidateBatch
  BY <1>12, PolicyCalls
     DEF ValidateBatch, InStep, Starting, InRefit, RefitPhases, IInv, TypeOK
<1>13. CASE EndValidation
  BY <1>13 DEF EndValidation, InStep, Starting, InRefit, RefitPhases
<1>14. CASE Crash
  BY <1>14 DEF Crash
<1> QED
  BY <1>1, <1>2, <1>3, <1>4, <1>5, <1>6, <1>7, <1>8, <1>9, <1>10, <1>11, <1>12, <1>13,
     <1>14

\* Moves keep the count of steps.
LEMMA QuietStepInv == IInv /\ Quiet => StepInv'
BY DEF IInv, StepInv, Quiet, Move, Starting, Live, InStep, InRefit, RefitPhases

\* Moves keep what is saved.
LEMMA QuietWorkInv == IInv /\ Quiet /\ policy'.version = policy.version => WorkInv'
<1> SUFFICES ASSUME IInv, Quiet, policy'.version = policy.version, cfg.saving
             PROVE  WorkInv'
  BY DEF WorkInv, Quiet
<1>1. Live' => Live /\ Decided' = Decided
  BY DEF Quiet, Move, Live, Decided, Starting, InStep, InRefit, RefitPhases
<1>2. Starting' \/ pc' = "epoch" => Starting
  BY DEF Quiet, Move, Starting, InStep, InRefit, RefitPhases
<1>3. pc' = "batch" => cfg.dynamic
  BY DEF Quiet, Move, Starting, InStep, InRefit, RefitPhases
<1>4. pc' \notin {"step_end", "done"}
  BY DEF Quiet, Move, Starting, InStep, InRefit, RefitPhases
<1>5. UNCHANGED <<cfg, at, disk>>
  BY DEF Quiet
<1> QED
  BY <1>1, <1>2, <1>3, <1>4, <1>5 DEF IInv, WorkInv, Starting

-----------------------------------------------------------------------------
\* Every step keeps the count of steps.
LEMMA StepInvKept == IInv /\ Step => StepInv'
<1> SUFFICES ASSUME IInv, Step
             PROVE  StepInv'
  OBVIOUS
<1> USE DEF IInv, TypeOK, StepInv, Live
<1>1. CASE Setup
  BY <1>1 DEF Setup, CheckpointType, InStep, InRefit, RefitPhases
<1>2. CASE StartEpoch
  BY <1>2 DEF StartEpoch, InStep, InRefit, RefitPhases
<1>3. CASE NextBatch
  <2>1. /\ pc = "batch" /\ ~InStep
        /\ UNCHANGED <<cfg, disk>>
        /\ at' = [at EXCEPT !.loader = @ + 1, !.seen = @ + 1]
    BY <1>3 DEF NextBatch, InStep, InRefit, RefitPhases
  <2>2. InStep'
    <3>1. CASE ReadyEngine("generate", TRUE)
      BY <3>1, ReadyEngineMoves
    <3>2. CASE pc' = "calibrate"
      BY <3>2 DEF InStep
    <3> QED
      BY <1>3, <3>1, <3>2 DEF NextBatch
  <2> QED
    BY <2>1, <2>2 DEF CounterType
<1>4. CASE EndEpoch
  BY <1>4 DEF EndEpoch, CounterType, InStep, InRefit, RefitPhases
<1>5. CASE Train
  BY <1>5 DEF Train, driver, InStep, InRefit, RefitPhases
<1>6. CASE Save
  <2>1. /\ pc = "save" /\ pc' = "step_end" /\ UNCHANGED <<cfg, at>>
        /\ \/ UNCHANGED disk
           \/ disk'.step = at.step + 1 /\ disk'.loader = at.loader
    BY <1>6 DEF Save
  <2> QED
    BY <2>1 DEF InStep
<1>7. CASE EndStep
  <2>1. /\ pc = "step_end" /\ InStep /\ ~InStep' /\ UNCHANGED <<cfg, disk>>
        /\ at' = [at EXCEPT !.step = @ + 1, !.total = @ + 1]
        /\ pc' = "batch" => at.total + 1 < cfg.maxSteps
    BY <1>7, ConfigAssumption DEF EndStep, InStep, InRefit, RefitPhases, CounterType, ConfigType
  <2> QED
    BY <2>1 DEF CounterType
<1> QED
  BY <1>1, <1>2, <1>3, <1>4, <1>5, <1>6, <1>7, QuietSteps, QuietStepInv DEF Step, Progress

\* What a save leaves: the steps decided since the newest checkpoint are fewer
\* than a period, and none when the step was saved.
LEMMA SaveWorkInv == IInv /\ Save => WorkInv'
<1> SUFFICES ASSUME IInv, Save, cfg.saving
             PROVE  WorkInv'
  BY DEF WorkInv, Save
<1>1. /\ pc = "save" /\ pc' = "step_end" /\ UNCHANGED <<cfg, at>>
      /\ policy'.version = policy.version
  BY PolicyCalls DEF Save, IInv, TypeOK
<1>2. /\ policy.version = at.total + 1
      /\ at.total - disk.total <= at.total % SavePeriod
      /\ at.total \in Nat /\ disk.total \in Nat /\ disk.version = disk.total
  BY <1>1 DEF IInv, TypeOK, CounterType, CheckpointType, CountInv, DiskInv, WorkInv, Live,
              Ahead, Decided
<1>3. IsLastStep' = IsLastStep
  BY <1>1 DEF IsLastStep
<1>4. SavePeriod \in Nat \ {0}
  BY SizeAssumption
<1>5. /\ at.total % SavePeriod \in 0..(SavePeriod - 1)
      /\ (at.total + 1) % SavePeriod \in 0..(SavePeriod - 1)
      /\ (at.total + 1) % SavePeriod # 0 =>
           (at.total + 1) % SavePeriod = (at.total % SavePeriod) + 1
  <2>1. at.total \in Nat /\ at.total + 1 \in Nat
    BY <1>2
  <2> HIDE <1>2
  <2> QED
    BY <1>4, <2>1, NextMod
<1>6. Decided' = at.total + 1
  BY <1>1 DEF Decided
<1>7. CASE IsLastStep \/ (at.total + 1) % SavePeriod = 0 \/ timed'
  <2>1. disk'.total = at.total + 1 /\ disk'.version = policy.version
    BY <1>7 DEF Save
  <2> QED
    BY <1>1, <1>2, <1>3, <1>4, <1>5, <1>6, <2>1 DEF WorkInv, InRefit, RefitPhases
<1>8. CASE ~(IsLastStep \/ (at.total + 1) % SavePeriod = 0 \/ timed')
  <2>1. disk' = disk
    BY <1>8 DEF Save
  <2> QED
    BY <1>1, <1>2, <1>3, <1>4, <1>5, <1>6, <1>8, <2>1 DEF WorkInv, InRefit, RefitPhases
<1> QED
  BY <1>7, <1>8

\* Every step keeps what is saved.
LEMMA WorkInvKept == IInv /\ Step => WorkInv'
<1> SUFFICES ASSUME IInv, Step
             PROVE  WorkInv'
  OBVIOUS
<1>0. SavePeriod \in Nat \ {0} /\ Batches \in Nat \ {0} /\ MaxEpochs \in Nat
  BY SizeAssumption
<1>1. CASE Setup
  <2>1. /\ pc' = "start" /\ UNCHANGED <<cfg, disk>>
        /\ policy'.version = disk.version /\ at'.total = disk.total
        /\ disk.total \in Nat /\ disk.version \in Nat
    BY <1>1 DEF Setup, IInv, TypeOK, CheckpointType
  <2>2. disk.total % SavePeriod \in 0..(SavePeriod - 1)
    BY <1>0, <2>1, NextMod
  <2> QED
    BY <1>0, <2>1, <2>2 DEF WorkInv, Decided
<1>2. CASE StartEpoch
  <2>1. /\ pc = "epoch" /\ UNCHANGED <<cfg, at, disk, policy>>
        /\ pc' \in {"batch", "done"}
        /\ pc' = "done" => at.epoch >= MaxEpochs \/ at.total >= cfg.maxSteps
    BY <1>2, <1>0, ConfigAssumption
       DEF StartEpoch, IInv, TypeOK, CounterType, ConfigType
  <2>2. Decided' = Decided /\ Live /\ Live'
    BY <2>1 DEF Decided, Live
  <2>3. at.epoch \in Nat /\ at.total \in Nat /\ cfg.maxSteps \in Nat
    BY ConfigAssumption DEF IInv, TypeOK, CounterType, ConfigType
  <2> QED
    BY <1>0, <2>1, <2>2, <2>3 DEF IInv, WorkInv, InRefit, RefitPhases
<1>3. CASE NextBatch
  <2>1. /\ pc = "batch" /\ UNCHANGED <<cfg, disk>>
        /\ at'.total = at.total
    BY <1>3 DEF NextBatch, IInv, TypeOK, CounterType
  <2>2. policy'.version = policy.version /\ InStep' /\ pc' # "step_end"
    <3>1. CASE ReadyEngine("generate", TRUE)
      BY <3>1, ReadyEngineMoves
    <3>2. CASE pc' = "calibrate" /\ UNCHANGED policy
      BY <3>2 DEF InStep
    <3> QED
      BY <1>3, <3>1, <3>2 DEF NextBatch
  <2> QED
    BY <2>1, <2>2
       DEF IInv, WorkInv, Decided, Live, InStep, InRefit, RefitPhases
<1>4. CASE EndEpoch
  <2>1. /\ pc = "batch" /\ at.loader = Batches /\ pc' = "epoch"
        /\ UNCHANGED <<cfg, disk, policy>>
        /\ at'.loader = 0 /\ at'.epoch = at.epoch + 1 /\ at'.total = at.total
    BY <1>4 DEF EndEpoch, IInv, TypeOK, CounterType
  <2>2. at.epoch < MaxEpochs /\ at.total < cfg.maxSteps /\ at.epoch \in Nat
    BY <2>1 DEF IInv, StepInv, TypeOK, CounterType
  <2> QED
    BY <1>0, <2>1, <2>2 DEF IInv, WorkInv, Decided, Live, InRefit, RefitPhases
<1>5. CASE Train
  <2>1. /\ pc = "train" /\ pc' = "trained" /\ UNCHANGED <<cfg, at, disk>>
        /\ policy'.version = policy.version + 1
    BY <1>5 DEF Train, driver, IInv, TypeOK, PolicyType
  <2>2. /\ policy.version = at.total /\ disk.version = disk.total
        /\ at.total \in Nat /\ disk.total \in Nat
    BY <2>1 DEF IInv, TypeOK, CounterType, CheckpointType, CountInv, DiskInv, Live, Ahead,
                InRefit, RefitPhases
  <2>3. at.total % SavePeriod \in 0..(SavePeriod - 1)
    BY <1>0, <2>2, NextMod
  <2> QED
    BY <1>0, <2>1, <2>2, <2>3 DEF IInv, WorkInv, Decided, Live, InRefit, RefitPhases
<1>6. CASE Save
  BY <1>6, SaveWorkInv
<1>7. CASE EndStep
  <2>1. /\ pc = "step_end" /\ pc' \in {"batch", "done"} /\ UNCHANGED <<cfg, disk, policy>>
        /\ at' = [at EXCEPT !.step = @ + 1, !.total = @ + 1]
        /\ pc' = "done" => timed \/ at.total + 1 >= cfg.maxSteps
    BY <1>7 DEF EndStep
  <2>2. /\ at'.total = at.total + 1 /\ at'.loader = at.loader /\ at'.epoch = at.epoch
        /\ at.step \in Nat
    BY <2>1 DEF IInv, TypeOK, CounterType
  <2>3. Live /\ Live' /\ Decided' = Decided
    BY <2>1, <2>2 DEF Decided, Live
  <2>4. pc' = "done" /\ cfg.saving => disk.total = at.total + 1
    BY <2>1 DEF IInv, WorkInv, IsLastStep
  <2>5. ~cfg.dynamic => at.loader = at.step + 1
    BY <2>1 DEF IInv, StepInv, Live, InStep
  <2>6. /\ cfg.saving /\ ~cfg.dynamic /\ at.loader = Batches /\ at.epoch + 1 = MaxEpochs
        => disk.total = at.total + 1
    BY <2>1, <2>5 DEF IInv, WorkInv, IsLastStep
  <2> QED
    BY <2>1, <2>2, <2>3, <2>4, <2>6 DEF IInv, WorkInv, InRefit, RefitPhases
<1> QED
  BY <1>1, <1>2, <1>3, <1>4, <1>5, <1>6, <1>7, QuietSteps, QuietWorkInv DEF Step, Progress

-----------------------------------------------------------------------------
\* No step, restart or stutter breaks the invariant.
LEMMA NextIInv == IInv /\ [Next]_vars => IInv'
<1> SUFFICES ASSUME IInv, [Next]_vars
             PROVE  IInv'
  OBVIOUS
<1>1. CASE Step
  BY <1>1, TypeOKKept, ReturnInvKept, CountInvKept, DiskInvKept, EngineInvKept, ScalesInvKept,
     SamplesInvKept, MetricInvKept, PhaseInvKept, StepInvKept, WorkInvKept DEF IInv
<1>2. CASE UNCHANGED vars
  <2> USE <1>2 DEF IInv, vars
  <2>1. TypeOK' /\ ReturnInv' /\ DiskInv'
    BY DEF TypeOK, ReturnInv, RefitPhases, DiskInv
  <2>2. CountInv' /\ SamplesInv' /\ MetricInv'
    BY DEF CountInv, SamplesInv, MetricInv, Live, Validating, Ahead, InRefit, RefitPhases, Own
  <2>3. EngineInv' /\ ScalesInv'
    BY DEF EngineInv, ScalesInv, ScalesReady, Live, Validating, InRefit, RefitPhases,
       NeedRefit
  <2>4. PhaseInv'
    BY DEF PhaseInv, Live, Validating, RefitPhases, NeedRefit
  <2>5. StepInv' /\ WorkInv'
    BY DEF StepInv, WorkInv, Decided, IsLastStep, Live, InStep, InRefit, RefitPhases
  <2> QED
    BY <2>1, <2>2, <2>3, <2>4, <2>5
<1> QED
  BY <1>1, <1>2 DEF Next, Step, Ended

\* The invariant holds in every run.
LEMMA Invariance == Spec => []IInv
BY InitIInv, NextIInv, PTL DEF Spec

\* The variables keep their types.
THEOREM TypeCorrect == Spec => []TypeOK
BY Invariance, PTL DEF IInv

\* Every sample a step trains on comes from the weights the step starts from,
\* and an fp8 engine's scales from those weights too: for every configuration,
\* however many batches dynamic sampling joins, validations come between and
\* restarts there are (the engine's flag and the cache of grpo_train).
THEOREM TrainsOnPolicy == Spec => []OnPolicy
<1>1. IInv => OnPolicy
  <2> SUFFICES ASSUME IInv, pc = "train"
               PROVE  /\ \A i \in DOMAIN batch : batch[i] = {policy.version}
                      /\ cfg.fp8 => \/ engine.scales = policy.version
                                    \/ cfg.valAtStart /\ engine.scales = None
    BY DEF OnPolicy
  <2>1. \A i \in DOMAIN batch : batch[i] = {policy.version}
    BY DEF IInv, SamplesInv, Own
  <2>2. cfg.fp8 => ScalesReady
    BY DEF IInv, ScalesInv, Live
  <2> QED
    BY <2>1, <2>2 DEF ScalesReady
<1> QED
  BY <1>1, Invariance, PTL

\* Policy and engine never hold the GPU against each other, and each phase
\* finds there what it computes with (prepare_for_*, offload_*, wake-up and
\* sleep of a colocated engine).
THEOREM GpuIsShared == Spec => []GpuShared
<1>1. IInv => GpuShared
  BY DEF IInv, PhaseInv, GpuShared, Live, Validating, RefitPhases
<1> QED
  BY <1>1, Invariance, PTL

\* What a checkpoint holds, and a run goes on from, is of one step: no batch is
\* skipped or taken twice through epochs and restarts, and the metric is that
\* of the weights.
THEOREM CheckpointsAreOfOneStep == Spec => []StateOfOneStep
<1>1. IInv => StateOfOneStep
  BY DEF IInv, CountInv, DiskInv, StateOfOneStep, LoaderFollowsCounters, MetricOfItsWeights,
         Live, Ahead, InRefit, RefitPhases
<1> QED
  BY <1>1, Invariance, PTL

\* A run with checkpoints has a save period of steps to lose at most, and leaves
\* its final weights on disk when it comes to its end: for every period, number
\* of batches and limit, through dynamic sampling, stops by the clock, crashes
\* and restarts from any checkpoint (is_last_step, save_period and
\* should_save_by_timeout of grpo_train).
THEOREM LosesAPeriodAtMost == Spec => []WorkIsSaved
<1>1. IInv => WorkIsSaved
  <2> SUFFICES ASSUME IInv, cfg.saving
               PROVE  /\ policy.version - disk.version <= SavePeriod
                      /\ pc = "done" => \/ disk.version = policy.version
                                        \/ cfg.dynamic /\ at.epoch = MaxEpochs
    BY DEF WorkIsSaved
  <2>1. pc = "done" => policy.version = at.total
    BY DEF IInv, CountInv, Live, Ahead, InRefit, RefitPhases
  <2>2. disk.version = disk.total
    BY DEF IInv, DiskInv
  <2> QED
    BY <2>1, <2>2 DEF IInv, WorkInv
<1> QED
  BY <1>1, Invariance, PTL
=============================================================================
