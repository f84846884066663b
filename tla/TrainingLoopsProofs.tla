-------------------------- MODULE TrainingLoopsProofs --------------------------
(***************************************************************************)
(* What holds of the SFT, DPO, RM and distillation drivers for every set   *)
(* of configurations, every size of epochs, batches, validation sets and   *)
(* save periods, and any number of restarts.                               *)
(***************************************************************************)
EXTENDS TrainingLoops, TLAPS, FiniteSetTheorems, SequenceTheorems

Position == [step: Nat, total: Nat, epoch: Nat, loader: 0..Batches, consumed: Nat]
Phases == {"setup", "start", "validate", "epoch", "batch", "reference", "generate",
           "teacher", "prepare", "train", "trained", "save", "step_end", "done"}

Live == pc # "setup"
ValidatingStep == pc = "validate" /\ ret = "save"
ValidatingStart == pc = "validate" /\ ret = "epoch"

\* A step from its batch to the count of it, and the part of it after training.
Training == pc \in {"reference", "generate", "teacher", "prepare", "train"}
Ahead == pc \in {"trained", "save", "step_end"} \/ ValidatingStep
InStep == Training \/ Ahead

\* Whose phases these are.
PhaseInv ==
    /\ pc = "validate" => ret \in {"epoch", "save"}
    /\ pc = "reference" => cfg.alg = "dpo"
    /\ pc \in {"generate", "teacher", "prepare"} => Distillation

-----------------------------------------------------------------------------
(* Positions *)

\* A position between two steps: so many batches taken in so many epochs, every one of
\* them a step.  At the end of an epoch, a restored step may be 0 already.
AtRest(p) ==
    /\ p.total = p.epoch * Batches + p.loader
    /\ p.total % Batches = p.loader % Batches
    /\ p.consumed = p.total
    /\ p.step = p.loader \/ p.loader = Batches
    /\ p.epoch <= MaxEpochs
    /\ p.loader > 0 => p.epoch < MaxEpochs
    /\ Unlimited \/ p.total <= cfg.maxSteps

\* Where the step under way will leave the counters.
After == [step |-> at.step + 1, total |-> at.total + 1, epoch |-> at.epoch,
          loader |-> at.loader,
          consumed |-> IF pc = "step_end" THEN at.consumed ELSE at.consumed + 1]

StepInv ==
    /\ Live => policy.trained = InOrder(IF Ahead THEN at.total + 1 ELSE at.total)
    /\ Live /\ ~InStep => AtRest(at)
    /\ InStep => /\ AtRest(After)
                 /\ at.loader = at.step + 1
                 /\ at.total % Batches = at.step
                 /\ batch.index = at.loader
    /\ InStep \/ pc = "batch" => at.epoch < MaxEpochs /\ WithinLimit(at.total)

DiskInv == AtRest(disk) /\ disk.trained = InOrder(disk.total)

\* A run stops where its limits say, or when time is out.
DoneInv == pc = "done" /\ ~timed => ~WithinLimit(at.total) \/ at.epoch = MaxEpochs

-----------------------------------------------------------------------------
(* Checkpoints *)

\* The steps that could have been saved by now.
Decided == IF pc = "step_end" THEN at.total + 1 ELSE at.total

Saved == disk.trained = policy.trained

WorkInv ==
    cfg.saving =>
      /\ ~Live => Len(policy.trained) - disk.total <= SavePeriod
      /\ Live => Decided - disk.total <= Decided % SavePeriod
      /\ pc \in {"start", "done"} \/ ValidatingStart => Saved
      /\ pc = "epoch" /\ (at.epoch = MaxEpochs \/ ~WithinLimit(at.total) \/ at.loader # 0) =>
           Saved
      /\ pc = "batch" /\ at.loader = Batches /\ at.epoch + 1 = MaxEpochs => Saved
      /\ pc = "step_end" /\ (timed \/ IsLastStep) => Saved

\* A metric of these weights over the samples to count, and one of every set.
Good(m, weights) ==
    /\ m.weights = weights
    /\ m.samples = [i \in 1..ValSamples |-> IF i \in ToCount(m.set) THEN 1 ELSE 0]
Sets(metrics) == {m.set : m \in metrics}
AllGood(metrics, weights) == \A m \in metrics : Good(m, weights)

\* The samples looked at: whole batches within the limit, or all of the set.
SeenInv ==
    /\ val.seen <= ValSamples
    /\ \/ cfg.valBatches = 0 /\ ~Distillation
       \/ val.seen <= cfg.valBatches * ValBatchSize
    /\ val.seen = ValSamples \/ \E k \in Nat : val.seen = k * ValBatchSize

CountedSoFar ==
    [i \in 1..ValSamples |-> IF i <= val.seen /\ i \in ToCount(val.set) THEN 1 ELSE 0]

MetricInv ==
    /\ pc = "validate" => /\ SeenInv /\ val.counted = CountedSoFar
                          /\ AllGood(val.metrics, policy.trained)
                          /\ Sets(val.metrics) = 1..(val.set - 1)
    /\ Training \/ pc = "trained" => val.metrics = {}
    /\ pc = "save" => /\ AllGood(val.metrics, policy.trained)
                      /\ val.metrics = {} \/ Sets(val.metrics) = 1..cfg.sets
    /\ \A i \in {info, disk.info} : /\ ~cfg.metric => i.named = {}
                                    /\ cfg.alg = "sft" => i.all = {}
    /\ MetricOfItsCheckpoint

-----------------------------------------------------------------------------
(* What a step is made with *)

\* An engine that is not stale holds the student's weights.
EngineInv ==
    /\ Live /\ cfg.alg = "dpo" => policy.ref = <<>>
    /\ pc = "train" /\ cfg.alg = "dpo" => batch.ref = <<>>
    /\ Live /\ Distillation =>
         /\ ~stale => engine.holds = policy.trained
         /\ pc \in {"validate", "generate"} => ~stale
         /\ pc \in {"start", "train", "trained"} => stale
         /\ pc \in {"teacher", "prepare", "train"} => batch.from = policy.trained

\* The steps that are finished but for their count, and whether the last of them validated.
Finished == IF pc \in {"save", "step_end"} THEN at.total + 1 ELSE at.total
ValidatedAfter(n) == cfg.valPeriod > 0 /\ n % cfg.valPeriod = 0

\* Who is on the GPU, phase by phase: where the engine is not stale, the student is
\* there only if a checkpoint was saved right after a validation.
GpuInv ==
    Live /\ cfg.colocated =>
      /\ engine.awake => pc \in {"validate", "generate"}
      /\ teacher = "gpu" => pc = "prepare"
      /\ pc \in {"generate", "teacher", "prepare"} => ~stale
      /\ (pc \in {"save", "step_end"} /\ ~stale) \/ ValidatingStep => ValidatedAfter(at.total + 1)
      /\ policy.model = "gpu" => pc # "validate"
      /\ policy.model = "gpu" /\ ~stale => disk.total = Finished /\ ValidatedAfter(disk.total)

IInv == TypeOK /\ PhaseInv /\ StepInv /\ DiskInv /\ DoneInv /\ WorkInv /\ MetricInv
          /\ EngineInv /\ GpuInv

-----------------------------------------------------------------------------
(* Counting steps *)

\* The rest of a division is its remainder.
LEMMA Remainder ==
    ASSUME NEW p \in Nat \ {0}, NEW n \in Nat, NEW q \in Int, NEW r \in 0..(p - 1),
           n = q * p + r
    PROVE  n % p = r
OBVIOUS

\* Every number is so many times p and a rest.
LEMMA Division ==
    ASSUME NEW p \in Nat \ {0}, NEW n \in Nat
    PROVE  \E q \in Nat, r \in 0..(p - 1) : n = q * p + r /\ n % p = r
<1>1. /\ n % p \in 0..(p - 1)
      /\ n \div p \in Nat
      /\ n = p * (n \div p) + (n % p)
  OBVIOUS
<1> DEFINE q == n \div p
           r == n % p
<1>2. q \in Nat /\ r \in 0..(p - 1) /\ n = p * q + r /\ n % p = r
  BY <1>1
<1> HIDE DEF q, r
<1> QED
  BY <1>2

\* Remainders go up by one until they start over.
LEMMA NextRemainder ==
    ASSUME NEW p \in Nat \ {0}, NEW n \in Nat
    PROVE  /\ n % p \in 0..(p - 1)
           /\ (n + 1) % p = IF n % p = p - 1 THEN 0 ELSE (n % p) + 1
<1>1. PICK q \in Nat, r \in 0..(p - 1) : n = q * p + r /\ n % p = r
  BY Division
<1> DEFINE R(k) == k % p
<1>2. R(n) = r
  BY <1>1
<1>3. CASE r = p - 1
  <2>1. n + 1 = (q + 1) * p + 0 /\ q + 1 \in Int /\ 0 \in 0..(p - 1)
    BY <1>1, <1>3
  <2>2. R(n + 1) = 0
    <3>1. PICK m \in Nat : m = n + 1
      OBVIOUS
    <3>2. m % p = 0
      <4>1. PICK w \in 0..(p - 1) : w = 0
        BY <2>1
      <4>2. PICK u \in Int : m = u * p + w
        BY <2>1, <3>1, <4>1
      <4> QED
        BY <4>1, <4>2, Remainder
    <3> QED
      BY <3>1, <3>2
  <2> HIDE DEF R
  <2>3. R(n) \in 0..(p - 1) /\ R(n + 1) = IF R(n) = p - 1 THEN 0 ELSE R(n) + 1
    BY <1>2, <1>3, <2>2
  <2> QED
    BY <2>3 DEF R
<1>4. CASE r # p - 1
  <2>1. n + 1 = q * p + (r + 1) /\ r + 1 \in 0..(p - 1)
    BY <1>1, <1>4
  <2>2. R(n + 1) = r + 1
    <3>1. PICK m \in Nat : m = n + 1
      OBVIOUS
    <3>2. m % p = r + 1
      <4>1. PICK w \in 0..(p - 1) : w = r + 1
        BY <2>1
      <4>2. PICK u \in Int : m = u * p + w
        BY <2>1, <3>1, <4>1
      <4> QED
        BY <4>1, <4>2, Remainder
    <3> QED
      BY <3>1, <3>2
  <2> HIDE DEF R
  <2>3. R(n) \in 0..(p - 1) /\ R(n + 1) = IF R(n) = p - 1 THEN 0 ELSE R(n) + 1
    BY <1>2, <1>4, <2>2
  <2> QED
    BY <2>3 DEF R
<1> QED
  BY <1>3, <1>4

\* The history of one step more ends with the batch the remainder tells.
LEMMA OneMoreInOrder ==
    ASSUME NEW n \in Nat
    PROVE  /\ InOrder(n) \in Weights
           /\ Len(InOrder(n)) = n
           /\ Append(InOrder(n), (n % Batches) + 1) = InOrder(n + 1)
<1> DEFINE B(i) == ((i - 1) % Batches) + 1
<1>1. \A i \in Nat \ {0} : B(i) \in 1..Batches
  <2> TAKE i \in Nat \ {0}
  <2>1. (i - 1) % Batches \in 0..(Batches - 1)
    BY SizeAssumption, NextRemainder
  <2> QED
    BY <2>1, SizeAssumption
<1>2. InOrder(n) \in Weights /\ InOrder(n + 1) \in Weights
  BY <1>1 DEF InOrder, Weights
<1>3. Len(InOrder(n)) = n /\ Len(InOrder(n + 1)) = n + 1
  BY DEF InOrder
<1>4. Append(InOrder(n), B(n + 1)) = InOrder(n + 1)
  <2> HIDE DEF B
  <2>1. InOrder(n) = [i \in 1..n |-> B(i)] /\ InOrder(n + 1) = [i \in 1..(n + 1) |-> B(i)]
    BY DEF InOrder, B
  <2> QED
    BY <2>1
<1>5. B(n + 1) = (n % Batches) + 1
  OBVIOUS
<1> QED
  BY <1>2, <1>3, <1>4, <1>5

\* A position counts no more steps than there are batches in all epochs.
LEMMA StepsOfEpochs ==
    ASSUME NEW p \in Position, AtRest(p)
    PROVE  /\ p.total <= MaxEpochs * Batches
           /\ p.epoch = MaxEpochs => p.total = MaxEpochs * Batches
<1>1. /\ p.total = p.epoch * Batches + p.loader /\ p.epoch \in Nat /\ p.loader \in 0..Batches
      /\ p.epoch <= MaxEpochs /\ (p.loader > 0 => p.epoch < MaxEpochs)
      /\ MaxEpochs \in Nat /\ Batches \in Nat
  BY SizeAssumption DEF AtRest, Position
<1>2. p.epoch * Batches \in Nat /\ (p.epoch + 1) * Batches = p.epoch * Batches + Batches
  BY <1>1
<1>3. CASE p.epoch = MaxEpochs
  BY <1>1, <1>3
<1>4. CASE p.epoch < MaxEpochs
  <2>1. (p.epoch + 1) * Batches <= MaxEpochs * Batches
    BY <1>1, <1>4
  <2> QED
    BY <1>1, <1>2, <1>4, <2>1
<1> QED
  BY <1>1, <1>3, <1>4

-----------------------------------------------------------------------------
(* Validation batches *)

\* How many samples the next batch has.
Taken == IF val.seen + ValBatchSize <= ValSamples THEN ValBatchSize ELSE ValSamples - val.seen

LEMMA NextSamples ==
    ASSUME val.seen \in Nat, val.seen <= ValSamples
    PROVE  /\ Cardinality(NextVal) = Taken /\ Taken \in 0..ValBatchSize
           /\ NextVal # {} <=> Taken # 0
           /\ NextVal = {} <=> val.seen = ValSamples
<1>1. ValSamples \in Nat \ {0} /\ ValBatchSize \in Nat \ {0}
  BY SizeAssumption
<1>2. Taken \in 0..ValBatchSize /\ (Taken = 0 <=> val.seen = ValSamples)
  BY <1>1 DEF Taken
<1>3. NextVal = (val.seen + 1)..(val.seen + Taken)
  BY <1>1 DEF NextVal, Taken
<1>4. Cardinality(NextVal) = Taken
  BY <1>2, <1>3, FS_Interval
<1>5. NextVal # {} <=> Taken # 0
  <2>1. CASE Taken = 0
    BY <1>3, <2>1
  <2>2. CASE Taken # 0
    <3>1. val.seen + 1 \in NextVal
      BY <1>2, <1>3, <2>2
    <3> QED
      BY <3>1, <2>2
  <2> QED
    BY <2>1, <2>2
<1> QED
  BY <1>2, <1>4, <1>5

\* A batch counts its valid samples once, and its padding counts nothing.
LEMMA BatchCounts ==
    ASSUME val.seen \in Nat, val.seen <= ValSamples, NextVal # {}, NEW masked,
           NEW samples \in {ValBatch(masked), PadLast(ValBatch(masked))},
           NEW i \in 1..ValSamples
    PROVE  Counted(samples, i) =
              IF val.seen < i /\ i <= val.seen + Taken /\ i \notin masked THEN 1 ELSE 0
<1>1. PICK n \in Nat \ {0} : n = Taken /\ n = Cardinality(NextVal)
  BY NextSamples, SizeAssumption
<1> DEFINE own == ValBatch(masked)
<1>2. /\ own = [k \in 1..n |-> [id |-> val.seen + k,
                                mask |-> IF val.seen + k \in masked THEN 0 ELSE 1]]
      /\ Len(own) = n /\ DOMAIN own = 1..n
  BY <1>1 DEF ValBatch
<1>3. /\ DOMAIN samples \in SUBSET Nat /\ 1..n \subseteq DOMAIN samples
      /\ \A k \in 1..n : samples[k] = own[k]
      /\ \A k \in DOMAIN samples \ (1..n) : samples[k].mask = 0
  <2>1. CASE samples = own
    BY <1>2, <2>1
  <2>2. CASE samples = PadLast(own)
    <3> DEFINE pads == (PadTo - (Len(own) % PadTo)) % PadTo
               pad == [Last(own) EXCEPT !.mask = 0]
    <3>1. Last(own) = own[n] /\ pad = [id |-> val.seen + n, mask |-> 0]
      <4>1. Last(own) = own[n]
        BY <1>2 DEF Last
      <4>2. own[n].id = val.seen + n /\ own[n] = [id |-> own[n].id, mask |-> own[n].mask]
        BY <1>2
      <4> QED
        BY <4>1, <4>2
    <3>2. PICK m \in Nat : m = pads
      <4>1. n % PadTo \in 0..(PadTo - 1)
        BY SizeAssumption, NextRemainder
      <4>2. PadTo - (n % PadTo) \in Nat
        BY <4>1, SizeAssumption
      <4>3. (PadTo - (n % PadTo)) % PadTo \in 0..(PadTo - 1)
        BY <4>2, SizeAssumption, NextRemainder
      <4> QED
        BY <1>2, <4>3, SizeAssumption
    <3>3. samples = own \o [k \in 1..m |-> pad]
      BY <2>2, <3>2 DEF PadLast
    <3> DEFINE S == [id : Nat, mask : {0, 1}]
    <3>4. own \in Seq(S) /\ [k \in 1..m |-> pad] \in Seq(S) /\ Len([k \in 1..m |-> pad]) = m
      <4>1. \A k \in 1..n : own[k] \in S
        BY <1>2
      <4>2. own \in Seq(S)
        BY <1>2, <4>1
      <4>3. pad \in S
        BY <3>1
      <4> HIDE DEF own, pad, S
      <4> QED
        BY <4>2, <4>3
    <3> HIDE DEF own, pad, S
    <3>5. /\ DOMAIN samples = 1..(n + m)
          /\ \A k \in 1..(n + m) :
                samples[k] = IF k <= n THEN own[k] ELSE [j \in 1..m |-> pad][k - n]
      BY <1>2, <3>3, <3>4, ConcatProperties
    <3>6. \A k \in (n + 1)..(n + m) : samples[k] = pad
      BY <3>5
    <3> QED
      BY <3>1, <3>5, <3>6
  <2> QED
    BY <2>1, <2>2
<1> DEFINE found == {k \in DOMAIN samples : samples[k] = [id |-> i, mask |-> 1]}
<1>4. \A k \in found : k \in 1..n /\ i = val.seen + k /\ i \notin masked
  BY <1>2, <1>3
<1>5. CASE val.seen < i /\ i <= val.seen + n /\ i \notin masked
  <2>1. i - val.seen \in found
    BY <1>2, <1>3, <1>5
  <2>2. found = {i - val.seen}
    BY <1>4, <2>1, <1>3
  <2> QED
    BY <1>1, <1>5, <2>2, FS_Singleton DEF Counted
<1>6. CASE ~(val.seen < i /\ i <= val.seen + n /\ i \notin masked)
  <2>1. found = {}
    BY <1>4, <1>6
  <2> QED
    BY <1>1, <1>6, <2>1, FS_EmptySet DEF Counted
<1> QED
  BY <1>5, <1>6

-----------------------------------------------------------------------------
(* Steps *)

\* The steps of the four drivers by what they do.
Setup ==
    /\ Restore
    /\ IF Distillation
       THEN teacher' = "cpu" /\ engine' = [holds |-> None, awake |-> ~cfg.colocated]
       ELSE UNCHANGED <<teacher, engine>>

ValidateBatch ==
    \E masked \in {IF Distillation THEN {} ELSE MaskedOut} :
      \E samples \in {ValBatch(masked), PadLast(ValBatch(masked))} :
        ValidateNext(ValBatch(masked), samples)

EndSet == cfg.alg \in {"rm", "dpo"} /\ NextDataset

TakeBatch ==
    \/ cfg.alg \in {"sft", "rm"} /\ NextTokens
    \/ cfg.alg = "dpo" /\ NextPairs
    \/ Distillation /\ NextPrompts

Save ==
    \E step \in {StepInEpoch, at.step + 1}, newInfo \in Info :
      /\ SaveStep(step, newInfo)
      /\ Distillation \/ step = StepInEpoch
      /\ newInfo.named = NamedMetric
      /\ newInfo.all = IF cfg.alg = "sft" THEN info.all ELSE val.metrics

LEMMA ConfigFacts ==
    ASSUME TypeOK
    PROVE  /\ cfg.alg \in {"sft", "dpo", "rm", "distillation"}
           /\ cfg.maxSteps \in Nat \cup {-1} /\ cfg.valPeriod \in Nat /\ cfg.valBatches \in Nat
           /\ cfg.sets \in Nat \ {0} /\ cfg.saving \in BOOLEAN /\ cfg.colocated \in BOOLEAN
           /\ cfg.metric \in BOOLEAN /\ cfg.valAtStart \in BOOLEAN
           /\ cfg.colocated => Distillation
           /\ cfg.sets = 1 \/ cfg.alg \in {"dpo", "rm"}
BY ConfigAssumption, ZenonT(40) DEF TypeOK, ConfigType, Distillation

LEMMA SaveKinds ==
    ASSUME TypeOK,
           \/ cfg.alg = "sft" /\ SaveSft
           \/ cfg.alg = "rm" /\ SaveRm
           \/ cfg.alg = "dpo" /\ SaveDpo
           \/ Distillation /\ SaveDistillation
    PROVE  Save
<1>1. NamedMetric \subseteq Metric /\ val.metrics \subseteq Metric
  BY DEF TypeOK, NamedMetric, Info
<1>2. info \in [named: SUBSET Metric, all: SUBSET Metric, counts: SUBSET Metric]
  BY DEF TypeOK, Info
<1>3. CASE cfg.alg = "sft" /\ SaveSft
  <2> DEFINE new == [info EXCEPT !.named = NamedMetric]
  <2>1. new \in Info /\ new.named = NamedMetric /\ new.all = info.all
    BY <1>1, <1>2 DEF Info
  <2> HIDE DEF new
  <2> QED
    BY <1>3, <2>1 DEF Save, SaveSft, new
<1>4. CASE cfg.alg # "sft" /\ (SaveRm \/ (SaveDistillation /\ Distillation))
  <2> DEFINE new == [info EXCEPT !.named = NamedMetric, !.all = val.metrics]
  <2>1. new \in Info /\ new.named = NamedMetric /\ new.all = val.metrics
    BY <1>1, <1>2 DEF Info
  <2>2. \/ SaveStep(StepInEpoch, new)
        \/ SaveStep(at.step + 1, new) /\ Distillation
    BY <1>4 DEF SaveRm, SaveDistillation
  <2> HIDE DEF new
  <2> QED
    BY <1>4, <2>1, <2>2 DEF Save
<1>5. CASE cfg.alg = "dpo" /\ SaveDpo
  <2> DEFINE new == [named |-> NamedMetric, all |-> val.metrics,
                     counts |-> IF val.metrics = {} THEN info.counts ELSE val.metrics]
  <2>1. new \in Info /\ new.named = NamedMetric /\ new.all = val.metrics
    BY <1>1, <1>2 DEF Info
  <2>2. SaveStep(StepInEpoch, new)
    BY <1>5 DEF SaveDpo
  <2> HIDE DEF new
  <2> QED
    BY <1>5, <2>1, <2>2 DEF Save
<1> QED
  BY <1>3, <1>4, <1>5 DEF Distillation

\* Every step is one of these.
LEMMA StepKinds ==
    ASSUME TypeOK, [Next]_vars
    PROVE  \/ Setup \/ Start \/ ValidateBatch
           \/ (cfg.alg = "sft" /\ EndTokens) \/ EndSet \/ (Distillation /\ EndAnswers)
           \/ StartEpoch \/ TakeBatch \/ EndEpoch
           \/ (cfg.alg = "dpo" /\ ReferenceLogprobs) \/ (Distillation /\ Generate)
           \/ (Distillation /\ TeacherLogits) \/ (Distillation /\ PrepareStudent)
           \/ Train \/ MaybeValidate \/ Save \/ EndStep \/ Crash \/ UNCHANGED vars
<1>1. CASE SetupSft \/ SetupRm \/ SetupDpo \/ SetupDistillation
  BY <1>1 DEF Setup, SetupSft, SetupRm, SetupDpo, SetupDistillation, Distillation
<1>2. CASE StartSft \/ StartRm \/ StartDpo \/ StartDistillation
  BY <1>2 DEF StartSft, StartRm, StartDpo, StartDistillation
<1>3. CASE ValidateTokens \/ ValidateScores \/ ValidatePairs \/ ValidateAnswers
  BY <1>3 DEF ValidateBatch, ValidateTokens, ValidateScores, ValidatePairs, ValidateAnswers,
              Distillation
<1>4. CASE EndTokens \/ EndScores \/ EndPairs \/ EndAnswers
  BY <1>4 DEF EndSet, EndTokens, EndScores, EndPairs, EndAnswers
<1>5. CASE SftStep \/ RmStep \/ DpoStep \/ DistillationStep
  BY <1>5, SaveKinds
     DEF SftStep, RmStep, DpoStep, DistillationStep, AfterTraining, TakeBatch, Distillation
<1>6. CASE StartEpoch \/ EndEpoch \/ Crash \/ Ended \/ UNCHANGED vars
  BY <1>6 DEF Ended
<1> QED
  BY <1>1, <1>2, <1>3, <1>4, <1>5, <1>6 DEF Next, Progress

-----------------------------------------------------------------------------
(* Types *)

LEMMA InitTypes == Init => TypeOK
<1> SUFFICES ASSUME Init
             PROVE  TypeOK
  OBVIOUS
<1>1. <<>> \in Weights
  BY DEF Weights
<1>2. 0 \in 0..Batches /\ 0 \in 0..MaxCrashes
  BY SizeAssumption
<1>3. NoInfo \in Info
  BY DEF NoInfo, Info
<1>4. NoVal \in [set: 1..cfg.sets, seen: Nat, counted: [1..ValSamples -> Nat],
                 metrics: SUBSET Metric]
  <2>1. cfg.sets \in Nat \ {0}
    BY ConfigAssumption DEF Init, ConfigType
  <2> QED
    BY <2>1 DEF NoVal, NoneCounted
<1> QED
  BY <1>1, <1>2, <1>3, <1>4 DEF Init, TypeOK, NoBatch, Fresh

\* A validation begins with nothing counted and ends with its metric.
LEMMA ValTypes ==
    ASSUME TypeOK, NEW weights \in Weights \cup {None}
    PROVE  /\ NoVal \in [set: 1..cfg.sets, seen: Nat, counted: [1..ValSamples -> Nat],
                         metrics: SUBSET Metric]
           /\ Metrics(weights) \subseteq Metric
<1>1. cfg.sets \in Nat \ {0}
  BY ConfigFacts
<1> QED
  BY <1>1, SMTT(40) DEF TypeOK, NoVal, NoneCounted, Metrics, Metric

LEMMA ReadyTypes ==
    ASSUME TypeOK, ReadyEngine
    PROVE  /\ engine' \in [holds: Weights \cup {None}, awake: BOOLEAN]
           /\ policy' \in [trained: Weights, model: {"gpu", "cpu"}, ref: Weights \cup {None}]
           /\ stale' = FALSE
           /\ policy'.trained = policy.trained /\ policy'.ref = policy.ref
<1>1. CASE stale
  <2>1. /\ engine' = [holds |-> policy.trained, awake |-> TRUE] /\ stale' = FALSE
        /\ policy' \in {policy, [policy EXCEPT !.model = "cpu"]}
    BY <1>1 DEF ReadyEngine, OffloadAfterRefit
  <2>2. [policy EXCEPT !.model = "cpu"] = [trained |-> policy.trained, model |-> "cpu",
                                           ref |-> policy.ref]
    BY SMTT(40) DEF TypeOK
  <2>3. policy.trained \in Weights /\ policy.ref \in Weights \cup {None}
    BY DEF TypeOK
  <2>4. policy' \in [trained: Weights, model: {"gpu", "cpu"}, ref: Weights \cup {None}]
    BY <2>1, <2>2, <2>3 DEF TypeOK
  <2> QED
    BY <2>1, <2>2, <2>3, <2>4
<1>2. CASE ~stale
  <2>1. stale = FALSE
    BY <1>2 DEF TypeOK
  <2> QED
    BY <2>1, ZenonT(40) DEF TypeOK, ReadyEngine
<1> QED
  BY <1>1, <1>2

LEMMA PrepareTypes ==
    ASSUME TypeOK
    PROVE  /\ PrepareForTraining(policy)
                \in [trained: Weights, model: {"gpu", "cpu"}, ref: Weights \cup {None}]
           /\ PrepareForTraining(policy).trained = policy.trained
           /\ PrepareForTraining(policy).ref = policy.ref
           /\ PrepareForTraining(policy).model = "gpu"
BY DEF TypeOK, PrepareForTraining

LEMMA SetupTypes == TypeOK /\ Setup => TypeOK'
<1> SUFFICES ASSUME TypeOK, Setup
             PROVE  TypeOK'
  OBVIOUS
<1>1. NewPolicy(disk.trained)
        \in [trained: Weights, model: {"gpu", "cpu"}, ref: Weights \cup {None}]
  BY DEF NewPolicy, TypeOK, Weights
<1>2. /\ teacher' \in {"gpu", "cpu"}
      /\ engine' \in [holds: Weights \cup {None}, awake: BOOLEAN]
  <2>1. CASE Distillation
    <3>1. (~cfg.colocated) \in BOOLEAN
      OBVIOUS
    <3>2. PICK awake \in BOOLEAN : awake = (~cfg.colocated)
      BY <3>1
    <3>3. engine' = [holds |-> None, awake |-> awake] /\ teacher' = "cpu"
      BY <2>1, <3>2 DEF Setup
    <3> QED
      BY <3>3
  <2>2. CASE ~Distillation
    BY <2>2 DEF Setup, TypeOK
  <2> QED
    BY <2>1, <2>2
<1>3. at' \in [step: Nat, total: Nat, epoch: Nat, loader: 0..Batches, consumed: Nat]
  BY DEF Setup, Restore, TypeOK
<1>4. NoBatch \in [index: 0..Batches, ref: Weights \cup {None}, from: Weights \cup {None}]
  BY SizeAssumption DEF NoBatch
<1>5. cfg' = cfg /\ Metric' = Metric /\ Info' = Info
  BY DEF Setup, Restore, Metric, Info
<1>6. info' \in Info
  BY DEF Setup, Restore, TypeOK
<1> QED
  BY <1>1, <1>2, <1>3, <1>4, <1>5, <1>6, ValTypes, ZenonT(40) DEF Setup, Restore, TypeOK

LEMMA StartTypes == TypeOK /\ (Start \/ MaybeValidate) => TypeOK'
<1> SUFFICES ASSUME TypeOK, Start \/ MaybeValidate
             PROVE  TypeOK'
  OBVIOUS
<1>1. cfg' = cfg /\ Metric' = Metric /\ Info' = Info
  BY DEF Start, MaybeValidate, Metric, Info
<1>2. /\ engine' \in [holds: Weights \cup {None}, awake: BOOLEAN]
      /\ policy' \in [trained: Weights, model: {"gpu", "cpu"}, ref: Weights \cup {None}]
      /\ stale' \in BOOLEAN /\ stale' = stale'
  <2>1. CASE StartValidation /\ Distillation
    BY <2>1, ReadyTypes DEF StartValidation
  <2>2. CASE UNCHANGED engine /\ UNCHANGED stale /\ policy' \in {policy, PrepareForTraining(policy)}
    BY <2>2, PrepareTypes, SMTT(40) DEF TypeOK
  <2> QED
    BY <2>1, <2>2 DEF Start, MaybeValidate, StartValidation
<1>3. val' \in {val, NoVal}
  BY DEF Start, MaybeValidate, StartValidation
<1>4. val' \in [set: 1..cfg.sets, seen: Nat, counted: [1..ValSamples -> Nat],
                metrics: SUBSET Metric]
  BY <1>3, ValTypes, <1>1 DEF TypeOK, None
<1>5. pc' \in {"validate", "epoch", "save"} /\ ret' \in {"epoch", "save"}
  BY DEF Start, MaybeValidate, StartValidation
<1>6. UNCHANGED <<at, teacher, batch, info, timed, disk, crashes>>
  BY DEF Start, MaybeValidate
<1> QED
  BY <1>1, <1>2, <1>4, <1>5, <1>6 DEF TypeOK

\* A batch that begins before the limit ends by it: batches before the last are whole.
LEMMA BatchWithinLimit ==
    ASSUME TypeOK, SeenInv, NextVal # {}, BeforeLimit(val.seen)
    PROVE  /\ val.seen + Taken <= ValSamples
           /\ \/ cfg.valBatches = 0 /\ ~Distillation
              \/ val.seen + Taken <= cfg.valBatches * ValBatchSize
           /\ val.seen + Taken = ValSamples
              \/ \E k \in Nat : val.seen + Taken = k * ValBatchSize
<1>1. /\ val.seen \in Nat /\ val.seen < ValSamples /\ Taken \in 0..ValBatchSize
      /\ cfg.valBatches \in Nat /\ ValBatchSize \in Nat \ {0} /\ ValSamples \in Nat
  <2>1. val.seen \in Nat /\ val.seen <= ValSamples
    BY DEF TypeOK, SeenInv
  <2>2. Taken \in 0..ValBatchSize /\ val.seen # ValSamples
    BY <2>1, NextSamples
  <2>3. cfg.valBatches \in Nat
    BY ConfigFacts
  <2> QED
    BY <2>1, <2>2, <2>3, SizeAssumption
<1>2. PICK k \in Nat : val.seen = k * ValBatchSize
  BY <1>1 DEF SeenInv
<1>3. (k + 1) * ValBatchSize = val.seen + ValBatchSize /\ k + 1 \in Nat
  BY <1>1, <1>2
<1>4. (cfg.valBatches = 0 /\ ~Distillation) \/ val.seen + Taken <= cfg.valBatches * ValBatchSize
  <2>1. SUFFICES ASSUME val.seen < cfg.valBatches * ValBatchSize
                 PROVE  val.seen + Taken <= cfg.valBatches * ValBatchSize
    BY DEF BeforeLimit
  <2>2. k < cfg.valBatches
    <3>1. cfg.valBatches <= k => cfg.valBatches * ValBatchSize <= k * ValBatchSize
      BY <1>1
    <3>2. cfg.valBatches * ValBatchSize \in Nat
      BY <1>1
    <3> QED
      BY <1>1, <1>2, <2>1, <3>1, <3>2
  <2>3. (k + 1) * ValBatchSize <= cfg.valBatches * ValBatchSize
    BY <1>1, <2>2
  <2>4. cfg.valBatches * ValBatchSize \in Nat
    BY <1>1
  <2> QED
    BY <1>1, <1>3, <2>3, <2>4
<1>5. val.seen + Taken <= ValSamples
  BY <1>1 DEF Taken
<1>6. val.seen + Taken = ValSamples \/ val.seen + Taken = (k + 1) * ValBatchSize
  BY <1>1, <1>3 DEF Taken
<1> QED
  BY <1>3, <1>4, <1>5, <1>6

\* How far a batch of validation brings the counts.
LEMMA ValidateEffect ==
    ASSUME TypeOK, PhaseInv, MetricInv, ValidateBatch
    PROVE  /\ pc = "validate" /\ NextVal # {} /\ BeforeLimit(val.seen)
           /\ val.seen < ValSamples
           /\ val' = [set |-> val.set, seen |-> val.seen + Taken,
                      counted |-> [i \in 1..ValSamples |->
                          IF i <= val.seen + Taken /\ i \in ToCount(val.set) THEN 1 ELSE 0],
                      metrics |-> val.metrics]
           /\ val.seen + Taken \in Nat
           /\ SeenInv'
           /\ UNCHANGED <<cfg, pc, ret, at, policy, teacher, engine, stale, batch, info, timed,
                          disk, crashes>>
<1> DEFINE masked == IF Distillation THEN {} ELSE MaskedOut
<1>1. PICK samples \in {ValBatch(masked), PadLast(ValBatch(masked))} :
         ValidateNext(ValBatch(masked), samples)
  BY DEF ValidateBatch
<1>2. pc = "validate" /\ NextVal # {} /\ BeforeLimit(val.seen)
  BY <1>1 DEF ValidateNext, MoreVal
<1>3. val.seen \in Nat /\ val.seen <= ValSamples /\ val.counted = CountedSoFar
  BY <1>2 DEF TypeOK, MetricInv, SeenInv
<1>4. Len(ValBatch(masked)) = Taken /\ val.seen + Taken \in Nat /\ val.seen < ValSamples
  <2>1. Cardinality(NextVal) = Taken /\ Taken \in Nat /\ val.seen # ValSamples
    BY <1>2, <1>3, NextSamples
  <2> QED
    BY <1>3, <2>1, SizeAssumption DEF ValBatch
<1>5. \A i \in 1..ValSamples :
         val.counted[i] + Counted(samples, i) =
           IF i <= val.seen + Taken /\ i \in ToCount(val.set) THEN 1 ELSE 0
  <2> TAKE i \in 1..ValSamples
  <2>1. Counted(samples, i) =
           IF val.seen < i /\ i <= val.seen + Taken /\ i \notin masked THEN 1 ELSE 0
    BY <1>1, <1>2, <1>3, BatchCounts
  <2>2. val.counted[i] = IF i <= val.seen /\ i \in ToCount(val.set) THEN 1 ELSE 0
    BY <1>3 DEF CountedSoFar
  <2>3. val.seen < i /\ i <= val.seen + Taken => (i \in ToCount(val.set) <=> i \notin masked)
    <3>1. SUFFICES ASSUME val.seen < i, i <= val.seen + Taken
                   PROVE  i \in ToCount(val.set) <=> i \notin masked
      OBVIOUS
    <3>2. (cfg.valBatches = 0 /\ ~Distillation) \/ i <= cfg.valBatches * ValBatchSize
      <4>1. (cfg.valBatches = 0 /\ ~Distillation)
               \/ val.seen + Taken <= cfg.valBatches * ValBatchSize
        BY <1>2, BatchWithinLimit DEF MetricInv
      <4>2. cfg.valBatches * ValBatchSize \in Nat
        BY ConfigFacts, SizeAssumption
      <4> QED
        BY <3>1, <4>1, <4>2, <1>4, <1>3
    <3> QED
      BY <3>2 DEF ToCount, MaskedOut
  <2> HIDE DEF masked
  <2> QED
    BY <1>3, <1>4, <2>1, <2>2, <2>3
<1>6. val' = [val EXCEPT !.seen = @ + Len(ValBatch(masked)),
                         !.counted = [i \in 1..ValSamples |-> @[i] + Counted(samples, i)]]
  BY <1>1 DEF ValidateNext
<1>7. val = [set |-> val.set, seen |-> val.seen, counted |-> val.counted, metrics |-> val.metrics]
  BY DEF TypeOK
<1>8. val' = [set |-> val.set, seen |-> val.seen + Taken,
              counted |-> [i \in 1..ValSamples |-> val.counted[i] + Counted(samples, i)],
              metrics |-> val.metrics]
  BY <1>4, <1>6, <1>7
<1>9. cfg' = cfg /\ val'.seen = val.seen + Taken
  <2> DEFINE counted == [i \in 1..ValSamples |-> val.counted[i] + Counted(samples, i)]
  <2>1. val' = [set |-> val.set, seen |-> val.seen + Taken, counted |-> counted,
                metrics |-> val.metrics]
    BY <1>8
  <2> HIDE DEF counted
  <2>2. val'.seen = val.seen + Taken
    BY <2>1
  <2> QED
    BY <1>1, <2>2 DEF ValidateNext
<1>10. SeenInv'
  BY <1>2, <1>9, BatchWithinLimit DEF MetricInv, SeenInv, Distillation
<1> QED
  BY <1>1, <1>2, <1>4, <1>5, <1>8, <1>10 DEF ValidateNext

LEMMA ValidateTypes ==
    ASSUME TypeOK, PhaseInv, MetricInv, ValidateBatch
    PROVE  TypeOK'
<1>1. /\ UNCHANGED <<cfg, pc, ret, at, policy, teacher, engine, stale, batch, info, timed,
                     disk, crashes>>
      /\ val.seen + Taken \in Nat
  BY ValidateEffect
<1>2. Metric' = Metric /\ Info' = Info
  BY <1>1 DEF Metric, Info
<1> DEFINE counted == [i \in 1..ValSamples |->
                         IF i <= val.seen + Taken /\ i \in ToCount(val.set) THEN 1 ELSE 0]
<1>3. counted \in [1..ValSamples -> Nat]
  OBVIOUS
<1>4. val' = [set |-> val.set, seen |-> val.seen + Taken, counted |-> counted,
              metrics |-> val.metrics]
  BY ValidateEffect
<1> HIDE DEF counted
<1> QED
  BY <1>1, <1>2, <1>3, <1>4, SMTT(40) DEF TypeOK

\* The end of a set of validation samples.
LEMMA EndTypes ==
    ASSUME TypeOK, PhaseInv,
           \/ cfg.alg = "sft" /\ EndTokens
           \/ EndSet
           \/ Distillation /\ EndAnswers
    PROVE  TypeOK'
<1>1. /\ UNCHANGED <<cfg, ret, at, teacher, stale, batch, info, timed, disk, crashes>>
      /\ pc = "validate" /\ pc' \in {pc, ret}
  BY DEF EndTokens, EndSet, NextDataset, EndAnswers
<1>2. Metric' = Metric /\ Info' = Info
  BY <1>1 DEF Metric, Info
<1>3. policy.trained \in Weights \cup {None} /\ engine.holds \in Weights \cup {None}
  BY DEF TypeOK
<1>4. policy' \in [trained: Weights, model: {"gpu", "cpu"}, ref: Weights \cup {None}]
  <2>1. policy' = policy \/ policy' = PrepareForTraining(policy)
    BY DEF EndTokens, EndSet, NextDataset, EndAnswers
  <2> QED
    BY <2>1, PrepareTypes DEF TypeOK
<1>5. engine' \in [holds: Weights \cup {None}, awake: BOOLEAN]
  <2>1. CASE engine' = engine
    BY <2>1 DEF TypeOK
  <2>2. CASE engine' = FinishGeneration
    BY <2>2 DEF TypeOK, FinishGeneration
  <2> QED
    BY <2>1, <2>2 DEF EndTokens, EndSet, NextDataset, EndAnswers
<1>6. val' \in [set: 1..cfg.sets, seen: Nat, counted: [1..ValSamples -> Nat],
                metrics: SUBSET Metric]
  <2>1. /\ Metrics(policy.trained) \subseteq Metric /\ Metrics(engine.holds) \subseteq Metric
        /\ val.metrics \subseteq Metric
    BY <1>3, ValTypes DEF TypeOK
  <2>2. PICK found \in SUBSET Metric :
           \/ val' = [val EXCEPT !.metrics = found]
           \/ val' = [NoVal EXCEPT !.set = val.set + 1, !.metrics = found] /\ val.set < cfg.sets
    <3>1. CASE cfg.alg = "sft" /\ EndTokens
      BY <2>1, <3>1 DEF EndTokens
    <3>2. CASE EndSet
      <4>1. val.metrics \cup Metrics(policy.trained) \subseteq Metric
        BY <2>1
      <4> QED
        BY <3>2, <4>1 DEF EndSet, NextDataset
    <3>3. CASE Distillation /\ EndAnswers
      BY <2>1, <3>3 DEF EndAnswers
    <3> QED
      BY <3>1, <3>2, <3>3
  <2>3. CASE val' = [val EXCEPT !.metrics = found]
    BY <2>2, <2>3 DEF TypeOK
  <2>4. CASE /\ val' = [NoVal EXCEPT !.set = val.set + 1, !.metrics = found]
             /\ val.set < cfg.sets
    <3>1. val.set + 1 \in 1..cfg.sets
      <4>1. val.set \in 1..cfg.sets
        BY DEF TypeOK
      <4> QED
        BY <2>4, <4>1, ConfigFacts
    <3> QED
      BY <2>2, <2>4, <3>1, ValTypes, <1>3
  <2> QED
    BY <2>2, <2>3, <2>4
<1>7. pc' \in Phases
  BY <1>1 DEF PhaseInv, Phases
<1> QED
  BY <1>1, <1>2, <1>4, <1>5, <1>6, <1>7 DEF TypeOK, Phases

\* How the driver's counters move.
LEMMA PositionUpdates ==
    ASSUME NEW p \in Position
    PROVE  /\ \E q \in Position :
                /\ q = [p EXCEPT !.epoch = @ + 1, !.step = 0, !.loader = 0]
                /\ q.step = 0 /\ q.loader = 0 /\ q.epoch = p.epoch + 1
                /\ q.total = p.total /\ q.consumed = p.consumed
           /\ \E q \in Position :
                /\ q = [p EXCEPT !.step = @ + 1, !.total = @ + 1]
                /\ q.step = p.step + 1 /\ q.total = p.total + 1
                /\ q.epoch = p.epoch /\ q.loader = p.loader /\ q.consumed = p.consumed
<1>1. PICK step \in Nat, total \in Nat, epoch \in Nat :
         step = p.step + 1 /\ total = p.total + 1 /\ epoch = p.epoch + 1
  BY DEF Position
<1>2. 0 \in 0..Batches
  BY SizeAssumption
<1>3. /\ [p EXCEPT !.epoch = epoch, !.step = 0, !.loader = 0] \in Position
      /\ [p EXCEPT !.epoch = epoch, !.step = 0, !.loader = 0].step = 0
      /\ [p EXCEPT !.epoch = epoch, !.step = 0, !.loader = 0].loader = 0
      /\ [p EXCEPT !.epoch = epoch, !.step = 0, !.loader = 0].epoch = epoch
      /\ [p EXCEPT !.epoch = epoch, !.step = 0, !.loader = 0].total = p.total
      /\ [p EXCEPT !.epoch = epoch, !.step = 0, !.loader = 0].consumed = p.consumed
  BY <1>2 DEF Position
<1>4. /\ [p EXCEPT !.step = step, !.total = total] \in Position
      /\ [p EXCEPT !.step = step, !.total = total].step = step
      /\ [p EXCEPT !.step = step, !.total = total].total = total
      /\ [p EXCEPT !.step = step, !.total = total].epoch = p.epoch
      /\ [p EXCEPT !.step = step, !.total = total].loader = p.loader
      /\ [p EXCEPT !.step = step, !.total = total].consumed = p.consumed
  BY DEF Position
<1> QED
  BY <1>1, <1>3, <1>4

\* The turn of the loop but for its checkpoint.
LEMMA LoopTypes ==
    ASSUME TypeOK, StepInv,
           \/ StartEpoch \/ TakeBatch \/ EndEpoch \/ ReferenceLogprobs \/ Generate
           \/ TeacherLogits \/ PrepareStudent \/ Train \/ EndStep \/ Crash
    PROVE  TypeOK'
<1>1. cfg' = cfg /\ Metric' = Metric /\ Info' = Info
  BY DEF StartEpoch, TakeBatch, NextTokens, NextPairs, NextPrompts, NextBatch, EndEpoch,
         ReferenceLogprobs, Generate, TeacherLogits, PrepareStudent, Train, EndStep, Crash,
         Metric, Info
<1>2. Batches \in Nat \ {0} /\ MaxCrashes \in Nat
  BY SizeAssumption
<1>3. CASE StartEpoch \/ EndEpoch \/ EndStep
  <2>1. at' \in [step: Nat, total: Nat, epoch: Nat, loader: 0..Batches, consumed: Nat]
    <3>1. at \in Position
      BY DEF TypeOK, Position
    <3>2. at' \in Position
      <4>1. CASE StartEpoch
        BY <3>1, <4>1 DEF StartEpoch
      <4>2. CASE EndEpoch
        <5>1. at' = [at EXCEPT !.epoch = @ + 1, !.step = 0, !.loader = 0]
          BY <4>2, SMTT(40) DEF EndEpoch
        <5> QED
          BY <1>2, <3>1, <5>1, PositionUpdates
      <4>3. CASE EndStep
        <5>1. at' = [at EXCEPT !.step = @ + 1, !.total = @ + 1]
          BY <4>3 DEF EndStep
        <5> QED
          BY <3>1, <5>1, PositionUpdates
      <4> QED
        BY <1>3, <4>1, <4>2, <4>3
    <3> QED
      BY <3>2 DEF Position
  <2>2. pc' \in Phases
    BY <1>3 DEF StartEpoch, EndEpoch, EndStep, Phases
  <2>3. UNCHANGED <<ret, policy, teacher, engine, stale, batch, val, info, timed, disk, crashes>>
    BY <1>3 DEF StartEpoch, EndEpoch, EndStep
  <2> QED
    BY <1>1, <2>1, <2>2, <2>3, ZenonT(40) DEF TypeOK, Phases
<1>4. CASE TakeBatch
  <2>1. /\ at' = [at EXCEPT !.loader = @ + 1] /\ at.loader < Batches
        /\ batch' = [NoBatch EXCEPT !.index = at.loader + 1]
        /\ val' = NoVal /\ pc' \in {"train", "reference", "generate"}
        /\ UNCHANGED <<ret, teacher, info, timed, disk, crashes>>
    BY <1>4 DEF TakeBatch, NextTokens, NextPairs, NextPrompts, NextBatch
  <2>2. /\ engine' \in [holds: Weights \cup {None}, awake: BOOLEAN]
        /\ policy' \in [trained: Weights, model: {"gpu", "cpu"}, ref: Weights \cup {None}]
        /\ stale' \in BOOLEAN
    BY <1>4, ReadyTypes, ZenonT(40) DEF TakeBatch, NextTokens, NextPairs, NextPrompts, TypeOK
  <2>3. at' \in [step: Nat, total: Nat, epoch: Nat, loader: 0..Batches, consumed: Nat]
    <3>1. at \in Position
      BY DEF TypeOK, Position
    <3>2. at' \in Position
      BY <1>2, <2>1, <3>1 DEF Position
    <3> QED
      BY <3>2 DEF Position
  <2>4. batch' \in [index: 0..Batches, ref: Weights \cup {None}, from: Weights \cup {None}]
    BY <1>2, <2>1, SMTT(40) DEF TypeOK, NoBatch
  <2> QED
    BY <1>1, <2>1, <2>2, <2>3, <2>4, ValTypes, <1>2 DEF TypeOK, Weights
<1>5. CASE ReferenceLogprobs \/ Generate \/ TeacherLogits
  <2>1. batch' \in [index: 0..Batches, ref: Weights \cup {None}, from: Weights \cup {None}]
    BY <1>5, SMTT(40) DEF TypeOK, ReferenceLogprobs, Generate, TeacherLogits
  <2>2. engine' \in [holds: Weights \cup {None}, awake: BOOLEAN]
    BY <1>5, ZenonT(40) DEF TypeOK, ReferenceLogprobs, Generate, TeacherLogits, FinishGeneration
  <2>3. /\ teacher' \in {"gpu", "cpu"} /\ pc' \in {"train", "teacher", "prepare"}
        /\ UNCHANGED <<ret, at, policy, stale, val, info, timed, disk, crashes>>
    BY <1>5 DEF TypeOK, ReferenceLogprobs, Generate, TeacherLogits
  <2> QED
    BY <1>1, <2>1, <2>2, <2>3 DEF TypeOK
<1>6. CASE PrepareStudent
  BY <1>1, <1>6, PrepareTypes, SMTT(40) DEF PrepareStudent, TypeOK
<1>7. CASE Train
  <2>1. batch.index \in 1..Batches
    BY <1>7 DEF Train, TypeOK, StepInv, InStep, Training
  <2>2. policy' \in [trained: Weights, model: {"gpu", "cpu"}, ref: Weights \cup {None}]
    <3>1. Append(policy.trained, batch.index) \in Weights
      BY <2>1, AppendProperties DEF TypeOK, Weights
    <3> QED
      BY <1>7, <3>1 DEF Train, TypeOK
  <2> QED
    BY <1>1, <1>7, <2>2, SMTT(40) DEF Train, TypeOK
<1>8. CASE Crash
  BY <1>1, <1>2, <1>8, SMTT(40) DEF Crash, TypeOK
<1> QED
  BY <1>3, <1>4, <1>5, <1>6, <1>7, <1>8

LEMMA SaveTypes ==
    ASSUME TypeOK, Save
    PROVE  TypeOK'
<1>1. PICK step \in {StepInEpoch, at.step + 1}, newInfo \in Info : SaveStep(step, newInfo)
  BY DEF Save
<1>2. /\ pc = "save" /\ timed' \in BOOLEAN /\ pc' = "step_end"
      /\ UNCHANGED <<cfg, ret, teacher, engine, stale, batch, val, crashes>>
      /\ at' = [at EXCEPT !.consumed = @ + 1]
  BY <1>1 DEF SaveStep
<1>3. Metric' = Metric /\ Info' = Info
  BY <1>2 DEF Metric, Info
<1>4. at' \in [step: Nat, total: Nat, epoch: Nat, loader: 0..Batches, consumed: Nat]
  <2>1. at \in Position
    BY DEF TypeOK, Position
  <2>2. at' \in Position
    BY <1>2, <2>1 DEF Position
  <2> QED
    BY <2>2 DEF Position
<1>5. step \in Nat
  <2>1. at.step + 1 \in Nat
    BY SMTT(40) DEF TypeOK
  <2>2. (at.step + 1) % Batches \in 0..(Batches - 1)
    BY <2>1, SizeAssumption, NextRemainder
  <2> QED
    BY <2>1, <2>2 DEF StepInEpoch
<1>6. policy' \in [trained: Weights, model: {"gpu", "cpu"}, ref: Weights \cup {None}]
  <2>1. policy' = policy \/ policy' = PrepareForTraining(policy)
    BY <1>1 DEF SaveStep
  <2> QED
    BY <2>1, PrepareTypes DEF TypeOK
<1>7. /\ info' \in Info
      /\ disk' \in [step: Nat, total: Nat, epoch: Nat, loader: 0..Batches, consumed: Nat,
                    trained: Weights, info: Info]
  <2>1. CASE info' = info /\ disk' = disk
    BY <2>1 DEF TypeOK
  <2>2. CASE /\ info' = newInfo
             /\ disk' = [step |-> step, total |-> at.total + 1, epoch |-> at.epoch,
                         loader |-> at.loader, consumed |-> at.consumed + 1,
                         trained |-> policy.trained, info |-> newInfo]
    BY <1>5, <2>2, SMTT(40) DEF TypeOK
  <2> QED
    BY <1>1, <2>1, <2>2 DEF SaveStep
<1> QED
  BY <1>2, <1>3, <1>4, <1>6, <1>7, ZenonT(40) DEF TypeOK

LEMMA TypesKept ==
    ASSUME IInv, [Next]_vars
    PROVE  TypeOK'
<1>1. TypeOK /\ PhaseInv /\ StepInv /\ MetricInv
  BY DEF IInv
<1>2. CASE UNCHANGED vars
  BY <1>1, <1>2, SMTT(40) DEF vars, TypeOK, Metric, Info
<1> QED
  BY <1>1, <1>2, StepKinds, SetupTypes, StartTypes, ValidateTypes, EndTypes, LoopTypes, SaveTypes

-----------------------------------------------------------------------------
(* Positions and histories *)

\* The steps that leave counters, weights and checkpoints alone.
Quiet ==
    \/ Start \/ MaybeValidate \/ ValidateBatch
    \/ (cfg.alg = "sft" /\ EndTokens) \/ EndSet \/ (Distillation /\ EndAnswers)
    \/ StartEpoch \/ (cfg.alg = "dpo" /\ ReferenceLogprobs) \/ (Distillation /\ Generate)
    \/ (Distillation /\ TeacherLogits) \/ (Distillation /\ PrepareStudent)

LEMMA PhasesKept ==
    ASSUME IInv, [Next]_vars
    PROVE  PhaseInv'
<1>1. TypeOK /\ PhaseInv
  BY DEF IInv
<1>2. CASE Setup
  BY <1>2 DEF Setup, Restore, PhaseInv
<1>3. CASE Start \/ MaybeValidate
  BY <1>3 DEF Start, MaybeValidate, StartValidation, PhaseInv
<1>4. CASE ValidateBatch
  BY <1>1, <1>4 DEF ValidateBatch, ValidateNext, PhaseInv
<1>5. CASE EndTokens \/ EndSet \/ EndAnswers
  BY <1>1, <1>5 DEF EndTokens, EndSet, NextDataset, EndAnswers, PhaseInv
<1>6. CASE StartEpoch \/ EndEpoch \/ EndStep \/ Train \/ Save \/ Crash
  BY <1>6 DEF StartEpoch, EndEpoch, EndStep, Train, Save, SaveStep, Crash, PhaseInv
<1>7. CASE TakeBatch
  BY <1>7 DEF TakeBatch, NextTokens, NextPairs, NextPrompts, NextBatch, PhaseInv, Distillation
<1>8. CASE \/ cfg.alg = "dpo" /\ ReferenceLogprobs
           \/ Distillation /\ (Generate \/ TeacherLogits \/ PrepareStudent)
  BY <1>8 DEF ReferenceLogprobs, Generate, TeacherLogits, PrepareStudent, PhaseInv, Distillation
<1>9. CASE UNCHANGED vars
  BY <1>1, <1>9 DEF vars, PhaseInv, Distillation
<1> QED
  BY <1>1, <1>2, <1>3, <1>4, <1>5, <1>6, <1>7, <1>8, <1>9, StepKinds

\* Quiet steps keep the phase of the step under way.
LEMMA QuietSteps ==
    ASSUME TypeOK, PhaseInv, Quiet
    PROVE  /\ UNCHANGED <<cfg, at, disk, info, timed, crashes>>
           /\ policy'.trained = policy.trained /\ policy'.ref = policy.ref
           /\ batch'.index = batch.index
           /\ Live /\ Live' /\ (InStep' <=> InStep) /\ (Ahead' <=> Ahead)
           /\ pc # "step_end" /\ pc' # "step_end"
           /\ pc' \in {"batch", "done"} => StartEpoch
           /\ pc' = "epoch" => pc = "start" \/ ValidatingStart
           /\ ValidatingStart' => pc = "start" \/ ValidatingStart
           /\ pc' # "start"
<1>1. CASE Start \/ MaybeValidate
  <2>1. policy'.trained = policy.trained /\ policy'.ref = policy.ref
    BY <1>1, ReadyTypes, PrepareTypes DEF Start, MaybeValidate, StartValidation
  <2> QED
    BY <1>1, <2>1 DEF Start, MaybeValidate, StartValidation, Live, InStep, Ahead, Training,
                      ValidatingStep, ValidatingStart
<1>2. CASE ValidateBatch
  BY <1>2 DEF ValidateBatch, ValidateNext, Live, InStep, Ahead, Training, ValidatingStep,
              ValidatingStart
<1>3. CASE \/ cfg.alg = "sft" /\ EndTokens
           \/ EndSet
           \/ Distillation /\ EndAnswers
  <2>1. /\ pc = "validate" /\ pc' \in {pc, ret}
        /\ policy' \in {policy, PrepareForTraining(policy)}
        /\ UNCHANGED <<cfg, ret, at, disk, info, timed, crashes, batch>>
    BY <1>3 DEF EndTokens, EndSet, NextDataset, EndAnswers
  <2>2. policy'.trained = policy.trained /\ policy'.ref = policy.ref
    BY <2>1, PrepareTypes
  <2> QED
    BY <2>1, <2>2 DEF PhaseInv, Live, InStep, Ahead, Training, ValidatingStep, ValidatingStart
<1>4. CASE StartEpoch
  BY <1>4 DEF StartEpoch, Live, InStep, Ahead, Training, ValidatingStep, ValidatingStart
<1>5. CASE ReferenceLogprobs \/ Generate \/ TeacherLogits \/ PrepareStudent
  <2>1. batch'.index = batch.index
    BY <1>5 DEF ReferenceLogprobs, Generate, TeacherLogits, PrepareStudent, TypeOK
  <2>2. policy'.trained = policy.trained /\ policy'.ref = policy.ref
    BY <1>5, PrepareTypes DEF ReferenceLogprobs, Generate, TeacherLogits, PrepareStudent
  <2> QED
    BY <1>5, <2>1, <2>2 DEF ReferenceLogprobs, Generate, TeacherLogits, PrepareStudent, Live,
                            InStep, Ahead, Training, ValidatingStep, ValidatingStart
<1> QED
  BY <1>1, <1>2, <1>3, <1>4, <1>5 DEF Quiet

\* The counters' field by field moves, and the weights'.
LEMMA Moves ==
    ASSUME TypeOK
    PROVE  /\ Setup => /\ Live' /\ pc' = "start" /\ cfg' = cfg /\ disk' = disk
                       /\ policy'.trained = disk.trained
                       /\ at'.step = disk.step /\ at'.total = disk.total
                       /\ at'.epoch = disk.epoch /\ at'.loader = disk.loader
                       /\ at'.consumed = disk.consumed
           /\ TakeBatch => /\ pc = "batch" /\ Training' /\ UNCHANGED <<cfg, disk, timed, info>>
                           /\ policy'.trained = policy.trained /\ policy'.ref = policy.ref
                           /\ at.loader < Batches /\ at'.loader = at.loader + 1
                           /\ at'.step = at.step /\ at'.total = at.total
                           /\ at'.epoch = at.epoch /\ at'.consumed = at.consumed
                           /\ batch'.index = at.loader + 1
           /\ EndEpoch => /\ pc = "batch" /\ pc' = "epoch" /\ policy' = policy
                          /\ UNCHANGED <<cfg, disk, timed, info>>
                          /\ at.loader = Batches /\ at'.loader = 0 /\ at'.step = 0
                          /\ at'.epoch = at.epoch + 1
                          /\ at'.total = at.total /\ at'.consumed = at.consumed
           /\ EndStep => /\ pc = "step_end" /\ policy' = policy
                         /\ UNCHANGED <<cfg, disk, timed, info>>
                         /\ at'.step = at.step + 1 /\ at'.total = at.total + 1
                         /\ at'.epoch = at.epoch /\ at'.loader = at.loader
                         /\ at'.consumed = at.consumed
                         /\ pc' = IF timed \/ ~WithinLimit(at.total + 1) THEN "done" ELSE "batch"
<1>0. at \in Position
  BY DEF TypeOK, Position
<1>1. ASSUME Setup
      PROVE  /\ Live' /\ pc' = "start" /\ cfg' = cfg /\ disk' = disk
             /\ policy'.trained = disk.trained
             /\ at'.step = disk.step /\ at'.total = disk.total
             /\ at'.epoch = disk.epoch /\ at'.loader = disk.loader
             /\ at'.consumed = disk.consumed
  BY <1>1 DEF Setup, Restore, NewPolicy, Live
<1>2. ASSUME TakeBatch
      PROVE  /\ pc = "batch" /\ Training' /\ UNCHANGED <<cfg, disk, timed, info>>
             /\ policy'.trained = policy.trained /\ policy'.ref = policy.ref
             /\ at.loader < Batches /\ at'.loader = at.loader + 1
             /\ at'.step = at.step /\ at'.total = at.total
             /\ at'.epoch = at.epoch /\ at'.consumed = at.consumed
             /\ batch'.index = at.loader + 1
  <2>1. /\ pc = "batch" /\ Training' /\ UNCHANGED <<cfg, disk, timed, info>>
        /\ at.loader < Batches /\ at' = [at EXCEPT !.loader = @ + 1]
        /\ batch' = [NoBatch EXCEPT !.index = at.loader + 1]
    BY <1>2 DEF TakeBatch, NextTokens, NextPairs, NextPrompts, NextBatch, Training
  <2>2. policy'.trained = policy.trained /\ policy'.ref = policy.ref
    BY <1>2, ReadyTypes DEF TakeBatch, NextTokens, NextPairs, NextPrompts
  <2>3. /\ at'.loader = at.loader + 1
        /\ at'.step = at.step /\ at'.total = at.total
        /\ at'.epoch = at.epoch /\ at'.consumed = at.consumed
    BY <1>0, <2>1 DEF Position
  <2> QED
    BY <2>1, <2>2, <2>3 DEF NoBatch
<1>3. ASSUME EndEpoch
      PROVE  /\ pc = "batch" /\ pc' = "epoch" /\ policy' = policy
             /\ UNCHANGED <<cfg, disk, timed, info>>
             /\ at.loader = Batches /\ at'.loader = 0 /\ at'.step = 0
             /\ at'.epoch = at.epoch + 1
             /\ at'.total = at.total /\ at'.consumed = at.consumed
  BY <1>0, <1>3, PositionUpdates, ZenonT(40) DEF EndEpoch
<1>4. ASSUME EndStep
      PROVE  /\ pc = "step_end" /\ policy' = policy
             /\ UNCHANGED <<cfg, disk, timed, info>>
             /\ at'.step = at.step + 1 /\ at'.total = at.total + 1
             /\ at'.epoch = at.epoch /\ at'.loader = at.loader
             /\ at'.consumed = at.consumed
             /\ pc' = IF timed \/ ~WithinLimit(at.total + 1) THEN "done" ELSE "batch"
  BY <1>0, <1>4, PositionUpdates, ZenonT(40) DEF EndStep
<1> QED
  BY <1>1, <1>2, <1>3, <1>4

\* A checkpoint holds what the step under way leaves.
LEMMA SaveMoves ==
    ASSUME TypeOK, Save
    PROVE  /\ pc = "save" /\ pc' = "step_end" /\ timed' \in BOOLEAN
           /\ UNCHANGED <<cfg, ret, teacher, engine, stale, batch, val>>
           /\ policy'.trained = policy.trained /\ policy'.ref = policy.ref
           /\ at'.step = at.step /\ at'.total = at.total /\ at'.epoch = at.epoch
           /\ at'.loader = at.loader /\ at'.consumed = at.consumed + 1
           /\ IF cfg.saving /\ (IsLastStep \/ (at.total + 1) % SavePeriod = 0 \/ timed')
              THEN /\ disk'.step \in {StepInEpoch, at.step + 1}
                   /\ disk'.total = at.total + 1 /\ disk'.epoch = at.epoch
                   /\ disk'.loader = at.loader /\ disk'.consumed = at.consumed + 1
                   /\ disk'.trained = policy.trained /\ disk'.info = info'
                   /\ info'.named = NamedMetric
                   /\ info'.all = IF cfg.alg = "sft" THEN info.all ELSE val.metrics
              ELSE disk' = disk /\ info' = info /\ policy' = policy
<1>1. PICK step \in {StepInEpoch, at.step + 1}, newInfo \in Info :
         /\ SaveStep(step, newInfo)
         /\ newInfo.named = NamedMetric
         /\ newInfo.all = IF cfg.alg = "sft" THEN info.all ELSE val.metrics
  BY DEF Save
<1>2. policy'.trained = policy.trained /\ policy'.ref = policy.ref
  BY <1>1, PrepareTypes DEF SaveStep
<1>3. /\ at'.step = at.step /\ at'.total = at.total /\ at'.epoch = at.epoch
      /\ at'.loader = at.loader /\ at'.consumed = at.consumed + 1
  <2>1. at \in Position
    BY DEF TypeOK, Position
  <2> QED
    BY <1>1, <2>1 DEF SaveStep, Position
<1> QED
  BY <1>1, <1>2, <1>3 DEF SaveStep

LEMMA SmallRemainder ==
    ASSUME NEW p \in Nat \ {0}
    PROVE  /\ 0 % p = 0 /\ p % p = 0
           /\ \A n \in 0..(p - 1) : n % p = n
<1>1. p = 1 * p + 0 /\ 0 \in 0..(p - 1) /\ 1 \in Int
  OBVIOUS
<1>2. p % p = 0
  BY <1>1, Remainder
<1>3. \A n \in 0..(p - 1) : n % p = n
  <2> TAKE n \in 0..(p - 1)
  <2>1. n = 0 * p + n /\ 0 \in Int /\ n \in Nat
    OBVIOUS
  <2> QED
    BY <2>1, Remainder
<1> QED
  BY <1>1, <1>2, <1>3

LEMMA StepInvKept ==
    ASSUME IInv, [Next]_vars
    PROVE  StepInv'
<1>1. TypeOK /\ PhaseInv /\ StepInv /\ DiskInv
  BY DEF IInv
<1>2. /\ at.step \in Nat /\ at.total \in Nat /\ at.epoch \in Nat /\ at.loader \in 0..Batches
      /\ at.consumed \in Nat /\ Batches \in Nat \ {0} /\ MaxEpochs \in Nat
  BY <1>1, SizeAssumption DEF TypeOK
<1>3. CASE Setup
  <2>1. AtRest(at)' /\ (policy.trained = InOrder(at.total))'
    BY <1>1, <1>3, Moves DEF DiskInv, AtRest, Unlimited, InOrder
  <2>2. ~InStep' /\ ~Ahead' /\ pc' # "batch"
    BY <1>1, <1>3, Moves DEF InStep, Training, Ahead, ValidatingStep
  <2> QED
    BY <2>1, <2>2 DEF StepInv
<1>4. CASE Quiet
  <2>1. /\ UNCHANGED <<cfg, at>>
        /\ policy'.trained = policy.trained /\ batch'.index = batch.index
        /\ Live /\ (InStep' <=> InStep) /\ (Ahead' <=> Ahead)
        /\ pc # "step_end" /\ pc' # "step_end"
        /\ pc' = "batch" => StartEpoch
    BY <1>1, <1>4, QuietSteps
  <2>2. After' = After /\ (AtRest(After)' <=> AtRest(After)) /\ (AtRest(at)' <=> AtRest(at))
    BY <2>1 DEF After, AtRest, Unlimited
  <2>3. (policy.trained = InOrder(IF Ahead THEN at.total + 1 ELSE at.total))'
    BY <1>1, <2>1 DEF StepInv, InOrder
  <2>4. InStep' \/ pc' = "batch" => at'.epoch < MaxEpochs /\ WithinLimit(at.total)'
    BY <1>1, <2>1 DEF StepInv, StartEpoch, WithinLimit, Unlimited
  <2> QED
    BY <1>1, <2>1, <2>2, <2>3, <2>4 DEF StepInv
<1>5. CASE TakeBatch
  <2>1. AtRest(at) /\ WithinLimit(at.total) /\ at.epoch < MaxEpochs
        /\ policy.trained = InOrder(at.total)
    BY <1>1, <1>5, Moves DEF StepInv, Live, InStep, Training, Ahead, ValidatingStep
  <2>2. /\ at.loader < Batches /\ at.step = at.loader
        /\ at.total = at.epoch * Batches + at.loader
        /\ at.total % Batches = at.loader
        /\ (at.total + 1) % Batches = (at.loader + 1) % Batches
    <3>1. at.loader \in 0..(Batches - 1) /\ at.step = at.loader
      BY <1>1, <1>2, <1>5, <2>1, Moves DEF AtRest
    <3>2. at.loader % Batches = at.loader
      BY <1>2, <3>1, SmallRemainder
    <3>3. /\ (at.total + 1) % Batches =
                IF at.total % Batches = Batches - 1 THEN 0 ELSE (at.total % Batches) + 1
          /\ (at.loader + 1) % Batches =
                IF at.loader % Batches = Batches - 1 THEN 0 ELSE (at.loader % Batches) + 1
      <4>1. \A n \in Nat :
              (n + 1) % Batches = IF n % Batches = Batches - 1 THEN 0 ELSE (n % Batches) + 1
        BY <1>2, NextRemainder
      <4>2. at.total \in Nat /\ at.loader \in Nat
        BY <1>2
      <4> QED
        BY <4>1, <4>2, Zenon
    <3> QED
      BY <1>2, <2>1, <3>1, <3>2, <3>3 DEF AtRest
  <2>3. /\ InStep' /\ ~Ahead' /\ pc' # "step_end" /\ cfg' = cfg
        /\ policy'.trained = policy.trained
        /\ at'.loader = at.loader + 1 /\ at'.step = at.step /\ at'.total = at.total
        /\ at'.epoch = at.epoch /\ at'.consumed = at.consumed
        /\ batch'.index = at.loader + 1
    BY <1>1, <1>5, Moves DEF InStep, Training, Ahead, ValidatingStep
  <2>4. AtRest(After)'
    <3>1. Unlimited \/ at.total + 1 <= cfg.maxSteps
      <4>1. cfg.maxSteps \in Nat \cup {-1}
        BY <1>1, ConfigFacts
      <4> QED
        BY <1>2, <2>1, <4>1 DEF WithinLimit
    <3>2. Unlimited' <=> Unlimited
      BY <2>3 DEF Unlimited
    <3>3. at.consumed = at.total /\ at.epoch * Batches \in Nat
      BY <1>2, <2>1 DEF AtRest
    <3> DEFINE rem == (at.total + 1) % Batches
               epochs == at.epoch * Batches
    <3>4. rem = (at.loader + 1) % Batches /\ at.total = epochs + at.loader /\ epochs \in Nat
      BY <2>2, <3>3
    <3>5. After' = [step |-> at.loader + 1, total |-> at.total + 1, epoch |-> at.epoch,
                    loader |-> at.loader + 1, consumed |-> at.total + 1]
      BY <2>2, <2>3, <3>3 DEF After
    <3>6. (After.total = After.epoch * Batches + After.loader)'
      <4> HIDE DEF rem
      <4> QED
        BY <1>2, <3>4, <3>5
    <3>7. (After.total % Batches = After.loader % Batches)'
      BY <3>4, <3>5
    <3> QED
      BY <1>2, <2>1, <2>3, <3>1, <3>2, <3>5, <3>6, <3>7 DEF AtRest
  <2>5. WithinLimit(at.total)'
    BY <2>1, <2>3 DEF WithinLimit, Unlimited
  <2> QED
    BY <2>1, <2>2, <2>3, <2>4, <2>5 DEF StepInv, InOrder
<1>6. CASE EndEpoch
  <2>1. AtRest(at) /\ policy.trained = InOrder(at.total)
    BY <1>1, <1>6, Moves DEF StepInv, Live, InStep, Training, Ahead, ValidatingStep
  <2>2. /\ ~InStep' /\ ~Ahead' /\ pc' # "batch" /\ cfg' = cfg /\ policy' = policy
        /\ at.loader = Batches /\ at'.loader = 0 /\ at'.step = 0
        /\ at'.epoch = at.epoch + 1 /\ at'.total = at.total /\ at'.consumed = at.consumed
    BY <1>1, <1>6, Moves DEF InStep, Training, Ahead, ValidatingStep
  <2>3. at.total = (at.epoch + 1) * Batches + 0
    BY <1>2, <2>1, <2>2 DEF AtRest
  <2>4. at.total % Batches = 0 % Batches
    BY <1>2, <2>1, <2>2, SmallRemainder DEF AtRest
  <2>5. AtRest(at)'
    <3>1. (at.total = at.epoch * Batches + at.loader)'
      BY <2>2, <2>3
    <3>2. (at.total % Batches = at.loader % Batches)'
      BY <2>2, <2>4
    <3>3. /\ at'.consumed = at'.total /\ at'.step = at'.loader
          /\ at'.epoch <= MaxEpochs /\ ~(at'.loader > 0)
      BY <1>2, <2>1, <2>2 DEF AtRest
    <3>4. (Unlimited \/ at.total <= cfg.maxSteps)'
      BY <2>1, <2>2 DEF AtRest, Unlimited
    <3> QED
      BY <3>1, <3>2, <3>3, <3>4, Zenon DEF AtRest
  <2> QED
    BY <2>1, <2>2, <2>5 DEF StepInv, InOrder
<1>7. CASE Train
  <2>1. /\ pc = "train" /\ pc' = "trained" /\ UNCHANGED <<cfg, at, batch>>
        /\ policy'.trained = Append(policy.trained, batch.index)
    BY <1>1, <1>7 DEF Train, TypeOK
  <2>2. /\ policy.trained = InOrder(at.total) /\ batch.index = (at.total % Batches) + 1
        /\ AtRest(After) /\ at.loader = at.step + 1 /\ at.total % Batches = at.step
        /\ batch.index = at.loader /\ at.epoch < MaxEpochs /\ WithinLimit(at.total)
    BY <1>1, <2>1 DEF StepInv, Live, InStep, Training, Ahead, ValidatingStep
  <2>3. policy'.trained = InOrder(at.total + 1)
    BY <1>2, <2>1, <2>2, OneMoreInOrder
  <2>4. AtRest(After)' /\ WithinLimit(at.total)'
    BY <2>1, <2>2 DEF AtRest, After, Unlimited, WithinLimit
  <2>5. InStep' /\ Ahead' /\ pc' # "batch"
    BY <2>1 DEF InStep, Ahead
  <2> QED
    BY <2>1, <2>2, <2>3, <2>4, <2>5 DEF StepInv, InOrder
<1>8. CASE Save
  <2>1. /\ pc = "save" /\ pc' = "step_end" /\ cfg' = cfg /\ batch' = batch
        /\ policy'.trained = policy.trained
        /\ at'.step = at.step /\ at'.total = at.total /\ at'.epoch = at.epoch
        /\ at'.loader = at.loader /\ at'.consumed = at.consumed + 1
    BY <1>1, <1>8, SaveMoves
  <2>2. InStep /\ Ahead /\ InStep' /\ Ahead' /\ Live
    BY <2>1 DEF InStep, Ahead, Live
  <2>3. After' = After /\ (AtRest(After)' <=> AtRest(After))
    BY <2>1 DEF After, AtRest, Unlimited
  <2> QED
    BY <1>1, <2>1, <2>2, <2>3 DEF StepInv, InOrder, WithinLimit, Unlimited
<1>9. CASE EndStep
  <2>1. /\ pc = "step_end" /\ policy' = policy /\ cfg' = cfg
        /\ at'.step = at.step + 1 /\ at'.total = at.total + 1
        /\ at'.epoch = at.epoch /\ at'.loader = at.loader /\ at'.consumed = at.consumed
        /\ pc' = IF timed \/ ~WithinLimit(at.total + 1) THEN "done" ELSE "batch"
    BY <1>1, <1>9, Moves
  <2>2. /\ policy.trained = InOrder(at.total + 1) /\ AtRest(After) /\ at.epoch < MaxEpochs
    BY <1>1, <2>1 DEF StepInv, Live, InStep, Ahead
  <2>3. AtRest(at)'
    BY <2>1, <2>2 DEF AtRest, After, Unlimited
  <2>4. ~InStep' /\ ~Ahead'
    BY <2>1 DEF InStep, Training, Ahead, ValidatingStep
  <2> QED
    BY <2>1, <2>2, <2>3, <2>4 DEF StepInv, InOrder, WithinLimit, Unlimited
<1>10. CASE Crash
  BY <1>10 DEF Crash, StepInv, Live, InStep, Training, Ahead, ValidatingStep
<1>11. CASE UNCHANGED vars
  BY <1>1, <1>11 DEF vars, StepInv, Live, InStep, Training, Ahead, ValidatingStep, AtRest,
                     After, Unlimited, WithinLimit, InOrder
<1> QED
  BY <1>1, <1>3, <1>4, <1>5, <1>6, <1>7, <1>8, <1>9, <1>10, <1>11, StepKinds DEF Quiet

\* Nothing but a save writes a checkpoint.
LEMMA DiskStays ==
    ASSUME TypeOK, PhaseInv, [Next]_vars
    PROVE  cfg' = cfg /\ (Save \/ disk' = disk)
BY StepKinds, QuietSteps, Moves, SaveMoves DEF Quiet, Train, Crash, vars

LEMMA DiskInvKept ==
    ASSUME IInv, [Next]_vars
    PROVE  DiskInv'
<1>1. TypeOK /\ PhaseInv /\ StepInv /\ DiskInv
  BY DEF IInv
<1>2. CASE disk' = disk
  BY <1>1, <1>2, DiskStays DEF DiskInv, AtRest, Unlimited, InOrder
<1>3. CASE Save /\ disk' # disk
  <2>1. /\ pc = "save" /\ cfg' = cfg
        /\ disk'.step \in {StepInEpoch, at.step + 1}
        /\ disk'.total = at.total + 1 /\ disk'.epoch = at.epoch
        /\ disk'.loader = at.loader /\ disk'.consumed = at.consumed + 1
        /\ disk'.trained = policy.trained
    BY <1>1, <1>3, SaveMoves
  <2>2. AtRest(After) /\ at.loader = at.step + 1 /\ policy.trained = InOrder(at.total + 1)
    BY <1>1, <2>1 DEF StepInv, InStep, Ahead, Live
  <2>3. disk'.step = disk'.loader \/ disk'.loader = Batches
    <3>1. at.loader \in 0..Batches /\ Batches \in Nat \ {0}
      BY <1>1, SizeAssumption DEF TypeOK
    <3>2. CASE at.loader = Batches
      BY <2>1, <3>2
    <3>3. CASE at.loader # Batches
      <4>1. at.loader \in 0..(Batches - 1)
        BY <3>1, <3>3
      <4>2. at.loader % Batches = at.loader
        BY <3>1, <4>1, SmallRemainder
      <4> QED
        BY <2>1, <2>2, <4>2 DEF StepInEpoch
    <3> QED
      BY <3>2, <3>3
  <2>4. AtRest(disk)'
    BY <2>1, <2>2, <2>3 DEF AtRest, After, Unlimited
  <2> QED
    BY <2>1, <2>2, <2>4 DEF DiskInv, InOrder
<1> QED
  BY <1>1, <1>2, <1>3, DiskStays

LEMMA DoneInvKept ==
    ASSUME IInv, [Next]_vars
    PROVE  DoneInv'
<1>1. TypeOK /\ PhaseInv /\ StepInv /\ DoneInv
  BY DEF IInv
<1>2. CASE StartEpoch
  <2>1. /\ UNCHANGED <<at, cfg, timed>> /\ pc = "epoch"
        /\ pc' = "done" => ~(at.epoch < MaxEpochs /\ WithinLimit(at.total))
    BY <1>2 DEF StartEpoch
  <2>2. at.epoch <= MaxEpochs /\ at.epoch \in Nat /\ MaxEpochs \in Nat
    BY <1>1, <2>1, SizeAssumption
       DEF TypeOK, StepInv, Live, InStep, Training, Ahead, ValidatingStep, AtRest
  <2> QED
    BY <2>1, <2>2 DEF DoneInv, WithinLimit, Unlimited
<1>3. CASE Quiet /\ ~StartEpoch
  BY <1>1, <1>3, QuietSteps DEF DoneInv
<1>4. CASE EndStep
  BY <1>1, <1>4, Moves DEF DoneInv, WithinLimit, Unlimited
<1>5. CASE Setup \/ TakeBatch \/ EndEpoch \/ Save \/ Train \/ Crash
  BY <1>1, <1>5, Moves, SaveMoves DEF DoneInv, Train, Crash, Training
<1>6. CASE UNCHANGED vars
  BY <1>1, <1>6 DEF vars, DoneInv, WithinLimit, Unlimited
<1> QED
  BY <1>1, <1>2, <1>3, <1>4, <1>5, <1>6, StepKinds DEF Quiet

LEMMA WorkInvKept ==
    ASSUME IInv, [Next]_vars
    PROVE  WorkInv'
<1>1. TypeOK /\ PhaseInv /\ StepInv /\ DiskInv /\ WorkInv
  BY DEF IInv
<1>2. /\ at.total \in Nat /\ disk.total \in Nat /\ SavePeriod \in Nat \ {0}
      /\ at.step \in Nat /\ at.epoch \in Nat /\ MaxEpochs \in Nat
  BY <1>1, SizeAssumption DEF TypeOK
<1>3. cfg' = cfg
  BY <1>1, DiskStays
<1> SUFFICES ASSUME cfg.saving
             PROVE  WorkInv'
  BY <1>3 DEF WorkInv
<1>4. \A n \in Nat : n % SavePeriod \in 0..(SavePeriod - 1)
  BY <1>2, NextRemainder
<1>5. CASE Setup
  <2>1. /\ pc' = "start" /\ disk' = disk /\ policy'.trained = disk.trained
        /\ at'.total = disk.total
    BY <1>1, <1>5, Moves
  <2>2. Decided' = disk.total /\ disk.total % SavePeriod >= 0
    BY <1>2, <1>4, <2>1 DEF Decided
  <2> QED
    BY <1>2, <2>1, <2>2 DEF WorkInv, Live, Saved
<1>6. CASE Quiet
  <2>1. /\ UNCHANGED <<at, disk, timed>> /\ policy'.trained = policy.trained
        /\ Live /\ Live' /\ pc # "step_end" /\ pc' # "step_end"
        /\ pc' \in {"batch", "done"} => StartEpoch
        /\ pc' = "epoch" => pc = "start" \/ ValidatingStart
        /\ ValidatingStart' => pc = "start" \/ ValidatingStart
        /\ pc' # "start"
    BY <1>1, <1>6, QuietSteps
  <2>2. Decided' = Decided /\ (Saved' <=> Saved)
    BY <2>1 DEF Decided, Saved
  <2>3. pc' = "done" => Saved
    <3>1. SUFFICES ASSUME pc' = "done" PROVE Saved
      OBVIOUS
    <3>2. pc = "epoch" /\ ~(at.epoch < MaxEpochs /\ WithinLimit(at.total))
      BY <2>1, <3>1 DEF StartEpoch
    <3>3. at.epoch <= MaxEpochs
      BY <1>1, <3>2 DEF StepInv, Live, InStep, Training, Ahead, ValidatingStep, AtRest
    <3> QED
      BY <1>1, <1>2, <3>2, <3>3 DEF WorkInv
  <2>4. pc' = "batch" /\ at.loader = Batches => Saved
    <3>1. pc' = "batch" => pc = "epoch"
      BY <2>1 DEF StartEpoch
    <3> QED
      BY <1>1, <3>1, SizeAssumption DEF WorkInv
  <2>5. pc' = "epoch" \/ ValidatingStart' => Saved
    BY <1>1, <2>1 DEF WorkInv
  <2> QED
    BY <1>1, <2>1, <2>2, <2>3, <2>4, <2>5 DEF WorkInv
<1>7. CASE TakeBatch
  <2>1. /\ pc = "batch" /\ Training' /\ disk' = disk
        /\ policy'.trained = policy.trained /\ at'.total = at.total
    BY <1>1, <1>7, Moves
  <2>2. Decided' = Decided /\ Live
    BY <2>1 DEF Decided, Training, Live
  <2> QED
    BY <1>1, <2>1, <2>2 DEF WorkInv, Training, Live, ValidatingStart
<1>8. CASE EndEpoch
  <2>1. /\ pc = "batch" /\ pc' = "epoch" /\ policy' = policy /\ disk' = disk
        /\ at.loader = Batches /\ at'.loader = 0
        /\ at'.epoch = at.epoch + 1 /\ at'.total = at.total
    BY <1>1, <1>8, Moves
  <2>2. Decided' = Decided /\ Live /\ (Saved' <=> Saved)
    BY <2>1 DEF Decided, Live, Saved
  <2>3. WithinLimit(at.total)'
    BY <1>1, <1>3, <2>1 DEF StepInv, WithinLimit, Unlimited
  <2> QED
    BY <1>1, <2>1, <2>2, <2>3 DEF WorkInv, Live, ValidatingStart
<1>9. CASE Train
  <2>1. pc = "train" /\ pc' = "trained" /\ UNCHANGED <<at, disk>>
    BY <1>9 DEF Train
  <2>2. Decided' = Decided /\ Live
    BY <2>1 DEF Decided, Live
  <2> QED
    BY <1>1, <2>1, <2>2 DEF WorkInv, Live, ValidatingStart
<1>10. CASE Save
  <2>1. /\ pc = "save" /\ pc' = "step_end"
        /\ policy'.trained = policy.trained
        /\ at'.step = at.step /\ at'.total = at.total /\ at'.epoch = at.epoch
        /\ IF IsLastStep \/ (at.total + 1) % SavePeriod = 0 \/ timed'
           THEN disk'.total = at.total + 1 /\ disk'.trained = policy.trained
           ELSE disk' = disk
    BY <1>1, <1>10, SaveMoves
  <2>2. Decided = at.total /\ Decided' = at.total + 1 /\ Live /\ (IsLastStep' <=> IsLastStep)
    BY <1>3, <2>1 DEF Decided, Live, IsLastStep, Unlimited
  <2>3. at.total - disk.total <= at.total % SavePeriod
    BY <1>1, <2>2 DEF WorkInv
  <2>4. CASE IsLastStep \/ (at.total + 1) % SavePeriod = 0 \/ timed'
    <3>1. disk'.total = at.total + 1 /\ Saved' /\ (at.total + 1) % SavePeriod >= 0
      BY <1>2, <1>4, <2>1, <2>4 DEF Saved
    <3> QED
      BY <1>2, <2>1, <2>2, <3>1 DEF WorkInv, Live, ValidatingStart
  <2>5. CASE ~(IsLastStep \/ (at.total + 1) % SavePeriod = 0 \/ timed')
    <3>1. disk'.total = disk.total /\ (at.total + 1) % SavePeriod = (at.total % SavePeriod) + 1
      BY <1>2, <2>1, <2>5, NextRemainder
    <3>2. at.total + 1 - disk.total <= (at.total + 1) % SavePeriod
      BY <1>2, <1>4, <2>3, <3>1
    <3>3. (Decided - disk.total <= Decided % SavePeriod)'
      <4> DEFINE Within(d, saved) == d - saved <= d % SavePeriod
      <4>1. Within(at.total + 1, disk.total)
        BY <3>2, <1>2
      <4> HIDE DEF Within
      <4>2. Within(Decided', disk'.total)
        BY <2>2, <3>1, <4>1
      <4> QED
        BY <4>2 DEF Within
    <3>4. Live' /\ pc' = "step_end" /\ ~ValidatingStart' /\ ~(timed \/ IsLastStep)'
      BY <2>1, <2>2, <2>5 DEF Live, ValidatingStart
    <3> QED
      BY <3>3, <3>4 DEF WorkInv
  <2> QED
    BY <2>4, <2>5
<1>11. CASE EndStep
  <2>1. /\ pc = "step_end" /\ policy' = policy /\ disk' = disk /\ timed' = timed
        /\ at'.total = at.total + 1
        /\ at'.epoch = at.epoch /\ at'.loader = at.loader
        /\ pc' = IF timed \/ ~WithinLimit(at.total + 1) THEN "done" ELSE "batch"
    BY <1>1, <1>11, Moves
  <2>2. Decided' = Decided /\ Live /\ (Saved' <=> Saved)
    BY <2>1 DEF Decided, Live, Saved
  <2>3. ~WithinLimit(at.total + 1) => IsLastStep
    <3>1. cfg.maxSteps \in Nat \cup {-1}
      BY <1>1, ConfigFacts
    <3> QED
      BY <1>2, <3>1 DEF WithinLimit, IsLastStep, Unlimited
  <2>4. at.loader = Batches /\ at.epoch + 1 = MaxEpochs => IsLastStep
    BY <1>1, <2>1 DEF StepInv, InStep, Ahead, IsLastStep
  <2> QED
    BY <1>1, <2>1, <2>2, <2>3, <2>4 DEF WorkInv, Live, ValidatingStart
<1>12. CASE Crash
  <2>1. /\ Live /\ ~Live' /\ UNCHANGED <<policy, disk, at>> /\ pc' = "setup"
    BY <1>12 DEF Crash, Live
  <2>2. Len(policy.trained) = IF Ahead THEN at.total + 1 ELSE at.total
    <3>1. PICK n \in Nat : n = IF Ahead THEN at.total + 1 ELSE at.total
      BY <1>2
    <3>2. policy.trained = InOrder(n)
      BY <1>1, <2>1, <3>1 DEF StepInv
    <3> QED
      BY <3>1, <3>2, OneMoreInOrder
  <2>3. Decided - disk.total <= Decided % SavePeriod
    BY <1>1, <2>1 DEF WorkInv
  <2>4. PICK d \in Nat : d = Decided
    BY <1>2 DEF Decided
  <2>5. d - disk.total <= SavePeriod - 1
    BY <1>2, <1>4, <2>3, <2>4
  <2>6. Len(policy.trained) <= d + 1
    BY <1>2, <2>2, <2>4 DEF Decided, Ahead
  <2>7. Len(policy.trained) - disk.total <= SavePeriod
    <3>1. Len(policy.trained) \in Nat
      BY <1>2, <2>2
    <3> QED
      BY <1>2, <2>5, <2>6, <3>1
  <2> QED
    BY <2>1, <2>7 DEF WorkInv, ValidatingStart
<1>13. CASE UNCHANGED vars
  BY <1>1, <1>13 DEF vars, WorkInv, Live, Decided, Saved, ValidatingStart, WithinLimit,
                     Unlimited, IsLastStep
<1> QED
  BY <1>1, <1>5, <1>6, <1>7, <1>8, <1>9, <1>10, <1>11, <1>12, <1>13, StepKinds DEF Quiet

-----------------------------------------------------------------------------
(* Metrics, references and the engine *)

LEMMA EngineInvKept ==
    ASSUME IInv, [Next]_vars
    PROVE  EngineInv'
<1>1. TypeOK /\ PhaseInv /\ EngineInv /\ StepInv
  BY DEF IInv
<1>2. cfg' = cfg /\ (Distillation' <=> Distillation)
  BY <1>1, DiskStays DEF Distillation
<1>3. Distillation => cfg.alg # "dpo"
  BY DEF Distillation
<1>4. CASE Setup
  <2>1. /\ pc' = "start" /\ stale' = TRUE
        /\ policy' = NewPolicy(disk.trained)
    BY <1>4 DEF Setup, Restore
  <2> QED
    BY <1>2, <2>1 DEF EngineInv, NewPolicy
<1>5. CASE Start \/ MaybeValidate
  <2>1. policy'.trained = policy.trained /\ policy'.ref = policy.ref
    BY <1>1, <1>5, QuietSteps DEF Quiet
  <2>2. /\ Live /\ pc \in {"start", "trained"} /\ batch' = batch
        /\ \/ StartValidation
           \/ pc' \in {"epoch", "save"} /\ UNCHANGED <<engine, stale>>
    BY <1>5 DEF Start, MaybeValidate, Live
  <2>3. CASE StartValidation /\ Distillation
    <3>1. stale = TRUE
      BY <1>1, <2>2, <2>3 DEF EngineInv, TypeOK
    <3>2. engine'.holds = policy.trained /\ stale' = FALSE /\ pc' = "validate"
      BY <2>3, <3>1 DEF StartValidation, ReadyEngine
    <3> QED
      BY <1>1, <1>2, <1>3, <2>1, <3>2, <2>2, <2>3 DEF EngineInv
  <2>4. CASE StartValidation /\ ~Distillation
    BY <1>1, <1>2, <2>1, <2>2, <2>4 DEF StartValidation, EngineInv
  <2>5. CASE ~StartValidation
    BY <1>1, <1>2, <2>1, <2>2, <2>5 DEF EngineInv
  <2> QED
    BY <2>3, <2>4, <2>5
<1>6. CASE ValidateBatch \/ StartEpoch
  <2>1. /\ Live /\ UNCHANGED <<policy, engine, stale, batch>>
        /\ pc' = pc \/ pc' \in {"batch", "done"}
    BY <1>6 DEF ValidateBatch, ValidateNext, StartEpoch, Live
  <2> QED
    BY <1>1, <1>2, <2>1 DEF EngineInv, Live
<1>7. CASE \/ cfg.alg = "sft" /\ EndTokens
           \/ EndSet
           \/ Distillation /\ EndAnswers
  <2>1. policy'.trained = policy.trained /\ policy'.ref = policy.ref
    BY <1>1, <1>7, QuietSteps DEF Quiet
  <2>2. /\ pc = "validate" /\ pc' \in {"validate", "epoch", "save"}
        /\ engine'.holds = engine.holds /\ UNCHANGED <<stale, batch>>
    BY <1>1, <1>7 DEF EndTokens, EndSet, NextDataset, EndAnswers, FinishGeneration, PhaseInv,
                      TypeOK
  <2> QED
    BY <1>1, <1>2, <2>1, <2>2 DEF EngineInv, Live
<1>8. CASE TakeBatch
  <2>1. /\ pc = "batch" /\ Training' /\ Live
        /\ policy'.trained = policy.trained /\ policy'.ref = policy.ref
    BY <1>1, <1>8, Moves DEF Live
  <2>2. CASE Distillation
    <3>1. pc' = "generate" /\ ReadyEngine
      BY <1>8, <2>2 DEF TakeBatch, NextPrompts, NextBatch, Distillation
    <3>2. engine'.holds = policy.trained /\ stale' = FALSE
      <4>1. CASE stale
        BY <3>1, <4>1 DEF ReadyEngine
      <4>2. CASE ~stale
        BY <1>1, <2>1, <2>2, <3>1, <4>2, ReadyTypes DEF ReadyEngine, EngineInv, TypeOK
      <4> QED
        BY <4>1, <4>2
    <3> QED
      BY <1>2, <1>3, <2>1, <2>2, <3>1, <3>2 DEF EngineInv
  <2>3. CASE ~Distillation
    <3>1. cfg.alg = "dpo" => pc' = "reference"
      BY <1>8, <2>3 DEF TakeBatch, NextPairs, NextBatch
    <3> QED
      BY <1>1, <1>2, <2>1, <2>3, <3>1 DEF EngineInv
  <2> QED
    BY <2>2, <2>3
<1>9. CASE EndEpoch \/ EndStep
  <2>1. /\ pc \in {"batch", "step_end"} /\ pc' \in {"epoch", "batch", "done"}
        /\ UNCHANGED <<policy, engine, stale>>
    BY <1>9 DEF EndEpoch, EndStep
  <2> QED
    BY <1>1, <1>2, <2>1 DEF EngineInv, Live
<1>10. CASE cfg.alg = "dpo" /\ ReferenceLogprobs
  <2>1. /\ pc = "reference" /\ pc' = "train" /\ policy' = policy
        /\ batch'.ref = policy.ref /\ ~Distillation
    BY <1>1, <1>3, <1>10 DEF ReferenceLogprobs, TypeOK
  <2> QED
    BY <1>1, <1>2, <2>1 DEF EngineInv, Live
<1>11. CASE Distillation /\ (Generate \/ TeacherLogits)
  <2>1. /\ Live /\ UNCHANGED <<policy, stale>> /\ engine'.holds = engine.holds
        /\ \/ pc = "generate" /\ batch'.from = engine.holds /\ pc' = "teacher"
           \/ pc = "teacher" /\ batch' = batch /\ pc' = "prepare"
    BY <1>1, <1>11 DEF Generate, TeacherLogits, FinishGeneration, TypeOK, Live
  <2> QED
    BY <1>1, <1>2, <1>3, <1>11, <2>1 DEF EngineInv
<1>12. CASE Distillation /\ PrepareStudent
  <2>1. /\ Live /\ pc = "prepare" /\ pc' = "train" /\ stale' = TRUE /\ batch' = batch
        /\ policy'.trained = policy.trained
    BY <1>1, <1>12, PrepareTypes DEF PrepareStudent, Live
  <2> QED
    BY <1>1, <1>2, <1>3, <1>12, <2>1 DEF EngineInv
<1>13. CASE Train
  <2>1. /\ Live /\ pc = "train" /\ pc' = "trained" /\ stale' = stale /\ policy'.ref = policy.ref
    BY <1>1, <1>13 DEF Train, TypeOK, Live
  <2> QED
    BY <1>1, <1>2, <2>1 DEF EngineInv
<1>14. CASE Save
  <2>1. /\ Live /\ pc = "save" /\ pc' = "step_end" /\ UNCHANGED <<engine, stale>>
        /\ policy'.trained = policy.trained /\ policy'.ref = policy.ref
    BY <1>1, <1>14, SaveMoves DEF Live
  <2> QED
    BY <1>1, <1>2, <2>1 DEF EngineInv
<1>15. CASE Crash
  BY <1>15 DEF Crash, EngineInv, Live
<1>16. CASE UNCHANGED vars
  BY <1>1, <1>16 DEF vars, EngineInv, Live, Distillation
<1> QED
  BY <1>1, <1>4, <1>5, <1>6, <1>7, <1>8, <1>9, <1>10, <1>11, <1>12, <1>13, <1>14, <1>15,
     <1>16, StepKinds

\* What a validation of one set gives is good when all of it has been looked at.
LEMMA MetricsOfSet ==
    ASSUME TypeOK, SeenInv, val.counted = CountedSoFar, ~MoreVal, NEW weights
    PROVE  AllGood(Metrics(weights), weights) /\ Sets(Metrics(weights)) = {val.set}
<1>1. val.seen \in Nat /\ val.seen <= ValSamples /\ ValSamples \in Nat
  BY SizeAssumption DEF TypeOK, SeenInv
<1>2. val.seen = ValSamples \/ ~BeforeLimit(val.seen)
  BY <1>1, NextSamples DEF MoreVal
<1>3. \A i \in 1..ValSamples : i \in ToCount(val.set) => i <= val.seen
  <2>1. SUFFICES ASSUME NEW i \in 1..ValSamples, i \in ToCount(val.set)
                 PROVE  i <= val.seen
    OBVIOUS
  <2>2. CASE val.seen = ValSamples
    BY <2>2
  <2>3. CASE ~BeforeLimit(val.seen)
    <3>1. /\ ~(cfg.valBatches = 0 /\ ~Distillation)
          /\ ~(val.seen < cfg.valBatches * ValBatchSize)
      BY <2>3 DEF BeforeLimit
    <3>2. i <= cfg.valBatches * ValBatchSize
      BY <2>1, <3>1 DEF ToCount
    <3>3. cfg.valBatches * ValBatchSize \in Nat
      BY ConfigFacts, SizeAssumption
    <3> QED
      BY <1>1, <3>1, <3>2, <3>3
  <2> QED
    BY <1>2, <2>2, <2>3
<1>4. val.counted = [i \in 1..ValSamples |-> IF i \in ToCount(val.set) THEN 1 ELSE 0]
  BY <1>3 DEF CountedSoFar
<1> QED
  BY <1>4 DEF Metrics, AllGood, Good, Sets

\* A validation begins with no sample counted.
LEMMA StartCounts ==
    ASSUME TypeOK, TypeOK', val'.seen = 0, val'.counted = NoneCounted
    PROVE  SeenInv' /\ val'.counted = CountedSoFar'
<1>1. 0 <= ValSamples /\ 0 \in Nat /\ 0 = 0 * ValBatchSize
  BY SizeAssumption
<1>2. cfg'.valBatches * ValBatchSize >= 0
  <2>1. cfg'.valBatches \in Nat
    BY ConfigAssumption DEF TypeOK, ConfigType
  <2> QED
    BY <2>1, SizeAssumption
<1>3. SeenInv'
  BY <1>1, <1>2 DEF SeenInv
<1>4. val'.counted = CountedSoFar'
  BY DEF CountedSoFar, NoneCounted
<1> QED
  BY <1>3, <1>4

\* The metrics in the save state, and what they say of the checkpoint.
InfoInv ==
    /\ \A i \in {info, disk.info} : /\ ~cfg.metric => i.named = {}
                                    /\ cfg.alg = "sft" => i.all = {}
    /\ MetricOfItsCheckpoint

LEMMA InfoStays ==
    ASSUME InfoInv, cfg' = cfg, disk' = disk, info' \in {info, disk.info}
    PROVE  InfoInv'
<1>1. \A k : ToCount(k)' = ToCount(k)
  BY DEF ToCount, Distillation
<1> QED
  BY <1>1 DEF InfoInv, MetricOfItsCheckpoint

LEMMA GoodStays ==
    ASSUME cfg' = cfg
    PROVE  \A metrics, weights : AllGood(metrics, weights) => AllGood(metrics, weights)'
<1>1. \A k : ToCount(k)' = ToCount(k)
  BY DEF ToCount, Distillation
<1> QED
  BY <1>1 DEF AllGood, Good

LEMMA EndCounts ==
    ASSUME IInv, TypeOK',
           \/ cfg.alg = "sft" /\ EndTokens
           \/ EndSet
           \/ Distillation /\ EndAnswers
    PROVE  /\ pc' = "validate" => /\ SeenInv' /\ val'.counted = CountedSoFar'
                                  /\ AllGood(val'.metrics, policy.trained)
                                  /\ Sets(val'.metrics) = 1..(val'.set - 1)
           /\ pc' = "save" => /\ AllGood(val'.metrics, policy.trained)
                              /\ Sets(val'.metrics) = 1..cfg.sets
<1>1. TypeOK /\ PhaseInv /\ MetricInv /\ EngineInv
  BY DEF IInv
<1>2. pc = "validate" /\ ~MoreVal /\ cfg' = cfg
  BY DEF EndTokens, EndSet, NextDataset, EndAnswers
<1>3. /\ SeenInv /\ val.counted = CountedSoFar
      /\ AllGood(val.metrics, policy.trained) /\ Sets(val.metrics) = 1..(val.set - 1)
  BY <1>1, <1>2 DEF MetricInv
<1> DEFINE own == Metrics(policy.trained)
           found == val.metrics \cup own
<1>4. AllGood(own, policy.trained) /\ Sets(own) = {val.set}
  BY <1>1, <1>2, <1>3, MetricsOfSet
<1>5. /\ cfg.sets \in Nat \ {0} /\ val.set \in 1..cfg.sets
      /\ cfg.sets = 1 \/ cfg.alg \in {"dpo", "rm"}
  BY <1>1, ConfigFacts DEF TypeOK
<1>6. AllGood(found, policy.trained) /\ Sets(found) = 1..val.set
  <2>1. Sets(found) = Sets(val.metrics) \cup Sets(own)
    BY DEF Sets
  <2>2. Sets(found) = 1..val.set
    <3>1. PICK k \in Nat \ {0} : k = val.set
      BY <1>5
    <3>2. 1..k = (1..(k - 1)) \cup {k}
      OBVIOUS
    <3> QED
      BY <1>3, <1>4, <2>1, <3>1, <3>2
  <2>3. AllGood(found, policy.trained)
    BY <1>3, <1>4 DEF AllGood
  <2> QED
    BY <2>2, <2>3
<1> HIDE DEF own, found
<1>7. CASE cfg.alg = "sft" /\ EndTokens
  <2>1. val' = [val EXCEPT !.metrics = own] /\ pc' = ret /\ val.set = 1 /\ cfg.sets = 1
    BY <1>5, <1>7 DEF EndTokens, own
  <2>2. val'.metrics = own /\ pc' # "validate"
    BY <1>1, <1>2, <2>1 DEF TypeOK, PhaseInv
  <2> QED
    BY <1>4, <2>1, <2>2
<1>8. CASE Distillation /\ EndAnswers
  <2>1. Metrics(engine.holds) = own
    BY <1>1, <1>2, <1>8 DEF EngineInv, Live, own
  <2>2. val' = [val EXCEPT !.metrics = own] /\ pc' = ret /\ val.set = 1 /\ cfg.sets = 1
    BY <1>5, <1>8, <2>1 DEF EndAnswers, Distillation
  <2>3. val'.metrics = own /\ pc' # "validate"
    BY <1>1, <1>2, <2>2 DEF TypeOK, PhaseInv
  <2> QED
    BY <1>4, <2>2, <2>3
<1>9. CASE EndSet
  <2>1. IF val.set < cfg.sets
        THEN pc' = pc /\ val' = [NoVal EXCEPT !.set = val.set + 1, !.metrics = found]
        ELSE pc' = ret /\ val' = [val EXCEPT !.metrics = found]
    BY <1>9 DEF EndSet, NextDataset, found, own
  <2>2. CASE val.set < cfg.sets
    <3>1. /\ val'.metrics = found /\ val'.set = val.set + 1
          /\ val'.seen = 0 /\ val'.counted = NoneCounted
      BY <2>1, <2>2 DEF NoVal
    <3>2. val'.set - 1 = val.set
      BY <1>5, <3>1
    <3> QED
      BY <1>1, <1>2, <1>6, <2>1, <2>2, <3>1, <3>2, StartCounts
  <2>3. CASE ~(val.set < cfg.sets)
    <3>1. val'.metrics = found /\ val.set = cfg.sets
      <4>1. val.set = cfg.sets
        BY <1>5, <2>3
      <4>2. val' = [val EXCEPT !.metrics = found]
        BY <2>1, <2>3
      <4> QED
        BY <1>1, <4>1, <4>2 DEF TypeOK
    <3>2. pc' # "validate"
      BY <1>1, <1>2, <2>1, <2>3 DEF PhaseInv
    <3> QED
      BY <1>6, <3>1, <3>2
  <2> QED
    BY <2>2, <2>3
<1> QED
  BY <1>7, <1>8, <1>9

LEMMA MetricInvKept ==
    ASSUME IInv, [Next]_vars
    PROVE  MetricInv'
<1>1. TypeOK /\ TypeOK' /\ PhaseInv /\ MetricInv /\ StepInv /\ EngineInv /\ InfoInv
  BY TypesKept DEF IInv, MetricInv, InfoInv
<1>2. cfg' = cfg
  BY <1>1, DiskStays
<1>3. \A metrics, weights : AllGood(metrics, weights) => AllGood(metrics, weights)'
  BY <1>2, GoodStays
<1>4. CASE Setup
  <2>1. disk' = disk /\ info' = disk.info /\ pc' = "start"
    BY <1>4 DEF Setup, Restore
  <2>2. InfoInv'
    BY <1>1, <1>2, <2>1, InfoStays
  <2> QED
    BY <2>1, <2>2 DEF MetricInv, InfoInv, Training
<1>5. CASE Start \/ MaybeValidate
  <2>1. disk' = disk /\ info' = info /\ policy'.trained = policy.trained
    BY <1>1, <1>5, QuietSteps DEF Quiet
  <2>2. InfoInv'
    BY <1>1, <1>2, <2>1, InfoStays
  <2>3. CASE pc' = "validate"
    <3>1. val' = NoVal
      BY <1>5, <2>3 DEF Start, MaybeValidate, StartValidation
    <3>2. /\ val'.seen = 0 /\ val'.counted = NoneCounted /\ val'.metrics = {}
          /\ val'.set - 1 = 0
      BY <3>1 DEF NoVal
    <3>3. Sets(val'.metrics) = 1..(val'.set - 1) /\ AllGood(val.metrics, policy.trained)'
      BY <3>2 DEF Sets, AllGood
    <3> QED
      BY <1>1, <2>2, <2>3, <3>2, <3>3, StartCounts DEF MetricInv, InfoInv, Training, Sets
  <2>4. CASE pc' # "validate"
    <3>1. pc' \in {"epoch", "save"} /\ (pc' = "save" => pc = "trained" /\ val' = val)
      BY <1>5, <2>4 DEF Start, MaybeValidate, StartValidation
    <3>2. pc' = "save" => val'.metrics = {}
      BY <1>1, <3>1 DEF MetricInv
    <3> QED
      BY <2>2, <3>1, <3>2 DEF MetricInv, InfoInv, Training, AllGood
  <2> QED
    BY <2>3, <2>4
<1>6. CASE ValidateBatch
  <2>1. /\ pc = "validate" /\ SeenInv' /\ val'.set = val.set /\ val'.metrics = val.metrics
        /\ val'.seen = val.seen + Taken
        /\ val'.counted = [i \in 1..ValSamples |->
                IF i <= val.seen + Taken /\ i \in ToCount(val.set) THEN 1 ELSE 0]
        /\ UNCHANGED <<cfg, pc, policy, info, disk>>
    <3> DEFINE counted == [i \in 1..ValSamples |->
                IF i <= val.seen + Taken /\ i \in ToCount(val.set) THEN 1 ELSE 0]
    <3>1. val' = [set |-> val.set, seen |-> val.seen + Taken, counted |-> counted,
                  metrics |-> val.metrics]
      BY <1>1, <1>6, ValidateEffect
    <3>2. val'.counted = counted
      <4> HIDE DEF counted
      <4> QED
        BY <3>1
    <3>3. val'.set = val.set /\ val'.metrics = val.metrics /\ val'.seen = val.seen + Taken
      <4> HIDE DEF counted
      <4> QED
        BY <3>1
    <3> QED
      BY <1>1, <1>6, <3>2, <3>3, ValidateEffect
  <2>2. val'.counted = CountedSoFar'
    <3>1. \A k : ToCount(k)' = ToCount(k)
      BY <1>2 DEF ToCount, Distillation
    <3> QED
      BY <2>1, <3>1 DEF CountedSoFar
  <2>3. InfoInv'
    BY <1>1, <1>2, <2>1, InfoStays
  <2>4. AllGood(val.metrics, policy.trained)' /\ Sets(val.metrics)' = (1..(val.set - 1))'
    BY <1>1, <1>3, <2>1 DEF MetricInv, Sets, AllGood
  <2> QED
    BY <2>1, <2>2, <2>3, <2>4 DEF MetricInv, InfoInv, Training
<1>7. CASE \/ cfg.alg = "sft" /\ EndTokens
           \/ EndSet
           \/ Distillation /\ EndAnswers
  <2>1. disk' = disk /\ info' = info /\ policy'.trained = policy.trained /\ pc = "validate"
    BY <1>1, <1>7, QuietSteps DEF Quiet, EndTokens, EndSet, NextDataset, EndAnswers
  <2>2. InfoInv'
    BY <1>1, <1>2, <2>1, InfoStays
  <2>3. pc' \in {"validate", "epoch", "save"}
    BY <1>1, <1>7 DEF EndTokens, EndSet, NextDataset, EndAnswers, PhaseInv
  <2>4. /\ pc' = "validate" => /\ SeenInv' /\ val'.counted = CountedSoFar'
                               /\ AllGood(val'.metrics, policy'.trained)
                               /\ Sets(val'.metrics) = 1..(val'.set - 1)
        /\ pc' = "save" => /\ AllGood(val'.metrics, policy'.trained)
                           /\ Sets(val'.metrics) = 1..cfg'.sets
    BY <1>1, <1>2, <1>7, <2>1, EndCounts
  <2>5. AllGood(val'.metrics, policy'.trained) => AllGood(val.metrics, policy.trained)'
    <3>1. \A k : ToCount(k)' = ToCount(k)
      BY <1>2 DEF ToCount, Distillation
    <3> QED
      BY <3>1 DEF AllGood, Good
  <2> QED
    BY <2>2, <2>3, <2>4, <2>5 DEF MetricInv, InfoInv, Training, Sets
<1>8. CASE TakeBatch
  <2>1. Training' /\ disk' = disk /\ info' = info
    BY <1>1, <1>8, Moves
  <2>2. val'.metrics = {}
    BY <1>8 DEF TakeBatch, NextTokens, NextPairs, NextPrompts, NextBatch, NoVal
  <2>3. InfoInv'
    BY <1>1, <1>2, <2>1, InfoStays
  <2> QED
    BY <2>1, <2>2, <2>3 DEF MetricInv, InfoInv, Training
<1>9. CASE StartEpoch \/ EndEpoch \/ EndStep \/ Crash
  <2>1. disk' = disk /\ info' = info /\ pc' \in {"batch", "done", "epoch", "setup"}
    BY <1>9 DEF StartEpoch, EndEpoch, EndStep, Crash
  <2>2. InfoInv'
    BY <1>1, <1>2, <2>1, InfoStays
  <2> QED
    BY <2>1, <2>2 DEF MetricInv, InfoInv, Training
<1>10. CASE ReferenceLogprobs \/ Generate \/ TeacherLogits \/ PrepareStudent \/ Train
  <2>1. /\ disk' = disk /\ info' = info /\ val' = val
        /\ Training /\ (Training' \/ pc' = "trained")
    BY <1>10 DEF ReferenceLogprobs, Generate, TeacherLogits, PrepareStudent, Train, Training
  <2>2. InfoInv'
    BY <1>1, <1>2, <2>1, InfoStays
  <2> QED
    BY <1>1, <2>1, <2>2 DEF MetricInv, InfoInv, Training
<1>11. CASE Save
  <2>1. pc = "save" /\ pc' = "step_end" /\ cfg' = cfg
    BY <1>1, <1>11, SaveMoves
  <2>2. CASE disk' = disk /\ info' = info
    <3>1. InfoInv'
      BY <1>1, <1>2, <2>2, InfoStays
    <3> QED
      BY <2>1, <3>1 DEF MetricInv, InfoInv, Training
  <2>3. CASE ~(disk' = disk /\ info' = info)
    <3>1. /\ disk'.trained = policy.trained /\ disk'.info = info'
          /\ info'.named = NamedMetric
          /\ info'.all = IF cfg.alg = "sft" THEN info.all ELSE val.metrics
      BY <1>1, <1>11, <2>3, SaveMoves
    <3>2. /\ AllGood(val.metrics, policy.trained)
          /\ val.metrics = {} \/ Sets(val.metrics) = 1..cfg.sets
      BY <1>1, <2>1 DEF MetricInv
    <3>3. info'.named \subseteq val.metrics /\ (~cfg.metric => info'.named = {})
      BY <1>1, <3>1 DEF NamedMetric, InfoInv
    <3>4. info'.all \in {{}, val.metrics} /\ (cfg.alg = "sft" => info'.all = {})
      BY <1>1, <3>1 DEF InfoInv
    <3>5. \A k : ToCount(k)' = ToCount(k)
      BY <1>2 DEF ToCount, Distillation
    <3>6. MetricOfItsCheckpoint'
      BY <1>2, <3>1, <3>2, <3>3, <3>4, <3>5 DEF MetricOfItsCheckpoint, AllGood, Good, Sets
    <3>7. InfoInv'
      BY <1>2, <3>1, <3>3, <3>4, <3>6 DEF InfoInv
    <3> QED
      BY <2>1, <3>7 DEF MetricInv, InfoInv, Training
  <2> QED
    BY <2>2, <2>3
<1>12. CASE UNCHANGED vars
  <2>1. \A k : ToCount(k)' = ToCount(k)
    BY <1>2 DEF ToCount, Distillation
  <2>2. InfoInv'
    BY <1>1, <1>2, <1>12, InfoStays DEF vars
  <2>3. UNCHANGED <<pc, val, policy, cfg>>
    BY <1>12 DEF vars
  <2>4. SeenInv' <=> SeenInv
    BY <2>3 DEF SeenInv, Distillation
  <2>5. CountedSoFar' = CountedSoFar
    BY <2>1, <2>3 DEF CountedSoFar
  <2>6. AllGood(val.metrics, policy.trained) => AllGood(val.metrics, policy.trained)'
    BY <2>1, <2>3 DEF AllGood, Good
  <2>7. Sets(val.metrics)' = Sets(val.metrics)
    BY <2>3 DEF Sets
  <2> QED
    BY <1>1, <2>2, <2>3, <2>4, <2>5, <2>6, <2>7 DEF MetricInv, InfoInv, Training
<1> QED
  BY <1>1, <1>4, <1>5, <1>6, <1>7, <1>8, <1>9, <1>10, <1>11, <1>12, StepKinds

-----------------------------------------------------------------------------
(* The GPU *)

LEMMA GpuInvKept ==
    ASSUME IInv, [Next]_vars
    PROVE  GpuInv'
<1>1. TypeOK /\ PhaseInv /\ EngineInv /\ GpuInv /\ StepInv
  BY DEF IInv
<1>2. cfg' = cfg
  BY <1>1, DiskStays
<1> SUFFICES ASSUME cfg.colocated, Live'
             PROVE  GpuInv'
  BY <1>2 DEF GpuInv
<1>3. Distillation /\ cfg.alg \notin {"sft", "rm", "dpo"}
  BY <1>1, ConfigFacts DEF Distillation
<1>4. stale \in BOOLEAN /\ policy.model \in {"gpu", "cpu"} /\ engine.awake \in BOOLEAN
  BY <1>1 DEF TypeOK
<1>5. \A n : ValidatedAfter(n)' = ValidatedAfter(n)
  BY <1>2 DEF ValidatedAfter
<1>6. CASE Setup
  <2>1. /\ pc' = "start" /\ stale' = TRUE /\ teacher' = "cpu"
        /\ engine' = [holds |-> None, awake |-> ~cfg.colocated]
    BY <1>3, <1>6 DEF Setup, Restore
  <2>2. ~engine'.awake
    BY <2>1
  <2> QED
    BY <2>1, <2>2 DEF GpuInv, ValidatingStep
<1>7. CASE Start \/ MaybeValidate
  <2>1. /\ Live /\ pc \in {"start", "trained"} /\ stale = TRUE /\ ~engine.awake
        /\ teacher # "gpu" /\ UNCHANGED <<teacher, at, disk>>
    BY <1>1, <1>3, <1>4, <1>7 DEF Start, MaybeValidate, EngineInv, GpuInv, Live
  <2>2. CASE StartValidation
    <3>1. pc' = "validate" /\ stale' = FALSE /\ policy' = OffloadAfterRefit(policy)
      BY <1>3, <2>1, <2>2 DEF StartValidation, ReadyEngine
    <3>2. policy'.model = "cpu"
      BY <1>1, <3>1 DEF OffloadAfterRefit, TypeOK
    <3>3. ValidatingStep' => ValidatedAfter(at.total + 1)
      BY <1>7, <2>2, <3>1 DEF Start, MaybeValidate, ValidatingStep, ValidatedAfter
    <3> QED
      BY <1>5, <2>1, <3>1, <3>2, <3>3 DEF GpuInv
  <2>3. CASE ~StartValidation
    <3>1. pc' \in {"epoch", "save"} /\ UNCHANGED <<engine, stale>>
      BY <1>7, <2>3 DEF Start, MaybeValidate
    <3> QED
      BY <2>1, <3>1 DEF GpuInv, ValidatingStep
  <2> QED
    BY <2>2, <2>3
<1>8. CASE ValidateBatch
  <2>1. UNCHANGED <<pc, ret, at, policy, teacher, engine, stale, disk>>
    BY <1>8 DEF ValidateBatch, ValidateNext
  <2> QED
    BY <1>1, <1>2, <1>5, <2>1 DEF GpuInv, Live, ValidatingStep, Finished
<1>9. CASE Distillation /\ EndAnswers
  <2>1. /\ pc = "validate" /\ pc' = ret /\ ret \in {"epoch", "save"} /\ Live
        /\ engine' = FinishGeneration
        /\ UNCHANGED <<at, policy, teacher, stale, disk>>
    BY <1>1, <1>9 DEF EndAnswers, PhaseInv, Live
  <2>2. ~engine'.awake
    BY <1>1, <2>1 DEF FinishGeneration, TypeOK
  <2>3. policy.model # "gpu" /\ teacher # "gpu"
    BY <1>1, <2>1 DEF GpuInv
  <2>4. pc' = "save" => ValidatedAfter(at.total + 1)
    BY <1>1, <2>1 DEF GpuInv, ValidatingStep
  <2> QED
    BY <1>5, <2>1, <2>2, <2>3, <2>4 DEF GpuInv, ValidatingStep
<1>10. CASE StartEpoch \/ EndEpoch
  <2>1. /\ Live /\ pc \in {"epoch", "batch"} /\ pc' \in {"epoch", "batch", "done"}
        /\ UNCHANGED <<policy, teacher, engine, stale, disk>> /\ at'.total = at.total
    BY <1>1, <1>10, Moves DEF StartEpoch, EndEpoch, Live
  <2> QED
    BY <1>1, <1>5, <2>1 DEF GpuInv, ValidatingStep, Finished
<1>11. CASE TakeBatch
  <2>1. /\ pc = "batch" /\ pc' = "generate" /\ ReadyEngine /\ Live
        /\ UNCHANGED <<teacher, disk>> /\ at'.total = at.total
    BY <1>1, <1>3, <1>11, Moves DEF TakeBatch, NextPrompts, NextBatch, Live
  <2>2. teacher # "gpu" /\ stale' = FALSE
    BY <1>1, <2>1, ReadyTypes DEF GpuInv
  <2>3. policy'.model = "gpu" => policy.model = "gpu" /\ ~stale
    <3>1. CASE stale
      <4>1. policy' = OffloadAfterRefit(policy)
        BY <2>1, <3>1 DEF ReadyEngine
      <4> QED
        BY <1>1, <4>1 DEF OffloadAfterRefit, TypeOK
    <3>2. CASE ~stale
      BY <2>1, <3>2 DEF ReadyEngine
    <3> QED
      BY <3>1, <3>2
  <2> QED
    BY <1>1, <1>5, <2>1, <2>2, <2>3 DEF GpuInv, ValidatingStep, Finished
<1>12. CASE Generate
  <2>1. /\ pc = "generate" /\ pc' = "teacher" /\ Live /\ engine' = FinishGeneration
        /\ UNCHANGED <<at, policy, teacher, stale, disk>>
    BY <1>12 DEF Generate, Live
  <2>2. ~engine'.awake
    BY <1>1, <2>1 DEF FinishGeneration, TypeOK
  <2> QED
    BY <1>1, <1>5, <2>1, <2>2 DEF GpuInv, ValidatingStep, Finished
<1>13. CASE TeacherLogits
  <2>1. /\ pc = "teacher" /\ pc' = "prepare" /\ Live
        /\ UNCHANGED <<at, policy, engine, stale, disk>>
    BY <1>13 DEF TeacherLogits, Live
  <2> QED
    BY <1>1, <1>5, <2>1 DEF GpuInv, ValidatingStep, Finished
<1>14. CASE PrepareStudent
  <2>1. /\ pc = "prepare" /\ pc' = "train" /\ Live /\ teacher' = "cpu" /\ stale' = TRUE
        /\ engine' = engine
    BY <1>14 DEF PrepareStudent, Live
  <2> QED
    BY <1>1, <2>1 DEF GpuInv, ValidatingStep
<1>15. CASE Train
  <2>1. /\ pc = "train" /\ pc' = "trained" /\ Live /\ UNCHANGED <<teacher, engine, stale>>
    BY <1>15 DEF Train, Live
  <2>2. stale
    BY <1>1, <1>3, <2>1 DEF EngineInv
  <2> QED
    BY <1>1, <2>1, <2>2 DEF GpuInv, ValidatingStep
<1>16. CASE Save
  <2>1. /\ pc = "save" /\ pc' = "step_end" /\ Live /\ UNCHANGED <<teacher, engine, stale>>
        /\ at'.total = at.total
        /\ \/ disk'.total = at.total + 1
           \/ disk' = disk /\ policy' = policy
    BY <1>1, <1>16, SaveMoves DEF Live
  <2>2. Finished = at.total + 1 /\ Finished' = at.total + 1
    BY <2>1 DEF Finished
  <2>3. ~stale => ValidatedAfter(at.total + 1)
    BY <1>1, <2>1 DEF GpuInv
  <2> QED
    BY <1>1, <1>5, <2>1, <2>2, <2>3 DEF GpuInv, ValidatingStep
<1>17. CASE EndStep
  <2>1. /\ pc = "step_end" /\ pc' \in {"batch", "done"} /\ Live
        /\ UNCHANGED <<policy, teacher, engine, stale, disk>>
        /\ at'.total = at.total + 1
    BY <1>1, <1>17, Moves DEF EndStep, Live
  <2>2. Finished' = Finished
    BY <2>1 DEF Finished
  <2> QED
    BY <1>1, <1>5, <2>1, <2>2 DEF GpuInv, ValidatingStep
<1>18. CASE UNCHANGED vars
  BY <1>1, <1>5, <1>18 DEF vars, GpuInv, Live, ValidatingStep, Finished
<1>19. CASE Crash
  BY <1>19 DEF Crash, Live
<1> QED
  BY <1>1, <1>3, <1>6, <1>7, <1>8, <1>9, <1>10, <1>11, <1>12, <1>13, <1>14, <1>15, <1>16,
     <1>17, <1>18, <1>19, StepKinds DEF EndSet

-----------------------------------------------------------------------------
(* Theorems *)

LEMMA InitIInv == Init => IInv
<1> SUFFICES ASSUME Init
             PROVE  IInv
  OBVIOUS
<1>1. TypeOK
  BY InitTypes
<1>2. pc = "setup" /\ ~Live /\ ~InStep /\ disk = Fresh /\ info = NoInfo /\ policy.trained = <<>>
  BY DEF Init, Live, InStep, Training, Ahead, ValidatingStep
<1>3. Batches \in Nat \ {0} /\ MaxEpochs \in Nat /\ SavePeriod \in Nat \ {0}
  BY SizeAssumption
<1>4. AtRest(Fresh)
  <2>1. /\ Fresh.step = 0 /\ Fresh.total = 0 /\ Fresh.epoch = 0 /\ Fresh.loader = 0
        /\ Fresh.consumed = 0
    BY DEF Fresh
  <2>2. Unlimited \/ 0 <= cfg.maxSteps
    BY <1>1, ConfigFacts DEF Unlimited
  <2> QED
    BY <1>3, <2>1, <2>2 DEF AtRest
<1>5. DiskInv
  <2>1. InOrder(0) = <<>>
    BY DEF InOrder
  <2> QED
    BY <1>2, <1>4, <2>1 DEF DiskInv, Fresh
<1>6. WorkInv
  BY <1>2, <1>3 DEF WorkInv, ValidatingStart, Fresh
<1>7. MetricInv
  BY <1>2 DEF MetricInv, Training, MetricOfItsCheckpoint, Fresh, NoInfo
<1> QED
  BY <1>1, <1>2, <1>5, <1>6, <1>7
     DEF IInv, PhaseInv, StepInv, DoneInv, EngineInv, GpuInv, Ahead

LEMMA StepKeepsIInv == IInv /\ [Next]_vars => IInv'
BY TypesKept, PhasesKept, StepInvKept, DiskInvKept, DoneInvKept, WorkInvKept, MetricInvKept,
   EngineInvKept, GpuInvKept DEF IInv

LEMMA Invariant == Spec => []IInv
BY InitIInv, StepKeepsIInv, PTL DEF Spec

\* The types of the drivers' state hold throughout (TypeOK).
THEOREM TypesHold == Spec => []TypeOK
<1>1. IInv => TypeOK
  BY DEF IInv
<1> QED
  BY Invariant, <1>1, PTL

\* Every batch of every epoch is trained on once and in order, whatever limit, timeout,
\* epoch end or restart comes between, and the losses compare the weights with the
\* right ones: DPO with the base model, distillation with those that generated.
THEOREM TrainsInOrder == Spec => []StepInputs
<1>1. IInv => StepInputs
  <2> SUFFICES ASSUME IInv
               PROVE  StepInputs
    OBVIOUS
  <2>1. TypeOK /\ StepInv /\ DoneInv /\ EngineInv
    BY DEF IInv
  <2>2. /\ at.total \in Nat /\ at.epoch \in Nat /\ at.loader \in 0..Batches /\ at.consumed \in Nat
        /\ MaxEpochs * Batches \in Nat /\ cfg.maxSteps \in Nat \cup {-1}
    <3>1. MaxEpochs \in Nat /\ Batches \in Nat
      BY SizeAssumption
    <3>2. MaxEpochs * Batches \in Nat
      BY <3>1
    <3> QED
      BY <2>1, <3>2, ConfigFacts DEF TypeOK
  <2>3. at \in Position
    BY <2>1 DEF TypeOK, Position
  <2>4. ASSUME pc \in {"epoch", "batch", "save", "step_end", "done"}
        PROVE  /\ policy.trained =
                    InOrder(at.total + IF pc \in {"save", "step_end"} THEN 1 ELSE 0)
               /\ at.consumed = Len(policy.trained) - IF pc = "save" THEN 1 ELSE 0
    <3>1. Live /\ (Ahead <=> pc \in {"save", "step_end"})
               /\ (InStep <=> pc \in {"save", "step_end"})
      BY <2>4 DEF Live, Ahead, InStep, Training, ValidatingStep
    <3>2. PICK n \in Nat : n = at.total + IF pc \in {"save", "step_end"} THEN 1 ELSE 0
      BY <2>2
    <3>3. policy.trained = InOrder(n)
      BY <2>1, <2>2, <3>1, <3>2 DEF StepInv
    <3>4. at.consumed = IF pc = "save" THEN at.total ELSE n
      BY <2>1, <2>2, <2>4, <3>1, <3>2 DEF StepInv, AtRest, After
    <3>5. Len(policy.trained) = n
      BY <3>2, <3>3, OneMoreInOrder
    <3> QED
      BY <2>2, <3>2, <3>3, <3>4, <3>5
  <2>5. ASSUME pc = "done", ~timed
        PROVE  at.total = IF Unlimited \/ cfg.maxSteps > MaxEpochs * Batches
                          THEN MaxEpochs * Batches ELSE cfg.maxSteps
    <3>1. AtRest(at)
      BY <2>1, <2>5 DEF StepInv, Live, InStep, Training, Ahead, ValidatingStep
    <3>2. /\ at.total <= MaxEpochs * Batches
          /\ at.epoch = MaxEpochs => at.total = MaxEpochs * Batches
      BY <2>3, <3>1, StepsOfEpochs
    <3>3. Unlimited \/ at.total <= cfg.maxSteps
      BY <3>1 DEF AtRest
    <3>4. at.epoch = MaxEpochs \/ (~Unlimited /\ at.total >= cfg.maxSteps)
      BY <2>1, <2>2, <2>5 DEF DoneInv, WithinLimit, Unlimited
    <3> QED
      BY <2>2, <3>2, <3>3, <3>4
  <2>6. LossInputs
    BY <2>1 DEF EngineInv, LossInputs, Live
  <2> QED
    BY <2>4, <2>5, <2>6 DEF StepInputs, BatchesInOrder
<1> QED
  BY Invariant, <1>1, PTL

\* A checkpoint's metrics are those of its own weights, over every sample to count, once;
\* no more than a save period of steps can be lost, and a run ends with its weights on disk.
THEOREM CheckpointsOfTheirSteps == Spec => []CheckpointsKeepUp
<1>1. IInv => CheckpointsKeepUp
  <2> SUFFICES ASSUME IInv
               PROVE  CheckpointsKeepUp
    OBVIOUS
  <2>1. TypeOK /\ StepInv /\ DiskInv /\ WorkInv /\ MetricInv
    BY DEF IInv
  <2>2. at.total \in Nat /\ disk.total \in Nat /\ SavePeriod \in Nat \ {0}
    BY <2>1, SizeAssumption DEF TypeOK
  <2>3. Len(disk.trained) = disk.total
    BY <2>1, <2>2, OneMoreInOrder DEF DiskInv
  <2>4. cfg.saving => Len(policy.trained) - disk.total <= SavePeriod
    <3>1. SUFFICES ASSUME cfg.saving, Live
                   PROVE  Len(policy.trained) - disk.total <= SavePeriod
      BY <2>1 DEF WorkInv
    <3>2. PICK n \in Nat : n = IF Ahead THEN at.total + 1 ELSE at.total
      BY <2>2
    <3>3. Len(policy.trained) = n
      BY <2>1, <3>1, <3>2, OneMoreInOrder DEF StepInv
    <3>4. PICK d \in Nat : d = Decided
      BY <2>2 DEF Decided
    <3>5. d - disk.total <= d % SavePeriod
      BY <2>1, <3>1, <3>4 DEF WorkInv
    <3>6. d % SavePeriod <= SavePeriod - 1 /\ d % SavePeriod \in Nat
      BY <2>2, NextRemainder
    <3>7. n <= d + 1
      BY <2>2, <3>2, <3>4 DEF Decided, Ahead
    <3> QED
      BY <2>2, <3>3, <3>5, <3>6, <3>7
  <2>5. cfg.saving /\ pc = "done" => disk.trained = policy.trained
    BY <2>1 DEF WorkInv, Saved
  <2> QED
    BY <2>1, <2>3, <2>4, <2>5 DEF CheckpointsKeepUp, WorkIsSaved, MetricInv
<1> QED
  BY Invariant, <1>1, PTL

\* Student, teacher and a colocated engine hold the GPU one at a time, but for the student
\* that a checkpoint after a validation has brought back.
THEOREM GpuIsShared == Spec => []OneOnGpu
<1>1. IInv => OneOnGpu
  BY DEF IInv, GpuInv, OneOnGpu, Live, Finished, ValidatedAfter, SavedAfterValidation, TypeOK
<1> QED
  BY Invariant, <1>1, PTL

=============================================================================
