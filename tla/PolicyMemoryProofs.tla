--------------------------- MODULE PolicyMemoryProofs ---------------------------
(***************************************************************************)
(* What a policy worker may count on at each call, for every set of jobs   *)
(* and formats and any number of steps and restarts.                       *)
(*                                                                         *)
(* A driver's calls are a sequence put together from parts.  What holds of *)
(* the calls to come is therefore stated of any sequence, so that it holds *)
(* of two sequences one behind the other when it holds of both.            *)
(***************************************************************************)
EXTENDS PolicyMemory, TLAPS, SequenceTheorems

Calls == {"prepare_for_lp_inference", "prepare_for_training", "offload_before_refit",
          "offload_after_refit", "use_reference_model", "restore_model", "get_logprobs",
          "reference_forward", "eval", "generate", "calibrate", "train", "stream_weights",
          "broadcast_weights", "save_checkpoint"}

Devices == {"none", "cpu", "gpu"}
IoFormats == Formats \cup {"none", "safetensors", "unset"}
Io == [format: IoFormats, peft: BOOLEAN]
Worker == [weights: Int, params: {"cpu", "gpu"}, buffers: Devices, grads: Devices,
           optim: [at: Devices, of: Nat], reference: Int, saved: Int, io: Io]
Checkpoint == [weights: Nat, optim: Nat, format: IoFormats, peft: BOOLEAN, step: Nat]

Types ==
    /\ job \in Jobs /\ step \in Nat /\ format \in Formats \cup {"unset"}
    /\ up \in BOOLEAN /\ stale \in BOOLEAN /\ scaled \in BOOLEAN
    /\ todo \in Seq(Calls)
    /\ up => policy \in Worker
    /\ disk # NoCheckpoint => disk \in Checkpoint

Supervised == job.driver \in {"sft", "dpo", "rm"}

-----------------------------------------------------------------------------
(* Whose weights *)

\* A reference pass is three calls in a row, which only drivers with a reference make.
Whole(s) ==
    \A i \in 1..Len(s) :
        /\ s[i] = "use_reference_model" =>
             /\ i + 2 <= Len(s)
             /\ s[i + 1] = "reference_forward" /\ s[i + 2] = "restore_model"
        /\ s[i] = "reference_forward" => i > 1 /\ s[i - 1] = "use_reference_model"
        /\ s[i] = "restore_model" => i > 1 /\ s[i - 1] = "reference_forward"
        /\ s[i] = "use_reference_model" => NeedsReference

\* The worker's own weights are in the model, those of the n steps counted, and
\* the calls to come are s ...
Own(w, s, n) == w.weights = n /\ w.saved = None /\ Whole(s)

\* ... or the reference's are, and the worker's own wait on the CPU.
Swapped(w, s, n) ==
    /\ w.weights = Base /\ w.saved = n
    /\ \/ /\ Len(s) >= 1 /\ s[1] = "restore_model" /\ Whole(Tail(s))
       \/ /\ Len(s) >= 2 /\ s[1] = "reference_forward" /\ s[2] = "restore_model"
          /\ Whole(Tail(Tail(s)))

\* The automodel checkpointer alone has formats.
PlainIo(f, p) == job.backend # "dtensor_v2" => f = "none" /\ p = FALSE

WeightsOf(w, s, n) ==
    /\ Own(w, s, n) \/ Swapped(w, s, n)
    /\ w.optim.of = n
    /\ NeedsReference => w.reference = Base
    /\ PlainIo(w.io.format, w.io.peft)

PolicyInv == up => WeightsOf(policy, todo, step)

DiskInv ==
    disk # NoCheckpoint =>
        /\ disk.weights = disk.step /\ disk.optim = disk.step
        /\ PlainIo(disk.format, disk.peft)

-----------------------------------------------------------------------------
(* Where things are *)

\* Megatron's model has no buffers of its own, DTensor's no separate gradients.
Kinds(w) == IF Megatron THEN w.buffers = "none" ELSE w.grads = "none"

\* FSDP's parameters are at home.
Cold(w) == job.offload /\ ~Megatron => w.params = "cpu"

\* What a forward pass needs besides.
Loaded(w) ==
    IF Megatron THEN w.params = "gpu"
    ELSE w.buffers = "gpu" /\ (~job.offload => w.params = "gpu")

\* What training needs that prepare_for_training brings back ...
Trainable(w) ==
    /\ Megatron => w.grads = "gpu"
    /\ OptimizerComesBack => w.optim.at # "cpu"

\* ... and what it does not.
Settled(w) == ~OptimizerComesBack => w.optim.at \in {"none", OptimHome}

Free(w) == "gpu" \notin {w.params, w.buffers, w.grads, w.optim.at}

\* Each of the calls `needs` comes after one that makes what it needs, with
\* none in between that breaks it, or it holds now and none before it does.
Met(s, needs, makes, breaks, now) ==
    \A i \in 1..Len(s) : s[i] \in needs =>
        \/ now /\ \A m \in 1..(i - 1) : s[m] \notin breaks
        \/ \E k \in 1..(i - 1) :
             s[k] \in makes /\ \A m \in (k + 1)..(i - 1) : s[m] \notin breaks

Passes == {"get_logprobs", "reference_forward", "calibrate", "eval", "train"}
LoadedMet(s, now) ==
    Met(s, Passes, {"prepare_for_lp_inference", "prepare_for_training"},
        {"offload_after_refit", "broadcast_weights"}, now)
TrainableMet(s, now) ==
    Met(s, {"train"}, {"prepare_for_training"},
        {"prepare_for_lp_inference", "offload_before_refit", "offload_after_refit"}, now)
FreeMet(s, now) ==
    Met(s, {"generate"}, {"offload_after_refit"},
        {"prepare_for_lp_inference", "prepare_for_training", "train", "stream_weights",
         "broadcast_weights"}, now)

Shared == job.colocated /\ NeedRefit

\* The calls of the supervised drivers, which have no engine.
SupervisedCalls == {"prepare_for_training", "use_reference_model", "restore_model",
                    "reference_forward", "eval", "train", "save_checkpoint"}

Parts(s) ==
    \A i \in 1..Len(s) :
        /\ s[i] = "stream_weights" => i < Len(s) /\ s[i + 1] = "offload_after_refit"
        /\ Supervised => s[i] \in SupervisedCalls
        /\ ~job.colocated /\ job.driver # "async" =>
             s[i] \notin {"offload_before_refit", "offload_after_refit"}

PlacesOf(w, s) ==
    /\ Kinds(w) /\ Settled(w) /\ Parts(s)
    /\ Cold(w) \/ (s # <<>> /\ Head(s) = "offload_after_refit")
    /\ Supervised => /\ Trainable(w)
                     /\ Loaded(w) \/ (s # <<>> /\ Head(s) = "prepare_for_training")
    /\ ~Supervised => /\ LoadedMet(s, Loaded(w))
                      /\ TrainableMet(s, Trainable(w))
                      /\ Shared => FreeMet(s, Free(w))

PlaceInv == up /\ ~OptimizerLeft(job) /\ ~BuffersLeft(job) => PlacesOf(policy, todo)

IInv == Types /\ PolicyInv /\ DiskInv /\ PlaceInv

-----------------------------------------------------------------------------
(* What the worker's methods do *)

\* Two states of a worker that differ only in where things are.
Same(v, w) ==
    /\ w.weights = v.weights /\ w.saved = v.saved /\ w.reference = v.reference
    /\ w.io = v.io /\ w.optim.of = v.optim.of

\* Moving an optimizer changes where it is, if there is one, and nothing else.
LEMMA MovedOptimizer ==
    ASSUME NEW w \in Worker, NEW v, v = MoveOptimizer(w, "cpu")
    PROVE  /\ v \in Worker /\ Same(w, v)
           /\ v.params = w.params /\ v.buffers = w.buffers /\ v.grads = w.grads
           /\ v.optim.at = IF w.optim.at = "none" THEN "none" ELSE "cpu"
BY DEF MoveOptimizer, Worker, Devices, Same

LEMMA ReturnedOptimizer ==
    ASSUME NEW w \in Worker, NEW v, v = MoveOptimizer(w, "gpu")
    PROVE  /\ v \in Worker /\ Same(w, v)
           /\ v.params = w.params /\ v.buffers = w.buffers /\ v.grads = w.grads
           /\ v.optim.at = IF w.optim.at = "none" THEN "none" ELSE "gpu"
BY DEF MoveOptimizer, Worker, Devices, Same

\* Moving Megatron's model, or only its gradients, changes where they are.
LEMMA MovedModel ==
    ASSUME NEW w \in Worker, NEW device \in {"cpu", "gpu"}, NEW v,
           v = MoveModel(w, device, TRUE, TRUE)
    PROVE  /\ v \in Worker /\ Same(w, v) /\ v.buffers = w.buffers /\ v.optim = w.optim
           /\ v.params = device /\ v.grads = device
BY DEF MoveModel, Worker, Devices, Same

LEMMA MovedParameters ==
    ASSUME NEW w \in Worker, NEW v, v = MoveModel(w, "gpu", TRUE, FALSE)
    PROVE  /\ v \in Worker /\ Same(w, v) /\ v.buffers = w.buffers /\ v.optim = w.optim
           /\ v.params = "gpu" /\ v.grads = w.grads
BY DEF MoveModel, Worker, Devices, Same

LEMMA MovedGradients ==
    ASSUME NEW w \in Worker, NEW v, v = MoveModel(w, "cpu", FALSE, TRUE)
    PROVE  /\ v \in Worker /\ Same(w, v) /\ v.buffers = w.buffers /\ v.optim = w.optim
           /\ v.params = w.params /\ v.grads = "cpu"
BY DEF MoveModel, Worker, Devices, Same

\* Moving DTensor's model changes where parameters and buffers are.
LEMMA MovedToDevice ==
    ASSUME NEW w \in Worker, NEW device \in {"cpu", "gpu"}, NEW v, v = MoveToDevice(w, device)
    PROVE  /\ v \in Worker /\ Same(w, v) /\ v.grads = w.grads /\ v.optim = w.optim
           /\ v.params = device /\ v.buffers = device
BY DEF MoveToDevice, Worker, Devices, Same

\* Bringing DTensor's model back makes it ready for a pass.
LEMMA Onloaded ==
    ASSUME NEW w \in Worker, NEW v, v = OnloadModel(w)
    PROVE  /\ v \in Worker /\ Same(w, v) /\ v.grads = w.grads /\ v.optim = w.optim
           /\ v.params = (IF job.offload THEN w.params ELSE "gpu") /\ v.buffers = "gpu"
<1>1. CASE job.offload
  BY <1>1 DEF OnloadModel, Worker, Devices, Same
<1>2. CASE ~job.offload
  BY <1>2, MovedToDevice DEF OnloadModel
<1> QED
  BY <1>1, <1>2

\* prepare_for_lp_inference.
LEMMA ReadyForLogprobs ==
    ASSUME NEW w \in Worker, NEW v, v = ForLpInference(w)
    PROVE  /\ v \in Worker /\ Same(w, v)
           /\ Kinds(w) => Kinds(v) /\ Loaded(v)
           /\ Settled(w) => Settled(v)
           /\ Cold(w) => Cold(v)
<1> PICK m : m = MoveModel(w, "gpu", TRUE, FALSE)
  OBVIOUS
<1> PICK n : n = MoveModel(m, "cpu", FALSE, TRUE)
  OBVIOUS
<1> PICK d : d = OnloadModel(w)
  OBVIOUS
<1>1. m \in Worker /\ Same(w, m) /\ m.buffers = w.buffers /\ m.optim = w.optim /\ m.params = "gpu"
  BY MovedParameters
<1>2. n \in Worker /\ Same(m, n) /\ n.buffers = m.buffers /\ n.optim = m.optim /\ n.params = m.params
  BY <1>1, MovedGradients
<1>3. /\ d \in Worker /\ Same(w, d) /\ d.grads = w.grads /\ d.optim = w.optim
      /\ d.params = (IF job.offload THEN w.params ELSE "gpu") /\ d.buffers = "gpu"
  BY Onloaded
<1>4. ASSUME Megatron, ~job.offload /\ job.spare
      PROVE  v \in Worker /\ Same(w, v) /\ v.buffers = w.buffers /\ v.params = "gpu"
  <2>1. v = MoveOptimizer(n, "cpu")
    BY <1>4 DEF ForLpInference, MegatronForLpInference
  <2>2. v \in Worker /\ Same(n, v) /\ v.params = n.params /\ v.buffers = n.buffers
    BY <1>2, <2>1, MovedOptimizer
  <2> QED
    BY <1>1, <1>2, <2>2 DEF Same
<1>5. ASSUME Megatron, ~(~job.offload /\ job.spare)
      PROVE  v = n
  BY <1>5 DEF ForLpInference, MegatronForLpInference
<1>6. ASSUME ~Megatron, job.spare
      PROVE  /\ v \in Worker /\ Same(w, v) /\ v.grads = w.grads
             /\ v.params = d.params /\ v.buffers = d.buffers
             /\ v.optim.at = IF w.optim.at = "none" THEN "none" ELSE "cpu"
  <2>1. v = MoveOptimizer(d, "cpu")
    BY <1>6 DEF ForLpInference, DTensorForLpInference
  <2>2. /\ v \in Worker /\ Same(d, v)
        /\ v.params = d.params /\ v.buffers = d.buffers /\ v.grads = d.grads
        /\ v.optim.at = IF d.optim.at = "none" THEN "none" ELSE "cpu"
    BY <1>3, <2>1, MovedOptimizer
  <2> QED
    BY <1>3, <2>2 DEF Same
<1>7. ASSUME ~Megatron, ~job.spare
      PROVE  v = d
  BY <1>7 DEF ForLpInference, DTensorForLpInference
<1>8. CASE Megatron /\ ~job.offload /\ job.spare
  BY <1>4, <1>8 DEF Kinds, Loaded, Settled, Cold, OptimizerComesBack
<1>9. CASE Megatron /\ ~(~job.offload /\ job.spare)
  BY <1>1, <1>2, <1>5, <1>9 DEF Kinds, Loaded, Settled, Cold, Same
<1>10. CASE ~Megatron /\ job.spare
  BY <1>3, <1>6, <1>10 DEF Kinds, Loaded, Settled, Cold, OptimizerComesBack, OptimHome
<1>11. CASE ~Megatron /\ ~job.spare
  BY <1>3, <1>7, <1>11 DEF Kinds, Loaded, Settled, Cold
<1> QED
  BY <1>8, <1>9, <1>10, <1>11

\* prepare_for_training.
LEMMA ReadyForTraining ==
    ASSUME NEW w \in Worker, NEW v, v = ForTraining(w)
    PROVE  /\ v \in Worker /\ Same(w, v)
           /\ Kinds(w) => Kinds(v) /\ Loaded(v) /\ Trainable(v)
           /\ Settled(w) => Settled(v)
           /\ Cold(w) => Cold(v)
<1> PICK x : x = IF Megatron THEN MoveModel(w, "gpu", TRUE, TRUE) ELSE OnloadModel(w)
  OBVIOUS
<1>1. /\ x \in Worker /\ Same(w, x) /\ x.optim = w.optim
      /\ Kinds(w) => Kinds(x) /\ Loaded(x) /\ (Megatron => x.grads = "gpu")
      /\ Cold(w) => Cold(x)
  <2>1. CASE Megatron
    BY <2>1, MovedModel DEF Kinds, Loaded, Cold
  <2>2. CASE ~Megatron
    BY <2>2, Onloaded DEF Kinds, Loaded, Cold
  <2> QED
    BY <2>1, <2>2
<1>2. CASE OptimizerComesBack
  <2>1. v = MoveOptimizer(x, "gpu")
    BY <1>2 DEF ForTraining, MegatronForTraining, DTensorForTraining
  <2>2. /\ v \in Worker /\ Same(x, v)
        /\ v.params = x.params /\ v.buffers = x.buffers /\ v.grads = x.grads
        /\ v.optim.at = IF x.optim.at = "none" THEN "none" ELSE "gpu"
    BY <1>1, <2>1, ReturnedOptimizer
  <2> QED
    BY <1>1, <1>2, <2>2 DEF Same, Kinds, Loaded, Trainable, Settled, Cold
<1>3. CASE ~OptimizerComesBack
  <2>1. v = x
    BY <1>3 DEF ForTraining, MegatronForTraining, DTensorForTraining
  <2> QED
    BY <1>1, <1>3, <2>1 DEF Trainable, Settled
<1> QED
  BY <1>2, <1>3

\* offload_before_refit.
LEMMA OffloadedBefore ==
    ASSUME NEW w \in Worker, NEW v, v = BeforeRefit(w)
    PROVE  /\ v \in Worker /\ Same(w, v) /\ v.params = w.params /\ v.buffers = w.buffers
           /\ v.grads = IF Megatron THEN "cpu" ELSE w.grads
           /\ v.optim.at = IF w.optim.at = "none" \/ (Megatron /\ job.offload)
                           THEN w.optim.at ELSE "cpu"
<1> PICK x : x = IF Megatron THEN MoveModel(w, "cpu", FALSE, TRUE) ELSE w
  OBVIOUS
<1>1. /\ x \in Worker /\ Same(w, x) /\ x.params = w.params /\ x.buffers = w.buffers
      /\ x.grads = (IF Megatron THEN "cpu" ELSE w.grads) /\ x.optim = w.optim
  BY MovedGradients DEF Same
<1>2. CASE Megatron /\ job.offload
  BY <1>1, <1>2 DEF BeforeRefit, MegatronBeforeRefit
<1>3. CASE ~(Megatron /\ job.offload)
  <2>1. v = MoveOptimizer(x, "cpu")
    BY <1>3 DEF BeforeRefit, MegatronBeforeRefit, DTensorBeforeRefit
  <2>2. /\ v \in Worker /\ Same(x, v)
        /\ v.params = x.params /\ v.buffers = x.buffers /\ v.grads = x.grads
        /\ v.optim.at = IF x.optim.at = "none" THEN "none" ELSE "cpu"
    BY <1>1, <2>1, MovedOptimizer
  <2> QED
    BY <1>1, <1>3, <2>2 DEF Same
<1> QED
  BY <1>2, <1>3

\* offload_after_refit.
LEMMA OffloadedAfter ==
    ASSUME NEW w \in Worker, NEW v, v = AfterRefit(w)
    PROVE  /\ v \in Worker /\ Same(w, v)
           /\ Kinds(w) => Kinds(v)
           /\ Cold(v)
           /\ Kinds(w) /\ (job.offload => Settled(w)) => Free(v)
           /\ job.offload /\ Settled(w) => Settled(v)
<1> PICK x : x = IF Megatron THEN MoveModel(w, "cpu", TRUE, TRUE) ELSE MoveToDevice(w, "cpu")
  OBVIOUS
<1>1. /\ x \in Worker /\ Same(w, x) /\ x.optim = w.optim /\ x.params = "cpu"
      /\ Megatron => x.buffers = w.buffers /\ x.grads = "cpu"
      /\ ~Megatron => x.buffers = "cpu" /\ x.grads = w.grads
  <2>1. CASE Megatron
    BY <2>1, MovedModel
  <2>2. CASE ~Megatron
    BY <2>2, MovedToDevice
  <2> QED
    BY <2>1, <2>2
<1>2. v = BeforeRefit(x)
  BY DEF AfterRefit
<1>3. /\ v \in Worker /\ Same(x, v) /\ v.params = x.params /\ v.buffers = x.buffers
      /\ v.grads = IF Megatron THEN "cpu" ELSE x.grads
      /\ v.optim.at = IF x.optim.at = "none" \/ (Megatron /\ job.offload)
                      THEN x.optim.at ELSE "cpu"
  BY <1>1, <1>2, OffloadedBefore
<1>4. v \in Worker /\ Same(w, v) /\ (Kinds(w) => Kinds(v)) /\ Cold(v)
  BY <1>1, <1>3 DEF Same, Kinds, Cold
<1>5. Kinds(w) /\ (job.offload => Settled(w)) => Free(v)
  BY <1>1, <1>3 DEF Kinds, Settled, Free, OptimHome, OptimizerComesBack
<1>6. job.offload /\ Settled(w) => Settled(v)
  BY <1>1, <1>3 DEF Settled, OptimHome
<1> QED
  BY <1>4, <1>5, <1>6

\* Sending the weights one by one leaves a model that is offloaded on the GPU.
LEMMA Streamed ==
    ASSUME NEW w \in Worker, NEW v, v = OnloadForStream(w)
    PROVE  /\ v \in Worker /\ Same(w, v) /\ v.grads = w.grads /\ v.optim = w.optim
           /\ Megatron \/ ~job.offload => v = w
           /\ Loaded(w) => Loaded(v)
<1>1. CASE job.offload /\ ~Megatron
  BY <1>1, MovedToDevice DEF OnloadForStream, Loaded
<1>2. CASE ~(job.offload /\ ~Megatron)
  BY <1>2 DEF OnloadForStream, Same
<1> QED
  BY <1>1, <1>2

\* A broadcast takes it back.
LEMMA Broadcasted ==
    ASSUME NEW w \in Worker, NEW v, v = OffloadAfterBroadcast(OnloadForStream(w))
    PROVE  /\ v \in Worker /\ Same(w, v) /\ v.grads = w.grads /\ v.optim = w.optim
           /\ Kinds(w) => Kinds(v)
           /\ Cold(w) => Cold(v)
<1>1. CASE job.offload /\ ~Megatron
  <2> PICK x : x = OnloadForStream(w)
    OBVIOUS
  <2>1. x \in Worker /\ Same(w, x) /\ x.grads = w.grads /\ x.optim = w.optim
    BY Streamed
  <2>2. v = MoveToDevice(x, "cpu")
    BY <1>1 DEF OffloadAfterBroadcast
  <2>3. /\ v \in Worker /\ Same(x, v) /\ v.grads = x.grads /\ v.optim = x.optim
        /\ v.params = "cpu"
    BY <2>1, <2>2, MovedToDevice
  <2> QED
    BY <1>1, <2>1, <2>3 DEF Same, Kinds, Cold
<1>2. CASE ~(job.offload /\ ~Megatron)
  BY <1>2 DEF OffloadAfterBroadcast, OnloadForStream, Same
<1> QED
  BY <1>1, <1>2

-----------------------------------------------------------------------------
(* Sequences of calls *)

\* What is left after the first call.
LEMMA Rest ==
    ASSUME NEW s \in Seq(Calls), s # <<>>
    PROVE  /\ Tail(s) \in Seq(Calls) /\ Len(s) \in Nat /\ Len(s) >= 1
           /\ Len(Tail(s)) = Len(s) - 1
           /\ \A i \in 1..Len(Tail(s)) : Tail(s)[i] = s[i + 1]
           /\ Head(s) = s[1] /\ s[1] \in Calls
OBVIOUS

\* One sequence behind another.
LEMMA Joined ==
    ASSUME NEW s \in Seq(Calls), NEW t \in Seq(Calls)
    PROVE  /\ s \o t \in Seq(Calls) /\ Len(s) \in Nat /\ Len(t) \in Nat
           /\ Len(s \o t) = Len(s) + Len(t)
           /\ \A i \in 1..Len(s) : (s \o t)[i] = s[i]
           /\ \A i \in 1..Len(t) : (s \o t)[Len(s) + i] = t[i]
           /\ \A i \in 1..Len(s \o t) :
                i \in 1..Len(s) \/ \E k \in 1..Len(t) : i = Len(s) + k
<1>1. /\ s \o t \in Seq(Calls) /\ Len(s) \in Nat /\ Len(t) \in Nat
      /\ Len(s \o t) = Len(s) + Len(t)
  OBVIOUS
<1>2. \A i \in 1..Len(s \o t) :
        i \in 1..Len(s) \/ \E k \in 1..Len(t) : i = Len(s) + k
  <2> TAKE i \in 1..Len(s \o t)
  <2>1. CASE i > Len(s)
    <3>1. i - Len(s) \in 1..Len(t) /\ i = Len(s) + (i - Len(s))
      BY <1>1, <2>1
    <3> QED
      BY <3>1
  <2> QED
    BY <1>1, <2>1
<1> QED
  BY <1>1, <1>2

\* The first call's need is met now; what it makes or breaks is what the rest
\* may count on.
LEMMA MetOfRest ==
    ASSUME NEW s \in Seq(Calls), s # <<>>, NEW needs, NEW makes, NEW breaks,
           NEW now \in BOOLEAN, NEW next \in BOOLEAN, Met(s, needs, makes, breaks, now),
           s[1] \in makes => next,
           s[1] \notin breaks /\ now => next
    PROVE  Met(Tail(s), needs, makes, breaks, next) /\ (s[1] \in needs => now)
<1> PICK t : t = Tail(s)
  OBVIOUS
<1>1. /\ Len(s) \in Nat /\ Len(s) >= 1 /\ Len(t) = Len(s) - 1
      /\ \A i \in 1..Len(t) : t[i] = s[i + 1]
  BY Rest
<1>2. s[1] \in needs => now
  BY <1>1 DEF Met
<1>3. ASSUME NEW i \in 1..Len(t), t[i] \in needs
      PROVE  \/ next /\ \A m \in 1..(i - 1) : t[m] \notin breaks
             \/ \E k \in 1..(i - 1) :
                  t[k] \in makes /\ \A m \in (k + 1)..(i - 1) : t[m] \notin breaks
  <2>1. i + 1 \in 1..Len(s) /\ s[i + 1] \in needs
    BY <1>1, <1>3
  <2>2. \A m \in 1..(i - 1) : t[m] = s[m + 1] /\ m + 1 \in 1..i
    BY <1>1
  <2>3. CASE now /\ \A m \in 1..i : s[m] \notin breaks
    BY <2>2, <2>3
  <2>4. CASE \E k \in 1..i : s[k] \in makes /\ \A m \in (k + 1)..i : s[m] \notin breaks
    <3> PICK k \in 1..i : s[k] \in makes /\ \A m \in (k + 1)..i : s[m] \notin breaks
      BY <2>4
    <3>1. CASE k = 1
      <4>1. \A m \in 1..(i - 1) : m + 1 \in (k + 1)..i
        BY <3>1
      <4> QED
        BY <2>2, <3>1, <4>1
    <3>2. CASE k # 1
      <4>1. k - 1 \in 1..(i - 1) /\ t[k - 1] = s[k]
        BY <1>1, <3>2
      <4>2. \A m \in ((k - 1) + 1)..(i - 1) : m + 1 \in (k + 1)..i /\ t[m] = s[m + 1]
        BY <1>1, <3>2
      <4> QED
        BY <4>1, <4>2
    <3> QED
      BY <3>1, <3>2
  <2>5. (i + 1) - 1 = i
    OBVIOUS
  <2> QED
    BY <2>1, <2>3, <2>4, <2>5 DEF Met
<1> QED
  BY <1>2, <1>3 DEF Met

\* A sequence whose needs are met by itself may follow any other.
LEMMA MetOfBoth ==
    ASSUME NEW s \in Seq(Calls), NEW t \in Seq(Calls), NEW needs, NEW makes, NEW breaks,
           NEW now \in BOOLEAN, Met(s, needs, makes, breaks, now),
           Met(t, needs, makes, breaks, FALSE)
    PROVE  Met(s \o t, needs, makes, breaks, now)
<1> PICK u : u = s \o t
  OBVIOUS
<1>1. /\ Len(s) \in Nat /\ Len(t) \in Nat /\ Len(u) = Len(s) + Len(t)
      /\ \A i \in 1..Len(s) : u[i] = s[i]
      /\ \A i \in 1..Len(t) : u[Len(s) + i] = t[i]
      /\ \A i \in 1..Len(u) : i \in 1..Len(s) \/ \E k \in 1..Len(t) : i = Len(s) + k
  BY Joined
<1>2. ASSUME NEW i \in 1..Len(u), u[i] \in needs
      PROVE  \/ now /\ \A m \in 1..(i - 1) : u[m] \notin breaks
             \/ \E k \in 1..(i - 1) :
                  u[k] \in makes /\ \A m \in (k + 1)..(i - 1) : u[m] \notin breaks
  <2>1. CASE i \in 1..Len(s)
    <3>1. \A m \in 1..(i - 1) : u[m] = s[m]
      BY <1>1, <2>1
    <3>2. \A k \in 1..(i - 1) : \A m \in (k + 1)..(i - 1) : m \in 1..(i - 1)
      OBVIOUS
    <3>3. u[i] = s[i]
      BY <1>1, <2>1
    <3> QED
      BY <1>2, <2>1, <3>1, <3>2, <3>3 DEF Met
  <2>2. ASSUME NEW j \in 1..Len(t), i = Len(s) + j
        PROVE  \E k \in 1..(i - 1) :
                  u[k] \in makes /\ \A m \in (k + 1)..(i - 1) : u[m] \notin breaks
    <3>1. t[j] \in needs
      BY <1>1, <1>2, <2>2
    <3>2. PICK k \in 1..(j - 1) :
            t[k] \in makes /\ \A m \in (k + 1)..(j - 1) : t[m] \notin breaks
      BY <3>1 DEF Met
    <3>3. Len(s) + k \in 1..(i - 1) /\ u[Len(s) + k] = t[k]
      BY <1>1, <2>2, <3>2
    <3>4. ASSUME NEW m \in ((Len(s) + k) + 1)..(i - 1)
          PROVE  u[m] \notin breaks
      <4>1. m - Len(s) \in (k + 1)..(j - 1) /\ m - Len(s) \in 1..Len(t)
            /\ m = Len(s) + (m - Len(s))
        BY <1>1, <2>2, <3>2
      <4> QED
        BY <1>1, <3>2, <4>1
    <3> QED
      BY <3>2, <3>3, <3>4
  <2> QED
    BY <1>1, <2>1, <2>2
<1> QED
  BY <1>2 DEF Met

\* Needs that are met without anything beforehand are met in any case.
LEMMA MetAnyway ==
    ASSUME NEW s \in Seq(Calls), NEW needs, NEW makes, NEW breaks, NEW now \in BOOLEAN,
           Met(s, needs, makes, breaks, FALSE)
    PROVE  Met(s, needs, makes, breaks, now)
BY DEF Met

\* Calls without a reference pass at their head are without one's end there.
LEMMA WholeRest ==
    ASSUME NEW s \in Seq(Calls), s # <<>>, Whole(s), s[1] # "use_reference_model"
    PROVE  Whole(Tail(s)) /\ s[1] \notin {"reference_forward", "restore_model"}
<1> PICK t : t = Tail(s)
  OBVIOUS
<1>1. /\ Len(s) \in Nat /\ Len(s) >= 1 /\ Len(t) = Len(s) - 1
      /\ \A i \in 1..Len(t) : t[i] = s[i + 1]
  BY Rest
<1>2. s[1] \notin {"reference_forward", "restore_model"}
  BY <1>1 DEF Whole
<1>3. ASSUME NEW i \in 1..Len(t)
      PROVE  /\ t[i] = "use_reference_model" =>
                  /\ i + 2 <= Len(t)
                  /\ t[i + 1] = "reference_forward" /\ t[i + 2] = "restore_model"
             /\ t[i] = "reference_forward" => i > 1 /\ t[i - 1] = "use_reference_model"
             /\ t[i] = "restore_model" => i > 1 /\ t[i - 1] = "reference_forward"
             /\ t[i] = "use_reference_model" => NeedsReference
  <2>1. i + 1 \in 1..Len(s) /\ t[i] = s[i + 1]
    BY <1>1
  <2>2. t[i] = "use_reference_model" =>
          /\ i + 2 <= Len(t) /\ i + 3 <= Len(s) /\ NeedsReference
          /\ s[i + 2] = "reference_forward" /\ s[i + 3] = "restore_model"
    <3>1. (i + 1) + 1 = i + 2 /\ (i + 1) + 2 = i + 3
      OBVIOUS
    <3> QED
      BY <1>1, <2>1, <3>1 DEF Whole
  <2>3. i + 2 <= Len(t) => t[i + 1] = s[i + 2] /\ t[i + 2] = s[i + 3]
    BY <1>1
  <2>4. (i + 1) - 1 = i /\ (i > 1 => t[i - 1] = s[i])
    BY <1>1
  <2>5. i = 1 => s[i] \notin {"use_reference_model", "reference_forward"}
    BY <1>2
  <2>6. t[i] = "reference_forward" => s[i] = "use_reference_model"
    BY <2>1, <2>4 DEF Whole
  <2>7. t[i] = "restore_model" => s[i] = "reference_forward"
    BY <2>1, <2>4 DEF Whole
  <2>8. i > 1 \/ i = 1
    OBVIOUS
  <2> QED
    BY <2>2, <2>3, <2>4, <2>5, <2>6, <2>7, <2>8
<1> QED
  BY <1>2, <1>3 DEF Whole

\* A reference pass at the head, and what comes after it.
LEMMA WholePass ==
    ASSUME NEW s \in Seq(Calls), s # <<>>, Whole(s), s[1] = "use_reference_model"
    PROVE  /\ NeedsReference
           /\ Len(s) >= 3 /\ s[2] = "reference_forward" /\ s[3] = "restore_model"
           /\ Whole(Tail(Tail(Tail(s))))
<1>1. Len(s) \in Nat /\ Len(s) >= 1
  BY Rest
<1>2. /\ NeedsReference /\ Len(s) >= 3
      /\ s[2] = "reference_forward" /\ s[3] = "restore_model"
  <2>1. 1 \in 1..Len(s) /\ 1 + 2 = 3 /\ 1 + 1 = 2
    BY <1>1
  <2> QED
    BY <1>1, <2>1 DEF Whole
<1>3. PICK x : x = Tail(s)
  OBVIOUS
<1>4. PICK y : y = Tail(x)
  OBVIOUS
<1>5. PICK t : t = Tail(y)
  OBVIOUS
<1>6. t \in Seq(Calls) /\ Len(t) = Len(s) - 3 /\ \A i \in 1..Len(t) : t[i] = s[i + 3]
  <2>1. x \in Seq(Calls) /\ Len(x) = Len(s) - 1 /\ \A i \in 1..Len(x) : x[i] = s[i + 1]
    BY <1>3, Rest
  <2>2. x # <<>>
    BY <1>1, <1>2, <2>1
  <2>3. y \in Seq(Calls) /\ Len(y) = Len(x) - 1 /\ \A i \in 1..Len(y) : y[i] = x[i + 1]
    BY <1>4, <2>1, <2>2, Rest
  <2>4. y # <<>>
    BY <1>1, <1>2, <2>1, <2>3
  <2>5. t \in Seq(Calls) /\ Len(t) = Len(y) - 1 /\ \A i \in 1..Len(t) : t[i] = y[i + 1]
    BY <1>5, <2>3, <2>4, Rest
  <2>6. Len(t) \in Nat /\ Len(t) = Len(s) - 3 /\ Len(y) = Len(s) - 2
    BY <1>1, <1>2, <2>1, <2>3, <2>5
  <2>7. ASSUME NEW i \in 1..Len(t)
        PROVE  t[i] = s[i + 3]
    <3>1. i + 1 \in 1..Len(y) /\ (i + 1) + 1 \in 1..Len(x)
      BY <1>1, <2>1, <2>6
    <3>2. ((i + 1) + 1) + 1 = i + 3
      OBVIOUS
    <3> QED
      BY <2>1, <2>3, <2>5, <3>1, <3>2
  <2> QED
    BY <2>5, <2>6, <2>7
<1>7. ASSUME NEW i \in 1..Len(t)
      PROVE  /\ t[i] = "use_reference_model" =>
                  /\ i + 2 <= Len(t)
                  /\ t[i + 1] = "reference_forward" /\ t[i + 2] = "restore_model"
             /\ t[i] = "reference_forward" => i > 1 /\ t[i - 1] = "use_reference_model"
             /\ t[i] = "restore_model" => i > 1 /\ t[i - 1] = "reference_forward"
             /\ t[i] = "use_reference_model" => NeedsReference
  <2>1. i + 3 \in 1..Len(s) /\ t[i] = s[i + 3]
    BY <1>1, <1>6
  <2>2. t[i] = "use_reference_model" =>
          /\ i + 5 <= Len(s) /\ i + 2 <= Len(t)
          /\ s[i + 4] = "reference_forward" /\ s[i + 5] = "restore_model"
    <3>1. (i + 3) + 1 = i + 4 /\ (i + 3) + 2 = i + 5
      OBVIOUS
    <3> QED
      BY <1>1, <1>6, <2>1, <3>1 DEF Whole
  <2>3. i + 2 <= Len(t) => t[i + 1] = s[i + 4] /\ t[i + 2] = s[i + 5]
    BY <1>1, <1>6, SMTT(40)
  <2>4. (i + 3) - 1 = i + 2 /\ (i > 1 => t[i - 1] = s[i + 2])
    BY <1>1, <1>6
  <2>5. i = 1 => s[i + 2] = "restore_model"
    BY <1>2
  <2>6. t[i] = "reference_forward" => s[i + 2] = "use_reference_model"
    BY <2>1, <2>4 DEF Whole
  <2>7. t[i] = "restore_model" => s[i + 2] = "reference_forward"
    BY <2>1, <2>4 DEF Whole
  <2>8. i > 1 \/ i = 1
    OBVIOUS
  <2> QED
    BY <1>2, <2>2, <2>3, <2>4, <2>5, <2>6, <2>7, <2>8
<1>8. Whole(t) /\ t = Tail(Tail(Tail(s)))
  BY <1>3, <1>4, <1>5, <1>7 DEF Whole
<1> QED
  BY <1>2, <1>8

LEMMA WholeBoth ==
    ASSUME NEW s \in Seq(Calls), NEW t \in Seq(Calls), Whole(s), Whole(t)
    PROVE  Whole(s \o t)
<1> PICK u : u = s \o t
  OBVIOUS
<1>1. /\ Len(s) \in Nat /\ Len(t) \in Nat /\ Len(u) = Len(s) + Len(t)
      /\ \A i \in 1..Len(s) : u[i] = s[i]
      /\ \A i \in 1..Len(t) : u[Len(s) + i] = t[i]
      /\ \A i \in 1..Len(u) : i \in 1..Len(s) \/ \E k \in 1..Len(t) : i = Len(s) + k
  BY Joined
<1>2. ASSUME NEW i \in 1..Len(u)
      PROVE  /\ u[i] = "use_reference_model" =>
                  /\ i + 2 <= Len(u)
                  /\ u[i + 1] = "reference_forward" /\ u[i + 2] = "restore_model"
             /\ u[i] = "reference_forward" => i > 1 /\ u[i - 1] = "use_reference_model"
             /\ u[i] = "restore_model" => i > 1 /\ u[i - 1] = "reference_forward"
             /\ u[i] = "use_reference_model" => NeedsReference
  <2>1. CASE i \in 1..Len(s)
    <3>1. u[i] = s[i] /\ (i > 1 => u[i - 1] = s[i - 1])
      BY <1>1, <2>1
    <3>2. i + 2 <= Len(s) => u[i + 1] = s[i + 1] /\ u[i + 2] = s[i + 2] /\ i + 2 <= Len(u)
      BY <1>1, <2>1
    <3> QED
      BY <2>1, <3>1, <3>2 DEF Whole
  <2>2. ASSUME NEW k \in 1..Len(t), i = Len(s) + k
        PROVE  /\ u[i] = "use_reference_model" =>
                    /\ i + 2 <= Len(u)
                    /\ u[i + 1] = "reference_forward" /\ u[i + 2] = "restore_model"
               /\ u[i] = "reference_forward" => i > 1 /\ u[i - 1] = "use_reference_model"
               /\ u[i] = "restore_model" => i > 1 /\ u[i - 1] = "reference_forward"
               /\ u[i] = "use_reference_model" => NeedsReference
    <3>1. u[i] = t[k]
      BY <1>1, <2>2
    <3>2. k > 1 => i > 1 /\ u[i - 1] = t[k - 1]
      <4> SUFFICES ASSUME k > 1 PROVE i > 1 /\ u[i - 1] = t[k - 1]
        OBVIOUS
      <4>1. k - 1 \in 1..Len(t) /\ i - 1 = Len(s) + (k - 1)
        BY <1>1, <2>2
      <4> QED
        BY <1>1, <2>2, <4>1
    <3>3. k + 2 <= Len(t) => u[i + 1] = t[k + 1] /\ u[i + 2] = t[k + 2] /\ i + 2 <= Len(u)
      <4> SUFFICES ASSUME k + 2 <= Len(t)
                   PROVE  u[i + 1] = t[k + 1] /\ u[i + 2] = t[k + 2] /\ i + 2 <= Len(u)
        OBVIOUS
      <4>1. /\ k + 1 \in 1..Len(t) /\ k + 2 \in 1..Len(t)
            /\ i + 1 = Len(s) + (k + 1) /\ i + 2 = Len(s) + (k + 2)
            /\ i + 2 <= Len(u)
        BY <1>1, <2>2
      <4>2. u[Len(s) + (k + 1)] = t[k + 1] /\ u[Len(s) + (k + 2)] = t[k + 2]
        BY <1>1, <4>1
      <4> QED
        BY <4>1, <4>2
    <3> QED
      BY <3>1, <3>2, <3>3, ZenonT(40) DEF Whole
  <2> QED
    BY <1>1, <2>1, <2>2
<1> QED
  BY <1>2 DEF Whole

LEMMA PartsRest ==
    ASSUME NEW s \in Seq(Calls), s # <<>>, Parts(s)
    PROVE  /\ Parts(Tail(s))
           /\ s[1] = "stream_weights" => Tail(s) # <<>> /\ Head(Tail(s)) = "offload_after_refit"
           /\ Supervised => s[1] \in SupervisedCalls
           /\ ~job.colocated /\ job.driver # "async" =>
                s[1] \notin {"offload_before_refit", "offload_after_refit"}
<1> PICK t : t = Tail(s)
  OBVIOUS
<1>1. /\ t \in Seq(Calls) /\ Len(s) \in Nat /\ Len(s) >= 1 /\ Len(t) = Len(s) - 1
      /\ \A i \in 1..Len(t) : t[i] = s[i + 1]
  BY Rest
<1>2. Parts(t)
  <2> SUFFICES ASSUME NEW i \in 1..Len(t)
               PROVE  /\ t[i] = "stream_weights" => i < Len(t) /\ t[i + 1] = "offload_after_refit"
                      /\ Supervised => t[i] \in SupervisedCalls
                      /\ ~job.colocated /\ job.driver # "async" =>
                           t[i] \notin {"offload_before_refit", "offload_after_refit"}
    BY DEF Parts
  <2>1. i + 1 \in 1..Len(s) /\ t[i] = s[i + 1] /\ (i < Len(t) => t[i + 1] = s[(i + 1) + 1])
    BY <1>1
  <2>2. i + 1 < Len(s) => i < Len(t)
    BY <1>1
  <2> QED
    BY <2>1, <2>2 DEF Parts
<1>3. s[1] = "stream_weights" => t # <<>> /\ Head(t) = "offload_after_refit"
  <2>1. 1 \in 1..Len(s) /\ 1 + 1 = 2
    BY <1>1
  <2>2. s[1] = "stream_weights" => 1 < Len(s) /\ s[2] = "offload_after_refit"
    BY <2>1 DEF Parts
  <2>3. 1 < Len(s) => t # <<>> /\ t[1] = s[1 + 1]
    <3> SUFFICES ASSUME 1 < Len(s) PROVE t # <<>> /\ t[1] = s[1 + 1]
      OBVIOUS
    <3>1. Len(t) # 0 /\ 1 \in 1..Len(t)
      BY <1>1
    <3>2. Len(<<>>) = 0
      OBVIOUS
    <3> QED
      BY <1>1, <3>1, <3>2
  <2>4. t # <<>> => Head(t) = t[1]
    BY <1>1, Rest
  <2> QED
    BY <2>1, <2>2, <2>3, <2>4
<1>4. 1 \in 1..Len(s)
  BY <1>1
<1> QED
  BY <1>2, <1>3, <1>4 DEF Parts

LEMMA PartsBoth ==
    ASSUME NEW s \in Seq(Calls), NEW t \in Seq(Calls), Parts(s), Parts(t)
    PROVE  Parts(s \o t)
<1> PICK u : u = s \o t
  OBVIOUS
<1>1. /\ Len(s) \in Nat /\ Len(t) \in Nat /\ Len(u) = Len(s) + Len(t)
      /\ \A i \in 1..Len(s) : u[i] = s[i]
      /\ \A i \in 1..Len(t) : u[Len(s) + i] = t[i]
      /\ \A i \in 1..Len(u) : i \in 1..Len(s) \/ \E k \in 1..Len(t) : i = Len(s) + k
  BY Joined
<1> SUFFICES ASSUME NEW i \in 1..Len(u)
             PROVE  /\ u[i] = "stream_weights" => i < Len(u) /\ u[i + 1] = "offload_after_refit"
                    /\ Supervised => u[i] \in SupervisedCalls
                    /\ ~job.colocated /\ job.driver # "async" =>
                         u[i] \notin {"offload_before_refit", "offload_after_refit"}
  BY DEF Parts
<1>2. CASE i \in 1..Len(s)
  <2>1. u[i] = s[i] /\ (i < Len(s) => u[i + 1] = s[i + 1] /\ i < Len(u))
    BY <1>1, <1>2
  <2> QED
    BY <1>2, <2>1 DEF Parts
<1>3. CASE \E k \in 1..Len(t) : i = Len(s) + k
  <2> PICK k \in 1..Len(t) : i = Len(s) + k
    BY <1>3
  <2>1. u[i] = t[k]
    BY <1>1
  <2>2. k < Len(t) => k + 1 \in 1..Len(t) /\ i + 1 = Len(s) + (k + 1) /\ i < Len(u)
    BY <1>1
  <2>3. k < Len(t) => u[i + 1] = t[k + 1] /\ i < Len(u)
    BY <1>1, <2>2
  <2> QED
    BY <2>1, <2>3 DEF Parts
<1> QED
  BY <1>1, <1>2, <1>3

\* The same of named sequences.
LEMMA JoinedCalls ==
    ASSUME NEW s \in Seq(Calls), NEW t \in Seq(Calls), NEW u, u = s \o t
    PROVE  /\ u \in Seq(Calls) /\ Len(u) = Len(s) + Len(t)
           /\ \A i \in 1..Len(s) : u[i] = s[i]
           /\ \A i \in 1..Len(t) : u[Len(s) + i] = t[i]
BY Joined

\* What each part of a driver's calls is, so that the whole of them is.
Sound(s) ==
    /\ s \in Seq(Calls) /\ Whole(s) /\ Parts(s)
    /\ ~Supervised => /\ LoadedMet(s, FALSE) /\ TrainableMet(s, FALSE)
                      /\ Shared => FreeMet(s, FALSE)

LEMMA SoundBoth ==
    ASSUME NEW s, NEW t, Sound(s), Sound(t)
    PROVE  Sound(s \o t)
<1>1. s \in Seq(Calls) /\ t \in Seq(Calls) /\ s \o t \in Seq(Calls)
  BY DEF Sound
<1>2. Whole(s \o t) /\ Parts(s \o t)
  BY <1>1, WholeBoth, PartsBoth DEF Sound
<1>3. ASSUME NEW needs, NEW makes, NEW breaks,
             Met(s, needs, makes, breaks, FALSE), Met(t, needs, makes, breaks, FALSE)
      PROVE  Met(s \o t, needs, makes, breaks, FALSE)
  BY <1>1, <1>3, MetOfBoth
<1>4. LoadedMet(s, FALSE) /\ LoadedMet(t, FALSE) => LoadedMet(s \o t, FALSE)
  BY <1>3 DEF LoadedMet
<1>5. TrainableMet(s, FALSE) /\ TrainableMet(t, FALSE) => TrainableMet(s \o t, FALSE)
  BY <1>3 DEF TrainableMet
<1>6. FreeMet(s, FALSE) /\ FreeMet(t, FALSE) => FreeMet(s \o t, FALSE)
  BY <1>3 DEF FreeMet
<1> QED
  BY <1>1, <1>2, <1>4, <1>5, <1>6 DEF Sound

LEMMA SoundOptional ==
    ASSUME NEW s, NEW condition \in BOOLEAN, condition => Sound(s)
    PROVE  Sound(Optional(condition, s))
<1>1. Sound(<<>>)
  BY DEF Sound, Whole, Parts, LoadedMet, TrainableMet, FreeMet, Met
<1> QED
  BY <1>1 DEF Optional

LEMMA SoundLogprobs ==
    ASSUME ~Supervised, NeedsReference
    PROVE  Sound(LogprobCalls)
<1>1. PICK c : c = LogprobCalls
  OBVIOUS
<1>2. PICK p : p = <<"prepare_for_lp_inference", "get_logprobs">>
  OBVIOUS
<1>3. PICK r : r = ReferenceCalls
  OBVIOUS
<1>4. /\ p \in Seq(Calls) /\ Len(p) = 2
      /\ p[1] = "prepare_for_lp_inference" /\ p[2] = "get_logprobs"
  BY <1>2 DEF Calls
<1>5. /\ r \in Seq(Calls) /\ Len(r) = 3 /\ r[1] = "use_reference_model"
      /\ r[2] = "reference_forward" /\ r[3] = "restore_model"
  BY <1>3 DEF ReferenceCalls, Calls
<1>6. /\ c \in Seq(Calls) /\ Len(c) = 5
      /\ c[1] = "prepare_for_lp_inference" /\ c[2] = "get_logprobs"
      /\ c[3] = "use_reference_model" /\ c[4] = "reference_forward" /\ c[5] = "restore_model"
  <2>1. c = p \o r
    BY <1>1, <1>2, <1>3 DEF LogprobCalls
  <2>2. p \in Seq(Calls) /\ r \in Seq(Calls)
    BY <1>4, <1>5
  <2>3. /\ c \in Seq(Calls) /\ Len(c) = Len(p) + Len(r)
        /\ \A i \in 1..Len(p) : c[i] = p[i]
        /\ \A i \in 1..Len(r) : c[Len(p) + i] = r[i]
    BY <2>1, <2>2, JoinedCalls
  <2> QED
    BY <1>4, <1>5, <2>3
<1>7. Whole(c) /\ Parts(c)
  BY <1>6 DEF Whole, Parts
<1>8. TrainableMet(c, FALSE) /\ FreeMet(c, FALSE)
  BY <1>6 DEF TrainableMet, FreeMet, Met
<1>9. LoadedMet(c, FALSE)
  BY <1>6 DEF LoadedMet, Met, Passes
<1> QED
  BY <1>1, <1>6, <1>7, <1>8, <1>9 DEF Sound

LEMMA SoundTraining ==
    ASSUME ~Supervised, NEW condition \in BOOLEAN
    PROVE  Sound(TrainCalls \o Optional(condition, <<"calibrate">>))
<1>1. PICK t : t = TrainCalls
  OBVIOUS
<1>2. PICK o : o = Optional(condition, <<"calibrate">>)
  OBVIOUS
<1>3. PICK c : c = t \o o
  OBVIOUS
<1>4. t \in Seq(Calls) /\ Len(t) = 2 /\ t[1] = "prepare_for_training" /\ t[2] = "train"
  BY <1>1 DEF TrainCalls, Calls
<1>5. o \in Seq(Calls) /\ Len(o) \in {0, 1} /\ (Len(o) = 1 => o[1] = "calibrate")
  <2>1. CASE condition
    BY <1>2, <2>1 DEF Optional, Calls
  <2>2. CASE ~condition
    BY <1>2, <2>2 DEF Optional
  <2> QED
    BY <2>1, <2>2
<1>6. /\ c \in Seq(Calls) /\ Len(c) \in {2, 3} /\ c[1] = "prepare_for_training" /\ c[2] = "train"
      /\ Len(c) = 3 => c[3] = "calibrate"
  <2>1. t \in Seq(Calls) /\ o \in Seq(Calls)
    BY <1>4, <1>5
  <2>2. /\ c \in Seq(Calls) /\ Len(c) = Len(t) + Len(o)
        /\ \A i \in 1..Len(t) : c[i] = t[i]
        /\ \A i \in 1..Len(o) : c[Len(t) + i] = o[i]
    BY <1>3, <2>1, JoinedCalls
  <2> QED
    BY <1>4, <1>5, <2>2
<1>7. Whole(c) /\ Parts(c)
  BY <1>6 DEF Whole, Parts
<1>8. TrainableMet(c, FALSE) /\ FreeMet(c, FALSE)
  BY <1>6 DEF TrainableMet, FreeMet, Met
<1>9. LoadedMet(c, FALSE)
  BY <1>6 DEF LoadedMet, Met, Passes
<1> QED
  BY <1>1, <1>2, <1>3, <1>6, <1>7, <1>8, <1>9 DEF Sound

LEMMA SoundCalibration ==
    ASSUME ~Supervised
    PROVE  Sound(<<"prepare_for_lp_inference", "calibrate">>)
<1> PICK c : c = <<"prepare_for_lp_inference", "calibrate">>
  OBVIOUS
<1>1. /\ c \in Seq(Calls) /\ Len(c) = 2
      /\ c[1] = "prepare_for_lp_inference" /\ c[2] = "calibrate"
  BY DEF Calls
<1>2. Whole(c) /\ Parts(c)
  BY <1>1 DEF Whole, Parts
<1>3. TrainableMet(c, FALSE) /\ FreeMet(c, FALSE)
  BY <1>1 DEF TrainableMet, FreeMet, Met
<1>4. LoadedMet(c, FALSE)
  BY <1>1 DEF LoadedMet, Met, Passes
<1> QED
  BY <1>1, <1>2, <1>3, <1>4 DEF Sound

LEMMA SoundSave ==
    ASSUME ~Supervised
    PROVE  /\ Sound(SaveCalls)
           /\ job.driver = "async" => Sound(SaveCalls \o <<"offload_after_refit">>)
<1>1. ASSUME NEW c \in Seq(Calls), Len(c) \in {2, 3},
             c[1] = "prepare_for_training", c[2] = "save_checkpoint",
             Len(c) = 3 => c[3] = "offload_after_refit" /\ job.driver = "async"
      PROVE  Sound(c)
  BY <1>1 DEF Sound, Whole, Parts, LoadedMet, TrainableMet, FreeMet, Met, Passes
<1>2. PICK p : p = SaveCalls
  OBVIOUS
<1>3. /\ p \in Seq(Calls) /\ Len(p) = 2
      /\ p[1] = "prepare_for_training" /\ p[2] = "save_checkpoint"
  BY <1>2 DEF SaveCalls, Calls
<1>4. Sound(p)
  BY <1>1, <1>3
<1>5. PICK o : o = <<"offload_after_refit">>
  OBVIOUS
<1>6. o \in Seq(Calls) /\ Len(o) = 1 /\ o[1] = "offload_after_refit"
  BY <1>5 DEF Calls
<1>7. ASSUME job.driver = "async"
      PROVE  Sound(p \o o)
  <2>1. PICK c : c = p \o o
    OBVIOUS
  <2>2. /\ c \in Seq(Calls) /\ Len(c) = 3
        /\ c[1] = "prepare_for_training" /\ c[2] = "save_checkpoint"
        /\ c[3] = "offload_after_refit"
    <3>1. p \in Seq(Calls) /\ o \in Seq(Calls)
      BY <1>3, <1>6
    <3>2. /\ c \in Seq(Calls) /\ Len(c) = Len(p) + Len(o)
          /\ \A i \in 1..Len(p) : c[i] = p[i]
          /\ \A i \in 1..Len(o) : c[Len(p) + i] = o[i]
      BY <2>1, <3>1, JoinedCalls
    <3> QED
      BY <1>3, <1>6, <3>2
  <2> QED
    BY <1>1, <1>7, <2>1, <2>2
<1> QED
  BY <1>2, <1>4, <1>5, <1>7

\* What an engine's turn begins with.
LEMMA EngineCalls ==
    ASSUME NEW outdated \in BOOLEAN, NEW r, r = ReadyToGenerate(outdated)
    PROVE  \/ /\ job.colocated /\ r \in Seq(Calls) /\ Len(r) = 3
              /\ r[1] = "offload_before_refit" /\ r[2] = "stream_weights"
              /\ r[3] = "offload_after_refit"
           \/ ~job.colocated /\ r \in Seq(Calls) /\ Len(r) = 1 /\ r[1] = "broadcast_weights"
           \/ job.colocated /\ r \in Seq(Calls) /\ Len(r) = 1 /\ r[1] = "offload_after_refit"
           \/ ~job.colocated /\ r \in Seq(Calls) /\ Len(r) = 0
<1>1. \/ job.colocated /\ r = <<"offload_before_refit", "stream_weights", "offload_after_refit">>
      \/ ~job.colocated /\ r = <<"broadcast_weights">>
      \/ job.colocated /\ r = <<"offload_after_refit">>
      \/ ~job.colocated /\ r = <<>>
  BY DEF ReadyToGenerate, RefitCalls, Optional
<1>2. CASE job.colocated /\ r = <<"offload_before_refit", "stream_weights", "offload_after_refit">>
  BY <1>2 DEF Calls
<1>3. CASE ~job.colocated /\ r = <<"broadcast_weights">>
  BY <1>3 DEF Calls
<1>4. CASE job.colocated /\ r = <<"offload_after_refit">>
  BY <1>4 DEF Calls
<1>5. CASE ~job.colocated /\ r = <<>>
  BY <1>5
<1> QED
  BY <1>1, <1>2, <1>3, <1>4, <1>5

\* The engine's turn.
LEMMA SoundGeneration ==
    ASSUME ~Supervised, NEW outdated \in BOOLEAN
    PROVE  Sound(ReadyToGenerate(outdated) \o <<"generate">>)
<1>1. PICK r : r = ReadyToGenerate(outdated)
  OBVIOUS
<1>2. PICK g : g = <<"generate">>
  OBVIOUS
<1>3. PICK c : c = r \o g
  OBVIOUS
<1>4. g \in Seq(Calls) /\ Len(g) = 1 /\ g[1] = "generate"
  BY <1>2 DEF Calls
<1>5. \/ /\ job.colocated /\ r \in Seq(Calls) /\ Len(r) = 3 /\ r[1] = "offload_before_refit"
         /\ r[2] = "stream_weights" /\ r[3] = "offload_after_refit"
      \/ /\ ~job.colocated /\ r \in Seq(Calls) /\ Len(r) = 1 /\ r[1] = "broadcast_weights"
      \/ /\ job.colocated /\ r \in Seq(Calls) /\ Len(r) = 1 /\ r[1] = "offload_after_refit"
      \/ ~job.colocated /\ r \in Seq(Calls) /\ Len(r) = 0
  BY <1>1, EngineCalls
<1>6. \/ /\ job.colocated /\ c \in Seq(Calls) /\ Len(c) = 4 /\ c[1] = "offload_before_refit"
         /\ c[2] = "stream_weights" /\ c[3] = "offload_after_refit" /\ c[4] = "generate"
      \/ /\ ~job.colocated /\ c \in Seq(Calls) /\ Len(c) = 2
         /\ c[1] = "broadcast_weights" /\ c[2] = "generate"
      \/ /\ job.colocated /\ c \in Seq(Calls) /\ Len(c) = 2
         /\ c[1] = "offload_after_refit" /\ c[2] = "generate"
      \/ ~job.colocated /\ c \in Seq(Calls) /\ Len(c) = 1 /\ c[1] = "generate"
  <2>1. r \in Seq(Calls) /\ g \in Seq(Calls)
    BY <1>4, <1>5
  <2>2. /\ c \in Seq(Calls) /\ Len(c) = Len(r) + Len(g)
        /\ \A i \in 1..Len(r) : c[i] = r[i]
        /\ \A i \in 1..Len(g) : c[Len(r) + i] = g[i]
    BY <1>3, <2>1, JoinedCalls
  <2>3. Len(r) = 3 => Len(c) = 4 /\ c[1] = r[1] /\ c[2] = r[2] /\ c[3] = r[3] /\ c[4] = g[1]
    BY <1>4, <2>2
  <2>4. Len(r) = 1 => Len(c) = 2 /\ c[1] = r[1] /\ c[2] = g[1]
    BY <1>4, <2>2
  <2>5. Len(r) = 0 => Len(c) = 1 /\ c[1] = g[1]
    BY <1>4, <2>2
  <2>6. c \in Seq(Calls) /\ g[1] = "generate"
    BY <1>4, <2>2
  <2> QED
    BY <1>5, <2>3, <2>4, <2>5, <2>6, Zenon
<1>7. Whole(c) /\ Parts(c)
  BY <1>6 DEF Whole, Parts
<1>8. LoadedMet(c, FALSE) /\ TrainableMet(c, FALSE)
  BY <1>6 DEF LoadedMet, TrainableMet, Met, Passes
<1>9. job.colocated => FreeMet(c, FALSE)
  BY <1>6 DEF FreeMet, Met
<1> QED
  BY <1>1, <1>2, <1>3, <1>6, <1>7, <1>8, <1>9 DEF Sound, Shared

\* A refit without a generation behind it.
LEMMA SoundRefit ==
    ASSUME ~Supervised
    PROVE  Sound(RefitCalls)
<1> PICK c : c = RefitCalls
  OBVIOUS
<1>1. CASE job.colocated
  <2>1. /\ c \in Seq(Calls) /\ Len(c) = 3 /\ c[1] = "offload_before_refit"
        /\ c[2] = "stream_weights" /\ c[3] = "offload_after_refit"
    BY <1>1 DEF Calls, RefitCalls
  <2>2. Whole(c) /\ Parts(c)
    BY <1>1, <2>1 DEF Whole, Parts
  <2>3. LoadedMet(c, FALSE) /\ TrainableMet(c, FALSE) /\ FreeMet(c, FALSE)
    BY <2>1 DEF LoadedMet, TrainableMet, FreeMet, Met, Passes
  <2> QED
    BY <2>1, <2>2, <2>3 DEF Sound
<1>2. CASE ~job.colocated
  <2>1. c \in Seq(Calls) /\ Len(c) = 1 /\ c[1] = "broadcast_weights"
    BY <1>2 DEF Calls, RefitCalls
  <2>2. Whole(c) /\ Parts(c)
    BY <1>2, <2>1 DEF Whole, Parts
  <2>3. LoadedMet(c, FALSE) /\ TrainableMet(c, FALSE) /\ FreeMet(c, FALSE)
    BY <2>1 DEF LoadedMet, TrainableMet, FreeMet, Met, Passes
  <2> QED
    BY <2>1, <2>2, <2>3 DEF Sound
<1> QED
  BY <1>1, <1>2

LEMMA SoundSyncStart ==
    ASSUME ~Supervised, NEW fresh \in BOOLEAN
    PROVE  Sound(SyncStart(fresh))
<1>1. PICK c : c = (IF NeedRefit THEN RefitCalls ELSE <<>>) \o <<"generate">>
  OBVIOUS
<1>2. CASE NeedRefit
  <2>1. c = ReadyToGenerate(TRUE) \o <<"generate">>
    BY <1>1, <1>2 DEF ReadyToGenerate
  <2> QED
    BY <1>1, <2>1, SoundGeneration, SoundOptional DEF SyncStart
<1>3. CASE ~NeedRefit
  <2>1. PICK g : g = <<"generate">>
    OBVIOUS
  <2>2. g \in Seq(Calls) /\ Len(g) = 1 /\ g[1] = "generate"
    BY <2>1 DEF Calls
  <2>3. Sound(g)
    <3>1. Whole(g) /\ Parts(g)
      BY <2>2 DEF Whole, Parts
    <3>2. LoadedMet(g, FALSE) /\ TrainableMet(g, FALSE)
      BY <2>2 DEF LoadedMet, TrainableMet, Met, Passes
    <3> QED
      BY <1>3, <2>2, <3>1, <3>2 DEF Sound, Shared
  <2>4. c = g
    BY <1>1, <1>3, <2>1, <2>2
  <2> QED
    BY <1>1, <2>3, <2>4, SoundOptional DEF SyncStart
<1> QED
  BY <1>2, <1>3

LEMMA SoundSyncStep ==
    ASSUME job.driver = "sync", job \in Jobs, stale \in BOOLEAN, scaled \in BOOLEAN,
           NEW extra \in BOOLEAN, NEW val \in BOOLEAN, NEW save \in BOOLEAN
    PROVE  Sound(SyncStep(extra, val, save))
<1>0. ~Supervised /\ NeedsReference /\ job.fp8 \in BOOLEAN
  BY JobAssumption DEF Supervised, NeedsReference, JobType
<1>1. PICK x : x = Optional(NeedRefit /\ stale /\ job.fp8 /\ ~scaled,
                            <<"prepare_for_lp_inference", "calibrate">>)
  OBVIOUS
<1>2. Sound(x)
  BY <1>0, <1>1, SoundCalibration, SoundOptional
<1>3. PICK r : r = ReadyToGenerate(stale)
  OBVIOUS
<1>4. PICK g : g = <<"generate">>
  OBVIOUS
<1>5. Sound(r \o g) /\ r \in Seq(Calls) /\ g \in Seq(Calls)
  <2>1. Sound(r \o g)
    BY <1>0, <1>3, <1>4, SoundGeneration
  <2>2. r \in Seq(Calls)
    BY <1>3, EngineCalls
  <2> QED
    BY <1>4, <2>1, <2>2 DEF Calls
<1>6. PICK e : e = Optional(extra, ReadyToGenerate(FALSE) \o <<"generate">>)
  OBVIOUS
<1>7. PICK l : l = LogprobCalls
  OBVIOUS
<1>8. PICK t : t = TrainCalls
  OBVIOUS
<1>9. PICK k : k = Optional(job.fp8, <<"calibrate">>)
  OBVIOUS
<1>10. PICK v : v = Optional(val, ReadyToGenerate(TRUE) \o <<"generate">>)
  OBVIOUS
<1>11. PICK s : s = Optional(save, SaveCalls)
  OBVIOUS
<1>12. Sound(e) /\ Sound(l) /\ Sound(v) /\ Sound(s)
  BY <1>0, <1>6, <1>7, <1>10, <1>11, SoundGeneration, SoundLogprobs, SoundSave, SoundOptional
<1>13. Sound(t \o k) /\ t \in Seq(Calls) /\ k \in Seq(Calls)
  <2>1. Sound(t \o k)
    BY <1>0, <1>8, <1>9, SoundTraining
  <2> QED
    BY <1>8, <1>9, <2>1, SMTT(40) DEF TrainCalls, Optional, Calls
<1>14. SyncStep(extra, val, save) = x \o r \o g \o e \o l \o t \o k \o v \o s
  BY <1>1, <1>3, <1>4, <1>6, <1>7, <1>8, <1>9, <1>10, <1>11 DEF SyncStep
<1>15. PICK a : a = x \o r \o g
  OBVIOUS
<1>16. Sound(a)
  <2>1. x \o r \o g = x \o (r \o g)
    BY <1>2, <1>5, ConcatAssociative DEF Sound
  <2> QED
    BY <1>2, <1>5, <1>15, <2>1, SoundBoth
<1>17. PICK b : b = a \o e \o l
  OBVIOUS
<1>18. Sound(b)
  BY <1>12, <1>16, <1>17, SoundBoth
<1>19. PICK c : c = b \o t \o k
  OBVIOUS
<1>20. Sound(c)
  <2>1. b \o t \o k = b \o (t \o k)
    BY <1>13, <1>18, ConcatAssociative, SMTT(40) DEF Sound
  <2> QED
    BY <1>13, <1>18, <1>19, <2>1, SoundBoth
<1>21. Sound(c \o v \o s)
  BY <1>12, <1>20, SoundBoth
<1> QED
  BY <1>14, <1>15, <1>17, <1>19, <1>21

LEMMA SoundAsyncStep ==
    ASSUME job.driver = "async", NEW save \in BOOLEAN
    PROVE  Sound(AsyncStep(save))
<1>1. ~Supervised /\ NeedsReference
  BY DEF Supervised, NeedsReference
<1>2. Sound(LogprobCalls) /\ Sound(RefitCalls)
  BY <1>1, SoundLogprobs, SoundRefit
<1>3. Sound(TrainCalls)
  <2>1. PICK t : t = TrainCalls
    OBVIOUS
  <2>2. t \in Seq(Calls)
    BY <2>1 DEF TrainCalls, Calls
  <2>3. Sound(t \o <<>>)
    BY <1>1, <2>1, SoundTraining DEF Optional
  <2> QED
    BY <2>1, <2>2, <2>3, ConcatEmptySeq
<1>4. Sound(Optional(save, SaveCalls \o <<"offload_after_refit">>))
  BY <1>1, SoundSave, SoundOptional
<1> QED
  BY <1>2, <1>3, <1>4, SoundBoth DEF AsyncStep

\* The drivers without an engine.
LEMMA SoundSupervised ==
    ASSUME Supervised
    PROVE  /\ Sound(<<"prepare_for_training">>) /\ Sound(<<"train">>)
           /\ Sound(<<"save_checkpoint">>) /\ Sound(<<"eval", "prepare_for_training">>)
           /\ job.driver = "dpo" => Sound(ReferenceCalls)
<1>1. ASSUME NEW c \in Seq(SupervisedCalls), Len(c) \in {1, 2}, 
             \A i \in 1..Len(c) : c[i] \notin {"use_reference_model", "reference_forward",
                                               "restore_model"}
      PROVE  Sound(c)
  <2>1. c \in Seq(Calls)
    BY <1>1, SeqMonotonic DEF SupervisedCalls, Calls
  <2>2. \A i \in 1..Len(c) : c[i] \in SupervisedCalls
    BY <1>1
  <2>3. Whole(c)
    BY <1>1 DEF Whole
  <2>4. Parts(c)
    BY <2>2 DEF Parts, SupervisedCalls
  <2> QED
    BY <2>1, <2>3, <2>4 DEF Sound
<1>2. ASSUME NEW x \in {"prepare_for_training", "train", "save_checkpoint"}
      PROVE  Sound(<<x>>)
  <2>1. PICK c : c = <<x>>
    OBVIOUS
  <2>2. c \in Seq(SupervisedCalls) /\ Len(c) = 1 /\ c[1] = x
    BY <2>1 DEF SupervisedCalls
  <2>3. \A i \in 1..Len(c) : c[i] = x
    BY <2>2
  <2> QED
    BY <1>1, <2>1, <2>2, <2>3
<1>3. Sound(<<"eval", "prepare_for_training">>)
  <2>1. PICK c : c = <<"eval", "prepare_for_training">>
    OBVIOUS
  <2>2. /\ c \in Seq(SupervisedCalls) /\ Len(c) = 2
        /\ c[1] = "eval" /\ c[2] = "prepare_for_training"
    BY <2>1 DEF SupervisedCalls
  <2>3. \A i \in 1..Len(c) : c[i] \in {"eval", "prepare_for_training"}
    BY <2>2
  <2> QED
    BY <1>1, <2>1, <2>2, <2>3
<1>4. ASSUME job.driver = "dpo"
      PROVE  Sound(ReferenceCalls)
  <2>1. PICK c : c = ReferenceCalls
    OBVIOUS
  <2>2. /\ c \in Seq(Calls) /\ Len(c) = 3 /\ c[1] = "use_reference_model"
        /\ c[2] = "reference_forward" /\ c[3] = "restore_model"
    BY <2>1 DEF ReferenceCalls, Calls
  <2>3. Whole(c)
    BY <1>4, <2>2 DEF Whole, NeedsReference
  <2>4. Parts(c)
    BY <2>2 DEF Parts, SupervisedCalls
  <2> QED
    BY <2>1, <2>2, <2>3, <2>4 DEF Sound
<1> QED
  BY <1>2, <1>3, <1>4

LEMMA SoundValidation ==
    ASSUME Supervised
    PROVE  Sound(Validation)
BY SoundSupervised, SoundOptional, SoundBoth DEF Validation

LEMMA SoundSupervisedStart ==
    ASSUME Supervised, job \in Jobs, NEW fresh \in BOOLEAN
    PROVE  Sound(SupervisedStart(fresh))
<1>1. job.evalFirst \in BOOLEAN
  BY JobAssumption DEF JobType
<1> QED
  BY <1>1, SoundSupervised, SoundValidation, SoundOptional, SoundBoth DEF SupervisedStart

LEMMA SoundSupervisedStep ==
    ASSUME Supervised, NEW val \in BOOLEAN, NEW save \in BOOLEAN
    PROVE  Sound(SupervisedStep(val, save))
BY SoundSupervised, SoundValidation, SoundOptional, SoundBoth DEF SupervisedStep

\* The first thing they do, unless they validate without it.
LEMMA SupervisedHead ==
    ASSUME Supervised, NEW fresh \in BOOLEAN,
           ~(fresh /\ job.evalFirst) \/ job.driver = "sft"
    PROVE  SupervisedStart(fresh) # <<>> /\ Head(SupervisedStart(fresh)) = "prepare_for_training"
<1>1. ASSUME NEW c \in Seq(Calls)
      PROVE  /\ <<"prepare_for_training">> \o c # <<>>
             /\ Head(<<"prepare_for_training">> \o c) = "prepare_for_training"
  <2>1. PICK p : p = <<"prepare_for_training">>
    OBVIOUS
  <2>2. p \in Seq(Calls) /\ Len(p) = 1 /\ p[1] = "prepare_for_training"
    BY <2>1 DEF Calls
  <2>3. /\ p \o c \in Seq(Calls) /\ Len(p \o c) = Len(p) + Len(c) /\ Len(c) \in Nat
        /\ \A i \in 1..Len(p) : (p \o c)[i] = p[i]
    BY <2>2, Joined
  <2> QED
    BY <2>1, <2>2, <2>3
<1>2. CASE ~(fresh /\ job.evalFirst)
  <2>1. SupervisedStart(fresh) = <<>> \o <<"prepare_for_training">>
    BY <1>2 DEF SupervisedStart, Optional
  <2> QED
    BY <2>1
<1>3. CASE fresh /\ job.evalFirst /\ job.driver = "sft"
  <2>1. PICK p : p = <<"prepare_for_training">>
    OBVIOUS
  <2>2. PICK e : e = <<"eval", "prepare_for_training">>
    OBVIOUS
  <2>3. p \in Seq(Calls) /\ e \in Seq(Calls) /\ e \o p \in Seq(Calls)
    BY <2>1, <2>2, Joined DEF Calls
  <2>4. SupervisedStart(fresh) = ((p \o <<>>) \o e) \o p
    BY <1>3, <2>1, <2>2 DEF SupervisedStart, Validation, Optional
  <2>5. ((p \o <<>>) \o e) \o p = p \o (e \o p)
    BY <2>3, ConcatEmptySeq, ConcatAssociative
  <2> QED
    BY <1>1, <2>1, <2>3, <2>4, <2>5
<1> QED
  BY <1>2, <1>3

-----------------------------------------------------------------------------
(* A worker is built, and one call is made *)

LEMMA Built ==
    ASSUME job \in Jobs, NEW ckpt, NEW w, w = NewWorker(ckpt),
           ckpt # NoCheckpoint =>
             /\ ckpt \in Checkpoint /\ ckpt.weights = ckpt.step /\ ckpt.optim = ckpt.step
             /\ PlainIo(ckpt.format, ckpt.peft)
    PROVE  /\ w \in Worker
           /\ w.weights = ckpt.step /\ w.saved = None /\ w.optim.of = ckpt.step
           /\ NeedsReference => w.reference = Base
           /\ PlainIo(w.io.format, w.io.peft)
           /\ Kinds(w) /\ Settled(w) /\ Cold(w) /\ Trainable(w)
           /\ Megatron \/ ~job.offload => Loaded(w)
<1>0. job \in JobType /\ JobAssumptions(job)
  BY JobAssumption
<1>1. PICK b : b = BaseWorker
  OBVIOUS
<1>2. /\ b \in Worker /\ b.weights = 0 /\ b.saved = None /\ b.optim = [at |-> "none", of |-> 0]
      /\ b.params = ParamHome /\ PlainIo(b.io.format, b.io.peft)
      /\ b.buffers = (IF Megatron THEN "none" ELSE ParamHome)
      /\ b.grads = (IF Megatron THEN "gpu" ELSE "none")
  BY <1>0, <1>1 DEF BaseWorker, Worker, Devices, Io, IoFormats, BaseIo, Base, None, ParamHome,
                    PlainIo, JobType, JobAssumptions
<1>3. ASSUME NEW x \in Worker, x.weights = 0, x.saved = None, x.optim = [at |-> "none", of |-> 0],
             PlainIo(x.io.format, x.io.peft), NEW y, y = Restored(x, ckpt)
      PROVE  /\ y \in Worker /\ y.weights = ckpt.step /\ y.saved = None /\ y.optim.of = ckpt.step
             /\ y.optim.at \in {"none", OptimHome} /\ PlainIo(y.io.format, y.io.peft)
             /\ y.reference = x.reference
             /\ y.params = x.params /\ y.buffers = x.buffers /\ y.grads = x.grads
  <2>1. CASE ckpt = NoCheckpoint
    BY <1>3, <2>1 DEF Restored, NoCheckpoint
  <2>2. CASE ckpt # NoCheckpoint
    <3>1. PICK io : io = IF job.backend = "dtensor_v2" THEN Detected(x.io, ckpt) ELSE x.io
      OBVIOUS
    <3>2. io = [format |-> ckpt.format, peft |-> ckpt.peft]
      BY <1>3, <2>2, <3>1 DEF Detected, PlainIo, Worker, Io, Checkpoint
    <3>3. io \in Io /\ PlainIo(io.format, io.peft)
      BY <2>2, <3>2 DEF Checkpoint, Io
    <3>4. PICK o : o = [at |-> OptimHome, of |-> ckpt.optim]
      OBVIOUS
    <3>5. y = [x EXCEPT !.io = io, !.weights = ckpt.weights, !.optim = o]
      BY <1>3, <2>2, <3>1, <3>2, <3>4 DEF Restored, Read
    <3>6. OptimHome \in Devices /\ ckpt.weights \in Nat /\ ckpt.optim \in Nat
      BY <2>2 DEF OptimHome, Devices, Checkpoint
    <3>7. o \in [at: Devices, of: Nat] /\ o.at = OptimHome /\ o.of = ckpt.optim
      BY <3>4, <3>6
    <3>8. ckpt.weights \in Int
      BY <3>6
    <3>9. /\ y \in Worker /\ y.io = io /\ y.weights = ckpt.weights /\ y.optim = o
          /\ y.saved = x.saved /\ y.reference = x.reference
          /\ y.params = x.params /\ y.buffers = x.buffers /\ y.grads = x.grads
      BY <3>3, <3>5, <3>7, <3>8 DEF Worker
    <3> QED
      BY <1>3, <2>2, <3>3, <3>7, <3>9
  <2> QED
    BY <2>1, <2>2
<1>4. ASSUME NEW x \in Worker, NEW r \in Int, NEW y, y = WithReference(x, r)
      PROVE  /\ y \in Worker /\ y.weights = x.weights /\ y.saved = x.saved /\ y.optim = x.optim
             /\ y.io = x.io /\ (NeedsReference => y.reference = r)
             /\ y.params = x.params /\ y.buffers = x.buffers /\ y.grads = x.grads
  BY <1>4 DEF WithReference, Worker
<1>5. ParamHome \in {"cpu", "gpu"} /\ OptimHome \in {"cpu", "gpu"}
  BY DEF ParamHome, OptimHome
<1>6. CASE ~Megatron
  <2>1. PICK c : c = WithReference(b, b.weights)
    OBVIOUS
  <2>2. /\ c \in Worker /\ c.weights = b.weights /\ c.saved = b.saved /\ c.optim = b.optim
        /\ c.io = b.io /\ (NeedsReference => c.reference = 0)
        /\ c.params = b.params /\ c.buffers = b.buffers /\ c.grads = b.grads
    BY <1>2, <1>4, <2>1
  <2>3. w = Restored(c, ckpt)
    BY <1>1, <1>6, <2>1 DEF NewWorker, NewDTensor
  <2>4. /\ w \in Worker /\ w.weights = ckpt.step /\ w.saved = None /\ w.optim.of = ckpt.step
        /\ w.optim.at \in {"none", OptimHome} /\ PlainIo(w.io.format, w.io.peft)
        /\ w.reference = c.reference
        /\ w.params = c.params /\ w.buffers = c.buffers /\ w.grads = c.grads
    BY <1>2, <1>3, <2>2, <2>3
  <2>5. /\ NeedsReference => w.reference = Base
        /\ Kinds(w) /\ Settled(w)
    BY <1>2, <1>6, <2>2, <2>4 DEF Base, Kinds, Settled
  <2>6. Cold(w) /\ Trainable(w) /\ (~job.offload => Loaded(w))
    BY <1>2, <1>6, <2>2, <2>4 DEF Cold, Trainable, Loaded, ParamHome, OptimHome, OptimizerComesBack
  <2> QED
    BY <1>6, <2>4, <2>5, <2>6
<1>7. CASE Megatron
  <2>1. PICK c : c = Restored(b, ckpt)
    OBVIOUS
  <2>2. /\ c \in Worker /\ c.weights = ckpt.step /\ c.saved = None /\ c.optim.of = ckpt.step
        /\ c.optim.at \in {"none", OptimHome} /\ PlainIo(c.io.format, c.io.peft)
        /\ c.buffers = "none"
    BY <1>2, <1>3, <1>7, <2>1
  <2>3. PICK d : d = MoveModel(c, "cpu", TRUE, TRUE)
    OBVIOUS
  <2>4. d \in Worker /\ Same(c, d) /\ d.buffers = c.buffers /\ d.optim = c.optim
    BY <2>2, <2>3, MovedModel
  <2>5. PICK e : e = WithReference(d, Base)
    OBVIOUS
  <2>6. /\ e \in Worker /\ e.weights = d.weights /\ e.saved = d.saved /\ e.optim = d.optim
        /\ e.io = d.io /\ (NeedsReference => e.reference = Base) /\ e.buffers = d.buffers
    BY <1>4, <2>4, <2>5 DEF Base
  <2>7. w = MoveModel(e, "gpu", TRUE, TRUE)
    BY <1>1, <1>7, <2>1, <2>3, <2>5 DEF NewWorker, NewMegatron
  <2>8. /\ w \in Worker /\ Same(e, w) /\ w.buffers = e.buffers /\ w.optim = e.optim
        /\ w.params = "gpu" /\ w.grads = "gpu"
    BY <2>6, <2>7, MovedModel
  <2>9. /\ w.weights = ckpt.step /\ w.saved = None /\ w.optim.of = ckpt.step
        /\ NeedsReference => w.reference = Base
        /\ PlainIo(w.io.format, w.io.peft)
    BY <2>2, <2>4, <2>6, <2>8 DEF Same
  <2>10. Kinds(w) /\ Settled(w) /\ Cold(w) /\ Trainable(w) /\ Loaded(w)
    BY <1>7, <2>2, <2>4, <2>6, <2>8
       DEF Kinds, Settled, Cold, Trainable, Loaded, OptimHome, OptimizerComesBack
  <2> QED
    BY <2>8, <2>9, <2>10
<1> QED
  BY <1>6, <1>7

\* What a call does to where things are.
Moves(h, w, v) ==
    /\ Kinds(v)
    /\ h \notin {"offload_before_refit", "offload_after_refit"} \/ job.offload => Settled(v)
    /\ h = "offload_after_refit" => Cold(v)
    /\ h \notin {"offload_after_refit", "stream_weights"} /\ Cold(w) => Cold(v)
    /\ h \in {"prepare_for_lp_inference", "prepare_for_training"} => Loaded(v)
    /\ h \notin {"offload_after_refit", "broadcast_weights"} /\ Loaded(w) => Loaded(v)
    /\ h = "prepare_for_training" => Trainable(v)
    /\ /\ h \notin {"prepare_for_lp_inference", "offload_before_refit", "offload_after_refit"}
       /\ Trainable(w)
       => Trainable(v)
    /\ Shared => /\ h = "offload_after_refit" => Free(v)
                 /\ /\ h \notin {"prepare_for_lp_inference", "prepare_for_training", "train",
                                 "stream_weights", "broadcast_weights"}
                    /\ Free(w)
                    => Free(v)

\* What the calls to come may count on after a call that does that.
LEMMA PlacesNext ==
    ASSUME job \in Jobs, ~OptimizerLeft(job), NEW s \in Seq(Calls), s # <<>>, NEW w, NEW v,
           PlacesOf(w, s), Moves(s[1], w, v)
    PROVE  PlacesOf(v, Tail(s))
<1>0. job \in JobType /\ JobAssumptions(job)
  BY JobAssumption
<1>1. Head(s) = s[1]
  BY Rest
<1>2. /\ Parts(Tail(s))
      /\ s[1] = "stream_weights" => Tail(s) # <<>> /\ Head(Tail(s)) = "offload_after_refit"
      /\ Supervised => s[1] \in SupervisedCalls
      /\ ~job.colocated /\ job.driver # "async" =>
           s[1] \notin {"offload_before_refit", "offload_after_refit"}
  BY PartsRest DEF PlacesOf
<1>3. Kinds(v)
  BY DEF Moves
<1>4. Settled(v)
  <2>1. CASE OptimizerComesBack
    BY <2>1 DEF Settled
  <2>2. CASE ~OptimizerComesBack
    BY <1>0, <1>2, <2>2 DEF Moves, OptimizerComesBack, OptimizerLeft, JobType
  <2> QED
    BY <2>1, <2>2
<1>5. Cold(v) \/ (Tail(s) # <<>> /\ Head(Tail(s)) = "offload_after_refit")
  BY <1>1, <1>2 DEF PlacesOf, Moves
<1>6. Supervised => Trainable(v) /\ Loaded(v)
  BY <1>1, <1>2 DEF PlacesOf, Moves, SupervisedCalls
<1>7. ASSUME ~Supervised
      PROVE  LoadedMet(Tail(s), Loaded(v)) /\ TrainableMet(Tail(s), Trainable(v))
  <2>1. Loaded(w) \in BOOLEAN /\ Loaded(v) \in BOOLEAN
    BY DEF Loaded
  <2>2. Trainable(w) \in BOOLEAN /\ Trainable(v) \in BOOLEAN
    BY DEF Trainable
  <2>3. LoadedMet(Tail(s), Loaded(v))
    BY <1>7, <2>1, MetOfRest DEF PlacesOf, Moves, LoadedMet
  <2>4. TrainableMet(Tail(s), Trainable(v))
    BY <1>7, <2>2, MetOfRest DEF PlacesOf, Moves, TrainableMet
  <2> QED
    BY <2>3, <2>4
<1>8. ASSUME ~Supervised, Shared
      PROVE  FreeMet(Tail(s), Free(v))
  <2>1. Free(w) \in BOOLEAN /\ Free(v) \in BOOLEAN
    BY DEF Free
  <2> QED
    BY <1>8, <2>1, MetOfRest DEF PlacesOf, Moves, FreeMet
<1> QED
  BY <1>2, <1>3, <1>4, <1>5, <1>6, <1>7, <1>8 DEF PlacesOf

\* What it finds.
LEMMA PlacesNow ==
    ASSUME NEW s \in Seq(Calls), s # <<>>, NEW w, PlacesOf(w, s)
    PROVE  /\ s[1] \in Passes => Loaded(w) /\ Cold(w)
           /\ s[1] = "train" => Trainable(w)
           /\ s[1] = "generate" /\ Shared => Free(w)
<1>1. Head(s) = s[1]
  BY Rest
<1>2. Supervised => s[1] \in SupervisedCalls
  BY PartsRest DEF PlacesOf
<1>3. s[1] \in Passes => Cold(w)
  BY <1>1 DEF PlacesOf, Passes
<1>4. CASE Supervised
  BY <1>1, <1>2, <1>3, <1>4 DEF PlacesOf, Passes, SupervisedCalls
<1>5. CASE ~Supervised
  <2>1. /\ Len(s) \in Nat /\ Len(s) >= 1
    BY Rest
  <2>2. 1 \in 1..Len(s) /\ ~(\E k \in 1..(1 - 1) : TRUE)
    BY <2>1
  <2>3. s[1] \in Passes => Loaded(w)
    BY <1>5, <2>2 DEF PlacesOf, LoadedMet, Met
  <2>4. s[1] = "train" => Trainable(w)
    BY <1>5, <2>2 DEF PlacesOf, TrainableMet, Met
  <2>5. s[1] = "generate" /\ Shared => Free(w)
    BY <1>5, <2>2 DEF PlacesOf, FreeMet, Met
  <2> QED
    BY <1>3, <2>3, <2>4, <2>5
<1> QED
  BY <1>4, <1>5

\* Whose weights there are after a call that leaves them alone ...
LEMMA WeightsNext ==
    ASSUME NEW s \in Seq(Calls), s # <<>>, NEW w, NEW v, NEW n, WeightsOf(w, s, n),
           v.weights = w.weights, v.saved = w.saved, v.reference = w.reference,
           v.optim.of = w.optim.of, PlainIo(v.io.format, v.io.peft),
           s[1] \notin {"use_reference_model", "restore_model"}
    PROVE  WeightsOf(v, Tail(s), n)
<1>1. CASE Own(w, s, n)
  <2>1. Whole(Tail(s))
    BY <1>1, WholeRest DEF Own
  <2> QED
    BY <1>1, <2>1 DEF WeightsOf, Own
<1>2. CASE Swapped(w, s, n)
  <2>1. PICK t : t = Tail(s)
    OBVIOUS
  <2>2. /\ Len(s) >= 2 /\ s[1] = "reference_forward" /\ s[2] = "restore_model"
        /\ Whole(Tail(t))
    BY <1>2, <2>1 DEF Swapped
  <2>3. /\ t \in Seq(Calls) /\ Len(s) \in Nat /\ Len(t) = Len(s) - 1
        /\ \A i \in 1..Len(t) : t[i] = s[i + 1]
    BY <2>1, Rest
  <2>4. Len(t) >= 1 /\ t[1] = s[2]
    <3>1. Len(t) >= 1 /\ 1 \in 1..Len(t) /\ 1 + 1 = 2
      BY <2>2, <2>3
    <3> QED
      BY <2>3, <3>1
  <2>5. Swapped(v, t, n)
    BY <1>2, <2>2, <2>4 DEF Swapped
  <2> QED
    BY <2>1, <2>5 DEF WeightsOf
<1> QED
  BY <1>1, <1>2 DEF WeightsOf

\* ... that swaps in the reference's ...
LEMMA WeightsIn ==
    ASSUME NEW s \in Seq(Calls), s # <<>>, NEW w \in Worker, NEW v, NEW n, WeightsOf(w, s, n),
           v = SwapIn(w), s[1] = "use_reference_model"
    PROVE  WeightsOf(v, Tail(s), n)
<1>1. Own(w, s, n)
  BY DEF WeightsOf, Swapped
<1>2. /\ NeedsReference /\ Len(s) >= 3 /\ s[2] = "reference_forward" /\ s[3] = "restore_model"
      /\ Whole(Tail(Tail(Tail(s))))
  BY <1>1, WholePass DEF Own
<1>3. /\ v.weights = w.reference /\ v.saved = w.weights /\ v.reference = w.reference
      /\ v.optim = w.optim /\ v.io = w.io
  BY DEF SwapIn, Worker
<1>4. PICK t : t = Tail(s)
  OBVIOUS
<1>5. /\ t \in Seq(Calls) /\ Len(s) \in Nat /\ Len(t) = Len(s) - 1
      /\ \A i \in 1..Len(t) : t[i] = s[i + 1]
  BY <1>4, Rest
<1>6. Len(t) >= 2 /\ t[1] = s[2] /\ t[2] = s[3]
  <2>1. Len(t) >= 2 /\ 1 \in 1..Len(t) /\ 1 + 1 = 2 /\ 2 \in 1..Len(t) /\ 2 + 1 = 3
    BY <1>2, <1>5
  <2> QED
    BY <1>5, <2>1
<1>7. Swapped(v, t, n)
  BY <1>1, <1>2, <1>3, <1>4, <1>6 DEF Swapped, WeightsOf, Own
<1> QED
  BY <1>3, <1>4, <1>7 DEF WeightsOf

\* ... that swaps them out ...
LEMMA WeightsOut ==
    ASSUME NEW s \in Seq(Calls), s # <<>>, NEW w \in Worker, NEW v, NEW n, WeightsOf(w, s, n),
           v = SwapOut(w), s[1] = "restore_model"
    PROVE  WeightsOf(v, Tail(s), n)
<1>1. ~Own(w, s, n)
  BY WholeRest DEF Own
<1>2. w.saved = n /\ Whole(Tail(s))
  BY <1>1 DEF WeightsOf, Swapped
<1>3. /\ v.weights = w.saved /\ v.saved = None /\ v.reference = w.reference
      /\ v.optim = w.optim /\ v.io = w.io
  BY DEF SwapOut, Worker
<1> QED
  BY <1>2, <1>3 DEF WeightsOf, Own

\* ... or that trains.
LEMMA WeightsTrained ==
    ASSUME NEW s \in Seq(Calls), s # <<>>, NEW w, NEW v, NEW n \in Nat, WeightsOf(w, s, n),
           v.weights = w.weights + 1, v.saved = w.saved, v.reference = w.reference,
           v.optim.of = w.optim.of + 1, v.io = w.io, s[1] = "train"
    PROVE  WeightsOf(v, Tail(s), n + 1)
<1>1. Own(w, s, n)
  BY DEF WeightsOf, Swapped
<1>2. Whole(Tail(s))
  BY <1>1, WholeRest DEF Own
<1> QED
  BY <1>1, <1>2 DEF WeightsOf, Own

\* What a call finds: the worker's own weights, or the reference's.
LEMMA WeightsNow ==
    ASSUME NEW s \in Seq(Calls), s # <<>>, NEW w, NEW n, WeightsOf(w, s, n)
    PROVE  /\ s[1] = "reference_forward" => w.weights = Base
           /\ s[1] \notin {"reference_forward", "restore_model"} =>
                w.weights = n /\ w.saved = None
           /\ w.optim.of = n
BY WholeRest DEF WeightsOf, Own, Swapped

-----------------------------------------------------------------------------
(* The invariant *)

\* The calls that move things.
LEMMA MovedByCall ==
    ASSUME NEW w \in Worker, Kinds(w), Settled(w),
           NEW h \in {"prepare_for_lp_inference", "prepare_for_training",
                      "offload_before_refit", "offload_after_refit"},
           NEW v, v = Effect(h, w)
    PROVE  Moves(h, w, v)
<1>1. CASE h = "prepare_for_lp_inference"
  <2>1. v = ForLpInference(w)
    BY <1>1 DEF Effect
  <2> QED
    BY <1>1, <2>1, ReadyForLogprobs DEF Moves
<1>2. CASE h = "prepare_for_training"
  <2>1. v = ForTraining(w)
    BY <1>2 DEF Effect
  <2> QED
    BY <1>2, <2>1, ReadyForTraining DEF Moves
<1>3. CASE h = "offload_before_refit"
  <2>1. v = BeforeRefit(w)
    BY <1>3 DEF Effect
  <2>2. /\ v.params = w.params /\ v.buffers = w.buffers
        /\ v.grads = IF Megatron THEN "cpu" ELSE w.grads
        /\ v.optim.at = IF w.optim.at = "none" \/ (Megatron /\ job.offload)
                        THEN w.optim.at ELSE "cpu"
    BY <2>1, OffloadedBefore
  <2> QED
    BY <1>3, <2>2 DEF Moves, Kinds, Settled, Cold, Loaded, Trainable, Free, OptimHome
<1>4. CASE h = "offload_after_refit"
  <2>1. v = AfterRefit(w)
    BY <1>4 DEF Effect
  <2> QED
    BY <1>4, <2>1, OffloadedAfter DEF Moves
<1> QED
  BY <1>1, <1>2, <1>3, <1>4

\* The calls that leave everything where it is.
LEMMA MovedNot ==
    ASSUME NEW w, NEW v, Kinds(w), Settled(w),
           v.params = w.params, v.buffers = w.buffers, v.grads = w.grads, v.optim = w.optim,
           NEW h \in {"use_reference_model", "restore_model", "get_logprobs", "calibrate",
                      "reference_forward", "eval", "generate", "save_checkpoint"}
    PROVE  Moves(h, w, v)
BY DEF Moves, Kinds, Settled, Cold, Loaded, Trainable, Free

\* Generation by Megatron itself.
LEMMA MovedByGeneration ==
    ASSUME job \in Jobs, NEW w \in Worker, Kinds(w), Settled(w), job.engine = "megatron",
           NEW v, v = MoveModel(w, "gpu", TRUE, FALSE)
    PROVE  Moves("generate", w, v)
<1>1. Megatron /\ ~Shared
  BY JobAssumption DEF JobAssumptions, Megatron, Shared, NeedRefit
<1>2. v.buffers = w.buffers /\ v.optim = w.optim /\ v.params = "gpu" /\ v.grads = w.grads
  BY MovedParameters
<1> QED
  BY <1>1, <1>2 DEF Moves, Kinds, Settled, Cold, Loaded, Trainable

\* The refit itself.
LEMMA MovedByRefit ==
    ASSUME NEW w \in Worker, Kinds(w), Settled(w), NEW v
    PROVE  /\ v = OnloadForStream(w) => Moves("stream_weights", w, v)
           /\ v = OffloadAfterBroadcast(OnloadForStream(w)) => Moves("broadcast_weights", w, v)
<1>1. ASSUME v = OnloadForStream(w)
      PROVE  Moves("stream_weights", w, v)
  <2>1. /\ v.grads = w.grads /\ v.optim = w.optim
        /\ Megatron \/ ~job.offload => v = w
        /\ Loaded(w) => Loaded(v)
    BY <1>1, Streamed
  <2> QED
    BY <2>1 DEF Moves, Kinds, Settled, Trainable
<1>2. ASSUME v = OffloadAfterBroadcast(OnloadForStream(w))
      PROVE  Moves("broadcast_weights", w, v)
  <2>1. /\ v.grads = w.grads /\ v.optim = w.optim
        /\ Kinds(w) => Kinds(v)
        /\ Cold(w) => Cold(v)
    BY <1>2, Broadcasted
  <2> QED
    BY <2>1 DEF Moves, Settled, Trainable
<1> QED
  BY <1>1, <1>2

\* A training step.
LEMMA Trained ==
    ASSUME NEW w \in Worker, NEW v, v = TrainStep(w)
    PROVE  /\ v \in Worker /\ v.weights = w.weights + 1 /\ v.saved = w.saved
           /\ v.reference = w.reference /\ v.optim.of = w.optim.of + 1 /\ v.io = w.io
           /\ Kinds(w) /\ Settled(w) => Moves("train", w, v)
<1>1. PICK o : o = [at |-> IF w.optim.at = "none" THEN OptimHome ELSE w.optim.at,
                    of |-> w.optim.of + 1]
  OBVIOUS
<1>2. PICK n : n = w.weights + 1
  OBVIOUS
<1>3. w.optim \in [at: Devices, of: Nat] /\ w.weights \in Int
  BY DEF Worker
<1>4. o \in [at: Devices, of: Nat] /\ n \in Int
  BY <1>1, <1>2, <1>3 DEF Devices, OptimHome
<1>5. v = [w EXCEPT !.weights = n, !.optim = o]
  BY <1>1, <1>2 DEF TrainStep
<1>6. /\ v \in Worker /\ v.weights = n /\ v.optim = o /\ v.saved = w.saved
      /\ v.reference = w.reference /\ v.io = w.io
      /\ v.params = w.params /\ v.buffers = w.buffers /\ v.grads = w.grads
  BY <1>4, <1>5 DEF Worker
<1>7. o.at = (IF w.optim.at = "none" THEN OptimHome ELSE w.optim.at) /\ o.of = w.optim.of + 1
  BY <1>1
<1>8. Kinds(w) /\ Settled(w) => Moves("train", w, v)
  BY <1>6, <1>7
     DEF Moves, Kinds, Settled, Cold, Loaded, Trainable, OptimHome, OptimizerComesBack
<1> QED
  BY <1>2, <1>6, <1>7, <1>8

LEMMA SwappedIn ==
    ASSUME NEW w \in Worker, NEW v, v = SwapIn(w) \/ v = SwapOut(w)
    PROVE  /\ v \in Worker /\ v.io = w.io
           /\ v.params = w.params /\ v.buffers = w.buffers /\ v.grads = w.grads
           /\ v.optim = w.optim
<1>1. w.reference \in Int /\ w.saved \in Int /\ w.weights \in Int /\ None \in Int
  BY DEF Worker, None
<1>2. CASE v = SwapIn(w)
  BY <1>1, <1>2 DEF SwapIn, Worker
<1>3. CASE v = SwapOut(w)
  BY <1>1, <1>3 DEF SwapOut, Worker
<1> QED
  BY <1>2, <1>3

\* What was said of the worker and its calls holds of the next state, in which the
\* job is the same.
LEMMA JobStays ==
    ASSUME job' = job
    PROVE  /\ WeightsOf(policy', todo', step') => WeightsOf(policy, todo, step)'
           /\ PlacesOf(policy', todo') => PlacesOf(policy, todo)'
           /\ OptimizerLeft(job)' = OptimizerLeft(job) /\ BuffersLeft(job)' = BuffersLeft(job)
<1>1. WeightsOf(policy', todo', step') => WeightsOf(policy, todo, step)'
  BY DEF WeightsOf, Own, Swapped, Whole, PlainIo, NeedsReference
<1>2. PlacesOf(policy', todo') => PlacesOf(policy, todo)'
  BY DEF PlacesOf, Kinds, Settled, Parts, Cold, Loaded, Trainable, Free, LoadedMet, TrainableMet,
         FreeMet, Supervised, Shared, NeedRefit, Megatron, OptimizerComesBack, OptimHome
<1> QED
  BY <1>1, <1>2 DEF OptimizerLeft, BuffersLeft

\* What a call preserves, whatever it is: the places ...
LEMMA CallKeepsPlaces ==
    ASSUME IInv, up, up' = up, job' = job, todo # <<>>, todo' = Tail(todo), NEW h, h = Head(todo),
           Kinds(policy) /\ Settled(policy) => Moves(h, policy, policy')
    PROVE  PlaceInv'
<1>1. SUFFICES ASSUME ~OptimizerLeft(job), ~BuffersLeft(job)
               PROVE  PlacesOf(policy, todo)'
  BY JobStays DEF PlaceInv
<1>2. PlacesOf(policy, todo) /\ todo \in Seq(Calls) /\ job \in Jobs
  BY <1>1 DEF IInv, Types, PlaceInv
<1>3. h = todo[1]
  BY <1>2, Rest
<1>4. Kinds(policy) /\ Settled(policy)
  BY <1>2 DEF PlacesOf
<1>5. PlacesOf(policy', Tail(todo))
  BY <1>1, <1>2, <1>3, <1>4, PlacesNext
<1> QED
  BY <1>5, JobStays

\* ... the weights ...
LEMMA CallKeepsWeights ==
    ASSUME IInv, up, up' = up, job' = job, step' = step, todo # <<>>, todo' = Tail(todo),
           NEW h, h = Head(todo), h \notin {"use_reference_model", "restore_model"},
           policy'.weights = policy.weights, policy'.saved = policy.saved,
           policy'.reference = policy.reference, policy'.optim.of = policy.optim.of,
           PlainIo(policy'.io.format, policy'.io.peft)
    PROVE  PolicyInv'
<1>1. WeightsOf(policy, todo, step) /\ todo \in Seq(Calls)
  BY DEF IInv, Types, PolicyInv
<1>2. h = todo[1]
  BY <1>1, Rest
<1>3. WeightsOf(policy', Tail(todo), step)
  BY <1>1, <1>2, WeightsNext
<1> QED
  BY <1>3, JobStays DEF PolicyInv

\* ... and the types.
LEMMA CallKeepsTypes ==
    ASSUME IInv, up, up' = up, job' = job, format' = format, todo # <<>>, todo' = Tail(todo),
           step' \in Nat, stale' \in BOOLEAN, scaled' \in BOOLEAN, policy' \in Worker,
           disk' # NoCheckpoint => disk' \in Checkpoint
    PROVE  Types'
<1>1. Tail(todo) \in Seq(Calls)
  BY Rest DEF IInv, Types
<1> QED
  BY <1>1 DEF IInv, Types

LEMMA DiskStays ==
    ASSUME DiskInv, disk' = disk, job' = job
    PROVE  DiskInv'
BY DEF DiskInv, PlainIo

LEMMA MoveKeeps ==
    ASSUME IInv, Move
    PROVE  IInv'
<1>1. /\ up /\ up' = up /\ job' = job /\ step' = step /\ todo # <<>> /\ todo' = Tail(todo)
      /\ disk' = disk /\ format' = format /\ stale' = stale /\ scaled' = scaled
  BY DEF Move, Call
<1>2. PICK name \in {"prepare_for_lp_inference", "prepare_for_training", "offload_before_refit",
                     "offload_after_refit", "use_reference_model", "restore_model"} :
        Head(todo) = name /\ policy' = Effect(name, policy)
  BY DEF Move, Call
<1>3. policy \in Worker /\ todo \in Seq(Calls) /\ WeightsOf(policy, todo, step)
  BY <1>1 DEF IInv, Types, PolicyInv
<1>4. todo[1] = name
  BY <1>1, <1>2, <1>3, Rest
<1>5. CASE name \in {"prepare_for_lp_inference", "prepare_for_training",
                     "offload_before_refit", "offload_after_refit"}
  <2>1. policy' \in Worker /\ Same(policy, policy')
    <3>1. CASE name = "prepare_for_lp_inference"
      BY <1>2, <1>3, <3>1, ReadyForLogprobs DEF Effect
    <3>2. CASE name = "prepare_for_training"
      BY <1>2, <1>3, <3>2, ReadyForTraining DEF Effect
    <3>3. CASE name = "offload_before_refit"
      BY <1>2, <1>3, <3>3, OffloadedBefore DEF Effect
    <3>4. CASE name = "offload_after_refit"
      BY <1>2, <1>3, <3>4, OffloadedAfter DEF Effect
    <3> QED
      BY <1>5, <3>1, <3>2, <3>3, <3>4
  <2>2. PlaceInv'
    BY <1>1, <1>2, <1>3, <1>5, MovedByCall, CallKeepsPlaces
  <2>3. PlainIo(policy'.io.format, policy'.io.peft)
    BY <1>3, <2>1 DEF Same, WeightsOf
  <2>4. PolicyInv'
    BY <1>1, <1>2, <1>5, <2>1, <2>3, CallKeepsWeights DEF Same
  <2> QED
    BY <1>1, <2>1, <2>2, <2>4, CallKeepsTypes, DiskStays DEF IInv, Types
<1>6. CASE name = "use_reference_model"
  <2>1. policy' = SwapIn(policy)
    BY <1>2, <1>6 DEF Effect
  <2>2. /\ policy' \in Worker /\ policy'.params = policy.params /\ policy'.buffers = policy.buffers
        /\ policy'.grads = policy.grads /\ policy'.optim = policy.optim
    BY <1>3, <2>1, SwappedIn
  <2>3. PlaceInv'
    BY <1>1, <1>2, <1>6, <2>2, MovedNot, CallKeepsPlaces
  <2>4. WeightsOf(policy', Tail(todo), step)
    BY <1>1, <1>3, <1>4, <1>6, <2>1, WeightsIn
  <2>5. PolicyInv'
    BY <1>1, <2>4, JobStays DEF PolicyInv
  <2> QED
    BY <1>1, <2>2, <2>3, <2>5, CallKeepsTypes, DiskStays DEF IInv, Types
<1>7. CASE name = "restore_model"
  <2>1. policy' = SwapOut(policy)
    BY <1>2, <1>7 DEF Effect
  <2>2. /\ policy' \in Worker /\ policy'.params = policy.params /\ policy'.buffers = policy.buffers
        /\ policy'.grads = policy.grads /\ policy'.optim = policy.optim
    BY <1>3, <2>1, SwappedIn
  <2>3. PlaceInv'
    BY <1>1, <1>2, <1>7, <2>2, MovedNot, CallKeepsPlaces
  <2>4. WeightsOf(policy', Tail(todo), step)
    BY <1>1, <1>3, <1>4, <1>7, <2>1, WeightsOut
  <2>5. PolicyInv'
    BY <1>1, <2>4, JobStays DEF PolicyInv
  <2> QED
    BY <1>1, <2>2, <2>3, <2>5, CallKeepsTypes, DiskStays DEF IInv, Types
<1> QED
  BY <1>5, <1>6, <1>7

LEMMA ForwardKeeps ==
    ASSUME IInv, Forward
    PROVE  IInv'
<1>1. /\ up /\ up' = up /\ job' = job /\ step' = step /\ todo # <<>> /\ todo' = Tail(todo)
      /\ disk' = disk /\ format' = format /\ stale' = stale /\ scaled' = scaled
  BY DEF Forward, Call
<1>2. PICK name \in {"get_logprobs", "reference_forward", "eval", "generate"} :
        /\ Head(todo) = name
        /\ policy' = IF name = "generate" /\ job.engine = "megatron" /\ job.overlap
                     THEN MoveModel(policy, "gpu", TRUE, FALSE) ELSE policy
  BY DEF Forward, ForGeneration, Call
<1>3. policy \in Worker /\ WeightsOf(policy, todo, step) /\ job \in Jobs
  BY <1>1 DEF IInv, Types, PolicyInv
<1>4. CASE name = "generate" /\ job.engine = "megatron" /\ job.overlap
  <2>1. policy' = MoveModel(policy, "gpu", TRUE, FALSE)
    BY <1>2, <1>4
  <2>2. policy' \in Worker /\ Same(policy, policy')
    BY <1>3, <2>1, MovedParameters
  <2>3. PlaceInv'
    BY <1>1, <1>2, <1>3, <1>4, <2>1, MovedByGeneration, CallKeepsPlaces
  <2>4. PlainIo(policy'.io.format, policy'.io.peft)
    BY <1>3, <2>2 DEF Same, WeightsOf
  <2>5. PolicyInv'
    BY <1>1, <1>2, <2>2, <2>4, CallKeepsWeights DEF Same
  <2> QED
    BY <1>1, <2>2, <2>3, <2>5, CallKeepsTypes, DiskStays DEF IInv, Types
<1>5. CASE ~(name = "generate" /\ job.engine = "megatron" /\ job.overlap)
  <2>1. policy' = policy
    BY <1>2, <1>5
  <2>2. PlaceInv'
    BY <1>1, <1>2, <2>1, MovedNot, CallKeepsPlaces
  <2>3. PlainIo(policy'.io.format, policy'.io.peft)
    BY <1>3, <2>1 DEF WeightsOf
  <2>4. PolicyInv'
    BY <1>1, <1>2, <2>1, <2>3, CallKeepsWeights
  <2> QED
    BY <1>1, <1>3, <2>1, <2>2, <2>4, CallKeepsTypes, DiskStays DEF IInv, Types
<1> QED
  BY <1>4, <1>5

LEMMA CalibrateKeeps ==
    ASSUME IInv, Calibrate
    PROVE  IInv'
<1>1. /\ up /\ up' = up /\ job' = job /\ step' = step /\ todo # <<>> /\ todo' = Tail(todo)
      /\ disk' = disk /\ format' = format /\ stale' \in BOOLEAN /\ scaled' \in BOOLEAN
      /\ policy' = policy /\ Head(todo) = "calibrate"
  BY DEF Calibrate, Call
<1>2. policy \in Worker /\ WeightsOf(policy, todo, step)
  BY <1>1 DEF IInv, Types, PolicyInv
<1>3. PlaceInv'
  BY <1>1, MovedNot, CallKeepsPlaces
<1>4. PlainIo(policy'.io.format, policy'.io.peft)
  BY <1>1, <1>2 DEF WeightsOf
<1>5. PolicyInv'
  BY <1>1, <1>4, CallKeepsWeights
<1> QED
  BY <1>1, <1>2, <1>3, <1>5, CallKeepsTypes, DiskStays DEF IInv, Types

LEMMA TrainKeeps ==
    ASSUME IInv, Train
    PROVE  IInv'
<1>1. /\ up /\ up' = up /\ job' = job /\ step' = step + 1 /\ todo # <<>> /\ todo' = Tail(todo)
      /\ disk' = disk /\ format' = format /\ stale' = TRUE /\ scaled' = scaled
      /\ policy' = TrainStep(policy) /\ Head(todo) = "train"
  BY DEF Train, Call
<1>2. policy \in Worker /\ WeightsOf(policy, todo, step) /\ step \in Nat /\ todo \in Seq(Calls)
  BY <1>1 DEF IInv, Types, PolicyInv
<1>3. /\ policy' \in Worker /\ policy'.weights = policy.weights + 1
      /\ policy'.saved = policy.saved /\ policy'.reference = policy.reference
      /\ policy'.optim.of = policy.optim.of + 1 /\ policy'.io = policy.io
      /\ Kinds(policy) /\ Settled(policy) => Moves("train", policy, policy')
  BY <1>1, <1>2, Trained
<1>4. PlaceInv'
  BY <1>1, <1>3, CallKeepsPlaces
<1>5. todo[1] = "train"
  BY <1>1, <1>2, Rest
<1>6. WeightsOf(policy', Tail(todo), step + 1)
  BY <1>1, <1>2, <1>3, <1>5, WeightsTrained
<1>7. PolicyInv'
  BY <1>1, <1>6, JobStays DEF PolicyInv
<1> QED
  BY <1>1, <1>2, <1>3, <1>4, <1>7, CallKeepsTypes, DiskStays DEF IInv, Types

LEMMA RefitKeeps ==
    ASSUME IInv, StreamWeights \/ BroadcastWeights
    PROVE  IInv'
<1>1. PICK h \in {"stream_weights", "broadcast_weights"} :
        /\ up /\ up' = up /\ job' = job /\ step' = step /\ todo # <<>> /\ todo' = Tail(todo)
        /\ disk' = disk /\ format' = format /\ stale' = FALSE /\ scaled' = scaled
        /\ Head(todo) = h
        /\ h = "stream_weights" => policy' = OnloadForStream(policy)
        /\ h = "broadcast_weights" => policy' = OffloadAfterBroadcast(OnloadForStream(policy))
  BY DEF StreamWeights, BroadcastWeights, Call
<1>2. policy \in Worker /\ WeightsOf(policy, todo, step)
  BY <1>1 DEF IInv, Types, PolicyInv
<1>3. policy' \in Worker /\ Same(policy, policy')
  BY <1>1, <1>2, Streamed, Broadcasted
<1>4. PlaceInv'
  BY <1>1, <1>2, MovedByRefit, CallKeepsPlaces
<1>5. PlainIo(policy'.io.format, policy'.io.peft)
  BY <1>2, <1>3 DEF Same, WeightsOf
<1>6. PolicyInv'
  BY <1>1, <1>3, <1>5, CallKeepsWeights DEF Same
<1> QED
  BY <1>1, <1>3, <1>4, <1>6, CallKeepsTypes, DiskStays DEF IInv, Types

LEMMA SaveKeeps ==
    ASSUME IInv, SaveCheckpoint
    PROVE  IInv'
<1>1. PICK io : io = SaveIo(policy)
  OBVIOUS
<1>2. /\ up /\ up' = up /\ job' = job /\ step' = step /\ todo # <<>> /\ todo' = Tail(todo)
      /\ format' = format /\ stale' = stale /\ scaled' = scaled
      /\ policy' = [policy EXCEPT !.io = io] /\ Head(todo) = "save_checkpoint"
      /\ disk' = [weights |-> policy.weights, optim |-> policy.optim.of,
                  format |-> io.format, peft |-> io.peft, step |-> step]
  BY <1>1 DEF SaveCheckpoint, Call
<1>3. /\ policy \in Worker /\ WeightsOf(policy, todo, step) /\ step \in Nat
      /\ job \in JobType /\ format \in Formats \cup {"unset"} /\ todo \in Seq(Calls)
  BY <1>2, JobAssumption DEF IInv, Types, PolicyInv
<1>4. io \in Io /\ PlainIo(io.format, io.peft)
  <2>1. policy.io \in Io /\ PlainIo(policy.io.format, policy.io.peft)
    BY <1>3 DEF Worker, WeightsOf
  <2>2. CASE job.backend # "dtensor_v2"
    BY <1>1, <2>1, <2>2 DEF SaveIo
  <2>3. CASE job.backend = "dtensor_v2"
    <3>1. io = [format |-> IF format = "unset" THEN policy.io.format ELSE format,
                peft |-> policy.io.peft \/ job.lora]
      BY <1>1, <2>3 DEF SaveIo
    <3>2. (policy.io.peft \/ job.lora) \in BOOLEAN
      OBVIOUS
    <3>3. (IF format = "unset" THEN policy.io.format ELSE format) \in IoFormats
      BY <1>3, <2>1 DEF Io, IoFormats
    <3> QED
      BY <2>3, <3>1, <3>2, <3>3 DEF Io, PlainIo
  <2> QED
    BY <2>2, <2>3
<1>5. /\ policy' \in Worker /\ policy'.io = io /\ policy'.weights = policy.weights
      /\ policy'.saved = policy.saved /\ policy'.reference = policy.reference
      /\ policy'.optim = policy.optim /\ policy'.params = policy.params
      /\ policy'.buffers = policy.buffers /\ policy'.grads = policy.grads
  BY <1>2, <1>3, <1>4 DEF Worker
<1>6. PlaceInv'
  BY <1>2, <1>5, MovedNot, CallKeepsPlaces
<1>7. PolicyInv'
  BY <1>2, <1>4, <1>5, CallKeepsWeights
<1>8. policy.weights = step /\ policy.optim.of = step
  BY <1>2, <1>3, Rest, WeightsNow, SMTT(40)
<1>9. disk' \in Checkpoint /\ DiskInv'
  BY <1>2, <1>3, <1>4, <1>8 DEF Checkpoint, Io, DiskInv, PlainIo
<1> QED
  BY <1>2, <1>3, <1>5, <1>6, <1>7, <1>9, CallKeepsTypes DEF IInv, Types

\* A worker may begin on sound calls from where it is between two steps.
LEMMA SoundBegins ==
    ASSUME NEW w, NEW s, Sound(s), Kinds(w), Settled(w), Cold(w),
           Supervised => /\ Trainable(w)
                         /\ Loaded(w) \/ (s # <<>> /\ Head(s) = "prepare_for_training")
    PROVE  PlacesOf(w, s)
<1>1. s \in Seq(Calls) /\ Parts(s)
  BY DEF Sound
<1>2. CASE ~Supervised
  <2>1. Loaded(w) \in BOOLEAN /\ Trainable(w) \in BOOLEAN /\ Free(w) \in BOOLEAN
    BY DEF Loaded, Trainable, Free
  <2>2. LoadedMet(s, Loaded(w))
    BY <1>1, <1>2, <2>1, MetAnyway DEF Sound, LoadedMet
  <2>3. TrainableMet(s, Trainable(w))
    BY <1>1, <1>2, <2>1, MetAnyway DEF Sound, TrainableMet
  <2>4. Shared => FreeMet(s, Free(w))
    BY <1>1, <1>2, <2>1, MetAnyway DEF Sound, FreeMet
  <2> QED
    BY <1>1, <1>2, <2>2, <2>3, <2>4 DEF PlacesOf
<1> QED
  BY <1>1, <1>2 DEF PlacesOf

LEMMA SetupKeeps ==
    ASSUME IInv, Setup
    PROVE  IInv'
<1>1. PICK s : s = StartCalls(disk.step = 0)
  OBVIOUS
<1>2. PICK w : w = NewWorker(disk)
  OBVIOUS
<1>3. /\ up' = TRUE /\ job' = job /\ step' = disk.step /\ disk' = disk /\ todo' = s /\ policy' = w
      /\ format' \in Formats /\ stale' = TRUE /\ scaled' = FALSE
  BY <1>1, <1>2 DEF Setup
<1>4. job \in Jobs /\ job \in JobType /\ JobAssumptions(job)
  BY JobAssumption DEF IInv, Types
<1>5. /\ w \in Worker
      /\ w.weights = disk.step /\ w.saved = None /\ w.optim.of = disk.step
      /\ NeedsReference => w.reference = Base
      /\ PlainIo(w.io.format, w.io.peft)
      /\ Kinds(w) /\ Settled(w) /\ Cold(w) /\ Trainable(w)
      /\ Megatron \/ ~job.offload => Loaded(w)
  BY <1>2, <1>4, Built DEF IInv, Types, DiskInv
<1>6. (disk.step = 0) \in BOOLEAN
  OBVIOUS
<1>7. disk.step \in Nat
  BY DEF IInv, Types, Checkpoint, NoCheckpoint
<1>8. ASSUME Sound(s), ~OptimizerLeft(job) /\ ~BuffersLeft(job) => PlacesOf(w, s)
      PROVE  IInv'
  <2>1. s \in Seq(Calls) /\ Whole(s)
    BY <1>8 DEF Sound
  <2>2. Types'
    BY <1>3, <1>4, <1>5, <1>7, <2>1 DEF IInv, Types
  <2>3. WeightsOf(policy', todo', step')
    BY <1>3, <1>5, <2>1 DEF WeightsOf, Own
  <2>4. PolicyInv' /\ PlaceInv'
    BY <1>3, <1>8, <2>3, JobStays DEF PolicyInv, PlaceInv
  <2> QED
    BY <1>3, <2>2, <2>4, DiskStays DEF IInv
<1>9. CASE Supervised
  <2>1. s = SupervisedStart(disk.step = 0)
    BY <1>1, <1>9 DEF StartCalls, Supervised
  <2>2. Sound(s)
    BY <1>4, <1>6, <1>9, <2>1, SoundSupervisedStart
  <2>3. ~BuffersLeft(job) => Loaded(w) \/ (s # <<>> /\ Head(s) = "prepare_for_training")
    <3>1. CASE ~(disk.step = 0 /\ job.evalFirst) \/ job.driver = "sft"
      BY <1>6, <1>9, <2>1, <3>1, SupervisedHead
    <3>2. CASE disk.step = 0 /\ job.evalFirst /\ job.driver # "sft"
      BY <1>5, <1>9, <3>2 DEF BuffersLeft, Supervised, Megatron
    <3> QED
      BY <3>1, <3>2
  <2>4. ~BuffersLeft(job) => PlacesOf(w, s)
    BY <1>5, <2>2, <2>3, SoundBegins
  <2> QED
    BY <1>8, <2>2, <2>4
<1>10. CASE ~Supervised
  <2>1. Sound(s)
    <3>1. CASE job.driver = "sync"
      BY <1>1, <1>6, <1>10, <3>1, SoundSyncStart DEF StartCalls
    <3>2. CASE job.driver = "async"
      BY <1>1, <1>10, <3>2, SoundRefit DEF StartCalls
    <3> QED
      BY <1>4, <1>10, <3>1, <3>2 DEF JobType, Supervised
  <2>2. PlacesOf(w, s)
    BY <1>5, <1>10, <2>1, SoundBegins
  <2> QED
    BY <1>8, <2>1, <2>2
<1> QED
  BY <1>9, <1>10

LEMMA BeginKeeps ==
    ASSUME IInv, Begin
    PROVE  IInv'
<1>1. /\ up /\ todo = <<>> /\ job' = job /\ format' = format /\ policy' = policy
      /\ stale' = stale /\ scaled' = scaled /\ step' = step /\ disk' = disk /\ up' = up
  BY DEF Begin
<1>2. /\ job \in Jobs /\ job \in JobType /\ JobAssumptions(job) /\ stale \in BOOLEAN /\ scaled \in BOOLEAN
      /\ policy \in Worker
  BY <1>1, JobAssumption DEF IInv, Types
<1>3. Sound(todo')
  <2>1. PICK val \in BOOLEAN, save \in BOOLEAN, extra \in {FALSE, job.dynamic} :
          todo' = CASE job.driver = "sync"  -> SyncStep(extra, val, save)
                    [] job.driver = "async" -> AsyncStep(save)
                    [] OTHER                -> SupervisedStep(val, save)
    BY DEF Begin
  <2>2. extra \in BOOLEAN
    BY <1>2 DEF JobType
  <2>3. CASE job.driver = "sync"
    BY <1>2, <2>1, <2>2, <2>3, SoundSyncStep
  <2>4. CASE job.driver = "async"
    BY <2>1, <2>4, SoundAsyncStep
  <2>5. CASE Supervised
    BY <2>1, <2>5, SoundSupervisedStep DEF Supervised
  <2> QED
    BY <1>2, <2>3, <2>4, <2>5 DEF JobType, Supervised
<1>4. Types'
  BY <1>1, <1>3 DEF IInv, Types, Sound
<1>5. WeightsOf(policy, <<>>, step)
  BY <1>1 DEF IInv, PolicyInv
<1>6. Own(policy', todo', step')
  BY <1>1, <1>3, <1>5 DEF WeightsOf, Own, Swapped, Sound
<1>7. PolicyInv'
  BY <1>1, <1>5, <1>6, JobStays DEF PolicyInv, WeightsOf
<1>8. PlaceInv'
  <2> SUFFICES ASSUME ~OptimizerLeft(job), ~BuffersLeft(job)
               PROVE  PlacesOf(policy, todo)'
    BY <1>1, JobStays DEF PlaceInv
  <2>1. PlacesOf(policy, <<>>)
    BY <1>1 DEF IInv, PlaceInv
  <2>2. PlacesOf(policy', todo')
    BY <1>1, <1>3, <2>1, SoundBegins DEF PlacesOf
  <2> QED
    BY <1>1, <2>2, JobStays
<1> QED
  BY <1>1, <1>4, <1>7, <1>8, DiskStays DEF IInv

LEMMA StopKeeps ==
    ASSUME IInv, Stop
    PROVE  IInv'
<1>1. /\ up' = FALSE /\ todo' = <<>> /\ job' = job /\ format' = format /\ disk' = disk
      /\ step' = step /\ stale' = stale /\ scaled' = scaled
  BY DEF Stop
<1>2. Types'
  <2>1. <<>> \in Seq(Calls)
    OBVIOUS
  <2>2. up' \in BOOLEAN /\ stale' \in BOOLEAN /\ scaled' \in BOOLEAN
    BY <1>1 DEF IInv, Types
  <2> QED
    BY <1>1, <2>1, <2>2 DEF IInv, Types
<1>3. PolicyInv' /\ PlaceInv'
  BY <1>1 DEF PolicyInv, PlaceInv
<1> QED
  BY <1>1, <1>2, <1>3, DiskStays DEF IInv

LEMMA NothingKeeps ==
    ASSUME IInv, UNCHANGED vars
    PROVE  IInv'
<1>1. /\ up' = up /\ todo' = todo /\ job' = job /\ format' = format /\ disk' = disk
      /\ step' = step /\ stale' = stale /\ scaled' = scaled /\ policy' = policy
  BY DEF vars
<1>2. Types'
  BY <1>1 DEF IInv, Types
<1>3. PolicyInv' /\ PlaceInv'
  BY <1>1, JobStays DEF IInv, PolicyInv, PlaceInv
<1> QED
  BY <1>1, <1>2, <1>3, DiskStays DEF IInv

THEOREM Invariance == Spec => []IInv
<1>1. Init => IInv
  <2> SUFFICES ASSUME Init PROVE IInv
    OBVIOUS
  <2>1. /\ up = FALSE /\ todo = <<>> /\ step = 0 /\ stale = FALSE /\ scaled = FALSE
        /\ format = "unset" /\ disk = NoCheckpoint /\ job \in Jobs
    BY DEF Init
  <2>2. Types
    <3>1. <<>> \in Seq(Calls)
      OBVIOUS
    <3>2. up \in BOOLEAN /\ stale \in BOOLEAN /\ scaled \in BOOLEAN
      BY <2>1
    <3> QED
      BY <2>1, <3>1, <3>2 DEF Types
  <2> QED
    BY <2>1, <2>2 DEF IInv, PolicyInv, DiskInv, PlaceInv
<1>2. IInv /\ [Next]_vars => IInv'
  BY SetupKeeps, BeginKeeps, MoveKeeps, ForwardKeeps, CalibrateKeeps, TrainKeeps, RefitKeeps,
     SaveKeeps, StopKeeps, NothingKeeps DEF Next, Ended
<1> QED
  BY <1>1, <1>2, PTL DEF Spec

-----------------------------------------------------------------------------
\* The policy's own weights, those of the training steps counted, and their
\* optimizer state are in the model in every call that computes, sends or saves
\* them: through use_reference_model, saves in any format and restarts.
THEOREM WeightsAreOfTheStep == Spec => []WeightsOfStep
<1>1. IInv => WeightsOfStep
  <2> SUFFICES ASSUME IInv, up, todo # <<>>,
                      Head(todo) \in {"get_logprobs", "calibrate", "eval", "train",
                                      "stream_weights", "broadcast_weights", "save_checkpoint"}
               PROVE  policy.weights = step /\ policy.optim.of = step /\ policy.saved = None
    BY DEF WeightsOfStep, AboutTo
  <2>1. WeightsOf(policy, todo, step) /\ todo \in Seq(Calls) /\ Head(todo) = todo[1]
    BY Rest DEF IInv, Types, PolicyInv
  <2> QED
    BY <2>1, WeightsNow
<1> QED
  BY <1>1, Invariance, PTL

\* A reference forward pass has the base model's weights, in every process: also
\* after a restart, when the worker was built with a checkpoint's.
THEOREM ReferencePassIsBase == Spec => []ReferenceIsBase
<1>1. IInv => ReferenceIsBase
  <2> SUFFICES ASSUME IInv, up, todo # <<>>, Head(todo) = "reference_forward"
               PROVE  policy.weights = Base
    BY DEF ReferenceIsBase, AboutTo
  <2>1. WeightsOf(policy, todo, step) /\ todo \in Seq(Calls) /\ Head(todo) = todo[1]
    BY Rest DEF IInv, Types, PolicyInv
  <2> QED
    BY <2>1, WeightsNow
<1> QED
  BY <1>1, Invariance, PTL

\* The worker has on the GPU what a pass needs there and what Megatron generates
\* with, and nothing when an engine on the same GPUs generates: in every job, but
\* for the part each of the three kinds of jobs is excluded from.
THEOREM CallsFindTheirPlace == Spec => []InItsPlace
<1>1. IInv => InItsPlace
  <2> SUFFICES ASSUME IInv, up, todo # <<>> PROVE InItsPlace
    BY DEF InItsPlace, PassInPlace, GenerationInPlace, GpuFree, AboutTo
  <2>1. /\ job \in JobType /\ JobAssumptions(job) /\ policy \in Worker
        /\ todo \in Seq(Calls) /\ Head(todo) = todo[1]
    BY Rest, JobAssumption DEF IInv, Types
  <2>2. ASSUME ~OptimizerLeft(job), ~BuffersLeft(job) PROVE PassInPlace /\ GpuFree
    <3>1. PlacesOf(policy, todo)
      BY <2>2 DEF IInv, PlaceInv
    <3>2. /\ Head(todo) \in Passes => Loaded(policy) /\ Cold(policy)
          /\ Head(todo) = "train" => Trainable(policy)
          /\ Head(todo) = "generate" /\ Shared => Free(policy)
          /\ Kinds(policy) /\ Settled(policy)
      BY <2>1, <3>1, PlacesNow DEF PlacesOf
    <3>3. policy.optim.at \in Devices
      BY <2>1 DEF Worker
    <3>4. PassInPlace
      BY <3>2, <3>3 DEF PassInPlace, AboutTo, Passes, Loaded, Cold, Trainable, Kinds, Settled,
                        ParamHome, OptimHome, OptimizerComesBack, Devices
    <3> QED
      BY <3>2, <3>4 DEF GpuFree, AboutTo, Shared, Free
  <2>3. ASSUME ~ParamsLeft(job), job.engine = "megatron"
        PROVE  ForGeneration(policy).params = ParamHome
    <3>1. Megatron /\ job.overlap
      BY <2>1, <2>3 DEF JobAssumptions, JobType, ParamsLeft, Megatron
    <3>2. ForGeneration(policy).params = "gpu"
      BY <2>1, <2>3, <3>1, MovedParameters DEF ForGeneration
    <3> QED
      BY <3>1, <3>2 DEF ParamHome
  <2>4. ASSUME OptimizerLeft(job) \/ BuffersLeft(job) PROVE GpuFree
    BY <2>1, <2>4 DEF OptimizerLeft, BuffersLeft, JobAssumptions, GpuFree
  <2> QED
    BY <2>2, <2>3, <2>4 DEF InItsPlace, GenerationInPlace
<1> QED
  BY <1>1, Invariance, PTL

=============================================================================
