-------------------------- MODULE CheckpointStore --------------------------
(***************************************************************************)
(* What the checkpoint directory promises to a training run that may die at *)
(* any moment: checkpoints appear whole, for later and later steps; one is  *)
(* given up only when it is not the latest and KeepTopK better ones are     *)
(* there.  A crash, and a save that never comes to its end, do not show.    *)
(***************************************************************************)
EXTENDS Integers, FiniteSets

CONSTANTS
    Steps,          \* training steps a checkpoint may be saved for
    Scores,         \* values of the metric
    KeepTopK        \* checkpointing.keep_top_k

VARIABLES
    metric,         \* how checkpoints are compared: see Better
    store           \* the checkpoints there are

NoScore == -1       \* the metric was not measured for the step

Checkpoint == [step : Steps, score : Scores \cup {NoScore}]

\* Checkpoints are compared by the metric, if one is configured; a checkpoint
\* without it comes last, and the more recent of two equal ones first.
BetterScore(s, t) ==
    CASE metric = "none"   -> FALSE
      [] metric = "higher" -> s > t
      [] metric = "lower"  -> s # NoScore /\ (t = NoScore \/ s < t)

Better(c, d) ==
    \/ BetterScore(c.score, d.score)
    \/ ~BetterScore(d.score, c.score) /\ c.step > d.step

Latest(c) == \A d \in store : d.step <= c.step

Init ==
    /\ metric \in {"none", "higher", "lower"}
    /\ store = {}

Publish(c) ==
    /\ \A d \in store : d.step < c.step
    /\ store' = store \cup {c}
    /\ UNCHANGED metric

Forget(c) ==
    /\ ~Latest(c)
    /\ Cardinality({d \in store : Better(d, c)}) >= KeepTopK
    /\ store' = store \ {c}
    /\ UNCHANGED metric

Next ==
    \/ \E c \in Checkpoint : Publish(c)
    \/ \E c \in store : Forget(c)

vars == <<metric, store>>

Spec == Init /\ [][Next]_vars

TypeOK ==
    /\ metric \in {"none", "higher", "lower"}
    /\ store \subseteq Checkpoint

\* A step has one checkpoint.
OnePerStep == \A c, d \in store : c.step = d.step => c = d

\* The step a run resumes from never goes back: whatever was there, something
\* as recent is there afterwards.
NeverBack == [][\A c \in store : \E d \in store' : d.step >= c.step]_vars
=============================================================================
