-------------------------- MODULE MCTrainingLoops --------------------------
(* Small instances of TrainingLoops. *)
EXTENDS TrainingLoops

\* Every driver with limits before, at and beyond the end of its epochs.
MCConfigs ==
    {c \in [alg: {"sft", "dpo", "rm", "distillation"}, maxSteps: {-1, 3, 9}, saving: BOOLEAN,
            metric: BOOLEAN, valAtStart: BOOLEAN, valPeriod: {0, 2}, valBatches: {0, 2, 3},
            sets: {1, 2}, colocated: BOOLEAN] :
        /\ c.maxSteps = -1 => c.alg = "rm"
        /\ c.colocated => c.alg = "distillation"
        /\ c.sets = 2 => c.alg \in {"dpo", "rm"} /\ c.valPeriod > 0
        /\ ~c.saving => ~c.metric
        /\ c.valPeriod = 0 => ~c.valAtStart /\ c.valBatches = 0}

\* In the second set no sample is valid.
MCValidSamples == <<{1, 3, 4, 5}, {}>>

=============================================================================
