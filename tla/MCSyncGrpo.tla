----------------------------- MODULE MCSyncGrpo -----------------------------
(* SyncGrpo for TLC: the configurations of a run, chosen so that each flag    *)
(* meets each kind of engine.                                                 *)
EXTENDS SyncGrpo

Vllm(colocated, dynamic, maxSteps) ==
    [engine |-> "vllm", colocated |-> colocated, dynamic |-> dynamic, fp8 |-> FALSE,
     spare |-> colocated, overlap |-> FALSE, saving |-> TRUE, valAtStart |-> dynamic,
     metric |-> TRUE,
     valBatches |-> IF maxSteps = 3 THEN 1 ELSE 2, maxSteps |-> maxSteps]

MCConfigs ==
    {Vllm(c, d, n) : c \in BOOLEAN, d \in BOOLEAN, n \in {3, 9}}
    \cup {[Vllm(c, FALSE, 9) EXCEPT !.fp8 = TRUE, !.valAtStart = v, !.saving = v]
            : c \in BOOLEAN, v \in BOOLEAN}
    \cup {[Vllm(TRUE, d, 9) EXCEPT !.engine = "megatron", !.spare = d, !.overlap = o]
            : d \in BOOLEAN, o \in BOOLEAN}
    \cup {[Vllm(TRUE, FALSE, 3) EXCEPT !.valBatches = 0]}
=============================================================================
