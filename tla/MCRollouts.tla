----------------------------- MODULE MCRollouts -----------------------------
(* Rollouts for TLC. *)
EXTENDS Rollouts

MCSize == [sync |-> 3, async |-> 2, gym |-> 3, eval |-> 0]

\* One prompt of three tests, three prompts of which the last is a batch of its
\* own, and two batches of two tests.
MCEvaluations ==
    {e \in [tests: {1, 2, 3}, k: {1, 2, 3}, metric: {"pass@k", "cons@k"}, prompts: {1, 2, 3},
            perBatch: {1, 2}, async: BOOLEAN] :
        e.k <= e.tests /\ <<e.tests, e.prompts, e.perBatch>> \in {<<3, 1, 1>>, <<1, 3, 2>>, <<2, 2, 1>>}}
=============================================================================
