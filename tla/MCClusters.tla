----------------------------- MODULE MCClusters -----------------------------
(* Machines of one to three nodes with two to four GPUs, and jobs that fit them or do not.   *)
EXTENDS Clusters

None == [nodes |-> 0, gpus |-> 0]
Of(nodes, gpus) == [nodes |-> nodes, gpus |-> gpus]
Machines == {Of(1, 2), Of(1, 4), Of(2, 2), Of(2, 3), Of(3, 2)}
Policies == {[pp |-> 1, cp |-> 1, tp |-> 1], [pp |-> 1, cp |-> 1, tp |-> 2], [pp |-> 2, cp |-> 1, tp |-> 1]}
Engines == {[pp |-> 1, tp |-> 1], [pp |-> 1, tp |-> 2], [pp |-> 2, tp |-> 2], [pp |-> 3, tp |-> 1]}

AllSetups ==
    {[driver |-> d, engine |-> e, nodes |-> m.nodes, gpus |-> m.gpus, late |-> l, colocated |-> c,
      inference |-> i, reward |-> r, policy |-> p, vllm |-> v] :
        d \in {"grpo", "distillation", "plain"}, e \in {"vllm", "megatron"}, m \in Machines,
        l \in {0, 1}, c \in BOOLEAN, i \in {None, Of(1, 1), Of(1, 2), Of(2, 2)},
        r \in {None, Of(1, 1), Of(1, 2)}, p \in Policies, v \in Engines}

\* Combinations that differ in what the code does: other policies on some machines only, a
\* late node for small jobs, three GPUs for engines that do not divide them.
Relevant(s) ==
    /\ IsSetup(s)
    /\ s.colocated => s.inference = None
    /\ s.engine = "megatron" => s.vllm = [pp |-> 1, tp |-> 1]
    /\ s.gpus = 4 => s.reward.gpus = 1 /\ ~s.colocated /\ s.vllm.tp = 2
    /\ s.gpus = 3 => s.reward.nodes = 0 /\ (s.vllm.tp = 2 \/ s.vllm.pp = 3)
    /\ s.late > 0 => s.driver = "grpo" /\ s.gpus = 2 /\ s.nodes = 2 /\ s.reward.nodes = 0
    /\ s.nodes = 3 => s.reward.gpus # 1
    /\ s.nodes = 3 => (IF s.reward.nodes > 0 THEN s.vllm.tp = 2 /\ (s.vllm.pp = 2 <=> s.colocated) ELSE s.vllm.pp > 1)
    /\ s.policy.pp = 2 => s.driver = "plain" /\ s.nodes = 2
    /\ s.policy.tp = 2 <=> s.late = 0 /\ s.gpus # 4 /\ s.policy.pp = 1
MCSetups == {s \in AllSetups : Relevant(s)}
=============================================================================
