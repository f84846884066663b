-------------------------- MODULE MCPolicyWorkers --------------------------
(* Batches of four samples of any of three lengths and some of six, on two and three ranks. *)
EXTENDS PolicyWorkers

Four == [1 .. 4 -> {1, 2, 4}]
Six == {<<4, 1, 1, 2, 3, 1>>, <<3, 3, 4, 4, 1, 2>>, <<1, 1, 1, 1, 1, 1>>, <<1, 6, 1, 2, 1, 5>>,
        <<2, 1, 4, 2, 2, 2>>, <<2, 7, 1, 1, 1, 1>>}
Five == {<<1, 2, 1, 2, 1>>, <<4, 3, 2, 1, 1>>}

Call(op, backend, mode, lens, dp, gbs, mbs) ==
    [op |-> op, backend |-> backend, mode |-> mode, lens |-> lens, dp |-> dp, gbs |-> gbs, mbs |-> mbs]

Training ==
    {Call("train", b, m, l, 2, g, 1) : b \in {"dtensor", "megatron"}, m \in Modes, l \in Four, g \in {2, 4}}
    \cup {Call("train", b, m, l, d, g, k) : b \in {"dtensor", "megatron"}, m \in Modes \ {"first_fit_shuffle"},
              l \in Six, d \in {2, 3}, g \in {3, 6}, k \in {1, 2}}
Inference ==
    {Call(op, b, m, l, 2, Len(l), 1) : op \in {"get_logprobs", "get_topk_logits"},
              b \in {"dtensor", "megatron"}, m \in Modes \ {"first_fit_shuffle"}, l \in Four}
    \cup {Call(op, "dtensor", m, l, 3, Len(l), 1) : op \in {"get_logprobs", "get_topk_logits"},
              m \in Modes \ {"first_fit_shuffle"}, l \in Six}
Scoring == {Call("score", "dtensor", m, l, d, Len(l), k) : m \in {"plain", "dynamic"}, l \in Five \cup Six,
                d \in {1, 2, 3}, k \in {2, 4}}
Generation ==
    {Call("generate", "megatron", "plain", l, d, Len(l), 1) : l \in Five \cup Six, d \in {1, 2, 3}}
    \cup {Call("vllm_generate", "vllm", "plain", l, d, Len(l), 1) :
              l \in Five \cup Six \cup {<<1, 2, 1, 2>>}, d \in {1, 2, 3, 4}}

AllJobs == Training \cup Inference \cup Scoring \cup Generation

\* Reward-model training: pairs, so even global and micro batches.
RewardModelJobs == {Call("train", "dtensor", m, l, 2, 4, 2) : m \in {"plain", "dynamic"}, l \in Four}
=============================================================================
