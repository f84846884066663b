-------------------------- MODULE MCTokenPipeline --------------------------
(***************************************************************************)
(* Training steps for TLC: every driver, worker, batching mode and kind of *)
(* parallelism, on four short samples (two pairs of preferences).          *)
(***************************************************************************)
EXTENDS TokenPipeline

User(tokens) == Message("user", tokens)
Assistant(tokens) == Message("assistant", tokens)
Environment(tokens) == Message("environment", tokens)

\* Every sample begins with a token of its own.  The prompt of the third one is too long, the
\* generation of the fourth is cut off, the second has two turns.
Prompts == <<<<User(<<10, 4>>)>>, <<User(<<11>>)>>, <<User(<<12, 5, 6, 7, 8>>)>>, <<User(<<13, 6>>)>>>>
Answers ==
    <<<<Assistant(<<5, 6>>)>>, <<Assistant(<<7, 8>>), Environment(<<4>>), Assistant(<<5>>)>>,
      <<Assistant(<<4>>)>>, <<Assistant(<<4, 5, 7>>)>>>>
Dialogues == [i \in DOMAIN Prompts |-> Prompts[i] \o Answers[i]]
Preferred ==
    <<<<User(<<10, 4>>), Assistant(<<5, 6>>)>>, <<User(<<10, 4>>), Assistant(<<7>>)>>,
      <<User(<<11>>), Assistant(<<8>>), User(<<4>>), Assistant(<<5, 6>>)>>,
      <<User(<<11>>), Assistant(<<8>>), User(<<4>>), Assistant(<<9>>)>>>>

Common ==
    [level |-> "token", answers |-> Answers, truncated |-> {4}, most |-> 4, processor |-> "math",
     template |-> "headers", prompts |-> FALSE, cp |-> 1, tp |-> 1, pp |-> 1, sp |-> FALSE, fp8 |-> 0,
     dp |-> 2, gbs |-> 4, mbs |-> 1, multiple |-> 4, vocab |-> 16, chunk |-> 0, best |-> 2, rest |-> FALSE]
Job(driver, backend, mode, settings) ==
    settings @@ [driver |-> driver, backend |-> backend, mode |-> mode,
                 data |-> IF driver = "sft" THEN Dialogues ELSE IF driver \in {"dpo", "rm"} THEN Preferred ELSE Prompts]
             @@ Common
First == "concatenative"
BestFit == "modified_first_fit_decreasing"

GrpoJobs ==
    {Job("grpo", "v1", Plain, [tp |-> 2, mbs |-> 2, chunk |-> 3]),
     Job("async_grpo", "v2", Dynamic, [cp |-> 2, tp |-> 2, gbs |-> 2, processor |-> "math_hf"]),
     Job("grpo", "v2", First, [tp |-> 2, level |-> "sequence", processor |-> "helpsteer"]),
     Job("grpo", "megatron", First, [cp |-> 2, tp |-> 2, sp |-> TRUE, pp |-> 2, dp |-> 1, level |-> "gspo"]),
     Job("async_grpo", "megatron", BestFit, [cp |-> 2, gbs |-> 2, chunk |-> 3, processor |-> "multichoice", most |-> 6]),
     Job("async_grpo", "megatron", First, [tp |-> 2, sp |-> TRUE, fp8 |-> 3, level |-> "gspo"]),
     Job("grpo", "megatron", Dynamic, [tp |-> 2, level |-> "sequence"])}
DistillationJobs ==
    {Job("distillation", "v1", Plain, [tp |-> 4]),
     Job("distillation", "v2", Dynamic, [tp |-> 2, rest |-> TRUE]),
     Job("distillation", "v1", BestFit, [tp |-> 2]),
     Job("distillation", "megatron", First, [cp |-> 2, tp |-> 2, best |-> 3]),
     Job("distillation", "megatron", BestFit, [cp |-> 2, pp |-> 2, dp |-> 1, rest |-> TRUE]),
     Job("distillation", "megatron", Plain, [tp |-> 2, chunk |-> 3])}
OtherJobs ==
    {Job("sft", "v2", BestFit, [most |-> 11]),
     Job("sft", "megatron", First, [cp |-> 2, sp |-> TRUE, tp |-> 2, dp |-> 1, most |-> 11, prompts |-> TRUE]),
     Job("dpo", "v1", Plain, [cp |-> 2, tp |-> 2, mbs |-> 2, most |-> 20]),
     Job("dpo", "megatron", Plain, [mbs |-> 2, tp |-> 2, most |-> 14, dp |-> 1]),
     Job("rm", "v2", Plain, [mbs |-> 2, most |-> 20])}

\* The drivers, workers, batching and context parallelism that the code accepts together.
Grid ==
    {Job(driver, backend, mode, [cp |-> cp, tp |-> tp, pp |-> pp, sp |-> sp, mbs |-> 2, most |-> 12, rest |-> rest]) :
        driver \in Drivers \ {"async_grpo"}, backend \in {"v1", "megatron"}, mode \in {Plain, First},
        cp \in 1 .. 2, tp \in {2}, pp \in 1 .. 2, sp \in BOOLEAN, rest \in BOOLEAN}
OnContextParallelDTensors(j) == j.driver = "distillation" /\ j.backend # "megatron" /\ j.cp > 1
Accepted(j) ==
    /\ IsJob(j)
    /\ j.rest => j.driver = "distillation"
    /\ j.sp = (j.pp > 1)
    /\ j.sp => j.tp > 1 /\ j.backend = "megatron"
    /\ ~OnContextParallelDTensors(j)
AllJobs == GrpoJobs \cup DistillationJobs \cup OtherJobs \cup {j \in Grid : Accepted(j)}

\* Distillation on context-parallel DTensors, the jobs left out above.
ContextParallelJobs ==
    {Job("distillation", "v1", Plain, [cp |-> 2, tp |-> 2]), Job("distillation", "v2", Dynamic, [cp |-> 2])}
=============================================================================
