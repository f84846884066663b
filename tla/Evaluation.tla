----------------------------- MODULE Evaluation -----------------------------
(***************************************************************************)
(* Scoring (nemo_rl/evals/eval.py, environments/math_environment.py): the  *)
(* responses of a batch are verified by the environment's workers in       *)
(* chunks, and each prompt's tests give its pass@k or cons@k.              *)
(*                                                                         *)
(* A response is what verification makes of it: an answer that is          *)
(* extracted, right or wrong, none, or one that is scored twice.  Scores   *)
(* are counted in parts of n!, so that they are whole numbers.             *)
(***************************************************************************)
EXTENDS Integers, Sequences, SequencesExt, FiniteSets, FiniteSetsExt, Functions, Combinatorics

CONSTANT VerifyWorkers      \* num_workers of the environment

ASSUME WorkersAssumption == VerifyWorkers \in Nat \ {0}

NoAnswer == "none"
Right == "right"

\* "torn": its score is known but its answer is not to be had: no prediction was extracted, or
\* turning it into a string took too long.
Responses == {[answer |-> Right, torn |-> FALSE], [answer |-> "wrong", torn |-> FALSE],
              [answer |-> "other", torn |-> FALSE], [answer |-> NoAnswer, torn |-> FALSE],
              [answer |-> NoAnswer, torn |-> TRUE]}

-----------------------------------------------------------------------------
(* The environment *)

\* Chunks of a length that is rounded down.
BadChunkLists(list) ==
    LET size == IF Len(list) <= VerifyWorkers THEN 1 ELSE Len(list) \div VerifyWorkers
    IN  [w \in 1 .. VerifyWorkers |-> SubSeq(list, (w - 1) * size + 1, Min({w * size, Len(list)}))]

\* chunk_list_to_workers: chunks of one length in order, the last ones shorter or empty.
ChunkLists(list) ==
    LET size == (Len(list) + VerifyWorkers - 1) \div VerifyWorkers
    IN  [w \in 1 .. VerifyWorkers |-> SubSeq(list, (w - 1) * size + 1, Min({w * size, Len(list)}))]

\* HFVerifyWorker.verify: a score is appended before the answer is looked at, and once more
\* when that fails.
Scores(r) == IF r.torn THEN <<0, 0>> ELSE IF r.answer = Right THEN <<1>> ELSE <<0>>
Verify(chunk) == [rewards |-> FlattenSeq([i \in DOMAIN chunk |-> Scores(chunk[i])]),
                  answers |-> [i \in DOMAIN chunk |-> chunk[i].answer]]

\* MathEnvironment.step: the workers' results, flattened in the order of the workers.
EnvStep(responses) ==
    LET chunks == ChunkLists(responses)
        results == [w \in DOMAIN chunks |-> Verify(chunks[w])]
    IN  [rewards |-> FlattenSeq([w \in DOMAIN results |-> results[w].rewards]),
         answers |-> FlattenSeq([w \in DOMAIN results |-> results[w].answers])]

-----------------------------------------------------------------------------
(* The metrics *)

\* torch.split: groups of n, the last one perhaps shorter.
Split(list, n) ==
    [g \in 1 .. (Len(list) + n - 1) \div n |-> SubSeq(list, (g - 1) * n + 1, Min({g * n, Len(list)}))]
Total(numbers) ==
    LET sum[n \in 0 .. Len(numbers)] == IF n = 0 THEN 0 ELSE sum[n - 1] + numbers[n]
    IN  sum[Len(numbers)]

Product(numbers) ==
    LET prod[n \in 0 .. Len(numbers)] == IF n = 0 THEN 1 ELSE prod[n - 1] * numbers[n]
    IN  prod[Len(numbers)]

\* eval_single_chunk: 1 - the product of 1 - k / i, for i from n - c + 1 to n.
PassOfGroup(n, c, k) ==
    IF n - c < k THEN factorial[n]
    ELSE factorial[n] - Product([i \in 1 .. c |-> n - c + i - k])
                        * (factorial[n] \div Product([i \in 1 .. c |-> n - c + i]))
EvalPassK(rewards, n, k) ==
    LET groups == Split(rewards, n)
    IN  Total([g \in DOMAIN groups |-> PassOfGroup(n, Total(groups[g]), k)])

\* majority_vote: the most frequent answer, of several the one that comes first.
Times(answers, a) == Cardinality({i \in DOMAIN answers : answers[i] = a})
Majority(answers) ==
    answers[CHOOSE i \in DOMAIN answers :
        /\ \A j \in DOMAIN answers : Times(answers, answers[j]) <= Times(answers, answers[i])
        /\ \A j \in 1 .. i - 1 : Times(answers, answers[j]) < Times(answers, answers[i])]
\* eval_single_cons_k: every choice of k samples votes; the winner's reward is that of the
\* first sample with that answer.
ConsOfGroup(n, rewards, answers, k) ==
    LET votes == kSubset(k, DOMAIN answers)
        ordered(s) == CHOOSE p \in [1 .. k -> s] : \A i, j \in 1 .. k : i < j => p[i] < p[j]
        vote(s) == Majority([i \in 1 .. k |-> answers[ordered(s)[i]]])
        right == {s \in votes : rewards[SelectInSeq(answers, LAMBDA a : a = vote(s))] = 1}
    IN  IF k > Len(answers) THEN 0
        ELSE Cardinality(right) * (factorial[n] \div Cardinality(votes))
EvalConsK(rewards, answers, n, k) ==
    LET r == Split(rewards, n)
        a == Split(answers, n)
    IN  Total([g \in DOMAIN r |-> ConsOfGroup(n, r[g], a[g], k)])

-----------------------------------------------------------------------------
(* What the metrics mean, of the n responses to one prompt: the share of the choices of k of  *)
(* them that have a right one (pass@k), or whose most frequent answer is right (cons@k).      *)
Draws(n, k) == kSubset(k, 1 .. n)
Share(n, k, good) == Cardinality(good) * (factorial[n] \div Cardinality(Draws(n, k)))
PassAtK(responses, n, k) ==
    Share(n, k, {s \in Draws(n, k) : \E i \in s : responses[i].answer = Right})
Wins(responses, s, i) ==
    \A j \in s : LET votes(x) == Cardinality({l \in s : responses[l].answer = responses[x].answer})
                 IN  votes(j) < votes(i) \/ (votes(j) = votes(i) /\ \E l \in s :
                        /\ responses[l].answer = responses[i].answer
                        /\ \A m \in s : responses[m].answer = responses[j].answer => l <= m)
ConsAtK(responses, n, k) ==
    Share(n, k, {s \in Draws(n, k) : \A i \in s : Wins(responses, s, i) => responses[i].answer = Right})
=============================================================================
