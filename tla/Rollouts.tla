------------------------------ MODULE Rollouts ------------------------------
(***************************************************************************)
(* Multi-turn rollouts (nemo_rl/experience/rollouts.py): a batch of        *)
(* samples, each in turns of generation and environment feedback, run      *)
(* turn by turn over the samples still active (sync), as one coroutine a   *)
(* sample over AsyncGeneration (async), or by NeMo-Gym's servers (gym);    *)
(* and the evaluation loop of evals/eval.py, a batch of texts at a time.   *)
(*                                                                         *)
(* Rewards and stop strings are named by the sample and turn they are for, *)
(* so that one that reaches another sample is seen; <<>> is None.          *)
(***************************************************************************)
EXTENDS AsyncGeneration, Evaluation

CONSTANTS
    Size,        \* the number of samples in each mode
    MaxTurns,    \* max_rollout_turns
    MaxSeqLen,   \* max_seq_len, the engine's context too
    Prompt,      \* tokens of a prompt
    Generated,   \* lengths a response may have
    Observed,    \* lengths an observation may have
    Evaluations, \* what may be evaluated
    MaxRestarts  \* how often the NeMo-Gym actor is restarted

\* setup() of evals/eval.py: a known metric, and no more drawn than tested.
Configured(e) ==
    /\ e.metric \in {"pass@k", "cons@k"} /\ e.async \in BOOLEAN
    /\ {e.k, e.tests, e.prompts, e.perBatch} \subseteq Nat \ {0} /\ e.tests >= e.k

ASSUME RolloutAssumption ==
    /\ \A m \in {"sync", "async", "gym", "eval"} : Size[m] \in Nat
    /\ 1..Size["async"] \subseteq Calls /\ 1 \in Calls
    /\ MaxTurns \in Nat \ {0} /\ MaxSeqLen \in Nat /\ Prompt \in 1..MaxSeqLen
    /\ Generated \subseteq Nat \ {0} /\ Observed \subseteq Nat
    /\ MaxRestarts \in Nat
    /\ \A e \in Evaluations : Configured(e)

VARIABLES
    mode,    \* sync, async, gym or eval
    sample,  \* the state of each sample
    active,  \* active_indices
    turn,    \* the turns of the batch (sync)
    hist,    \* what each sample's turns were: a history for the properties
    texts,   \* what an evaluation gets: results, or that the call raised
    eval,    \* the evaluation: its settings, the prompts done and the score
    gym      \* the call of the NeMo-Gym actor

rollout == <<sample, active, turn, hist>>
vars == <<ready, call, faults, mode, rollout, texts, eval, gym>>

Batch == 1..Size[mode]

\* Several environments share a batch.
TaskOf(i) == i % 2

\* stops: stop strings of the next turn; rewards: the summands of the total.
NewSample(i) == [len |-> Prompt, stops |-> <<i, 0>>, rewards |-> {}, truncated |-> FALSE,
                 failed |-> FALSE, over |-> FALSE]

\* _should_use_async_rollouts, _should_use_nemo_gym: which rollout a GRPO job takes.
Jobs == [vllm: BOOLEAN, async: BOOLEAN, gym: BOOLEAN, http: BOOLEAN]
Checked(j) == j.gym => j.vllm /\ j.async /\ j.http
RolloutOf(j) == IF j.gym THEN "gym" ELSE IF j.vllm /\ j.async THEN "async" ELSE "sync"

\* done: prompts scored; score: the sum so far; due: what it ought to be;
\* torn: responses that are scored twice were met.
Evaluated(e) ==
    [tests |-> e.tests, k |-> e.k, metric |-> e.metric, prompts |-> e.prompts,
     perBatch |-> e.perBatch, async |-> e.async, done |-> 0, score |-> 0, due |-> 0, torn |-> FALSE]

\* rows, results: in the order they were completed.
NewGym(agents) == [agent |-> agents, rows |-> <<>>, results |-> <<>>, out |-> "running",
                   restarts |-> 0]

Init ==
    /\ mode \in {RolloutOf(j) : j \in {j \in Jobs : Checked(j)}} \cup {"eval"}
    /\ sample = [i \in Batch |-> NewSample(i)]
    /\ active = IF mode = "sync" THEN [i \in Batch |-> i] ELSE <<>>
    /\ turn = 0
    /\ hist = [i \in Batch |-> <<>>]
    /\ texts = <<>>
    /\ IF mode = "eval" THEN eval \in {Evaluated(e) : e \in Evaluations} ELSE eval = <<>>
    /\ IF mode = "gym" THEN gym \in {NewGym(a) : a \in [Batch -> 1..2]} ELSE gym = <<>>
    /\ ready = CASE mode = "async" -> [i \in Batch |-> Caller(i)]
                 [] mode = "eval"  -> <<Caller(1)>>
                 [] OTHER          -> <<>>
    /\ call = [c \in Calls |-> NoCall]
    /\ faults = {}

-----------------------------------------------------------------------------
\* The length of a response of at most g tokens: the engine stays within the
\* context.
Response(s, g) == IF g + s.len > MaxSeqLen THEN MaxSeqLen - s.len ELSE g

\* What an environment may answer; with an empty observation it names no stop
\* strings.
Answers == [obs : Observed, term : BOOLEAN]

Feedback(i, t, a) == [reward |-> <<i, t>>, obs |-> a.obs, term |-> a.term,
                      stops |-> IF a.obs = 0 THEN <<>> ELSE <<i, t>>]

Turn(s, gen, f) == [gen |-> gen, obs |-> f.obs, term |-> f.term, stops |-> f.stops,
                    used |-> s.stops]

Position(seq, i) == CHOOSE p \in DOMAIN seq : seq[p] = i

\* Results that stay in the order of the environments they came from.
BadByPosition(order, returned) == returned

\* calculate_rewards: the positions of a batch grouped by environment, and the
\* environments' results brought back into the batch's order.
GroupedByTask(batch) ==
    LET of(task) == Kept([p \in DOMAIN batch |-> p], {p \in DOMAIN batch : TaskOf(batch[p]) = task})
    IN of(TaskOf(batch[1])) \o of(1 - TaskOf(batch[1]))

ByPosition(order, returned) == [p \in DOMAIN order |-> returned[Position(order, p)]]

CalculateRewards(batch, t, answers) ==
    LET order == GroupedByTask(batch)
    IN ByPosition(order, [n \in DOMAIN order |->
                             Feedback(batch[order[n]], t, answers[order[n]])])

\* The observation is cut where it fills the context.
Full(s, gen, f) == f.obs + gen + s.len >= MaxSeqLen

Extended(s, gen, f) ==
    [s EXCEPT !.len = IF Full(s, gen, f) THEN MaxSeqLen ELSE @ + gen + f.obs,
              !.rewards = @ \cup {f.reward},
              !.truncated = Full(s, gen, f)]

-----------------------------------------------------------------------------
(* run_multi_turn_rollout *)

\* The samples that go on take the environment's stop strings, even none.
SyncAfter(k, fb, goOn) ==
    [i \in Batch |->
        IF i \notin ToSet(active) THEN k[i]
        ELSE IF i \in ToSet(goOn) THEN [k[i] EXCEPT !.stops = fb[Position(active, i)].stops]
                                   ELSE [k[i] EXCEPT !.over = TRUE]]

\* One turn of the samples still active: generate, feedback, drop the done.
SyncTurn ==
    /\ mode = "sync" /\ turn < MaxTurns /\ active # <<>>
    /\ turn' = turn + 1
    /\ \E lengths \in [DOMAIN active -> Generated], answers \in [DOMAIN active -> Answers] :
         LET fb       == CalculateRewards(active, turn + 1, answers)
             pos(i)   == Position(active, i)
             gen(i)   == Response(sample[i], lengths[pos(i)])
             extended == [i \in Batch |->
                IF i \in ToSet(active) THEN Extended(sample[i], gen(i), fb[pos(i)])
                                       ELSE sample[i]]
             goOn     == Kept(active, {i \in ToSet(active) :
                            ~extended[i].truncated /\ ~fb[pos(i)].term})
         IN /\ sample' = SyncAfter(extended, fb, goOn)
            /\ active' = goOn
            /\ hist' = [i \in Batch |->
                 IF i \in ToSet(active)
                 THEN Append(hist[i], Turn(sample[i], gen(i),
                                           Feedback(i, turn + 1, answers[pos(i)])))
                 ELSE hist[i]]
    /\ UNCHANGED <<ready, call, faults, mode, texts, eval, gym>>

\* The turns are used up: what is active stays as it is.
SyncEnd ==
    /\ mode = "sync" /\ turn = MaxTurns /\ active # <<>>
    /\ active' = <<>>
    /\ sample' = [i \in Batch |-> [sample[i] EXCEPT !.over = TRUE]]
    /\ UNCHANGED <<ready, call, faults, mode, turn, hist, texts, eval, gym>>

-----------------------------------------------------------------------------
(* run_sample_multi_turn_rollout: one coroutine a sample, gathered by the    *)
(* loop.  Feedback blocks the loop: a coroutine's turn is one step.          *)

\* A call for one sample; its consumer is a new task of the loop.
Ask(i, rest) ==
    /\ call' = [call EXCEPT ![i] = NewCall({1})]
    /\ ready' = Append(rest, Consumer(i))

Leave(i, rest) ==
    /\ call' = [call EXCEPT ![i] = NoCall]
    /\ ready' = rest

\* Only stop strings the environment names replace the old ones.
AsyncStops(s, f) == IF f.stops # <<>> THEN f.stops ELSE s.stops

\* The first turn of a sample.
RunSample(i) ==
    /\ mode = "async" /\ ready # <<>> /\ Head(ready) = Caller(i) /\ call[i].caller = "off"
    /\ Ask(i, Tail(ready))
    /\ UNCHANGED <<faults, mode, rollout, texts, eval, gym>>

\* The response is there: feedback, and the next turn.
NextTurn(i) ==
    \E g \in Generated, a \in Answers :
       LET s == sample[i]
           gen == Response(s, g)
           f == CalculateRewards(<<i>>, Len(hist[i]) + 1, <<a>>)[1]
           x == Extended(s, gen, f)
           done == x.truncated \/ f.term
       IN /\ hist' = [hist EXCEPT ![i] = Append(@, Turn(s, gen, f))]
          /\ sample' = [sample EXCEPT ![i] =
                [x EXCEPT !.stops = IF done THEN @ ELSE AsyncStops(s, f),
                          !.over = done \/ Len(hist[i]) + 1 = MaxTurns]]
          /\ IF sample'[i].over THEN Leave(i, WithoutTimer(i)) ELSE Ask(i, WithoutTimer(i))

\* A generation that raised ends the sample, which keeps what it has.
GenerationFails(i) ==
    /\ sample' = [sample EXCEPT ![i].failed = TRUE, ![i].over = TRUE]
    /\ Leave(i, WithoutTimer(i))
    /\ UNCHANGED hist

RunCaller(i) ==
    /\ mode = "async" /\ ready # <<>> /\ Head(ready) = Caller(i) /\ call[i].caller # "off"
    /\ LET k == CallerTakes(call[i]) IN
         CASE k.caller = "wait" -> /\ call' = [call EXCEPT ![i] = k]
                                   /\ ready' = WithoutTimer(i)
                                   /\ UNCHANGED <<sample, hist>>
           [] k.caller = "returned" /\ k.got # <<>> -> NextTurn(i)
           [] OTHER -> GenerationFails(i)
    /\ UNCHANGED <<faults, mode, active, turn, texts, eval, gym>>

-----------------------------------------------------------------------------
(* run_async_nemo_gym_rollout: NeMo-Gym has the conversations, of this       *)
(* engine's HTTP server; its results come in any order.                      *)

\* A conversation's messages with generated tokens: whether the prompt begins
\* with the tokens seen so far, what it adds to them, and the response.
Items == [seen: BOOLEAN, new: Observed,
          gen: {g \in 1..MaxSeqLen : \E most \in Generated : g <= most}]
Length(items) == Prompt + Total([t \in DOMAIN items |-> items[t].new + items[t].gen])
Conversations ==
    {items \in UNION {[1..n -> Items] : n \in 0..MaxTurns} :
        /\ items # <<>> => items[1].seen /\ items[1].new = 0
        /\ Length(items) <= MaxSeqLen
        /\ \A t \in DOMAIN items :
             items[t].gen \in Generated \/ Length(SubSeq(items, 1, t)) = MaxSeqLen}

\* As the other rollouts' turns: what one item adds is what was observed
\* after the one before.
TurnsOf(items) ==
    [t \in DOMAIN items |->
        [gen |-> items[t].gen, term |-> t = Len(items), stops |-> <<>>, used |-> <<>>,
         obs |-> IF t = Len(items) THEN 0 ELSE items[t + 1].new]]

\* _postprocess_nemo_gym_to_nemo_rl_result: one message for what is new of the
\* prompt and one for the response; no message at all without a response.
Postprocess(i, items) ==
    [len |-> Length(items), rewards |-> {<<i, t>> : t \in DOMAIN items}, empty |-> items = <<>>]

\* NemoGym.run_rollouts: a result is postprocessed when it is there; messages
\* that do not continue what was seen make the whole call raise.
GymRow(i) ==
    /\ mode = "gym" /\ gym.out = "running" /\ i \notin ToSet(gym.rows)
    /\ \E items \in Conversations :
         IF \E t \in DOMAIN items : ~items[t].seen
         THEN /\ gym' = [gym EXCEPT !.out = "raised"]
              /\ UNCHANGED hist
         ELSE /\ gym' = [gym EXCEPT !.rows = Append(@, i),
                                    !.results = Append(@, Postprocess(i, items))]
              /\ hist' = [hist EXCEPT ![i] = TurnsOf(items)]
    /\ UNCHANGED <<ready, call, faults, mode, sample, active, turn, texts, eval>>

\* The actor dies and Ray restarts it; the call is made again, for all rows.
GymRestart ==
    /\ mode = "gym" /\ gym.out = "running" /\ gym.restarts < MaxRestarts
    /\ gym' = [NewGym(gym.agent) EXCEPT !.restarts = gym.restarts + 1]
    /\ hist' = [i \in Batch |-> <<>>]
    /\ UNCHANGED <<ready, call, faults, mode, sample, active, turn, texts, eval>>

\* A deviation of one value is no number.
Lonely(agent) == \E i \in DOMAIN agent : \A j \in DOMAIN agent \ {i} : agent[j] # agent[i]

\* All rows are there: the results go to their rows' places, and the driver
\* takes the metrics of the batch and of each agent.
GymReturns ==
    /\ mode = "gym" /\ gym.out = "running" /\ Len(gym.rows) = Size[mode]
    /\ LET sorted == ByPosition(gym.rows, gym.results)
       IN IF Lonely(gym.agent) \/ \E i \in Batch : sorted[i].empty
          THEN /\ gym' = [gym EXCEPT !.out = "raised"]
               /\ UNCHANGED sample
          ELSE /\ gym' = [gym EXCEPT !.out = "done"]
               /\ sample' = [i \in Batch |-> [sample[i] EXCEPT
                     !.len = sorted[i].len, !.rewards = sorted[i].rewards, !.over = TRUE,
                     !.truncated = sorted[i].len = MaxSeqLen]]
    /\ UNCHANGED <<ready, call, faults, mode, active, turn, hist, texts, eval>>

-----------------------------------------------------------------------------
(* _run_env_eval_impl: a batch is generated, scored by the environment, and  *)
(* its score added up.                                                       *)

\* The texts of the next batch, the last one perhaps smaller.
Texts == 1..(Min({eval.perBatch, eval.prompts - eval.done}) * eval.tests)
Asking == mode = "eval" /\ texts = <<>> /\ eval.done < eval.prompts

\* _generate_texts with the asynchronous engine: one call for the batch.
AskTexts ==
    /\ Asking /\ eval.async
    /\ ready # <<>> /\ Head(ready) = Caller(1) /\ call[1].caller = "off"
    /\ call' = [call EXCEPT ![1] = NewCall(Texts)]
    /\ ready' = Append(Tail(ready), Consumer(1))
    /\ UNCHANGED <<faults, mode, rollout, texts, eval, gym>>

TakeTexts ==
    /\ mode = "eval" /\ ready # <<>> /\ Head(ready) = Caller(1) /\ call[1].caller # "off"
    /\ LET k == CallerTakes(call[1]) IN
         IF k.caller = "wait"
         THEN /\ call' = [call EXCEPT ![1] = k] /\ ready' = WithoutTimer(1)
              /\ UNCHANGED texts
         ELSE /\ Leave(1, WithoutTimer(1))
              /\ texts' = IF k.caller = "raised" THEN <<"raised">> ELSE <<"ok", InOrder(k)>>
    /\ UNCHANGED <<faults, mode, rollout, eval, gym>>

\* generate_text: the workers' texts, in the order of their shards.
GenerateTexts ==
    /\ Asking /\ ~eval.async
    /\ texts' = <<"ok", [i \in Texts |-> Sample(i)]>>
    /\ UNCHANGED <<ready, call, faults, mode, rollout, eval, gym>>

\* What the metric of a prompt ought to be.
Due(responses) ==
    LET groups == Split(responses, eval.tests)
    IN Total([g \in DOMAIN groups |->
                IF eval.metric = "pass@k" THEN PassAtK(groups[g], eval.tests, eval.k)
                                          ELSE ConsAtK(groups[g], eval.tests, eval.k)])

\* The environment scores the batch; cons@k asserts an answer for each score.
ScoreTexts ==
    /\ mode = "eval" /\ texts # <<>> /\ Head(texts) = "ok"
    /\ \E responses \in [Texts -> Responses] :
       \E step \in {EnvStep([p \in DOMAIN texts[2] |-> responses[texts[2][p].of]])} :
         IF eval.metric = "cons@k" /\ Len(step.answers) # Len(step.rewards)
         THEN texts' = <<"raised">> /\ UNCHANGED <<ready, eval>>
         ELSE /\ texts' = <<>>
              /\ ready' = IF eval.async THEN <<Caller(1)>> ELSE <<>>
              /\ eval' = [eval EXCEPT
                   !.done = @ + Len(texts[2]) \div eval.tests,
                   !.score = @ + IF eval.metric = "pass@k"
                                 THEN EvalPassK(step.rewards, eval.tests, eval.k)
                                 ELSE EvalConsK(step.rewards, step.answers, eval.tests, eval.k),
                   !.due = @ + Due(responses),
                   !.torn = @ \/ \E i \in Texts : responses[i].torn]
    /\ UNCHANGED <<call, faults, mode, rollout, gym>>

-----------------------------------------------------------------------------
Over == CASE mode = "eval" -> texts = <<"raised">> \/ eval.done = eval.prompts
          [] mode = "gym"  -> gym.out # "running"
          [] OTHER         -> \A i \in Batch : sample[i].over

\* The event loop runs the task whose turn it is.
Loop ==
    \/ /\ \E c \in Calls : RunConsumer(c) \/ RunTimer(c)
       /\ UNCHANGED <<mode, rollout, texts, eval, gym>>
    \/ \E i \in Calls : RunSample(i) \/ RunCaller(i)
    \/ AskTexts
    \/ TakeTexts
    \/ GenerateTexts
    \/ ScoreTexts

\* What workers, references and clocks do to it.
Outside ==
    /\ \E c \in Calls :
         \/ \E x \in {Sample(i) : i \in call[c].prompts} \cup {Error} : Emit(c, x)
         \/ EndStream(c)
         \/ Resolve(c)
         \/ Expire(c)
    /\ UNCHANGED <<mode, rollout, texts, eval, gym>>

\* NeMo-Gym's servers and the actor that waits for them.
Gym == (\E i \in Batch : GymRow(i)) \/ GymRestart \/ GymReturns

Ended == Over /\ UNCHANGED vars

Next == SyncTurn \/ SyncEnd \/ Loop \/ Outside \/ Gym \/ Ended

\* The loop runs while tasks are ready and clocks go on; nothing is assumed of
\* the workers.  (The synchronous rollout blocks until the engine answers, and
\* NeMo-Gym's until every row has come.)
Fairness ==
    /\ WF_vars(Loop)
    /\ \A c \in Calls : WF_vars(Expire(c) /\ UNCHANGED <<mode, rollout, texts, eval, gym>>)

Spec == Init /\ [][Next]_vars /\ Fairness

-----------------------------------------------------------------------------
(* Properties *)

TypeOK ==
    /\ mode \in {"sync", "async", "gym", "eval"}
    /\ sample \in [Batch -> [len: 0..MaxSeqLen, stops: Seq(Nat), rewards: SUBSET (Nat \X Nat),
                             truncated: BOOLEAN, failed: BOOLEAN, over: BOOLEAN]]
    /\ active \in Seq(Batch) /\ turn \in 0..MaxTurns
    /\ faults \subseteq Calls
    /\ call \in [Calls -> [prompts: SUBSET Nat, stream: Seq([type: STRING, of: Nat]),
                           queue: Seq([type: STRING, of: Nat]),
                           got: Seq([type: STRING, of: Nat]), finished: BOOLEAN,
                           consumer: {"off", "next", "ref", "done"},
                           caller: {"off", "wait", "woken", "cancelled"}]]

\* No result a worker has yielded is left in the queue when the flag is set:
\* an evaluation gets every text, each at its prompt's place, or raises; a
\* rollout, or a sample of one, fails only for an error or a timeout of its
\* own call (vllm_generation.py:604, which stops at `finished` with whatever
\* the queue still holds).
NoResultLost ==
    /\ texts # <<>> /\ Head(texts) = "ok" => texts[2] = [i \in Texts |-> Sample(i)]
    /\ texts = <<"raised">> => 1 \in faults \/ eval.metric = "cons@k"
    /\ \A i \in Batch : sample[i].failed => i \in faults

Tokens(h) == Prompt + Total([t \in DOMAIN h |-> h[t].gen + h[t].obs])

\* All rollouts give a sample the same outcome for the same turns, whatever
\* becomes of the others: its own rewards, each once; its tokens cut at the
\* context and only then marked truncated; and it stops at the first turn that
\* ends it, never earlier but for a generation that failed.  A turn has the
\* stop strings its environment asked for after the turn before
\* (EnvironmentReturn.next_stop_strings); a None takes the old ones away in the
\* synchronous rollout and keeps them in the asynchronous one.
OutcomeOfItsTurns ==
    \A i \in {i \in Batch : mode = "gym" => sample[i].over} :
        LET s == sample[i]
            h == hist[i]
        IN /\ s.rewards = {<<i, t>> : t \in DOMAIN h}
           /\ s.len = IF Tokens(h) > MaxSeqLen THEN MaxSeqLen ELSE Tokens(h)
           /\ s.truncated <=> h # <<>> /\ Tokens(h) >= MaxSeqLen
           /\ \A t \in 1..(Len(h) - 1) :
                ~h[t].term /\ Tokens(SubSeq(h, 1, t)) < MaxSeqLen
           /\ s.over => s.failed \/ Len(h) = MaxTurns \/ s.truncated \/ Last(h).term
           /\ \A t \in 2..Len(h) :
                h[t].used = IF h[t - 1].stops = <<>> /\ mode = "async" THEN h[t - 1].used
                            ELSE h[t - 1].stops

\* The score of an evaluation is the sum over its prompts of the pass@k or
\* cons@k of that prompt's own responses, however the batches, the streamed
\* texts and the environment's chunks cut across them; unless a response was
\* scored twice (math_environment.py:115 and 135), which moves every score
\* behind it.
ScoreOfEveryPrompt == mode = "eval" /\ ~eval.torn => eval.score = eval.due

\* A worker that never answers does not hold up a rollout or an evaluation.
RolloutsEnd == mode \in {"async", "eval"} => <>Over
=============================================================================
