---------------------------- MODULE MessageLogs ----------------------------
(***************************************************************************)
(* Conversations and the rows of tokens made of them: data processors      *)
(* (nemo_rl/data/processors.py), chat templates, message logs and their    *)
(* flat form (nemo_rl/data/llm_message_utils.py), collating                *)
(* (nemo_rl/data/collate_fn.py).                                           *)
(*                                                                         *)
(* A message is a record with its role and, per token, token_ids and       *)
(* whatever else was added to it; a message log is a sequence of messages. *)
(***************************************************************************)
EXTENDS SequencePacks, TLC

PadToken == 0
BosToken == 1
EosToken == 2
HeaderToken == 3

\* Numbers of another model than the policy: the context starts with its mark.
EngineMark == 97
ReferenceMark == 98
TeacherMark == 99
Roles == {"system", "user", "assistant", "environment"}

Message(role, tokens) == [role |-> role, token_ids |-> tokens]
TensorKeys(message) == DOMAIN message \ {"role"}
LengthOf(log) == Sum([m \in DOMAIN log |-> Len(log[m].token_ids)])
Same(x, tokens) == [k \in DOMAIN tokens |-> x]

-----------------------------------------------------------------------------
\* Data processors: a datum is [log, length, loss_multiplier].  One whose prompt is too long
\* is cut short and takes no part in the loss; its length is still that of the whole prompt.
Datum(log, length, multiplier) == [log |-> log, length |-> length, loss_multiplier |-> multiplier]
CutTo(log, limit) == [m \in DOMAIN log |-> [log[m] EXCEPT !.token_ids = Upto(@, limit)]]
CutIfTooLong(log, most, limit) ==
    IF LengthOf(log) > most THEN Datum(CutTo(log, limit), LengthOf(log), 0)
    ELSE Datum(log, LengthOf(log), 1)

MathProcessor(log, most) == CutIfTooLong(log, most, Min({4, most \div Len(log)}))
MathHfProcessor(log, most) == CutIfTooLong(<<Last(log)>>, most, Min({4, most}))
MultichoiceProcessor(log) == Datum(log, LengthOf(log), 1)

\* The conversation with the preferred answer: all tokens go to the first message.
HelpsteerProcessor(log, most) ==
    LET tokens(m) == IF m = 1 THEN FlattenSeq([n \in DOMAIN log |-> log[n].token_ids]) ELSE <<>>
    IN  CutIfTooLong([m \in DOMAIN log |-> Message(log[m].role, tokens(m))], most, most \div Len(log))

-----------------------------------------------------------------------------
\* Chat templates: passthrough, with role headers, and one that closes the conversation
\* with an end token (external).  prompt: end with the header of an answer.
WithHeaders(log, prompt) ==
    LET turn(m) == (IF m = 1 THEN <<BosToken>> ELSE <<>>) \o <<HeaderToken>> \o log[m].token_ids \o <<EosToken>>
    IN  FlattenSeq([m \in DOMAIN log |-> turn(m)]) \o (IF prompt THEN <<HeaderToken>> ELSE <<>>)
Passthrough(log) == FlattenSeq([m \in DOMAIN log |-> log[m].token_ids])
Templated(log, template, prompt) ==
    CASE template = "headers" -> WithHeaders(log, prompt)
      [] template = "closing" -> Passthrough(log) \o <<EosToken>>
      [] OTHER -> Passthrough(log)

\* get_formatted_message_log: the tokens of a message are those of the conversation up to it
\* from the first that differs from the conversation before it.
FirstThatDiffers(s, t) == Len(LongestCommonPrefix({s, t}))
Added(before, after) == SubSeq(after, FirstThatDiffers(before, after) + 1, Len(after))
WithBos(tokens, bos) == IF bos /\ ~(tokens # <<>> /\ Head(tokens) = BosToken) THEN <<BosToken>> \o tokens ELSE tokens
WithEos(tokens, eos) == IF eos /\ ~(tokens # <<>> /\ Last(tokens) = EosToken) THEN Append(tokens, EosToken) ELSE tokens
Formatted(log, template, prompts, bos, eos) ==
    LET upTo(m) == IF m = 0 THEN <<>>
                   ELSE Templated(SubSeq(log, 1, m), template, prompts /\ log[m].role \in {"user", "tool"})
    IN  [m \in DOMAIN log |->
            Message(log[m].role,
                    WithEos(WithBos(Added(upTo(m - 1), upTo(m)), bos /\ m = 1), eos /\ m = Len(log)))]

-----------------------------------------------------------------------------
\* What the drivers add to every message of a log.
MaskedByRole(log) ==
    [m \in DOMAIN log |->
        log[m] @@ [token_loss_mask |-> Same(IF log[m].role = "assistant" THEN 1 ELSE 0, log[m].token_ids)]]
MaskedButLast(log) ==
    [m \in DOMAIN log |->
        log[m] @@ [token_loss_mask |-> Same(IF m = Len(log) THEN 1 ELSE 0, log[m].token_ids)]]
WithGenerationLogprobs(log) == [m \in DOMAIN log |-> log[m] @@ [generation_logprobs |-> Same({}, log[m].token_ids)]]
WithAdvantages(log, advantage) == [m \in DOMAIN log |-> log[m] @@ [advantages |-> Same(advantage, log[m].token_ids)]]

\* A turn of a rollout: what was generated after the flat log, with its log probabilities.
GenerateResponse(log, tokens) ==
    LET before == Passthrough(log)
        logprob(k) == {<<<<EngineMark>> \o before \o SubSeq(tokens, 1, k - 1), tokens[k]>>}
    IN  Append(log, Message("assistant", tokens) @@
                    [generation_logprobs |-> [k \in DOMAIN tokens |-> logprob(k)]])

-----------------------------------------------------------------------------
\* message_log_to_flat_messages: the messages that have a key, joined.
FlatMessages(log) ==
    [key \in UNION {TensorKeys(log[m]) : m \in DOMAIN log} |->
        FlattenSeq([m \in DOMAIN log |-> IF key \in DOMAIN log[m] THEN log[m][key] ELSE <<>>])]

\* batched_message_log_to_flat_message: rows of the width of the longest, rounded up.
Nothing(key) == IF key = "generation_logprobs" THEN {} ELSE 0
FlatLength(flat) == Max({Len(flat[key]) : key \in DOMAIN flat})
FlatBatch(logs, multiple) ==
    LET flat == [i \in DOMAIN logs |-> FlatMessages(logs[i])]
        keys == UNION {DOMAIN flat[i] : i \in DOMAIN flat}
        width == RoundUpToMultiple(Max({FlatLength(flat[i]) : i \in DOMAIN flat}), multiple)
        values(i, key) == IF key \in DOMAIN flat[i] THEN flat[i][key] ELSE <<>>
    IN  [rows |-> [key \in keys |-> [i \in DOMAIN logs |-> RightPadded(values(i, key), width, Nothing(key))]],
         lens |-> [i \in DOMAIN logs |-> FlatLength(flat[i])],
         width |-> width]

\* Collating.  Preferences: the chosen and the rejected answer of a datum are rows in turn.
Logs(data) == [i \in DOMAIN data |-> data[i].log]
SampleMask(data) == [i \in DOMAIN data |-> data[i].loss_multiplier]
RlCollate(data) ==
    [message_log |-> Logs(data), length |-> [i \in DOMAIN data |-> data[i].length],
     loss_multiplier |-> SampleMask(data)]
CollateRows(data, multiple, masked) ==
    [flat |-> FlatBatch(IF masked THEN [i \in DOMAIN data |-> MaskedButLast(data[i].log)] ELSE Logs(data),
                        multiple),
     sample_mask |-> SampleMask(data)]
PreferenceCollate(pairs, multiple, masked) == CollateRows(FlattenSeq(pairs), multiple, masked)
=============================================================================
