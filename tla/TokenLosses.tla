---------------------------- MODULE TokenLosses ----------------------------
(***************************************************************************)
(* The losses (nemo_rl/algorithms/loss_functions.py).                      *)
(*                                                                         *)
(* A row of a microbatch is a record of what the batch holds for a sample  *)
(* (input_ids, token_mask, ...) and of what was computed from its logits:  *)
(* curr_logprobs and weights, one per position but the last, and student,  *)
(* the log probabilities of the teacher's tokens at every position.        *)
(*                                                                         *)
(* A loss is the sequence of the terms it adds up.  A term says what it    *)
(* reads, what it divides by (over) and how its gradient reaches the       *)
(* parameters (weights).  norms is [seqs, toks]: the valid sequences and   *)
(* tokens of the global batch, on all ranks.                               *)
(***************************************************************************)
EXTENDS MessageLogs

\* Everything is shifted by one: position p predicts token p + 1.
Shifted(s) == Tail(s)
Positions(row) == [p \in 1 .. Len(row.input_ids) - 1 |-> p]
InTokenMask(row) == SelectSeq(Positions(row), LAMBDA p : Shifted(row.token_mask)[p] = 1)
InMask(row) == IF row.sample_mask = 1 THEN InTokenMask(row) ELSE <<>>

\* masked_mean with a global normalisation factor: a term per value the mask lets through.
RowTerms(row, term(_)) == [k \in DOMAIN InMask(row) |-> term(InMask(row)[k])]
Summed(rows, terms(_)) == FlattenSeq([i \in DOMAIN rows |-> terms(rows[i])])

-----------------------------------------------------------------------------
\* ClippedPGLossFn.  level: "token" or "sequence", or "gspo": sequence level with importance
\* ratios of whole sequences.
Ratio(row, p, level) ==
    LET over == IF level = "gspo" THEN ToSet(InTokenMask(row)) ELSE {p}
    IN  [curr |-> UNION {row.curr_logprobs[q] : q \in over},
         prev |-> UNION {Shifted(row.prev_logprobs)[q] : q \in over}]
Pulls(row, p, level) == UNION {row.weights[q] : q \in IF level = "gspo" THEN ToSet(InTokenMask(row)) ELSE {p}}
ImportanceWeight(row, p, level) ==
    LET over == IF level = "gspo" THEN ToSet(InMask(row)) ELSE {p}
    IN  [actor |-> UNION {Shifted(row.prev_logprobs)[q] : q \in over},
         behaviour |-> UNION {Shifted(row.generation_logprobs)[q] : q \in over}]
Normalizer(row, level, norms) == IF level = "token" THEN norms.toks ELSE Len(InTokenMask(row)) * norms.seqs
ClippedPgTerm(row, p, level, norms) ==
    [ratio |-> Ratio(row, p, level), importance |-> ImportanceWeight(row, p, level),
     reference |-> Shifted(row.reference_policy_logprobs)[p],
     advantage |-> Shifted(row.advantages)[p],
     over |-> Normalizer(row, level, norms), weights |-> Pulls(row, p, level)]
ClippedPg(rows, level, norms) ==
    Summed(rows, LAMBDA row : RowTerms(row, LAMBDA p : ClippedPgTerm(row, p, level, norms)))

\* NLLLoss.
NllTerm(row, p, over) == [likelihood |-> row.curr_logprobs[p], over |-> over, weights |-> row.weights[p]]
Nll(rows, norms) == Summed(rows, LAMBDA row : RowTerms(row, LAMBDA p : NllTerm(row, p, norms.toks)))

\* PreferenceLoss: rows come in pairs, a chosen one and a rejected one; the sample masks are
\* those of the chosen ones.
Pairs(rows) == [k \in 1 .. Len(rows) \div 2 |-> <<rows[2 * k - 1], rows[2 * k]>>]
ValidPairs(rows) == SelectSeq(Pairs(rows), LAMBDA pair : pair[1].sample_mask = 1)
Pulled(row) == IF "token_mask" \in DOMAIN row THEN UNION {row.weights[p] : p \in ToSet(InTokenMask(row))} ELSE {}
PairTerm(pair, reward(_), norms) ==
    [chosen |-> reward(pair[1]), rejected |-> reward(pair[2]), over |-> norms.seqs \div 2,
     weights |-> Pulled(pair[1]) \cup Pulled(pair[2])]
PreferenceTerms(rows, reward(_), norms) ==
    [k \in DOMAIN ValidPairs(rows) |-> PairTerm(ValidPairs(rows)[k], reward, norms)]
Preference(rows, norms) == PreferenceTerms(rows, LAMBDA row : row.reward, norms)

\* DPOLossFn: the reward of a row is the sum of differences to the reference policy, whose log
\* probabilities are aligned with the next tokens already; the SFT loss is that of the chosen.
DpoReward(row) ==
    {<<row.curr_logprobs[p], row.reference_policy_logprobs[p]>> : p \in ToSet(InTokenMask(row))}
SftOfChosen(pair, norms) == RowTerms(pair[1], LAMBDA p : NllTerm(pair[1], p, norms.seqs \div 2))
Dpo(rows, norms) ==
    PreferenceTerms(rows, DpoReward, norms)
    \o FlattenSeq([k \in DOMAIN ValidPairs(rows) |-> SftOfChosen(ValidPairs(rows)[k], norms)])

\* DistillationLossFn: at every position the teacher's best tokens and what the student gives
\* them.
DistillTerm(row, p, norms) ==
    [student |-> row.student[p], teacher |-> row.teacher_topk_logits[p],
     over |-> norms.toks, weights |-> row.weights[p]]
Distillation(rows, norms) ==
    Summed(rows, LAMBDA row : RowTerms(row, LAMBDA p : DistillTerm(row, p, norms)))

\* A loss function applied to a microbatch; SequencePackingLossWrapper applies it to one row
\* after the other and adds up.
LossFn(loss, rows, norms) ==
    CASE loss \in {"token", "sequence", "gspo"} -> ClippedPg(rows, loss, norms)
      [] loss = "sft" -> Nll(rows, norms)
      [] loss = "rm" -> Preference(rows, norms)
      [] loss = "dpo" -> Dpo(rows, norms)
      [] OTHER -> Distillation(rows, norms)
PackedLoss(loss, rows, norms) == Summed(rows, LAMBDA row : LossFn(loss, <<row>>, norms))

\* The valid sequences and tokens of rows; without a token mask every token counts.
ValidSeqs(rows) == Sum([i \in DOMAIN rows |-> rows[i].sample_mask])
ValidToks(rows) ==
    Sum([i \in DOMAIN rows |-> IF "token_mask" \in DOMAIN rows[i] THEN Len(InMask(rows[i]))
                               ELSE rows[i].sample_mask * Len(rows[i].input_ids)])
=============================================================================
