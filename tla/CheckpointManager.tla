------------------------- MODULE CheckpointManager -------------------------
(***************************************************************************)
(* CheckpointManager (nemo_rl/utils/checkpoint.py) as a training driver     *)
(* uses it: a checkpoint is written to tmp_step_N, renamed to step_N, and   *)
(* checkpoints outside the best KeepTopK are removed.  Every call to the    *)
(* file system is a step of its own, the process may die between any two of *)
(* them, and a new process resumes from the latest step_N.                  *)
(*                                                                         *)
(* A file's content is the number of the save that wrote it.                *)
(***************************************************************************)
EXTENDS Integers, Sequences, FiniteSets

CONSTANTS
    MaxStep,        \* bound: steps a checkpoint may be saved for
    Scores,         \* values of the metric
    KeepTopK,       \* keep_top_k; None is any number above MaxStep
    Callers,        \* who saves: "driver" a training loop, which saves later
                    \* and later steps, "other" any step, again if it likes
    MaxSaves,       \* bound: checkpoints begun
    MaxCrashes      \* bound: times the process dies

ASSUME CheckpointConfig ==
    /\ MaxStep \in Nat \ {0}
    /\ Scores \subseteq Nat
    /\ KeepTopK \in Nat \ {0}
    /\ Callers \subseteq {"driver", "other"}
    /\ MaxSaves \in Nat
    /\ MaxCrashes \in Nat

Steps == 1..MaxStep
NoScore == -1
Dirs == {"tmp_step", "step", "old_step"} \X Steps

\* Files in the order they are written; policy stands for the weights, the
\* optimizer and the tokenizer.
WriteOrder == <<"training_info", "policy", "train_dataloader">>
Files == {WriteOrder[i] : i \in DOMAIN WriteOrder}
Missing == 0

VARIABLES
    disk,           \* for each directory there is, which save wrote each file
    scores,         \* the metric of each save begun so far, or NoScore
    metric,         \* metric_name and higher_is_better: "none", "higher", "lower"
    caller,         \* who saves in this behaviour
    pc,             \* where the process is
    current,        \* the step the run has reached
    written,        \* files of the checkpoint under way written so far
    doomed,         \* directories rmtree still has to remove
    crashes

config == <<metric, caller>>
locals == <<current, written, doomed>>
vars == <<disk, scores, config, pc, locals, crashes>>

Tmp == <<"tmp_step", current>>
Target == <<"step", current>>
Old == <<"old_step", current>>

Present(d) == d \in DOMAIN disk

\* The files there are under a directory.
Contents(d) == IF Present(d) THEN {f \in Files : disk[d][f] # Missing} ELSE {}

\* All files are there, and of one save.
Whole(d) == Contents(d) = Files /\ \A f, g \in Files : disk[d][f] = disk[d][g]

Rename(from, to) ==
    disk' = [d \in (DOMAIN disk \ {from}) \cup {to} |->
                IF d = to THEN disk[from] ELSE disk[d]]

Init ==
    /\ disk = [d \in {} |-> <<>>]
    /\ scores = <<>>
    /\ metric \in {"none", "higher", "lower"}
    /\ caller \in Callers
    /\ pc = "training"
    /\ current = 0
    /\ written = 0
    /\ doomed = <<>>
    /\ crashes = 0

-----------------------------------------------------------------------------
(* Reading the directory                                                    *)

\* glob("step_*"), re.fullmatch(r"step_\d+")
StepDirs == {s \in Steps : Present(<<"step", s>>)}

\* get_latest_checkpoint_path; 0 stands for None.
LatestStep ==
    IF StepDirs = {} THEN 0 ELSE CHOOSE s \in StepDirs : \A t \in StepDirs : t <= s

\* _load_checkpoint_history: directories without training_info.json are passed over.
History == {s \in StepDirs : disk[<<"step", s>>]["training_info"] # Missing}

Score(s) == scores[disk[<<"step", s>>]["training_info"]]

BadRanksBefore(s, t) == \* fault: of equal checkpoints the older comes first
    CASE metric = "none"   -> s > t
      [] metric = "higher" -> Score(s) > Score(t) \/ (Score(s) = Score(t) /\ s > t)
      [] metric = "lower"  ->
            \/ Score(t) = NoScore /\ Score(s) # NoScore
            \/ Score(s) # NoScore /\ Score(s) < Score(t)
            \/ Score(s) = Score(t) /\ s < t

\* The three sorts of remove_old_checkpoints: the step, newest first; the pair
\* of metric (-inf if there is none) and step, reversed; the pair of metric
\* (inf if there is none) and -step.
RanksBefore(s, t) ==
    CASE metric = "none"   -> s > t
      [] metric = "higher" -> Score(s) > Score(t) \/ (Score(s) = Score(t) /\ s > t)
      [] metric = "lower"  ->
            \/ Score(t) = NoScore /\ Score(s) # NoScore
            \/ Score(s) # NoScore /\ Score(s) < Score(t)
            \/ Score(s) = Score(t) /\ s > t

Rank(s) == Cardinality({t \in History : RanksBefore(t, s)})

BadSurplus ==           \* fault: the latest is not excluded
    {s \in History : Rank(s) >= KeepTopK}

\* checkpoint_history[keep_top_k:] without the latest
Surplus == {s \in History : Rank(s) >= KeepTopK /\ \E t \in History : t > s}

\* The directories of the surplus checkpoints, in the order of the history.
SurplusDirs ==
    CHOOSE q \in [1..Cardinality(Surplus) -> {<<"step", s>> : s \in Surplus}] :
        \A i, j \in DOMAIN q : i < j => RanksBefore(q[i][2], q[j][2])

-----------------------------------------------------------------------------
(* Saving                                                                   *)

\* init_tmp_checkpoint, mkdir(exist_ok=True): what an earlier attempt left in
\* the directory stays there.
InitTmpCheckpoint(s, score) ==
    /\ pc = "training"
    /\ s > current \/ caller = "other"
    /\ Len(scores) < MaxSaves
    /\ scores' = Append(scores, score)
    /\ disk' = [d \in DOMAIN disk \cup {<<"tmp_step", s>>} |->
                   IF d \in DOMAIN disk THEN disk[d]
                   ELSE [f \in Files |-> Missing]]
    /\ current' = s
    /\ written' = 0
    /\ pc' = "writing"
    /\ UNCHANGED <<config, doomed, crashes>>

BadWriteFile ==         \* fault: finalized before the last file is written
    /\ pc = "writing"
    /\ disk' = [disk EXCEPT ![Tmp][WriteOrder[written + 1]] = Len(scores)]
    /\ written' = written + 1
    /\ pc' = IF written + 2 = Len(WriteOrder) THEN "finalize" ELSE "writing"
    /\ UNCHANGED <<scores, config, current, doomed, crashes>>

\* training_info.json, then policy.save_checkpoint, then the dataloader
WriteFile ==
    /\ pc = "writing"
    /\ disk' = [disk EXCEPT ![Tmp][WriteOrder[written + 1]] = Len(scores)]
    /\ written' = written + 1
    /\ pc' = IF written + 1 = Len(WriteOrder) THEN "finalize" ELSE "writing"
    /\ UNCHANGED <<scores, config, current, doomed, crashes>>

\* finalize_checkpoint, the target is not there
Publish ==
    /\ pc = "finalize"
    /\ ~Present(Target)
    /\ Rename(Tmp, Target)
    /\ pc' = "remove_old"
    /\ UNCHANGED <<scores, config, locals, crashes>>

BadSetAside ==          \* fault: removed before the new one is in place
    /\ pc = "finalize"
    /\ Present(Target)
    /\ Contents(Old) = {}
    /\ Rename(Target, Old)
    /\ doomed' = <<Old>>
    /\ pc' = "discard"
    /\ UNCHANGED <<scores, config, current, written, crashes>>

\* The target is there: step_N is renamed to old_step_N first. os.rename
\* fails on a directory that is not empty.
SetAside ==
    /\ pc = "finalize"
    /\ Present(Target)
    /\ Contents(Old) = {}
    /\ Rename(Target, Old)
    /\ pc' = "replace"
    /\ UNCHANGED <<scores, config, locals, crashes>>

SetAsideFails ==
    /\ pc = "finalize"
    /\ Present(Target)
    /\ Contents(Old) # {}
    /\ pc' = "raised"
    /\ UNCHANGED <<disk, scores, config, locals, crashes>>

Replace ==
    /\ pc = "replace"
    /\ Rename(Tmp, Target)
    /\ doomed' = <<Old>>
    /\ pc' = "discard"
    /\ UNCHANGED <<scores, config, current, written, crashes>>

\* remove_old_checkpoints reads the history once.
RemoveOldCheckpoints ==
    /\ pc = "remove_old"
    /\ doomed' = SurplusDirs
    /\ pc' = "pruning"
    /\ UNCHANGED <<disk, scores, config, current, written, crashes>>

\* shutil.rmtree: the files of a directory in any order, then the directory
DeleteFile(f) ==
    /\ pc \in {"discard", "pruning"}
    /\ doomed # <<>>
    /\ f \in Contents(Head(doomed))
    /\ disk' = [disk EXCEPT ![Head(doomed)][f] = Missing]
    /\ UNCHANGED <<scores, config, pc, locals, crashes>>

DeleteDir ==
    /\ pc \in {"discard", "pruning"}
    /\ doomed # <<>>
    /\ Contents(Head(doomed)) = {}
    /\ disk' = [d \in DOMAIN disk \ {Head(doomed)} |-> disk[d]]
    /\ doomed' = Tail(doomed)
    /\ UNCHANGED <<scores, config, pc, current, written, crashes>>

Removed ==
    /\ pc \in {"discard", "pruning"}
    /\ doomed = <<>>
    /\ pc' = IF pc = "discard" THEN "remove_old" ELSE "training"
    /\ UNCHANGED <<disk, scores, config, locals, crashes>>

-----------------------------------------------------------------------------
(* The process dies and another resumes                                     *)

Crash ==
    /\ pc \notin {"down", "raised"}
    /\ crashes < MaxCrashes
    /\ crashes' = crashes + 1
    /\ pc' = "down"
    /\ doomed' = <<>>
    /\ written' = 0
    /\ UNCHANGED <<disk, scores, config, current>>

\* setup: get_latest_checkpoint_path and load_training_info, which raises if
\* the directory has no training_info.json
Resume ==
    /\ pc = "down"
    /\ LatestStep # 0 => LatestStep \in History
    /\ current' = LatestStep
    /\ pc' = "training"
    /\ UNCHANGED <<disk, scores, config, written, doomed, crashes>>

Next ==
    \/ \E s \in Steps, score \in Scores \cup {NoScore} : InitTmpCheckpoint(s, score)
    \/ WriteFile
    \/ Publish
    \/ SetAside
    \/ SetAsideFails
    \/ Replace
    \/ RemoveOldCheckpoints
    \/ \E f \in Files : DeleteFile(f)
    \/ DeleteDir
    \/ Removed
    \/ Crash
    \/ Resume

Spec == Init /\ [][Next]_vars

-----------------------------------------------------------------------------
(* Properties                                                               *)

\* Whenever a driver's process dies, the directory the next one resumes from is
\* whole, and written by one save: neither the files an unfinished attempt left
\* in tmp_step_N nor a removal cut short show up in it.
ResumesFromWholeCheckpoint ==
    caller = "driver" /\ LatestStep # 0 => Whole(<<"step", LatestStep>>)

\* The whole checkpoints of a driver, as the store knows them.
Published ==
    IF caller = "driver"
    THEN {[step |-> s, score |-> Score(s)] : s \in {t \in Steps : Whole(<<"step", t>>)}}
    ELSE {}

Store == INSTANCE CheckpointStore WITH store <- Published

\* A driver's checkpoints, with crashes anywhere, appear whole, the latest is
\* never given up, and any other only when KeepTopK better ones are there.
ImplementsStore == Store!Spec

\* The 'pseudo-atomic' replacement: a checkpoint set aside is whole until the
\* one that replaces it is in place, whole.
OldKeptUntilReplaced ==
    [][\A s \in Steps :
          Whole(<<"old_step", s>>) /\ ~Whole(<<"old_step", s>>)' =>
              Whole(<<"step", s>>)']_vars

\* Claimed: "If a checkpoint at the target location already exists (i.e when
\* resuming training), we override the old one."
OverrideSucceeds == pc # "raised"

=============================================================================
