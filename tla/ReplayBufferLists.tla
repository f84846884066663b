-------------------------- MODULE ReplayBufferLists --------------------------
(***************************************************************************)
(* The ReplayBuffer actor at the level of its three parallel lists, called  *)
(* in any order with any versions: an environment that is wider than the    *)
(* collector and the trainer, which module AsyncGrpo composes with it.      *)
(***************************************************************************)
EXTENDS Integers, Sequences, FiniteSets

CONSTANTS
    Trajectories,   \* prompt groups; each is pushed at most once
    MaxSize,        \* max_size
    MaxVersion,     \* bound: weight versions are 0..MaxVersion
    NumGroups,      \* num_prompt_groups of every sample call
    MaxAge          \* max_age_steps of every sample call

ASSUME SizeAssumption == {MaxSize, MaxVersion, NumGroups, MaxAge} \subseteq Nat

VARIABLES
    trajectories, trajectory_versions, target_weight_versions,
    lastTarget, sampled,
    pushed          \* groups handed to the actor so far

vars == <<trajectories, trajectory_versions, target_weight_versions,
          lastTarget, sampled, pushed>>

Versions == 0..MaxVersion

Init ==
    /\ trajectories = <<>>
    /\ trajectory_versions = <<>>
    /\ target_weight_versions = <<>>
    /\ lastTarget = -1
    /\ sampled = <<>>
    /\ pushed = {}

PushWithWaitSignal(t, version, target) ==
    /\ t \notin pushed
    /\ Len(trajectories) < MaxSize
    /\ trajectories' = Append(trajectories, t)
    /\ trajectory_versions' = Append(trajectory_versions, version)
    /\ target_weight_versions' = Append(target_weight_versions, target)
    /\ lastTarget' = IF target > lastTarget THEN target ELSE lastTarget
    /\ pushed' = pushed \cup {t}
    /\ UNCHANGED sampled

MinValidVersion(current) == IF current >= MaxAge THEN current - MaxAge ELSE 0

\* The members of a list that are in a set, in the order of the list: what a
\* comprehension with a test returns.
Kept(list, set) ==
    LET upto[k \in 0..Len(list)] ==
            IF k = 0 THEN <<>>
            ELSE IF list[k] \in set THEN Append(upto[k - 1], list[k]) ELSE upto[k - 1]
    IN  upto[Len(list)]

ValidIndices(current) ==
    Kept([i \in DOMAIN trajectory_versions |-> i],
         {i \in DOMAIN trajectory_versions :
             trajectory_versions[i] \in MinValidVersion(current)..current})

IntendedIndices(current) ==
    Kept(ValidIndices(current),
         {i \in DOMAIN target_weight_versions : target_weight_versions[i] = current})

RemoveAt(list, i) == SubSeq(list, 1, i - 1) \o SubSeq(list, i + 1, Len(list))

BadPopAll(list, selected) ==    \* fault: indices shift while popping upwards
    LET left[k \in 0..Len(selected)] ==
            IF k = 0 THEN list
            ELSE IF selected[k] \in DOMAIN left[k - 1] THEN RemoveAt(left[k - 1], selected[k])
            ELSE left[k - 1]
    IN  left[Len(selected)]

\* pop every selected index, the highest first
PopAll(list, selected) ==
    LET left[k \in 0..Len(selected)] ==
            IF k = 0 THEN list
            ELSE RemoveAt(left[k - 1], selected[Len(selected) - k + 1])
    IN  left[Len(selected)]

Record(i) ==
    [trajectory |-> trajectories[i],
     version    |-> trajectory_versions[i],
     target     |-> target_weight_versions[i]]

SampleCall(current) ==
    LET valid    == ValidIndices(current)
        intended == IntendedIndices(current)
        selected == SubSeq(intended, 1, NumGroups)
    IN  /\ trajectories # <<>>
        /\ \A i \in DOMAIN trajectory_versions :
              trajectory_versions[i] >= MinValidVersion(current)
        /\ valid # <<>>
        /\ Len(valid) >= NumGroups
        /\ Len(intended) >= NumGroups
        /\ sampled' = [i \in DOMAIN selected |-> Record(selected[i])]
        /\ trajectories' = PopAll(trajectories, selected)
        /\ trajectory_versions' = PopAll(trajectory_versions, selected)
        /\ target_weight_versions' = PopAll(target_weight_versions, selected)
        /\ UNCHANGED <<lastTarget, pushed>>

Clear ==
    /\ trajectories' = <<>>
    /\ trajectory_versions' = <<>>
    /\ target_weight_versions' = <<>>
    /\ UNCHANGED <<lastTarget, sampled, pushed>>

Next ==
    \/ \E t \in Trajectories, version, target \in Versions :
          PushWithWaitSignal(t, version, target)
    \/ \E current \in Versions : SampleCall(current)
    \/ Clear

Spec == Init /\ [][Next]_vars

-----------------------------------------------------------------------------
(* The lists implement the sequence of records of module ReplayBuffer.      *)

Zipped == [i \in DOMAIN trajectories |-> Record(i)]

Buffer == INSTANCE ReplayBuffer WITH entries <- Zipped

Entries == [trajectory : Trajectories, version : Versions, target : Versions]

BufferNext ==
    \/ \E e \in Entries : Buffer!Push(e)
    \/ \E current \in Versions : Buffer!Sample(NumGroups, current, MaxAge)
    \/ Buffer!Clear

\* The three lists stay aligned: every call does to them what the call does
\* to a single list of (group, version, target) records, so no group is ever
\* trained under the version or the target of another one.
ImplementsBuffer == Buffer!Init /\ [][BufferNext]_(Buffer!bufferVars)

=============================================================================
