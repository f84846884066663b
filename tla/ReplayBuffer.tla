---------------------------- MODULE ReplayBuffer ----------------------------
(***************************************************************************)
(* The ReplayBuffer actor of asynchronous GRPO                              *)
(* (nemo_rl/algorithms/async_utils.py): prompt groups waiting to be trained *)
(* on, in arrival order.  Every method of the actor runs under its lock, so *)
(* every method is one action.                                              *)
(*                                                                         *)
(* The three parallel Python lists are one sequence of records here;        *)
(* module ReplayBufferLists keeps the three lists and is checked to         *)
(* implement this module.                                                   *)
(***************************************************************************)
EXTENDS Integers, Sequences, FiniteSets

CONSTANTS
    Trajectories,   \* prompt groups the actor may be handed
    MaxSize         \* max_size

VARIABLES
    entries,        \* groups in the buffer, oldest first
    lastTarget,     \* last_target_weight_already_generated
    sampled         \* what the last successful sample returned

bufferVars == <<entries, lastTarget, sampled>>

Entry == [trajectory : Trajectories, version : Nat, target : Nat]

TypeOK ==
    /\ entries \in Seq(Entry)
    /\ lastTarget \in Nat \cup {-1}
    /\ sampled \in Seq(Entry)

Init ==
    /\ entries = <<>>
    /\ lastTarget = -1
    /\ sampled = <<>>

-----------------------------------------------------------------------------
(* push_with_wait_signal                                                    *)

Full == Len(entries) >= MaxSize

\* The "success" branch; "full" leaves the actor as it was.
Push(e) ==
    /\ ~Full
    /\ entries' = Append(entries, e)
    /\ lastTarget' = IF e.target > lastTarget THEN e.target ELSE lastTarget
    /\ UNCHANGED sampled

-----------------------------------------------------------------------------
(* sample(num_prompt_groups, current_weight_version, max_age_steps)         *)

MinValidVersion(current, age) == IF current >= age THEN current - age ELSE 0

Stale(current, age) ==
    {i \in DOMAIN entries : entries[i].version < MinValidVersion(current, age)}

Valid(current, age) ==
    {i \in DOMAIN entries :
        /\ MinValidVersion(current, age) <= entries[i].version
        /\ entries[i].version <= current}

BadIntended(current, age) ==    \* fault: any group in the age window will do
    Valid(current, age)

Intended(current, age) ==
    {i \in Valid(current, age) : entries[i].target = current}

\* "Found ... trajectories older than min_valid_version": ValueError.
SampleRaises(current, age) == Stale(current, age) # {}

BadEnough(n, current, age) ==   \* fault: off by one
    /\ Cardinality(Valid(current, age)) > n
    /\ Cardinality(Intended(current, age)) > n

\* Enough groups for the step; otherwise sample returns None.
Enough(n, current, age) ==
    /\ Cardinality(Valid(current, age)) >= n
    /\ Cardinality(Intended(current, age)) >= n

\* intended_indices[:num_prompt_groups]: the n oldest of them
Selections(n, current, age) ==
    {S \in SUBSET Intended(current, age) :
        /\ Cardinality(S) = n
        /\ \A i \in S, j \in Intended(current, age) \ S : i < j}

\* The increasing enumeration of a finite set of indices.
Enumerations(S) ==
    {f \in [1..Cardinality(S) -> S] :
        /\ \A i, j \in 1..Cardinality(S) : i < j => f[i] < f[j]
        /\ \A k \in S : \E i \in 1..Cardinality(S) : f[i] = k}

Sample(n, current, age) ==
    /\ ~SampleRaises(current, age)
    /\ Enough(n, current, age)
    /\ \E S \in Selections(n, current, age) :
          /\ \E f \in Enumerations(S) :
                sampled' = [i \in DOMAIN f |-> entries[f[i]]]
          /\ \E f \in Enumerations(DOMAIN entries \ S) :
                entries' = [i \in DOMAIN f |-> entries[f[i]]]
    /\ UNCHANGED lastTarget

-----------------------------------------------------------------------------
(* clear                                                                    *)

Clear ==
    /\ entries' = <<>>
    /\ UNCHANGED <<lastTarget, sampled>>

=============================================================================
