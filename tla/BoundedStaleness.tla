-------------------------- MODULE BoundedStaleness --------------------------
(***************************************************************************)
(* What asynchronous GRPO promises, whatever its threads, pauses and refits *)
(* do: off-policy training whose staleness is bounded by construction.      *)
(*                                                                         *)
(* A prompt group is made with some version of the weights and meant for a  *)
(* later one, at most MaxAge further on.  Each training step takes exactly  *)
(* NumPrompts groups meant for the current version, then publishes the      *)
(* next version.  A group is offered at most once and trained on at most    *)
(* once.  The age of a group is not tested when it is used: that it is in   *)
(* bounds follows from how it was made.                                     *)
(***************************************************************************)
EXTENDS Integers, FiniteSets

CONSTANTS
    Groups,         \* prompt groups that may be generated
    NumPrompts,     \* groups of a training step
    MaxAge,         \* versions a group may lag behind the step that uses it
    First           \* the first version of the run

VARIABLES
    version,        \* version of the policy's weights
    fresh,          \* groups nobody has offered yet
    pool,           \* groups offered and not used
    taken,          \* groups of the step under way
    phase           \* "collect", "train" or "over"

vars == <<version, fresh, pool, taken, phase>>

Record == [trajectory : Groups, version : Nat, target : Nat]

Init ==
    /\ version = First
    /\ fresh = Groups
    /\ pool = {}
    /\ taken = {}
    /\ phase = "collect"

\* A group made with version made, for the step of version use.
Offer(g, made, use) ==
    /\ phase # "over"
    /\ g \in fresh
    /\ made \in First..version
    /\ use \in First..(made + MaxAge)
    /\ fresh' = fresh \ {g}
    /\ pool' = pool \cup {[trajectory |-> g, version |-> made, target |-> use]}
    /\ UNCHANGED <<version, taken, phase>>

\* A group that comes to nothing.
Lose(g) ==
    /\ phase # "over"
    /\ g \in fresh
    /\ fresh' = fresh \ {g}
    /\ UNCHANGED <<version, pool, taken, phase>>

Train(S) ==
    /\ phase = "collect"
    /\ S \subseteq {r \in pool : r.target = version}
    /\ Cardinality(S) = NumPrompts
    /\ pool' = pool \ S
    /\ taken' = S
    /\ phase' = "train"
    /\ UNCHANGED <<version, fresh>>

Publish ==
    /\ phase = "train"
    /\ version' = version + 1
    /\ taken' = {}
    /\ phase' = "collect"
    /\ UNCHANGED <<fresh, pool>>

Stop ==
    /\ phase' = "over"
    /\ taken' = {}
    /\ UNCHANGED <<version, fresh, pool>>

Next ==
    \/ \E g \in Groups, made \in First..version :
          \E use \in First..(made + MaxAge) : Offer(g, made, use)
    \/ \E g \in Groups : Lose(g)
    \/ \E S \in SUBSET pool : Train(S)
    \/ Publish
    \/ Stop

Spec == Init /\ [][Next]_vars

-----------------------------------------------------------------------------

TypeOK ==
    /\ version \in Nat
    /\ fresh \subseteq Groups
    /\ pool \subseteq Record
    /\ taken \subseteq Record
    /\ phase \in {"collect", "train", "over"}

\* A step trains on weights at most MaxAge versions old, and never on a group
\* from the future.
StalenessBounded ==
    \A r \in taken : r.version \in (version - MaxAge)..version

\* No group is in two places: it is fresh, waits, or is being trained on.
UsedOnce ==
    /\ \A r \in pool \cup taken : r.trajectory \notin fresh
    /\ \A r, s \in pool \cup taken : r.trajectory = s.trajectory => r = s
    /\ pool \cap taken = {}
=============================================================================
