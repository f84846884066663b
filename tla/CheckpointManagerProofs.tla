---------------------- MODULE CheckpointManagerProofs ----------------------
(***************************************************************************)
(* The checkpoint directory for any number of steps, saves and crashes, any *)
(* scores and any KeepTopK: what is resumed from is whole, what is replaced *)
(* is kept until then, and the directory keeps the promise of               *)
(* CheckpointStore.                                                        *)
(***************************************************************************)
EXTENDS CheckpointManager, FiniteSetTheorems, WellFoundedInduction, TLAPS

Places == {"training", "writing", "finalize", "replace", "discard", "remove_old",
           "pruning", "raised", "down"}

Types ==
    /\ scores \in Seq(Scores \cup {NoScore})
    /\ metric \in {"none", "higher", "lower"}
    /\ caller \in Callers
    /\ pc \in Places
    /\ current \in 0..MaxStep
    /\ written \in 0..3
    /\ doomed \in Seq(Dirs)
    /\ DOMAIN disk \subseteq Dirs
    /\ disk \in [DOMAIN disk -> [Files -> 0..Len(scores)]]

\* What a save has written is there, all of it once it is finalized.
SaveInv ==
    /\ pc \in {"writing", "finalize", "replace"} =>
          /\ current \in Steps
          /\ Len(scores) # 0
          /\ Present(Tmp)
          /\ \A i \in 1..written : disk[Tmp][WriteOrder[i]] = Len(scores)
    /\ pc = "writing" => written < 3
    /\ pc \in {"finalize", "replace"} => written = 3
    /\ pc \in {"discard", "remove_old", "pruning"} => current \in Steps

\* What is to be removed: the checkpoint replaced, or those of other steps.
DoomedInv ==
    /\ pc \notin {"discard", "pruning"} => doomed = <<>>
    /\ pc = "discard" => Whole(Target) /\ \A i \in DOMAIN doomed : doomed[i] = Old
    /\ pc = "pruning" => \A i \in DOMAIN doomed : doomed[i][1] = "step"

\* A driver saves a later step than any there is, so it never replaces.
DriverInv ==
    /\ pc \notin {"replace", "discard", "raised"}
    /\ pc \in {"training", "remove_old", "pruning"} => \A s \in StepDirs : s <= current
    /\ pc \in {"writing", "finalize"} => \A s \in StepDirs : s < current
    /\ pc \in {"remove_old", "pruning"} => Whole(Target)
    /\ pc = "pruning" => \A i \in DOMAIN doomed : doomed[i] # Target
    /\ \A s \in StepDirs : (\A t \in StepDirs : t <= s) => Whole(<<"step", s>>)

WholeSteps == {s \in Steps : Whole(<<"step", s>>)}

\* A removal cut short leaves a checkpoint that ranks behind KeepTopK whole ones: it
\* takes nobody's place.
PartialInv ==
    \A t \in History \ WholeSteps :
        Cardinality({s \in WholeSteps : RanksBefore(s, t)}) >= KeepTopK

IsDoomed(s) == \E i \in DOMAIN doomed : doomed[i] = <<"step", s>>

\* While checkpoints are removed, KeepTopK whole ones stay that rank before all of them.
KeptInv ==
    pc = "pruning" /\ doomed # <<>> =>
        \E kept \in SUBSET WholeSteps :
            /\ Cardinality(kept) >= KeepTopK
            /\ \A s \in kept : ~IsDoomed(s)
            /\ \A s \in kept, t \in History :
                  IsDoomed(t) \/ t \notin WholeSteps => RanksBefore(s, t)

IInv ==
    /\ Types
    /\ SaveInv
    /\ DoomedInv
    /\ caller = "driver" => DriverInv /\ PartialInv /\ KeptInv

-----------------------------------------------------------------------------
(* The directory *)

Info(s) == disk[<<"step", s>>]["training_info"]

LEMMA FileNames ==
    /\ Len(WriteOrder) = 3
    /\ Files = {WriteOrder[1], WriteOrder[2], WriteOrder[3]}
    /\ Files = {"training_info", "policy", "train_dataloader"}
<1>1. Len(WriteOrder) = 3 /\ DOMAIN WriteOrder = 1..3
  BY DEF WriteOrder
<1> QED
  BY <1>1 DEF Files, WriteOrder

LEMMA WholeIs ==
    ASSUME Types, NEW d
    PROVE  Whole(d) <=> Present(d) /\ \E k \in 1..Len(scores) : \A f \in Files : disk[d][f] = k
<1>1. CASE ~Present(d)
  BY <1>1, FileNames DEF Whole, Contents
<1>2. CASE Present(d)
  <2>1. \A f \in Files : disk[d][f] \in 0..Len(scores)
    BY <1>2 DEF Types, Present
  <2>2. Len(scores) \in Nat
    BY DEF Types
  <2>3. ASSUME Whole(d)
        PROVE  \E k \in 1..Len(scores) : \A f \in Files : disk[d][f] = k
    <3>1. /\ "policy" \in Files
          /\ disk[d]["policy"] # 0
          /\ \A f \in Files : disk[d][f] = disk[d]["policy"]
      BY <1>2, <2>3, FileNames DEF Whole, Contents, Missing
    <3> QED
      BY <2>1, <2>2, <3>1
  <2>4. ASSUME NEW k \in 1..Len(scores), \A f \in Files : disk[d][f] = k
        PROVE  Whole(d)
    BY <1>2, <2>2, <2>4 DEF Whole, Contents, Missing
  <2> QED
    BY <1>2, <2>3, <2>4
<1> QED
  BY <1>1, <1>2

\* A directory that is left alone is as whole as before.
LEMMA WholeKept ==
    ASSUME NEW d, Present(d)' <=> Present(d), Present(d) => disk'[d] = disk[d]
    PROVE  Whole(d)' <=> Whole(d)
BY DEF Whole, Contents, Present

LEMMA StepsAreFinite ==
    ASSUME NEW S \in SUBSET Steps
    PROVE  IsFiniteSet(S) /\ Cardinality(S) \in Nat
<1>1. IsFiniteSet(Steps)
  BY CheckpointConfig, FS_Interval DEF Steps
<1> QED
  BY <1>1, FS_Subset, FS_CardinalityType

LEMMA WholeIsHistory ==
    ASSUME Types
    PROVE  /\ WholeSteps \subseteq History
           /\ History \subseteq StepDirs
           /\ StepDirs \subseteq Steps
           /\ \A s \in History : Info(s) \in 1..Len(scores)
<1>1. ASSUME NEW s \in WholeSteps
      PROVE  s \in History
  <2>1. Present(<<"step", s>>)
    BY <1>1, WholeIs DEF WholeSteps
  <2>2. disk[<<"step", s>>]["training_info"] # Missing
    BY <1>1, <2>1, FileNames DEF WholeSteps, Whole, Contents
  <2> QED
    BY <1>1, <2>1, <2>2 DEF WholeSteps, History, StepDirs
<1>2. ASSUME NEW s \in History
      PROVE  Info(s) \in 1..Len(scores)
  <2>1. "training_info" \in Files /\ Present(<<"step", s>>)
    BY <1>2, FileNames DEF History, StepDirs
  <2>2. Info(s) \in 0..Len(scores) /\ Len(scores) \in Nat
    BY <2>1 DEF Info, Types, Present
  <2>3. Info(s) # 0
    BY <1>2 DEF History, Info, Missing
  <2> QED
    BY <2>2, <2>3
<1> QED
  BY <1>1, <1>2 DEF History, StepDirs

-----------------------------------------------------------------------------
(* The order of the history *)

LEMMA ScoresAreNumbers ==
    ASSUME Types, NEW s \in History
    PROVE  Score(s) \in Int /\ (Score(s) = NoScore \/ Score(s) \in Nat) /\ Score(s) = scores[Info(s)]
           /\ Score(s) \in Scores \cup {NoScore} /\ s \in Int
<1>1. scores[Info(s)] \in Scores \cup {NoScore}
  BY WholeIsHistory DEF Types
<1>2. Score(s) = scores[Info(s)]
  BY DEF Score, Info
<1>3. s \in Int
  BY CheckpointConfig, WholeIsHistory DEF Steps
<1>4. Scores \subseteq Nat /\ NoScore \in Int
  BY CheckpointConfig DEF NoScore
<1>5. scores[Info(s)] \in Nat \/ scores[Info(s)] = NoScore
  BY <1>1, <1>4
<1> HIDE DEF Info, Score
<1>6. Score(s) \in Int
  BY <1>2, <1>4, <1>5
<1> QED
  BY <1>1, <1>2, <1>3, <1>5, <1>6, Zenon

LEMMA RanksOrder ==
    ASSUME Types
    PROVE  /\ \A s \in History : ~RanksBefore(s, s)
           /\ \A s, t \in History : s # t => RanksBefore(s, t) \/ RanksBefore(t, s)
           /\ \A s, t, u \in History :
                 RanksBefore(s, t) /\ RanksBefore(t, u) => RanksBefore(s, u)
<1> USE DEF NoScore
<1>0. metric \in {"none", "higher", "lower"}
  BY DEF Types
<1>1. \A s \in History : Score(s) \in Int /\ (Score(s) = -1 \/ Score(s) \in Nat) /\ s \in Int
  BY ScoresAreNumbers
<1>2. CASE metric = "none"
  BY <1>1, <1>2 DEF RanksBefore
<1>3. CASE metric = "higher"
  BY <1>1, <1>3 DEF RanksBefore
<1>4. CASE metric = "lower"
  BY <1>1, <1>4 DEF RanksBefore
<1> QED
  BY <1>0, <1>2, <1>3, <1>4

LEMMA RankIsNat ==
    ASSUME Types
    PROVE  \A s \in History : Rank(s) \in Nat
BY StepsAreFinite, WholeIsHistory DEF Rank

LEMMA RankGrows ==
    ASSUME Types, NEW s \in History, NEW t \in History, RanksBefore(s, t)
    PROVE  Rank(s) < Rank(t)
<1> DEFINE before(u) == {v \in History : RanksBefore(v, u)}
<1>1. before(s) \subseteq before(t) /\ s \in before(t) /\ s \notin before(s)
  BY RanksOrder
<1>2. before(t) \subseteq Steps /\ before(s) \subseteq Steps
  BY WholeIsHistory
<1>3. IsFiniteSet(before(t)) /\ Cardinality(before(t)) \in Nat /\ Cardinality(before(s)) \in Nat
  BY <1>2, StepsAreFinite
<1>4. /\ Cardinality(before(s)) <= Cardinality(before(t))
      /\ Cardinality(before(t)) = Cardinality(before(s)) => before(t) = before(s)
  BY <1>1, <1>3, FS_Subset
<1>5. Cardinality(before(s)) < Cardinality(before(t))
  BY <1>1, <1>3, <1>4
<1> QED
  BY <1>5 DEF Rank

LEMMA RankDecides ==
    ASSUME Types, NEW s \in History, NEW t \in History, Rank(s) < Rank(t)
    PROVE  RanksBefore(s, t)
<1>1. s # t
  BY RankIsNat
<1>2. ~RanksBefore(t, s)
  BY RankIsNat, RankGrows
<1> QED
  BY <1>1, <1>2, RanksOrder

Descents == {p \in Nat \X Nat : p[1] < p[2]}

LEMMA LeastExists ==
    ASSUME NEW S \in SUBSET Nat, S # {}
    PROVE  \E x \in S : \A y \in S : x <= y
<1>1. IsWellFoundedOn(Descents, Nat)
  BY NatLessThanWellFounded, Zenon DEF OpToRel, Descents
<1>2. PICK x \in S : \A y \in S : ~(<<y, x>> \in Descents)
  BY <1>1, WFMin, Zenon
<1>3. ASSUME NEW y \in S PROVE x <= y
  <2>1. x \in Nat /\ y \in Nat
    OBVIOUS
  <2>2. y < x => <<y, x>> \in Descents
    BY <2>1 DEF Descents
  <2>3. ~(y < x)
    BY <1>2, <2>2, Zenon
  <2> QED
    BY <2>1, <2>3
<1> QED
  BY <1>3

TopRanked == {t \in History : Rank(t) < KeepTopK}

\* If anything ranks outside the best KeepTopK, there are that many inside.
LEMMA TopIsFull ==
    ASSUME Types, NEW s \in History, Rank(s) >= KeepTopK
    PROVE  Cardinality(TopRanked) >= KeepTopK
<1>1. KeepTopK \in Nat
  BY CheckpointConfig
<1> DEFINE ranks == {Rank(t) : t \in {u \in History : Rank(u) >= KeepTopK}}
<1>2. ranks \in SUBSET Nat /\ ranks # {}
  BY RankIsNat
<1>3. PICK least \in ranks : \A n \in ranks : least <= n
  <2> HIDE DEF ranks
  <2> QED
    BY <1>2, LeastExists
<1>4. PICK t \in History : Rank(t) >= KeepTopK /\ Rank(t) = least
  BY <1>3
<1>5. {u \in History : RanksBefore(u, t)} \subseteq TopRanked
  <2> SUFFICES ASSUME NEW u \in History, RanksBefore(u, t), ~(Rank(u) < KeepTopK)
               PROVE  FALSE
    BY DEF TopRanked
  <2>1. Rank(u) < Rank(t)
    BY RankGrows
  <2>2. Rank(u) \in ranks
    BY <1>1, RankIsNat
  <2> QED
    BY <1>3, <1>4, <2>1, <2>2, RankIsNat
<1>6. TopRanked \subseteq Steps
  BY WholeIsHistory DEF TopRanked
<1>7. Rank(t) <= Cardinality(TopRanked)
  BY <1>5, <1>6, StepsAreFinite, FS_Subset DEF Rank
<1> QED
  BY <1>1, <1>4, <1>6, <1>7, StepsAreFinite, RankIsNat

-----------------------------------------------------------------------------
(* What is removed *)

\* Distinct elements rank differently, so the surplus can be listed in order.
LEMMA SurplusIsListed ==
    ASSUME Types
    PROVE  /\ SurplusDirs \in [1..Cardinality(Surplus) -> {<<"step", s>> : s \in Surplus}]
           /\ SurplusDirs \in Seq(Dirs)
           /\ \A i \in DOMAIN SurplusDirs : \E s \in Surplus : SurplusDirs[i] = <<"step", s>>
<1> DEFINE n == Cardinality(Surplus)
           dirs == {<<"step", s>> : s \in Surplus}
           before(s) == {t \in Surplus : RanksBefore(t, s)}
           place == [s \in Surplus |-> Cardinality(before(s)) + 1]
<1>1. Surplus \subseteq History /\ Surplus \subseteq Steps
  BY WholeIsHistory DEF Surplus
<1>2. IsFiniteSet(Surplus) /\ n \in Nat
  BY <1>1, StepsAreFinite
<1>3. \A s \in Surplus : /\ IsFiniteSet(before(s)) /\ Cardinality(before(s)) \in Nat
                         /\ before(s) \subseteq Surplus
  BY <1>1, StepsAreFinite
<1>4. \A s \in Surplus : Cardinality(before(s)) < n
  <2> SUFFICES ASSUME NEW s \in Surplus
               PROVE  Cardinality(before(s)) < n
    OBVIOUS
  <2>1. s \notin before(s)
    BY <1>1, RanksOrder
  <2>2. Cardinality(before(s)) <= n /\ (n = Cardinality(before(s)) => Surplus = before(s))
    BY <1>2, <1>3, FS_Subset
  <2> QED
    BY <1>2, <1>3, <2>1, <2>2
<1>5. place \in [Surplus -> 1..n]
  BY <1>2, <1>3, <1>4
<1>6. ASSUME NEW s \in Surplus, NEW t \in Surplus, RanksBefore(s, t)
      PROVE  place[s] < place[t]
  <2>1. before(s) \subseteq before(t) /\ s \in before(t) /\ s \notin before(s)
    BY <1>1, <1>6, RanksOrder
  <2>2. /\ Cardinality(before(s)) <= Cardinality(before(t))
        /\ Cardinality(before(t)) = Cardinality(before(s)) => before(t) = before(s)
    BY <1>3, <2>1, FS_Subset
  <2>3. Cardinality(before(s)) < Cardinality(before(t))
    BY <1>3, <2>1, <2>2
  <2>4. place[s] = Cardinality(before(s)) + 1 /\ place[t] = Cardinality(before(t)) + 1
    OBVIOUS
  <2> HIDE DEF place, before
  <2> QED
    BY <1>3, <2>3, <2>4
<1>7. place \in Injection(Surplus, 1..n)
  <2>1. \A s \in Surplus : place[s] \in Int
    BY <1>5
  <2>2. \A s, t \in Surplus : s # t => place[s] < place[t] \/ place[t] < place[s]
    BY <1>1, <1>6, RanksOrder
  <2> HIDE DEF place, n
  <2> QED
    BY <1>5, <2>1, <2>2 DEF Injection, IsInjective
<1>8. place \in Surjection(Surplus, 1..n)
  <2>1. IsFiniteSet(1..n) /\ Cardinality(1..n) = n
    BY <1>2, FS_Interval
  <2> HIDE DEF place
  <2> QED
    BY <1>7, <2>1, FS_Injection
<1> DEFINE list == [i \in 1..n |-> <<"step", CHOOSE s \in Surplus : place[s] = i>>]
<1>9. \A i \in 1..n : \E s \in Surplus : place[s] = i
  <2> HIDE DEF place, n
  <2> QED
    BY <1>8 DEF Surjection
<1>10. \A i \in 1..n : list[i] \in dirs /\ list[i][2] \in Surplus /\ place[list[i][2]] = i
  <2> HIDE DEF place, n
  <2> QED
    BY <1>9
<1>11. list \in [1..n -> dirs]
  <2> HIDE DEF place, n, dirs
  <2> QED
    BY <1>10
<1>12. \A i, j \in DOMAIN list : i < j => RanksBefore(list[i][2], list[j][2])
  <2> SUFFICES ASSUME NEW i \in 1..n, NEW j \in 1..n, i < j
               PROVE  RanksBefore(list[i][2], list[j][2])
    OBVIOUS
  <2> DEFINE s == list[i][2]
             t == list[j][2]
  <2>1. s \in Surplus /\ t \in Surplus /\ place[s] = i /\ place[t] = j
    BY <1>10
  <2> HIDE DEF list, place, n, s, t
  <2>2. s # t /\ ~(j < i)
    BY <1>2, <2>1
  <2>3. RanksBefore(t, s) => j < i
    BY <1>6, <2>1
  <2>4. RanksBefore(s, t)
    BY <1>1, <2>1, <2>2, <2>3, RanksOrder
  <2> QED
    BY <2>4 DEF s, t
<1>13. /\ SurplusDirs \in [1..n -> dirs]
  BY <1>11, <1>12 DEF SurplusDirs
<1>14. dirs \subseteq Dirs
  BY <1>1 DEF Dirs
<1>15. SurplusDirs \in Seq(Dirs)
  <2>1. SurplusDirs \in [1..n -> Dirs]
    <3> HIDE DEF n, dirs
    <3> QED
      BY <1>13, <1>14
  <2> HIDE DEF n
  <2> QED
    BY <1>2, <2>1
<1> QED
  BY <1>13, <1>15

-----------------------------------------------------------------------------
(* What each call does to the directory *)

DiskType == DOMAIN disk \subseteq Dirs /\ disk \in [DOMAIN disk -> [Files -> 0..Len(scores)]]

\* The directory d is left alone.
Same(d) == (Present(d)' <=> Present(d)) /\ (Present(d) => disk'[d] = disk[d])

LEMMA SameIsWhole ==
    ASSUME NEW d, Same(d)
    PROVE  Whole(d)' <=> Whole(d)
BY WholeKept DEF Same

LEMMA TypesOfDisk == Types => DiskType
BY DEF Types, DiskType

LEMMA RenameDisk ==
    ASSUME DiskType, NEW from, Present(from), NEW to \in Dirs, from # to,
           Rename(from, to), UNCHANGED scores
    PROVE  /\ DiskType'
           /\ \A d : d # from /\ d # to => Same(d)
           /\ Present(to)' /\ disk'[to] = disk[from] /\ ~Present(from)'
<1>1. DOMAIN disk' = (DOMAIN disk \ {from}) \cup {to}
  BY DEF Rename
<1>2. \A d \in DOMAIN disk' : disk'[d] = IF d = to THEN disk[from] ELSE disk[d]
  BY DEF Rename
<1>3. disk' = [d \in DOMAIN disk' |-> disk'[d]]
  BY <1>1 DEF Rename
<1>4. \A d \in DOMAIN disk' : disk'[d] \in [Files -> 0..Len(scores')]
  BY <1>1, <1>2 DEF DiskType, Present
<1>5. DiskType'
  BY <1>1, <1>3, <1>4 DEF DiskType
<1> QED
  BY <1>1, <1>2, <1>5 DEF Same, Present

LEMMA InitTmpDisk ==
    ASSUME Types, NEW s \in Steps, NEW score \in Scores \cup {NoScore},
           InitTmpCheckpoint(s, score)
    PROVE  /\ DiskType'
           /\ \A d : d # <<"tmp_step", s>> => Same(d)
           /\ Present(<<"tmp_step", s>>)'
           /\ scores' \in Seq(Scores \cup {NoScore}) /\ Len(scores') = Len(scores) + 1
           /\ \A i \in 1..Len(scores) : scores'[i] = scores[i]
           /\ Len(scores) \in Nat
<1>1. /\ scores' \in Seq(Scores \cup {NoScore}) /\ Len(scores') = Len(scores) + 1
      /\ \A i \in 1..Len(scores) : scores'[i] = scores[i]
      /\ Len(scores) \in Nat
  BY DEF InitTmpCheckpoint, Types
<1>2. DOMAIN disk' = DOMAIN disk \cup {<<"tmp_step", s>>}
  BY DEF InitTmpCheckpoint
<1>3. \A d \in DOMAIN disk' :
         disk'[d] = IF d \in DOMAIN disk THEN disk[d] ELSE [f \in Files |-> Missing]
  BY DEF InitTmpCheckpoint
<1>4. disk' = [d \in DOMAIN disk' |-> disk'[d]]
  BY <1>2 DEF InitTmpCheckpoint
<1>5. \A d \in DOMAIN disk' : disk'[d] \in [Files -> 0..Len(scores')]
  <2> SUFFICES ASSUME NEW d \in DOMAIN disk'
               PROVE  disk'[d] \in [Files -> 0..Len(scores')]
    OBVIOUS
  <2>1. CASE d \in DOMAIN disk
    <3>1. disk'[d] = disk[d] /\ disk[d] \in [Files -> 0..Len(scores)]
      BY <1>3, <2>1 DEF Types
    <3>2. 0..Len(scores) \subseteq 0..Len(scores')
      BY <1>1
    <3> QED
      BY <3>1, <3>2
  <2>2. CASE d \notin DOMAIN disk
    <3>1. disk'[d] = [f \in Files |-> Missing]
      BY <1>3, <2>2
    <3>2. Missing \in 0..Len(scores')
      BY <1>1 DEF Missing
    <3> QED
      BY <3>1, <3>2
  <2> QED
    BY <2>1, <2>2
<1>6. <<"tmp_step", s>> \in Dirs
  BY DEF Dirs
<1>7. DOMAIN disk \subseteq Dirs
  BY DEF Types
<1>8. DiskType'
  BY <1>2, <1>4, <1>5, <1>6, <1>7 DEF DiskType
<1> QED
  BY <1>1, <1>2, <1>3, <1>8 DEF Same, Present

LEMMA WriteFileDisk ==
    ASSUME Types, SaveInv, WriteFile
    PROVE  /\ DiskType'
           /\ \A d : d # Tmp => Same(d)
           /\ Tmp \in DOMAIN disk'
           /\ \A i \in 1..written + 1 : disk'[Tmp][WriteOrder[i]] = Len(scores)
           /\ written + 1 \in 1..3
<1>1. written \in 0..2 /\ Present(Tmp) /\ Len(scores) \in Nat /\ Len(scores) # 0
  BY DEF Types, SaveInv, WriteFile
<1>2. \A i \in 1..3 : WriteOrder[i] \in Files
  BY FileNames
<1>3. DOMAIN disk' = DOMAIN disk /\ \A d : d # Tmp => Same(d)
  BY DEF WriteFile, Same, Present, Types
<1>4. disk'[Tmp] = [disk[Tmp] EXCEPT ![WriteOrder[written + 1]] = Len(scores)]
  BY <1>1 DEF WriteFile, Types, Present
<1>5. disk[Tmp] \in [Files -> 0..Len(scores)]
  BY <1>1 DEF Types, Present
<1>6. DiskType'
  <2>1. Len(scores) \in 0..Len(scores)
    BY <1>1
  <2>2. disk'[Tmp] \in [Files -> 0..Len(scores)]
    BY <1>4, <1>5, <2>1
  <2>3. scores' = scores
    BY DEF WriteFile
  <2>4. \A d \in DOMAIN disk : disk'[d] \in [Files -> 0..Len(scores)]
    BY <1>3, <2>2 DEF Same, Present, Types
  <2>5. disk' = [d \in DOMAIN disk |-> disk'[d]]
    BY DEF WriteFile, Types
  <2> QED
    BY <1>3, <2>3, <2>4, <2>5 DEF DiskType, Types
<1>7. \A i \in 1..written + 1 : disk'[Tmp][WriteOrder[i]] = Len(scores)
  <2> SUFFICES ASSUME NEW i \in 1..written + 1
               PROVE  disk'[Tmp][WriteOrder[i]] = Len(scores)
    OBVIOUS
  <2>1. CASE i = written + 1
    BY <1>1, <1>2, <1>4, <1>5, <2>1
  <2>2. CASE i # written + 1
    <3>1. i \in 1..written /\ i \in 1..3
      BY <1>1, <2>2
    <3>2. disk[Tmp][WriteOrder[i]] = Len(scores)
      BY <3>1 DEF SaveInv, WriteFile
    <3> QED
      BY <1>2, <1>4, <1>5, <3>1, <3>2
  <2> QED
    BY <2>1, <2>2
<1> QED
  BY <1>1, <1>3, <1>6, <1>7 DEF Present

LEMMA DeleteFileDisk ==
    ASSUME Types, NEW f \in Files, DeleteFile(f)
    PROVE  /\ DiskType'
           /\ Head(doomed) \in DOMAIN disk /\ Head(doomed) \in DOMAIN disk'
           /\ \A d : d # Head(doomed) => Same(d)
           /\ disk'[Head(doomed)] = [disk[Head(doomed)] EXCEPT ![f] = Missing]
           /\ ~Whole(Head(doomed))'
<1> DEFINE d0 == Head(doomed)
<1>0. doomed' = doomed
  BY DEF DeleteFile, locals
<1>1. d0 \in DOMAIN disk /\ DOMAIN disk' = DOMAIN disk
  BY DEF DeleteFile, Contents, Present, Types
<1>2. disk'[d0] = [disk[d0] EXCEPT ![f] = Missing]
  BY <1>1 DEF DeleteFile, Types
<1>3. \A d : d # d0 => Same(d)
  BY DEF DeleteFile, Types, Same, Present
<1>4. disk[d0] \in [Files -> 0..Len(scores)] /\ Missing \in 0..Len(scores)
  BY <1>1 DEF Types, Missing
<1>5. DiskType'
  <2>1. disk'[d0] \in [Files -> 0..Len(scores)]
    BY <1>2, <1>4
  <2>2. scores' = scores
    BY DEF DeleteFile
  <2>3. disk' = [d \in DOMAIN disk |-> disk'[d]]
    BY DEF DeleteFile, Types
  <2>4. \A d \in DOMAIN disk : disk'[d] \in [Files -> 0..Len(scores)]
    BY <1>3, <2>1 DEF Same, Present, Types
  <2> QED
    BY <1>1, <2>2, <2>3, <2>4 DEF DiskType, Types
<1>6. f \notin Contents(d0)'
  BY <1>0, <1>2, <1>4 DEF Contents
<1> QED
  BY <1>0, <1>1, <1>2, <1>3, <1>5, <1>6 DEF Present, Whole

LEMMA DeleteDirDisk ==
    ASSUME Types, DeleteDir
    PROVE  /\ DiskType'
           /\ Head(doomed) \notin DOMAIN disk'
           /\ ~Whole(Head(doomed))
           /\ \A d : d # Head(doomed) => Same(d)
<1>1. DOMAIN disk' = DOMAIN disk \ {Head(doomed)}
  BY DEF DeleteDir
<1>2. \A d \in DOMAIN disk' : disk'[d] = disk[d]
  BY DEF DeleteDir
<1>3. disk' = [d \in DOMAIN disk' |-> disk'[d]] /\ scores' = scores
  BY <1>1 DEF DeleteDir
<1>4. DiskType'
  BY <1>1, <1>2, <1>3 DEF DiskType, Types
<1>5. ~Whole(Head(doomed))
  BY FileNames DEF DeleteDir, Whole
<1> QED
  BY <1>1, <1>2, <1>4, <1>5 DEF Same, Present

-----------------------------------------------------------------------------
(* The invariant *)

LEMMA InitIInv == Init => IInv
<1> SUFFICES ASSUME Init
             PROVE  IInv
  OBVIOUS
<1> USE CheckpointConfig DEF Init
<1>1. Types
  BY DEF Types, Places
<1>2. SaveInv /\ DoomedInv
  BY DEF SaveInv, DoomedInv
<1>3. StepDirs = {}
  BY DEF StepDirs, Present
<1>4. DriverInv /\ PartialInv /\ KeptInv
  BY <1>3 DEF DriverInv, PartialInv, KeptInv, History
<1> QED
  BY <1>1, <1>2, <1>4 DEF IInv

LEMMA Names ==
    ASSUME current \in Steps
    PROVE  /\ Tmp \in Dirs /\ Target \in Dirs /\ Old \in Dirs
           /\ Tmp # Target /\ Tmp # Old /\ Target # Old
           /\ current \in 0..MaxStep
BY CheckpointConfig DEF Tmp, Target, Old, Dirs, Steps

LEMMA LatestStepType ==
    ASSUME Types
    PROVE  /\ LatestStep \in 0..MaxStep
           /\ StepDirs # {} => LatestStep \in StepDirs /\ \A t \in StepDirs : t <= LatestStep
           /\ StepDirs = {} => LatestStep = 0
<1>1. StepDirs \subseteq 1..MaxStep /\ MaxStep \in Nat
  BY CheckpointConfig DEF StepDirs, Steps
<1>2. CASE StepDirs = {}
  BY <1>1, <1>2 DEF LatestStep
<1>3. CASE StepDirs # {}
  <2> DEFINE gaps == {MaxStep - s : s \in StepDirs}
  <2>1. gaps \in SUBSET Nat /\ gaps # {}
    BY <1>1, <1>3
  <2>2. PICK x \in gaps : \A y \in gaps : x <= y
    <3> HIDE DEF gaps
    <3> QED
      BY <2>1, LeastExists
  <2>3. PICK s \in StepDirs : x = MaxStep - s
    BY <2>2
  <2>4. \A t \in StepDirs : t <= s
    <3> SUFFICES ASSUME NEW t \in StepDirs
                 PROVE  t <= s
      OBVIOUS
    <3>1. MaxStep - s <= MaxStep - t
      BY <2>2, <2>3
    <3> QED
      BY <1>1, <3>1
  <2>5. LatestStep \in StepDirs /\ \A t \in StepDirs : t <= LatestStep
    BY <1>3, <2>4 DEF LatestStep
  <2> QED
    BY <1>1, <1>3, <2>5
<1> QED
  BY <1>2, <1>3

LEMMA NextTypes ==
    ASSUME Types, SaveInv, DoomedInv, [Next]_vars
    PROVE  Types'
<1> DEFINE Rest ==
        /\ scores \in Seq(Scores \cup {NoScore})
        /\ metric \in {"none", "higher", "lower"}
        /\ caller \in Callers
        /\ pc \in Places
        /\ current \in 0..MaxStep
        /\ written \in 0..3
        /\ doomed \in Seq(Dirs)
<1>0. Rest /\ DiskType
  BY TypesOfDisk DEF Types
<1> SUFFICES Rest' /\ DiskType'
  BY DEF Types, DiskType
<1> USE DEF config, locals, Places
<1>1. ASSUME NEW s \in Steps, NEW score \in Scores \cup {NoScore}, InitTmpCheckpoint(s, score)
      PROVE  Rest' /\ DiskType'
  <2>1. s \in 0..MaxStep
    BY CheckpointConfig DEF Steps
  <2>2. DiskType' /\ scores' \in Seq(Scores \cup {NoScore})
    BY <1>1, InitTmpDisk
  <2>3. /\ pc' = "writing" /\ current' = s /\ written' = 0
        /\ UNCHANGED <<metric, caller, doomed>>
    BY <1>1 DEF InitTmpCheckpoint
  <2> QED
    BY <1>0, <2>1, <2>2, <2>3
<1>2. CASE WriteFile
  <2>1. DiskType' /\ written + 1 \in 1..3
    BY <1>2, WriteFileDisk
  <2> QED
    BY <1>0, <1>2, <2>1 DEF WriteFile
<1>3. CASE Publish
  <2>1. DiskType'
    BY <1>0, <1>3, Names, RenameDisk DEF Publish, SaveInv
  <2> QED
    BY <1>0, <1>3, <2>1 DEF Publish
<1>4. CASE SetAside
  <2>1. DiskType'
    BY <1>0, <1>4, Names, RenameDisk DEF SetAside, SaveInv
  <2> QED
    BY <1>0, <1>4, <2>1 DEF SetAside
<1>5. CASE SetAsideFails
  BY <1>0, <1>5 DEF SetAsideFails, DiskType
<1>6. CASE Replace
  <2>1. DiskType' /\ <<Old>> \in Seq(Dirs)
    BY <1>0, <1>6, Names, RenameDisk DEF Replace, SaveInv
  <2> QED
    BY <1>0, <1>6, <2>1 DEF Replace
<1>7. CASE RemoveOldCheckpoints
  BY <1>0, <1>7, SurplusIsListed DEF RemoveOldCheckpoints, DiskType
<1>8. ASSUME NEW f \in Files, DeleteFile(f)
      PROVE  Rest' /\ DiskType'
  BY <1>0, <1>8, DeleteFileDisk DEF DeleteFile
<1>9. CASE DeleteDir
  <2>1. DiskType' /\ Tail(doomed) \in Seq(Dirs)
    BY <1>0, <1>9, DeleteDirDisk DEF DeleteDir
  <2> QED
    BY <1>0, <1>9, <2>1 DEF DeleteDir
<1>10. CASE Removed
  BY <1>0, <1>10 DEF Removed, DiskType
<1>11. CASE Crash
  BY <1>0, <1>11 DEF Crash, DiskType
<1>12. CASE Resume
  BY <1>0, <1>12, LatestStepType DEF Resume, DiskType
<1>13. CASE UNCHANGED vars
  BY <1>0, <1>13 DEF vars, DiskType
<1> QED
  BY <1>1, <1>2, <1>3, <1>4, <1>5, <1>6, <1>7, <1>8, <1>9, <1>10, <1>11, <1>12, <1>13 DEF Next

LEMMA NextSaveInv ==
    ASSUME Types, SaveInv, DoomedInv, [Next]_vars
    PROVE  SaveInv'
<1> USE DEF config, locals
<1>1. ASSUME NEW s \in Steps, NEW score \in Scores \cup {NoScore}, InitTmpCheckpoint(s, score)
      PROVE  SaveInv'
  <2>1. /\ Present(<<"tmp_step", s>>)'
        /\ Len(scores') = Len(scores) + 1 /\ Len(scores) \in Nat
    BY <1>1, InitTmpDisk
  <2>2. pc' = "writing" /\ current' = s /\ written' = 0
    BY <1>1 DEF InitTmpCheckpoint
  <2> QED
    BY <2>1, <2>2 DEF SaveInv, Tmp
<1>2. CASE WriteFile
  <2>1. /\ Tmp \in DOMAIN disk' /\ written + 1 \in 1..3
        /\ \A i \in 1..written + 1 : disk'[Tmp][WriteOrder[i]] = Len(scores)
    BY <1>2, WriteFileDisk
  <2>2. /\ pc' = IF written + 1 = 3 THEN "finalize" ELSE "writing"
        /\ written' = written + 1 /\ UNCHANGED <<scores, current>>
        /\ pc = "writing"
    BY <1>2, FileNames DEF WriteFile
  <2>3. Tmp' = Tmp
    BY <2>2 DEF Tmp
  <2> QED
    BY <2>1, <2>2, <2>3 DEF SaveInv, Present
<1>3. CASE Publish
  BY <1>3 DEF Publish, SaveInv
<1>4. CASE SetAside
  <2>1. current \in Steps /\ Present(Tmp) /\ pc = "finalize"
    BY <1>4 DEF SetAside, SaveInv
  <2>2. Same(Tmp)
    BY <1>4, <2>1, TypesOfDisk, Names, RenameDisk DEF SetAside
  <2>3. Tmp' = Tmp /\ pc' = "replace" /\ UNCHANGED <<current, written, scores>>
    BY <1>4 DEF SetAside, Tmp
  <2> QED
    BY <2>1, <2>2, <2>3 DEF SaveInv, Same, Present
<1>5. CASE SetAsideFails
  BY <1>5 DEF SetAsideFails, SaveInv
<1>6. CASE Replace
  BY <1>6 DEF Replace, SaveInv
<1>7. CASE RemoveOldCheckpoints
  BY <1>7 DEF RemoveOldCheckpoints, SaveInv
<1>8. ASSUME NEW f \in Files, DeleteFile(f)
      PROVE  SaveInv'
  BY <1>8 DEF DeleteFile, SaveInv
<1>9. CASE DeleteDir
  BY <1>9 DEF DeleteDir, SaveInv
<1>10. CASE Removed
  BY <1>10 DEF Removed, SaveInv
<1>11. CASE Crash
  BY <1>11 DEF Crash, SaveInv
<1>12. CASE Resume
  BY <1>12 DEF Resume, SaveInv
<1>13. CASE UNCHANGED vars
  BY <1>13 DEF vars, SaveInv, Tmp, Present
<1> QED
  BY <1>1, <1>2, <1>3, <1>4, <1>5, <1>6, <1>7, <1>8, <1>9, <1>10, <1>11, <1>12, <1>13 DEF Next

\* What a save has written in full is whole.
LEMMA WrittenIsWhole ==
    ASSUME Types, SaveInv, pc \in {"finalize", "replace"}
    PROVE  /\ Whole(Tmp) /\ Present(Tmp)
           /\ \A f \in Files : disk[Tmp][f] = Len(scores)
           /\ Len(scores) \in 1..Len(scores)
<1>0. Len(scores) \in Nat
  BY DEF Types
<1>1. /\ Present(Tmp) /\ Len(scores) \in 1..Len(scores)
      /\ \A i \in 1..3 : disk[Tmp][WriteOrder[i]] = Len(scores)
  BY <1>0 DEF SaveInv
<1>2. \A f \in Files : disk[Tmp][f] = Len(scores)
  BY <1>1, FileNames
<1> QED
  BY <1>1, <1>2, WholeIs

LEMMA PublishedIsWhole ==
    ASSUME Types, SaveInv, UNCHANGED current, pc \in {"finalize", "replace"},
           Target \in DOMAIN disk', disk'[Target] = disk[Tmp]
    PROVE  Whole(Target)'
<1>1. Target' = Target
  BY DEF Target
<1>2. \A f \in Files : disk'[Target][f] = Len(scores)
  BY WrittenIsWhole
<1>3. Contents(Target)' = Files /\ \A f, g \in Files : disk'[Target][f] = disk'[Target][g]
  <2>1. Len(scores) # Missing
    BY WrittenIsWhole DEF Missing
  <2> QED
    BY <1>1, <1>2, <2>1 DEF Contents, Present
<1> QED
  BY <1>1, <1>3 DEF Whole

LEMMA NextDoomedInv ==
    ASSUME Types, SaveInv, DoomedInv, Types', [Next]_vars
    PROVE  DoomedInv'
<1> USE DEF config, locals
<1>1. ASSUME NEW s \in Steps, NEW score \in Scores \cup {NoScore}, InitTmpCheckpoint(s, score)
      PROVE  DoomedInv'
  BY <1>1 DEF InitTmpCheckpoint, DoomedInv
<1>2. CASE WriteFile
  BY <1>2 DEF WriteFile, DoomedInv
<1>3. CASE Publish
  BY <1>3 DEF Publish, DoomedInv
<1>4. CASE SetAside
  BY <1>4 DEF SetAside, DoomedInv
<1>5. CASE SetAsideFails
  BY <1>5 DEF SetAsideFails, DoomedInv
<1>6. CASE Replace
  <2>1. current \in Steps /\ Present(Tmp) /\ pc = "replace" /\ pc' = "discard"
        /\ UNCHANGED <<current, scores>> /\ doomed' = <<Old>>
    BY <1>6 DEF Replace, SaveInv
  <2>2. Target \in DOMAIN disk' /\ disk'[Target] = disk[Tmp]
    BY <1>6, <2>1, TypesOfDisk, Names, RenameDisk DEF Replace, Present
  <2>3. Whole(Target)'
    BY <2>1, <2>2, PublishedIsWhole
  <2>4. Old' = Old
    BY <2>1 DEF Old
  <2> QED
    BY <2>1, <2>3, <2>4 DEF DoomedInv
<1>7. CASE RemoveOldCheckpoints
  BY <1>7, SurplusIsListed DEF RemoveOldCheckpoints, DoomedInv
<1>8. ASSUME NEW f \in Files, DeleteFile(f)
      PROVE  DoomedInv'
  <2>1. doomed # <<>> /\ Head(doomed) = doomed[1] /\ 1 \in DOMAIN doomed
        /\ UNCHANGED <<pc, doomed, current>> /\ pc \in {"discard", "pruning"}
    BY <1>8 DEF DeleteFile, Types
  <2>2. Old' = Old /\ Target' = Target
    BY <2>1 DEF Old, Target
  <2>3. ASSUME pc = "discard"
        PROVE  Whole(Target)'
    <3>1. Head(doomed) = Old /\ Old # Target /\ Whole(Target)
      BY <2>1, <2>3 DEF DoomedInv, Old, Target
    <3>2. Same(Target)
      BY <1>8, <3>1, DeleteFileDisk
    <3>3. Contents(Target)' = Contents(Target) /\ Present(Target)
      BY <2>2, <3>1, <3>2, FileNames DEF Same, Contents, Present, Whole
    <3> QED
      BY <2>2, <3>1, <3>2, <3>3 DEF Whole, Same
  <2> QED
    BY <2>1, <2>2, <2>3 DEF DoomedInv
<1>9. CASE DeleteDir
  <2>1. doomed # <<>> /\ Head(doomed) = doomed[1] /\ 1 \in DOMAIN doomed
        /\ UNCHANGED <<pc, current>> /\ pc \in {"discard", "pruning"}
        /\ doomed' = Tail(doomed)
        /\ \A i \in DOMAIN doomed' : i + 1 \in DOMAIN doomed /\ doomed'[i] = doomed[i + 1]
    BY <1>9 DEF DeleteDir, Types
  <2>2. Old' = Old /\ Target' = Target
    BY <2>1 DEF Old, Target
  <2>3. ASSUME pc = "discard"
        PROVE  Whole(Target)'
    <3>1. Head(doomed) = Old /\ Old # Target /\ Whole(Target)
      BY <2>1, <2>3 DEF DoomedInv, Old, Target
    <3>2. Same(Target)
      BY <1>9, <3>1, DeleteDirDisk
    <3>3. Contents(Target)' = Contents(Target) /\ Present(Target)
      BY <2>2, <3>1, <3>2, FileNames DEF Same, Contents, Present, Whole
    <3> QED
      BY <2>2, <3>1, <3>2, <3>3 DEF Whole, Same
  <2> QED
    BY <2>1, <2>2, <2>3 DEF DoomedInv
<1>10. CASE Removed
  BY <1>10 DEF Removed, DoomedInv
<1>11. CASE Crash
  BY <1>11 DEF Crash, DoomedInv
<1>12. CASE Resume
  BY <1>12 DEF Resume, DoomedInv
<1>13. CASE UNCHANGED vars
  BY <1>13 DEF vars, DoomedInv, Target, Old, Whole, Contents, Present
<1> QED
  BY <1>1, <1>2, <1>3, <1>4, <1>5, <1>6, <1>7, <1>8, <1>9, <1>10, <1>11, <1>12, <1>13 DEF Next

-----------------------------------------------------------------------------
(* A driver's checkpoints *)

LEMMA HistoryKept ==
    ASSUME \A s \in Steps : Same(<<"step", s>>)
    PROVE  /\ StepDirs' = StepDirs /\ History' = History /\ WholeSteps' = WholeSteps
           /\ \A s \in StepDirs : Info(s)' = Info(s)
<1>1. StepDirs' = StepDirs
  BY DEF StepDirs, Same
<1>2. \A s \in Steps : Whole(<<"step", s>>)' <=> Whole(<<"step", s>>)
  BY SameIsWhole
<1>3. \A s \in StepDirs : disk'[<<"step", s>>] = disk[<<"step", s>>]
  BY DEF StepDirs, Same
<1> QED
  BY <1>1, <1>2, <1>3 DEF History, WholeSteps, Info

LEMMA RankKept ==
    ASSUME Types, UNCHANGED metric, \A i \in 1..Len(scores) : scores'[i] = scores[i],
           NEW s \in History, NEW t \in History, Info(s)' = Info(s), Info(t)' = Info(t)
    PROVE  RanksBefore(s, t)' <=> RanksBefore(s, t)
<1>1. Score(s)' = Score(s) /\ Score(t)' = Score(t)
  BY WholeIsHistory DEF Score, Info
<1> HIDE DEF Score
<1> QED
  BY <1>1 DEF RanksBefore

\* While checkpoints are removed, the driver's own is there, whole, and the latest.
LEMMA NextDriverInv ==
    ASSUME Types, SaveInv, DoomedInv, DriverInv, caller = "driver", [Next]_vars
    PROVE  DriverInv'
<1> USE DEF config, locals
<1>0. pc = "finalize" => ~Present(Target)
  <2> SUFFICES ASSUME pc = "finalize", Present(Target)
               PROVE  FALSE
    OBVIOUS
  <2>1. current \in Steps /\ current \in Int
    BY CheckpointConfig DEF SaveInv, Steps
  <2>2. current \in StepDirs
    BY <2>1 DEF StepDirs, Target
  <2>3. current < current
    BY <2>2 DEF DriverInv
  <2> QED
    BY <2>1, <2>3
<1>1. ASSUME NEW n \in Steps, NEW score \in Scores \cup {NoScore}, InitTmpCheckpoint(n, score)
      PROVE  DriverInv'
  <2>1. \A s \in Steps : Same(<<"step", s>>)
    BY <1>1, InitTmpDisk
  <2>2. StepDirs' = StepDirs /\ \A s \in Steps : Whole(<<"step", s>>)' <=> Whole(<<"step", s>>)
    BY <2>1, HistoryKept, SameIsWhole
  <2>3. pc = "training" /\ pc' = "writing" /\ current' = n /\ n > current
    BY <1>1 DEF InitTmpCheckpoint
  <2>4. \A s \in StepDirs' : s < current'
    BY <2>2, <2>3, WholeIsHistory, CheckpointConfig DEF DriverInv, Types, Steps
  <2> QED
    BY <2>2, <2>3, <2>4, WholeIsHistory DEF DriverInv
<1>2. CASE WriteFile
  <2>1. \A s \in Steps : Same(<<"step", s>>)
    BY <1>2, WriteFileDisk DEF Tmp
  <2>2. StepDirs' = StepDirs /\ \A s \in Steps : Whole(<<"step", s>>)' <=> Whole(<<"step", s>>)
    BY <2>1, HistoryKept, SameIsWhole
  <2>3. pc = "writing" /\ pc' \in {"writing", "finalize"} /\ UNCHANGED current
    BY <1>2 DEF WriteFile
  <2> QED
    BY <2>2, <2>3, WholeIsHistory DEF DriverInv
<1>3. CASE Publish
  <2>1. /\ pc = "finalize" /\ pc' = "remove_old" /\ UNCHANGED current
        /\ current \in Steps /\ Present(Tmp)
    BY <1>3 DEF Publish, SaveInv
  <2>2. /\ Target \in DOMAIN disk' /\ disk'[Target] = disk[Tmp]
        /\ \A d : d # Tmp /\ d # Target => Same(d)
    BY <1>3, <2>1, TypesOfDisk, Names, RenameDisk DEF Publish, Present
  <2>3. Whole(Target)' /\ Target' = Target
    BY <2>1, <2>2, PublishedIsWhole DEF Target
  <2>4. \A s \in Steps : s # current => Same(<<"step", s>>)
    BY <2>2 DEF Tmp, Target
  <2>5. StepDirs' \subseteq StepDirs \cup {current} /\ current \in StepDirs'
    BY <2>1, <2>2, <2>4 DEF StepDirs, Same, Present, Target
  <2>6. \A s \in StepDirs' : s <= current /\ s \in Int
    <3>1. current \in Int /\ \A s \in StepDirs : s \in Int
      BY <2>1, WholeIsHistory, CheckpointConfig DEF Steps
    <3>2. \A s \in StepDirs : s < current
      BY <2>1 DEF DriverInv
    <3> HIDE DEF StepDirs
    <3> QED
      BY <2>5, <3>1, <3>2
  <2>7. \A s \in StepDirs' : (\A t \in StepDirs' : t <= s) => s = current
    BY <2>5, <2>6
  <2> QED
    BY <2>1, <2>3, <2>6, <2>7 DEF DriverInv, Target
<1>4. CASE SetAside
  BY <1>0, <1>4 DEF SetAside
<1>5. CASE SetAsideFails
  BY <1>0, <1>5 DEF SetAsideFails
<1>6. CASE Replace
  BY <1>6 DEF Replace, DriverInv
<1>7. CASE RemoveOldCheckpoints
  <2>1. \A s \in Steps : Same(<<"step", s>>)
    BY <1>7 DEF RemoveOldCheckpoints, Same, Present
  <2>2. StepDirs' = StepDirs /\ \A s \in Steps : Whole(<<"step", s>>)' <=> Whole(<<"step", s>>)
    BY <2>1, HistoryKept, SameIsWhole
  <2>3. pc = "remove_old" /\ pc' = "pruning" /\ UNCHANGED current /\ doomed' = SurplusDirs
        /\ current \in Steps
    BY <1>7 DEF RemoveOldCheckpoints, SaveInv
  <2>4. \A i \in DOMAIN doomed' : doomed'[i] # Target
    <3>1. \A s \in Surplus : s # current
      BY WholeIsHistory, <2>3, CheckpointConfig DEF Surplus, DriverInv, Steps
    <3> QED
      BY <2>3, <3>1, SurplusIsListed DEF Target
  <2>5. Target' = Target /\ Whole(Target)
    BY <2>3 DEF Target, DriverInv
  <2> QED
    BY <2>2, <2>3, <2>4, <2>5, WholeIsHistory DEF DriverInv, Target
<1>8. ASSUME UNCHANGED <<pc, current>>, pc = "pruning", \A d : d # Head(doomed) => Same(d),
             doomed # <<>>, Head(doomed) \in DOMAIN disk' => Head(doomed) \in DOMAIN disk,
             \A i \in DOMAIN doomed' : \E j \in DOMAIN doomed : doomed'[i] = doomed[j]
      PROVE  DriverInv'
  <2>1. Head(doomed) = doomed[1] /\ 1 \in DOMAIN doomed
    BY <1>8 DEF Types
  <2>2. Target' = Target /\ Same(Target) /\ Whole(Target) /\ current \in Steps
    BY <1>8, <2>1 DEF DriverInv, Target, SaveInv
  <2>3. Whole(Target)' /\ Target \in DOMAIN disk'
    <3>1. Present(Target) /\ Contents(Target) = Files
      BY <2>2, WholeIs DEF Whole
    <3>2. disk'[Target] = disk[Target] /\ Target \in DOMAIN disk'
      BY <2>2, <3>1 DEF Same, Present
    <3> QED
      BY <2>2, <3>1, <3>2 DEF Whole, Contents, Present
  <2>4. StepDirs' \subseteq StepDirs
    BY <1>8 DEF StepDirs, Same, Present
  <2>5. current \in StepDirs'
    BY <2>2, <2>3 DEF StepDirs, Target, Present
  <2>6. \A s \in StepDirs' : s <= current /\ s \in Int /\ current \in Int
    BY <1>8, <2>2, <2>4, WholeIsHistory, CheckpointConfig DEF DriverInv, Steps
  <2>7. \A s \in StepDirs' : (\A t \in StepDirs' : t <= s) => s = current
    BY <2>5, <2>6
  <2> QED
    BY <1>8, <2>2, <2>3, <2>6, <2>7 DEF DriverInv, Target
<1>9. ASSUME NEW f \in Files, DeleteFile(f)
      PROVE  DriverInv'
  <2>1. /\ \A d : d # Head(doomed) => Same(d)
        /\ Head(doomed) \in DOMAIN disk
    BY <1>9, DeleteFileDisk
  <2>2. UNCHANGED <<pc, current, doomed>> /\ pc = "pruning" /\ doomed # <<>>
    BY <1>9 DEF DeleteFile, DriverInv
  <2> QED
    BY <1>8, <2>1, <2>2
<1>10. CASE DeleteDir
  <2>1. /\ \A d : d # Head(doomed) => Same(d)
        /\ Head(doomed) \notin DOMAIN disk'
    BY <1>10, DeleteDirDisk
  <2>2. UNCHANGED <<pc, current>> /\ pc = "pruning" /\ doomed # <<>> /\ doomed' = Tail(doomed)
    BY <1>10 DEF DeleteDir, DriverInv
  <2>3. \A i \in DOMAIN doomed' : i + 1 \in DOMAIN doomed /\ doomed'[i] = doomed[i + 1]
    BY <2>2 DEF Types
  <2> QED
    BY <1>8, <2>1, <2>2, <2>3
<1>11. ASSUME UNCHANGED disk, Removed \/ Crash \/ Resume \/ UNCHANGED vars
       PROVE  DriverInv'
  <2>1. \A s \in Steps : Same(<<"step", s>>)
    BY <1>11 DEF Same, Present
  <2>2. StepDirs' = StepDirs /\ \A s \in Steps : Whole(<<"step", s>>)' <=> Whole(<<"step", s>>)
    BY <2>1, HistoryKept, SameIsWhole
  <2>3. \A s \in StepDirs : (\A t \in StepDirs : t <= s) => Whole(<<"step", s>>)'
    BY <2>2, WholeIsHistory DEF DriverInv
  <2>4. CASE Removed
    BY <2>2, <2>3, <2>4 DEF Removed, DriverInv
  <2>5. CASE Crash
    BY <2>2, <2>3, <2>5 DEF Crash, DriverInv
  <2>6. CASE Resume
    <3>1. pc' = "training" /\ current' = LatestStep
      BY <2>6 DEF Resume
    <3>2. \A t \in StepDirs : t <= LatestStep
      BY LatestStepType
    <3> QED
      BY <2>2, <2>3, <3>1, <3>2 DEF DriverInv
  <2>7. CASE UNCHANGED vars
    <3>1. UNCHANGED <<pc, current, doomed, Target>>
      BY <2>7 DEF vars, Target
    <3>2. Whole(Target)' <=> Whole(Target)
      BY <1>11, <3>1 DEF Whole, Contents, Present
    <3> QED
      BY <2>2, <2>3, <3>1, <3>2 DEF DriverInv
  <2> QED
    BY <1>11, <2>4, <2>5, <2>6, <2>7
<1> QED
  BY <1>1, <1>2, <1>3, <1>4, <1>5, <1>6, <1>7, <1>9, <1>10, <1>11
     DEF Next, Removed, Crash, Resume, vars

ScoresKept == UNCHANGED metric /\ \A i \in 1..Len(scores) : scores'[i] = scores[i]

LEMMA PartialKept ==
    ASSUME Types, Types', PartialInv, ScoresKept,
           \A s \in WholeSteps : s \in WholeSteps' /\ Info(s)' = Info(s),
           \A t \in History' \ WholeSteps' : t \in History \ WholeSteps /\ Info(t)' = Info(t)
    PROVE  PartialInv'
<1> SUFFICES ASSUME NEW t \in History' \ WholeSteps'
             PROVE  Cardinality({s \in WholeSteps' : RanksBefore(s, t)'}) >= KeepTopK
  BY DEF PartialInv
<1> DEFINE before == {s \in WholeSteps : RanksBefore(s, t)}
           after == {s \in WholeSteps' : RanksBefore(s, t)'}
<1>1. Cardinality(before) >= KeepTopK
  BY DEF PartialInv
<1>2. before \subseteq after
  BY RankKept, WholeIsHistory DEF ScoresKept
<1>3. after \subseteq Steps
  BY DEF WholeSteps
<1>4. IsFiniteSet(after) /\ Cardinality(after) \in Nat
  BY <1>3, StepsAreFinite
<1>5. before \subseteq Steps
  BY DEF WholeSteps
<1>6. Cardinality(before) \in Nat
  BY <1>5, StepsAreFinite
<1> HIDE DEF before, after
<1>7. Cardinality(before) <= Cardinality(after)
  BY <1>2, <1>4, FS_Subset
<1>8. Cardinality(after) >= KeepTopK
  BY <1>1, <1>4, <1>6, <1>7, CheckpointConfig
<1> QED
  BY <1>8 DEF after

\* Whole checkpoints that rank before all partial ones make up for those.
EnoughKept ==
    \E kept \in SUBSET WholeSteps :
        /\ Cardinality(kept) >= KeepTopK
        /\ \A s \in kept, t \in History \ WholeSteps : RanksBefore(s, t)

LEMMA EnoughForPartial == EnoughKept => PartialInv
<1> SUFFICES ASSUME EnoughKept
             PROVE  PartialInv
  OBVIOUS
<1>0. PICK kept \in SUBSET WholeSteps :
         /\ Cardinality(kept) >= KeepTopK
         /\ \A s \in kept, t \in History \ WholeSteps : RanksBefore(s, t)
  BY DEF EnoughKept
<1> SUFFICES ASSUME NEW t \in History \ WholeSteps
             PROVE  Cardinality({s \in WholeSteps : RanksBefore(s, t)}) >= KeepTopK
  BY DEF PartialInv
<1> DEFINE before == {s \in WholeSteps : RanksBefore(s, t)}
<1>1. kept \subseteq before /\ before \subseteq Steps /\ kept \subseteq Steps
  BY <1>0 DEF WholeSteps
<1>2. IsFiniteSet(before) /\ Cardinality(before) \in Nat /\ Cardinality(kept) \in Nat
  BY <1>1, StepsAreFinite
<1>3. Cardinality(kept) <= Cardinality(before)
  BY <1>1, <1>2, FS_Subset
<1>4. Cardinality(before) >= KeepTopK
  <2> HIDE DEF before
  <2> QED
    BY <1>0, <1>2, <1>3, CheckpointConfig
<1> QED
  BY <1>4

\* What ranks behind KeepTopK others, and they behind nobody outside.
LEMMA TopIsWhole ==
    ASSUME Types, PartialInv
    PROVE  TopRanked \subseteq WholeSteps
<1> SUFFICES ASSUME NEW t \in History \ WholeSteps
             PROVE  ~(Rank(t) < KeepTopK)
  BY DEF TopRanked
<1> DEFINE whole == {s \in WholeSteps : RanksBefore(s, t)}
           all == {s \in History : RanksBefore(s, t)}
<1>1. whole \subseteq all /\ all \subseteq Steps /\ whole \subseteq Steps
  BY WholeIsHistory DEF WholeSteps
<1>2. IsFiniteSet(all) /\ Cardinality(all) \in Nat /\ Cardinality(whole) \in Nat
  BY <1>1, StepsAreFinite
<1>3. Cardinality(whole) <= Cardinality(all)
  BY <1>1, <1>2, FS_Subset
<1>4. Cardinality(whole) >= KeepTopK /\ Rank(t) = Cardinality(all)
  BY DEF PartialInv, Rank
<1> HIDE DEF whole, all
<1> QED
  BY <1>2, <1>3, <1>4, CheckpointConfig

LEMMA RemovalKeepsTop ==
    ASSUME Types, PartialInv, RemoveOldCheckpoints
    PROVE  KeptInv'
<1> USE DEF config, locals
<1> SUFFICES ASSUME doomed' # <<>>
             PROVE  KeptInv'
  BY DEF KeptInv
<1>1. doomed' = SurplusDirs /\ UNCHANGED <<disk, scores, metric>>
  BY DEF RemoveOldCheckpoints
<1>2. \A s \in Steps : Same(<<"step", s>>)
  BY <1>1 DEF Same, Present
<1>3. History' = History /\ WholeSteps' = WholeSteps
  BY <1>2, HistoryKept
<1>4. \A s, t : RanksBefore(s, t)' <=> RanksBefore(s, t)
  BY <1>1 DEF RanksBefore, Score
<1>5. ASSUME NEW s, IsDoomed(s)'
      PROVE  s \in Surplus
  BY <1>1, <1>5, SurplusIsListed DEF IsDoomed
<1>6. TopRanked \subseteq WholeSteps /\ TopRanked \subseteq History
  BY TopIsWhole DEF TopRanked
<1>7. PICK s0 \in History : Rank(s0) >= KeepTopK
  <2>0. SurplusDirs \in Seq(Dirs) /\ SurplusDirs # <<>>
    BY <1>1, SurplusIsListed
  <2>1. 1 \in DOMAIN SurplusDirs
    BY <2>0
  <2> QED
    BY <2>1, SurplusIsListed DEF Surplus
<1>8. Cardinality(TopRanked) >= KeepTopK
  BY <1>7, TopIsFull
<1>9. \A s \in TopRanked : s \notin Surplus
  BY RankIsNat, CheckpointConfig DEF Surplus, TopRanked
<1>10. ASSUME NEW s \in TopRanked, NEW t \in History, t \in Surplus \/ t \notin WholeSteps
       PROVE  RanksBefore(s, t)
  <2>1. Rank(t) \in Nat /\ ~(Rank(t) < KeepTopK)
    BY <1>6, <1>10, RankIsNat, CheckpointConfig DEF TopRanked, Surplus
  <2>2. Rank(s) \in Nat /\ Rank(s) < KeepTopK
    BY RankIsNat DEF TopRanked
  <2>3. Rank(s) < Rank(t)
    BY <2>1, <2>2, CheckpointConfig
  <2> QED
    BY <2>3, RankDecides, <1>6
<1>11. TopRanked \in SUBSET WholeSteps'
  BY <1>3, <1>6
<1>12. \A s \in TopRanked : ~IsDoomed(s)'
  BY <1>5, <1>9
<1>13. \A s \in TopRanked, t \in History' :
          IsDoomed(t)' \/ t \notin WholeSteps' => RanksBefore(s, t)'
  BY <1>3, <1>4, <1>5, <1>10
<1> QED
  BY <1>8, <1>11, <1>12, <1>13 DEF KeptInv

\* A file or a directory of a doomed checkpoint goes: those kept are left alone, and
\* rank before it still.
LEMMA RemovalGoesOn ==
    ASSUME Types, Types', KeptInv, UNCHANGED <<scores, metric>>, pc = "pruning", doomed # <<>>,
           \A d : d # Head(doomed) => Same(d),
           \A i \in DOMAIN doomed' : \E j \in DOMAIN doomed : doomed'[i] = doomed[j],
           \A t \in History' : t \in History /\ Info(t)' = Info(t)
    PROVE  PartialInv' /\ KeptInv'
<1>1. Head(doomed) = doomed[1] /\ 1 \in DOMAIN doomed
  BY DEF Types
<1>2. PICK kept \in SUBSET WholeSteps :
         /\ Cardinality(kept) >= KeepTopK
         /\ \A s \in kept : ~IsDoomed(s)
         /\ \A s \in kept, t \in History :
               IsDoomed(t) \/ t \notin WholeSteps => RanksBefore(s, t)
  BY DEF KeptInv
<1>3. \A s : ~IsDoomed(s) => Same(<<"step", s>>)
  BY <1>1 DEF IsDoomed
<1>4. \A s : IsDoomed(s)' => IsDoomed(s)
  BY DEF IsDoomed
<1>5. \A s \in Steps : ~IsDoomed(s) => (s \in WholeSteps' <=> s \in WholeSteps)
  BY <1>3, SameIsWhole DEF WholeSteps
<1>6. kept \in SUBSET WholeSteps' /\ \A s \in kept : ~IsDoomed(s)'
  BY <1>2, <1>4, <1>5 DEF WholeSteps
<1>7. \A s \in kept : s \in History /\ Info(s)' = Info(s)
  <2> SUFFICES ASSUME NEW s \in kept
               PROVE  s \in History /\ Info(s)' = Info(s)
    OBVIOUS
  <2>1. s \in History /\ Present(<<"step", s>>)
    BY WholeIsHistory DEF StepDirs
  <2>2. Same(<<"step", s>>)
    BY <1>2, <1>3
  <2> QED
    BY <2>1, <2>2 DEF Same, Info
<1>8. ASSUME NEW s \in kept, NEW t \in History', IsDoomed(t)' \/ t \notin WholeSteps'
      PROVE  RanksBefore(s, t)'
  <2>1. t \in History /\ t \in Steps /\ Info(t)' = Info(t)
    BY WholeIsHistory
  <2>2. IsDoomed(t) \/ t \notin WholeSteps
    BY <1>4, <1>5, <1>8, <2>1
  <2>3. RanksBefore(s, t)
    BY <1>2, <2>1, <2>2
  <2> QED
    BY <1>7, <2>1, <2>3, RankKept
<1>9. KeptInv'
  BY <1>2, <1>6, <1>8 DEF KeptInv
<1>10. PartialInv'
  <2>1. EnoughKept'
    BY <1>2, <1>6, <1>8 DEF EnoughKept
  <2> QED
    BY <2>1, EnoughForPartial, PTL
<1> QED
  BY <1>9, <1>10

LEMMA NextRetention ==
    ASSUME IInv, Types', caller = "driver", [Next]_vars
    PROVE  PartialInv' /\ KeptInv'
<1> USE DEF config, locals
<1>0. Types /\ SaveInv /\ DoomedInv /\ DriverInv /\ PartialInv /\ KeptInv
  BY DEF IInv
\* Most steps leave the checkpoints of all steps alone.
<1>1. ASSUME ScoresKept, \A s \in Steps : Same(<<"step", s>>)
      PROVE  PartialInv'
  <2>1. /\ History' = History /\ WholeSteps' = WholeSteps
        /\ \A s \in History : Info(s)' = Info(s)
    BY <1>1, HistoryKept, <1>0, WholeIsHistory
  <2> QED
    BY <1>0, <1>1, <2>1, WholeIsHistory, PartialKept
<1>2. ASSUME pc' # "pruning" \/ doomed' = <<>>
      PROVE  KeptInv'
  BY <1>2 DEF KeptInv
<1>3. ASSUME NEW n \in Steps, NEW score \in Scores \cup {NoScore}, InitTmpCheckpoint(n, score)
      PROVE  PartialInv' /\ KeptInv'
  <2>1. \A s \in Steps : Same(<<"step", s>>)
    BY <1>0, <1>3, InitTmpDisk
  <2>2. ScoresKept
    BY <1>0, <1>3, InitTmpDisk DEF InitTmpCheckpoint, ScoresKept
  <2>3. pc' # "pruning"
    BY <1>3 DEF InitTmpCheckpoint
  <2> QED
    BY <1>1, <1>2, <2>1, <2>2, <2>3
<1>4. CASE WriteFile
  <2>1. \A s \in Steps : Same(<<"step", s>>)
    BY <1>0, <1>4, WriteFileDisk DEF Tmp
  <2>2. ScoresKept /\ pc' # "pruning"
    BY <1>4 DEF WriteFile, ScoresKept
  <2> QED
    BY <1>1, <1>2, <2>1, <2>2
<1>5. CASE Publish
  <2>1. /\ pc' = "remove_old" /\ UNCHANGED <<current, scores, metric>> /\ ~Present(Target)
        /\ current \in Steps /\ Present(Tmp) /\ pc \in {"finalize", "replace"}
    BY <1>0, <1>5 DEF Publish, SaveInv
  <2>2. /\ \A d : d # Tmp /\ d # Target => Same(d)
        /\ Target \in DOMAIN disk' /\ disk'[Target] = disk[Tmp]
    BY <1>0, <1>5, <2>1, TypesOfDisk, Names, RenameDisk DEF Publish, Present
  <2>3. \A s \in Steps : s # current => Same(<<"step", s>>)
    BY <2>2 DEF Tmp, Target
  <2>4. current \notin StepDirs /\ Target' = Target /\ Whole(Target)'
    BY <1>0, <2>1, <2>2, PublishedIsWhole DEF StepDirs, Target
  <2>5. current \in WholeSteps'
    BY <2>1, <2>4 DEF WholeSteps, Target
  <2>6. ASSUME NEW s \in WholeSteps
        PROVE  s \in WholeSteps' /\ Info(s)' = Info(s)
    <3>1. s \in StepDirs /\ s # current /\ s \in Steps
      BY <1>0, <2>4, WholeIsHistory
    <3>2. Same(<<"step", s>>)
      BY <2>3, <3>1
    <3> QED
      BY <3>1, <3>2, SameIsWhole DEF WholeSteps, Same, Info, StepDirs
  <2>7. ASSUME NEW t \in History' \ WholeSteps'
        PROVE  t \in History \ WholeSteps /\ Info(t)' = Info(t)
    <3>1. t # current /\ t \in Steps
      BY <2>5 DEF History, StepDirs
    <3>2. Same(<<"step", t>>)
      BY <2>3, <3>1
    <3>3. t \notin WholeSteps
      BY <2>6
    <3>4. t \in StepDirs /\ disk'[<<"step", t>>] = disk[<<"step", t>>]
      BY <3>1, <3>2 DEF History, StepDirs, Same
    <3> QED
      BY <3>3, <3>4 DEF History, Info
  <2>8. ScoresKept
    BY <2>1 DEF ScoresKept
  <2> QED
    BY <1>0, <1>2, <2>1, <2>6, <2>7, <2>8, PartialKept
<1>6. CASE SetAside \/ SetAsideFails \/ Replace
  <2>1. pc' \in {"replace", "raised", "discard"}
    BY <1>6 DEF SetAside, SetAsideFails, Replace
  <2>2. DriverInv'
    BY <1>0, NextDriverInv
  <2> QED
    BY <2>1, <2>2 DEF DriverInv
<1>7. CASE RemoveOldCheckpoints
  <2>1. \A s \in Steps : Same(<<"step", s>>)
    BY <1>7 DEF RemoveOldCheckpoints, Same, Present
  <2>2. ScoresKept
    BY <1>7 DEF RemoveOldCheckpoints, ScoresKept
  <2> QED
    BY <1>0, <1>1, <1>7, <2>1, <2>2, RemovalKeepsTop
<1>8. ASSUME NEW f \in Files, DeleteFile(f)
      PROVE  PartialInv' /\ KeptInv'
  <2>1. /\ Head(doomed) \in DOMAIN disk
        /\ \A d : d # Head(doomed) => Same(d)
        /\ disk'[Head(doomed)] = [disk[Head(doomed)] EXCEPT ![f] = Missing]
    BY <1>0, <1>8, DeleteFileDisk
  <2>2. UNCHANGED <<scores, metric, pc, doomed>> /\ pc = "pruning" /\ doomed # <<>>
    BY <1>0, <1>8 DEF DeleteFile, DriverInv
  <2>3. \A i \in DOMAIN doomed' : \E j \in DOMAIN doomed : doomed'[i] = doomed[j]
    BY <2>2
  <2>4. ASSUME NEW t \in History'
        PROVE  t \in History /\ Info(t)' = Info(t)
    <3>1. t \in Steps /\ <<"step", t>> \in DOMAIN disk' /\ disk'[<<"step", t>>]["training_info"] # Missing
      BY <2>2 DEF History, StepDirs, Present
    <3>2. CASE <<"step", t>> # Head(doomed)
      BY <2>1, <3>1, <3>2 DEF History, StepDirs, Same, Present, Info
    <3>3. CASE <<"step", t>> = Head(doomed)
      <4>1. disk[Head(doomed)] \in [Files -> 0..Len(scores)] /\ "training_info" \in Files
        BY <1>0, <2>1, FileNames DEF Types
      <4>2. disk'[Head(doomed)]["training_info"] = disk[Head(doomed)]["training_info"]
        BY <2>1, <3>1, <3>3, <4>1
      <4> QED
        BY <2>1, <3>1, <3>3, <4>2 DEF History, StepDirs, Present, Info
    <3> QED
      BY <3>2, <3>3
  <2> QED
    BY <1>0, <2>1, <2>2, <2>3, <2>4, RemovalGoesOn
<1>9. CASE DeleteDir
  <2>1. /\ \A d : d # Head(doomed) => Same(d)
        /\ Head(doomed) \notin DOMAIN disk'
    BY <1>0, <1>9, DeleteDirDisk
  <2>2. UNCHANGED <<scores, metric, pc>> /\ pc = "pruning" /\ doomed # <<>> /\ doomed' = Tail(doomed)
    BY <1>0, <1>9 DEF DeleteDir, DriverInv
  <2>3. \A i \in DOMAIN doomed' : i + 1 \in DOMAIN doomed /\ doomed'[i] = doomed[i + 1]
    BY <1>0, <2>2 DEF Types
  <2>4. ASSUME NEW t \in History'
        PROVE  t \in History /\ Info(t)' = Info(t)
    <3>1. t \in Steps /\ <<"step", t>> \in DOMAIN disk' /\ disk'[<<"step", t>>]["training_info"] # Missing
      BY DEF History, StepDirs, Present
    <3>2. <<"step", t>> # Head(doomed)
      BY <2>1, <3>1
    <3> QED
      BY <2>1, <3>1, <3>2 DEF History, StepDirs, Same, Present, Info
  <2> QED
    BY <1>0, <2>1, <2>2, <2>3, <2>4, RemovalGoesOn
<1>10. CASE Removed \/ Crash \/ Resume
  <2>1. UNCHANGED <<disk, scores, metric>> /\ (pc' # "pruning" \/ doomed' = <<>>)
    BY <1>10 DEF Removed, Crash, Resume
  <2> QED
    BY <1>1, <1>2, <2>1 DEF Same, Present, ScoresKept
<1>11. CASE UNCHANGED vars
  <2>1. UNCHANGED <<disk, scores, metric, pc, doomed>>
    BY <1>11 DEF vars
  <2>2. PartialInv'
    BY <1>1, <2>1 DEF Same, Present, ScoresKept
  <2>3. /\ History' = History /\ WholeSteps' = WholeSteps
    BY <2>1, HistoryKept DEF Same, Present
  <2>4. \A s, t : RanksBefore(s, t)' <=> RanksBefore(s, t)
    BY <2>1 DEF RanksBefore, Score
  <2>5. \A s : IsDoomed(s)' <=> IsDoomed(s)
    BY <2>1 DEF IsDoomed
  <2> QED
    BY <1>0, <2>1, <2>2, <2>3, <2>4, <2>5 DEF KeptInv
<1> QED
  BY <1>3, <1>4, <1>5, <1>6, <1>7, <1>8, <1>9, <1>10, <1>11 DEF Next

LEMMA NextIInv == IInv /\ [Next]_vars => IInv'
<1> SUFFICES ASSUME IInv, [Next]_vars
             PROVE  IInv'
  OBVIOUS
<1>1. Types /\ SaveInv /\ DoomedInv
  BY DEF IInv
<1>2. Types' /\ SaveInv' /\ DoomedInv'
  <2>1. Types'
    BY <1>1, NextTypes
  <2> QED
    BY <1>1, <2>1, NextSaveInv, NextDoomedInv
<1>3. caller' = caller
  BY DEF Next, vars, config, locals, InitTmpCheckpoint, WriteFile, Publish, SetAside,
     SetAsideFails, Replace, RemoveOldCheckpoints, DeleteFile, DeleteDir, Removed, Crash, Resume
<1>4. ASSUME caller' = "driver"
      PROVE  DriverInv' /\ PartialInv' /\ KeptInv'
  <2>1. caller = "driver" /\ DriverInv
    BY <1>3, <1>4 DEF IInv
  <2>2. DriverInv'
    BY <1>1, <2>1, NextDriverInv
  <2> QED
    BY <1>2, <2>1, <2>2, NextRetention
<1> QED
  BY <1>2, <1>4 DEF IInv

LEMMA Invariance == Spec => []IInv
  BY InitIInv, NextIInv, PTL DEF Spec

\* Whatever an unfinished save or a removal cut short left behind, the directory a
\* driver resumes from (get_latest_checkpoint_path) is whole and of one save, for any
\* number of steps, saves and crashes.
THEOREM ResumesFromWhole == Spec => []ResumesFromWholeCheckpoint
<1>1. IInv => ResumesFromWholeCheckpoint
  <2> SUFFICES ASSUME IInv, caller = "driver", LatestStep # 0
               PROVE  Whole(<<"step", LatestStep>>)
    BY DEF ResumesFromWholeCheckpoint
  <2>1. LatestStep \in StepDirs /\ \A t \in StepDirs : t <= LatestStep
    BY LatestStepType DEF IInv
  <2> QED
    BY <2>1 DEF IInv, DriverInv
<1> QED
  BY <1>1, Invariance, PTL

\* A checkpoint set aside is given up only when the one that replaces it is there, whole
\* (the 'pseudo-atomic' renames of finalize_checkpoint).
THEOREM OldIsKept == Spec => OldKeptUntilReplaced
<1>1. ASSUME IInv, [Next]_vars, NEW o \in Steps,
             Whole(<<"old_step", o>>), ~Whole(<<"old_step", o>>)'
      PROVE  Whole(<<"step", o>>)'
  <2> USE DEF config, locals
  <2>0. Types /\ SaveInv /\ DoomedInv
    BY <1>1 DEF IInv
  <2>1. ASSUME Same(<<"old_step", o>>)
        PROVE  FALSE
    BY <1>1, <2>1, SameIsWhole
  <2>2. ASSUME NEW n \in Steps, NEW score \in Scores \cup {NoScore}, InitTmpCheckpoint(n, score)
        PROVE  FALSE
    BY <2>0, <2>1, <2>2, InitTmpDisk
  <2>3. CASE WriteFile
    BY <2>0, <2>1, <2>3, WriteFileDisk DEF Tmp
  <2>4. CASE Publish
    BY <2>0, <2>1, <2>4, TypesOfDisk, Names, RenameDisk DEF Publish, SaveInv, Tmp, Target
  <2>5. CASE SetAside
    <3>1. current \in Steps /\ Present(Target) /\ Contents(Old) = {}
      BY <2>0, <2>5 DEF SetAside, SaveInv
    <3>2. \A d : d # Target /\ d # Old => Same(d)
      BY <2>0, <2>5, <3>1, TypesOfDisk, Names, RenameDisk DEF SetAside
    <3>3. ~Whole(Old)
      BY <3>1, FileNames DEF Whole
    <3> QED
      BY <1>1, <2>1, <3>2, <3>3 DEF Old, Target
  <2>6. CASE Replace
    <3>1. current \in Steps /\ Present(Tmp)
      BY <2>0, <2>6 DEF Replace, SaveInv
    <3>2. \A d : d # Tmp /\ d # Target => Same(d)
      BY <2>0, <2>6, <3>1, TypesOfDisk, Names, RenameDisk DEF Replace
    <3> QED
      BY <2>1, <3>2 DEF Tmp, Target
  <2>7. ASSUME DeleteDir \/ \E f \in Files : DeleteFile(f)
        PROVE  Whole(<<"step", o>>)'
    <3>0. doomed # <<>> /\ pc \in {"discard", "pruning"} /\ UNCHANGED <<pc, current>>
      BY <2>7 DEF DeleteDir, DeleteFile
    <3>1. /\ doomed # <<>> /\ pc \in {"discard", "pruning"} /\ UNCHANGED <<pc, current>>
          /\ Head(doomed) = doomed[1] /\ 1 \in DOMAIN doomed
      BY <2>0, <3>0 DEF Types
    <3>2. \A d : d # Head(doomed) => Same(d)
      BY <2>0, <2>7, DeleteDirDisk, DeleteFileDisk
    <3>3. Head(doomed) = <<"old_step", o>>
      BY <2>1, <3>2
    <3>4. pc = "discard" /\ Head(doomed) = Old
      BY <2>0, <3>1, <3>3 DEF DoomedInv
    <3>5. current = o
      BY <3>3, <3>4 DEF Old
    <3>6. Whole(Target)'
      <4>1. DoomedInv'
        BY <1>1, <2>0, NextTypes, NextDoomedInv
      <4> QED
        BY <3>1, <3>4, <4>1 DEF DoomedInv
    <3> QED
      BY <3>1, <3>5, <3>6 DEF Target
  <2>8. ASSUME UNCHANGED disk
        PROVE  FALSE
    BY <2>1, <2>8 DEF Same, Present
  <2> QED
    BY <1>1, <2>2, <2>3, <2>4, <2>5, <2>6, <2>7, <2>8
       DEF Next, vars, SetAsideFails, RemoveOldCheckpoints, Removed, Crash, Resume
<1>2. IInv /\ [Next]_vars =>
         [\A s \in Steps : Whole(<<"old_step", s>>) /\ ~Whole(<<"old_step", s>>)' =>
                              Whole(<<"step", s>>)']_vars
  BY <1>1
<1> QED
  BY <1>2, Invariance, PTL DEF Spec, OldKeptUntilReplaced

-----------------------------------------------------------------------------
(* The promise *)

Entry(s) == [step |-> s, score |-> Score(s)]
Entries == {Entry(s) : s \in WholeSteps}

LEMMA PublishedIs == Published = IF caller = "driver" THEN Entries ELSE {}
BY DEF Published, Entries, Entry, WholeSteps

LEMMA EntriesKept ==
    ASSUME Types, ScoresKept, \A s \in Steps : Same(<<"step", s>>)
    PROVE  Entries' = Entries
<1>1. /\ WholeSteps' = WholeSteps
      /\ \A s \in WholeSteps : Info(s)' = Info(s) /\ Info(s) \in 1..Len(scores)
  BY HistoryKept, WholeIsHistory
<1>2. \A s \in WholeSteps : Entry(s)' = Entry(s)
  BY <1>1 DEF Entry, Score, Info, ScoresKept
<1> QED
  BY <1>1, <1>2 DEF Entries

LEMMA BetterIsRank ==
    ASSUME Types, NEW s \in History, NEW t \in History, RanksBefore(s, t)
    PROVE  Store!Better(Entry(s), Entry(t))
<1> DEFINE x == Score(s)
           y == Score(t)
<1>1. /\ x \in Int /\ (x = -1 \/ x \in Nat) /\ s \in Int
      /\ y \in Int /\ (y = -1 \/ y \in Nat) /\ t \in Int
      /\ NoScore = -1
  BY ScoresAreNumbers DEF NoScore
<1>2. /\ Entry(s).step = s /\ Entry(s).score = x /\ Entry(t).step = t /\ Entry(t).score = y
  BY DEF Entry
<1>3. metric \in {"none", "higher", "lower"}
  BY DEF Types
<1>4. CASE metric = "none"
  BY <1>2, <1>4 DEF RanksBefore, Store!Better, Store!BetterScore
<1>5. CASE metric = "higher"
  <2>1. x > y \/ (x = y /\ s > t)
    BY <1>5 DEF RanksBefore
  <2> HIDE DEF x, y
  <2> QED
    BY <1>1, <1>2, <1>5, <2>1 DEF Store!Better, Store!BetterScore
<1>6. CASE metric = "lower"
  <2>1. \/ y = NoScore /\ x # NoScore
        \/ x # NoScore /\ x < y
        \/ x = y /\ s > t
    BY <1>6 DEF RanksBefore
  <2> HIDE DEF x, y
  <2> QED
    BY <1>1, <1>2, <1>6, <2>1 DEF Store!Better, Store!BetterScore, Store!NoScore
<1> QED
  BY <1>3, <1>4, <1>5, <1>6

LEMMA EntriesAreFinite ==
    ASSUME NEW S \in SUBSET Entries
    PROVE  IsFiniteSet(S) /\ Cardinality(S) \in Nat
<1> DEFINE f == [s \in WholeSteps |-> Entry(s)]
<1>1. f \in Surjection(WholeSteps, Entries)
  BY DEF Surjection, Entries
<1>2. WholeSteps \subseteq Steps
  BY DEF WholeSteps
<1>3. IsFiniteSet(WholeSteps)
  BY <1>2, StepsAreFinite
<1>4. IsFiniteSet(Entries)
  BY <1>1, <1>3, FS_Surjection
<1> QED
  BY <1>4, FS_Subset, FS_CardinalityType

\* A new checkpoint appears whole, for a later step.
LEMMA PublishRefines ==
    ASSUME IInv, caller = "driver", caller' = "driver", Publish
    PROVE  Store!Next
<1> USE DEF config, locals
<1>0. Types /\ SaveInv /\ DriverInv
  BY DEF IInv
<1> DEFINE new == [step |-> current, score |-> scores[Len(scores)]]
<1>1. /\ UNCHANGED <<current, scores, metric>> /\ ~Present(Target)
      /\ current \in Steps /\ Present(Tmp) /\ pc = "finalize"
  BY <1>0 DEF Publish, SaveInv
<1>2. /\ \A d : d # Tmp /\ d # Target => Same(d)
      /\ Target \in DOMAIN disk' /\ disk'[Target] = disk[Tmp]
  BY <1>0, <1>1, TypesOfDisk, Names, RenameDisk DEF Publish, Present
<1>3. \A s \in Steps : s # current => Same(<<"step", s>>)
  BY <1>2 DEF Tmp, Target
<1>4. Target' = Target /\ Whole(Target)' /\ current \notin StepDirs
  BY <1>0, <1>1, <1>2, PublishedIsWhole DEF StepDirs, Target
<1>5. WholeSteps' = WholeSteps \cup {current} /\ current \notin WholeSteps
  <2>1. current \in WholeSteps'
    BY <1>1, <1>4 DEF WholeSteps, Target
  <2>2. current \notin WholeSteps
    BY <1>0, <1>4, WholeIsHistory
  <2>3. \A s \in Steps : s # current => (s \in WholeSteps' <=> s \in WholeSteps)
    BY <1>3, SameIsWhole DEF WholeSteps
  <2> QED
    BY <2>1, <2>2, <2>3 DEF WholeSteps
<1>6. Entry(current)' = new
  <2>1. disk'[Target]["training_info"] = Len(scores)
    BY <1>0, <1>1, <1>2, WrittenIsWhole, FileNames
  <2> QED
    BY <1>1, <2>1 DEF Entry, Score, Target
<1>7. \A s \in WholeSteps : Entry(s)' = Entry(s)
  <2> SUFFICES ASSUME NEW s \in WholeSteps
               PROVE  Entry(s)' = Entry(s)
    OBVIOUS
  <2>1. s \in Steps /\ s # current /\ s \in StepDirs
    BY <1>0, <1>5, WholeIsHistory
  <2>2. disk'[<<"step", s>>] = disk[<<"step", s>>]
    BY <1>3, <2>1 DEF Same, StepDirs
  <2> QED
    BY <1>1, <2>2 DEF Entry, Score
<1>8. Entries' = Entries \cup {new}
  BY <1>1, <1>5, <1>6, <1>7 DEF Entries
<1>9. new \in Store!Checkpoint
  BY <1>0, <1>1, WrittenIsWhole DEF Store!Checkpoint, Types, NoScore, Store!NoScore
<1>10. \A d \in Entries : d.step < new.step
  <2>1. \A s \in WholeSteps : s < current
    BY <1>0, <1>1, WholeIsHistory DEF DriverInv
  <2> QED
    BY <2>1 DEF Entries, Entry
<1>11. Published = Entries /\ Published' = Entries'
  BY DEF Published, Entries, Entry, WholeSteps
<1>12. Store!Publish(new)
  BY <1>1, <1>8, <1>10, <1>11 DEF Store!Publish
<1> QED
  BY <1>9, <1>12 DEF Store!Next

\* The first file removed of a whole checkpoint gives it up: KeepTopK better ones are there.
LEMMA DeleteRefines ==
    ASSUME IInv, caller = "driver", caller' = "driver", NEW f \in Files, DeleteFile(f)
    PROVE  Store!Next \/ UNCHANGED <<metric, Published>>
<1> USE DEF config, locals
<1>0. Types /\ SaveInv /\ DoomedInv /\ DriverInv /\ KeptInv
  BY DEF IInv
<1>1. /\ Head(doomed) \in DOMAIN disk
      /\ \A d : d # Head(doomed) => Same(d)
      /\ ~Whole(Head(doomed))'
  BY <1>0, DeleteFileDisk
<1>2. UNCHANGED <<scores, metric, pc, doomed, current>> /\ pc = "pruning" /\ doomed # <<>>
  BY <1>0 DEF DeleteFile, DriverInv
<1>3. Head(doomed) = doomed[1] /\ 1 \in DOMAIN doomed /\ doomed[1] \in Dirs
  BY <1>0, <1>2 DEF Types
<1>4. PICK g \in Steps : Head(doomed) = <<"step", g>>
  BY <1>0, <1>2, <1>3 DEF DoomedInv, Dirs
<1>5. WholeSteps' = WholeSteps \ {g}
  <2>1. \A s \in Steps : s # g => (s \in WholeSteps' <=> s \in WholeSteps)
    BY <1>1, <1>4, SameIsWhole DEF WholeSteps
  <2>2. g \notin WholeSteps'
    BY <1>1, <1>2, <1>4 DEF WholeSteps
  <2> QED
    BY <2>1, <2>2 DEF WholeSteps
<1>6. \A s \in WholeSteps : s # g => Entry(s)' = Entry(s)
  <2> SUFFICES ASSUME NEW s \in WholeSteps, s # g
               PROVE  Entry(s)' = Entry(s)
    OBVIOUS
  <2>1. disk'[<<"step", s>>] = disk[<<"step", s>>]
    BY <1>0, <1>1, <1>4, WholeIsHistory DEF Same, StepDirs
  <2> QED
    BY <1>2, <2>1 DEF Entry, Score
<1>7. Published = Entries /\ Published' = Entries'
  BY DEF Published, Entries, Entry, WholeSteps
<1>8. CASE g \notin WholeSteps
  <2>1. Entries' = Entries
    BY <1>5, <1>6, <1>8 DEF Entries
  <2> QED
    BY <1>2, <1>7, <2>1
<1>9. CASE g \in WholeSteps
  <2>1. \A s \in WholeSteps : s # g => Entry(s) # Entry(g)
    BY DEF Entry
  <2>2. Entries' = Entries \ {Entry(g)}
    BY <1>5, <1>6, <2>1 DEF Entries
  <2>3. ~Store!Latest(Entry(g))
    <3>1. current \in WholeSteps /\ current # g
      BY <1>0, <1>2, <1>3, <1>4 DEF DriverInv, SaveInv, WholeSteps, Target
    <3>2. g <= current /\ g \in Int /\ current \in Int
      BY <1>0, <1>2, <1>9, <3>1, WholeIsHistory, CheckpointConfig DEF DriverInv, Steps
    <3>3. Entry(current) \in Entries /\ ~(Entry(current).step <= Entry(g).step)
      BY <3>1, <3>2 DEF Entries, Entry
    <3> QED
      BY <3>3, <1>7 DEF Store!Latest
  <2>4. Cardinality({d \in Entries : Store!Better(d, Entry(g))}) >= KeepTopK
    <3> DEFINE better == {d \in Entries : Store!Better(d, Entry(g))}
    <3>1. PICK kept \in SUBSET WholeSteps :
             /\ Cardinality(kept) >= KeepTopK
             /\ \A s \in kept, t \in History :
                   IsDoomed(t) \/ t \notin WholeSteps => RanksBefore(s, t)
      BY <1>0, <1>2 DEF KeptInv
    <3>2. g \in History /\ IsDoomed(g)
      BY <1>0, <1>3, <1>4, <1>9, WholeIsHistory DEF IsDoomed
    <3>3. \A s \in kept : Entry(s) \in better
      BY <1>0, <3>1, <3>2, WholeIsHistory, BetterIsRank DEF Entries
    <3> DEFINE h == [s \in kept |-> Entry(s)]
    <3>4. h \in Injection(kept, better)
      <4>1. h \in [kept -> better]
        BY <3>3
      <4>2. \A s, t \in kept : h[s] = h[t] => s = t
        BY DEF Entry
      <4> QED
        BY <4>1, <4>2 DEF Injection, IsInjective
    <3>5. IsFiniteSet(better) /\ Cardinality(better) \in Nat
      BY EntriesAreFinite
    <3> HIDE DEF better, h
    <3>6. Cardinality(kept) <= Cardinality(better)
      BY <3>4, <3>5, FS_Injection
    <3>7. kept \subseteq Steps
      BY DEF WholeSteps
    <3>8. Cardinality(kept) \in Nat
      BY <3>7, StepsAreFinite
    <3>9. Cardinality(better) >= KeepTopK
      BY <3>1, <3>5, <3>6, <3>8, CheckpointConfig
    <3> QED
      BY <3>9 DEF better
  <2>5. Store!Forget(Entry(g))
    BY <1>2, <2>2, <2>3, <2>4, <1>7 DEF Store!Forget, Store!Cardinality, Cardinality
  <2>6. Entry(g) \in Published
    BY <1>9, <1>7 DEF Entries
  <2> QED
    BY <2>5, <2>6 DEF Store!Next
<1> QED
  BY <1>8, <1>9

LEMMA StepRefines ==
    ASSUME IInv, IInv', [Next]_vars
    PROVE  [Store!Next]_(Store!vars)
<1> USE DEF config, locals
<1>1. caller' = caller /\ metric' = metric
  BY DEF Next, vars, InitTmpCheckpoint, WriteFile, Publish, SetAside,
     SetAsideFails, Replace, RemoveOldCheckpoints, DeleteFile, DeleteDir, Removed, Crash, Resume
<1> SUFFICES Store!Next \/ UNCHANGED <<metric, Published>>
  BY DEF Store!vars
<1>2. CASE caller # "driver"
  BY <1>1, <1>2, PublishedIs DEF Published
<1>3. ASSUME caller = "driver"
      PROVE  Store!Next \/ UNCHANGED <<metric, Published>>
  <2>0. caller' = "driver" /\ Types /\ SaveInv /\ DriverInv /\ DriverInv'
    BY <1>1, <1>3 DEF IInv
  <2>1. Published = Entries /\ Published' = Entries'
    BY <1>3, <2>0 DEF Published, Entries, Entry, WholeSteps
  <2>2. ASSUME ScoresKept, \A s \in Steps : Same(<<"step", s>>)
        PROVE  UNCHANGED <<metric, Published>>
    BY <1>1, <2>0, <2>1, <2>2, EntriesKept
  <2>3. ASSUME NEW n \in Steps, NEW score \in Scores \cup {NoScore}, InitTmpCheckpoint(n, score)
        PROVE  UNCHANGED <<metric, Published>>
    <3>1. \A s \in Steps : Same(<<"step", s>>)
      BY <2>0, <2>3, InitTmpDisk
    <3>2. ScoresKept
      BY <1>1, <2>0, <2>3, InitTmpDisk DEF ScoresKept
    <3> QED
      BY <2>2, <3>1, <3>2
  <2>4. CASE WriteFile
    <3>1. \A s \in Steps : Same(<<"step", s>>)
      BY <2>0, <2>4, WriteFileDisk DEF Tmp
    <3>2. ScoresKept
      BY <2>4 DEF WriteFile, ScoresKept
    <3> QED
      BY <2>2, <3>1, <3>2
  <2>5. CASE SetAside \/ SetAsideFails \/ Replace
    BY <2>0, <2>5 DEF DriverInv, SetAside, SetAsideFails, Replace
  <2>6. CASE DeleteDir
    <3>1. /\ \A d : d # Head(doomed) => Same(d)
          /\ Head(doomed) \notin DOMAIN disk' /\ ~Whole(Head(doomed))
      BY <2>0, <2>6, DeleteDirDisk
    <3>2. UNCHANGED <<scores, metric>>
      BY <2>6 DEF DeleteDir
    <3>3. \A s \in Steps : Whole(<<"step", s>>)' <=> Whole(<<"step", s>>)
      <4> SUFFICES ASSUME NEW s \in Steps
                   PROVE  Whole(<<"step", s>>)' <=> Whole(<<"step", s>>)
        OBVIOUS
      <4>1. CASE <<"step", s>> = Head(doomed)
        BY <3>1, <4>1, FileNames DEF Whole, Contents, Present
      <4>2. CASE <<"step", s>> # Head(doomed)
        BY <3>1, <4>2, SameIsWhole
      <4> QED
        BY <4>1, <4>2
    <3>4. WholeSteps' = WholeSteps
      BY <3>3 DEF WholeSteps
    <3>5. \A s \in WholeSteps : Entry(s)' = Entry(s)
      <4> SUFFICES ASSUME NEW s \in WholeSteps
                   PROVE  Entry(s)' = Entry(s)
        OBVIOUS
      <4>1. <<"step", s>> # Head(doomed) /\ s \in StepDirs
        BY <2>0, <3>1, WholeIsHistory DEF WholeSteps
      <4>2. disk'[<<"step", s>>] = disk[<<"step", s>>]
        BY <3>1, <4>1 DEF Same, StepDirs
      <4> QED
        BY <3>2, <4>2 DEF Entry, Score
    <3>6. Entries' = Entries
      BY <3>4, <3>5 DEF Entries
    <3> QED
      BY <2>1, <3>2, <3>6
  <2>7. ASSUME UNCHANGED <<disk, scores>>
        PROVE  UNCHANGED <<metric, Published>>
    BY <1>1, <2>2, <2>7 DEF Same, Present, ScoresKept
  <2> QED
    BY <1>3, <2>0, <2>3, <2>4, <2>5, <2>6, <2>7, PublishRefines, DeleteRefines
       DEF Next, vars, RemoveOldCheckpoints, Removed, Crash, Resume
<1> QED
  BY <1>2, <1>3

\* A driver's checkpoints, with crashes between any two calls to the file system, appear
\* whole, the latest is never given up, and any other only when KeepTopK better ones are
\* there: the promise of CheckpointStore, for any bounds, scores and KeepTopK.
THEOREM KeepsThePromise == Spec => ImplementsStore
<1>1. Init => Store!Init
  <2> SUFFICES ASSUME Init
               PROVE  Store!Init
    OBVIOUS
  <2>1. Entries = {}
    BY FileNames DEF Init, Entries, WholeSteps, Whole, Contents, Present
  <2> QED
    BY <2>1, PublishedIs DEF Init, Store!Init
<1> QED
  BY <1>1, StepRefines, Invariance, PTL DEF Spec, ImplementsStore, Store!Spec

-----------------------------------------------------------------------------
(* What follows from the promise *)

PromiseInv == Store!TypeOK /\ Store!OnePerStep

LEMMA StepsAreNat == Steps \subseteq Nat
BY CheckpointConfig DEF Steps

LEMMA PromiseKeeps ==
    ASSUME PromiseInv, [Store!Next]_(Store!vars)
    PROVE  /\ PromiseInv'
           /\ \A c \in Published : \E d \in Published' : d.step >= c.step
<1> USE DEF PromiseInv, Store!TypeOK, Store!OnePerStep
<1>0. \A c \in Published : c.step \in Nat
  BY StepsAreNat DEF Store!Checkpoint
<1>1. ASSUME NEW p \in Store!Checkpoint, Store!Publish(p)
      PROVE  PromiseInv' /\ \A c \in Published : \E d \in Published' : d.step >= c.step
  <2>1. p.step \in Nat /\ \A d \in Published : d.step < p.step
    BY <1>1, StepsAreNat DEF Store!Publish, Store!Checkpoint
  <2>2. \A d \in Published : d.step # p.step /\ d.step >= d.step
    BY <1>0, <2>1
  <2> QED
    BY <1>1, <2>2 DEF Store!Publish
<1>2. ASSUME NEW g \in Published, Store!Forget(g)
      PROVE  PromiseInv' /\ \A c \in Published : \E d \in Published' : d.step >= c.step
  <2>1. PICK e \in Published : ~(e.step <= g.step)
    BY <1>2 DEF Store!Forget, Store!Latest
  <2>2. e.step >= g.step /\ e # g /\ \A c \in Published : c.step >= c.step
    BY <1>0, <2>1
  <2> QED
    BY <1>2, <2>2 DEF Store!Forget
<1>3. CASE UNCHANGED Store!vars
  <2>1. \A c \in Published : c.step >= c.step
    BY <1>0
  <2> QED
    BY <1>3, <2>1 DEF Store!vars
<1> QED
  BY <1>1, <1>2, <1>3 DEF Store!Next

LEMMA PromiseInvariance == Store!Spec => []PromiseInv
<1>1. Store!Init => PromiseInv
  BY DEF Store!Init, PromiseInv, Store!TypeOK, Store!OnePerStep
<1>2. PromiseInv /\ [Store!Next]_(Store!vars) => PromiseInv'
  BY PromiseKeeps
<1> QED
  BY <1>1, <1>2, PTL DEF Store!Spec

\* A step has one checkpoint at most: resuming from step N is resuming from the one save
\* that published it.
THEOREM OneCheckpointPerStep == Spec => []Store!OnePerStep
<1>1. PromiseInv => Store!OnePerStep
  BY DEF PromiseInv
<1> QED
  BY <1>1, KeepsThePromise, PromiseInvariance, PTL DEF ImplementsStore

\* Saved progress is never lost: whatever retention does and wherever the process dies,
\* something as recent is there, so the step a driver resumes from never goes back.
THEOREM ResumePointNeverGoesBack == Spec => Store!NeverBack
<1>1. PromiseInv /\ [Store!Next]_(Store!vars)
        => [\A c \in Published : \E d \in Published' : d.step >= c.step]_(Store!vars)
  BY PromiseKeeps
<1>2. Store!Spec => Store!NeverBack
  BY <1>1, PromiseInvariance, PTL DEF Store!Spec, Store!NeverBack
<1> QED
  BY <1>2, KeepsThePromise, PTL DEF ImplementsStore

=============================================================================
