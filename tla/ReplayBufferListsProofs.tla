---------------------- MODULE ReplayBufferListsProofs ----------------------
(***************************************************************************)
(* The three lists of the ReplayBuffer actor and its pops of indices do     *)
(* what one list of records would, for any buffer size, age, number of      *)
(* groups and sequence of calls.                                            *)
(***************************************************************************)
EXTENDS ReplayBufferLists, TLAPS, FiniteSetTheorems, SequenceTheorems, WellFoundedInduction

\* The lists are as long as each other.
Aligned ==
    /\ trajectories \in Seq(Trajectories)
    /\ trajectory_versions \in Seq(Versions)
    /\ target_weight_versions \in Seq(Versions)
    /\ Len(trajectory_versions) = Len(trajectories)
    /\ Len(target_weight_versions) = Len(trajectories)

\* The members of a set of numbers in their order.
Increasing(s) == \A i, j \in 1..Len(s) : i < j => s[i] < s[j]
Lists(s, S) ==
    /\ s \in Seq(S)
    /\ Increasing(s)
    /\ \A k \in S : \E i \in 1..Len(s) : s[i] = k

Identity(n) == [i \in 1..n |-> i]
At(list, indices) == [i \in 1..Len(indices) |-> list[indices[i]]]

-----------------------------------------------------------------------------
(* Recursion over lists *)

Descents == {p \in Nat \X Nat : p[1] < p[2]}

LEMMA LeastExists ==
    ASSUME NEW S \in SUBSET Nat, S # {}
    PROVE  \E x \in S : \A y \in S : x <= y
<1>1. IsWellFoundedOn(Descents, Nat)
  BY NatLessThanWellFounded, Zenon DEF OpToRel, Descents
<1>2. PICK x \in S : \A y \in S : ~(<<y, x>> \in Descents)
  BY <1>1, WFMin, Zenon
<1>3. ASSUME NEW y \in S PROVE x <= y
  <2>1. x \in Nat /\ y \in Nat
    OBVIOUS
  <2>2. y < x => <<y, x>> \in Descents
    BY <2>1 DEF Descents
  <2>3. ~(y < x)
    BY <1>2, <2>2, Zenon
  <2> QED
    BY <2>1, <2>3
<1> QED
  BY <1>3

\* Induction up to a bound, of membership in a set.
LEMMA Induction ==
    ASSUME NEW n \in Nat, NEW S, 0 \in S, \A k \in 0..(n - 1) : k \in S => k + 1 \in S
    PROVE  0..n \subseteq S
<1> SUFFICES ASSUME (0..n) \ S # {}
             PROVE  FALSE
  OBVIOUS
<1>1. PICK x \in (0..n) \ S : \A y \in (0..n) \ S : x <= y
  BY LeastExists, (0..n) \ S \in SUBSET Nat
<1>2. x - 1 \in 0..(n - 1) /\ x - 1 \in S
  BY <1>1
<1> QED
  BY <1>1, <1>2

KeptFrom(list, set, n, f) ==
    f = [k \in 0..n |->
            IF k = 0 THEN <<>>
            ELSE IF list[k] \in set THEN Append(f[k - 1], list[k]) ELSE f[k - 1]]

\* Kept computes what its recursion says.
LEMMA KeptExists ==
    ASSUME NEW list, NEW set, Len(list) \in Nat
    PROVE  \E f : KeptFrom(list, set, Len(list), f) /\ Kept(list, set) = f[Len(list)]
<1> DEFINE n == Len(list)
           S == {m \in 0..n : \E f : KeptFrom(list, set, m, f)}
           next(f, k) == IF list[k] \in set THEN Append(f[k - 1], list[k]) ELSE f[k - 1]
<1>1. 0 \in S
  <2>1. KeptFrom(list, set, 0, [k \in 0..0 |-> <<>>])
    BY DEF KeptFrom
  <2> QED
    BY <2>1
<1>2. ASSUME NEW m \in 0..(n - 1), m \in S
      PROVE  m + 1 \in S
  <2>1. PICK f : KeptFrom(list, set, m, f)
    BY <1>2
  <2> DEFINE g == [k \in 0..(m + 1) |-> IF k = m + 1 THEN next(f, k) ELSE f[k]]
  <2>2. \A k \in 0..m : g[k] = f[k]
    OBVIOUS
  <2>3. \A k \in 1..(m + 1) : k - 1 \in 0..m /\ g[k - 1] = f[k - 1]
    BY <2>2
  <2>4. \A k \in 0..m : f[k] = IF k = 0 THEN <<>> ELSE next(f, k)
    BY <2>1 DEF KeptFrom
  <2>5. \A k \in 0..(m + 1) : g[k] = IF k = 0 THEN <<>> ELSE next(g, k)
    BY <2>3, <2>4
  <2>6. KeptFrom(list, set, m + 1, g)
    BY <2>5 DEF KeptFrom
  <2> QED
    BY <2>6
<1>3. 0..n \subseteq S
  <2> HIDE DEF S
  <2> QED
    BY <1>1, <1>2, Induction
<1>4. \E f : KeptFrom(list, set, n, f)
  BY <1>3
<1> DEFINE g == CHOOSE g : KeptFrom(list, set, n, g)
<1>5. KeptFrom(list, set, n, g)
  BY <1>4
<1>6. Kept(list, set) = g[n]
  BY DEF Kept, KeptFrom
<1> QED
  BY <1>5, <1>6

LeftFrom(list, selected, n, f) ==
    f = [k \in 0..n |->
            IF k = 0 THEN list
            ELSE RemoveAt(f[k - 1], selected[Len(selected) - k + 1])]

\* So does PopAll.
LEMMA LeftExists ==
    ASSUME NEW list, NEW selected, Len(selected) \in Nat
    PROVE  \E f : /\ LeftFrom(list, selected, Len(selected), f)
                  /\ PopAll(list, selected) = f[Len(selected)]
<1> DEFINE n == Len(selected)
           S == {m \in 0..n : \E f : LeftFrom(list, selected, m, f)}
           next(f, k) == RemoveAt(f[k - 1], selected[n - k + 1])
<1>1. 0 \in S
  <2>1. LeftFrom(list, selected, 0, [k \in 0..0 |-> list])
    BY DEF LeftFrom
  <2> QED
    BY <2>1
<1>2. ASSUME NEW m \in 0..(n - 1), m \in S
      PROVE  m + 1 \in S
  <2>1. PICK f : LeftFrom(list, selected, m, f)
    BY <1>2
  <2> DEFINE g == [k \in 0..(m + 1) |-> IF k = m + 1 THEN next(f, k) ELSE f[k]]
  <2>2. \A k \in 0..m : g[k] = f[k]
    OBVIOUS
  <2>3. \A k \in 1..(m + 1) : k - 1 \in 0..m /\ g[k - 1] = f[k - 1]
    BY <2>2
  <2>4. \A k \in 0..m : f[k] = IF k = 0 THEN list ELSE next(f, k)
    BY <2>1 DEF LeftFrom
  <2>5. \A k \in 0..(m + 1) : g[k] = IF k = 0 THEN list ELSE next(g, k)
    BY <2>3, <2>4
  <2>6. LeftFrom(list, selected, m + 1, g)
    BY <2>5 DEF LeftFrom
  <2> QED
    BY <2>6
<1>3. 0..n \subseteq S
  <2> HIDE DEF S
  <2> QED
    BY <1>1, <1>2, Induction
<1>4. \E f : LeftFrom(list, selected, n, f)
  BY <1>3
<1> DEFINE g == CHOOSE g : LeftFrom(list, selected, n, g)
<1>5. LeftFrom(list, selected, n, g)
  BY <1>4
<1>6. PopAll(list, selected) = g[n]
  BY DEF PopAll, LeftFrom
<1> QED
  BY <1>5, <1>6

-----------------------------------------------------------------------------
(* Enumerations *)

LEMMA ListsFacts ==
    ASSUME NEW S, NEW s, Lists(s, S)
    PROVE  /\ s \in Seq(S) /\ Len(s) \in Nat
           /\ \A i \in 1..Len(s) : s[i] \in S
           /\ \A i, j \in 1..Len(s) : i < j => s[i] < s[j]
           /\ \A k \in S : \E i \in 1..Len(s) : s[i] = k
<1>1. s \in Seq(S) /\ Len(s) \in Nat
  BY DEF Lists
<1>2. \A i \in 1..Len(s) : s[i] \in S
  BY <1>1
<1> QED
  BY <1>1, <1>2 DEF Lists, Increasing

LEMMA ListsOneMore ==
    ASSUME NEW S \in SUBSET Nat, NEW s, Lists(s, S), NEW x \in Nat, \A k \in S : k < x
    PROVE  Lists(Append(s, x), S \cup {x})
<1> DEFINE t == Append(s, x)
           T == S \cup {x}
<1>1. s \in Seq(S) /\ Len(s) \in Nat /\ \A i \in 1..Len(s) : s[i] \in S
  BY DEF Lists
<1>2. /\ s \in Seq(T) /\ x \in T
      /\ Len(t) = Len(s) + 1 /\ t[Len(s) + 1] = x
      /\ \A i \in 1..Len(s) : t[i] = s[i]
  BY <1>1
<1>3. t \in Seq(T)
  BY <1>2
<1>4. \A i \in 1..Len(s) : t[i] < t[Len(s) + 1]
  BY <1>1, <1>2
<1>5. Increasing(t)
  <2> HIDE DEF t
  <2> SUFFICES ASSUME NEW i \in 1..Len(t), NEW j \in 1..Len(t), i < j
               PROVE  t[i] < t[j]
    BY DEF Increasing
  <2>1. CASE j = Len(s) + 1
    BY <1>1, <1>2, <1>4, <2>1
  <2>2. CASE j # Len(s) + 1
    BY <1>1, <1>2, <2>2 DEF Lists, Increasing
  <2> QED
    BY <2>1, <2>2
<1>6. \A k \in T : \E i \in 1..Len(t) : t[i] = k
  <2> HIDE DEF t
  <2>1. ASSUME NEW k \in S PROVE \E i \in 1..Len(t) : t[i] = k
    <3>1. PICK i \in 1..Len(s) : s[i] = k
      BY DEF Lists
    <3> QED
      BY <1>1, <1>2, <3>1
  <2>2. Len(s) + 1 \in 1..Len(t)
    BY <1>1, <1>2
  <2> QED
    BY <1>2, <2>1, <2>2
<1> QED
  BY <1>3, <1>5, <1>6 DEF Lists

\* A comprehension over an increasing list enumerates what it lets pass.
LEMMA KeptLists ==
    ASSUME NEW list \in Seq(Nat), Increasing(list), NEW set
    PROVE  Lists(Kept(list, set), {list[i] : i \in 1..Len(list)} \cap set)
<1> DEFINE n == Len(list)
           Seen(k) == {list[i] : i \in 1..k} \cap set
<1>0. n \in Nat
  OBVIOUS
<1>1. PICK f : KeptFrom(list, set, n, f) /\ Kept(list, set) = f[n]
  BY KeptExists
<1>2. \A k \in 0..n : f[k] = IF k = 0 THEN <<>>
                             ELSE IF list[k] \in set THEN Append(f[k - 1], list[k]) ELSE f[k - 1]
  BY <1>1 DEF KeptFrom
<1> DEFINE S == {k \in 0..n : Lists(f[k], Seen(k))}
<1>3. 0 \in S
  <2>1. f[0] = <<>> /\ Seen(0) = {}
    BY <1>2
  <2>2. Lists(<<>>, {})
    BY DEF Lists, Increasing
  <2> HIDE DEF Seen
  <2>3. Lists(f[0], Seen(0))
    BY <2>1, <2>2
  <2> QED
    BY <1>0, <2>3
<1>4. ASSUME NEW k \in 0..(n - 1), k \in S
      PROVE  k + 1 \in S
  <2>1. Lists(f[k], Seen(k)) /\ k + 1 \in 1..n /\ list[k + 1] \in Nat
    BY <1>4
  <2>2. f[k + 1] = IF list[k + 1] \in set THEN Append(f[k], list[k + 1]) ELSE f[k]
    BY <1>2, <2>1
  <2>3. Seen(k) \in SUBSET Nat /\ \A m \in Seen(k) : m < list[k + 1]
    <3>1. \A i \in 1..k : i \in 1..n /\ i < k + 1
      BY <2>1
    <3>2. \A i \in 1..k : list[i] \in Nat /\ list[i] < list[k + 1]
      BY <2>1, <3>1 DEF Increasing
    <3> QED
      BY <3>2
  <2>4. Seen(k + 1) = Seen(k) \cup ({list[k + 1]} \cap set)
    BY <2>1
  <2>5. Lists(f[k + 1], Seen(k + 1))
    <3> HIDE DEF Seen
    <3>1. CASE list[k + 1] \in set
      <4>1. Seen(k + 1) = Seen(k) \cup {list[k + 1]}
        BY <2>4, <3>1
      <4> QED
        BY <2>1, <2>2, <2>3, <3>1, <4>1, ListsOneMore, SMTT(40)
    <3>2. CASE list[k + 1] \notin set
      <4>1. Seen(k + 1) = Seen(k)
        BY <2>4, <3>2
      <4> QED
        BY <2>1, <2>2, <3>2, <4>1
    <3> QED
      BY <3>1, <3>2
  <2> QED
    BY <2>1, <2>5
<1>5. 0..n \subseteq S
  <2> HIDE DEF S
  <2> QED
    BY <1>0, <1>3, <1>4, Induction
<1>6. Lists(f[n], Seen(n))
  <2> HIDE DEF Seen
  <2>1. n \in S
    BY <1>0, <1>5
  <2> QED
    BY <2>1
<1> QED
  BY <1>1, <1>6

\* An enumeration is as long as the set has members, and is one of ReplayBuffer's.
LEMMA ListsCount ==
    ASSUME NEW S \in SUBSET Nat, NEW s, Lists(s, S)
    PROVE  /\ IsFiniteSet(S) /\ Cardinality(S) = Len(s)
           /\ s \in Buffer!Enumerations(S)
<1>1. /\ Len(s) \in Nat /\ s \in [1..Len(s) -> S]
      /\ \A i, j \in 1..Len(s) : i < j => s[i] < s[j]
      /\ \A k \in S : \E i \in 1..Len(s) : s[i] = k
      /\ \A i \in 1..Len(s) : s[i] \in Nat
  <2>1. /\ s \in Seq(S) /\ Len(s) \in Nat /\ \A i \in 1..Len(s) : s[i] \in S
        /\ \A i, j \in 1..Len(s) : i < j => s[i] < s[j]
        /\ \A k \in S : \E i \in 1..Len(s) : s[i] = k
    BY ListsFacts
  <2>2. s \in [1..Len(s) -> S]
    BY <2>1
  <2> QED
    BY <2>1, <2>2
<1>2. s \in Bijection(1..Len(s), S)
  <2>1. ASSUME NEW i \in 1..Len(s), NEW j \in 1..Len(s), s[i] = s[j]
        PROVE  i = j
    <3>1. ~(i < j) /\ ~(j < i)
      BY <1>1, <2>1
    <3> QED
      BY <1>1, <3>1
  <2> QED
    BY <1>1, <2>1 DEF Bijection, Injection, Surjection, IsInjective
<1>3. IsFiniteSet(1..Len(s)) /\ Cardinality(1..Len(s)) = Len(s)
  BY <1>1, FS_Interval, SMTT(40)
<1>4. IsFiniteSet(S) /\ Cardinality(S) = Len(s)
  BY <1>2, <1>3, FS_Bijection DEF ExistsBijection
<1>5. Buffer!Cardinality(S) = Cardinality(S)
  BY DEF Buffer!Cardinality, Cardinality
<1> QED
  BY <1>1, <1>4, <1>5 DEF Buffer!Enumerations

-----------------------------------------------------------------------------
(* Pops *)

\* Popping the index p of an enumeration that still has p there takes p out.
LEMMA RemoveIs ==
    ASSUME NEW A, NEW list \in Seq(A), NEW p \in 1..Len(list)
    PROVE  /\ RemoveAt(list, p) \in Seq(A)
           /\ Len(RemoveAt(list, p)) = Len(list) - 1
           /\ \A i \in 1..(Len(list) - 1) :
                 RemoveAt(list, p)[i] = IF i < p THEN list[i] ELSE list[i + 1]
<1> DEFINE a == SubSeq(list, 1, p - 1)
           b == SubSeq(list, p + 1, Len(list))
<1>1. /\ a \in Seq(A) /\ Len(a) = p - 1 /\ \A i \in 1..(p - 1) : a[i] = list[i]
  OBVIOUS
<1>2. /\ b \in Seq(A) /\ Len(b) = Len(list) - p
      /\ \A i \in 1..(Len(list) - p) : b[i] = list[p + i]
  OBVIOUS
<1>3. RemoveAt(list, p) = a \o b
  BY DEF RemoveAt
<1> HIDE DEF a, b
<1>4. a \o b \in Seq(A) /\ Len(a \o b) = Len(list) - 1
  <2>1. a \o b \in Seq(A) /\ Len(a \o b) = Len(a) + Len(b)
    BY <1>1, <1>2, ConcatProperties
  <2> QED
    BY <1>1, <1>2, <2>1
<1>5. \A i \in 1..(Len(list) - 1) : (a \o b)[i] = IF i < p THEN a[i] ELSE b[i - p + 1]
  BY <1>1, <1>2
<1>6. ASSUME NEW i \in 1..(Len(list) - 1)
      PROVE  (a \o b)[i] = IF i < p THEN list[i] ELSE list[i + 1]
  <2>1. CASE i < p
    BY <1>1, <1>5, <2>1
  <2>2. CASE ~(i < p)
    <3>1. i - p + 1 \in 1..(Len(list) - p) /\ p + (i - p + 1) = i + 1
      BY <2>2
    <3>2. b[i - p + 1] = list[p + (i - p + 1)]
      BY <1>2, <3>1
    <3> QED
      BY <1>5, <2>2, <3>1, <3>2
  <2> QED
    BY <2>1, <2>2
<1> QED
  BY <1>3, <1>4, <1>6

\* What is left of an enumeration in which the index p is still p.
LEMMA RemoveLists ==
    ASSUME NEW S \in SUBSET Nat, NEW h, Lists(h, S), NEW p \in 1..Len(h), h[p] = p
    PROVE  Lists(RemoveAt(h, p), S \ {p})
<1> DEFINE r == RemoveAt(h, p)
<1>0. h \in Seq(S) /\ Len(h) \in Nat /\ \A i \in 1..Len(h) : h[i] \in S /\ h[i] \in Nat
  BY ListsFacts
<1>1. /\ r \in Seq(S) /\ Len(r) = Len(h) - 1
      /\ \A i \in 1..(Len(h) - 1) : r[i] = IF i < p THEN h[i] ELSE h[i + 1]
  BY <1>0, RemoveIs
<1>2. \A i, j \in 1..Len(h) : i < j => h[i] < h[j]
  BY DEF Lists, Increasing
<1> HIDE DEF r
<1>3. \A i \in 1..Len(r) : r[i] \in S \ {p}
  <2> SUFFICES ASSUME NEW i \in 1..Len(r)
               PROVE  r[i] \in S \ {p}
    OBVIOUS
  <2>1. CASE i < p
    BY <1>0, <1>1, <1>2, <2>1
  <2>2. CASE ~(i < p)
    <3>1. i + 1 \in 1..Len(h) /\ p < i + 1 /\ r[i] = h[i + 1]
      BY <1>0, <1>1, <2>2
    <3> QED
      BY <1>0, <1>2, <3>1
  <2> QED
    BY <2>1, <2>2
<1>4. r \in Seq(S \ {p})
  BY <1>1, <1>3
<1>5. Increasing(r)
  <2> SUFFICES ASSUME NEW i \in 1..Len(r), NEW j \in 1..Len(r), i < j
               PROVE  r[i] < r[j]
    BY DEF Increasing
  <2>1. /\ i \in 1..Len(h) /\ i + 1 \in 1..Len(h) /\ j \in 1..Len(h) /\ j + 1 \in 1..Len(h)
    BY <1>0, <1>1
  <2> QED
    BY <1>1, <1>2, <2>1
<1>6. ASSUME NEW k \in S \ {p}
      PROVE  \E i \in 1..Len(r) : r[i] = k
  <2>1. PICK i \in 1..Len(h) : h[i] = k
    BY DEF Lists
  <2>2. CASE i < p
    <3>1. i \in 1..Len(r) /\ r[i] = k
      BY <1>0, <1>1, <2>1, <2>2
    <3> QED
      BY <3>1
  <2>3. CASE ~(i < p)
    <3>1. i # p /\ i - 1 \in 1..Len(r) /\ ~(i - 1 < p) /\ i - 1 + 1 = i
      BY <1>0, <1>1, <2>1, <2>3
    <3>2. r[i - 1] = h[i]
      BY <1>1, <3>1
    <3> QED
      BY <2>1, <3>1, <3>2
  <2> QED
    BY <2>2, <2>3
<1> QED
  BY <1>4, <1>5, <1>6 DEF r, Lists

LEMMA RemoveAtAt ==
    ASSUME NEW A, NEW list \in Seq(A), NEW h \in Seq(1..Len(list)), NEW p \in 1..Len(h)
    PROVE  RemoveAt(At(list, h), p) = At(list, RemoveAt(h, p))
<1> DEFINE N == Len(list)
           a == At(list, h)
           ra == RemoveAt(a, p)
           rh == RemoveAt(h, p)
<1>1. Len(h) \in Nat /\ N \in Nat /\ \A i \in 1..Len(h) : h[i] \in 1..N
  OBVIOUS
<1>2. a \in Seq(A) /\ Len(a) = Len(h) /\ \A i \in 1..Len(h) : a[i] = list[h[i]]
  BY <1>1 DEF At
<1>3. /\ rh \in Seq(1..N) /\ Len(rh) = Len(h) - 1
      /\ \A i \in 1..(Len(h) - 1) : rh[i] = IF i < p THEN h[i] ELSE h[i + 1]
  BY RemoveIs
<1>4. /\ ra \in Seq(A) /\ Len(ra) = Len(h) - 1
      /\ \A i \in 1..(Len(h) - 1) : ra[i] = IF i < p THEN a[i] ELSE a[i + 1]
  <2> HIDE DEF a
  <2> QED
    BY <1>2, RemoveIs
<1> HIDE DEF a, ra, rh
<1>5. ASSUME NEW i \in 1..(Len(h) - 1)
      PROVE  ra[i] = list[rh[i]]
  <2>1. i \in 1..Len(h) /\ i + 1 \in 1..Len(h)
    BY <1>1
  <2>2. a[i] = list[h[i]] /\ a[i + 1] = list[h[i + 1]]
    BY <1>2, <2>1
  <2> QED
    BY <1>3, <1>4, <2>2
<1>6. ra = [i \in 1..(Len(h) - 1) |-> ra[i]]
  BY <1>1, <1>4
<1>7. ra = [i \in 1..Len(rh) |-> list[rh[i]]]
  BY <1>1, <1>3, <1>5, <1>6
<1> QED
  BY <1>7 DEF a, ra, rh, At

\* The pops, the highest index first, leave the members whose indices are not
\* selected, in their order.
PopsLeave(list, S, s) ==
    /\ Lists(PopAll(Identity(Len(list)), s), (1..Len(list)) \ S)
    /\ PopAll(list, s) = At(list, PopAll(Identity(Len(list)), s))
LEMMA Pops ==
    ASSUME NEW A, NEW list, NEW S, NEW s,
           list \in Seq(A), S \subseteq 1..Len(list), Lists(s, S)
    PROVE  PopsLeave(list, S, s)
<1>1. PICK N \in Nat : N = Len(list)
  OBVIOUS
<1> DEFINE n == Len(s)
           Popped(k) == {s[j] : j \in (n - k + 1)..n}
           Left(k) == (1..N) \ Popped(k)
           Below(h, k) == \A i \in 1..N : (\A j \in (n - k + 1)..n : i < s[j]) =>
                                              i <= Len(h) /\ h[i] = i
<1>2. n \in Nat /\ N \in Nat /\ \A i \in 1..n : s[i] \in S /\ s[i] \in 1..N
  <2>1. n \in Nat /\ \A i \in 1..n : s[i] \in S
    BY ListsFacts
  <2>2. N \in Nat /\ S \subseteq 1..N
    BY <1>1
  <2> HIDE DEF n
  <2> QED
    BY <2>1, <2>2
<1>3. PICK f : LeftFrom(Identity(N), s, n, f) /\ PopAll(Identity(N), s) = f[n]
  BY <1>2, LeftExists
<1>4. \A k \in 0..n : f[k] = IF k = 0 THEN Identity(N) ELSE RemoveAt(f[k - 1], s[n - k + 1])
  BY <1>3 DEF LeftFrom
<1>5. PICK g : LeftFrom(list, s, n, g) /\ PopAll(list, s) = g[n]
  BY <1>2, LeftExists
<1>6. \A k \in 0..n : g[k] = IF k = 0 THEN list ELSE RemoveAt(g[k - 1], s[n - k + 1])
  BY <1>5 DEF LeftFrom
<1> DEFINE T == {k \in 0..n : Lists(f[k], Left(k)) /\ Below(f[k], k) /\ g[k] = At(list, f[k])}
<1>7. 0 \in T
  <2>1. f[0] = Identity(N)
    BY <1>2, <1>4
  <2>2. Left(0) = 1..N
    BY <1>2
  <2>3. Lists(Identity(N), 1..N) /\ Below(Identity(N), 0)
    BY DEF Lists, Increasing, Identity
  <2>4. g[0] = At(list, Identity(N))
    <3>1. g[0] = list
      BY <1>2, <1>6
    <3> QED
      BY <1>2, <1>1, <3>1 DEF At, Identity
  <2> HIDE DEF Left, Below
  <2>5. Lists(f[0], Left(0)) /\ Below(f[0], 0) /\ g[0] = At(list, f[0])
    BY <2>1, <2>2, <2>3, <2>4
  <2> QED
    BY <1>2, <2>5
<1>8. ASSUME NEW k \in 0..(n - 1), k \in T
      PROVE  k + 1 \in T
  <2> DEFINE p == s[n - k]
             h == f[k]
  <2>1. /\ Lists(h, Left(k)) /\ Below(h, k) /\ g[k] = At(list, h)
        /\ n - k \in 1..n /\ p \in 1..N
    BY <1>2, <1>8
  <2>2. f[k + 1] = RemoveAt(h, p) /\ g[k + 1] = RemoveAt(g[k], p)
    <3>1. k + 1 \in 0..n /\ k + 1 # 0 /\ k + 1 - 1 = k /\ n - (k + 1) + 1 = n - k
      BY <1>2
    <3> QED
      BY <1>4, <1>6, <3>1
  <2>3. \A j \in (n - k + 1)..n : j \in 1..n /\ n - k < j /\ p < s[j]
    <3>1. \A i, j \in 1..n : i < j => s[i] < s[j]
      BY ListsFacts
    <3>2. \A j \in (n - k + 1)..n : j \in 1..n /\ n - k < j
      BY <1>2, <2>1
    <3> QED
      BY <2>1, <3>1, <3>2
  <2>4. Len(h) \in Nat /\ p \in 1..Len(h) /\ h[p] = p
    <3>1. Len(h) \in Nat
      BY <2>1, ListsFacts
    <3>2. p <= Len(h) /\ h[p] = p
      BY <2>1, <2>3
    <3> QED
      BY <2>1, <3>1, <3>2
  <2>5. Left(k + 1) = Left(k) \ {p}
    <3>1. ((n - (k + 1) + 1)..n) = ((n - k + 1)..n) \cup {n - k}
      BY <1>2, SMTT(40)
    <3> QED
      BY <3>1
  <2>6. Lists(f[k + 1], Left(k + 1))
    <3>1. Left(k) \in SUBSET Nat
      OBVIOUS
    <3> HIDE DEF Left, h
    <3>2. Lists(RemoveAt(h, p), Left(k) \ {p})
      BY <2>1, <2>4, <3>1, RemoveLists
    <3> QED
      BY <2>2, <2>5, <3>2
  <2>7. Below(f[k + 1], k + 1)
    <3> SUFFICES ASSUME NEW i \in 1..N, \A j \in (n - (k + 1) + 1)..n : i < s[j]
                 PROVE  i <= Len(f[k + 1]) /\ f[k + 1][i] = i
      OBVIOUS
    <3>1. i < p /\ \A j \in (n - k + 1)..n : i < s[j]
      BY <1>2
    <3>2. i <= Len(h) /\ h[i] = i
      BY <2>1, <3>1
    <3>3. h \in Seq(Left(k))
      BY <2>1 DEF Lists
    <3> HIDE DEF h, p, Left
    <3>4. /\ Len(RemoveAt(h, p)) = Len(h) - 1
          /\ \A m \in 1..(Len(h) - 1) : RemoveAt(h, p)[m] = IF m < p THEN h[m] ELSE h[m + 1]
      BY <2>4, <3>3, RemoveIs
    <3> QED
      BY <2>2, <2>4, <3>1, <3>2, <3>4
  <2>8. g[k + 1] = At(list, f[k + 1])
    <3>1. h \in Seq(1..N)
      <4>1. h \in Seq(Left(k))
        BY <2>1 DEF Lists
      <4> QED
        BY <4>1
    <3> HIDE DEF h, p
    <3> QED
      BY <1>1, <2>1, <2>2, <2>4, <3>1, RemoveAtAt
  <2> HIDE DEF Left, Below
  <2> QED
    BY <2>6, <2>7, <2>8, <1>2
<1>9. n \in T
  <2> HIDE DEF T
  <2>1. 0..n \subseteq T
    BY <1>2, <1>7, <1>8, Induction
  <2> QED
    BY <1>2, <2>1
<1>10. Left(n) = (1..N) \ S
  <2>1. (n - n + 1)..n = 1..n
    BY <1>2
  <2>2. Popped(n) = S
    <3>1. \A k \in S : \E i \in 1..n : s[i] = k
      BY ListsFacts
    <3> QED
      BY <2>1, <1>2, <3>1
  <2> QED
    BY <2>2
<1> QED
  BY <1>3, <1>9, <1>10, <1>5, <1>1 DEF PopsLeave

LEMMA PopsIndices ==
    ASSUME NEW N \in Nat, NEW S, NEW s, S \subseteq 1..N, Lists(s, S)
    PROVE  Lists(PopAll(Identity(N), s), (1..N) \ S)
<1>1. Identity(N) \in Seq(Nat) /\ Len(Identity(N)) = N
  BY DEF Identity
<1>2. PICK list : list = Identity(N)
  OBVIOUS
<1>3. list \in Seq(Nat) /\ S \subseteq 1..Len(list)
  BY <1>1, <1>2
<1>4. PopsLeave(list, S, s)
  BY <1>3, Pops
<1> QED
  BY <1>1, <1>2, <1>4 DEF PopsLeave

LEMMA PopsMembers ==
    ASSUME NEW A, NEW list, NEW S, NEW s,
           list \in Seq(A), S \subseteq 1..Len(list), Lists(s, S)
    PROVE  PopAll(list, s) = At(list, PopAll(Identity(Len(list)), s))
<1>1. PopsLeave(list, S, s)
  BY Pops
<1> QED
  BY <1>1 DEF PopsLeave

-----------------------------------------------------------------------------
(* The refinement *)

LEMMA InitAligned == Init => Aligned
BY DEF Init, Aligned

LEMMA RecordsOfLists ==
    ASSUME Aligned
    PROVE  /\ Len(trajectories) \in Nat
           /\ DOMAIN trajectories = 1..Len(trajectories)
           /\ DOMAIN trajectory_versions = 1..Len(trajectories)
           /\ DOMAIN target_weight_versions = 1..Len(trajectories)
           /\ Zipped = [i \in 1..Len(trajectories) |-> Record(i)]
           /\ DOMAIN Zipped = 1..Len(trajectories) /\ Len(Zipped) = Len(trajectories)
           /\ \A i \in 1..Len(trajectories) :
                 /\ trajectories[i] \in Trajectories
                 /\ trajectory_versions[i] \in Versions
                 /\ target_weight_versions[i] \in Versions
                 /\ Zipped[i] = Record(i)
                 /\ Zipped[i].version = trajectory_versions[i]
                 /\ Zipped[i].target = target_weight_versions[i]
<1>1. /\ Len(trajectories) \in Nat
      /\ DOMAIN trajectories = 1..Len(trajectories)
      /\ DOMAIN trajectory_versions = 1..Len(trajectories)
      /\ DOMAIN target_weight_versions = 1..Len(trajectories)
      /\ \A i \in 1..Len(trajectories) :
            /\ trajectories[i] \in Trajectories
            /\ trajectory_versions[i] \in Versions
            /\ target_weight_versions[i] \in Versions
  BY DEF Aligned
<1>2. Zipped = [i \in 1..Len(trajectories) |-> Record(i)]
  BY <1>1 DEF Zipped
<1>3. \A i \in 1..Len(trajectories) : Zipped[i] = Record(i)
  BY <1>2
<1>4. Len(Zipped) = Len(trajectories)
  BY <1>1, <1>2
<1> QED
  BY <1>1, <1>2, <1>3, <1>4 DEF Record

LEMMA PushKeeps ==
    ASSUME Aligned, NEW t \in Trajectories, NEW version \in Versions, NEW target \in Versions,
           PushWithWaitSignal(t, version, target)
    PROVE  Aligned' /\ BufferNext
<1> DEFINE e == [trajectory |-> t, version |-> version, target |-> target]
<1>0. PICK N \in Nat : N = Len(trajectories)
  BY RecordsOfLists
<1>1. N \in Nat /\ N < MaxSize /\ Len(Zipped) = N /\ Zipped = [i \in 1..N |-> Record(i)]
  BY <1>0, RecordsOfLists DEF PushWithWaitSignal
<1>2. Aligned'
  BY DEF Aligned, PushWithWaitSignal
<1>3. Zipped' = [i \in 1..(N + 1) |-> Record(i)']
  <2>1. DOMAIN trajectories' = 1..(N + 1)
    BY <1>0, <1>1 DEF PushWithWaitSignal, Aligned
  <2> QED
    BY <2>1 DEF Zipped
<1>4. \A i \in 1..N : Record(i)' = Record(i)
  BY <1>0 DEF Record, PushWithWaitSignal, Aligned
<1>5. Record(N + 1)' = e
  <2>1. /\ trajectories'[N + 1] = t
        /\ trajectory_versions'[N + 1] = version
        /\ target_weight_versions'[N + 1] = target
    BY <1>0, <1>1 DEF PushWithWaitSignal, Aligned
  <2> QED
    BY <2>1 DEF Record
<1>6. Zipped' = Append(Zipped, e)
  <2>1. Zipped \in Seq({Zipped[i] : i \in 1..N})
    BY <1>1
  <2>2. /\ Len(Append(Zipped, e)) = N + 1 /\ Append(Zipped, e)[N + 1] = e
        /\ \A i \in 1..N : Append(Zipped, e)[i] = Zipped[i]
        /\ Append(Zipped, e) = [i \in 1..(N + 1) |-> Append(Zipped, e)[i]]
    BY <1>1, <2>1
  <2>3. \A i \in 1..(N + 1) : Append(Zipped, e)[i] = Record(i)'
    <3>1. \A i \in 1..N : Append(Zipped, e)[i] = Record(i)'
      BY <1>1, <1>4, <2>2
    <3> QED
      BY <1>1, <1>5, <2>2, <3>1
  <2> QED
    BY <1>3, <2>2, <2>3
<1>7. Buffer!Push(e)
  BY <1>1, <1>6, SizeAssumption DEF Buffer!Push, Buffer!Full, PushWithWaitSignal
<1>8. e \in Entries
  BY DEF Entries
<1> QED
  BY <1>2, <1>7, <1>8, SMTT(40) DEF BufferNext

LEMMA ClearKeeps ==
    ASSUME Clear
    PROVE  Aligned' /\ BufferNext
<1>1. Aligned'
  BY DEF Aligned, Clear
<1>2. Zipped' = <<>>
  BY DEF Zipped, Clear
<1> QED
  BY <1>1, <1>2 DEF BufferNext, Buffer!Clear, Clear

\* The indices that the two comprehensions compute.
LEMMA IndicesAre ==
    ASSUME Aligned, NEW current \in Versions
    PROVE  /\ Lists(ValidIndices(current), Buffer!Valid(current, MaxAge))
           /\ Lists(IntendedIndices(current), Buffer!Intended(current, MaxAge))
<1> DEFINE N == Len(trajectories)
           V == Buffer!Valid(current, MaxAge)
           inAge == {i \in DOMAIN trajectory_versions :
                        trajectory_versions[i] \in MinValidVersion(current)..current}
           ofStep == {i \in DOMAIN target_weight_versions : target_weight_versions[i] = current}
<1>1. /\ N \in Nat /\ DOMAIN Zipped = 1..N
      /\ DOMAIN trajectory_versions = 1..N /\ DOMAIN target_weight_versions = 1..N
      /\ \A i \in 1..N : /\ trajectory_versions[i] \in Nat /\ target_weight_versions[i] \in Nat
                         /\ Zipped[i].version = trajectory_versions[i]
                         /\ Zipped[i].target = target_weight_versions[i]
  BY RecordsOfLists, SizeAssumption DEF Versions
<1>2. /\ MinValidVersion(current) \in Nat /\ current \in Nat
      /\ Buffer!MinValidVersion(current, MaxAge) = MinValidVersion(current)
  BY SizeAssumption DEF Versions, MinValidVersion, Buffer!MinValidVersion
<1>3. V = (1..N) \cap inAge
  BY <1>1, <1>2 DEF Buffer!Valid
<1>4. Buffer!Intended(current, MaxAge) = V \cap ofStep
  BY <1>1, <1>3 DEF Buffer!Intended
<1>5. Lists(ValidIndices(current), V)
  <2>1. /\ Identity(N) \in Seq(Nat) /\ Increasing(Identity(N))
        /\ {Identity(N)[i] : i \in 1..Len(Identity(N))} = 1..N
    BY <1>1 DEF Identity, Increasing
  <2>2. ValidIndices(current) = Kept(Identity(N), inAge)
    BY <1>1 DEF ValidIndices, Identity
  <2> HIDE DEF inAge, V
  <2> QED
    BY <1>3, <2>1, <2>2, KeptLists
<1>6. Lists(IntendedIndices(current), V \cap ofStep)
  <2> DEFINE v == ValidIndices(current)
  <2>1. v \in Seq(V) /\ V \in SUBSET Nat /\ Increasing(v)
    BY <1>1, <1>3, <1>5 DEF Lists
  <2>2. v \in Seq(Nat) /\ {v[i] : i \in 1..Len(v)} = V
    <3> HIDE DEF v, V
    <3>2. Len(v) \in Nat /\ \A i \in 1..Len(v) : v[i] \in V
      BY <2>1
    <3>1. v \in Seq(Nat)
      <4>1. v = [i \in 1..Len(v) |-> v[i]]
        BY <2>1
      <4>2. \A i \in 1..Len(v) : v[i] \in Nat
        BY <2>1, <3>2
      <4> QED
        BY <3>2, <4>1, <4>2
    <3>3. \A k \in V : \E i \in 1..Len(v) : v[i] = k
      BY <1>5 DEF v, Lists
    <3> QED
      BY <3>1, <3>2, <3>3
  <2>3. IntendedIndices(current) = Kept(v, ofStep)
    BY DEF IntendedIndices
  <2> HIDE DEF v, V, ofStep
  <2> QED
    BY <2>1, <2>2, <2>3, KeptLists
<1> QED
  BY <1>4, <1>5, <1>6

\* The first indices of an enumeration enumerate the smallest members.
FirstOf(s, n) == {s[i] : i \in 1..n}
LEMMA FirstLists ==
    ASSUME NEW S \in SUBSET Nat, NEW s, Lists(s, S), NEW n \in Nat, n <= Len(s)
    PROVE  /\ Len(SubSeq(s, 1, n)) = n /\ Lists(SubSeq(s, 1, n), FirstOf(s, n))
           /\ FirstOf(s, n) \subseteq S
           /\ \A a \in FirstOf(s, n), b \in S \ FirstOf(s, n) : a < b
<1> DEFINE first == SubSeq(s, 1, n)
           F == {s[i] : i \in 1..n}
<1>1. /\ s \in Seq(S) /\ Len(s) \in Nat
      /\ \A i \in 1..Len(s) : s[i] \in S
      /\ \A i, j \in 1..Len(s) : i < j => s[i] < s[j]
      /\ \A k \in S : \E i \in 1..Len(s) : s[i] = k
  BY ListsFacts
<1>2. Len(first) = n /\ \A i \in 1..n : first[i] = s[i] /\ s[i] \in F /\ i \in 1..Len(s)
  BY <1>1
<1>3. first \in Seq(F)
  <2>1. first = [i \in 1..n |-> s[i]]
    BY <1>1
  <2> HIDE DEF first
  <2> QED
    BY <1>2, <2>1
<1>4. Lists(first, F)
  <2> HIDE DEF first
  <2>1. Increasing(first)
    BY <1>1, <1>2 DEF Increasing
  <2>2. \A k \in F : \E i \in 1..Len(first) : first[i] = k
    BY <1>2
  <2> HIDE DEF F
  <2> QED
    BY <1>3, <2>1, <2>2 DEF Lists
<1>5. ASSUME NEW a \in F, NEW b \in S \ F
      PROVE  a < b
  <2>1. PICK i \in 1..n : s[i] = a
    OBVIOUS
  <2>2. PICK j \in 1..Len(s) : s[j] = b
    BY <1>1
  <2>3. ~(j \in 1..n)
    BY <2>2
  <2>4. i < j
    BY <1>1, <2>2, <2>3
  <2> QED
    BY <1>1, <1>2, <2>1, <2>2, <2>4
<1>6. F \subseteq S
  BY <1>1, <1>2
<1> QED
  BY <1>2, <1>4, <1>5, <1>6 DEF FirstOf

\* Popping the first n indices of an enumeration of I.
FirstPopped(N, I, s, n, S, left) ==
    /\ Len(SubSeq(s, 1, n)) = n /\ Lists(SubSeq(s, 1, n), S)
    /\ S \subseteq I /\ \A a \in S, b \in I \ S : a < b
    /\ left \in Seq(1..N) /\ Lists(left, (1..N) \ S)
    /\ \A A : \A list \in Seq(A) :
          Len(list) = N => PopAll(list, SubSeq(s, 1, n)) = At(list, left)
LEMMA FirstPops ==
    ASSUME NEW N, NEW I, NEW s, NEW n,
           N \in Nat, I \subseteq 1..N, Lists(s, I), n \in Nat, n <= Len(s)
    PROVE  \E S, left : FirstPopped(N, I, s, n, S, left)
<1>1. PICK first, S : first = SubSeq(s, 1, n) /\ S = FirstOf(s, n)
  OBVIOUS
<1>2. I \in SUBSET Nat
  OBVIOUS
<1>3. /\ Len(first) = n /\ Lists(first, S) /\ S \subseteq I
      /\ \A a \in S, b \in I \ S : a < b
  BY <1>1, <1>2, FirstLists
<1>4. S \in SUBSET (1..N)
  BY <1>3
<1>5. PICK left : left = PopAll(Identity(N), first)
  OBVIOUS
<1>6. Lists(left, (1..N) \ S)
  BY <1>3, <1>4, <1>5, PopsIndices
<1>7. ASSUME NEW A, NEW list \in Seq(A), Len(list) = N
      PROVE  PopAll(list, first) = At(list, left)
  <2>1. list \in Seq(A) /\ N = Len(list) /\ S \subseteq 1..Len(list) /\ Lists(first, S)
    BY <1>3, <1>4, <1>7
  <2>2. PopAll(list, first) = At(list, PopAll(Identity(Len(list)), first))
    BY <2>1, PopsMembers
  <2> QED
    BY <1>5, <2>1, <2>2
<1>8. left \in Seq(1..N)
  <2>1. Len(left) \in Nat /\ left \in Seq((1..N) \ S)
    BY <1>6 DEF Lists
  <2>2. left \in [1..Len(left) -> 1..N]
    BY <2>1
  <2> QED
    BY <2>1, <2>2, SeqDef
<1> QED
  BY <1>1, <1>3, <1>6, <1>7, <1>8 DEF FirstPopped

LEMMA SampleKeeps ==
    ASSUME Aligned, NEW current \in Versions, SampleCall(current)
    PROVE  Aligned' /\ BufferNext
<1> DEFINE s == IntendedIndices(current)
           I == Buffer!Intended(current, MaxAge)
           V == Buffer!Valid(current, MaxAge)
           selected == SubSeq(s, 1, NumGroups)
<1>1. PICK N \in Nat : N = Len(trajectories)
  BY RecordsOfLists
<1>2. /\ N \in Nat /\ I \subseteq 1..N /\ Lists(s, I)
      /\ NumGroups \in Nat /\ NumGroups <= Len(s)
  <2>1. DOMAIN Zipped = 1..N
    BY <1>1, RecordsOfLists
  <2>2. I \in SUBSET (1..N)
    BY <2>1 DEF Buffer!Intended, Buffer!Valid
  <2> QED
    BY <2>2, IndicesAre, SizeAssumption DEF SampleCall
<1>3. PICK S, left : FirstPopped(N, I, s, NumGroups, S, left)
  <2> HIDE DEF I, s
  <2> QED
    BY <1>2, FirstPops
<1>4. /\ Len(selected) = NumGroups /\ Lists(selected, S)
      /\ S \subseteq I /\ \A a \in S, b \in I \ S : a < b
      /\ left \in Seq(1..N) /\ Lists(left, (1..N) \ S)
      /\ \A A : \A list \in Seq(A) :
            Len(list) = N => PopAll(list, selected) = At(list, left)
  BY <1>3 DEF FirstPopped
<1>5. /\ trajectories' = At(trajectories, left)
      /\ trajectory_versions' = At(trajectory_versions, left)
      /\ target_weight_versions' = At(target_weight_versions, left)
  <2>1. /\ trajectories \in Seq(Trajectories) /\ N = Len(trajectories)
        /\ trajectory_versions \in Seq(Versions) /\ N = Len(trajectory_versions)
        /\ target_weight_versions \in Seq(Versions) /\ N = Len(target_weight_versions)
    BY <1>1 DEF Aligned
  <2>2. /\ trajectories' = PopAll(trajectories, selected)
        /\ trajectory_versions' = PopAll(trajectory_versions, selected)
        /\ target_weight_versions' = PopAll(target_weight_versions, selected)
    BY DEF SampleCall
  <2> QED
    BY <1>4, <2>1, <2>2
<1>6. /\ DOMAIN Zipped = 1..N /\ Zipped = [i \in 1..N |-> Record(i)]
      /\ DOMAIN trajectory_versions = 1..N
      /\ \A i \in 1..N : /\ trajectories[i] \in Trajectories
                         /\ trajectory_versions[i] \in Versions
                         /\ target_weight_versions[i] \in Versions
                         /\ Zipped[i] = Record(i)
                         /\ Zipped[i].version = trajectory_versions[i]
                         /\ Zipped[i].target = target_weight_versions[i]
  BY <1>1, RecordsOfLists
<1>7. Len(left) \in Nat /\ \A i \in 1..Len(left) : left[i] \in 1..N
  BY <1>4
<1>8. Aligned'
  BY <1>1, <1>4, <1>5, <1>6, <1>7 DEF Aligned, At
<1>9. Zipped' = [i \in 1..Len(left) |-> Zipped[left[i]]]
  <2>1. DOMAIN trajectories' = 1..Len(left)
    BY <1>5 DEF At
  <2>2. Zipped' = [i \in 1..Len(left) |-> Record(i)']
    BY <2>1 DEF Zipped
  <2>3. ASSUME NEW i \in 1..Len(left)
        PROVE  Record(i)' = Zipped[left[i]]
    <3>1. /\ trajectories'[i] = trajectories[left[i]]
          /\ trajectory_versions'[i] = trajectory_versions[left[i]]
          /\ target_weight_versions'[i] = target_weight_versions[left[i]]
      BY <1>5 DEF At
    <3>2. Zipped[left[i]] = Record(left[i])
      BY <1>6, <1>7
    <3> QED
      BY <3>1, <3>2 DEF Record
  <2> QED
    BY <2>2, <2>3
<1>10. left \in Buffer!Enumerations(DOMAIN Zipped \ S) /\ DOMAIN left = 1..Len(left)
  <2>1. (1..N) \ S \in SUBSET Nat
    OBVIOUS
  <2> QED
    BY <1>4, <1>6, <1>7, <2>1, ListsCount
<1>11. /\ S \in SUBSET Nat /\ I \in SUBSET Nat /\ V \in SUBSET Nat
  <2>1. I \in SUBSET Nat
    BY <1>2
  <2>2. S \in SUBSET Nat
    BY <1>4, <2>1
  <2>3. V \in SUBSET Nat
    BY <1>6 DEF Buffer!Valid
  <2> QED
    BY <2>1, <2>2, <2>3
<1>12. /\ Cardinality(S) = Len(selected) /\ selected \in Buffer!Enumerations(S)
      /\ Cardinality(I) = Len(s) /\ Cardinality(V) = Len(ValidIndices(current))
  BY <1>4, <1>11, ListsCount, IndicesAre
<1>13. Len(selected) = NumGroups
  BY <1>4
<1>14. sampled' = [i \in DOMAIN selected |-> Zipped[selected[i]]]
  <2>1. \A i \in DOMAIN selected : selected[i] \in 1..N
    BY <1>2, <1>4 DEF Lists
  <2> QED
    BY <1>6, <2>1 DEF SampleCall
<1>15. \A T : Buffer!Cardinality(T) = Cardinality(T)
  BY DEF Buffer!Cardinality, Cardinality
<1>16. S \in Buffer!Selections(NumGroups, current, MaxAge)
  BY <1>4, <1>12, <1>13, <1>15 DEF Buffer!Selections
<1>17. Buffer!Enough(NumGroups, current, MaxAge)
  BY <1>12, <1>15 DEF Buffer!Enough, SampleCall
<1>18. ~Buffer!SampleRaises(current, MaxAge)
  <2>1. Buffer!MinValidVersion(current, MaxAge) = MinValidVersion(current)
    BY DEF Buffer!MinValidVersion, MinValidVersion
  <2>2. MinValidVersion(current) \in Nat /\ \A i \in 1..N : trajectory_versions[i] \in Nat
    BY <1>6, SizeAssumption DEF MinValidVersion, Versions
  <2>3. \A i \in 1..N : Zipped[i].version >= MinValidVersion(current)
    BY <1>6 DEF SampleCall
  <2>4. \A i \in 1..N : ~(Zipped[i].version < MinValidVersion(current))
    BY <1>6, <2>2, <2>3
  <2> QED
    BY <1>6, <2>1, <2>4 DEF Buffer!SampleRaises, Buffer!Stale
<1>19. lastTarget' = lastTarget
  BY DEF SampleCall
<1>20. Buffer!Sample(NumGroups, current, MaxAge)
  <2>1. \E f \in Buffer!Enumerations(S) : sampled' = [i \in DOMAIN f |-> Zipped[f[i]]]
    BY <1>12, <1>14
  <2>2. \E f \in Buffer!Enumerations(DOMAIN Zipped \ S) : Zipped' = [i \in DOMAIN f |-> Zipped[f[i]]]
    BY <1>9, <1>10
  <2> QED
    BY <1>16, <1>17, <1>18, <1>19, <2>1, <2>2 DEF Buffer!Sample
<1> QED
  BY <1>8, <1>20, SMTT(40) DEF BufferNext

LEMMA NextKeeps ==
    ASSUME Aligned, [Next]_vars
    PROVE  Aligned' /\ [BufferNext]_(Buffer!bufferVars)
<1>1. ASSUME NEW t \in Trajectories, NEW version \in Versions, NEW target \in Versions,
             PushWithWaitSignal(t, version, target)
      PROVE  Aligned' /\ BufferNext
  BY <1>1, PushKeeps
<1>2. ASSUME NEW current \in Versions, SampleCall(current)
      PROVE  Aligned' /\ BufferNext
  BY <1>2, SampleKeeps
<1>3. CASE Clear
  BY <1>3, ClearKeeps
<1>4. CASE UNCHANGED vars
  <2>1. Aligned'
    BY <1>4 DEF Aligned, vars
  <2>2. UNCHANGED Buffer!bufferVars
    BY <1>4 DEF vars, Buffer!bufferVars, Zipped, Record
  <2> QED
    BY <2>1, <2>2
<1> QED
  BY <1>1, <1>2, <1>3, <1>4 DEF Next

\* The three lists of the actor, with its comprehensions over indices and its
\* pops from the highest index down, do what one list of (group, version,
\* target) records would, whatever the size of the buffer, the age window and
\* the calls: sample returns the oldest groups meant for the step and takes
\* exactly those out, and no group ever gets the version of another.
THEOREM ListsImplementBuffer == Spec => ImplementsBuffer
<1>1. Init => Buffer!Init
  BY DEF Init, Buffer!Init, Zipped
<1>2. Aligned /\ [Next]_vars => Aligned' /\ [BufferNext]_(Buffer!bufferVars)
  BY NextKeeps
<1> QED
  BY <1>1, <1>2, InitAligned, PTL DEF Spec, ImplementsBuffer

=============================================================================
