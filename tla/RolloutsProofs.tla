--------------------------- MODULE RolloutsProofs ---------------------------
(***************************************************************************)
(* Proofs about Rollouts, for any number of samples, calls, turns, lengths  *)
(* and evaluations: no result of a stream is lost, a sample's outcome is    *)
(* that of its own turns in all three rollouts, and an evaluation's score   *)
(* is the sum of its prompts' pass@k or cons@k.                             *)
(***************************************************************************)
EXTENDS Rollouts, TLAPS, FunctionTheorems, FiniteSetTheorems, SequenceTheorems, WellFoundedInduction

-----------------------------------------------------------------------------
(* The inductive invariant *)

Message == [type : {"sample", "error", "worker_done", "end"}, of : Int]
CallRecord ==
    [prompts : SUBSET Int, stream : Seq(Message), queue : Seq(Message), got : Seq(Message),
     finished : BOOLEAN, consumer : {"off", "next", "ref", "done"},
     caller : {"off", "wait", "woken", "cancelled"}]
Tasks == [task : {"consumer", "caller", "timer"}, of : Calls]

\* No element twice.
Once(r) == \A i, j \in 1..Len(r) : r[i] = r[j] => i = j

\* Every x is before every y.
Precedes(r, x, y) == \A i, j \in 1..Len(r) : r[i] = x /\ r[j] = y => i < j

\* What a call is for.
Asked == IF mode = "eval" THEN Texts ELSE {1}
Samples(prompts) == {Sample(i) : i \in prompts}

\* The generator's items: samples, then the end, perhaps behind an error.
StreamOK(k, asked) ==
    /\ k.stream \in Seq(Samples(asked) \cup {Error, End}) /\ Once(k.stream)
    /\ k.prompts \subseteq asked
    /\ \A p \in 1..Len(k.stream) :
          /\ k.stream[p] = End => p = Len(k.stream)
          /\ k.stream[p] = Error => p + 1 = Len(k.stream) /\ k.stream[p + 1] = End
    /\ End \in ToSet(k.stream) => k.prompts = {}
    /\ \A i \in k.prompts : Sample(i) \notin ToSet(k.stream)
    /\ k.consumer \in {"next", "ref", "done"} /\ (k.finished <=> k.consumer = "done")
    /\ k.consumer = "ref" => k.stream # <<>> /\ Head(k.stream) # End
    /\ k.finished => k.stream \in {<<End>>, <<Error, End>>}

\* What the queue holds when the caller waits for it or has been woken: what the
\* consumer put there in one step, for the caller is always ahead of it.
QueueOK(k, asked) ==
    /\ k.caller = "wait" => k.queue = <<>> /\ ~k.finished
    /\ k.caller = "woken" /\ ~k.finished => \E i \in asked : k.queue = <<Sample(i)>>
    /\ k.caller = "woken" /\ k.finished =>
          \/ k.stream = <<Error, End>> /\ k.queue = <<Error, Done>>
          \/ k.stream = <<End>> /\ k.queue = <<Done>>
          \/ k.stream = <<End>> /\ \E i \in asked : k.queue = <<Sample(i), Done>>

\* Where the sample of a prompt is: with the worker, or in one of the lists.
CarriedOnce(k, asked) ==
    /\ k.got \in Seq(Samples(asked)) /\ Once(k.got)
    /\ \A i \in asked :
          /\ Sample(i) \in ToSet(k.got) =>
                /\ Sample(i) \notin ToSet(k.queue) /\ Sample(i) \notin ToSet(k.stream)
                /\ i \notin k.prompts
          /\ Sample(i) \in ToSet(k.queue) =>
                Sample(i) \notin ToSet(k.stream) /\ i \notin k.prompts
          /\ Sample(i) \in ToSet(k.stream) => i \notin k.prompts
          /\ \/ i \in k.prompts \/ Error \in ToSet(k.stream)
             \/ Sample(i) \in ToSet(k.stream) \cup ToSet(k.queue) \cup ToSet(k.got)

CallOK(k, asked) ==
    /\ k \in CallRecord
    /\ k.caller = "off" => k = NoCall
    /\ k.caller # "off" => StreamOK(k, asked)
    /\ k.caller \in {"wait", "woken"} => QueueOK(k, asked) /\ CarriedOnce(k, asked)

\* Errors and timeouts are in the record of faults.
FaultsOf(k, c) ==
    (k.caller = "cancelled" \/ Error \in ToSet(k.stream)) => c \in faults

\* The loop's queue: a task is there once, with its reason.
ReadyOf(r, k, c) ==
    /\ k.caller = "off" /\ Consumer(c) \in ToSet(r) => Caller(c) \notin ToSet(r)
    /\ k.caller = "wait" => Caller(c) \notin ToSet(r)
    /\ k.caller \in {"woken", "cancelled"} => Caller(c) \in ToSet(r)
    /\ k.caller = "woken" => Precedes(r, Caller(c), Consumer(c))
    /\ k.caller # "off" /\ Consumer(c) \in ToSet(r) => k.consumer # "done"

ReadyInv ==
    /\ ready \in Seq(Tasks) /\ Once(ready)
    /\ \A c \in Calls : ReadyOf(ready, call[c], c)
    /\ \A c \in Calls : Timer(c) \in ToSet(ready) => c \in faults

CallInv ==
    /\ call \in [Calls -> CallRecord] /\ faults \subseteq Calls
    /\ \A c \in Calls : CallOK(call[c], Asked) /\ FaultsOf(call[c], c)

\* The numbers of an evaluation, and fields about which nothing is said.
EvalRecord ==
    [tests : Nat \ {0}, k : Nat, metric : {"pass@k", "cons@k"}, prompts : Nat, perBatch : Nat,
     async : BOOLEAN, done : Nat, score : {eval.score}, due : {eval.due}, torn : {eval.torn}]

ModeInv ==
    /\ mode \in {"sync", "async", "gym", "eval"}
    /\ mode = "eval" => eval \in EvalRecord
    /\ \A c \in Calls : call[c].caller # "off" =>
          \/ mode = "async" /\ c \in Batch
          \/ mode = "eval" /\ c = 1 /\ Asking
    /\ \A c \in Calls : Caller(c) \in ToSet(ready) =>
          (mode = "async" /\ c \in Batch) \/ mode = "eval"

TextsInv ==
    \/ texts = <<>>
    \/ texts = <<"raised">> /\ mode = "eval" /\ (1 \in faults \/ eval.metric = "cons@k")
    \/ /\ mode = "eval" /\ eval.done < eval.prompts
       /\ texts = <<"ok", [i \in Texts |-> Sample(i)]>>

FailedInv == \A i \in Batch : sample[i].failed => i \in faults

LoopInv == CallInv /\ ReadyInv /\ ModeInv /\ TextsInv /\ FailedInv

SampleRecord ==
    [len : 0..MaxSeqLen, stops : Seq(Nat), rewards : SUBSET (Nat \X Nat), truncated : BOOLEAN,
     failed : BOOLEAN, over : BOOLEAN]
TurnRecord ==
    [gen : Nat, obs : Nat, term : BOOLEAN, stops : Seq(Nat), used : Seq(Nat)]

\* The stop strings of the turn behind u, in mode m.
NextStops(m, u) == IF u.stops = <<>> /\ m = "async" THEN u.used ELSE u.stops

\* OutcomeOfItsTurns, of one sample.
Outcome(m, s, h, i) ==
    /\ s.rewards = {<<i, t>> : t \in DOMAIN h}
    /\ s.len = IF Tokens(h) > MaxSeqLen THEN MaxSeqLen ELSE Tokens(h)
    /\ s.truncated <=> h # <<>> /\ Tokens(h) >= MaxSeqLen
    /\ \A t \in 1..(Len(h) - 1) : ~h[t].term /\ Tokens(SubSeq(h, 1, t)) < MaxSeqLen
    /\ s.over => s.failed \/ Len(h) = MaxTurns \/ s.truncated \/ Last(h).term
    /\ \A t \in 2..Len(h) : h[t].used = NextStops(m, h[t - 1])

\* A sample that goes on: nothing has ended it, and it has its stop strings.
GoesOn(m, s, h) ==
    ~s.over => ~s.truncated /\ (h # <<>> => ~Last(h).term /\ s.stops = NextStops(m, Last(h)))

SyncInv ==
    /\ active \in Seq(Batch) /\ Once(active) /\ turn \in 0..MaxTurns
    /\ \A i \in Batch :
          /\ Outcome(mode, sample[i], hist[i], i) /\ GoesOn(mode, sample[i], hist[i])
          /\ ~sample[i].over <=> i \in ToSet(active)
          /\ ~sample[i].over => Len(hist[i]) = turn

AsyncInv ==
    \A i \in Batch :
        /\ Outcome(mode, sample[i], hist[i], i) /\ GoesOn(mode, sample[i], hist[i])
        /\ ~sample[i].over => Len(hist[i]) < MaxTurns
        /\ sample[i].over => call[i].caller = "off" /\ Caller(i) \notin ToSet(ready)

\* A row's result and its turns are those of one conversation.
RowOK(result, h, i) ==
    \E items \in Conversations :
        result = Postprocess(i, items) /\ h = TurnsOf(items)

RowResult == [len : 0..MaxSeqLen, rewards : SUBSET (Nat \X Nat), empty : BOOLEAN]
GymRecord ==
    [agent : [Batch -> 1..2], rows : Seq(Batch), results : Seq(RowResult),
     out : {"running", "raised", "done"}, restarts : Nat]
GymInv ==
    /\ gym \in GymRecord
    /\ \A i \in Batch : /\ sample[i].over <=> gym.out = "done"
                        /\ gym.out = "done" => Outcome(mode, sample[i], hist[i], i)
    /\ gym.out = "running" =>
          /\ Once(gym.rows) /\ Len(gym.results) = Len(gym.rows)
          /\ \A p \in 1..Len(gym.rows) : RowOK(gym.results[p], hist[gym.rows[p]], gym.rows[p])

OutcomeInv ==
    /\ sample \in [Batch -> SampleRecord] /\ hist \in [Batch -> Seq(TurnRecord)]
    /\ mode = "sync" => SyncInv
    /\ mode = "async" => AsyncInv
    /\ mode = "gym" => GymInv
    /\ mode = "eval" => \A i \in Batch : Outcome(mode, sample[i], hist[i], i)

Inv == LoopInv /\ OutcomeInv

-----------------------------------------------------------------------------
(* Recursion over lists *)

Descents == {p \in Nat \X Nat : p[1] < p[2]}

LEMMA LeastExists ==
    ASSUME NEW S \in SUBSET Nat, S # {}
    PROVE  \E x \in S : \A y \in S : x <= y
<1>1. IsWellFoundedOn(Descents, Nat)
  BY NatLessThanWellFounded, Zenon DEF OpToRel, Descents
<1>2. PICK x \in S : \A y \in S : ~(<<y, x>> \in Descents)
  BY <1>1, WFMin, Zenon
<1>3. ASSUME NEW y \in S PROVE x <= y
  <2>1. x \in Nat /\ y \in Nat
    OBVIOUS
  <2>2. y < x => <<y, x>> \in Descents
    BY <2>1 DEF Descents
  <2>3. ~(y < x)
    BY <1>2, <2>2, Zenon
  <2> QED
    BY <2>1, <2>3
<1> QED
  BY <1>3

\* Induction up to a bound, of membership in a set.
LEMMA Induction ==
    ASSUME NEW n \in Nat, NEW S, 0 \in S, \A k \in 0..(n - 1) : k \in S => k + 1 \in S
    PROVE  0..n \subseteq S
<1> SUFFICES ASSUME (0..n) \ S # {}
             PROVE  FALSE
  OBVIOUS
<1>1. PICK x \in (0..n) \ S : \A y \in (0..n) \ S : x <= y
  BY LeastExists, (0..n) \ S \in SUBSET Nat
<1>2. x - 1 \in 0..(n - 1) /\ x - 1 \in S
  BY <1>1
<1> QED
  BY <1>1, <1>2

\* What is kept of a list: its elements in the set, in their places' order.
Keeps(kept, list, set, m) ==
    /\ m \in [1..Len(kept) -> 1..Len(list)]
    /\ \A i, j \in 1..Len(kept) : i < j => m[i] < m[j]
    /\ \A i \in 1..Len(kept) : kept[i] = list[m[i]] /\ list[m[i]] \in set
    /\ \A p \in 1..Len(list) : list[p] \in set => \E i \in 1..Len(kept) : m[i] = p

KeptFrom(list, set, n, f) ==
    f = [k \in 0..n |->
            IF k = 0 THEN <<>>
            ELSE IF list[k] \in set THEN Append(f[k - 1], list[k]) ELSE f[k - 1]]

LEMMA KeptExists ==
    ASSUME NEW list, NEW set, Len(list) \in Nat
    PROVE  \E f : KeptFrom(list, set, Len(list), f) /\ Kept(list, set) = f[Len(list)]
<1> DEFINE n == Len(list)
           S == {m \in 0..n : \E f : KeptFrom(list, set, m, f)}
           next(f, k) == IF list[k] \in set THEN Append(f[k - 1], list[k]) ELSE f[k - 1]
<1>1. 0 \in S
  <2>1. KeptFrom(list, set, 0, [k \in 0..0 |-> <<>>])
    BY DEF KeptFrom
  <2> QED
    BY <2>1
<1>2. ASSUME NEW m \in 0..(n - 1), m \in S
      PROVE  m + 1 \in S
  <2>1. PICK f : KeptFrom(list, set, m, f)
    BY <1>2
  <2> DEFINE g == [k \in 0..(m + 1) |-> IF k = m + 1 THEN next(f, k) ELSE f[k]]
  <2>2. \A k \in 0..m : g[k] = f[k]
    OBVIOUS
  <2>3. \A k \in 1..(m + 1) : k - 1 \in 0..m /\ g[k - 1] = f[k - 1]
    BY <2>2
  <2>4. \A k \in 0..m : f[k] = IF k = 0 THEN <<>> ELSE next(f, k)
    BY <2>1 DEF KeptFrom
  <2>5. \A k \in 0..(m + 1) : g[k] = IF k = 0 THEN <<>> ELSE next(g, k)
    BY <2>3, <2>4
  <2>6. KeptFrom(list, set, m + 1, g)
    BY <2>5 DEF KeptFrom
  <2> QED
    BY <2>6
<1>3. 0..n \subseteq S
  <2> HIDE DEF S
  <2> QED
    BY <1>1, <1>2, Induction
<1>4. \E f : KeptFrom(list, set, n, f)
  BY <1>3
<1> DEFINE g == CHOOSE g : KeptFrom(list, set, n, g)
<1>5. KeptFrom(list, set, n, g)
  BY <1>4
<1>6. Kept(list, set) = g[n]
  BY DEF Kept, KeptFrom
<1> QED
  BY <1>5, <1>6

\* One element more.
LEMMA KeepsOneMore ==
    ASSUME NEW S, NEW list \in Seq(S), NEW n \in 0..(Len(list) - 1), NEW set,
           NEW kept \in Seq(S), NEW m, Keeps(kept, SubSeq(list, 1, n), set, m)
    PROVE  LET more == IF list[n + 1] \in set THEN Append(kept, list[n + 1]) ELSE kept
           IN  more \in Seq(S) /\ \E w : Keeps(more, SubSeq(list, 1, n + 1), set, w)
<1> DEFINE a == SubSeq(list, 1, n)
           b == SubSeq(list, 1, n + 1)
<1>1. /\ Len(list) \in Nat /\ n + 1 \in 1..Len(list) /\ list[n + 1] \in S
      /\ Len(a) = n /\ Len(b) = n + 1
      /\ \A p \in 1..n : a[p] = list[p] /\ b[p] = list[p]
      /\ b[n + 1] = list[n + 1]
      /\ Len(kept) \in Nat
  OBVIOUS
<1>2. /\ m \in [1..Len(kept) -> 1..n]
      /\ \A i, j \in 1..Len(kept) : i < j => m[i] < m[j]
      /\ \A i \in 1..Len(kept) : kept[i] = a[m[i]] /\ a[m[i]] \in set
      /\ \A p \in 1..n : a[p] \in set => \E i \in 1..Len(kept) : m[i] = p
  BY <1>1 DEF Keeps
<1>3. CASE list[n + 1] \in set
  <2> DEFINE c == Append(kept, list[n + 1])
             w == [i \in 1..(Len(kept) + 1) |-> IF i = Len(kept) + 1 THEN n + 1 ELSE m[i]]
  <2>1. /\ c \in Seq(S) /\ Len(c) = Len(kept) + 1 /\ c[Len(kept) + 1] = list[n + 1]
        /\ \A i \in 1..Len(kept) : c[i] = kept[i]
    BY <1>1
  <2> HIDE DEF a, b, c
  <2>0. /\ \A i \in 1..Len(kept) : w[i] = m[i] /\ m[i] \in 1..n
        /\ w[Len(kept) + 1] = n + 1
    BY <1>1, <1>2
  <2>2. w \in [1..Len(c) -> 1..Len(b)]
    BY <1>1, <1>2, <2>1
  <2> HIDE DEF w
  <2>3. ASSUME NEW i \in 1..Len(c), NEW j \in 1..Len(c), i < j
        PROVE  w[i] < w[j]
    <3>1. CASE j = Len(kept) + 1
      BY <1>1, <2>0, <2>1, <2>3, <3>1
    <3>2. CASE j # Len(kept) + 1
      <4>0. Len(kept) \in Nat /\ Len(c) = Len(kept) + 1
        BY <1>1, <2>1
      <4>1. i \in 1..Len(kept) /\ j \in 1..Len(kept)
        BY <2>3, <3>2, <4>0
      <4>2. m[i] < m[j]
        BY <1>2, <2>3, <4>1
      <4> QED
        BY <2>0, <4>1, <4>2
    <3> QED
      BY <3>1, <3>2
  <2>4. ASSUME NEW i \in 1..Len(c)
        PROVE  c[i] = b[w[i]] /\ b[w[i]] \in set
    <3>1. CASE i = Len(kept) + 1
      BY <1>1, <1>3, <2>0, <2>1, <3>1
    <3>2. CASE i # Len(kept) + 1
      <4>1. i \in 1..Len(kept)
        BY <1>1, <2>1, <3>2
      <4> QED
        BY <1>1, <1>2, <2>0, <2>1, <4>1
    <3> QED
      BY <3>1, <3>2
  <2>5. \A p \in 1..Len(b) : b[p] \in set => \E i \in 1..Len(c) : w[i] = p
    <3> SUFFICES ASSUME NEW p \in 1..Len(b), b[p] \in set
                 PROVE  \E i \in 1..Len(c) : w[i] = p
      OBVIOUS
    <3>1. CASE p = n + 1
      BY <1>1, <2>0, <2>1, <3>1
    <3>2. CASE p # n + 1
      <4>1. p \in 1..n /\ a[p] \in set
        BY <1>1, <3>2
      <4>2. PICK i \in 1..Len(kept) : m[i] = p
        BY <1>2, <4>1
      <4>3. i \in 1..Len(c) /\ w[i] = p
        BY <1>1, <2>0, <2>1, <4>2
      <4> QED
        BY <4>3
    <3> QED
      BY <3>1, <3>2
  <2>6. Keeps(c, b, set, w)
    BY <2>2, <2>3, <2>4, <2>5 DEF Keeps
  <2> QED
    BY <1>3, <2>1, <2>6 DEF b, c
<1>4. CASE list[n + 1] \notin set
  <2> HIDE DEF a, b
  <2>1. Keeps(kept, b, set, m)
    <3>1. m \in [1..Len(kept) -> 1..Len(b)]
      BY <1>1, <1>2
    <3>2. \A i \in 1..Len(kept) : kept[i] = b[m[i]] /\ b[m[i]] \in set
      BY <1>1, <1>2
    <3>3. \A p \in 1..Len(b) : b[p] \in set => \E i \in 1..Len(kept) : m[i] = p
      <4> SUFFICES ASSUME NEW p \in 1..Len(b), b[p] \in set
                   PROVE  \E i \in 1..Len(kept) : m[i] = p
        OBVIOUS
      <4>1. p \in 1..n /\ a[p] \in set
        BY <1>1, <1>4
      <4> QED
        BY <1>2, <4>1
    <3> QED
      BY <1>2, <3>1, <3>2, <3>3 DEF Keeps
  <2> QED
    BY <1>4, <2>1 DEF b
<1> QED
  BY <1>3, <1>4

LEMMA KeptKeeps ==
    ASSUME NEW S, NEW list \in Seq(S), NEW set
    PROVE  /\ Kept(list, set) \in Seq(S)
           /\ \E m : Keeps(Kept(list, set), list, set, m)
<1> DEFINE n == Len(list)
<1>0. n \in Nat
  OBVIOUS
<1>1. PICK f : KeptFrom(list, set, n, f) /\ Kept(list, set) = f[n]
  BY <1>0, KeptExists
<1>2. \A k \in 0..n : f[k] = IF k = 0 THEN <<>>
                             ELSE IF list[k] \in set THEN Append(f[k - 1], list[k]) ELSE f[k - 1]
  BY <1>1 DEF KeptFrom
<1> DEFINE T == {k \in 0..n : f[k] \in Seq(S) /\ \E m : Keeps(f[k], SubSeq(list, 1, k), set, m)}
<1>3. 0 \in T
  <2>1. f[0] = <<>>
    BY <1>2
  <2>2. SubSeq(list, 1, 0) = <<>>
    BY <1>0
  <2>3. Keeps(<<>>, <<>>, set, <<>>)
    BY DEF Keeps
  <2>4. f[0] \in Seq(S)
    BY <2>1
  <2>5. \E m : Keeps(f[0], SubSeq(list, 1, 0), set, m)
    BY <2>1, <2>2, <2>3
  <2> QED
    BY <1>0, <2>4, <2>5
<1>4. ASSUME NEW k \in 0..(n - 1), k \in T
      PROVE  k + 1 \in T
  <2>1. k + 1 \in 1..n
    BY <1>0
  <2>2. f[k + 1] = IF list[k + 1] \in set THEN Append(f[k], list[k + 1]) ELSE f[k]
    BY <1>2, <2>1
  <2>3. PICK m : f[k] \in Seq(S) /\ Keeps(f[k], SubSeq(list, 1, k), set, m)
    BY <1>4
  <2> DEFINE more == IF list[k + 1] \in set THEN Append(f[k], list[k + 1]) ELSE f[k]
  <2>4. more \in Seq(S) /\ \E w : Keeps(more, SubSeq(list, 1, k + 1), set, w)
    BY <2>3, KeepsOneMore
  <2>5. f[k + 1] = more
    BY <2>2
  <2> HIDE DEF more
  <2> QED
    BY <1>0, <2>1, <2>4, <2>5
<1>5. n \in T
  <2> HIDE DEF T
  <2>1. 0..n \subseteq T
    BY <1>0, <1>3, <1>4, Induction
  <2> QED
    BY <1>0, <2>1
<1>6. SubSeq(list, 1, n) = list
  OBVIOUS
<1> QED
  BY <1>1, <1>5, <1>6

\* The same without the places: what is kept, and no element twice.
LEMMA KeptFacts ==
    ASSUME NEW S, NEW list \in Seq(S), NEW set
    PROVE  LET kept == Kept(list, set) IN
           /\ kept \in Seq(S \cap set)
           /\ ToSet(kept) = ToSet(list) \cap set
<1> DEFINE kept == Kept(list, set)
<1>1. PICK m : Keeps(kept, list, set, m)
  BY KeptKeeps
<1>2. kept \in Seq(S) /\ Len(kept) \in Nat
  BY KeptKeeps
<1> HIDE DEF kept
<1>3. \A i \in 1..Len(kept) : kept[i] \in S \cap set
  BY <1>1, <1>2 DEF Keeps
<1>4. kept \in Seq(S \cap set)
  BY <1>2, <1>3, SeqDef
<1>5. ToSet(kept) = ToSet(list) \cap set
  <2>1. /\ DOMAIN kept = 1..Len(kept) /\ DOMAIN list = 1..Len(list)
    BY <1>2
  <2>2. ASSUME NEW x \in ToSet(kept)
        PROVE  x \in ToSet(list) \cap set
    <3>1. PICK i \in 1..Len(kept) : x = kept[i]
      BY <2>1 DEF ToSet
    <3>2. m[i] \in 1..Len(list) /\ x = list[m[i]] /\ x \in set
      BY <1>1, <3>1 DEF Keeps
    <3> QED
      BY <2>1, <3>2 DEF ToSet
  <2>3. ASSUME NEW x \in ToSet(list) \cap set
        PROVE  x \in ToSet(kept)
    <3>1. PICK p \in 1..Len(list) : x = list[p]
      BY <2>1 DEF ToSet
    <3>2. PICK i \in 1..Len(kept) : m[i] = p
      BY <1>1, <3>1 DEF Keeps
    <3>3. kept[i] = x
      BY <1>1, <3>1, <3>2 DEF Keeps
    <3> QED
      BY <2>1, <3>3 DEF ToSet
  <2> QED
    BY <2>2, <2>3
<1> QED
  BY <1>4, <1>5 DEF kept

-----------------------------------------------------------------------------
(* Queues without duplicates *)

LEMMA ListOf ==
    ASSUME NEW n \in Nat, NEW S, NEW f \in [1..n -> S]
    PROVE  f \in Seq(S) /\ Len(f) = n
  OBVIOUS

LEMMA InSeq ==
    ASSUME NEW S, NEW r \in Seq(S)
    PROVE  /\ Len(r) \in Nat /\ DOMAIN r = 1..Len(r)
           /\ \A i \in 1..Len(r) : r[i] \in S /\ r[i] \in ToSet(r)
           /\ \A x \in ToSet(r) : x \in S /\ \E i \in 1..Len(r) : r[i] = x
<1>1. Len(r) \in Nat /\ DOMAIN r = 1..Len(r) /\ \A i \in 1..Len(r) : r[i] \in S
  OBVIOUS
<1> QED
  BY <1>1 DEF ToSet

LEMMA TailFacts ==
    ASSUME NEW S, NEW r \in Seq(S), r # <<>>
    PROVE  /\ Tail(r) \in Seq(S) /\ Head(r) \in ToSet(r) /\ Head(r) \in S
           /\ ToSet(r) = {Head(r)} \cup ToSet(Tail(r))
           /\ Once(r) => Once(Tail(r)) /\ Head(r) \notin ToSet(Tail(r))
           /\ \A x, y : Precedes(r, x, y) => Precedes(Tail(r), x, y)
           /\ \A x : Precedes(r, x, Head(r)) /\ x # Head(r) => x \notin ToSet(r)
<1> DEFINE t == Tail(r)
<1>1. /\ Len(r) \in Nat \ {0} /\ Head(r) = r[1] /\ t \in Seq(S)
      /\ Len(t) = Len(r) - 1
      /\ \A i \in 1..Len(t) : t[i] = r[i + 1]
  OBVIOUS
<1> HIDE DEF t
<1>2. /\ \A i \in 1..Len(r) : r[i] \in S /\ r[i] \in ToSet(r)
      /\ \A x \in ToSet(r) : \E i \in 1..Len(r) : r[i] = x
      /\ \A i \in 1..Len(t) : t[i] \in ToSet(t)
      /\ \A x \in ToSet(t) : \E i \in 1..Len(t) : t[i] = x
  <2>1. t \in Seq(S) /\ r \in Seq(S)
    BY <1>1
  <2>2. /\ \A i \in 1..Len(r) : r[i] \in S /\ r[i] \in ToSet(r)
        /\ \A x \in ToSet(r) : \E i \in 1..Len(r) : r[i] = x
    BY <2>1, InSeq, ZenonT(60)
  <2>3. /\ \A i \in 1..Len(t) : t[i] \in ToSet(t)
        /\ \A x \in ToSet(t) : \E i \in 1..Len(t) : t[i] = x
    BY <2>1, InSeq, ZenonT(60)
  <2> QED
    BY <2>2, <2>3
<1>3. ToSet(r) = {Head(r)} \cup ToSet(t)
  <2>1. ASSUME NEW x \in ToSet(r)
        PROVE  x = r[1] \/ x \in ToSet(t)
    <3>1. PICK i \in 1..Len(r) : r[i] = x
      BY <1>2
    <3>2. CASE i # 1
      <4>1. i - 1 \in 1..Len(t) /\ t[i - 1] = x
        BY <1>1, <3>1, <3>2
      <4> QED
        BY <1>2, <4>1
    <3> QED
      BY <3>1, <3>2
  <2>2. ASSUME NEW x \in ToSet(t)
        PROVE  x \in ToSet(r)
    <3>1. PICK i \in 1..Len(t) : t[i] = x
      BY <1>2
    <3>2. i + 1 \in 1..Len(r) /\ r[i + 1] = x
      BY <1>1, <3>1
    <3> QED
      BY <1>2, <3>2
  <2>3. 1 \in 1..Len(r)
    BY <1>1
  <2> QED
    BY <1>1, <1>2, <2>1, <2>2, <2>3
<1>4. ASSUME Once(r)
      PROVE  Once(t) /\ Head(r) \notin ToSet(t)
  <2>1. \A i \in 1..Len(t) : i + 1 \in 1..Len(r) /\ r[i + 1] = t[i]
    BY <1>1
  <2>2. Once(t)
    BY <1>1, <1>4, <2>1 DEF Once
  <2>3. ASSUME NEW i \in 1..Len(t), t[i] = r[1]
        PROVE  FALSE
    <3>1. i + 1 \in 1..Len(r) /\ 1 \in 1..Len(r) /\ r[i + 1] = r[1]
      BY <1>1, <2>1, <2>3
    <3>2. i + 1 = 1
      BY <1>4, <3>1 DEF Once
    <3> QED
      BY <3>2
  <2> QED
    BY <1>1, <1>2, <2>2, <2>3
<1>5. ASSUME NEW x, NEW y, Precedes(r, x, y)
      PROVE  Precedes(t, x, y)
  <2>1. \A i \in 1..Len(t) : i \in Int /\ i + 1 \in 1..Len(r) /\ r[i + 1] = t[i]
    BY <1>1
  <2>2. ASSUME NEW i \in 1..Len(t), NEW j \in 1..Len(t), t[i] = x, t[j] = y
        PROVE  i < j
    <3>1. i + 1 < j + 1
      BY <1>5, <2>1, <2>2 DEF Precedes
    <3> QED
      BY <2>1, <3>1
  <2> QED
    BY <2>2 DEF Precedes
<1>6. ASSUME NEW x, Precedes(r, x, Head(r)), x # Head(r), x \in ToSet(r)
      PROVE  FALSE
  <2>1. PICK i \in 1..Len(r) : r[i] = x
    BY <1>2, <1>6
  <2>2. 1 \in 1..Len(r) /\ r[1] = Head(r)
    BY <1>1
  <2>3. i < 1
    BY <1>6, <2>1, <2>2 DEF Precedes
  <2> QED
    BY <2>3
<1> QED
  BY <1>1, <1>2, <1>3, <1>4, <1>5, <1>6 DEF t

LEMMA AppendFacts ==
    ASSUME NEW S, NEW r \in Seq(S), NEW z \in S
    PROVE  /\ Append(r, z) \in Seq(S) /\ ToSet(Append(r, z)) = ToSet(r) \cup {z}
           /\ Once(r) /\ z \notin ToSet(r) => Once(Append(r, z))
           /\ \A x, y : Precedes(r, x, y) /\ x # y /\ (z = x => y \notin ToSet(r))
                            => Precedes(Append(r, z), x, y)
<1> DEFINE t == Append(r, z)
<1>1. /\ Len(r) \in Nat /\ t \in Seq(S) /\ Len(t) = Len(r) + 1
      /\ t[Len(r) + 1] = z /\ \A i \in 1..Len(r) : t[i] = r[i]
  OBVIOUS
<1> HIDE DEF t
<1>2. /\ \A i \in 1..Len(r) : r[i] \in ToSet(r)
      /\ \A x \in ToSet(r) : \E i \in 1..Len(r) : r[i] = x
      /\ \A i \in 1..Len(t) : t[i] \in ToSet(t)
      /\ \A x \in ToSet(t) : \E i \in 1..Len(t) : t[i] = x
  <2>1. t \in Seq(S) /\ r \in Seq(S)
    BY <1>1
  <2>2. /\ \A i \in 1..Len(r) : r[i] \in ToSet(r)
        /\ \A x \in ToSet(r) : \E i \in 1..Len(r) : r[i] = x
    BY <2>1, InSeq
  <2>3. /\ \A i \in 1..Len(t) : t[i] \in ToSet(t)
        /\ \A x \in ToSet(t) : \E i \in 1..Len(t) : t[i] = x
    BY <2>1, InSeq
  <2> QED
    BY <2>2, <2>3
<1>3. \A i \in 1..Len(t) : i = Len(r) + 1 \/ i \in 1..Len(r)
  BY <1>1
<1>4. ToSet(t) = ToSet(r) \cup {z}
  <2>1. \A x \in ToSet(t) : x \in ToSet(r) \cup {z}
    BY <1>1, <1>2, <1>3
  <2>2. \A i \in 1..Len(r) : i \in 1..Len(t)
    BY <1>1
  <2>3. Len(r) + 1 \in 1..Len(t)
    BY <1>1
  <2>4. \A x \in ToSet(r) \cup {z} : x \in ToSet(t)
    BY <1>1, <1>2, <2>2, <2>3
  <2> QED
    BY <2>1, <2>4
<1>5. ASSUME Once(r), z \notin ToSet(r)
      PROVE  Once(t)
  BY <1>1, <1>2, <1>3, <1>5 DEF Once
<1>6. ASSUME NEW x, NEW y, Precedes(r, x, y), x # y, z = x => y \notin ToSet(r)
      PROVE  Precedes(t, x, y)
  <2>1. ASSUME NEW i \in 1..Len(t), NEW j \in 1..Len(t), t[i] = x, t[j] = y
        PROVE  i < j
    <3>1. CASE i = Len(r) + 1
      BY <1>1, <1>2, <1>3, <1>6, <2>1, <3>1
    <3>2. CASE j = Len(r) + 1 /\ i # Len(r) + 1
      BY <1>1, <1>3, <3>2
    <3>3. CASE i \in 1..Len(r) /\ j \in 1..Len(r)
      BY <1>1, <1>6, <2>1, <3>3 DEF Precedes
    <3> QED
      BY <1>3, <3>1, <3>2, <3>3
  <2> QED
    BY <2>1 DEF Precedes
<1> QED
  BY <1>1, <1>4, <1>5, <1>6 DEF t

LEMMA KeptOrder ==
    ASSUME NEW S, NEW r \in Seq(S), NEW set
    PROVE  /\ Once(r) => Once(Kept(r, set))
           /\ \A x, y : Precedes(r, x, y) => Precedes(Kept(r, set), x, y)
<1> DEFINE kept == Kept(r, set)
<1>1. PICK m : Keeps(kept, r, set, m)
  BY KeptKeeps
<1>2. kept \in Seq(S) /\ Len(kept) \in Nat
  BY KeptKeeps
<1> HIDE DEF kept
<1>3. /\ \A i \in 1..Len(kept) : m[i] \in 1..Len(r) /\ m[i] \in Int /\ kept[i] = r[m[i]]
      /\ \A i, j \in 1..Len(kept) : i < j => m[i] < m[j]
  BY <1>1 DEF Keeps
<1>4. \A i, j \in 1..Len(kept) : i = j \/ i < j \/ j < i
  BY <1>2
<1>5. ASSUME Once(r)
      PROVE  Once(kept)
  <2>1. ASSUME NEW i \in 1..Len(kept), NEW j \in 1..Len(kept), kept[i] = kept[j]
        PROVE  i = j
    <3>1. m[i] = m[j]
      BY <1>3, <1>5, <2>1 DEF Once
    <3>2. ~(m[i] < m[j]) /\ ~(m[j] < m[i])
      BY <1>3, <3>1
    <3> QED
      BY <1>3, <1>4, <3>2
  <2> QED
    BY <2>1 DEF Once
<1>6. ASSUME NEW x, NEW y, Precedes(r, x, y)
      PROVE  Precedes(kept, x, y)
  <2>1. ASSUME NEW i \in 1..Len(kept), NEW j \in 1..Len(kept), kept[i] = x, kept[j] = y
        PROVE  i < j
    <3>1. m[i] < m[j]
      BY <1>3, <1>6, <2>1 DEF Precedes
    <3>2. i # j /\ ~(j < i)
      BY <1>3, <3>1
    <3> QED
      BY <1>4, <3>2
  <2> QED
    BY <2>1 DEF Precedes
<1> QED
  BY <1>5, <1>6 DEF kept

-----------------------------------------------------------------------------
(* The consumer *)

LEMMA Messages ==
    /\ \A i, j : Sample(i) = Sample(j) => i = j
    /\ \A i : /\ Sample(i) \notin {Error, Done, End} /\ Sample(i).type = "sample"
              /\ Sample(i).of = i
    /\ Error # Done /\ Error # End /\ Done # End
    /\ Error.type = "error" /\ End.type = "end" /\ Done.type = "worker_done"
    /\ {Error, Done, End} \subseteq Message
    /\ \A i \in Int : Sample(i) \in Message
<1>1. \A i, j : Sample(i) = Sample(j) => i = j
  <2> TAKE i, j
  <2>1. Sample(i).of = i /\ Sample(j).of = j
    BY DEF Sample
  <2> QED
    BY <2>1
<1> QED
  BY <1>1 DEF Sample, Error, Done, End, Message

LEMMA OneTwo ==
    /\ \A x : ToSet(<<x>>) = {x} /\ <<x>> # <<>>
    /\ \A x, y : ToSet(<<x, y>>) = {x, y} /\ <<x, y>> # <<>>
    /\ ToSet(<<>>) = {}
  BY DEF ToSet

LEMMA SeqSubset ==
    ASSUME NEW S, NEW T, NEW s \in Seq(S), S \subseteq T
    PROVE  s \in Seq(T)
<1>1. \A i \in 1..Len(s) : s[i] \in T
  OBVIOUS
<1> QED
  BY <1>1, SeqDef

\* The first item of a stream is taken.
LEMMA StreamTail ==
    ASSUME NEW asked \in SUBSET Int, NEW k \in CallRecord, StreamOK(k, asked),
           k.stream # <<>>, Head(k.stream) \notin {Error, End}
    PROVE  /\ \E i \in asked : Head(k.stream) = Sample(i)
           /\ Tail(k.stream) \in Seq(Samples(asked) \cup {Error, End})
           /\ Tail(k.stream) \in Seq(Message)
           /\ Once(Tail(k.stream)) /\ Head(k.stream) \notin ToSet(Tail(k.stream))
           /\ ToSet(k.stream) = {Head(k.stream)} \cup ToSet(Tail(k.stream))
           /\ \A p \in 1..Len(Tail(k.stream)) :
                 /\ Tail(k.stream)[p] = End => p = Len(Tail(k.stream))
                 /\ Tail(k.stream)[p] = Error =>
                       p + 1 = Len(Tail(k.stream)) /\ Tail(k.stream)[p + 1] = End
<1> DEFINE S == Samples(asked) \cup {Error, End}
           t == Tail(k.stream)
<1>1. k.stream \in Seq(S) /\ k.stream \in Seq(Message)
  BY DEF StreamOK, CallRecord
<1>2. /\ Head(k.stream) \in S /\ t \in Seq(S) /\ t \in Seq(Message)
      /\ ToSet(k.stream) = {Head(k.stream)} \cup ToSet(t)
      /\ Once(t) /\ Head(k.stream) \notin ToSet(t)
  <2> HIDE DEF S
  <2> QED
    BY <1>1, TailFacts DEF StreamOK
<1>3. \E i \in asked : Head(k.stream) = Sample(i)
  BY <1>2 DEF Samples
<1>4. /\ Len(k.stream) \in Nat /\ Len(t) = Len(k.stream) - 1
      /\ \A p \in 1..Len(t) : t[p] = k.stream[p + 1] /\ p + 1 \in 1..Len(k.stream)
  BY <1>1
<1>5. \A p \in 1..Len(k.stream) :
          /\ k.stream[p] = End => p = Len(k.stream)
          /\ k.stream[p] = Error => p + 1 = Len(k.stream) /\ k.stream[p + 1] = End
  BY DEF StreamOK
<1> HIDE DEF S, t
<1>6. ASSUME NEW p \in 1..Len(t)
      PROVE  /\ t[p] = End => p = Len(t)
             /\ t[p] = Error => p + 1 = Len(t) /\ t[p + 1] = End
  <2>1. p + 1 \in 1..Len(k.stream) /\ t[p] = k.stream[p + 1]
    BY <1>4
  <2>2. t[p] = End => p = Len(t)
    BY <1>4, <1>5, <2>1
  <2>3. ASSUME t[p] = Error
        PROVE  p + 1 = Len(t) /\ t[p + 1] = End
    <3>1. p + 1 + 1 = Len(k.stream) /\ k.stream[p + 1 + 1] = End
      BY <1>5, <2>1, <2>3
    <3>2. p + 1 \in 1..Len(t)
      BY <1>4, <3>1
    <3>3. t[p + 1] = k.stream[p + 1 + 1]
      BY <1>4, <3>2
    <3> QED
      BY <1>4, <3>1, <3>3
  <2> QED
    BY <2>2, <2>3
<1> QED
  BY <1>2, <1>3, <1>6 DEF S, t

\* A stream that begins with its end, or with an error.
LEMMA StreamEnds ==
    ASSUME NEW asked \in SUBSET Int, NEW k \in CallRecord, StreamOK(k, asked), k.stream # <<>>
    PROVE  /\ Head(k.stream) = End => k.stream = <<End>>
           /\ Head(k.stream) = Error => k.stream = <<Error, End>>
<1>1. k.stream \in Seq(Message) /\ Len(k.stream) \in Nat \ {0} /\ Head(k.stream) = k.stream[1]
  BY DEF CallRecord
<1>2. 1 \in 1..Len(k.stream)
  BY <1>1
<1>3. ASSUME Head(k.stream) = End
      PROVE  k.stream = <<End>>
  <2>1. Len(k.stream) = 1
    BY <1>1, <1>2, <1>3 DEF StreamOK
  <2> QED
    BY <1>1, <1>3, <2>1
<1>4. ASSUME Head(k.stream) = Error
      PROVE  k.stream = <<Error, End>>
  <2>1. Len(k.stream) = 2 /\ k.stream[1] = Error /\ k.stream[2] = End
    <3>1. k.stream[1] = Error => 1 + 1 = Len(k.stream) /\ k.stream[1 + 1] = End
      BY <1>2 DEF StreamOK
    <3> QED
      BY <1>1, <1>4, <3>1
  <2> QED
    BY <1>1, <2>1
<1> QED
  BY <1>3, <1>4

LEMMA AppendOneTwo ==
    ASSUME NEW S
    PROVE  \A s \in Seq(S) : \A x, y \in S :
               /\ Append(s, x) = s \o <<x>>
               /\ Append(Append(s, x), y) = s \o <<x, y>>
               /\ s \o <<x>> \in Seq(S) /\ s \o <<x, y>> \in Seq(S)
               /\ s = <<>> => s \o <<x>> = <<x>> /\ s \o <<x, y>> = <<x, y>>
<1> TAKE s \in Seq(S)
<1> TAKE x, y \in S
<1>1. Append(s, x) = s \o <<x>>
  OBVIOUS
<1>2. Append(Append(s, x), y) = s \o <<x, y>>
  <2>1. Append(s, x) \in Seq(S)
    OBVIOUS
  <2> QED
    BY <2>1
<1>3. s \o <<x>> \in Seq(S) /\ s \o <<x, y>> \in Seq(S)
  <2>1. <<x>> \in Seq(S) /\ <<x, y>> \in Seq(S)
    OBVIOUS
  <2> QED
    BY <2>1, ConcatProperties
<1>4. s = <<>> => s \o <<x>> = <<x>> /\ s \o <<x, y>> = <<x, y>>
  OBVIOUS
<1> QED
  BY <1>1, <1>2, <1>3, <1>4

LEMMA Put ==
    \A s \in Seq(Message) : \A x \in Message :
        /\ Append(s, x) = s \o <<x>> /\ Append(s, x) \in Seq(Message)
        /\ Append(Append(s, x), Done) = s \o <<x, Done>>
        /\ s \o <<x>> \in Seq(Message) /\ s \o <<x, Done>> \in Seq(Message)
        /\ s = <<>> => s \o <<x>> = <<x>> /\ s \o <<x, Done>> = <<x, Done>>
<1>1. Done \in Message
  BY Messages
<1>2. \A s \in Seq(Message) : \A x, y \in Message :
               /\ Append(s, x) = s \o <<x>>
               /\ Append(Append(s, x), y) = s \o <<x, y>>
               /\ s \o <<x>> \in Seq(Message) /\ s \o <<x, y>> \in Seq(Message)
               /\ s = <<>> => s \o <<x>> = <<x>> /\ s \o <<x, y>> = <<x, y>>
  BY AppendOneTwo
<1> QED
  BY <1>1, <1>2

LEMMA OnceShort == \A x, y : Once(<<>>) /\ Once(<<x>>) /\ (x # y => Once(<<x, y>>))
  BY DEF Once

\* The consumer after the end of the stream, and after an error.
LEMMA ConsumerEnds ==
    ASSUME NEW asked \in SUBSET Int, NEW k \in CallRecord, StreamOK(k, asked),
           k.stream \in {<<End>>, <<Error, End>>},
           NEW j \in CallRecord, j.stream = k.stream, j.prompts = k.prompts,
           j.finished = TRUE, j.consumer = "done"
    PROVE  StreamOK(j, asked)
  BY DEF StreamOK

\* What becomes of a call when its consumer runs.
LEMMA ConsumerStep ==
    ASSUME NEW asked \in SUBSET Int, NEW k \in CallRecord, StreamOK(k, asked),
           k.consumer # "done", k.caller \in {"wait", "cancelled"},
           NEW j, j = ConsumerResumes(k)
    PROVE  /\ j \in CallRecord /\ StreamOK(j, asked) /\ j.caller = k.caller
           /\ Error \in ToSet(j.stream) => Error \in ToSet(k.stream)
           /\ k.caller = "wait" /\ QueueOK(k, asked) /\ CarriedOnce(k, asked) =>
                /\ CarriedOnce(j, asked)
                /\ IF j.queue = <<>> THEN QueueOK(j, asked)
                   ELSE QueueOK([j EXCEPT !.caller = "woken"], asked)
<1> DEFINE x == Head(k.stream)
           t == Tail(k.stream)
<1>0. /\ k.stream \in Seq(Message) /\ k.queue \in Seq(Message)
      /\ k.consumer \in {"next", "ref"}
      /\ k.consumer = "ref" => k.stream # <<>> /\ x # End
  BY DEF CallRecord, StreamOK
<1>1. CASE k.consumer = "next" /\ k.stream = <<>>
  <2>1. j = k
    BY <1>1 DEF ConsumerResumes
  <2>2. k.caller = "wait" /\ QueueOK(k, asked) => k.queue = <<>>
    BY DEF QueueOK
  <2> QED
    BY <2>1, <2>2
<1>2. CASE k.consumer = "next" /\ k.stream # <<>> /\ x = End
  <2>1. k.stream = <<End>>
    BY <1>2, StreamEnds
  <2>2. /\ j = [k EXCEPT !.finished = TRUE, !.consumer = "done", !.queue = Append(@, Done)]
        /\ Append(k.queue, Done) = k.queue \o <<Done>>
    BY <1>0, <1>2 DEF ConsumerResumes
  <2>3. j = [k EXCEPT !.finished = TRUE, !.consumer = "done", !.queue = @ \o <<Done>>]
    BY <2>2
  <2>4. /\ j \in CallRecord /\ j.stream = k.stream /\ j.got = k.got
        /\ j.prompts = k.prompts /\ j.caller = k.caller /\ j.finished = TRUE
        /\ j.consumer = "done" /\ (k.queue = <<>> => j.queue = <<Done>>)
    <3>1. /\ k.queue \o <<Done>> \in Seq(Message)
          /\ k.queue = <<>> => k.queue \o <<Done>> = <<Done>>
      BY <1>0, Put, Messages
    <3> QED
      BY <2>3, <3>1 DEF CallRecord
  <2>5. StreamOK(j, asked)
    <3>1. k.stream \in {<<End>>, <<Error, End>>}
      BY <2>1
    <3> QED
      BY <2>4, <3>1, ConsumerEnds
  <2>6. ASSUME k.caller = "wait", QueueOK(k, asked), CarriedOnce(k, asked)
        PROVE  /\ CarriedOnce(j, asked) /\ j.queue # <<>>
               /\ QueueOK([j EXCEPT !.caller = "woken"], asked)
    <3>1. k.queue = <<>> /\ j.queue = <<Done>>
      BY <2>4, <2>6 DEF QueueOK
    <3>2. CarriedOnce(j, asked)
      BY <2>4, <2>6, <3>1, OneTwo, Messages DEF CarriedOnce
    <3>3. QueueOK([j EXCEPT !.caller = "woken"], asked)
      BY <2>1, <2>4, <3>1 DEF QueueOK, CallRecord
    <3> QED
      BY <3>1, <3>2, <3>3, OneTwo
  <2> QED
    BY <2>4, <2>5, <2>6
<1>3. CASE k.consumer = "next" /\ k.stream # <<>> /\ x # End
  <2>1. j = [k EXCEPT !.consumer = "ref"]
    BY <1>3 DEF ConsumerResumes
  <2>2. /\ j \in CallRecord /\ j.stream = k.stream /\ j.got = k.got /\ j.prompts = k.prompts
        /\ j.caller = k.caller /\ j.finished = k.finished /\ j.queue = k.queue
        /\ j.consumer = "ref"
    BY <2>1 DEF CallRecord
  <2>3. StreamOK(j, asked)
    BY <1>3, <2>2 DEF StreamOK
  <2>4. CarriedOnce(k, asked) => CarriedOnce(j, asked)
    BY <2>2 DEF CarriedOnce
  <2>5. k.caller = "wait" /\ QueueOK(k, asked) => QueueOK(j, asked) /\ j.queue = <<>>
    BY <2>2 DEF QueueOK
  <2> QED
    BY <2>2, <2>3, <2>4, <2>5
<1>4. CASE k.consumer = "ref" /\ x.type = "error"
  <2>1. k.stream = <<Error, End>>
    <3>1. k.stream # <<>> /\ x # End
      BY <1>0, <1>4
    <3>2. x = Error
      BY <1>4, <3>1, StreamTail, Messages
    <3> QED
      BY <3>1, <3>2, StreamEnds
  <2>3. j = [k EXCEPT !.finished = TRUE, !.consumer = "done", !.queue = @ \o <<Error, Done>>]
    BY <1>4 DEF ConsumerResumes
  <2>4. /\ j \in CallRecord /\ j.stream = k.stream /\ j.got = k.got
        /\ j.prompts = k.prompts /\ j.caller = k.caller /\ j.finished = TRUE
        /\ j.consumer = "done" /\ (k.queue = <<>> => j.queue = <<Error, Done>>)
    <3>1. /\ k.queue \o <<Error, Done>> \in Seq(Message)
          /\ k.queue = <<>> => k.queue \o <<Error, Done>> = <<Error, Done>>
      BY <1>0, Put, Messages
    <3> QED
      BY <2>3, <3>1 DEF CallRecord
  <2>5. StreamOK(j, asked)
    <3>1. k.stream \in {<<End>>, <<Error, End>>}
      BY <2>1
    <3> QED
      BY <2>4, <3>1, ConsumerEnds
  <2>6. ASSUME k.caller = "wait", QueueOK(k, asked), CarriedOnce(k, asked)
        PROVE  /\ CarriedOnce(j, asked) /\ j.queue # <<>>
               /\ QueueOK([j EXCEPT !.caller = "woken"], asked)
    <3>1. k.queue = <<>> /\ j.queue = <<Error, Done>>
      BY <2>4, <2>6 DEF QueueOK
    <3>2. CarriedOnce(j, asked)
      BY <2>4, <2>6, <3>1, OneTwo, Messages DEF CarriedOnce
    <3>3. QueueOK([j EXCEPT !.caller = "woken"], asked)
      BY <2>1, <2>4, <3>1 DEF QueueOK, CallRecord
    <3> QED
      BY <3>1, <3>2, <3>3, OneTwo
  <2> QED
    BY <2>4, <2>5, <2>6
<1>5. CASE k.consumer = "ref" /\ x.type # "error"
  <2>1. k.stream # <<>> /\ x \notin {Error, End}
    BY <1>0, <1>5, Messages
  <2>2. PICK i \in asked : x = Sample(i)
    BY <2>1, StreamTail
  <2>3. /\ t \in Seq(Samples(asked) \cup {Error, End}) /\ t \in Seq(Message)
        /\ Once(t) /\ x \notin ToSet(t) /\ ToSet(k.stream) = {x} \cup ToSet(t)
        /\ \A p \in 1..Len(t) :
              /\ t[p] = End => p = Len(t)
              /\ t[p] = Error => p + 1 = Len(t) /\ t[p + 1] = End
    BY <2>1, StreamTail
  <2>4. x \in Message
    BY <2>2, Messages
  <2> DEFINE ended == t # <<>> /\ Head(t) = End
             q == IF ended THEN <<x, Done>> ELSE <<x>>
  <2>5. k.queue \o q \in Seq(Message) /\ (k.queue = <<>> => k.queue \o q = q)
    BY <1>0, <2>4, Put
  <2>6. /\ j = [k EXCEPT !.stream = t, !.queue = k.queue \o q, !.finished = ended \/ k.finished,
                         !.consumer = IF t = <<>> THEN "next"
                                      ELSE IF ended THEN "done" ELSE "ref"]
    <3>1. /\ Append(k.queue, x) = k.queue \o <<x>>
          /\ Append(Append(k.queue, x), Done) = k.queue \o <<x, Done>>
          /\ Append(k.queue, x) \in Seq(Message)
      BY <1>0, <2>4, Put
    <3>2. k.finished \in BOOLEAN
      BY DEF CallRecord
    <3> DEFINE j0 == [k EXCEPT !.consumer = "next", !.stream = t, !.queue = Append(@, x)]
    <3>3. /\ j0.stream = t /\ j0.queue = Append(k.queue, x) /\ j0 \in CallRecord
      <4> HIDE DEF t, x
      <4> QED
        BY <2>3, <3>1 DEF CallRecord
    <3>4. j = IF t = <<>> THEN j0
              ELSE IF Head(t) = End
              THEN [j0 EXCEPT !.finished = TRUE, !.consumer = "done", !.queue = Append(@, Done)]
              ELSE [j0 EXCEPT !.consumer = "ref"]
      BY <1>5, <3>3 DEF ConsumerResumes
    <3>5. t # <<>> /\ Head(t) = End <=> ended
      OBVIOUS
    <3>6. k \in CallRecord
      OBVIOUS
    <3> HIDE DEF t, x, ended
    <3>7. CASE t = <<>>
      BY <3>1, <3>2, <3>4, <3>5, <3>6, <3>7 DEF CallRecord
    <3>8. CASE t # <<>> /\ ended
      <4>1. j = [j0 EXCEPT !.finished = TRUE, !.consumer = "done", !.queue = Append(@, Done)]
        BY <3>4, <3>5, <3>8
      <4>2. q = <<x, Done>>
        BY <3>8
      <4> QED
        BY <3>1, <3>2, <3>3, <3>8, <4>1, <4>2 DEF CallRecord
    <3>9. CASE t # <<>> /\ ~ended
      BY <3>1, <3>2, <3>4, <3>5, <3>6, <3>9 DEF CallRecord
    <3> QED
      BY <3>7, <3>8, <3>9
  <2>7. /\ j \in CallRecord /\ j.stream = t /\ j.queue = k.queue \o q /\ j.got = k.got
        /\ j.prompts = k.prompts /\ j.caller = k.caller /\ (j.finished <=> ended \/ k.finished)
        /\ j.consumer = IF t = <<>> THEN "next" ELSE IF ended THEN "done" ELSE "ref"
    <3>1. k.finished \in BOOLEAN
      BY DEF CallRecord
    <3> HIDE DEF q, t
    <3> QED
      BY <2>3, <2>5, <2>6, <3>1 DEF CallRecord
  <2>8. ~k.finished
    BY <1>5 DEF StreamOK
  <2>9. StreamOK(j, asked) /\ (ended => t = <<End>>)
    <3>1. ended => t = <<End>>
      <4>1. Len(t) \in Nat
        BY <2>3
      <4> SUFFICES ASSUME ended PROVE t = <<End>>
        OBVIOUS
      <4>2. Len(t) # 0 /\ t[1] = End
        BY <2>3
      <4>3. 1 \in 1..Len(t)
        BY <4>1, <4>2
      <4>4. Len(t) = 1
        BY <2>3, <4>2, <4>3
      <4>5. t \in Seq(Message) /\ t = [p \in 1..Len(t) |-> t[p]]
        BY <2>3
      <4> HIDE DEF t
      <4> QED
        BY <4>2, <4>4, <4>5
    <3>2. End \in ToSet(t) => k.prompts = {}
      BY <2>3 DEF StreamOK
    <3> HIDE DEF t, q
    <3> QED
      BY <2>3, <2>7, <2>8, <3>1, <3>2 DEF StreamOK
  <2>10. ASSUME k.caller = "wait", QueueOK(k, asked), CarriedOnce(k, asked)
         PROVE  /\ CarriedOnce(j, asked) /\ j.queue # <<>>
                /\ QueueOK([j EXCEPT !.caller = "woken"], asked)
    <3>1. k.queue = <<>> /\ j.queue = q /\ q # <<>>
      BY <2>5, <2>7, <2>10 DEF QueueOK
    <3>2. ToSet(q) = IF ended THEN {x, Done} ELSE {x}
      BY OneTwo
    <3>3. CarriedOnce(j, asked)
      <4> HIDE DEF x, t, q, ended
      <4> QED
        BY <2>2, <2>3, <2>7, <2>10, <3>1, <3>2, OneTwo, Messages DEF CarriedOnce
    <3>4. QueueOK([j EXCEPT !.caller = "woken"], asked)
      BY <2>2, <2>7, <2>8, <2>9, <3>1 DEF QueueOK, CallRecord
    <3> QED
      BY <3>1, <3>3, <3>4
  <2>11. Error \in ToSet(j.stream) => Error \in ToSet(k.stream)
    BY <2>3, <2>7
  <2> QED
    BY <2>7, <2>9, <2>10, <2>11
<1> QED
  BY <1>0, <1>1, <1>2, <1>3, <1>4, <1>5

-----------------------------------------------------------------------------
(* The caller *)

LEMMA ConcatFacts ==
    ASSUME NEW S, NEW r \in Seq(S), NEW t \in Seq(S)
    PROVE  /\ r \o t \in Seq(S) /\ ToSet(r \o t) = ToSet(r) \cup ToSet(t)
           /\ Once(r) /\ Once(t) /\ ToSet(r) \cap ToSet(t) = {} => Once(r \o t)
<1> DEFINE u == r \o t
<1>1. /\ u \in Seq(S) /\ Len(r) \in Nat /\ Len(t) \in Nat /\ Len(u) = Len(r) + Len(t)
      /\ \A i \in 1..Len(u) : u[i] = IF i <= Len(r) THEN r[i] ELSE t[i - Len(r)]
  BY ConcatProperties
<1> HIDE DEF u
<1>2. /\ \A i \in 1..Len(r) : r[i] \in ToSet(r)
      /\ \A x \in ToSet(r) : \E i \in 1..Len(r) : r[i] = x
  BY InSeq
<1>3. /\ \A i \in 1..Len(t) : t[i] \in ToSet(t)
      /\ \A x \in ToSet(t) : \E i \in 1..Len(t) : t[i] = x
  BY InSeq
<1>4. /\ \A i \in 1..Len(u) : u[i] \in ToSet(u)
      /\ \A x \in ToSet(u) : \E i \in 1..Len(u) : u[i] = x
  BY <1>1, InSeq
<1>5. \A i \in 1..Len(u) : \/ i \in 1..Len(r) /\ u[i] = r[i]
                           \/ ~(i <= Len(r)) /\ i - Len(r) \in 1..Len(t) /\ u[i] = t[i - Len(r)]
  BY <1>1
<1>6. /\ \A i \in 1..Len(r) : i \in 1..Len(u) /\ u[i] = r[i]
      /\ \A i \in 1..Len(t) : i + Len(r) \in 1..Len(u) /\ u[i + Len(r)] = t[i]
  <2>1. ASSUME NEW i \in 1..Len(t)
        PROVE  i + Len(r) \in 1..Len(u) /\ u[i + Len(r)] = t[i]
    <3>1. /\ i + Len(r) \in 1..Len(u) /\ ~(i + Len(r) <= Len(r))
          /\ (i + Len(r)) - Len(r) = i
      BY <1>1
    <3> QED
      BY <1>1, <3>1
  <2> QED
    BY <1>1, <2>1
<1>7. ToSet(u) = ToSet(r) \cup ToSet(t)
  <2>1. \A x \in ToSet(u) : x \in ToSet(r) \cup ToSet(t)
    BY <1>2, <1>3, <1>4, <1>5
  <2>2. \A x \in ToSet(r) : x \in ToSet(u)
    BY <1>2, <1>4, <1>6
  <2>3. \A x \in ToSet(t) : x \in ToSet(u)
    <3> SUFFICES ASSUME NEW x \in ToSet(t)
                 PROVE  x \in ToSet(u)
      OBVIOUS
    <3>1. PICK i \in 1..Len(t) : t[i] = x
      BY <1>3
    <3> QED
      BY <1>4, <1>6, <3>1
  <2> QED
    BY <2>1, <2>2, <2>3
<1>8. ASSUME Once(r), Once(t), ToSet(r) \cap ToSet(t) = {}
      PROVE  Once(u)
  <2>1. ASSUME NEW i \in 1..Len(u), NEW j \in 1..Len(u), u[i] = u[j]
        PROVE  i = j
    <3>1. CASE i <= Len(r) /\ j <= Len(r)
      BY <1>5, <1>8, <2>1, <3>1 DEF Once
    <3>2. CASE ~(i <= Len(r)) /\ ~(j <= Len(r))
      <4>1. /\ i - Len(r) \in 1..Len(t) /\ j - Len(r) \in 1..Len(t)
            /\ t[i - Len(r)] = t[j - Len(r)]
        BY <1>1, <1>5, <2>1, <3>2
      <4>2. i - Len(r) = j - Len(r)
        BY <1>8, <4>1 DEF Once
      <4> QED
        BY <1>1, <4>2
    <3>3. \A n \in 1..Len(u) : /\ n <= Len(r) => u[n] \in ToSet(r)
                               /\ ~(n <= Len(r)) => u[n] \in ToSet(t)
      BY <1>2, <1>3, <1>5
    <3>4. u[i] \notin ToSet(r) \/ u[i] \notin ToSet(t)
      BY <1>8
    <3> QED
      BY <2>1, <3>1, <3>2, <3>3, <3>4
  <2> QED
    BY <2>1 DEF Once
<1> QED
  BY <1>1, <1>7, <1>8 DEF u

LEMMA Singleton == \A x : <<x>> \in Seq({x})
  OBVIOUS

\* What a caller takes out of the queue: with the flag set all it is to get.
LEMMA CallerStep ==
    ASSUME NEW asked \in SUBSET Int, NEW k, CallOK(k, asked), k.caller \in {"woken", "cancelled"},
           NEW j, j = CallerTakes(k)
    PROVE  /\ j.caller \in {"wait", "returned", "raised"}
           /\ j.caller = "raised" => k.caller = "cancelled" \/ Error \in ToSet(k.stream)
           /\ j.caller = "wait" => /\ k.caller = "woken" /\ CallOK(j, asked)
                                   /\ j.stream = k.stream /\ j.consumer = k.consumer
           /\ j.caller = "returned" => /\ k.consumer = "done" /\ j.got \in Seq(Samples(asked))
                                       /\ Once(j.got) /\ ToSet(j.got) = Samples(asked)
<1>1. /\ k \in CallRecord /\ StreamOK(k, asked) /\ k.got \in Seq(Message)
      /\ k.stream \in Seq(Message) /\ k.finished \in BOOLEAN
  BY DEF CallOK, CallRecord
<1>2. CASE k.caller = "cancelled"
  <2>1. j = [k EXCEPT !.caller = "raised"]
    BY <1>2 DEF CallerTakes
  <2>2. j.caller = "raised"
    BY <1>1, <2>1 DEF CallRecord
  <2> QED
    BY <1>2, <2>2
<1>3. CASE k.caller = "woken"
  <2>1. QueueOK(k, asked) /\ CarriedOnce(k, asked)
    BY <1>3 DEF CallOK
  <2>2. CASE k.finished /\ k.queue = <<Error, Done>> /\ k.stream = <<Error, End>>
    <3>1. j = [k EXCEPT !.caller = "raised"]
      BY <2>2 DEF CallerTakes
    <3>2. j.caller = "raised"
      BY <1>1, <3>1 DEF CallRecord
    <3> QED
      BY <2>2, <3>2, OneTwo
  <2> DEFINE x == Head(k.queue)
             list == IF k.finished THEN <<x>> ELSE k.queue
             set == {y \in ToSet(k.queue) : y.type = "sample"}
             taken == Kept(list, set)
  <2>3. ASSUME x \in Message, x # Error, ToSet(k.queue) \subseteq {x, Done},
               x \in ToSet(k.queue), list = <<x>>,
               x = Done \/ x \in Samples(asked)
        PROVE  /\ j = [k EXCEPT !.got = @ \o taken,
                                !.queue = IF k.finished THEN Tail(@) ELSE <<>>,
                                !.caller = IF k.finished THEN "returned" ELSE "wait"]
               /\ j.caller = IF k.finished THEN "returned" ELSE "wait"
               /\ j.got = k.got \o taken /\ j.queue = IF k.finished THEN Tail(k.queue) ELSE <<>>
               /\ j.stream = k.stream /\ j.consumer = k.consumer /\ j.prompts = k.prompts
               /\ j.finished = k.finished
               /\ j.got \in Seq(Samples(asked)) /\ Once(j.got)
               /\ ToSet(j.got) = ToSet(k.got) \cup ({x} \ {Done})
    <3>1. j = [k EXCEPT !.got = @ \o taken,
                        !.queue = IF k.finished THEN Tail(@) ELSE <<>>,
                        !.caller = IF k.finished THEN "returned" ELSE "wait"]
      BY <1>3, <2>3 DEF CallerTakes
    <3>2. /\ j.caller = IF k.finished THEN "returned" ELSE "wait"
          /\ j.got = k.got \o taken /\ j.queue = IF k.finished THEN Tail(k.queue) ELSE <<>>
          /\ j.stream = k.stream /\ j.consumer = k.consumer /\ j.prompts = k.prompts
          /\ j.finished = k.finished
      <4> HIDE DEF taken
      <4> QED
        BY <1>1, <3>1 DEF CallRecord
    <3>3. set = {x} \ {Done}
      <4>1. \A y \in ToSet(k.queue) : y = x \/ y = Done
        BY <2>3
      <4>2. x # Done => x.type = "sample"
        BY <2>3, Messages DEF Samples
      <4> HIDE DEF x
      <4> QED
        BY <2>3, <4>1, <4>2, Messages
    <3>4. /\ taken \in Seq({x} \cap set) /\ ToSet(taken) = {x} \cap set /\ Once(taken)
      <4>1. <<x>> \in Seq({x}) /\ ToSet(<<x>>) = {x} /\ Once(<<x>>)
        BY OneTwo, OnceShort, Singleton, Zenon
      <4>2. taken = Kept(<<x>>, set)
        BY <2>3
      <4> HIDE DEF x, set, taken
      <4>3. /\ Kept(<<x>>, set) \in Seq({x} \cap set)
            /\ ToSet(Kept(<<x>>, set)) = {x} \cap set
        <5> DEFINE one == <<x>>
                   X == {x}
        <5>1. one \in Seq(X)
          BY <4>1
        <5> HIDE DEF one, X
        <5>2. Kept(one, set) \in Seq(X \cap set) /\ ToSet(Kept(one, set)) = ToSet(one) \cap set
          BY <5>1, KeptFacts
        <5> QED
          BY <4>1, <5>2 DEF one, X
      <4>4. Once(Kept(<<x>>, set))
        BY <4>1, KeptOrder
      <4> QED
        BY <4>2, <4>3, <4>4
    <3>5. {x} \cap set = {x} \ {Done} /\ {x} \ {Done} \subseteq Samples(asked)
      BY <2>3, <3>3
    <3>6. taken \in Seq(Samples(asked))
      <4> HIDE DEF x, set, taken
      <4> QED
        BY <3>4, <3>5, SeqSubset
    <3>7. ToSet(k.got) \cap ToSet(taken) = {}
      <4>1. ASSUME x # Done, x \in ToSet(k.got)
            PROVE  FALSE
        <5>1. PICK i \in asked : x = Sample(i)
          BY <2>3, <4>1 DEF Samples
        <5> QED
          BY <2>1, <2>3, <4>1, <5>1 DEF CarriedOnce
      <4> HIDE DEF x, set, taken
      <4> QED
        BY <3>4, <3>5, <4>1
    <3>8. k.got \in Seq(Samples(asked)) /\ Once(k.got)
      BY <2>1 DEF CarriedOnce
    <3>9. /\ k.got \o taken \in Seq(Samples(asked)) /\ Once(k.got \o taken)
          /\ ToSet(k.got \o taken) = ToSet(k.got) \cup ToSet(taken)
      <4> HIDE DEF x, set, taken
      <4> QED
        BY <3>4, <3>6, <3>7, <3>8, ConcatFacts
    <3> HIDE DEF x, set, taken
    <3> QED
      BY <3>1, <3>2, <3>4, <3>5, <3>9
  <2>4. CASE ~k.finished
    <3>1. PICK i \in asked : k.queue = <<Sample(i)>>
      BY <1>3, <2>1, <2>4 DEF QueueOK
    <3>2. /\ x = Sample(i) /\ list = <<x>> /\ x \in Message /\ x # Error /\ x # Done
          /\ ToSet(k.queue) = {x} /\ x \in Samples(asked)
      BY <2>4, <3>1, OneTwo, Messages DEF Samples
    <3>3. /\ j = [k EXCEPT !.got = @ \o taken, !.queue = <<>>, !.caller = "wait"]
          /\ j.caller = "wait" /\ j.queue = <<>>
          /\ j.stream = k.stream /\ j.consumer = k.consumer /\ j.prompts = k.prompts
          /\ j.finished = k.finished
          /\ j.got \in Seq(Samples(asked)) /\ Once(j.got)
          /\ ToSet(j.got) = ToSet(k.got) \cup {x}
      BY <2>3, <2>4, <3>2, Zenon
    <3>4. j \in CallRecord
      <4>1. Samples(asked) \subseteq Message
        BY Messages DEF Samples
      <4>2. j.got \in Seq(Message)
        BY <3>3, <4>1, SeqSubset
      <4>3. \A got \in Seq(Message) :
                [k EXCEPT !.got = got, !.queue = <<>>, !.caller = "wait"] \in CallRecord
        BY <1>1, <<>> \in Seq(Message) DEF CallRecord
      <4>4. j.got = k.got \o taken
        BY <2>3, <2>4, <3>2, Zenon
      <4> HIDE DEF taken
      <4> QED
        BY <3>3, <4>2, <4>3, <4>4
    <3>5. StreamOK(j, asked)
      BY <1>1, <3>3 DEF StreamOK
    <3>6. QueueOK(j, asked)
      BY <2>4, <3>3 DEF QueueOK
    <3>7. CarriedOnce(j, asked)
      <4> HIDE DEF x
      <4>1. ToSet(k.queue) = {x} /\ ToSet(j.queue) = {}
        BY <3>2, <3>3, OneTwo
      <4> QED
        BY <2>1, <3>2, <3>3, <4>1, Messages DEF CarriedOnce
    <3> QED
      BY <1>3, <3>3, <3>4, <3>5, <3>6, <3>7 DEF CallOK
  <2>5. CASE k.finished /\ ~(k.stream = <<Error, End>>)
    <3>1. /\ k.stream = <<End>>
          /\ k.queue = <<Done>> \/ \E i \in asked : k.queue = <<Sample(i), Done>>
      BY <1>3, <2>1, <2>5 DEF QueueOK
    <3>2. /\ x \in Message /\ x # Error /\ ToSet(k.queue) \subseteq {x, Done}
          /\ x \in ToSet(k.queue) /\ (x = Done \/ x \in Samples(asked))
      <4>1. CASE k.queue = <<Done>>
        BY <4>1, OneTwo, Messages
      <4>2. ASSUME NEW i \in asked, k.queue = <<Sample(i), Done>>
            PROVE  <3>2!:
        BY <4>2, OneTwo, Messages DEF Samples
      <4> QED
        BY <3>1, <4>1, <4>2
    <3>3. list = <<x>>
      BY <2>5
    <3>4. /\ j.caller = "returned" /\ j.got \in Seq(Samples(asked)) /\ Once(j.got)
          /\ ToSet(j.got) = ToSet(k.got) \cup ({x} \ {Done})
      BY <2>3, <2>5, <3>2, <3>3, Zenon
    <3>5. k.consumer = "done" /\ k.prompts = {} /\ ToSet(k.stream) = {End}
      BY <1>1, <2>5, <3>1, OneTwo DEF StreamOK
    <3>6. ASSUME NEW i \in asked
          PROVE  Sample(i) \in ToSet(j.got)
      <4>1. Sample(i) \in ToSet(k.queue) \cup ToSet(k.got)
        BY <2>1, <3>5, Messages DEF CarriedOnce
      <4>2. Sample(i) # Done
        BY Messages
      <4> QED
        BY <3>2, <3>4, <4>1, <4>2
    <3>7. ToSet(j.got) \subseteq Samples(asked)
      BY <3>4, InSeq
    <3>8. ToSet(j.got) = Samples(asked)
      BY <3>6, <3>7 DEF Samples
    <3> QED
      BY <3>4, <3>5, <3>8
  <2> QED
    <3>1. k.finished /\ k.stream = <<Error, End>> => k.queue = <<Error, Done>>
      BY <1>3, <2>1 DEF QueueOK
    <3> HIDE DEF x, list, set, taken
    <3> QED
      BY <2>2, <2>4, <2>5, <3>1
<1> QED
  BY <1>2, <1>3

\* A map of 1..n to itself that never turns back is the identity.
LEMMA Increasing ==
    ASSUME NEW n \in Nat, NEW g \in [1..n -> 1..n],
           \A i, j \in 1..n : i < j => g[i] < g[j]
    PROVE  \A i \in 1..n : g[i] = i
<1> DEFINE S == {i \in 0..n : i = 0 \/ g[i] >= i}
           T == {i \in 0..n : i = n \/ g[n - i] <= n - i}
<1>0. \A i \in 1..n : g[i] \in 1..n /\ g[i] \in Int
  OBVIOUS
<1>1. 0..n \subseteq S
  <2>1. 0 \in S
    OBVIOUS
  <2>2. ASSUME NEW i \in 0..(n - 1), i \in S
        PROVE  i + 1 \in S
    <3>1. CASE i = 0
      BY <1>0, <3>1
    <3>2. CASE i # 0
      <4>1. i \in 1..n /\ i + 1 \in 1..n /\ i < i + 1 /\ g[i] >= i
        BY <2>2, <3>2
      <4>2. g[i] < g[i + 1]
        BY <4>1
      <4> QED
        BY <1>0, <4>1, <4>2
    <3> QED
      BY <3>1, <3>2
  <2> HIDE DEF S
  <2> QED
    BY <2>1, <2>2, Induction
<1>2. 0..n \subseteq T
  <2>1. 0 \in T
    BY <1>0
  <2>2. ASSUME NEW i \in 0..(n - 1), i \in T
        PROVE  i + 1 \in T
    <3>1. CASE i + 1 = n
      BY <3>1
    <3>2. CASE i + 1 # n
      <4>1. n - i \in 1..n /\ n - (i + 1) \in 1..n /\ n - (i + 1) < n - i /\ g[n - i] <= n - i
        BY <2>2, <3>2
      <4>2. g[n - (i + 1)] < g[n - i]
        BY <4>1
      <4>3. g[n - (i + 1)] \in Int /\ g[n - i] \in Int
        BY <1>0, <4>1
      <4>4. g[n - (i + 1)] <= n - (i + 1)
        BY <4>1, <4>2, <4>3
      <4> QED
        BY <4>4
    <3> QED
      BY <3>1, <3>2
  <2> HIDE DEF T
  <2> QED
    BY <2>1, <2>2, Induction
<1>3. ASSUME NEW i \in 1..n
      PROVE  g[i] = i
  <2>1. i \in S /\ n - i \in T
    BY <1>1, <1>2
  <2>2. g[i] >= i
    BY <2>1
  <2>3. n - (n - i) = i /\ n - i # n
    OBVIOUS
  <2>4. g[i] <= i
    BY <2>1, <2>3
  <2> QED
    BY <1>0, <2>2, <2>4
<1> QED
  BY <1>3

\* A list without duplicates has all of 1..n exactly when it is that long.
LEMMA Counting ==
    ASSUME NEW n \in Nat, NEW r \in Seq(1..n), Once(r)
    PROVE  ToSet(r) = 1..n <=> Len(r) = n
<1> DEFINE D == 1..Len(r)
           T == ToSet(r)
<1>1. /\ Len(r) \in Nat /\ r \in [D -> 1..n] /\ \A p \in D : r[p] \in T
      /\ \A x \in T : x \in 1..n /\ \E p \in D : r[p] = x
  <2>1. r \in [D -> 1..n]
    OBVIOUS
  <2> QED
    BY <2>1, InSeq
<1>2. r \in [D -> T]
  BY <1>1
<1>3. r \in Bijection(D, T)
  <2>1. \A p, q \in D : r[p] = r[q] => p = q
    BY DEF Once
  <2>2. \A x \in T : \E p \in D : r[p] = x
    BY <1>1
  <2> HIDE DEF D, T
  <2> QED
    BY <1>2, <2>1, <2>2, Fun_IsBij
<1>4. \A m \in Nat : IsFiniteSet(1..m) /\ Cardinality(1..m) = m
  <2> TAKE m \in Nat
  <2>1. IsFiniteSet(1..m) /\ Cardinality(1..m) = IF 1 > m THEN 0 ELSE m - 1 + 1
    BY FS_Interval
  <2> QED
    BY <2>1
<1>5. IsFiniteSet(T) /\ Cardinality(T) = Len(r)
  <2>1. ExistsBijection(D, T)
    BY <1>3 DEF ExistsBijection
  <2>2. IsFiniteSet(D) /\ Cardinality(D) = Len(r)
    BY <1>1, <1>4
  <2> HIDE DEF D, T
  <2> QED
    BY <2>1, <2>2, FS_Bijection
<1>6. T \subseteq 1..n
  BY <1>1
<1>7. ASSUME Len(r) = n PROVE T = 1..n
  <2> DEFINE N == 1..n
  <2>1. IsFiniteSet(N) /\ Cardinality(N) = n /\ T \subseteq N
    BY <1>4, <1>6
  <2> HIDE DEF N, T
  <2>2. T = N
    BY <1>5, <1>7, <2>1, FS_Subset
  <2> QED
    BY <2>2 DEF N
<1> QED
  BY <1>4, <1>5, <1>7

\* As many results as prompts.
LEMMA OneOfEach ==
    ASSUME NEW n \in Nat, NEW got \in Seq(Samples(1..n)), Once(got),
           ToSet(got) = Samples(1..n)
    PROVE  Len(got) = n
<1> DEFINE f == [p \in 1..Len(got) |-> got[p].of]
<1>1. /\ Len(got) \in Nat /\ \A p \in 1..Len(got) : got[p] \in Samples(1..n)
      /\ \A x \in ToSet(got) : \E p \in 1..Len(got) : got[p] = x
  BY InSeq
<1>2. \A p \in 1..Len(got) : got[p].of \in 1..n /\ got[p] = Sample(got[p].of)
  BY <1>1, Messages DEF Samples
<1>3. f \in Seq(1..n) /\ Len(f) = Len(got)
  <2> DEFINE N == 1..n
  <2>1. f \in [1..Len(got) -> N]
    BY <1>2
  <2> DEFINE m == Len(got)
  <2>2. m \in Nat /\ f \in [1..m -> N]
    BY <1>1, <2>1
  <2> HIDE DEF f, N, m
  <2>3. f \in Seq(N) /\ Len(f) = m
    BY <2>2, ListOf
  <2> QED
    BY <2>3 DEF N, m
<1>4. Once(f)
  <2>1. \A p \in 1..Len(f) : f[p] = got[p].of /\ got[p] = Sample(f[p])
    BY <1>2, <1>3
  <2> HIDE DEF f
  <2> QED
    BY <1>3, <2>1 DEF Once
<1>5. ASSUME NEW i \in 1..n PROVE i \in ToSet(f)
  <2>1. Sample(i) \in ToSet(got)
    BY DEF Samples
  <2>2. PICK p \in 1..Len(got) : got[p] = Sample(i)
    BY <1>1, <2>1
  <2>3. f[p] = i
    BY <2>2, Messages
  <2> HIDE DEF f
  <2> QED
    BY <1>3, <2>3, InSeq
<1>6. ToSet(f) = 1..n
  <2> HIDE DEF f
  <2> QED
    BY <1>3, <1>5, InSeq
<1> QED
  <2> HIDE DEF f
  <2> QED
    BY <1>3, <1>4, <1>6, Counting

\* _generate_texts: the results of a call that got them all, in order.
LEMMA Sorted ==
    ASSUME NEW n \in Nat, NEW k, k.got \in Seq(Samples(1..n)), Once(k.got),
           ToSet(k.got) = Samples(1..n)
    PROVE  InOrder(k) = [i \in 1..n |-> Sample(i)]
<1> DEFINE got == k.got
           places == 1..n
           Sorts(p) == \A i, j \in places :
                          i < j => p[i] # p[j] /\ got[p[i]].of <= got[p[j]].of
           sorted == CHOOSE p \in [places -> places] : Sorts(p)
           place == [i \in places |-> CHOOSE p \in places : got[p] = Sample(i)]
<1>1. Len(got) = n /\ DOMAIN got = places
  <2>1. Len(got) = n
    BY OneOfEach
  <2> QED
    BY <2>1, InSeq
<1>2. /\ \A p \in places : got[p] \in Samples(1..n)
      /\ \A x \in ToSet(got) : \E p \in places : got[p] = x
  <2>1. got \in Seq(Samples(1..n))
    OBVIOUS
  <2> HIDE DEF got
  <2>2. /\ \A p \in 1..Len(got) : got[p] \in Samples(1..n)
        /\ \A x \in ToSet(got) : \E p \in 1..Len(got) : got[p] = x
    BY ONLY <2>1, InSeq
  <2> QED
    BY <1>1, <2>2
<1>3. \A p \in places : got[p].of \in 1..n /\ got[p] = Sample(got[p].of)
  BY <1>2, Messages DEF Samples
<1>4. \A i \in places : place[i] \in places /\ got[place[i]] = Sample(i)
  <2> TAKE i \in places
  <2>1. Sample(i) \in ToSet(got)
    BY DEF Samples
  <2>2. \E p \in places : got[p] = Sample(i)
    BY <1>2, <2>1
  <2> QED
    BY <2>2
<1>5. place \in [places -> places] /\ Sorts(place)
  <2>1. \A i, j \in places : i < j => place[i] # place[j]
    <3> SUFFICES ASSUME NEW i \in places, NEW j \in places, i < j, place[i] = place[j]
                 PROVE  FALSE
      OBVIOUS
    <3>1. Sample(i) = Sample(j)
      BY <1>4
    <3> QED
      BY <3>1, Messages
  <2>2. \A i \in places : got[place[i]].of = i
    BY <1>4, Messages
  <2>3. place \in [places -> places]
    BY <1>4
  <2> HIDE DEF place, got
  <2>4. ASSUME NEW i \in places, NEW j \in places, i < j
        PROVE  place[i] # place[j] /\ got[place[i]].of <= got[place[j]].of
    BY <2>1, <2>2, <2>4
  <2> QED
    BY <2>3, <2>4
<1>6. sorted \in [places -> places] /\ Sorts(sorted)
  <2>1. \E p \in [places -> places] : Sorts(p)
    BY <1>5
  <2> HIDE DEF Sorts, places
  <2> QED
    BY <2>1
<1>7. InOrder(k) = [i \in places |-> got[sorted[i]]]
  <2>1. DOMAIN k.got = places
    BY <1>1
  <2> HIDE DEF places
  <2> QED
    BY <2>1 DEF InOrder
<1> HIDE DEF sorted
<1> DEFINE g == [i \in places |-> got[sorted[i]].of]
<1>8. g \in [places -> places]
  BY <1>3, <1>6
<1>9. ASSUME NEW i \in places, NEW j \in places, i < j
      PROVE  g[i] < g[j]
  <2>1. sorted[i] # sorted[j] /\ g[i] <= g[j] /\ sorted[i] \in places /\ sorted[j] \in places
    BY <1>6, <1>9
  <2>2. got[sorted[i]] # got[sorted[j]]
    BY <1>1, <2>1 DEF Once
  <2>3. g[i] # g[j]
    BY <1>3, <2>1, <2>2
  <2>4. g[i] \in Int /\ g[j] \in Int
    BY <1>8
  <2> QED
    BY <2>1, <2>3, <2>4
<1>10. \A i \in places : g[i] = i
  <2> HIDE DEF g
  <2> QED
    BY <1>8, <1>9, Increasing
<1>11. \A i \in places : got[sorted[i]] = Sample(i)
  <2> TAKE i \in places
  <2>1. sorted[i] \in places /\ got[sorted[i]].of = i
    BY <1>6, <1>10
  <2> QED
    BY <1>3, <2>1
<1> QED
  BY <1>7, <1>11

-----------------------------------------------------------------------------
(* The loop's queue *)

TasksOf(c) == {Consumer(c), Caller(c), Timer(c)}

\* The tasks of the other calls stay where they are.
OthersIn(q, r, c) ==
    \A d \in Calls \ {c} :
        /\ \A z \in TasksOf(d) : z \in ToSet(q) <=> z \in ToSet(r)
        /\ Precedes(r, Caller(d), Consumer(d)) => Precedes(q, Caller(d), Consumer(d))

LEMMA TaskNames ==
    /\ \A c \in Calls : TasksOf(c) \subseteq Tasks
    /\ \A c : Consumer(c) # Caller(c) /\ Consumer(c) # Timer(c) /\ Caller(c) # Timer(c)
    /\ \A c, d : c # d => TasksOf(c) \cap TasksOf(d) = {}
    /\ \A c, d : Consumer(c) # Caller(d) /\ Caller(c) # Timer(d) /\ Consumer(c) # Timer(d)
<1>1. \A c, d : \A x \in TasksOf(c) : \A y \in TasksOf(d) : x = y => c = d
  <2> TAKE c, d
  <2> TAKE x \in TasksOf(c)
  <2> TAKE y \in TasksOf(d)
  <2>1. x.of = c /\ y.of = d
    BY DEF TasksOf, Consumer, Caller, Timer
  <2> QED
    BY <2>1
<1>2. \A c, d : c # d => TasksOf(c) \cap TasksOf(d) = {}
  BY <1>1
<1>3. \A c, d : Consumer(c) # Caller(d) /\ Caller(c) # Timer(d) /\ Consumer(c) # Timer(d)
  <2> TAKE c, d
  <2>1. /\ Consumer(c).task = "consumer" /\ Caller(c).task = "caller"
        /\ Caller(d).task = "caller" /\ Timer(d).task = "timer"
    BY DEF Consumer, Caller, Timer
  <2> QED
    BY <2>1
<1>4. \A c \in Calls : TasksOf(c) \subseteq Tasks
  BY DEF TasksOf, Consumer, Caller, Timer, Tasks
<1> QED
  BY <1>2, <1>3, <1>4

LEMMA HeadLeaves ==
    ASSUME NEW r \in Seq(Tasks), Once(r), r # <<>>, NEW c \in Calls, Head(r) \in TasksOf(c)
    PROVE  /\ Tail(r) \in Seq(Tasks) /\ Once(Tail(r)) /\ OthersIn(Tail(r), r, c)
           /\ ToSet(Tail(r)) = ToSet(r) \ {Head(r)}
           /\ \A x, y : Precedes(r, x, y) => Precedes(Tail(r), x, y)
<1>1. /\ Tail(r) \in Seq(Tasks) /\ Once(Tail(r))
      /\ ToSet(r) = {Head(r)} \cup ToSet(Tail(r)) /\ Head(r) \notin ToSet(Tail(r))
      /\ \A x, y : Precedes(r, x, y) => Precedes(Tail(r), x, y)
  BY TailFacts
<1>2. OthersIn(Tail(r), r, c)
  BY <1>1, TaskNames DEF OthersIn
<1> QED
  BY <1>1, <1>2

LEMMA TaskAdded ==
    ASSUME NEW r \in Seq(Tasks), Once(r), NEW c \in Calls, NEW z \in TasksOf(c), z \notin ToSet(r)
    PROVE  /\ Append(r, z) \in Seq(Tasks) /\ Once(Append(r, z)) /\ OthersIn(Append(r, z), r, c)
           /\ ToSet(Append(r, z)) = ToSet(r) \cup {z}
           /\ \A x, y : Precedes(r, x, y) /\ x # y /\ (z = x => y \notin ToSet(r))
                            => Precedes(Append(r, z), x, y)
<1>0. z \in Tasks
  BY TaskNames
<1>1. /\ Append(r, z) \in Seq(Tasks) /\ Once(Append(r, z))
      /\ ToSet(Append(r, z)) = ToSet(r) \cup {z}
      /\ \A x, y : Precedes(r, x, y) /\ x # y /\ (z = x => y \notin ToSet(r))
                       => Precedes(Append(r, z), x, y)
  BY <1>0, AppendFacts
<1>2. OthersIn(Append(r, z), r, c)
  <2>1. ASSUME NEW d \in Calls \ {c}
        PROVE  /\ \A y \in TasksOf(d) : y \in ToSet(Append(r, z)) <=> y \in ToSet(r)
               /\ Precedes(r, Caller(d), Consumer(d)) =>
                    Precedes(Append(r, z), Caller(d), Consumer(d))
    <3>1. z \notin TasksOf(d)
      BY TaskNames
    <3>2. z # Caller(d) /\ Caller(d) # Consumer(d)
      BY <3>1, TaskNames DEF TasksOf
    <3> QED
      BY <1>1, <3>1, <3>2
  <2> QED
    BY <2>1 DEF OthersIn
<1> QED
  BY <1>1, <1>2

LEMMA TimerLeaves ==
    ASSUME ready \in Seq(Tasks), Once(ready), ready # <<>>, NEW c \in Calls,
           Head(ready) = Caller(c)
    PROVE  LET q == WithoutTimer(c) IN
           /\ q \in Seq(Tasks) /\ Once(q) /\ OthersIn(q, ready, c)
           /\ ToSet(q) = ToSet(ready) \ {Caller(c), Timer(c)}
<1> DEFINE q == WithoutTimer(c)
           set == ToSet(ready) \ {Timer(c)}
           t == Tail(ready)
<1>1. /\ t \in Seq(Tasks) /\ Once(t) /\ OthersIn(t, ready, c)
      /\ ToSet(t) = ToSet(ready) \ {Caller(c)}
  BY HeadLeaves, TaskNames DEF TasksOf
<1>2. q = Kept(t, set)
  BY DEF WithoutTimer
<1>3. q \in Seq(Tasks \cap set) /\ ToSet(q) = ToSet(t) \cap set
  <2> HIDE DEF t, set, q
  <2> QED
    BY <1>1, <1>2, KeptFacts
<1>4. Once(q) /\ \A x, y : Precedes(t, x, y) => Precedes(q, x, y)
  <2> HIDE DEF t, set, q
  <2> QED
    BY <1>1, <1>2, KeptOrder
<1>5. q \in Seq(Tasks)
  <2> HIDE DEF q, set
  <2> QED
    BY <1>3, SeqSubset
<1>6. ToSet(q) = ToSet(ready) \ {Caller(c), Timer(c)}
  BY <1>1, <1>3
<1>7. OthersIn(q, ready, c)
  <2>1. ASSUME NEW d \in Calls \ {c}
        PROVE  /\ \A y \in TasksOf(d) : y \in ToSet(q) <=> y \in ToSet(ready)
               /\ Precedes(ready, Caller(d), Consumer(d)) => Precedes(q, Caller(d), Consumer(d))
    <3>1. Caller(c) \notin TasksOf(d) /\ Timer(c) \notin TasksOf(d)
      BY TaskNames DEF TasksOf
    <3>2. Precedes(ready, Caller(d), Consumer(d)) => Precedes(t, Caller(d), Consumer(d))
      BY <1>1 DEF OthersIn
    <3> HIDE DEF q, t
    <3> QED
      BY <1>4, <1>6, <3>1, <3>2
  <2> QED
    BY <2>1 DEF OthersIn
<1> QED
  BY <1>4, <1>5, <1>6, <1>7

LEMMA OthersTwice ==
    ASSUME NEW q, NEW r, NEW t, NEW c, OthersIn(q, r, c), OthersIn(r, t, c)
    PROVE  OthersIn(q, t, c)
  BY DEF OthersIn

LEMMA AskedFacts ==
    ASSUME ModeInv
    PROVE  /\ Asked \in SUBSET Int
           /\ mode = "eval" /\ eval.done < eval.prompts => \E n \in Nat : Texts = 1..n
<1>1. ASSUME mode = "eval"
      PROVE  /\ Min({eval.perBatch, eval.prompts - eval.done}) \in Int
             /\ eval.done < eval.prompts =>
                  Min({eval.perBatch, eval.prompts - eval.done}) \in Nat
             /\ eval.tests \in Nat
  <2> DEFINE a == eval.perBatch
             b == eval.prompts - eval.done
  <2>1. a \in Int /\ b \in Int /\ a >= 0 /\ eval.tests \in Nat
        /\ (eval.done < eval.prompts => b >= 0)
    BY <1>1 DEF ModeInv, EvalRecord
  <2> HIDE DEF a, b
  <2>2. Min({a, b}) \in {a, b}
    <3>1. \E x \in {a, b} : \A y \in {a, b} : x <= y
      BY <2>1
    <3> QED
      BY <3>1 DEF Min
  <2> QED
    BY <2>1, <2>2 DEF a, b
<1>2. mode = "eval" => Asked \in SUBSET Int
  <2>1. mode = "eval" => Min({eval.perBatch, eval.prompts - eval.done}) * eval.tests \in Int
    BY <1>1
  <2>2. \A n \in Int : 1..n \in SUBSET Int
    OBVIOUS
  <2> QED
    BY <2>1, <2>2 DEF Asked, Texts
<1>3. mode = "eval" /\ eval.done < eval.prompts => \E n \in Nat : Texts = 1..n
  <2>1. ASSUME mode = "eval", eval.done < eval.prompts
        PROVE  Min({eval.perBatch, eval.prompts - eval.done}) * eval.tests \in Nat
    BY <1>1, <2>1
  <2> QED
    BY <2>1 DEF Texts
<1> QED
  BY <1>2, <1>3 DEF Asked

\* One call's step: its own record and the loop's queue are all that changes.
LEMMA LoopStep ==
    ASSUME LoopInv, NEW c \in Calls, NEW k, call' = [call EXCEPT ![c] = k],
           UNCHANGED <<mode, eval>>, faults \subseteq faults', faults' \subseteq Calls,
           CallOK(k, Asked), k.caller = "cancelled" \/ Error \in ToSet(k.stream) => c \in faults',
           ready' \in Seq(Tasks), Once(ready'), OthersIn(ready', ready, c),
           ReadyOf(ready', k, c), Timer(c) \in ToSet(ready') => c \in faults',
           k.caller # "off" => \/ mode = "async" /\ c \in Batch
                               \/ mode = "eval" /\ c = 1 /\ Asking,
           Caller(c) \in ToSet(ready') => (mode = "async" /\ c \in Batch) \/ mode = "eval",
           texts' = texts \/ (mode = "eval" /\ c = 1 /\ k.caller = "off")
    PROVE  CallInv' /\ ReadyInv' /\ ModeInv'
<1>1. /\ k \in CallRecord /\ call' \in [Calls -> CallRecord] /\ call'[c] = k
      /\ \A d \in Calls \ {c} : call'[d] = call[d]
  BY DEF LoopInv, CallInv, CallOK
<1>2. Asked' = Asked /\ Batch' = Batch
  BY DEF Asked, Texts, Batch
<1>3. CallInv'
  <2>1. ASSUME NEW d \in Calls
        PROVE  CallOK(call'[d], Asked) /\ FaultsOf(call[d], d)'
    BY <1>1 DEF LoopInv, CallInv, FaultsOf
  <2> QED
    BY <1>1, <1>2, <2>1 DEF CallInv
<1>4. ReadyInv'
  <2>1. ASSUME NEW d \in Calls
        PROVE  /\ ReadyOf(ready', call'[d], d)
               /\ Timer(d) \in ToSet(ready') => d \in faults'
    <3>1. CASE d = c
      BY <1>1, <3>1
    <3>2. CASE d # c
      <4>1. /\ \A z \in {Consumer(d), Caller(d), Timer(d)} :
                  z \in ToSet(ready') <=> z \in ToSet(ready)
            /\ Precedes(ready, Caller(d), Consumer(d)) =>
                  Precedes(ready', Caller(d), Consumer(d))
        BY <3>2 DEF OthersIn, TasksOf
      <4>2. ReadyOf(ready, call[d], d) /\ (Timer(d) \in ToSet(ready) => d \in faults)
        BY DEF LoopInv, ReadyInv
      <4> QED
        BY <1>1, <3>2, <4>1, <4>2 DEF ReadyOf
    <3> QED
      BY <3>1, <3>2
  <2> QED
    BY <2>1 DEF ReadyInv
<1>5. ModeInv'
  <2>1. ASSUME NEW d \in Calls, call'[d].caller # "off"
        PROVE  \/ mode = "async" /\ d \in Batch
               \/ mode = "eval" /\ d = 1 /\ Asking'
    <3>1. \/ mode = "async" /\ d \in Batch
          \/ mode = "eval" /\ d = 1 /\ Asking
      BY <1>1, <2>1 DEF LoopInv, ModeInv
    <3>2. texts' # texts => mode = "async" \/ d # 1
      BY <1>1, <2>1
    <3> QED
      BY <3>1, <3>2 DEF Asking, LoopInv, ModeInv
  <2>2. ASSUME NEW d \in Calls, Caller(d) \in ToSet(ready')
        PROVE  (mode = "async" /\ d \in Batch) \/ mode = "eval"
    <3>1. d # c => Caller(d) \in ToSet(ready)
      BY <2>2 DEF OthersIn, TasksOf
    <3> QED
      BY <2>2, <3>1 DEF LoopInv, ModeInv
  <2>3. eval' = eval /\ (mode = "eval" => eval' \in EvalRecord')
    BY DEF LoopInv, ModeInv, EvalRecord
  <2> QED
    BY <1>2, <2>1, <2>2, <2>3 DEF ModeInv, LoopInv
<1> QED
  BY <1>3, <1>4, <1>5

\* What a step of the loop leaves alone.
LEMMA RestStays ==
    ASSUME LoopInv, UNCHANGED <<mode, eval>>, faults \subseteq faults'
    PROVE  (texts' = texts => TextsInv') /\ (sample' = sample => FailedInv')
<1>1. Texts' = Texts /\ Batch' = Batch
  BY DEF Texts, Batch
<1> QED
  BY <1>1 DEF LoopInv, TextsInv, FailedInv

-----------------------------------------------------------------------------
(* The steps of the loop and of what is outside it *)

LEMMA ConsumerRuns ==
    ASSUME LoopInv, NEW c \in Calls, RunConsumer(c), UNCHANGED <<mode, rollout, texts, eval, gym>>
    PROVE  LoopInv'
<1> DEFINE k == call[c]
           j == ConsumerResumes(k)
           r == Tail(ready)
<1>1. /\ ready \in Seq(Tasks) /\ Once(ready) /\ ready # <<>> /\ Head(ready) = Consumer(c)
      /\ ReadyOf(ready, k, c) /\ CallOK(k, Asked) /\ FaultsOf(k, c)
      /\ (Timer(c) \in ToSet(ready) => c \in faults)
      /\ faults' = faults /\ faults \subseteq Calls
      /\ call \in [Calls -> CallRecord] /\ k \in CallRecord
  BY DEF RunConsumer, LoopInv, ReadyInv, CallInv
<1>2. /\ r \in Seq(Tasks) /\ Once(r) /\ OthersIn(r, ready, c)
      /\ ToSet(r) = ToSet(ready) \ {Consumer(c)} /\ Consumer(c) \in ToSet(ready)
      /\ \A x, y : Precedes(ready, x, y) => Precedes(r, x, y)
  <2>1. Consumer(c) \in TasksOf(c)
    BY DEF TasksOf
  <2>2. Consumer(c) \in ToSet(ready)
    BY <1>1, TailFacts
  <2> QED
    BY <1>1, <2>1, <2>2, HeadLeaves
<1>3. Asked \in SUBSET Int
  BY AskedFacts DEF LoopInv
<1>4. UNCHANGED <<mode, eval, texts, sample>>
  BY DEF rollout
<1>5. /\ k.caller # "off" => (mode = "async" /\ c \in Batch) \/ (mode = "eval" /\ c = 1 /\ Asking)
      /\ Caller(c) \in ToSet(ready) => (mode = "async" /\ c \in Batch) \/ mode = "eval"
  BY DEF LoopInv, ModeInv
<1>6. Caller(c) # Consumer(c) /\ Timer(c) # Caller(c)
  BY TaskNames
<1>7. ReadyOf(r, k, c) /\ Consumer(c) \notin ToSet(r)
  BY <1>1, <1>2, <1>6 DEF ReadyOf
<1>8. CASE k.caller = "off"
  <2>1. call' = [call EXCEPT ![c] = k] /\ ready' = r
    BY <1>1, <1>8 DEF RunConsumer
  <2>2. CallInv' /\ ReadyInv' /\ ModeInv'
    BY <1>1, <1>2, <1>4, <1>5, <1>7, <2>1, LoopStep DEF FaultsOf
  <2> QED
    BY <1>1, <1>4, <2>2, RestStays DEF LoopInv
<1>9. CASE k.caller # "off"
  <2>1. k.caller # "woken"
    <3>1. k.caller = "woken" => Precedes(ready, Caller(c), Head(ready)) /\ Caller(c) \in ToSet(ready)
      BY <1>1 DEF ReadyOf
    <3> QED
      BY <1>1, <1>6, <3>1, TailFacts
  <2>2. /\ k.caller \in {"wait", "cancelled"} /\ StreamOK(k, Asked) /\ k.consumer # "done"
        /\ (k.caller = "wait" => QueueOK(k, Asked) /\ CarriedOnce(k, Asked))
    BY <1>1, <1>2, <1>9, <2>1 DEF CallOK, CallRecord, ReadyOf
  <2>3. /\ j \in CallRecord /\ StreamOK(j, Asked) /\ j.caller = k.caller
        /\ Error \in ToSet(j.stream) => Error \in ToSet(k.stream)
        /\ k.caller = "wait" =>
             /\ CarriedOnce(j, Asked)
             /\ IF j.queue = <<>> THEN QueueOK(j, Asked)
                ELSE QueueOK([j EXCEPT !.caller = "woken"], Asked)
    <3> HIDE DEF j, k
    <3>1. j = ConsumerResumes(k)
      BY DEF j
    <3> QED
      BY <1>1, <1>3, <2>2, <3>1, ConsumerStep
  <2>4. AfterPut(c, j, r)
    BY <1>9 DEF RunConsumer
  <2>5. Error \in ToSet(j.stream) \/ j.caller = "cancelled" => c \in faults
    BY <1>1, <2>3 DEF FaultsOf
  <2> HIDE DEF j, k, r
  <2>6. CASE j.caller = "wait" /\ j.queue # <<>>
    <3> DEFINE w == [j EXCEPT !.caller = "woken"]
    <3>1. /\ w \in CallRecord /\ w.caller = "woken" /\ w.stream = j.stream /\ w.queue = j.queue
          /\ w.got = j.got /\ w.prompts = j.prompts /\ w.consumer = j.consumer
          /\ w.finished = j.finished
      BY <2>3 DEF CallRecord
    <3>2. call' = [call EXCEPT ![c] = w] /\ ready' = Append(r, Caller(c))
      BY <2>4, <2>6 DEF AfterPut, Woken
    <3>3. CallOK(w, Asked)
      <4>1. StreamOK(w, Asked) /\ CarriedOnce(w, Asked)
        BY <2>3, <2>6, <3>1 DEF StreamOK, CarriedOnce
      <4>2. QueueOK(w, Asked)
        BY <2>3, <2>6
      <4> HIDE DEF w
      <4> QED
        BY <3>1, <4>1, <4>2 DEF CallOK
    <3>4. Caller(c) \notin ToSet(r) /\ Caller(c) \in TasksOf(c)
      BY <1>7, <2>3, <2>6 DEF ReadyOf, TasksOf
    <3>5. /\ ready' \in Seq(Tasks) /\ Once(ready') /\ OthersIn(ready', r, c)
          /\ ToSet(ready') = ToSet(r) \cup {Caller(c)}
          /\ Precedes(r, Caller(c), Consumer(c)) => Precedes(ready', Caller(c), Consumer(c))
      BY <1>2, <1>6, <1>7, <3>2, <3>4, TaskAdded
    <3>6. OthersIn(ready', ready, c)
      BY <1>2, <3>5, OthersTwice
    <3>7. Precedes(r, Caller(c), Consumer(c))
      BY <1>2, <1>7, InSeq DEF Precedes
    <3>8. ReadyOf(ready', w, c)
      <4> HIDE DEF w
      <4> QED
        BY <1>6, <1>7, <3>1, <3>5, <3>7 DEF ReadyOf
    <3>9. Timer(c) \in ToSet(ready') => c \in faults
      BY <1>1, <1>2, <1>6, <3>5
    <3>10. w.caller = "cancelled" \/ Error \in ToSet(w.stream) => c \in faults
      <4> HIDE DEF w
      <4> QED
        BY <2>5, <3>1
    <3> HIDE DEF w
    <3>11. CallInv' /\ ReadyInv' /\ ModeInv'
      BY <1>1, <1>4, <1>5, <1>9, <3>2, <3>3, <3>5, <3>6, <3>8, <3>9, <3>10, LoopStep
    <3> QED
      BY <1>1, <1>4, <3>11, RestStays DEF LoopInv
  <2>7. CASE ~(j.caller = "wait" /\ j.queue # <<>>)
    <3>1. call' = [call EXCEPT ![c] = j] /\ ready' = r
      BY <2>4, <2>7 DEF AfterPut, Woken
    <3>2. CallOK(j, Asked)
      BY <2>2, <2>3, <2>7 DEF CallOK
    <3>3. ReadyOf(r, j, c)
      BY <1>7, <2>2, <2>3 DEF ReadyOf
    <3>4. CallInv' /\ ReadyInv' /\ ModeInv'
      BY <1>1, <1>2, <1>4, <1>5, <1>9, <2>5, <3>1, <3>2, <3>3, LoopStep
    <3> QED
      BY <1>1, <1>4, <3>4, RestStays DEF LoopInv
  <2> QED
    BY <2>6, <2>7
<1> QED
  BY <1>8, <1>9

LEMMA TimerRuns ==
    ASSUME LoopInv, NEW c \in Calls, RunTimer(c), UNCHANGED <<mode, rollout, texts, eval, gym>>
    PROVE  LoopInv'
<1> DEFINE k == call[c]
           r == Tail(ready)
<1>1. /\ ready \in Seq(Tasks) /\ Once(ready) /\ ready # <<>> /\ Head(ready) = Timer(c)
      /\ ReadyOf(ready, k, c) /\ CallOK(k, Asked) /\ FaultsOf(k, c)
      /\ (Timer(c) \in ToSet(ready) => c \in faults)
      /\ faults' = faults /\ faults \subseteq Calls
      /\ call \in [Calls -> CallRecord] /\ k \in CallRecord
  BY DEF RunTimer, LoopInv, ReadyInv, CallInv
<1>2. /\ r \in Seq(Tasks) /\ Once(r) /\ OthersIn(r, ready, c)
      /\ ToSet(r) = ToSet(ready) \ {Timer(c)} /\ c \in faults
      /\ \A x, y : Precedes(ready, x, y) => Precedes(r, x, y)
  <2>1. Timer(c) \in TasksOf(c)
    BY DEF TasksOf
  <2>2. Timer(c) \in ToSet(ready)
    BY <1>1, TailFacts
  <2> QED
    BY <1>1, <2>1, <2>2, HeadLeaves
<1>4. UNCHANGED <<mode, eval, texts, sample>>
  BY DEF rollout
<1>5. /\ k.caller # "off" => (mode = "async" /\ c \in Batch) \/ (mode = "eval" /\ c = 1 /\ Asking)
      /\ Caller(c) \in ToSet(ready) => (mode = "async" /\ c \in Batch) \/ mode = "eval"
  BY DEF LoopInv, ModeInv
<1>6. Caller(c) # Consumer(c) /\ Timer(c) # Caller(c) /\ Timer(c) # Consumer(c)
  BY TaskNames
<1>7. ReadyOf(r, k, c)
  BY <1>1, <1>2, <1>6 DEF ReadyOf
<1> DEFINE w == [k EXCEPT !.caller = "cancelled"]
<1>8. /\ w \in CallRecord /\ w.caller = "cancelled" /\ w.stream = k.stream
      /\ w.consumer = k.consumer /\ w.finished = k.finished /\ w.prompts = k.prompts
  BY <1>1 DEF CallRecord
<1>9. CASE k.caller = "wait" \/ k.caller = "woken"
  <2>1. /\ call' = [call EXCEPT ![c] = w]
        /\ ready' = IF k.caller = "wait" THEN Append(r, Caller(c)) ELSE r
    BY <1>9 DEF RunTimer
  <2>2. CallOK(w, Asked)
    <3>1. StreamOK(k, Asked)
      BY <1>1, <1>9 DEF CallOK
    <3> HIDE DEF w, k
    <3>2. StreamOK(w, Asked)
      BY <1>8, <3>1 DEF StreamOK
    <3> QED
      BY <1>8, <3>2 DEF CallOK
  <2>3. /\ ready' \in Seq(Tasks) /\ Once(ready') /\ OthersIn(ready', r, c)
        /\ ToSet(ready') = ToSet(r) \cup {Caller(c)}
    <3>1. CASE k.caller = "wait"
      <4>1. Caller(c) \notin ToSet(r) /\ Caller(c) \in TasksOf(c)
        BY <1>7, <3>1 DEF ReadyOf, TasksOf
      <4> QED
        BY <1>2, <2>1, <3>1, <4>1, TaskAdded
    <3>2. CASE k.caller = "woken"
      <4>1. Caller(c) \in ToSet(r) /\ ready' = r
        BY <1>7, <2>1, <3>2 DEF ReadyOf
      <4> QED
        BY <1>2, <4>1 DEF OthersIn
    <3> QED
      BY <1>9, <3>1, <3>2
  <2>4. OthersIn(ready', ready, c)
    BY <1>2, <2>3, OthersTwice
  <2> HIDE DEF w, k, r
  <2>5. ReadyOf(ready', w, c)
    <3>1. k.caller # "off"
      BY <1>9
    <3> QED
      BY <1>6, <1>7, <1>8, <2>3, <3>1 DEF ReadyOf
  <2>6. CallInv' /\ ReadyInv' /\ ModeInv'
    BY <1>1, <1>2, <1>4, <1>5, <1>9, <2>1, <2>2, <2>3, <2>4, <2>5, LoopStep
  <2> QED
    BY <1>1, <1>4, <2>6, RestStays DEF LoopInv
<1>10. CASE k.caller # "wait" /\ k.caller # "woken"
  <2>1. call' = [call EXCEPT ![c] = k] /\ ready' = r
    BY <1>1, <1>10 DEF RunTimer
  <2> HIDE DEF k, r
  <2>2. CallInv' /\ ReadyInv' /\ ModeInv'
    BY <1>1, <1>2, <1>4, <1>5, <1>7, <2>1, LoopStep
  <2> QED
    BY <1>1, <1>4, <2>2, RestStays DEF LoopInv
<1> QED
  BY <1>9, <1>10

LEMMA Wakes ==
    ASSUME LoopInv, NEW c \in Calls, call[c].caller # "off", call[c].consumer # "done",
           NEW q \in {ready, Append(ready, Consumer(c))},
           q # ready => Consumer(c) \notin ToSet(ready)
    PROVE  /\ q \in Seq(Tasks) /\ Once(q) /\ OthersIn(q, ready, c)
           /\ ToSet(q) \in {ToSet(ready), ToSet(ready) \cup {Consumer(c)}}
           /\ ReadyOf(q, call[c], c)
<1>1. ready \in Seq(Tasks) /\ Once(ready) /\ ReadyOf(ready, call[c], c)
  BY DEF LoopInv, ReadyInv
<1>2. CASE q = ready
  BY <1>1, <1>2 DEF OthersIn
<1>3. CASE q # ready
  <2>1. q = Append(ready, Consumer(c)) /\ Consumer(c) \notin ToSet(ready) /\ Consumer(c) \in TasksOf(c)
    BY <1>3 DEF TasksOf
  <2>2. Caller(c) # Consumer(c)
    BY TaskNames
  <2>3. /\ q \in Seq(Tasks) /\ Once(q) /\ OthersIn(q, ready, c)
        /\ ToSet(q) = ToSet(ready) \cup {Consumer(c)}
        /\ Precedes(ready, Caller(c), Consumer(c)) => Precedes(q, Caller(c), Consumer(c))
    BY <1>1, <2>1, <2>2, TaskAdded
  <2>4. ReadyOf(q, call[c], c)
    BY <1>1, <2>2, <2>3 DEF ReadyOf
  <2> QED
    BY <2>3, <2>4
<1> QED
  BY <1>2, <1>3

\* One more item of a stream that has not ended.
LEMMA Yielded ==
    ASSUME NEW asked \in SUBSET Int, NEW k, CallOK(k, asked), k.caller # "off",
           End \notin ToSet(k.stream),
           NEW x \in Samples(k.prompts) \cup {Error}, k.prompts # {},
           NEW j, j = [k EXCEPT !.prompts = IF x = Error THEN {} ELSE k.prompts \ {x.of},
                                !.stream = @ \o (IF x = Error THEN <<x, End>> ELSE <<x>>)]
    PROVE  /\ CallOK(j, asked) /\ j.caller = k.caller /\ j.consumer = k.consumer
           /\ k.consumer # "done"
           /\ Error \in ToSet(j.stream) => x = Error
<1> DEFINE more == IF x = Error THEN <<x, End>> ELSE <<x>>
           rest == IF x = Error THEN {} ELSE k.prompts \ {x.of}
           S == Samples(asked) \cup {Error, End}
           s == k.stream
           t == s \o more
<1>1. /\ k \in CallRecord /\ StreamOK(k, asked) /\ k.stream \in Seq(Message)
      /\ k.stream \in Seq(S) /\ Once(k.stream) /\ k.prompts \subseteq asked
  BY DEF CallOK, CallRecord, StreamOK
<1>2. ~k.finished /\ k.consumer # "done"
  <2>1. k.finished => End \in ToSet(k.stream)
    BY <1>1, OneTwo DEF StreamOK
  <2> QED
    BY <1>1, <2>1 DEF StreamOK
<1>3. x = Error \/ (\E i \in k.prompts : x = Sample(i))
  BY DEF Samples
<1>4. /\ x \in S /\ x # End /\ End \in S /\ (x # Error => x.of \in k.prompts /\ x = Sample(x.of))
      /\ S \subseteq Message
  BY <1>1, <1>3, Messages DEF Samples
<1>5. x \notin ToSet(s) /\ Error \notin ToSet(s)
  <2>1. Error \notin ToSet(s)
    <3> SUFFICES ASSUME Error \in ToSet(s) PROVE FALSE
      OBVIOUS
    <3>1. PICK p \in 1..Len(s) : s[p] = Error
      BY <1>1, InSeq
    <3>2. Len(s) \in Nat /\ p + 1 = Len(s) /\ s[p + 1] = End
      BY <1>1, <3>1 DEF StreamOK
    <3>3. p + 1 \in 1..Len(s)
      BY <3>2
    <3> QED
      BY <1>1, <3>2, <3>3, InSeq
  <2> QED
    BY <1>1, <1>4, <2>1 DEF StreamOK
<1>6. more \in Seq(S) /\ Once(more) /\ ToSet(more) = IF x = Error THEN {x, End} ELSE {x}
  <2>1. <<x>> \in Seq(S) /\ <<x, End>> \in Seq(S)
    <3> HIDE DEF S
    <3> QED
      BY <1>4
  <2>2. Once(<<x>>) /\ Once(<<x, End>>)
    BY <1>4, OnceShort
  <2> HIDE DEF S
  <2> QED
    BY <2>1, <2>2, OneTwo
<1>7. /\ t \in Seq(S) /\ Once(t) /\ ToSet(t) = ToSet(s) \cup ToSet(more)
  <2>1. ToSet(s) \cap ToSet(more) = {}
    BY <1>5, <1>6
  <2> HIDE DEF S, more
  <2> QED
    BY <1>1, <1>6, <2>1, ConcatFacts
<1>8. /\ Len(s) \in Nat /\ Len(more) = (IF x = Error THEN 2 ELSE 1) /\ Len(t) = Len(s) + Len(more)
      /\ \A p \in 1..Len(s) : t[p] = s[p]
      /\ t[Len(s) + 1] = x /\ (x = Error => t[Len(s) + 2] = End)
  <2> HIDE DEF S
  <2>1. CASE x = Error
    <3>1. more = <<x, End>>
      BY <2>1
    <3> HIDE DEF more
    <3> QED
      BY <1>1, <2>1, <3>1
  <2>2. CASE x # Error
    <3>1. more = <<x>>
      BY <2>2
    <3> HIDE DEF more
    <3> QED
      BY <1>1, <2>2, <3>1
  <2> QED
    BY <2>1, <2>2
<1> HIDE DEF t
<1>9. ASSUME NEW p \in 1..Len(t)
      PROVE  /\ t[p] = End => p = Len(t)
             /\ t[p] = Error => p + 1 = Len(t) /\ t[p + 1] = End
  <2>1. CASE p \in 1..Len(s)
    <3>1. s[p] # End /\ s[p] # Error
      <4>1. s[p] \in ToSet(s)
        BY <1>1, <2>1, InSeq
      <4> QED
        BY <1>5, <4>1
    <3> QED
      BY <1>8, <2>1, <3>1
  <2>2. CASE p \notin 1..Len(s)
    <3> HIDE DEF s, more
    <3>1. p = Len(s) + 1 \/ (x = Error /\ p = Len(s) + 2)
      BY <1>8, <2>2
    <3>2. CASE p = Len(s) + 1
      BY <1>4, <1>8, <3>2
    <3>3. CASE x = Error /\ p = Len(s) + 2
      BY <1>8, <3>3, Messages
    <3> QED
      BY <3>1, <3>2, <3>3
  <2> QED
    BY <2>1, <2>2
<1>10. /\ j \in CallRecord /\ j.stream = t /\ j.prompts = rest /\ j.queue = k.queue /\ j.got = k.got
       /\ j.finished = k.finished /\ j.consumer = k.consumer /\ j.caller = k.caller
  <2>1. j = [k EXCEPT !.prompts = rest, !.stream = t]
    <3>1. j = [k EXCEPT !.prompts = rest, !.stream = @ \o more]
      OBVIOUS
    <3> HIDE DEF rest, more
    <3> QED
      BY <1>1, <3>1 DEF t, CallRecord
  <2>2. t \in Seq(Message) /\ rest \in SUBSET Int
    <3>1. t \in Seq(Message)
      <4> HIDE DEF S
      <4> QED
        BY <1>4, <1>7, SeqSubset
    <3> QED
      BY <1>1, <3>1
  <2> HIDE DEF rest
  <2> QED
    BY <1>1, <2>1, <2>2 DEF CallRecord
<1>11. rest \subseteq k.prompts /\ (\A i \in rest : Sample(i) # x) /\ (x = Error => rest = {})
       /\ \A i \in k.prompts : i \in rest \/ Sample(i) = x \/ x = Error
  BY <1>4, Messages
<1>12. StreamOK(j, asked)
  <2>1. \A i \in rest : Sample(i) \notin ToSet(t)
    <3>1. \A i \in k.prompts : Sample(i) \notin ToSet(s)
      BY <1>1 DEF StreamOK
    <3> QED
      BY <1>6, <1>7, <1>11, <3>1
  <2>2. End \in ToSet(t) => rest = {}
    BY <1>4, <1>6, <1>7
  <2>3. k.consumer = "ref" => t # <<>> /\ Head(t) # End
    <3> SUFFICES ASSUME k.consumer = "ref"
                 PROVE  t # <<>> /\ Head(t) # End
      OBVIOUS
    <3>1. s # <<>> /\ Head(s) # End
      BY <1>1 DEF StreamOK
    <3>2. Len(s) # 0 /\ Head(s) = s[1]
      BY <1>1, <3>1
    <3>3. t[1] = s[1] /\ Len(t) # 0
      <4> HIDE DEF s, more
      <4> QED
        BY <1>8, <3>2
    <3>4. t # <<>> /\ Head(t) = t[1]
      <4> HIDE DEF S
      <4> QED
        BY <1>7, <3>3
    <3> QED
      BY <3>1, <3>2, <3>3, <3>4
  <2>4. rest \subseteq asked /\ k.consumer \in {"next", "ref", "done"} /\ k.finished = FALSE
    BY <1>1, <1>2 DEF StreamOK, CallRecord
  <2> HIDE DEF rest, more
  <2> QED
    BY <1>2, <1>7, <1>9, <1>10, <2>1, <2>2, <2>3, <2>4 DEF StreamOK
<1>13. ASSUME k.caller \in {"wait", "woken"}
       PROVE  QueueOK(j, asked) /\ CarriedOnce(j, asked)
  <2>1. QueueOK(k, asked) /\ CarriedOnce(k, asked)
    BY <1>13 DEF CallOK
  <2> HIDE DEF rest, more
  <2>2. QueueOK(j, asked)
    BY <1>2, <1>10, <2>1 DEF QueueOK
  <2>3. ASSUME NEW i \in asked
        PROVE  /\ Sample(i) \in ToSet(j.got) =>
                    /\ Sample(i) \notin ToSet(j.queue) /\ Sample(i) \notin ToSet(j.stream)
                    /\ i \notin j.prompts
               /\ Sample(i) \in ToSet(j.queue) =>
                    Sample(i) \notin ToSet(j.stream) /\ i \notin j.prompts
               /\ Sample(i) \in ToSet(j.stream) => i \notin j.prompts
               /\ \/ i \in j.prompts \/ Error \in ToSet(j.stream)
                  \/ Sample(i) \in ToSet(j.stream) \cup ToSet(j.queue) \cup ToSet(j.got)
    <3>1. /\ Sample(i) \in ToSet(k.got) =>
                /\ Sample(i) \notin ToSet(k.queue) /\ Sample(i) \notin ToSet(k.stream)
                /\ i \notin k.prompts
          /\ Sample(i) \in ToSet(k.queue) =>
                Sample(i) \notin ToSet(k.stream) /\ i \notin k.prompts
          /\ Sample(i) \in ToSet(k.stream) => i \notin k.prompts
          /\ \/ i \in k.prompts \/ Error \in ToSet(k.stream)
             \/ Sample(i) \in ToSet(k.stream) \cup ToSet(k.queue) \cup ToSet(k.got)
      BY <2>1 DEF CarriedOnce
    <3>2. Sample(i) \in ToSet(t) => Sample(i) \in ToSet(s) \/ i \in k.prompts
      BY <1>3, <1>6, <1>7, Messages DEF more
    <3>3. x \in ToSet(t) /\ ToSet(s) \subseteq ToSet(t)
      BY <1>6, <1>7
    <3>4. Sample(i) \in ToSet(t) => i \notin rest
      BY <1>10, <1>12 DEF StreamOK
    <3> QED
      BY <1>5, <1>10, <1>11, <3>1, <3>2, <3>3, <3>4
  <2> QED
    BY <1>10, <2>1, <2>2, <2>3 DEF CarriedOnce
<1>14. Error \in ToSet(t) => x = Error
  BY <1>4, <1>5, <1>6, <1>7, Messages
<1> QED
  <2> HIDE DEF rest, more
  <2> QED
    BY <1>2, <1>10, <1>12, <1>13, <1>14 DEF CallOK

LEMMA WorkerEmits ==
    ASSUME LoopInv, NEW c \in Calls, NEW x \in Samples(call[c].prompts) \cup {Error}, Emit(c, x),
           UNCHANGED <<mode, rollout, texts, eval, gym>>
    PROVE  LoopInv'
<1> DEFINE k == call[c]
           j == [k EXCEPT !.prompts = IF x = Error THEN {} ELSE k.prompts \ {x.of},
                          !.stream = @ \o (IF x = Error THEN <<x, End>> ELSE <<x>>)]
<1>1. /\ call \in [Calls -> CallRecord] /\ k \in CallRecord /\ CallOK(k, Asked) /\ FaultsOf(k, c)
      /\ faults \subseteq Calls /\ (Timer(c) \in ToSet(ready) => c \in faults)
  BY DEF LoopInv, CallInv, ReadyInv
<1>2. k.caller # "off" /\ End \notin ToSet(k.stream) /\ k.prompts # {}
  BY DEF Emit
<1>3. Asked \in SUBSET Int
  BY AskedFacts DEF LoopInv
<1>4. UNCHANGED <<mode, eval, texts, sample>>
  BY DEF rollout
<1>5. x.type = (IF x = Error THEN "error" ELSE "sample")
  BY Messages DEF Samples
<1>6. call' = [call EXCEPT ![c] = j]
  <2>1. call' = [call EXCEPT ![c].prompts = IF x = Error THEN {} ELSE k.prompts \ {x.of},
                             ![c].stream = @ \o (IF x = Error THEN <<x, End>> ELSE <<x>>)]
    BY <1>5 DEF Emit
  <2> QED
    BY <1>1, <2>1
<1>7. /\ CallOK(j, Asked) /\ j.caller = k.caller /\ j.consumer = k.consumer
      /\ k.consumer # "done" /\ (Error \in ToSet(j.stream) => x = Error)
  <2> DEFINE y == [k EXCEPT !.prompts = IF x = Error THEN {} ELSE k.prompts \ {x.of},
                            !.stream = @ \o (IF x = Error THEN <<x, End>> ELSE <<x>>)]
  <2>1. x \in Samples(k.prompts) \cup {Error} /\ j = y
    OBVIOUS
  <2>2. \A asked \in SUBSET Int : \A m :
           CallOK(m, asked) /\ m.caller # "off" /\ End \notin ToSet(m.stream) /\ m.prompts # {} =>
           \A z \in Samples(m.prompts) \cup {Error} : \A n :
             n = [m EXCEPT !.prompts = IF z = Error THEN {} ELSE m.prompts \ {z.of},
                           !.stream = @ \o (IF z = Error THEN <<z, End>> ELSE <<z>>)] =>
             /\ CallOK(n, asked) /\ n.caller = m.caller /\ n.consumer = m.consumer
             /\ m.consumer # "done" /\ (Error \in ToSet(n.stream) => z = Error)
    BY Yielded
  <2> HIDE DEF k, j
  <2>3. \A z \in Samples(k.prompts) \cup {Error} : \A n :
             n = [k EXCEPT !.prompts = IF z = Error THEN {} ELSE k.prompts \ {z.of},
                           !.stream = @ \o (IF z = Error THEN <<z, End>> ELSE <<z>>)] =>
             /\ CallOK(n, Asked) /\ n.caller = k.caller /\ n.consumer = k.consumer
             /\ k.consumer # "done" /\ (Error \in ToSet(n.stream) => z = Error)
    BY <1>1, <1>2, <1>3, <2>2, Zenon
  <2> QED
    BY <2>1, <2>3, Zenon
<1>8. /\ ready' \in {ready, Append(ready, Consumer(c))}
      /\ ready' # ready => Consumer(c) \notin ToSet(ready)
  BY DEF Emit, AfterYield
<1> HIDE DEF j
<1>9. /\ ready' \in Seq(Tasks) /\ Once(ready') /\ OthersIn(ready', ready, c)
      /\ ToSet(ready') \in {ToSet(ready), ToSet(ready) \cup {Consumer(c)}}
      /\ ReadyOf(ready', k, c)
  BY <1>2, <1>7, <1>8, Wakes
<1> HIDE DEF k
<1>10. ReadyOf(ready', j, c)
  BY <1>7, <1>9 DEF ReadyOf
<1>11. /\ faults' = (IF x = Error THEN faults \cup {c} ELSE faults)
       /\ faults \subseteq faults' /\ faults' \subseteq Calls
  BY <1>1 DEF Emit
<1>12. Timer(c) \in ToSet(ready') => c \in faults'
  BY <1>1, <1>9, <1>11, TaskNames
<1>13. j.caller = "cancelled" \/ Error \in ToSet(j.stream) => c \in faults'
  BY <1>1, <1>7, <1>11 DEF FaultsOf
<1>14. k.caller # "off" => (mode = "async" /\ c \in Batch) \/ (mode = "eval" /\ c = 1 /\ Asking)
  BY DEF LoopInv, ModeInv, k
<1>15. CallInv' /\ ReadyInv' /\ ModeInv'
  BY <1>2, <1>4, <1>6, <1>7, <1>9, <1>10, <1>11, <1>12, <1>13, <1>14, LoopStep
<1> QED
  BY <1>4, <1>11, <1>15, RestStays DEF LoopInv

\* The end of a stream that has not ended.
LEMMA StreamEnded ==
    ASSUME NEW asked \in SUBSET Int, NEW k, CallOK(k, asked), k.caller # "off",
           End \notin ToSet(k.stream), k.prompts = {},
           NEW j, j = [k EXCEPT !.stream = Append(@, End)]
    PROVE  /\ CallOK(j, asked) /\ j.caller = k.caller /\ j.consumer = k.consumer
           /\ k.consumer # "done"
           /\ Error \in ToSet(j.stream) => Error \in ToSet(k.stream)
<1> DEFINE S == Samples(asked) \cup {Error, End}
           s == k.stream
           t == Append(s, End)
<1>1. /\ k \in CallRecord /\ StreamOK(k, asked) /\ s \in Seq(Message) /\ s \in Seq(S) /\ Once(s)
  BY DEF CallOK, CallRecord, StreamOK
<1>2. ~k.finished /\ k.consumer # "done"
  <2>1. k.finished => End \in ToSet(k.stream)
    BY <1>1, OneTwo DEF StreamOK
  <2> QED
    BY <1>1, <2>1 DEF StreamOK
<1>3. End \in S /\ End \in Message /\ End # Error
  BY Messages
<1>4. t \in Seq(S) /\ t \in Seq(Message) /\ Once(t) /\ ToSet(t) = ToSet(s) \cup {End}
  <2> HIDE DEF S, s
  <2> QED
    BY <1>1, <1>3, AppendFacts DEF s
<1>5. /\ Len(s) \in Nat /\ Len(t) = Len(s) + 1 /\ t[Len(s) + 1] = End
      /\ \A p \in 1..Len(s) : t[p] = s[p] /\ s[p] # End /\ s[p] # Error
  <2>1. /\ Len(s) \in Nat /\ Len(t) = Len(s) + 1 /\ t[Len(s) + 1] = End
        /\ \A p \in 1..Len(s) : t[p] = s[p]
    <3> HIDE DEF s
    <3> QED
      BY <1>1, <1>3
  <2>2. \A p \in 1..Len(s) : s[p] # End
    <3> HIDE DEF s
    <3> QED
      BY <1>1, InSeq DEF s
  <2>3. ASSUME NEW p \in 1..Len(s), s[p] = Error
        PROVE  FALSE
    <3>1. p + 1 = Len(s) /\ s[p + 1] = End
      BY <1>1, <2>3 DEF StreamOK
    <3>2. p + 1 \in 1..Len(s)
      <4> HIDE DEF s
      <4> QED
        BY <2>1, <3>1
    <3> QED
      BY <2>2, <3>1, <3>2
  <2> QED
    BY <2>1, <2>2, <2>3
<1>6. /\ j \in CallRecord /\ j.stream = t /\ j.prompts = k.prompts /\ j.queue = k.queue
      /\ j.got = k.got /\ j.finished = k.finished /\ j.consumer = k.consumer
      /\ j.caller = k.caller
  <2>1. j = [k EXCEPT !.stream = t]
    OBVIOUS
  <2> HIDE DEF t
  <2> QED
    BY <1>1, <1>4, <2>1 DEF CallRecord
<1>7. StreamOK(j, asked)
  <2>1. ASSUME NEW p \in 1..Len(t)
        PROVE  /\ t[p] = End => p = Len(t)
               /\ t[p] = Error => p + 1 = Len(t) /\ t[p + 1] = End
    <3> HIDE DEF s, t
    <3>1. p \in 1..Len(s) \/ p = Len(s) + 1
      BY <1>5
    <3> QED
      BY <1>3, <1>5, <3>1
  <2>2. k.consumer = "ref" => t # <<>> /\ Head(t) # End
    <3>1. k.consumer = "ref" => s # <<>> /\ Head(s) # End
      BY <1>1 DEF StreamOK
    <3>2. s # <<>> => t # <<>> /\ Head(t) = Head(s)
      <4> HIDE DEF s
      <4>1. s # <<>> => t # <<>> /\ Head(t) = t[1] /\ Head(s) = s[1] /\ 1 \in 1..Len(s)
        BY <1>1, <1>3, <1>5
      <4> HIDE DEF t
      <4> QED
        BY <1>5, <4>1
    <3> QED
      BY <3>1, <3>2
  <2> HIDE DEF t, S
  <2> QED
    BY <1>1, <1>2, <1>4, <1>6, <2>1, <2>2 DEF StreamOK, S
<1>8. ASSUME k.caller \in {"wait", "woken"}
      PROVE  QueueOK(j, asked) /\ CarriedOnce(j, asked)
  <2>1. QueueOK(k, asked) /\ CarriedOnce(k, asked)
    BY <1>8 DEF CallOK
  <2> HIDE DEF t
  <2>2. QueueOK(j, asked)
    BY <1>2, <1>6, <2>1 DEF QueueOK
  <2>3. CarriedOnce(j, asked)
    <3>1. /\ j.got = k.got /\ j.queue = k.queue /\ j.prompts = k.prompts
          /\ ToSet(j.stream) = ToSet(k.stream) \cup {End} /\ \A i : Sample(i) # End
      BY <1>4, <1>6, Messages
    <3> HIDE DEF s
    <3> QED
      BY <2>1, <3>1, Zenon DEF CarriedOnce
  <2> QED
    BY <2>2, <2>3
<1>9. Error \in ToSet(t) => Error \in ToSet(s)
  BY <1>3, <1>4
<1> QED
  <2> HIDE DEF t
  <2> QED
    BY <1>2, <1>6, <1>7, <1>8, <1>9 DEF CallOK

LEMMA WorkerEnds ==
    ASSUME LoopInv, NEW c \in Calls, EndStream(c), UNCHANGED <<mode, rollout, texts, eval, gym>>
    PROVE  LoopInv'
<1> DEFINE k == call[c]
           j == [k EXCEPT !.stream = Append(@, End)]
<1>1. /\ call \in [Calls -> CallRecord] /\ k \in CallRecord /\ CallOK(k, Asked) /\ FaultsOf(k, c)
      /\ faults \subseteq Calls /\ (Timer(c) \in ToSet(ready) => c \in faults)
  BY DEF LoopInv, CallInv, ReadyInv
<1>2. k.caller # "off" /\ End \notin ToSet(k.stream) /\ k.prompts = {}
  BY DEF EndStream
<1>3. Asked \in SUBSET Int
  BY AskedFacts DEF LoopInv
<1>4. UNCHANGED <<mode, eval, texts, sample, faults>>
  BY DEF rollout, EndStream
<1>5. call' = [call EXCEPT ![c] = j]
  <2>1. call' = [call EXCEPT ![c].stream = Append(@, End)]
    BY DEF EndStream
  <2> QED
    BY <1>1, <2>1
<1>6. /\ CallOK(j, Asked) /\ j.caller = k.caller /\ j.consumer = k.consumer
      /\ k.consumer # "done" /\ (Error \in ToSet(j.stream) => Error \in ToSet(k.stream))
  <2>1. \A asked \in SUBSET Int : \A m :
           CallOK(m, asked) /\ m.caller # "off" /\ End \notin ToSet(m.stream) /\ m.prompts = {} =>
           \A n : n = [m EXCEPT !.stream = Append(@, End)] =>
             /\ CallOK(n, asked) /\ n.caller = m.caller /\ n.consumer = m.consumer
             /\ m.consumer # "done" /\ (Error \in ToSet(n.stream) => Error \in ToSet(m.stream))
    BY StreamEnded
  <2>2. \A n : n = [k EXCEPT !.stream = Append(@, End)] =>
             /\ CallOK(n, Asked) /\ n.caller = k.caller /\ n.consumer = k.consumer
             /\ k.consumer # "done" /\ (Error \in ToSet(n.stream) => Error \in ToSet(k.stream))
    BY <1>1, <1>2, <1>3, <2>1, Zenon
  <2> QED
    BY <2>2, Zenon
<1>7. /\ ready' \in {ready, Append(ready, Consumer(c))}
      /\ ready' # ready => Consumer(c) \notin ToSet(ready)
  BY DEF EndStream, AfterYield
<1> HIDE DEF j
<1>8. /\ ready' \in Seq(Tasks) /\ Once(ready') /\ OthersIn(ready', ready, c)
      /\ ToSet(ready') \in {ToSet(ready), ToSet(ready) \cup {Consumer(c)}}
      /\ ReadyOf(ready', k, c)
  BY <1>2, <1>6, <1>7, Wakes
<1>9. k.caller # "off" => (mode = "async" /\ c \in Batch) \/ (mode = "eval" /\ c = 1 /\ Asking)
  BY DEF LoopInv, ModeInv
<1> HIDE DEF k
<1>10. ReadyOf(ready', j, c)
  BY <1>6, <1>8 DEF ReadyOf
<1>11. Timer(c) \in ToSet(ready') => c \in faults'
  BY <1>1, <1>4, <1>8, TaskNames
<1>12. j.caller = "cancelled" \/ Error \in ToSet(j.stream) => c \in faults'
  BY <1>1, <1>4, <1>6 DEF FaultsOf
<1>13. CallInv' /\ ReadyInv' /\ ModeInv'
  BY <1>1, <1>2, <1>4, <1>5, <1>6, <1>8, <1>9, <1>10, <1>11, <1>12, LoopStep
<1> QED
  BY <1>4, <1>13, RestStays DEF LoopInv

LEMMA ValueComes ==
    ASSUME LoopInv, NEW c \in Calls, Resolve(c), UNCHANGED <<mode, rollout, texts, eval, gym>>
    PROVE  LoopInv'
<1> DEFINE k == call[c]
<1>1. /\ call \in [Calls -> CallRecord] /\ k \in CallRecord /\ CallOK(k, Asked) /\ FaultsOf(k, c)
      /\ faults \subseteq Calls /\ (Timer(c) \in ToSet(ready) => c \in faults)
  BY DEF LoopInv, CallInv, ReadyInv
<1>2. k.consumer = "ref" /\ Consumer(c) \notin ToSet(ready) /\ ready' = Append(ready, Consumer(c))
  BY DEF Resolve
<1>3. k.caller # "off"
  <2>1. NoCall.consumer # "ref"
    BY DEF NoCall
  <2> QED
    BY <1>1, <1>2, <2>1 DEF CallOK
<1>4. UNCHANGED <<mode, eval, texts, sample, faults>> /\ call' = [call EXCEPT ![c] = k]
  BY <1>1 DEF rollout, Resolve
<1>5. /\ ready' \in Seq(Tasks) /\ Once(ready') /\ OthersIn(ready', ready, c)
      /\ ToSet(ready') \in {ToSet(ready), ToSet(ready) \cup {Consumer(c)}}
      /\ ReadyOf(ready', k, c)
  BY <1>2, <1>3, Wakes
<1>6. k.caller # "off" => (mode = "async" /\ c \in Batch) \/ (mode = "eval" /\ c = 1 /\ Asking)
  BY DEF LoopInv, ModeInv
<1> HIDE DEF k
<1>7. Timer(c) \in ToSet(ready') => c \in faults'
  BY <1>1, <1>4, <1>5, TaskNames
<1>8. CallInv' /\ ReadyInv' /\ ModeInv'
  BY <1>1, <1>3, <1>4, <1>5, <1>6, <1>7, LoopStep DEF FaultsOf
<1> QED
  BY <1>4, <1>8, RestStays DEF LoopInv

LEMMA TimeRunsOut ==
    ASSUME LoopInv, NEW c \in Calls, Expire(c), UNCHANGED <<mode, rollout, texts, eval, gym>>
    PROVE  LoopInv'
<1> DEFINE k == call[c]
<1>1. /\ call \in [Calls -> CallRecord] /\ k \in CallRecord /\ CallOK(k, Asked) /\ FaultsOf(k, c)
      /\ faults \subseteq Calls /\ ready \in Seq(Tasks) /\ Once(ready) /\ ReadyOf(ready, k, c)
  BY DEF LoopInv, CallInv, ReadyInv
<1>2. /\ k.caller \in {"wait", "woken"} /\ Timer(c) \notin ToSet(ready)
      /\ ready' = Append(ready, Timer(c)) /\ faults' = faults \cup {c}
  BY DEF Expire
<1>3. UNCHANGED <<mode, eval, texts, sample>> /\ call' = [call EXCEPT ![c] = k]
  BY <1>1 DEF rollout, Expire
<1>4. Timer(c) # Caller(c) /\ Timer(c) # Consumer(c) /\ Caller(c) # Consumer(c)
  BY TaskNames
<1>5. /\ ready' \in Seq(Tasks) /\ Once(ready') /\ OthersIn(ready', ready, c)
      /\ ToSet(ready') = ToSet(ready) \cup {Timer(c)}
      /\ Precedes(ready, Caller(c), Consumer(c)) => Precedes(ready', Caller(c), Consumer(c))
  <2>1. Timer(c) \in TasksOf(c)
    BY DEF TasksOf
  <2> QED
    BY <1>1, <1>2, <1>4, <2>1, TaskAdded
<1>6. ReadyOf(ready', k, c)
  BY <1>1, <1>4, <1>5 DEF ReadyOf
<1>7. k.caller # "off" => (mode = "async" /\ c \in Batch) \/ (mode = "eval" /\ c = 1 /\ Asking)
  BY DEF LoopInv, ModeInv
<1> HIDE DEF k
<1>8. faults \subseteq faults' /\ faults' \subseteq Calls /\ c \in faults'
  BY <1>1, <1>2
<1>9. CallInv' /\ ReadyInv' /\ ModeInv'
  BY <1>1, <1>2, <1>3, <1>5, <1>6, <1>7, <1>8, LoopStep
<1> QED
  BY <1>3, <1>8, <1>9, RestStays DEF LoopInv

-----------------------------------------------------------------------------
(* Sums over lists *)

SumsUpto(list, n, f) == f = [k \in 0..n |-> IF k = 0 THEN 0 ELSE f[k - 1] + list[k]]

LEMMA TotalExists ==
    ASSUME NEW list, Len(list) \in Nat
    PROVE  \E f : SumsUpto(list, Len(list), f) /\ Total(list) = f[Len(list)]
<1> DEFINE n == Len(list)
           S == {m \in 0..n : \E f : SumsUpto(list, m, f)}
<1>1. 0 \in S
  <2>1. SumsUpto(list, 0, [k \in 0..0 |-> 0])
    BY DEF SumsUpto
  <2> QED
    BY <2>1
<1>2. ASSUME NEW m \in 0..(n - 1), m \in S
      PROVE  m + 1 \in S
  <2>1. PICK f : SumsUpto(list, m, f)
    BY <1>2
  <2> DEFINE g == [k \in 0..(m + 1) |-> IF k = m + 1 THEN f[k - 1] + list[k] ELSE f[k]]
  <2>2. \A k \in 0..m : g[k] = f[k]
    OBVIOUS
  <2>3. \A k \in 1..(m + 1) : k - 1 \in 0..m /\ g[k - 1] = f[k - 1]
    BY <2>2
  <2>4. \A k \in 0..m : f[k] = IF k = 0 THEN 0 ELSE f[k - 1] + list[k]
    BY <2>1 DEF SumsUpto
  <2>5. \A k \in 0..(m + 1) : g[k] = IF k = 0 THEN 0 ELSE g[k - 1] + list[k]
    BY <2>3, <2>4
  <2>6. SumsUpto(list, m + 1, g)
    BY <2>5 DEF SumsUpto
  <2> QED
    BY <2>6
<1>3. 0..n \subseteq S
  <2> HIDE DEF S
  <2> QED
    BY <1>1, <1>2, Induction
<1>4. \E f : SumsUpto(list, n, f)
  BY <1>3
<1> DEFINE g == CHOOSE g : SumsUpto(list, n, g)
<1>5. SumsUpto(list, n, g)
  BY <1>4
<1>6. Total(list) = g[n]
  BY DEF Total, SumsUpto
<1> QED
  BY <1>5, <1>6

LEMMA TotalEmpty == Total(<<>>) = 0
<1>1. PICK f : SumsUpto(<<>>, 0, f) /\ Total(<<>>) = f[0]
  <2>1. Len(<<>>) = 0
    OBVIOUS
  <2> QED
    BY <2>1, TotalExists
<1> QED
  BY <1>1 DEF SumsUpto

LEMMA TotalAppend ==
    ASSUME NEW list \in Seq(Int), NEW x \in Int
    PROVE  Total(Append(list, x)) = Total(list) + x
<1> DEFINE n == Len(list)
           more == Append(list, x)
<1>1. /\ n \in Nat /\ Len(more) = n + 1 /\ more[n + 1] = x
      /\ \A i \in 1..n : more[i] = list[i]
  OBVIOUS
<1> HIDE DEF more
<1>3. PICK f : SumsUpto(list, n, f) /\ Total(list) = f[n]
  BY <1>1, TotalExists
<1>4. PICK g : SumsUpto(more, n + 1, g) /\ Total(more) = g[n + 1]
  BY <1>1, TotalExists
<1>5. \A k \in 0..n : f[k] = IF k = 0 THEN 0 ELSE f[k - 1] + list[k]
  BY <1>3 DEF SumsUpto
<1>6. \A k \in 0..(n + 1) : g[k] = IF k = 0 THEN 0 ELSE g[k - 1] + more[k]
  BY <1>1, <1>4 DEF SumsUpto
<1> DEFINE S == {k \in 0..n : f[k] = g[k]}
<1>7. 0 \in S
  BY <1>1, <1>5, <1>6
<1>8. ASSUME NEW k \in 0..(n - 1), k \in S
      PROVE  k + 1 \in S
  <2>1. k + 1 \in 1..n /\ k + 1 \in 0..n /\ k + 1 \in 0..(n + 1) /\ (k + 1) - 1 = k /\ k + 1 # 0
    BY <1>1
  <2>2. f[k + 1] = f[k] + list[k + 1]
    BY <1>5, <2>1
  <2>3. g[k + 1] = g[k] + list[k + 1]
    BY <1>1, <1>6, <2>1
  <2> QED
    BY <1>8, <2>1, <2>2, <2>3
<1>9. f[n] = g[n]
  <2>1. 0..n \subseteq S
    <3> HIDE DEF S
    <3> QED
      BY <1>1, <1>7, <1>8, Induction
  <2> QED
    BY <1>1, <2>1
<1>10. g[n + 1] = g[n] + x
  <2>1. n + 1 \in 0..(n + 1) /\ (n + 1) - 1 = n /\ n + 1 # 0
    BY <1>1
  <2> QED
    BY <1>1, <1>6, <2>1
<1> QED
  BY <1>3, <1>4, <1>9, <1>10 DEF more

\* Lists that are prefixes of a longer one.
LEMMA PrefixFacts ==
    ASSUME NEW S, NEW list \in Seq(S)
    PROVE  /\ SubSeq(list, 1, 0) = <<>> /\ SubSeq(list, 1, Len(list)) = list
           /\ \A k \in 0..(Len(list) - 1) :
                 /\ SubSeq(list, 1, k) \in Seq(S) /\ Len(SubSeq(list, 1, k)) = k
                 /\ list[k + 1] \in S
                 /\ SubSeq(list, 1, k + 1) = Append(SubSeq(list, 1, k), list[k + 1])
           /\ \A x \in S : \A k \in 0..Len(list) :
                 SubSeq(Append(list, x), 1, k) = SubSeq(list, 1, k)
<1>1. Len(list) \in Nat
  OBVIOUS
<1>2. SubSeq(list, 1, 0) = <<>> /\ SubSeq(list, 1, Len(list)) = list
  BY <1>1
<1>3. ASSUME NEW k \in 0..(Len(list) - 1)
      PROVE  /\ SubSeq(list, 1, k) \in Seq(S) /\ Len(SubSeq(list, 1, k)) = k
             /\ list[k + 1] \in S
             /\ SubSeq(list, 1, k + 1) = Append(SubSeq(list, 1, k), list[k + 1])
  <2> DEFINE a == SubSeq(list, 1, k)
             b == SubSeq(list, 1, k + 1)
             c == Append(a, list[k + 1])
  <2>1. /\ a \in Seq(S) /\ Len(a) = k /\ b \in Seq(S) /\ Len(b) = k + 1
        /\ \A i \in 1..k : a[i] = list[i]
        /\ \A i \in 1..(k + 1) : b[i] = list[i]
        /\ list[k + 1] \in S
    BY <1>1
  <2> HIDE DEF a, b
  <2>2. c \in Seq(S) /\ Len(c) = k + 1 /\ c[k + 1] = list[k + 1] /\ \A i \in 1..k : c[i] = a[i]
    BY <2>1
  <2>3. \A i \in 1..(k + 1) : c[i] = b[i]
    BY <2>1, <2>2
  <2> HIDE DEF c
  <2>4. b = c
    BY <2>1, <2>2, <2>3, SeqEqual
  <2> QED
    BY <2>1, <2>4 DEF a, b, c
<1>4. ASSUME NEW x \in S, NEW k \in 0..Len(list)
      PROVE  SubSeq(Append(list, x), 1, k) = SubSeq(list, 1, k)
  <2> DEFINE m == Append(list, x)
  <2>1. m \in Seq(S) /\ Len(m) = Len(list) + 1 /\ \A i \in 1..Len(list) : m[i] = list[i]
    OBVIOUS
  <2> HIDE DEF m
  <2>2. /\ SubSeq(m, 1, k) = [i \in 1..k |-> m[i]]
        /\ SubSeq(list, 1, k) = [i \in 1..k |-> list[i]]
    BY <1>1, <2>1
  <2>3. \A i \in 1..k : m[i] = list[i]
    BY <1>1, <2>1
  <2>4. SubSeq(m, 1, k) = SubSeq(list, 1, k)
    BY <2>2, <2>3
  <2> QED
    BY <2>4 DEF m
<1> QED
  BY <1>2, <1>3, <1>4

LEMMA TotalIsInt ==
    ASSUME NEW list \in Seq(Int)
    PROVE  Total(list) \in Int
<1> DEFINE n == Len(list)
           S == {k \in 0..n : Total(SubSeq(list, 1, k)) \in Int}
<1>1. n \in Nat
  OBVIOUS
<1>2. /\ SubSeq(list, 1, 0) = <<>> /\ SubSeq(list, 1, n) = list
      /\ \A k \in 0..(n - 1) : /\ SubSeq(list, 1, k) \in Seq(Int) /\ list[k + 1] \in Int
                               /\ SubSeq(list, 1, k + 1) = Append(SubSeq(list, 1, k), list[k + 1])
  BY PrefixFacts
<1>3. 0 \in S
  <2>1. Total(SubSeq(list, 1, 0)) = 0
    BY <1>2, TotalEmpty, Zenon
  <2> QED
    BY <1>1, <2>1
<1>4. ASSUME NEW k \in 0..(n - 1), k \in S
      PROVE  k + 1 \in S
  <2>1. Total(SubSeq(list, 1, k + 1)) = Total(SubSeq(list, 1, k)) + list[k + 1]
    BY <1>2, TotalAppend
  <2>2. Total(SubSeq(list, 1, k)) \in Int /\ list[k + 1] \in Int /\ k + 1 \in 0..n
    BY <1>1, <1>2, <1>4
  <2>3. Total(SubSeq(list, 1, k)) + list[k + 1] \in Int
    BY <2>2
  <2> QED
    BY <2>1, <2>2, <2>3
<1>5. n \in S
  <2> HIDE DEF S
  <2>1. 0..n \subseteq S
    BY <1>1, <1>3, <1>4, Induction
  <2> QED
    BY <1>1, <2>1
<1> QED
  BY <1>2, <1>5

LEMMA TokensAppend ==
    ASSUME NEW h \in Seq(TurnRecord), NEW u \in TurnRecord, RolloutAssumption
    PROVE  Tokens(<<>>) = Prompt /\ Tokens(Append(h, u)) = Tokens(h) + u.gen + u.obs
<1> DEFINE n == Len(h)
           m == Append(h, u)
           a == [t \in DOMAIN h |-> h[t].gen + h[t].obs]
           b == [t \in DOMAIN m |-> m[t].gen + m[t].obs]
           x == u.gen + u.obs
<1>1. /\ n \in Nat /\ DOMAIN h = 1..n /\ \A t \in 1..n : h[t] \in TurnRecord
      /\ m \in Seq(TurnRecord) /\ Len(m) = n + 1 /\ DOMAIN m = 1..(n + 1) /\ m[n + 1] = u
      /\ \A t \in 1..n : m[t] = h[t]
  OBVIOUS
<1>2. x \in Int /\ \A v \in TurnRecord : v.gen + v.obs \in Int
  BY DEF TurnRecord
<1> HIDE DEF m
<1>3. a \in Seq(Int) /\ Len(a) = n /\ \A t \in 1..n : a[t] = h[t].gen + h[t].obs
  BY <1>1, <1>2, ListOf
<1>4. b \in Seq(Int) /\ Len(b) = n + 1 /\ (\A t \in 1..n : b[t] = a[t]) /\ b[n + 1] = x
  <2>1. \A t \in 1..(n + 1) : m[t] \in TurnRecord
    BY <1>1
  <2>2. b \in Seq(Int) /\ Len(b) = n + 1 /\ \A t \in 1..(n + 1) : b[t] = m[t].gen + m[t].obs
    BY <1>1, <1>2, <2>1, ListOf
  <2> HIDE DEF a, b
  <2>3. \A t \in 1..n : b[t] = a[t]
    <3> TAKE t \in 1..n
    <3>1. t \in 1..(n + 1) /\ m[t] = h[t]
      BY <1>1
    <3>2. b[t] = m[t].gen + m[t].obs /\ a[t] = h[t].gen + h[t].obs
      BY <1>3, <2>2, <3>1
    <3> QED
      BY <3>1, <3>2
  <2>4. b[n + 1] = x
    BY <1>1, <2>2
  <2> QED
    BY <2>2, <2>3, <2>4
<1> HIDE DEF a, b, x
<1>5. b = Append(a, x)
  <2> DEFINE c == Append(a, x)
  <2>1. /\ c \in Seq(Int) /\ Len(c) = n + 1 /\ c[n + 1] = x
        /\ \A t \in 1..n : c[t] = a[t]
    BY <1>2, <1>3
  <2> HIDE DEF c
  <2>2. ASSUME NEW t \in 1..(n + 1)
        PROVE  b[t] = c[t]
    <3>1. t \in 1..n \/ t = n + 1
      BY <1>1
    <3> QED
      BY <1>4, <2>1, <3>1
  <2>3. b = c
    BY <1>4, <2>1, <2>2, SeqEqual
  <2> QED
    BY <2>3 DEF c
<1>6. Total(b) = Total(a) + x
  BY <1>2, <1>3, <1>5, TotalAppend
<1>7. Total(a) \in Int
  BY <1>3, TotalIsInt
<1>8. Tokens(<<>>) = Prompt
  <2>1. [t \in DOMAIN <<>> |-> (<<>>)[t].gen + (<<>>)[t].obs] = <<>>
    OBVIOUS
  <2>2. Prompt \in Int
    BY DEF RolloutAssumption
  <2> QED
    BY <2>1, <2>2, TotalEmpty DEF Tokens
<1>9. Tokens(h) = Prompt + Total(a) /\ Tokens(m) = Prompt + Total(b)
  BY DEF Tokens, a, b
<1>10. u.gen \in Int /\ u.obs \in Int /\ Prompt \in Int
  BY DEF TurnRecord, RolloutAssumption
<1> QED
  BY <1>6, <1>7, <1>8, <1>9, <1>10 DEF m, x

LEMMA TokensIsNat ==
    ASSUME NEW h \in Seq(TurnRecord), RolloutAssumption
    PROVE  Tokens(h) \in Nat
<1> DEFINE n == Len(h)
           S == {k \in 0..n : Tokens(SubSeq(h, 1, k)) \in Nat}
<1>1. n \in Nat
  OBVIOUS
<1>2. /\ SubSeq(h, 1, 0) = <<>> /\ SubSeq(h, 1, n) = h
      /\ \A k \in 0..(n - 1) : /\ SubSeq(h, 1, k) \in Seq(TurnRecord) /\ h[k + 1] \in TurnRecord
                               /\ SubSeq(h, 1, k + 1) = Append(SubSeq(h, 1, k), h[k + 1])
  BY PrefixFacts
<1>3. 0 \in S
  <2>1. Tokens(<<>>) = Prompt
    <3>1. <<>> \in Seq(TurnRecord) /\ [gen |-> 0, obs |-> 0, term |-> TRUE,
                                   stops |-> <<>>, used |-> <<>>] \in TurnRecord
      BY DEF TurnRecord
    <3> QED
      BY <3>1, TokensAppend
  <2>2. Tokens(SubSeq(h, 1, 0)) = Prompt
    BY <1>2, <2>1, Zenon
  <2>3. Prompt \in Nat
    BY DEF RolloutAssumption
  <2> QED
    BY <1>1, <2>2, <2>3
<1>4. ASSUME NEW k \in 0..(n - 1), k \in S
      PROVE  k + 1 \in S
  <2>1. Tokens(SubSeq(h, 1, k + 1)) = Tokens(SubSeq(h, 1, k)) + h[k + 1].gen + h[k + 1].obs
    BY <1>2, TokensAppend
  <2>2. /\ Tokens(SubSeq(h, 1, k)) \in Nat /\ h[k + 1].gen \in Nat /\ h[k + 1].obs \in Nat
        /\ k + 1 \in 0..n
    <3>1. h[k + 1] \in TurnRecord
      BY <1>2
    <3>2. Tokens(SubSeq(h, 1, k)) \in Nat /\ k + 1 \in 0..n
      BY <1>1, <1>4
    <3> QED
      BY <3>1, <3>2 DEF TurnRecord
  <2>3. Tokens(SubSeq(h, 1, k + 1)) \in Nat
    BY <2>1, <2>2
  <2> QED
    BY <2>2, <2>3
<1>5. n \in S
  <2> HIDE DEF S
  <2>1. 0..n \subseteq S
    BY <1>1, <1>3, <1>4, Induction
  <2> QED
    BY <1>1, <2>1
<1> QED
  BY <1>2, <1>5

-----------------------------------------------------------------------------
(* A sample's turn *)

LEMMA NewOutcome ==
    ASSUME RolloutAssumption, NEW i \in Nat
    PROVE  /\ NewSample(i) \in SampleRecord
           /\ Outcome(mode, NewSample(i), <<>>, i) /\ GoesOn(mode, NewSample(i), <<>>)
           /\ ~NewSample(i).over /\ ~NewSample(i).failed
<1>1. Tokens(<<>>) = Prompt
  <2>1. <<>> \in Seq(TurnRecord) /\ [gen |-> 0, obs |-> 0, term |-> TRUE,
                                   stops |-> <<>>, used |-> <<>>] \in TurnRecord
    BY DEF TurnRecord
  <2> QED
    BY <2>1, TokensAppend
<1>2. Prompt \in 0..MaxSeqLen /\ ~(Prompt > MaxSeqLen) /\ MaxSeqLen \in Nat
  BY DEF RolloutAssumption
<1>3. NewSample(i) \in SampleRecord
  <2>1. <<i, 0>> \in Seq(Nat)
    OBVIOUS
  <2> QED
    BY <1>2, <2>1 DEF NewSample, SampleRecord
<1>4. Outcome(mode, NewSample(i), <<>>, i)
  <2>1. {<<i, t>> : t \in DOMAIN <<>>} = {} /\ Len(<<>>) = 0
    OBVIOUS
  <2>2. NewSample(i).rewards = {} /\ NewSample(i).len = Prompt
        /\ ~NewSample(i).truncated /\ ~NewSample(i).over
    BY DEF NewSample
  <2>3. 1..(Len(<<>>) - 1) = {} /\ 2..Len(<<>>) = {}
    BY <2>1
  <2> QED
    BY <1>1, <1>2, <2>1, <2>2, <2>3 DEF Outcome
<1> QED
  BY <1>3, <1>4 DEF GoesOn, NewSample

\* A turn taken by a sample that goes on.
LEMMA TurnOutcome ==
    ASSUME RolloutAssumption, NEW i \in Nat, NEW s \in SampleRecord, NEW h \in Seq(TurnRecord),
           Outcome(mode, s, h, i), GoesOn(mode, s, h), ~s.over,
           NEW g \in Generated, NEW a \in Answers, NEW gen, gen = Response(s, g),
           NEW f, f = Feedback(i, Len(h) + 1, a),
           NEW x, x = Extended(s, gen, f), NEW u, u = Turn(s, gen, f),
           NEW r \in SampleRecord, r.len = x.len, r.rewards = x.rewards, r.truncated = x.truncated,
           r.over => r.failed \/ Len(h) + 1 = MaxTurns \/ r.truncated \/ f.term
    PROVE  u \in TurnRecord /\ Outcome(mode, r, Append(h, u), i)
<1> DEFINE n == Len(h)
           m == Append(h, u)
<1>1. /\ n \in Nat /\ s.len \in 0..MaxSeqLen /\ s.stops \in Seq(Nat) /\ s.rewards \in SUBSET (Nat \X Nat)
      /\ s.truncated \in BOOLEAN /\ s.over = FALSE
      /\ MaxSeqLen \in Nat /\ MaxTurns \in Nat /\ g \in Nat
  <2>1. n \in Nat
    OBVIOUS
  <2>2. /\ s.len \in 0..MaxSeqLen /\ s.stops \in Seq(Nat) /\ s.rewards \in SUBSET (Nat \X Nat)
        /\ s.truncated \in BOOLEAN /\ s.over = FALSE
    BY DEF SampleRecord
  <2>3. MaxSeqLen \in Nat /\ MaxTurns \in Nat /\ g \in Nat
    BY DEF RolloutAssumption
  <2> QED
    BY <2>1, <2>2, <2>3
<1>2. gen \in Nat
  BY <1>1 DEF Response
<1>3. /\ f.reward = <<i, n + 1>> /\ f.obs \in Nat /\ f.term \in BOOLEAN /\ f.stops \in Seq(Nat)
  <2>1. a.obs \in Nat /\ a.term \in BOOLEAN
    BY DEF Answers, RolloutAssumption
  <2>2. n + 1 \in Nat /\ <<i, n + 1>> \in Seq(Nat) /\ <<>> \in Seq(Nat)
    BY <1>1
  <2> QED
    BY <2>1, <2>2 DEF Feedback
<1>4. u = [gen |-> gen, obs |-> f.obs, term |-> f.term, stops |-> f.stops, used |-> s.stops]
  BY DEF Turn
<1>5. u \in TurnRecord /\ u.gen = gen /\ u.obs = f.obs /\ u.term = f.term /\ u.used = s.stops
  BY <1>1, <1>2, <1>3, <1>4 DEF TurnRecord
<1>6. /\ n \in Nat /\ m \in Seq(TurnRecord) /\ Len(m) = n + 1 /\ m[n + 1] = u /\ m # <<>>
      /\ DOMAIN m = 1..(n + 1) /\ DOMAIN h = 1..n /\ Last(m) = u
      /\ \A t \in 1..n : m[t] = h[t] /\ h[t] \in TurnRecord
  <2>1. /\ n \in Nat /\ m \in Seq(TurnRecord) /\ Len(m) = n + 1 /\ m[n + 1] = u
        /\ DOMAIN m = 1..(n + 1) /\ DOMAIN h = 1..n
        /\ \A t \in 1..n : m[t] = h[t] /\ h[t] \in TurnRecord
    BY <1>5
  <2> HIDE DEF m
  <2>2. m # <<>>
    BY <2>1
  <2> QED
    BY <2>1, <2>2 DEF Last
<1>7. Tokens(m) = Tokens(h) + gen + f.obs /\ Tokens(h) \in Nat
  <2>1. Tokens(m) = Tokens(h) + u.gen + u.obs
    BY <1>5, TokensAppend
  <2> QED
    BY <1>5, <2>1, TokensIsNat
<1> HIDE DEF m
<1>8. s.len = Tokens(h) /\ (h # <<>> => Tokens(h) < MaxSeqLen)
  <2>1. CASE h = <<>>
    <3>1. Tokens(h) = Prompt
      <4>1. <<>> \in Seq(TurnRecord)
        OBVIOUS
      <4> QED
        BY <1>5, <2>1, <4>1, TokensAppend
    <3>2. Prompt \in Nat /\ ~(Prompt > MaxSeqLen)
      BY DEF RolloutAssumption
    <3> QED
      BY <2>1, <3>1, <3>2 DEF Outcome
  <2>2. CASE h # <<>>
    <3>1. ~s.truncated
      BY DEF GoesOn
    <3>2. ~(Tokens(h) >= MaxSeqLen)
      BY <2>2, <3>1 DEF Outcome
    <3> QED
      BY <1>1, <1>7, <3>2 DEF Outcome
  <2> QED
    BY <2>1, <2>2
<1>9. x = [s EXCEPT !.len = IF Full(s, gen, f) THEN MaxSeqLen ELSE @ + gen + f.obs,
                    !.rewards = @ \cup {f.reward}, !.truncated = Full(s, gen, f)]
  BY DEF Extended
<1>10. /\ r.len = (IF Full(s, gen, f) THEN MaxSeqLen ELSE s.len + gen + f.obs)
       /\ r.rewards = s.rewards \cup {<<i, n + 1>>} /\ r.truncated = Full(s, gen, f)
  BY <1>3, <1>9 DEF SampleRecord
<1>11. /\ Tokens(m) = s.len + gen + f.obs /\ s.len \in Nat /\ gen \in Nat /\ f.obs \in Nat
       /\ MaxSeqLen \in Nat /\ (Full(s, gen, f) <=> Tokens(m) >= MaxSeqLen)
  <2>1. s.len \in Nat /\ gen \in Nat /\ f.obs \in Nat /\ MaxSeqLen \in Nat
    BY <1>1, <1>2, <1>3
  <2>2. Tokens(m) = s.len + gen + f.obs
    BY <1>7, <1>8
  <2> QED
    BY <2>1, <2>2 DEF Full
<1>12. r.rewards = {<<i, t>> : t \in DOMAIN m}
  <2>1. s.rewards = {<<i, t>> : t \in 1..n}
    BY <1>6 DEF Outcome
  <2>2. 1..(n + 1) = 1..n \cup {n + 1}
    BY <1>6
  <2> QED
    BY <1>6, <1>10, <2>1, <2>2
<1>13. r.len = IF Tokens(m) > MaxSeqLen THEN MaxSeqLen ELSE Tokens(m)
  <2>1. Tokens(m) \in Nat /\ MaxSeqLen \in Nat
    BY <1>11
  <2>2. CASE Full(s, gen, f)
    <3>1. r.len = MaxSeqLen
      BY <1>10, <2>2
    <3>2. Tokens(m) >= MaxSeqLen
      BY <1>11, <2>2
    <3>3. Tokens(m) > MaxSeqLen \/ Tokens(m) = MaxSeqLen
      BY <2>1, <3>2
    <3> QED
      BY <3>1, <3>3
  <2>3. CASE ~Full(s, gen, f)
    <3>1. r.len = Tokens(m)
      BY <1>10, <1>11, <2>3
    <3>2. ~(Tokens(m) > MaxSeqLen)
      BY <1>11, <2>1, <2>3
    <3> QED
      BY <3>1, <3>2
  <2> QED
    BY <2>2, <2>3
<1>14. r.truncated <=> m # <<>> /\ Tokens(m) >= MaxSeqLen
  BY <1>6, <1>10, <1>11
<1>15. ASSUME NEW t \in 1..(Len(m) - 1)
       PROVE  ~m[t].term /\ Tokens(SubSeq(m, 1, t)) < MaxSeqLen
  <2>1. t \in 1..n /\ t \in 0..n /\ m[t] = h[t] /\ n # 0
    BY <1>6
  <2>2. SubSeq(m, 1, t) = SubSeq(h, 1, t) /\ SubSeq(h, 1, n) = h
    BY <1>5, <2>1, PrefixFacts DEF m
  <2>3. CASE t = n
    <3>1. h # <<>> /\ Last(h) = h[n]
      BY <2>1 DEF Last
    <3>2. ~h[n].term
      BY <3>1 DEF GoesOn
    <3> QED
      BY <1>8, <2>1, <2>2, <2>3, <3>1, <3>2
  <2>4. CASE t # n
    <3>1. t \in 1..(Len(h) - 1)
      BY <2>1, <2>4
    <3> QED
      BY <2>1, <2>2, <3>1 DEF Outcome
  <2> QED
    BY <2>3, <2>4
<1>16. r.over => r.failed \/ Len(m) = MaxTurns \/ r.truncated \/ Last(m).term
  BY <1>5, <1>6
<1>17. ASSUME NEW t \in 2..Len(m)
       PROVE  m[t].used = NextStops(mode, m[t - 1])
  <2>1. t - 1 \in 1..n /\ m[t - 1] = h[t - 1] /\ t \in 2..(n + 1)
    BY <1>6
  <2>2. CASE t = n + 1
    <3>1. h # <<>> /\ Last(h) = h[n] /\ t - 1 = n
      BY <1>6, <2>1, <2>2 DEF Last
    <3>2. s.stops = NextStops(mode, h[n])
      BY <3>1 DEF GoesOn
    <3> QED
      BY <1>5, <1>6, <2>1, <2>2, <3>1, <3>2
  <2>3. CASE t # n + 1
    <3>1. t \in 2..Len(h) /\ m[t] = h[t]
      BY <1>6, <2>1, <2>3
    <3> QED
      BY <2>1, <3>1 DEF Outcome
  <2> QED
    BY <2>2, <2>3
<1> QED
  BY <1>5, <1>12, <1>13, <1>14, <1>15, <1>16, <1>17 DEF Outcome, m

\* calculate_rewards goes over every position of the batch once.
LEMMA GroupsCover ==
    ASSUME NEW batch \in Seq(Int), batch # <<>>
    PROVE  LET order == GroupedByTask(batch) IN
           /\ order \in Seq(1..Len(batch)) /\ Once(order)
           /\ ToSet(order) = 1..Len(batch) /\ Len(order) = Len(batch)
<1> DEFINE n == Len(batch)
           N == 1..n
           places == [p \in DOMAIN batch |-> p]
           of(task) == {p \in DOMAIN batch : TaskOf(batch[p]) = task}
           a == TaskOf(batch[1])
           first == Kept(places, of(a))
           second == Kept(places, of(1 - a))
           order == first \o second
<1>1. n \in Nat /\ n # 0 /\ DOMAIN batch = N /\ \A p \in N : batch[p] \in Int
  OBVIOUS
<1>2. a \in {0, 1} /\ \A p \in N : TaskOf(batch[p]) \in {0, 1}
  <2>1. \A x \in Int : TaskOf(x) \in {0, 1}
    BY DEF TaskOf
  <2>2. 1 \in N
    BY <1>1
  <2> QED
    BY <1>1, <2>1, <2>2
<1>3. GroupedByTask(batch) = order
  BY DEF GroupedByTask
<1>4. places \in Seq(N) /\ Once(places) /\ ToSet(places) = N
  <2>1. places \in [1..n -> N] /\ \A p \in N : places[p] = p
    BY <1>1
  <2> HIDE DEF places, N
  <2>2. places \in Seq(N) /\ Len(places) = n
    BY <1>1, <2>1, ListOf
  <2>3. Once(places)
    BY <2>1, <2>2 DEF Once, N
  <2>4. ToSet(places) = N
    <3>1. /\ \A p \in 1..n : places[p] \in N /\ places[p] \in ToSet(places)
          /\ \A x \in ToSet(places) : x \in N
      BY <2>2, InSeq
    <3> QED
      BY <2>1, <3>1 DEF N
  <2> QED
    BY <2>2, <2>3, <2>4
<1>5. /\ of(a) \cup of(1 - a) = N /\ of(a) \cap of(1 - a) = {}
  <2>1. 1 - a \in {0, 1} /\ 1 - a # a /\ \A x \in {0, 1} : x = a \/ x = 1 - a
    BY <1>2
  <2> HIDE DEF a
  <2> QED
    BY <1>1, <1>2, <2>1
<1> HIDE DEF n, N, places, of, first, second
<1>6. \A set : /\ Kept(places, set) \in Seq(N \cap set) /\ Once(Kept(places, set))
               /\ ToSet(Kept(places, set)) = N \cap set
  <2> TAKE set
  <2>1. Kept(places, set) \in Seq(N \cap set) /\ ToSet(Kept(places, set)) = N \cap set
    BY <1>4, KeptFacts
  <2>2. Once(Kept(places, set))
    BY <1>4, KeptOrder
  <2> QED
    BY <2>1, <2>2
<1>7. /\ first \in Seq(N) /\ Once(first) /\ ToSet(first) = N \cap of(a)
      /\ second \in Seq(N) /\ Once(second) /\ ToSet(second) = N \cap of(1 - a)
  <2>1. /\ first \in Seq(N \cap of(a)) /\ Once(first) /\ ToSet(first) = N \cap of(a)
        /\ second \in Seq(N \cap of(1 - a)) /\ Once(second) /\ ToSet(second) = N \cap of(1 - a)
    BY <1>6 DEF first, second
  <2>2. first \in Seq(N)
    BY <2>1, SeqSubset
  <2>3. second \in Seq(N)
    BY <2>1, SeqSubset
  <2> QED
    BY <2>1, <2>2, <2>3
<1>8. /\ order \in Seq(N) /\ Once(order) /\ ToSet(order) = N
  <2>1. ToSet(first) \cap ToSet(second) = {} /\ ToSet(first) \cup ToSet(second) = N
    BY <1>5, <1>7
  <2>2. /\ first \o second \in Seq(N)
        /\ ToSet(first \o second) = ToSet(first) \cup ToSet(second)
        /\ Once(first) /\ Once(second) /\ ToSet(first) \cap ToSet(second) = {}
               => Once(first \o second)
    BY <1>7, ConcatFacts
  <2> QED
    BY <1>7, <2>1, <2>2, Zenon
<1> HIDE DEF order
<1>9. Len(order) = n
  BY <1>1, <1>8, Counting DEF N
<1> QED
  BY <1>3, <1>8, <1>9 DEF N, n

\* Each sample gets the feedback on itself, whatever else is in the batch.
LEMMA OwnFeedback ==
    ASSUME NEW batch \in Seq(Int), batch # <<>>, NEW t, NEW answers, NEW p \in 1..Len(batch)
    PROVE  CalculateRewards(batch, t, answers)[p] = Feedback(batch[p], t, answers[p])
<1> DEFINE order == GroupedByTask(batch)
           returned == [m \in DOMAIN order |-> Feedback(batch[order[m]], t, answers[order[m]])]
           q == Position(order, p)
<1>1. /\ order \in Seq(1..Len(batch)) /\ ToSet(order) = 1..Len(batch) /\ Len(order) = Len(batch)
  BY GroupsCover
<1> HIDE DEF order
<1>2. DOMAIN order = 1..Len(batch) /\ \E m \in DOMAIN order : order[m] = p
  <2>1. DOMAIN order = 1..Len(order) /\ \A x \in ToSet(order) : \E m \in 1..Len(order) : order[m] = x
    BY <1>1, InSeq
  <2> QED
    BY <1>1, <2>1
<1>3. q \in DOMAIN order /\ order[q] = p
  BY <1>2 DEF Position
<1>4. CalculateRewards(batch, t, answers) = [m \in DOMAIN order |-> returned[Position(order, m)]]
  BY DEF CalculateRewards, ByPosition, order
<1>5. CalculateRewards(batch, t, answers)[p] = returned[q]
  BY <1>2, <1>4
<1> HIDE DEF q
<1> QED
  BY <1>3, <1>5

\* The sample x after a turn u with feedback f, and what may be made of it.
TurnMade(m, s, h, i, f, x, u) ==
    /\ x \in SampleRecord /\ x.failed = s.failed /\ x.over = FALSE /\ x.stops = s.stops
    /\ f.stops \in Seq(Nat) /\ f.term \in BOOLEAN
    /\ u \in TurnRecord /\ u.stops = f.stops /\ u.used = s.stops /\ u.term = f.term
    /\ Append(h, u) \in Seq(TurnRecord) /\ Len(Append(h, u)) = Len(h) + 1
    /\ Last(Append(h, u)) = u
    /\ \A r \in SampleRecord :
          /\ r.len = x.len /\ r.rewards = x.rewards /\ r.truncated = x.truncated
          /\ r.over => r.failed \/ Len(h) + 1 = MaxTurns \/ r.truncated \/ f.term
          => Outcome(m, r, Append(h, u), i)

LEMMA TurnTaken ==
    ASSUME RolloutAssumption, NEW i \in Nat, NEW s \in SampleRecord, NEW h \in Seq(TurnRecord),
           Outcome(mode, s, h, i), GoesOn(mode, s, h), ~s.over,
           NEW g \in Generated, NEW a \in Answers
    PROVE  TurnMade(mode, s, h, i, Feedback(i, Len(h) + 1, a),
                    Extended(s, Response(s, g), Feedback(i, Len(h) + 1, a)),
                    Turn(s, Response(s, g), Feedback(i, Len(h) + 1, a)))
<1> DEFINE gen == Response(s, g)
           f   == Feedback(i, Len(h) + 1, a)
           x   == Extended(s, gen, f)
           u   == Turn(s, gen, f)
<1>1. /\ Len(h) \in Nat /\ s.len \in Nat /\ s.stops \in Seq(Nat)
      /\ s.rewards \in SUBSET (Nat \X Nat) /\ MaxSeqLen \in Nat /\ g \in Nat /\ s.len <= MaxSeqLen
      /\ s.over = FALSE
  BY DEF SampleRecord, RolloutAssumption
<1>2. gen \in Nat
  BY <1>1 DEF Response
<1>3. /\ f.reward \in Nat \X Nat /\ f.obs \in Nat /\ f.term \in BOOLEAN /\ f.stops \in Seq(Nat)
  <2>1. a.obs \in Nat /\ a.term \in BOOLEAN
    BY DEF Answers, RolloutAssumption
  <2>2. Len(h) + 1 \in Nat /\ <<i, Len(h) + 1>> \in Seq(Nat) /\ <<>> \in Seq(Nat)
    BY <1>1
  <2> QED
    BY <2>1, <2>2 DEF Feedback
<1>4. x = [s EXCEPT !.len = IF Full(s, gen, f) THEN MaxSeqLen ELSE @ + gen + f.obs,
                    !.rewards = @ \cup {f.reward}, !.truncated = Full(s, gen, f)]
  BY DEF Extended
<1>8. u = [gen |-> gen, obs |-> f.obs, term |-> f.term, stops |-> f.stops, used |-> s.stops]
  BY DEF Turn
<1> HIDE DEF gen, f, x, u
<1>5. (IF Full(s, gen, f) THEN MaxSeqLen ELSE s.len + gen + f.obs) \in 0..MaxSeqLen
  <2>1. s.len \in Nat /\ gen \in Nat /\ f.obs \in Nat /\ MaxSeqLen \in Nat
    BY <1>1, <1>2, <1>3
  <2>2. ~Full(s, gen, f) => s.len + gen + f.obs \in 0..MaxSeqLen
    BY <2>1 DEF Full
  <2> QED
    BY <2>1, <2>2
<1>6. Full(s, gen, f) \in BOOLEAN
  BY DEF Full
<1>7. x \in SampleRecord /\ x.failed = s.failed /\ x.over = FALSE /\ x.stops = s.stops
  <2> DEFINE len == IF Full(s, gen, f) THEN MaxSeqLen ELSE s.len + gen + f.obs
             rewards == s.rewards \cup {f.reward}
             full == Full(s, gen, f)
  <2>1. x = [s EXCEPT !.len = len, !.rewards = rewards, !.truncated = full]
    BY <1>4
  <2>2. len \in 0..MaxSeqLen /\ rewards \in SUBSET (Nat \X Nat) /\ full \in BOOLEAN
    BY <1>1, <1>3, <1>5, <1>6
  <2> HIDE DEF len, rewards, full
  <2> QED
    BY <1>1, <2>1, <2>2 DEF SampleRecord
<1>9. u \in TurnRecord /\ u.stops = f.stops /\ u.used = s.stops /\ u.term = f.term
  <2>1. s.stops \in Seq(Nat) /\ gen \in Nat /\ f.obs \in Nat /\ f.term \in BOOLEAN
        /\ f.stops \in Seq(Nat)
    BY <1>1, <1>2, <1>3
  <2> QED
    BY <1>8, <2>1 DEF TurnRecord
<1>10. /\ Append(h, u) \in Seq(TurnRecord) /\ Len(Append(h, u)) = Len(h) + 1
       /\ Last(Append(h, u)) = u
  <2>1. /\ Append(h, u) \in Seq(TurnRecord) /\ Len(Append(h, u)) = Len(h) + 1
        /\ Append(h, u)[Len(h) + 1] = u
    BY <1>9
  <2> QED
    BY <2>1 DEF Last
<1>11. ASSUME NEW r \in SampleRecord, r.len = x.len, r.rewards = x.rewards,
              r.truncated = x.truncated,
              r.over => r.failed \/ Len(h) + 1 = MaxTurns \/ r.truncated \/ f.term
       PROVE  Outcome(mode, r, Append(h, u), i)
  BY <1>11, TurnOutcome DEF gen, f, x, u
<1>12. TurnMade(mode, s, h, i, f, x, u)
  BY <1>3, <1>7, <1>9, <1>10, <1>11 DEF TurnMade
<1> QED
  BY <1>12 DEF gen, f, x, u

-----------------------------------------------------------------------------
(* The synchronous rollout *)

LEMMA LoopRests ==
    ASSUME LoopInv, UNCHANGED <<ready, call, faults, mode, texts, eval>>
    PROVE  CallInv' /\ ReadyInv' /\ ModeInv' /\ TextsInv'
<1>1. Asked' = Asked /\ Batch' = Batch /\ Texts' = Texts /\ Asking' = Asking
  BY DEF Asked, Batch, Texts, Asking
<1>2. CallInv'
  BY <1>1 DEF LoopInv, CallInv, FaultsOf
<1>3. ReadyInv'
  BY DEF LoopInv, ReadyInv
<1>4. ModeInv'
  BY <1>1 DEF LoopInv, ModeInv, EvalRecord
<1>5. TextsInv'
  BY <1>1 DEF LoopInv, TextsInv
<1> QED
  BY <1>2, <1>3, <1>4, <1>5

\* What holds of one sample of a synchronous batch.
SyncOne(m, s, h, i, list, t) ==
    /\ s \in SampleRecord /\ h \in Seq(TurnRecord) /\ Outcome(m, s, h, i) /\ GoesOn(m, s, h)
    /\ ~s.over <=> i \in ToSet(list)
    /\ ~s.over => Len(h) = t

LEMMA SyncTurns ==
    ASSUME RolloutAssumption, Inv, SyncTurn
    PROVE  Inv'
<1>1. /\ mode = "sync" /\ turn \in Nat /\ turn < MaxTurns /\ turn' = turn + 1 /\ active # <<>>
      /\ UNCHANGED <<ready, call, faults, mode, texts, eval, gym>>
      /\ SyncInv /\ sample \in [Batch -> SampleRecord] /\ hist \in [Batch -> Seq(TurnRecord)]
      /\ active \in Seq(Batch) /\ Once(active) /\ MaxTurns \in Nat
  BY DEF SyncTurn, Inv, OutcomeInv, SyncInv, RolloutAssumption
<1>2. \A i \in Batch : SyncOne(mode, sample[i], hist[i], i, active, turn)
  BY <1>1 DEF SyncInv, SyncOne
<1>3. Batch' = Batch /\ Batch \subseteq Nat /\ Batch \subseteq Int
  BY <1>1 DEF Batch
<1> DEFINE fb(answers) == CalculateRewards(active, turn + 1, answers)
           pos(i) == Position(active, i)
           gen(lengths, i) == Response(sample[i], lengths[pos(i)])
           ext(lengths, answers, i) ==
             IF i \in ToSet(active) THEN Extended(sample[i], gen(lengths, i), fb(answers)[pos(i)])
                                    ELSE sample[i]
           on(lengths, answers) ==
             Kept(active, {i \in ToSet(active) :
                ~ext(lengths, answers, i).truncated /\ ~fb(answers)[pos(i)].term})
           all(lengths, answers) == [i \in Batch |-> ext(lengths, answers, i)]
           allOn(lengths, answers) ==
             Kept(active, {i \in ToSet(active) :
                ~all(lengths, answers)[i].truncated /\ ~fb(answers)[pos(i)].term})
<1>4. PICK lengths \in [DOMAIN active -> Generated], answers \in [DOMAIN active -> Answers] :
         /\ sample' = [i \in Batch |->
              IF i \notin ToSet(active) THEN ext(lengths, answers, i)
              ELSE IF i \in ToSet(on(lengths, answers))
                   THEN [ext(lengths, answers, i) EXCEPT !.stops = fb(answers)[pos(i)].stops]
                   ELSE [ext(lengths, answers, i) EXCEPT !.over = TRUE]]
         /\ active' = on(lengths, answers)
         /\ hist' = [i \in Batch |->
              IF i \in ToSet(active)
              THEN Append(hist[i], Turn(sample[i], gen(lengths, i),
                                        Feedback(i, turn + 1, answers[pos(i)])))
              ELSE hist[i]]
  <2>1. ToSet(active) \subseteq Batch
    BY <1>1, InSeq
  <2>2. \A lengths, answers : allOn(lengths, answers) = on(lengths, answers)
    <3> TAKE lengths, answers
    <3>1. \A i \in ToSet(active) : all(lengths, answers)[i] = ext(lengths, answers, i)
      BY <2>1
    <3> HIDE DEF all, ext
    <3> QED
      BY <3>1
  <2>3. \E lengths \in [DOMAIN active -> Generated], answers \in [DOMAIN active -> Answers] :
         /\ sample' = [i \in Batch |->
              IF i \notin ToSet(active) THEN all(lengths, answers)[i]
              ELSE IF i \in ToSet(allOn(lengths, answers))
                   THEN [all(lengths, answers)[i] EXCEPT !.stops = fb(answers)[pos(i)].stops]
                   ELSE [all(lengths, answers)[i] EXCEPT !.over = TRUE]]
         /\ active' = allOn(lengths, answers)
         /\ hist' = [i \in Batch |->
              IF i \in ToSet(active)
              THEN Append(hist[i], Turn(sample[i], gen(lengths, i),
                                        Feedback(i, turn + 1, answers[pos(i)])))
              ELSE hist[i]]
    BY DEF SyncTurn, SyncAfter
  <2>4. \A lengths, answers : \A i \in Batch : all(lengths, answers)[i] = ext(lengths, answers, i)
    OBVIOUS
  <2> HIDE DEF all, allOn, on, ext
  <2>5. PICK lengths \in [DOMAIN active -> Generated], answers \in [DOMAIN active -> Answers] :
         /\ sample' = [i \in Batch |->
              IF i \notin ToSet(active) THEN all(lengths, answers)[i]
              ELSE IF i \in ToSet(allOn(lengths, answers))
                   THEN [all(lengths, answers)[i] EXCEPT !.stops = fb(answers)[pos(i)].stops]
                   ELSE [all(lengths, answers)[i] EXCEPT !.over = TRUE]]
         /\ active' = allOn(lengths, answers)
         /\ hist' = [i \in Batch |->
              IF i \in ToSet(active)
              THEN Append(hist[i], Turn(sample[i], gen(lengths, i),
                                        Feedback(i, turn + 1, answers[pos(i)])))
              ELSE hist[i]]
    BY <2>3
  <2>6. /\ active' = on(lengths, answers)
        /\ sample' = [i \in Batch |->
              IF i \notin ToSet(active) THEN ext(lengths, answers, i)
              ELSE IF i \in ToSet(on(lengths, answers))
                   THEN [ext(lengths, answers, i) EXCEPT !.stops = fb(answers)[pos(i)].stops]
                   ELSE [ext(lengths, answers, i) EXCEPT !.over = TRUE]]
    BY <2>2, <2>4, <2>5
  <2> QED
    BY <2>5, <2>6
<1> DEFINE goOn == on(lengths, answers)
           set == {i \in ToSet(active) :
                     ~ext(lengths, answers, i).truncated /\ ~fb(answers)[pos(i)].term}
<1>5. /\ goOn \in Seq(Batch) /\ Once(goOn) /\ ToSet(goOn) = set
  <2>1. goOn = Kept(active, set) /\ set \subseteq ToSet(active)
    OBVIOUS
  <2> HIDE DEF set, goOn
  <2>2. Kept(active, set) \in Seq(Batch \cap set) /\ ToSet(Kept(active, set)) = ToSet(active) \cap set
    BY <1>1, KeptFacts
  <2>3. Kept(active, set) \in Seq(Batch)
    BY <2>2, SeqSubset
  <2>4. Once(Kept(active, set))
    BY <1>1, KeptOrder
  <2> QED
    BY <2>1, <2>2, <2>3, <2>4
<1>6. ASSUME NEW i \in Batch
      PROVE  /\ SyncOne(mode, sample'[i], hist'[i], i, goOn, turn + 1)
             /\ sample'[i].failed = sample[i].failed
  <2> DEFINE s == sample[i]
             h == hist[i]
             p == pos(i)
             a == answers[p]
             f == Feedback(i, turn + 1, a)
             v == Response(s, lengths[p])
             x == Extended(s, v, f)
             u == Turn(s, v, f)
  <2>1. CASE i \notin ToSet(active)
    <3>1. sample'[i] = s /\ hist'[i] = h /\ i \notin ToSet(goOn)
      BY <1>4, <1>5, <2>1
    <3>2. SyncOne(mode, s, h, i, active, turn)
      BY <1>2
    <3> QED
      BY <2>1, <3>1, <3>2 DEF SyncOne
  <2>2. CASE i \in ToSet(active)
    <3>1. p \in DOMAIN active /\ active[p] = i /\ p \in 1..Len(active)
      <4>1. DOMAIN active = 1..Len(active) /\ \E q \in 1..Len(active) : active[q] = i
        BY <1>1, <2>2, InSeq
      <4> QED
        BY <4>1 DEF Position
    <3>2. fb(answers)[p] = f
      <4>1. active \in Seq(Int)
        BY <1>1, <1>3, SeqSubset
      <4>2. CalculateRewards(active, turn + 1, answers)[p] = Feedback(active[p], turn + 1, answers[p])
        BY <1>1, <3>1, <4>1, OwnFeedback
      <4> QED
        BY <3>1, <4>2
    <3>3. ext(lengths, answers, i) = x
      BY <2>2, <3>2
    <3>4. /\ sample'[i] = IF i \in ToSet(goOn) THEN [x EXCEPT !.stops = f.stops]
                                              ELSE [x EXCEPT !.over = TRUE]
          /\ hist'[i] = Append(h, u)
          /\ i \in ToSet(goOn) <=> ~x.truncated /\ ~f.term
      <4>1. i \in ToSet(goOn) <=> ~x.truncated /\ ~f.term
        BY <1>5, <2>2, <3>2, <3>3
      <4> HIDE DEF goOn
      <4>2. sample'[i] = IF i \in ToSet(on(lengths, answers)) THEN [x EXCEPT !.stops = f.stops]
                                                             ELSE [x EXCEPT !.over = TRUE]
        BY <1>4, <2>2, <3>2, <3>3
      <4>3. hist'[i] = Append(h, u)
        BY <1>4, <2>2
      <4> QED
        BY <4>1, <4>2, <4>3 DEF goOn
    <3>5. SyncOne(mode, s, h, i, active, turn) /\ lengths[p] \in Generated /\ a \in Answers /\ i \in Nat
      BY <1>2, <1>3, <3>1
    <3>6. /\ s \in SampleRecord /\ h \in Seq(TurnRecord) /\ Outcome(mode, s, h, i) /\ GoesOn(mode, s, h)
          /\ ~s.over /\ Len(h) = turn /\ f = Feedback(i, Len(h) + 1, a)
      BY <2>2, <3>5 DEF SyncOne
    <3> HIDE DEF s, h, p, a, f, v, x, u
    <3>7. /\ x \in SampleRecord /\ x.failed = s.failed /\ x.over = FALSE /\ x.stops = s.stops
          /\ f.stops \in Seq(Nat) /\ f.term \in BOOLEAN
          /\ u \in TurnRecord /\ u.stops = f.stops /\ u.used = s.stops /\ u.term = f.term
          /\ Append(h, u) \in Seq(TurnRecord) /\ Len(Append(h, u)) = Len(h) + 1
          /\ Last(Append(h, u)) = u
          /\ \A r \in SampleRecord :
                /\ r.len = x.len /\ r.rewards = x.rewards /\ r.truncated = x.truncated
                /\ r.over => r.failed \/ Len(h) + 1 = MaxTurns \/ r.truncated \/ f.term
                => Outcome(mode, r, Append(h, u), i)
      <4> DEFINE g == lengths[p]
      <4>1. v = Response(s, g) /\ x = Extended(s, v, f) /\ u = Turn(s, v, f) /\ g \in Generated
        BY <3>5 DEF v, x, u
      <4> HIDE DEF g
      <4>2. TurnMade(mode, s, h, i, Feedback(i, Len(h) + 1, a),
                     Extended(s, Response(s, g), Feedback(i, Len(h) + 1, a)),
                     Turn(s, Response(s, g), Feedback(i, Len(h) + 1, a)))
        BY <3>5, <3>6, <4>1, TurnTaken
      <4>3. TurnMade(mode, s, h, i, f, x, u)
        BY <3>6, <4>1, <4>2, Zenon
      <4> QED
        BY <4>3 DEF TurnMade
    <3> DEFINE r == IF i \in ToSet(goOn) THEN [x EXCEPT !.stops = f.stops]
                                         ELSE [x EXCEPT !.over = TRUE]
    <3>8. /\ r \in SampleRecord /\ r.len = x.len /\ r.rewards = x.rewards
          /\ r.truncated = x.truncated /\ r.failed = x.failed
          /\ ~r.over <=> i \in ToSet(goOn)
          /\ i \in ToSet(goOn) => r.stops = f.stops
      <4> HIDE DEF goOn
      <4>1. CASE i \in ToSet(goOn)
        <5>1. r = [x EXCEPT !.stops = f.stops]
          BY <4>1
        <5> HIDE DEF r
        <5> QED
          BY <3>7, <4>1, <5>1 DEF SampleRecord
      <4>2. CASE i \notin ToSet(goOn)
        <5>1. r = [x EXCEPT !.over = TRUE]
          BY <4>2
        <5> HIDE DEF r
        <5> QED
          BY <3>7, <4>2, <5>1 DEF SampleRecord
      <4> QED
        BY <4>1, <4>2
    <3>9. sample'[i] = r /\ hist'[i] = Append(h, u)
      BY <3>4
    <3> HIDE DEF r, goOn
    <3>10. Outcome(mode, r, Append(h, u), i)
      BY <3>4, <3>7, <3>8
    <3>11. GoesOn(mode, r, Append(h, u))
      <4>1. NextStops(mode, u) = f.stops
        BY <1>1, <3>7 DEF NextStops
      <4> QED
        BY <3>4, <3>7, <3>8, <4>1 DEF GoesOn
    <3>12. SyncOne(mode, r, Append(h, u), i, goOn, turn + 1)
      BY <3>6, <3>7, <3>8, <3>10, <3>11 DEF SyncOne
    <3> QED
      BY <3>7, <3>8, <3>9, <3>12 DEF s
  <2> QED
    BY <2>1, <2>2
<1>7. /\ sample' \in [Batch -> SampleRecord] /\ hist' \in [Batch -> Seq(TurnRecord)]
  <2>1. \A i \in Batch : sample'[i] \in SampleRecord /\ hist'[i] \in Seq(TurnRecord)
    BY <1>6 DEF SyncOne
  <2>2. /\ sample' = [i \in Batch |-> sample'[i]]
        /\ hist' = [i \in Batch |-> hist'[i]]
    BY <1>4
  <2> QED
    BY <2>1, <2>2
<1>8. active' = goOn
  BY <1>4
<1> HIDE DEF goOn
<1>9. SyncInv'
  <2>1. turn' \in 0..MaxTurns /\ active' \in Seq(Batch) /\ Once(active')
    BY <1>1, <1>5, <1>8
  <2>2. ASSUME NEW i \in Batch
        PROVE  /\ Outcome(mode, sample[i], hist[i], i)' /\ GoesOn(mode, sample[i], hist[i])'
               /\ ~sample'[i].over <=> i \in ToSet(active')
               /\ ~sample'[i].over => Len(hist'[i]) = turn'
    <3>1. SyncOne(mode, sample'[i], hist'[i], i, active', turn')
      BY <1>1, <1>6, <1>8
    <3> QED
      BY <1>1, <3>1 DEF SyncOne
  <2> QED
    BY <1>3, <2>1, <2>2 DEF SyncInv
<1>10. OutcomeInv'
  BY <1>1, <1>3, <1>7, <1>9 DEF OutcomeInv
<1>11. LoopInv'
  <2>1. FailedInv'
    BY <1>1, <1>3, <1>6 DEF FailedInv, Inv, LoopInv
  <2> QED
    BY <1>1, <2>1, LoopRests DEF LoopInv, Inv
<1> QED
  BY <1>10, <1>11 DEF Inv

LEMMA SyncStops ==
    ASSUME RolloutAssumption, Inv, SyncEnd
    PROVE  Inv'
<1>1. /\ mode = "sync" /\ turn = MaxTurns /\ active' = <<>>
      /\ sample' = [i \in Batch |-> [sample[i] EXCEPT !.over = TRUE]]
      /\ UNCHANGED <<ready, call, faults, mode, turn, hist, texts, eval, gym>>
      /\ SyncInv /\ sample \in [Batch -> SampleRecord] /\ hist \in [Batch -> Seq(TurnRecord)]
      /\ Batch' = Batch
  BY DEF SyncEnd, Inv, OutcomeInv, Batch
<1>2. ASSUME NEW i \in Batch
      PROVE  /\ sample'[i] \in SampleRecord /\ sample'[i].over = TRUE
             /\ sample'[i].failed = sample[i].failed
             /\ Outcome(mode, sample'[i], hist[i], i)
  <2> DEFINE s == sample[i]
             r == sample'[i]
             h == hist[i]
  <2>1. s \in SampleRecord /\ r = [s EXCEPT !.over = TRUE]
    BY <1>1
  <2>2. Outcome(mode, s, h, i) /\ (~s.over => Len(h) = MaxTurns)
    BY <1>1 DEF SyncInv
  <2> HIDE DEF s, r, h
  <2>3. /\ r \in SampleRecord /\ r.over = TRUE /\ r.failed = s.failed /\ r.len = s.len
        /\ r.rewards = s.rewards /\ r.truncated = s.truncated
    BY <2>1 DEF SampleRecord
  <2>4. Outcome(mode, r, h, i)
    BY <2>2, <2>3 DEF Outcome
  <2> QED
    BY <2>3, <2>4 DEF s, r, h
<1>3. sample' \in [Batch -> SampleRecord]
  BY <1>1, <1>2
<1>4. SyncInv'
  <2>1. active' \in Seq(Batch) /\ Once(active') /\ ToSet(active') = {}
    <3>1. <<>> \in Seq(Batch)
      OBVIOUS
    <3>2. Once(<<>>) /\ ToSet(<<>>) = {}
      BY OnceShort, OneTwo
    <3> QED
      BY <1>1, <3>1, <3>2, Zenon
  <2>2. turn' \in 0..MaxTurns
    BY <1>1 DEF SyncInv
  <2>3. ASSUME NEW i \in Batch
        PROVE  /\ Outcome(mode, sample[i], hist[i], i)' /\ GoesOn(mode, sample[i], hist[i])'
               /\ ~sample'[i].over <=> i \in ToSet(active')
               /\ ~sample'[i].over => Len(hist'[i]) = turn'
    BY <1>1, <1>2, <2>1 DEF GoesOn
  <2> QED
    BY <1>1, <2>1, <2>2, <2>3 DEF SyncInv
<1>5. OutcomeInv'
  BY <1>1, <1>3, <1>4 DEF OutcomeInv
<1>6. LoopInv'
  <2>1. FailedInv'
    BY <1>1, <1>2 DEF FailedInv, Inv, LoopInv
  <2> QED
    BY <1>1, <2>1, LoopRests DEF LoopInv, Inv
<1> QED
  BY <1>5, <1>6 DEF Inv

-----------------------------------------------------------------------------
(* What the steps of one call leave to the samples *)

\* A sample that is over has no call and no caller that would run.
LEMMA Bystanders ==
    ASSUME OutcomeInv, UNCHANGED <<mode, rollout, gym>>, NEW c \in Calls,
           \A d \in Calls \ {c} :
              /\ call'[d] = call[d]
              /\ Caller(d) \in ToSet(ready') => Caller(d) \in ToSet(ready),
           \/ call[c].caller # "off"
           \/ call' = call /\ (Caller(c) \in ToSet(ready') => Caller(c) \in ToSet(ready)),
           RolloutAssumption
    PROVE  OutcomeInv'
<1>1. /\ Batch' = Batch /\ UNCHANGED <<sample, hist, active, turn>>
      /\ sample \in [Batch -> SampleRecord] /\ hist \in [Batch -> Seq(TurnRecord)]
  BY DEF Batch, OutcomeInv, rollout
<1>2. mode = "async" => AsyncInv'
  <2> SUFFICES ASSUME mode = "async", NEW i \in Batch
               PROVE  /\ Outcome(mode, sample[i], hist[i], i)' /\ GoesOn(mode, sample[i], hist[i])'
                      /\ ~sample'[i].over => Len(hist'[i]) < MaxTurns
                      /\ sample'[i].over =>
                            call'[i].caller = "off" /\ Caller(i) \notin ToSet(ready')
    BY <1>1 DEF AsyncInv
  <2>1. /\ Outcome(mode, sample[i], hist[i], i) /\ GoesOn(mode, sample[i], hist[i])
        /\ ~sample[i].over => Len(hist[i]) < MaxTurns
        /\ sample[i].over => call[i].caller = "off" /\ Caller(i) \notin ToSet(ready)
    BY DEF OutcomeInv, AsyncInv
  <2>2. i \in Calls
    BY DEF RolloutAssumption, Batch
  <2>3. CASE i = c
    BY <1>1, <2>1, <2>3
  <2>4. CASE i # c
    BY <1>1, <2>1, <2>2, <2>4
  <2> QED
    BY <2>3, <2>4
<1>3. mode = "sync" => SyncInv'
  BY <1>1 DEF OutcomeInv, SyncInv
<1>4. mode = "gym" => GymInv'
  BY <1>1 DEF OutcomeInv, GymInv, GymRecord
<1>5. mode = "eval" => \A i \in Batch : Outcome(mode, sample[i], hist[i], i)'
  BY <1>1 DEF OutcomeInv
<1> QED
  BY <1>1, <1>2, <1>3, <1>4, <1>5 DEF OutcomeInv

\* A queue that grows by a task of c, or loses one.
LEMMA QueueGrows ==
    ASSUME NEW r \in Seq(Tasks), NEW c \in Calls, NEW z \in TasksOf(c)
    PROVE  /\ ToSet(Append(r, z)) \subseteq ToSet(r) \cup TasksOf(c)
           /\ r # <<>> => /\ Tail(r) \in Seq(Tasks) /\ ToSet(Tail(r)) \subseteq ToSet(r)
                          /\ ToSet(Append(Tail(r), z)) \subseteq ToSet(r) \cup TasksOf(c)
<1>1. z \in Tasks
  BY TaskNames
<1>2. \A q \in Seq(Tasks) : ToSet(Append(q, z)) = ToSet(q) \cup {z}
  BY <1>1, AppendFacts
<1>3. r # <<>> => Tail(r) \in Seq(Tasks) /\ ToSet(Tail(r)) \subseteq ToSet(r)
  BY TailFacts
<1> QED
  BY <1>2, <1>3

\* One step of the tasks of a call, or of what is outside it, keeps Inv.
CallSteps(c) ==
    \/ RunConsumer(c) \/ RunTimer(c)
    \/ \E x \in {Sample(i) : i \in call[c].prompts} \cup {Error} : Emit(c, x)
    \/ EndStream(c)
    \/ Resolve(c)
    \/ Expire(c)

TouchesOnly(c) ==
    /\ \A d \in Calls \ {c} : call'[d] = call[d]
    /\ ToSet(ready') \subseteq ToSet(ready) \cup TasksOf(c)
    /\ call[c].caller # "off" \/ (call' = call /\ ToSet(ready') \subseteq ToSet(ready))

LEMMA CallKept ==
    ASSUME Inv, RolloutAssumption, NEW c \in Calls, CallSteps(c),
           UNCHANGED <<mode, rollout, texts, eval, gym>>
    PROVE  Inv'
<1> DEFINE k == call[c]
<1>1. /\ call \in [Calls -> CallRecord] /\ k \in CallRecord /\ CallOK(k, Asked)
      /\ ready \in Seq(Tasks)
  BY DEF Inv, LoopInv, CallInv, ReadyInv
<1>2. TouchesOnly(c)
  <2>1. ASSUME RunConsumer(c) PROVE TouchesOnly(c)
    <3>1. CASE k.caller = "off"
      <4>1. call' = call /\ ready' = Tail(ready) /\ ready # <<>>
        BY <2>1, <3>1 DEF RunConsumer
      <4> QED
        BY <1>1, <4>1, TailFacts DEF TouchesOnly
    <3>2. CASE k.caller # "off"
      <4>1. ready # <<>> /\ AfterPut(c, ConsumerResumes(k), Tail(ready))
        BY <2>1, <3>2 DEF RunConsumer
      <4>2. /\ \E j : call' = [call EXCEPT ![c] = j]
            /\ ready' \in {Tail(ready), Append(Tail(ready), Caller(c))}
        BY <4>1 DEF AfterPut
      <4>3. Caller(c) \in TasksOf(c)
        BY DEF TasksOf
      <4>4. ToSet(ready') \subseteq ToSet(ready) \cup TasksOf(c)
        BY <1>1, <4>1, <4>2, <4>3, QueueGrows
      <4> QED
        BY <1>1, <3>2, <4>2, <4>4 DEF TouchesOnly
    <3> QED
      BY <3>1, <3>2
  <2>2. ASSUME RunTimer(c) PROVE TouchesOnly(c)
    <3>1. /\ ready # <<>>
          /\ \/ call' = call /\ ready' = Tail(ready)
             \/ /\ k.caller # "off" /\ call' = [call EXCEPT ![c].caller = "cancelled"]
                /\ ready' \in {Tail(ready), Append(Tail(ready), Caller(c))}
      BY <2>2 DEF RunTimer
    <3>2. Caller(c) \in TasksOf(c)
      BY DEF TasksOf
    <3>3. /\ ToSet(Tail(ready)) \subseteq ToSet(ready)
          /\ ToSet(Append(Tail(ready), Caller(c))) \subseteq ToSet(ready) \cup TasksOf(c)
      BY <1>1, <3>1, <3>2, QueueGrows
    <3> QED
      BY <1>1, <3>1, <3>3 DEF TouchesOnly
  <2>3. ASSUME NEW q \in {ready, Append(ready, Consumer(c)), Append(ready, Timer(c))}
        PROVE  ToSet(q) \subseteq ToSet(ready) \cup TasksOf(c)
    <3>1. Consumer(c) \in TasksOf(c) /\ Timer(c) \in TasksOf(c)
      BY DEF TasksOf
    <3> QED
      BY <1>1, <2>3, <3>1, QueueGrows
  <2>4. ASSUME NEW x \in {Sample(i) : i \in call[c].prompts} \cup {Error}, Emit(c, x) PROVE TouchesOnly(c)
    <3>1. /\ k.caller # "off"
          /\ \E a, b : call' = [call EXCEPT ![c].prompts = a, ![c].stream = @ \o b]
          /\ ready' \in {ready, Append(ready, Consumer(c))}
      BY <2>4 DEF Emit, AfterYield
    <3> QED
      BY <1>1, <2>3, <3>1 DEF TouchesOnly
  <2>5. ASSUME EndStream(c) PROVE TouchesOnly(c)
    <3>1. /\ k.caller # "off" /\ call' = [call EXCEPT ![c].stream = Append(@, End)]
          /\ ready' \in {ready, Append(ready, Consumer(c))}
      BY <2>5 DEF EndStream, AfterYield
    <3> QED
      BY <1>1, <2>3, <3>1 DEF TouchesOnly
  <2>6. ASSUME Resolve(c) PROVE TouchesOnly(c)
    <3>1. k.consumer = "ref" /\ call' = call /\ ready' = Append(ready, Consumer(c))
      BY <2>6 DEF Resolve
    <3>2. k.caller # "off"
      BY <1>1, <3>1 DEF CallOK, NoCall
    <3> QED
      BY <1>1, <2>3, <3>1, <3>2 DEF TouchesOnly
  <2>7. ASSUME Expire(c) PROVE TouchesOnly(c)
    <3>1. k.caller # "off" /\ call' = call /\ ready' = Append(ready, Timer(c))
      BY <2>7 DEF Expire
    <3> QED
      BY <1>1, <2>3, <3>1 DEF TouchesOnly
  <2> QED
    BY <2>1, <2>2, <2>4, <2>5, <2>6, <2>7 DEF CallSteps
<1>3. OutcomeInv'
  <2>1. \A d \in Calls \ {c} : Caller(d) \notin TasksOf(c)
    <3>1. \A d \in Calls \ {c} : Caller(d) \in TasksOf(d) /\ TasksOf(d) \cap TasksOf(c) = {}
      BY TaskNames DEF TasksOf
    <3> QED
      BY <3>1
  <2>2. /\ OutcomeInv /\ UNCHANGED <<mode, rollout, gym>>
        /\ \A d \in Calls \ {c} : Caller(d) \in ToSet(ready') => Caller(d) \in ToSet(ready)
        /\ \/ call[c].caller # "off"
           \/ call' = call /\ (Caller(c) \in ToSet(ready') => Caller(c) \in ToSet(ready))
    BY <1>2, <2>1 DEF Inv, TouchesOnly
  <2> QED
    BY <1>2, <2>2, Bystanders DEF TouchesOnly
<1>4. LoopInv'
  <2>1. \A x \in {Sample(i) : i \in call[c].prompts} \cup {Error} :
           x \in Samples(call[c].prompts) \cup {Error}
    BY DEF Samples
  <2> QED
    BY <2>1, ConsumerRuns, TimerRuns, WorkerEmits, WorkerEnds, ValueComes, TimeRunsOut
       DEF Inv, CallSteps
<1> QED
  BY <1>3, <1>4 DEF Inv

-----------------------------------------------------------------------------
(* Calls that are made and left *)

LEMMA NewCallOK ==
    ASSUME NEW asked \in SUBSET Int
    PROVE  /\ CallOK(NewCall(asked), asked) /\ CallOK(NoCall, asked)
           /\ NewCall(asked).caller = "wait" /\ NewCall(asked).consumer = "next"
           /\ NewCall(asked).stream = <<>> /\ NoCall.caller = "off" /\ NoCall.stream = <<>>
<1> DEFINE k == NewCall(asked)
<1>1. NoCall \in CallRecord /\ NoCall.caller = "off" /\ NoCall.stream = <<>>
  BY DEF NoCall, CallRecord
<1>2. k = [NoCall EXCEPT !.prompts = asked, !.consumer = "next", !.caller = "wait"]
  BY DEF NewCall
<1> HIDE DEF k
<1>3. /\ k \in CallRecord /\ k.prompts = asked /\ k.stream = <<>> /\ k.queue = <<>> /\ k.got = <<>>
      /\ k.finished = FALSE /\ k.consumer = "next" /\ k.caller = "wait"
  <2>1. /\ NoCall.stream = <<>> /\ NoCall.queue = <<>> /\ NoCall.got = <<>>
        /\ NoCall.finished = FALSE
    BY DEF NoCall
  <2> QED
    BY <1>1, <1>2, <2>1 DEF CallRecord
<1>4. /\ \A S : <<>> \in Seq(S)
      /\ Len(<<>>) = 0 /\ 1..Len(<<>>) = {} /\ ToSet(<<>>) = {} /\ Once(<<>>)
  <2>1. Len(<<>>) = 0 /\ 1..Len(<<>>) = {} /\ \A S : <<>> \in Seq(S)
    OBVIOUS
  <2> QED
    BY <2>1, OneTwo, OnceShort
<1>5. StreamOK(k, asked)
  BY <1>3, <1>4 DEF StreamOK
<1>6. QueueOK(k, asked) /\ CarriedOnce(k, asked)
  BY <1>3, <1>4 DEF QueueOK, CarriedOnce
<1>7. CallOK(k, asked)
  BY <1>3, <1>5, <1>6 DEF CallOK
<1>8. CallOK(NoCall, asked)
  BY <1>1 DEF CallOK
<1> QED
  BY <1>1, <1>3, <1>7, <1>8 DEF k

\* A call is made, behind what is left of the queue.
LEMMA CallMade ==
    ASSUME LoopInv, NEW c \in Calls, NEW q \in Seq(Tasks), Once(q), OthersIn(q, ready, c),
           Consumer(c) \notin ToSet(q), Caller(c) \notin ToSet(q),
           Timer(c) \in ToSet(q) => c \in faults,
           call' = [call EXCEPT ![c] = NewCall(Asked)], ready' = Append(q, Consumer(c)),
           UNCHANGED <<faults, mode, eval, texts>>,
           \/ mode = "async" /\ c \in Batch
           \/ mode = "eval" /\ c = 1 /\ Asking
    PROVE  CallInv' /\ ReadyInv' /\ ModeInv'
<1> DEFINE k == NewCall(Asked)
<1>1. /\ CallOK(k, Asked) /\ k.caller = "wait" /\ k.consumer = "next" /\ k.stream = <<>>
  BY AskedFacts, NewCallOK DEF LoopInv
<1> HIDE DEF k
<1>2. Consumer(c) \in TasksOf(c)
  BY DEF TasksOf
<1>3. /\ ready' \in Seq(Tasks) /\ Once(ready') /\ OthersIn(ready', q, c)
      /\ ToSet(ready') = ToSet(q) \cup {Consumer(c)}
  BY <1>2, TaskAdded
<1>4. OthersIn(ready', ready, c)
  BY <1>3, OthersTwice
<1>5. Caller(c) \notin ToSet(ready') /\ (Timer(c) \in ToSet(ready') => c \in faults')
  BY <1>3, TaskNames
<1>6. ReadyOf(ready', k, c)
  BY <1>1, <1>5 DEF ReadyOf
<1>7. k.caller # "cancelled" /\ Error \notin ToSet(k.stream) /\ faults \subseteq Calls
  BY <1>1, OneTwo DEF LoopInv, CallInv
<1>8. call' = [call EXCEPT ![c] = k]
  BY DEF k
<1> QED
  BY <1>1, <1>3, <1>4, <1>5, <1>6, <1>7, <1>8, LoopStep

\* A call is left, and its caller goes off the loop.
LEMMA CallLeft ==
    ASSUME LoopInv, NEW c \in Calls, NEW q \in Seq(Tasks), Once(q), OthersIn(q, ready, c),
           Caller(c) \notin ToSet(q), Timer(c) \in ToSet(q) => c \in faults,
           call' = [call EXCEPT ![c] = NoCall], ready' = q,
           UNCHANGED <<faults, mode, eval>>, texts' = texts \/ (mode = "eval" /\ c = 1)
    PROVE  CallInv' /\ ReadyInv' /\ ModeInv'
<1> DEFINE k == NoCall
<1>1. CallOK(k, Asked) /\ k.caller = "off" /\ k.stream = <<>>
  BY AskedFacts, NewCallOK DEF LoopInv
<1> HIDE DEF k
<1>2. ReadyOf(ready', k, c)
  BY <1>1 DEF ReadyOf
<1>3. k.caller # "cancelled" /\ Error \notin ToSet(k.stream) /\ faults \subseteq Calls
  BY <1>1, OneTwo DEF LoopInv, CallInv
<1>4. call' = [call EXCEPT ![c] = k]
  BY DEF k
<1> QED
  BY <1>1, <1>2, <1>3, <1>4, LoopStep

\* The caller that runs, and the queue it leaves behind.
LEMMA CallerRuns ==
    ASSUME LoopInv, NEW c \in Calls, ready # <<>>, Head(ready) = Caller(c), call[c].caller # "off"
    PROVE  /\ LET q == WithoutTimer(c) IN
              /\ q \in Seq(Tasks) /\ Once(q) /\ OthersIn(q, ready, c)
              /\ ToSet(q) = ToSet(ready) \ {Caller(c), Timer(c)}
           /\ CallOK(call[c], Asked) /\ call[c].caller \in {"woken", "cancelled"}
           /\ Asked \in SUBSET Int
           /\ call[c].consumer = "done" => Consumer(c) \notin ToSet(ready)
           /\ (call[c].caller = "cancelled" \/ Error \in ToSet(call[c].stream)) => c \in faults
           /\ \/ mode = "async" /\ c \in Batch
              \/ mode = "eval" /\ c = 1 /\ Asking
<1>1. ready \in Seq(Tasks) /\ Once(ready) /\ ReadyOf(ready, call[c], c) /\ CallOK(call[c], Asked)
  BY DEF LoopInv, ReadyInv, CallInv
<1>2. Head(ready) \in ToSet(ready)
  BY <1>1, TailFacts
<1>3. call[c].caller \in {"woken", "cancelled"}
  BY <1>1, <1>2 DEF ReadyOf, CallOK, CallRecord
<1>4. call[c].consumer = "done" => Consumer(c) \notin ToSet(ready)
  BY <1>1 DEF ReadyOf
<1>5. Asked \in SUBSET Int
  BY AskedFacts DEF LoopInv
<1>6. (call[c].caller = "cancelled" \/ Error \in ToSet(call[c].stream)) => c \in faults
  BY DEF LoopInv, CallInv, FaultsOf
<1>7. (mode = "async" /\ c \in Batch) \/ (mode = "eval" /\ c = 1 /\ Asking)
  BY DEF LoopInv, ModeInv
<1> QED
  BY <1>1, <1>3, <1>4, <1>5, <1>6, <1>7, TimerLeaves

\* The caller has taken what there was and waits again.
LEMMA CallerWaits ==
    ASSUME LoopInv, NEW c \in Calls, ready # <<>>, Head(ready) = Caller(c), call[c].caller # "off",
           NEW k, k = CallerTakes(call[c]), k.caller = "wait",
           call' = [call EXCEPT ![c] = k], ready' = WithoutTimer(c),
           UNCHANGED <<faults, mode, texts, eval>>
    PROVE  CallInv' /\ ReadyInv' /\ ModeInv'
<1>1. /\ ready' \in Seq(Tasks) /\ Once(ready') /\ OthersIn(ready', ready, c)
      /\ ToSet(ready') = ToSet(ready) \ {Caller(c), Timer(c)}
      /\ CallOK(call[c], Asked) /\ call[c].caller \in {"woken", "cancelled"}
      /\ Asked \in SUBSET Int
      /\ call[c].consumer = "done" => Consumer(c) \notin ToSet(ready)
      /\ (call[c].caller = "cancelled" \/ Error \in ToSet(call[c].stream)) => c \in faults
      /\ (mode = "async" /\ c \in Batch) \/ (mode = "eval" /\ c = 1 /\ Asking)
  BY CallerRuns
<1>2. /\ CallOK(k, Asked) /\ k.stream = call[c].stream /\ k.consumer = call[c].consumer
  BY <1>1, CallerStep
<1>3. Caller(c) \notin ToSet(ready') /\ Timer(c) \notin ToSet(ready')
  BY <1>1
<1>4. ReadyOf(ready', k, c)
  BY <1>1, <1>2, <1>3 DEF ReadyOf
<1>5. (k.caller = "cancelled" \/ Error \in ToSet(k.stream)) => c \in faults'
  BY <1>1, <1>2
<1>6. faults \subseteq Calls
  BY DEF LoopInv, CallInv
<1> QED
  BY <1>1, <1>2, <1>3, <1>4, <1>5, <1>6, LoopStep

-----------------------------------------------------------------------------
(* The asynchronous rollout *)

\* A sample's own step: r and m are what becomes of it and of its turns.
LEMMA SampleMoves ==
    ASSUME RolloutAssumption, OutcomeInv, mode = "async", NEW i \in Batch,
           NEW r \in SampleRecord, NEW m \in Seq(TurnRecord),
           sample' = [sample EXCEPT ![i] = r], hist' = [hist EXCEPT ![i] = m],
           Outcome(mode, r, m, i), GoesOn(mode, r, m), ~r.over => Len(m) < MaxTurns,
           r.over => call'[i].caller = "off" /\ Caller(i) \notin ToSet(ready'),
           \A d \in Calls \ {i} : call'[d] = call[d],
           OthersIn(ready', ready, i), UNCHANGED mode
    PROVE  OutcomeInv'
<1>1. /\ Batch' = Batch /\ mode' = "async"
      /\ sample \in [Batch -> SampleRecord] /\ hist \in [Batch -> Seq(TurnRecord)]
      /\ AsyncInv
  BY DEF Batch, OutcomeInv
<1>2. sample' \in [Batch -> SampleRecord] /\ hist' \in [Batch -> Seq(TurnRecord)]
  BY <1>1
<1>3. ASSUME NEW j \in Batch
      PROVE  /\ Outcome(mode, sample[j], hist[j], j)' /\ GoesOn(mode, sample[j], hist[j])'
             /\ ~sample'[j].over => Len(hist'[j]) < MaxTurns
             /\ sample'[j].over => call'[j].caller = "off" /\ Caller(j) \notin ToSet(ready')
  <2>1. CASE j = i
    <3>1. sample'[j] = r /\ hist'[j] = m
      BY <1>1, <2>1
    <3> QED
      BY <1>1, <2>1, <3>1
  <2>2. CASE j # i
    <3>1. sample'[j] = sample[j] /\ hist'[j] = hist[j] /\ j \in Calls \ {i}
      BY <1>1, <2>2 DEF RolloutAssumption, Batch
    <3>2. call'[j] = call[j] /\ (Caller(j) \in ToSet(ready') => Caller(j) \in ToSet(ready))
      BY <3>1 DEF OthersIn, TasksOf
    <3>3. /\ Outcome(mode, sample[j], hist[j], j) /\ GoesOn(mode, sample[j], hist[j])
          /\ ~sample[j].over => Len(hist[j]) < MaxTurns
          /\ sample[j].over => call[j].caller = "off" /\ Caller(j) \notin ToSet(ready)
      BY <1>1 DEF AsyncInv
    <3> QED
      BY <1>1, <3>1, <3>2, <3>3
  <2> QED
    BY <2>1, <2>2
<1>4. AsyncInv'
  BY <1>1, <1>3 DEF AsyncInv
<1> QED
  BY <1>1, <1>2, <1>4 DEF OutcomeInv

LEMMA SampleStarts ==
    ASSUME RolloutAssumption, Inv, NEW i \in Calls, RunSample(i)
    PROVE  Inv'
<1> DEFINE q == Tail(ready)
<1>1. /\ mode = "async" /\ ready # <<>> /\ Head(ready) = Caller(i) /\ call[i].caller = "off"
      /\ call' = [call EXCEPT ![i] = NewCall({1})] /\ ready' = Append(q, Consumer(i))
      /\ UNCHANGED <<faults, mode, rollout, texts, eval, gym>>
      /\ UNCHANGED <<sample, hist, active, turn>>
      /\ LoopInv /\ OutcomeInv /\ Asked = {1}
  BY DEF RunSample, Ask, rollout, Inv, Asked
<1>2. /\ ready \in Seq(Tasks) /\ Once(ready) /\ ReadyOf(ready, call[i], i)
      /\ Caller(i) \in ToSet(ready) /\ i \in Batch
      /\ call \in [Calls -> CallRecord] /\ (Timer(i) \in ToSet(ready) => i \in faults)
  <2>1. ready \in Seq(Tasks) /\ Once(ready) /\ ReadyOf(ready, call[i], i)
        /\ call \in [Calls -> CallRecord] /\ (Timer(i) \in ToSet(ready) => i \in faults)
    BY <1>1 DEF LoopInv, ReadyInv, CallInv
  <2>2. Caller(i) \in ToSet(ready)
    BY <1>1, <2>1, TailFacts
  <2> QED
    BY <1>1, <2>1, <2>2 DEF LoopInv, ModeInv
<1>3. /\ q \in Seq(Tasks) /\ Once(q) /\ OthersIn(q, ready, i)
      /\ ToSet(q) = ToSet(ready) \ {Caller(i)}
  <2>1. Head(ready) \in TasksOf(i)
    BY <1>1 DEF TasksOf
  <2> QED
    BY <1>1, <1>2, <2>1, HeadLeaves
<1> HIDE DEF q
<1>4. /\ Consumer(i) \notin ToSet(q) /\ Caller(i) \notin ToSet(q)
      /\ (Timer(i) \in ToSet(q) => i \in faults)
  BY <1>1, <1>2, <1>3 DEF ReadyOf
<1>5. CallInv' /\ ReadyInv' /\ ModeInv'
  BY <1>1, <1>2, <1>3, <1>4, CallMade
<1>6. LoopInv'
  BY <1>1, <1>5, RestStays DEF LoopInv
<1>7. OthersIn(ready', ready, i)
  <2>1. Consumer(i) \in TasksOf(i)
    BY DEF TasksOf
  <2>2. OthersIn(ready', q, i)
    BY <1>1, <1>3, <1>4, <2>1, TaskAdded
  <2> QED
    BY <1>3, <2>2, OthersTwice
<1>8. OutcomeInv'
  <2> DEFINE r == sample[i]
             m == hist[i]
  <2>1. /\ r \in SampleRecord /\ m \in Seq(TurnRecord)
        /\ sample' = [sample EXCEPT ![i] = r] /\ hist' = [hist EXCEPT ![i] = m]
        /\ Outcome(mode, r, m, i) /\ GoesOn(mode, r, m) /\ (~r.over => Len(m) < MaxTurns)
        /\ ~r.over
    BY <1>1, <1>2 DEF OutcomeInv, AsyncInv
  <2>2. \A d \in Calls \ {i} : call'[d] = call[d]
    BY <1>1, <1>2
  <2> HIDE DEF r, m
  <2> QED
    BY <1>1, <1>2, <1>7, <2>1, <2>2, SampleMoves
<1> QED
  BY <1>6, <1>8 DEF Inv

\* The sample of a caller that runs is not over.
LEMMA StillOn ==
    ASSUME RolloutAssumption, Inv, mode = "async", NEW i \in Calls, call[i].caller # "off"
    PROVE  /\ i \in Batch /\ i \in Nat /\ ~sample[i].over /\ Asked = {1}
           /\ sample[i] \in SampleRecord /\ hist[i] \in Seq(TurnRecord) /\ Len(hist[i]) < MaxTurns
           /\ sample \in [Batch -> SampleRecord] /\ hist \in [Batch -> Seq(TurnRecord)]
           /\ Outcome(mode, sample[i], hist[i], i) /\ GoesOn(mode, sample[i], hist[i])
           /\ call \in [Calls -> CallRecord]
<1>1. i \in Batch /\ i \in Nat /\ Asked = {1} /\ call \in [Calls -> CallRecord]
  BY DEF Inv, LoopInv, ModeInv, CallInv, Asked, Batch
<1>2. AsyncInv /\ sample \in [Batch -> SampleRecord] /\ hist \in [Batch -> Seq(TurnRecord)]
  BY DEF Inv, OutcomeInv
<1> QED
  BY <1>1, <1>2 DEF AsyncInv

LEMMA TurnFollows ==
    ASSUME RolloutAssumption, Inv, mode = "async", NEW i \in Calls,
           ready # <<>>, Head(ready) = Caller(i), call[i].caller # "off",
           CallerTakes(call[i]).caller = "returned", NextTurn(i),
           UNCHANGED <<faults, mode, active, turn, texts, eval, gym>>
    PROVE  Inv'
<1> DEFINE s == sample[i]
           h == hist[i]
           q == WithoutTimer(i)
<1>1. /\ i \in Batch /\ i \in Nat /\ ~s.over /\ Asked = {1}
      /\ s \in SampleRecord /\ h \in Seq(TurnRecord) /\ Len(h) < MaxTurns
      /\ sample \in [Batch -> SampleRecord] /\ hist \in [Batch -> Seq(TurnRecord)]
      /\ Outcome(mode, s, h, i) /\ GoesOn(mode, s, h) /\ call \in [Calls -> CallRecord]
  BY StillOn
<1>2. /\ q \in Seq(Tasks) /\ Once(q) /\ OthersIn(q, ready, i)
      /\ ToSet(q) = ToSet(ready) \ {Caller(i), Timer(i)}
      /\ CallOK(call[i], Asked) /\ call[i].caller \in {"woken", "cancelled"}
      /\ Asked \in SUBSET Int
      /\ call[i].consumer = "done" => Consumer(i) \notin ToSet(ready)
  BY CallerRuns DEF Inv
<1>3. Consumer(i) \notin ToSet(ready)
  BY <1>2, CallerStep
<1>4. Consumer(i) \notin ToSet(q) /\ Caller(i) \notin ToSet(q) /\ Timer(i) \notin ToSet(q)
  BY <1>2, <1>3
<1>5. PICK g \in Generated, a \in Answers :
        LET f == CalculateRewards(<<i>>, Len(h) + 1, <<a>>)[1]
            v == Response(s, g)
            x == Extended(s, v, f)
            done == x.truncated \/ f.term
        IN /\ hist' = [hist EXCEPT ![i] = Append(@, Turn(s, v, f))]
           /\ sample' = [sample EXCEPT ![i] =
                [x EXCEPT !.stops = IF done THEN @ ELSE AsyncStops(s, f),
                          !.over = done \/ Len(h) + 1 = MaxTurns]]
           /\ IF sample'[i].over THEN Leave(i, q) ELSE Ask(i, q)
  BY DEF NextTurn
<1> DEFINE f == Feedback(i, Len(h) + 1, a)
           v == Response(s, g)
           x == Extended(s, v, f)
           u == Turn(s, v, f)
           m == Append(h, u)
           done == x.truncated \/ f.term
           r == [x EXCEPT !.stops = IF done THEN @ ELSE AsyncStops(s, f),
                          !.over = done \/ Len(h) + 1 = MaxTurns]
<1>6. CalculateRewards(<<i>>, Len(h) + 1, <<a>>)[1] = f
  <2> DEFINE batch == <<i>>
             answers == <<a>>
             t == Len(h) + 1
  <2>1. batch \in Seq(Int) /\ batch # <<>> /\ 1 \in 1..Len(batch) /\ batch[1] = i /\ answers[1] = a
    BY <1>1
  <2> HIDE DEF batch, answers, t
  <2>2. CalculateRewards(batch, t, answers)[1] = Feedback(batch[1], t, answers[1])
    BY <2>1, OwnFeedback
  <2>3. CalculateRewards(batch, t, answers)[1] = Feedback(i, t, a)
    BY <2>1, <2>2
  <2> QED
    BY <2>3 DEF batch, answers, t
<1>7. /\ hist' = [hist EXCEPT ![i] = m] /\ sample' = [sample EXCEPT ![i] = r]
      /\ IF sample'[i].over THEN Leave(i, q) ELSE Ask(i, q)
  BY <1>5, <1>6
<1>8. TurnMade(mode, s, h, i, f, x, u)
  <2> HIDE DEF s, h
  <2>1. TurnMade(mode, s, h, i, Feedback(i, Len(h) + 1, a),
                 Extended(s, Response(s, g), Feedback(i, Len(h) + 1, a)),
                 Turn(s, Response(s, g), Feedback(i, Len(h) + 1, a)))
    BY <1>1, TurnTaken
  <2> QED
    BY <2>1
<1> HIDE DEF s, h, f, v, x, u, q
<1>9. /\ x \in SampleRecord /\ x.failed = s.failed /\ x.over = FALSE /\ x.stops = s.stops
      /\ f.stops \in Seq(Nat) /\ f.term \in BOOLEAN
      /\ u \in TurnRecord /\ u.stops = f.stops /\ u.used = s.stops /\ u.term = f.term
      /\ m \in Seq(TurnRecord) /\ Len(m) = Len(h) + 1 /\ Last(m) = u
      /\ \A w \in SampleRecord :
           /\ w.len = x.len /\ w.rewards = x.rewards /\ w.truncated = x.truncated
           /\ w.over => w.failed \/ Len(h) + 1 = MaxTurns \/ w.truncated \/ f.term
           => Outcome(mode, w, m, i)
  BY <1>8 DEF TurnMade
<1> DEFINE stops == IF done THEN x.stops ELSE AsyncStops(s, f)
           over == done \/ Len(h) + 1 = MaxTurns
<1>10. stops \in Seq(Nat) /\ over \in BOOLEAN /\ done \in BOOLEAN
  <2>1. s.stops \in Seq(Nat) /\ x.truncated \in BOOLEAN
    BY <1>1, <1>9 DEF SampleRecord
  <2> QED
    BY <1>9, <2>1 DEF AsyncStops
<1>11. r = [x EXCEPT !.stops = stops, !.over = over]
  OBVIOUS
<1>12. /\ ~done => stops = AsyncStops(s, f)
       /\ over <=> done \/ Len(h) + 1 = MaxTurns
       /\ done <=> x.truncated \/ f.term
  OBVIOUS
<1> HIDE DEF r, m, stops, over, done
<1>13. /\ r \in SampleRecord /\ r.len = x.len /\ r.rewards = x.rewards /\ r.truncated = x.truncated
       /\ r.failed = s.failed /\ r.stops = stops /\ r.over = over
  BY <1>9, <1>10, <1>11 DEF SampleRecord
<1>14. Outcome(mode, r, m, i)
  BY <1>9, <1>12, <1>13
<1>15. GoesOn(mode, r, m) /\ (~r.over => Len(m) < MaxTurns)
  <2>1. NextStops(mode, u) = AsyncStops(s, f)
    BY <1>9 DEF NextStops, AsyncStops
  <2>2. Len(h) \in Nat /\ MaxTurns \in Nat
    BY <1>1 DEF RolloutAssumption
  <2> QED
    BY <1>1, <1>9, <1>12, <1>13, <2>1, <2>2 DEF GoesOn
<1>16. /\ IF r.over THEN Leave(i, q) ELSE Ask(i, q)
       /\ sample'[i] = r
  BY <1>1, <1>7
<1>17. /\ CallInv' /\ ReadyInv' /\ ModeInv' /\ OthersIn(ready', ready, i)
       /\ r.over => call'[i].caller = "off" /\ Caller(i) \notin ToSet(ready')
       /\ \A d \in Calls \ {i} : call'[d] = call[d]
  <2>1. CASE r.over
    <3>1. call' = [call EXCEPT ![i] = NoCall] /\ ready' = q
      BY <1>16, <2>1 DEF Leave
    <3>2. CallInv' /\ ReadyInv' /\ ModeInv'
      BY <1>2, <1>4, <3>1, CallLeft DEF Inv
    <3> QED
      BY <1>1, <1>2, <1>4, <3>1, <3>2 DEF NoCall
  <2>2. CASE ~r.over
    <3>1. call' = [call EXCEPT ![i] = NewCall(Asked)] /\ ready' = Append(q, Consumer(i))
      BY <1>1, <1>16, <2>2 DEF Ask
    <3>2. CallInv' /\ ReadyInv' /\ ModeInv'
      BY <1>1, <1>2, <1>4, <3>1, CallMade DEF Inv
    <3>3. Consumer(i) \in TasksOf(i)
      BY DEF TasksOf
    <3>4. OthersIn(ready', q, i)
      BY <1>2, <1>4, <3>1, <3>3, TaskAdded
    <3>5. OthersIn(ready', ready, i)
      BY <1>2, <3>4, OthersTwice
    <3> QED
      BY <1>1, <2>2, <3>1, <3>2, <3>5
  <2> QED
    BY <2>1, <2>2
<1>18. OutcomeInv'
  BY <1>1, <1>7, <1>9, <1>13, <1>14, <1>15, <1>17, SampleMoves DEF Inv
<1>19. TextsInv'
  BY RestStays DEF Inv
<1>20. FailedInv'
  BY <1>1, <1>7, <1>13 DEF FailedInv, Inv, LoopInv, Batch, s
<1> QED
  BY <1>17, <1>18, <1>19, <1>20 DEF Inv, LoopInv

LEMMA GenerationRaises ==
    ASSUME RolloutAssumption, Inv, mode = "async", NEW i \in Calls,
           ready # <<>>, Head(ready) = Caller(i), call[i].caller # "off",
           CallerTakes(call[i]).caller = "raised", GenerationFails(i),
           UNCHANGED <<faults, mode, active, turn, texts, eval, gym>>
    PROVE  Inv'
<1> DEFINE s == sample[i]
           h == hist[i]
           q == WithoutTimer(i)
           r == [s EXCEPT !.failed = TRUE, !.over = TRUE]
<1>1. /\ i \in Batch /\ i \in Nat /\ ~s.over /\ Asked = {1}
      /\ s \in SampleRecord /\ h \in Seq(TurnRecord) /\ Len(h) < MaxTurns
      /\ sample \in [Batch -> SampleRecord] /\ hist \in [Batch -> Seq(TurnRecord)]
      /\ Outcome(mode, s, h, i) /\ GoesOn(mode, s, h) /\ call \in [Calls -> CallRecord]
  BY StillOn
<1>2. /\ q \in Seq(Tasks) /\ Once(q) /\ OthersIn(q, ready, i)
      /\ ToSet(q) = ToSet(ready) \ {Caller(i), Timer(i)}
      /\ CallOK(call[i], Asked) /\ call[i].caller \in {"woken", "cancelled"}
      /\ Asked \in SUBSET Int
      /\ (call[i].caller = "cancelled" \/ Error \in ToSet(call[i].stream)) => i \in faults
  BY CallerRuns DEF Inv
<1>3. i \in faults
  BY <1>2, CallerStep
<1>4. /\ sample' = [sample EXCEPT ![i] = r] /\ hist' = [hist EXCEPT ![i] = h]
      /\ call' = [call EXCEPT ![i] = NoCall] /\ ready' = q
  BY <1>1 DEF GenerationFails, Leave
<1> HIDE DEF s, h, q
<1>5. /\ r \in SampleRecord /\ r.len = s.len /\ r.rewards = s.rewards
      /\ r.truncated = s.truncated /\ r.failed = TRUE /\ r.over = TRUE
  BY <1>1 DEF SampleRecord
<1> HIDE DEF r
<1>6. Outcome(mode, r, h, i) /\ GoesOn(mode, r, h)
  BY <1>1, <1>5 DEF Outcome, GoesOn
<1>7. Caller(i) \notin ToSet(q) /\ Timer(i) \notin ToSet(q)
  BY <1>2
<1>8. CallInv' /\ ReadyInv' /\ ModeInv'
  BY <1>2, <1>4, <1>7, CallLeft DEF Inv
<1>9. /\ OthersIn(ready', ready, i)
      /\ call'[i].caller = "off" /\ Caller(i) \notin ToSet(ready')
      /\ \A d \in Calls \ {i} : call'[d] = call[d]
  BY <1>1, <1>2, <1>4, <1>7 DEF NoCall
<1>10. OutcomeInv'
  BY <1>1, <1>4, <1>5, <1>6, <1>9, SampleMoves DEF Inv
<1>11. TextsInv'
  BY RestStays DEF Inv
<1>12. FailedInv'
  BY <1>1, <1>3, <1>4 DEF FailedInv, Inv, LoopInv, Batch
<1> QED
  BY <1>8, <1>10, <1>11, <1>12 DEF Inv, LoopInv

LEMMA SampleResumes ==
    ASSUME RolloutAssumption, Inv, NEW i \in Calls, RunCaller(i)
    PROVE  Inv'
<1> DEFINE k == CallerTakes(call[i])
<1>1. /\ mode = "async" /\ ready # <<>> /\ Head(ready) = Caller(i) /\ call[i].caller # "off"
      /\ UNCHANGED <<faults, mode, active, turn, texts, eval, gym>>
      /\ CASE k.caller = "wait" -> /\ call' = [call EXCEPT ![i] = k]
                                   /\ ready' = WithoutTimer(i)
                                   /\ UNCHANGED <<sample, hist>>
           [] k.caller = "returned" /\ k.got # <<>> -> NextTurn(i)
           [] OTHER -> GenerationFails(i)
  BY DEF RunCaller
<1>2. /\ WithoutTimer(i) \in Seq(Tasks) /\ OthersIn(WithoutTimer(i), ready, i)
      /\ CallOK(call[i], Asked) /\ call[i].caller \in {"woken", "cancelled"}
      /\ Asked \in SUBSET Int
  BY <1>1, CallerRuns DEF Inv
<1> HIDE DEF k
<1>3. /\ k.caller \in {"wait", "returned", "raised"}
      /\ k.caller = "returned" => ToSet(k.got) = Samples(Asked)
  BY <1>2, CallerStep DEF k
<1>4. CASE k.caller = "wait"
  <2>1. /\ call' = [call EXCEPT ![i] = k] /\ ready' = WithoutTimer(i) /\ UNCHANGED <<sample, hist>>
    BY <1>1, <1>4
  <2>2. CallInv' /\ ReadyInv' /\ ModeInv'
    BY <1>1, <1>4, <2>1, CallerWaits DEF Inv, k
  <2>3. TextsInv' /\ FailedInv'
    BY <1>1, <2>1, RestStays DEF Inv
  <2>4. call \in [Calls -> CallRecord]
    BY DEF Inv, LoopInv, CallInv
  <2>5. /\ \A d \in Calls \ {i} : call'[d] = call[d]
        /\ \A d \in Calls \ {i} : Caller(d) \in ToSet(ready') => Caller(d) \in ToSet(ready)
    BY <1>2, <2>1, <2>4 DEF OthersIn, TasksOf
  <2>6. OutcomeInv'
    BY <1>1, <2>1, <2>5, Bystanders DEF Inv, rollout
  <2> QED
    BY <2>2, <2>3, <2>6 DEF Inv, LoopInv
<1>5. CASE k.caller = "returned"
  <2>1. k.got # <<>>
    <3>1. Asked = {1}
      BY <1>1 DEF Asked
    <3>2. Sample(1) \in ToSet(k.got)
      BY <1>3, <1>5, <3>1 DEF Samples
    <3> QED
      BY <3>2, OneTwo
  <2>2. NextTurn(i)
    BY <1>1, <1>5, <2>1
  <2> QED
    BY <1>1, <1>5, <2>2, TurnFollows DEF k
<1>6. CASE k.caller = "raised"
  <2>1. GenerationFails(i)
    BY <1>1, <1>6
  <2> QED
    BY <1>1, <1>6, <2>1, GenerationRaises DEF k
<1> QED
  BY <1>3, <1>4, <1>5, <1>6

-----------------------------------------------------------------------------
(* The evaluation *)

\* An evaluation of the synchronous engine has no call of the loop.
Quiet == mode = "eval" /\ ~eval.async => \A c \in Calls : call[c].caller = "off"

LEMMA RangeOfTexts ==
    ASSUME NEW a \in Int, NEW b \in Int, NEW t \in Nat
    PROVE  1..(Min({a, b}) * t) \in SUBSET Int
<1>1. Min({a, b}) \in {a, b}
  <2>1. \E x \in {a, b} : \A y \in {a, b} : x <= y
    OBVIOUS
  <2> QED
    BY <2>1 DEF Min
<1>2. Min({a, b}) * t \in Int
  BY <1>1
<1> QED
  BY <1>2

LEMMA SamplesRest ==
    ASSUME OutcomeInv, mode = "eval", UNCHANGED <<mode, rollout>>
    PROVE  OutcomeInv'
<1>1. /\ Batch' = Batch /\ mode' = "eval" /\ UNCHANGED <<sample, hist>>
      /\ sample \in [Batch -> SampleRecord] /\ hist \in [Batch -> Seq(TurnRecord)]
  BY DEF Batch, OutcomeInv, rollout
<1> QED
  BY <1>1 DEF OutcomeInv

LEMMA TextsAsked ==
    ASSUME RolloutAssumption, Inv, AskTexts
    PROVE  Inv'
<1> DEFINE q == Tail(ready)
<1>1. /\ mode = "eval" /\ Asking /\ ready # <<>> /\ Head(ready) = Caller(1) /\ call[1].caller = "off"
      /\ Asked = Texts
      /\ call' = [call EXCEPT ![1] = NewCall(Asked)] /\ ready' = Append(q, Consumer(1))
      /\ UNCHANGED <<faults, mode, rollout, texts, eval, gym>> /\ UNCHANGED sample
      /\ LoopInv /\ OutcomeInv /\ 1 \in Calls
  BY DEF AskTexts, Asking, rollout, Inv, Asked, RolloutAssumption
<1>2. /\ ready \in Seq(Tasks) /\ Once(ready) /\ ReadyOf(ready, call[1], 1)
      /\ Caller(1) \in ToSet(ready) /\ (Timer(1) \in ToSet(ready) => 1 \in faults)
  <2>1. ready \in Seq(Tasks) /\ Once(ready) /\ ReadyOf(ready, call[1], 1)
        /\ (Timer(1) \in ToSet(ready) => 1 \in faults)
    BY <1>1 DEF LoopInv, ReadyInv
  <2>2. Caller(1) \in ToSet(ready)
    BY <1>1, <2>1, TailFacts
  <2> QED
    BY <2>1, <2>2
<1>3. /\ q \in Seq(Tasks) /\ Once(q) /\ OthersIn(q, ready, 1)
      /\ ToSet(q) = ToSet(ready) \ {Caller(1)}
  <2>1. Head(ready) \in TasksOf(1)
    BY <1>1 DEF TasksOf
  <2> QED
    BY <1>1, <1>2, <2>1, HeadLeaves
<1> HIDE DEF q
<1>4. /\ Consumer(1) \notin ToSet(q) /\ Caller(1) \notin ToSet(q)
      /\ (Timer(1) \in ToSet(q) => 1 \in faults)
  BY <1>1, <1>2, <1>3 DEF ReadyOf
<1>5. CallInv' /\ ReadyInv' /\ ModeInv'
  BY <1>1, <1>3, <1>4, CallMade
<1>6. LoopInv'
  BY <1>1, <1>5, RestStays DEF LoopInv
<1> QED
  BY <1>1, <1>6, SamplesRest DEF Inv

LEMMA TextsTaken ==
    ASSUME RolloutAssumption, Inv, TakeTexts
    PROVE  Inv'
<1> DEFINE k == CallerTakes(call[1])
           q == WithoutTimer(1)
<1>1. /\ mode = "eval" /\ ready # <<>> /\ Head(ready) = Caller(1) /\ call[1].caller # "off"
      /\ IF k.caller = "wait"
         THEN call' = [call EXCEPT ![1] = k] /\ ready' = q /\ UNCHANGED texts
         ELSE /\ Leave(1, q)
              /\ texts' = IF k.caller = "raised" THEN <<"raised">> ELSE <<"ok", InOrder(k)>>
      /\ UNCHANGED <<faults, mode, rollout, eval, gym>> /\ UNCHANGED sample
      /\ LoopInv /\ OutcomeInv /\ 1 \in Calls
  BY DEF TakeTexts, rollout, Inv, RolloutAssumption
<1>2. /\ q \in Seq(Tasks) /\ Once(q) /\ OthersIn(q, ready, 1)
      /\ ToSet(q) = ToSet(ready) \ {Caller(1), Timer(1)}
      /\ CallOK(call[1], Asked) /\ call[1].caller \in {"woken", "cancelled"}
      /\ Asked \in SUBSET Int /\ Asking
      /\ (call[1].caller = "cancelled" \/ Error \in ToSet(call[1].stream)) => 1 \in faults
  BY <1>1, CallerRuns
<1> HIDE DEF k, q
<1>3. /\ k.caller \in {"wait", "returned", "raised"}
      /\ k.caller = "raised" => 1 \in faults
      /\ k.caller = "returned" => /\ k.got \in Seq(Samples(Asked)) /\ Once(k.got)
                                  /\ ToSet(k.got) = Samples(Asked)
  BY <1>2, CallerStep DEF k
<1>4. OutcomeInv'
  BY <1>1, SamplesRest
<1>5. FailedInv'
  BY <1>1, RestStays
<1>6. CASE k.caller = "wait"
  <2>1. call' = [call EXCEPT ![1] = k] /\ ready' = WithoutTimer(1) /\ UNCHANGED texts
    BY <1>1, <1>6 DEF q
  <2>2. CallInv' /\ ReadyInv' /\ ModeInv'
    BY <1>1, <1>6, <2>1, CallerWaits DEF k
  <2>3. TextsInv'
    BY <1>1, <2>1, RestStays
  <2> QED
    BY <1>4, <1>5, <2>2, <2>3 DEF Inv, LoopInv
<1>7. CASE k.caller # "wait"
  <2>1. /\ call' = [call EXCEPT ![1] = NoCall] /\ ready' = q
        /\ texts' = IF k.caller = "raised" THEN <<"raised">> ELSE <<"ok", InOrder(k)>>
    BY <1>1, <1>7 DEF Leave
  <2>2. Caller(1) \notin ToSet(q) /\ Timer(1) \notin ToSet(q)
    BY <1>2
  <2>3. CallInv' /\ ReadyInv' /\ ModeInv'
    BY <1>1, <1>2, <2>1, <2>2, CallLeft
  <2>4. TextsInv'
    <3>1. CASE k.caller = "raised"
      BY <1>1, <1>3, <2>1, <3>1 DEF TextsInv
    <3>2. CASE k.caller = "returned"
      <4>1. eval.done < eval.prompts /\ Asked = Texts
        BY <1>1, <1>2 DEF Asking, Asked
      <4>2. PICK n \in Nat : Texts = 1..n
        BY <1>1, <4>1, AskedFacts DEF LoopInv
      <4>3. k.got \in Seq(Samples(1..n)) /\ Once(k.got) /\ ToSet(k.got) = Samples(1..n)
        BY <1>3, <3>2, <4>1, <4>2
      <4>4. InOrder(k) = [i \in 1..n |-> Sample(i)]
        BY <4>3, Sorted
      <4>5. texts' = <<"ok", [i \in Texts |-> Sample(i)]>>
        BY <2>1, <3>2, <4>2, <4>4
      <4>6. Texts' = Texts /\ mode' = "eval" /\ eval'.done < eval'.prompts
        BY <1>1, <4>1 DEF Texts
      <4> QED
        BY <4>5, <4>6 DEF TextsInv
    <3> QED
      BY <1>3, <1>7, <3>1, <3>2
  <2> QED
    BY <1>4, <1>5, <2>3, <2>4 DEF Inv, LoopInv
<1> QED
  BY <1>6, <1>7

\* Without a call, what an evaluation gets may change.
LEMMA NoCallsRest ==
    ASSUME LoopInv, mode = "eval", \A c \in Calls : call[c].caller = "off",
           UNCHANGED <<call, faults, mode>>, eval' \in EvalRecord', Asked' \in SUBSET Int,
           ready' \in {ready, <<Caller(1)>>, <<>>}, 1 \in Calls
    PROVE  CallInv' /\ ReadyInv' /\ ModeInv'
<1>1. /\ call \in [Calls -> CallRecord] /\ faults \subseteq Calls
      /\ \A c \in Calls : call[c] = NoCall
  BY DEF LoopInv, CallInv, CallOK
<1>2. CallInv'
  <2>1. ASSUME NEW c \in Calls
        PROVE  CallOK(call'[c], Asked') /\ FaultsOf(call[c], c)'
    <3>1. call'[c] = NoCall
      BY <1>1
    <3>2. CallOK(NoCall, Asked') /\ NoCall.caller = "off" /\ NoCall.stream = <<>>
      BY NewCallOK
    <3>3. FaultsOf(NoCall, c)'
      BY <3>2, OneTwo DEF FaultsOf, NoCall
    <3> QED
      BY <3>1, <3>2, <3>3 DEF FaultsOf
  <2> QED
    BY <1>1, <2>1 DEF CallInv
<1>3. ReadyInv'
  <2>1. CASE ready' = ready
    BY <2>1 DEF LoopInv, ReadyInv
  <2>2. CASE ready' \in {<<Caller(1)>>, <<>>}
    <3>1. Caller(1) \in Tasks
      BY TaskNames DEF TasksOf
    <3>2. ready' \in Seq(Tasks)
      <4>1. \A x \in Tasks : <<x>> \in Seq(Tasks) /\ <<>> \in Seq(Tasks)
        OBVIOUS
      <4> QED
        BY <2>2, <3>1, <4>1, Zenon
    <3>3. Once(ready') /\ ToSet(ready') \subseteq {Caller(1)}
      <4>1. Once(<<>>) /\ Once(<<Caller(1)>>)
        BY OnceShort
      <4>2. ToSet(<<>>) = {} /\ ToSet(<<Caller(1)>>) = {Caller(1)}
        BY OneTwo
      <4> QED
        BY <2>2, <4>1, <4>2
    <3>4. \A c : Consumer(c) \notin ToSet(ready') /\ Timer(c) \notin ToSet(ready')
      BY <3>3, TaskNames
    <3>5. \A c \in Calls : ReadyOf(ready', call'[c], c)
      BY <3>4 DEF ReadyOf
    <3> QED
      BY <3>2, <3>3, <3>4, <3>5 DEF ReadyInv
  <2> QED
    BY <2>1, <2>2
<1>4. ModeInv'
  BY <1>1 DEF ModeInv
<1> QED
  BY <1>2, <1>3, <1>4

LEMMA TextsGenerated ==
    ASSUME RolloutAssumption, Inv, Quiet, GenerateTexts
    PROVE  Inv'
<1>1. /\ mode = "eval" /\ Asking /\ ~eval.async
      /\ texts' = <<"ok", [i \in Texts |-> Sample(i)]>>
      /\ UNCHANGED <<ready, call, faults, mode, rollout, eval, gym>> /\ UNCHANGED sample
      /\ LoopInv /\ OutcomeInv /\ 1 \in Calls /\ \A c \in Calls : call[c].caller = "off"
  BY DEF GenerateTexts, Asking, rollout, Inv, Quiet, RolloutAssumption
<1>2. Asked' = Asked /\ Texts' = Texts /\ Asked \in SUBSET Int /\ eval' \in EvalRecord'
  BY <1>1, AskedFacts DEF Asked, Texts, LoopInv, ModeInv, EvalRecord
<1>3. CallInv' /\ ReadyInv' /\ ModeInv'
  BY <1>1, <1>2, NoCallsRest
<1>4. TextsInv'
  BY <1>1, <1>2 DEF TextsInv, Asking
<1>5. FailedInv'
  BY <1>1, RestStays
<1> QED
  BY <1>1, <1>3, <1>4, <1>5, SamplesRest DEF Inv, LoopInv

LEMMA TextsScored ==
    ASSUME RolloutAssumption, Inv, ScoreTexts
    PROVE  Inv'
<1>1. /\ mode = "eval" /\ texts # <<>> /\ Head(texts) = "ok"
      /\ UNCHANGED <<call, faults, mode, rollout, gym>> /\ UNCHANGED sample
      /\ LoopInv /\ OutcomeInv /\ 1 \in Calls
  BY DEF ScoreTexts, rollout, Inv, RolloutAssumption
<1>2. \A c \in Calls : call[c].caller = "off"
  BY <1>1 DEF LoopInv, ModeInv, Asking
<1>3. /\ texts = <<"ok", [i \in Texts |-> Sample(i)]>> /\ eval.done < eval.prompts
      /\ eval \in EvalRecord
  BY <1>1 DEF LoopInv, TextsInv, ModeInv
<1>4. PICK n \in Nat : Texts = 1..n
  BY <1>1, <1>3, AskedFacts DEF LoopInv
<1>5. Len(texts[2]) \in Nat
  BY <1>3, <1>4
<1>6. \/ texts' = <<"raised">> /\ UNCHANGED <<ready, eval>> /\ eval.metric = "cons@k"
      \/ /\ texts' = <<>> /\ ready' \in {<<Caller(1)>>, <<>>}
         /\ \E a, b, t : eval' = [eval EXCEPT !.done = @ + Len(texts[2]) \div eval.tests,
                                              !.score = a, !.due = b, !.torn = t]
  BY DEF ScoreTexts
<1>7. OutcomeInv'
  BY <1>1, SamplesRest
<1>8. FailedInv'
  BY <1>1 DEF LoopInv, FailedInv, Batch
<1>9. CASE texts' = <<"raised">> /\ UNCHANGED <<ready, eval>> /\ eval.metric = "cons@k"
  <2>1. Asked' = Asked /\ Asked \in SUBSET Int /\ eval' \in EvalRecord'
    BY <1>1, <1>3, <1>9, AskedFacts DEF Asked, Texts, LoopInv, EvalRecord
  <2>2. CallInv' /\ ReadyInv' /\ ModeInv'
    BY <1>1, <1>2, <1>9, <2>1, NoCallsRest
  <2>3. TextsInv'
    BY <1>1, <1>9 DEF TextsInv
  <2> QED
    BY <1>7, <1>8, <2>2, <2>3 DEF Inv, LoopInv
<1>10. CASE /\ texts' = <<>> /\ ready' \in {<<Caller(1)>>, <<>>}
            /\ \E a, b, t : eval' = [eval EXCEPT !.done = @ + Len(texts[2]) \div eval.tests,
                                                 !.score = a, !.due = b, !.torn = t]
  <2>1. PICK a, b, t : eval' = [eval EXCEPT !.done = @ + Len(texts[2]) \div eval.tests,
                                            !.score = a, !.due = b, !.torn = t]
    BY <1>10
  <2>2. eval' \in EvalRecord'
    <3> DEFINE done == eval.done + Len(texts[2]) \div eval.tests
    <3>1. done \in Nat
      <4>1. eval.done \in Nat /\ eval.tests \in Nat \ {0}
        BY <1>3 DEF EvalRecord
      <4>2. \A x \in Nat : \A y \in Nat \ {0} : x \div y \in Nat
        OBVIOUS
      <4> DEFINE q == Len(texts[2]) \div eval.tests
      <4>3. q \in Nat
        BY <1>5, <4>1, <4>2, Zenon
      <4> HIDE DEF q
      <4>4. \A x \in Nat : x + q \in Nat
        BY <4>3
      <4> QED
        BY <4>1, <4>4, Zenon DEF q
    <3> HIDE DEF done
    <3>2. eval' = [eval EXCEPT !.done = done, !.score = a, !.due = b, !.torn = t]
      BY <2>1 DEF done
    <3> QED
      BY <1>3, <3>1, <3>2 DEF EvalRecord
  <2>3. Asked' \in SUBSET Int
    <3>1. eval'.perBatch \in Int /\ eval'.prompts - eval'.done \in Int /\ eval'.tests \in Nat
      BY <2>2 DEF EvalRecord
    <3> QED
      BY <1>1, <3>1, RangeOfTexts DEF Asked, Texts
  <2>4. CallInv' /\ ReadyInv' /\ ModeInv'
    BY <1>1, <1>2, <1>10, <2>2, <2>3, NoCallsRest
  <2>5. TextsInv'
    BY <1>10 DEF TextsInv
  <2> QED
    BY <1>7, <1>8, <2>4, <2>5 DEF Inv, LoopInv
<1> QED
  BY <1>6, <1>9, <1>10

-----------------------------------------------------------------------------
(* NeMo-Gym's rollout *)

\* Tokens never get fewer with more turns.
LEMMA TokensGrow ==
    ASSUME NEW h \in Seq(TurnRecord), RolloutAssumption
    PROVE  \A k \in 0..Len(h) : \A j \in 0..k :
              /\ Tokens(SubSeq(h, 1, k)) \in Nat
              /\ Tokens(SubSeq(h, 1, j)) <= Tokens(SubSeq(h, 1, k))
<1> DEFINE n == Len(h)
           T(k) == Tokens(SubSeq(h, 1, k))
           S == {k \in 0..n : \A j \in 0..k : T(j) <= T(k)}
<1>1. n \in Nat
  OBVIOUS
<1>2. /\ SubSeq(h, 1, 0) = <<>> /\ SubSeq(h, 1, n) = h
      /\ \A k \in 0..(n - 1) : /\ SubSeq(h, 1, k) \in Seq(TurnRecord) /\ h[k + 1] \in TurnRecord
                               /\ SubSeq(h, 1, k + 1) = Append(SubSeq(h, 1, k), h[k + 1])
  BY PrefixFacts
<1>3. \A k \in 0..n : T(k) \in Nat
  <2>1. \A k \in 0..n : SubSeq(h, 1, k) \in Seq(TurnRecord)
    BY <1>1, <1>2
  <2> QED
    BY <2>1, TokensIsNat
<1>4. \A k \in 0..(n - 1) : T(k + 1) >= T(k)
  <2> TAKE k \in 0..(n - 1)
  <2>1. T(k + 1) = T(k) + h[k + 1].gen + h[k + 1].obs
    BY <1>2, TokensAppend
  <2>2. h[k + 1] \in TurnRecord
    BY <1>2
  <2>3. h[k + 1].gen \in Nat /\ h[k + 1].obs \in Nat
    BY <2>2 DEF TurnRecord
  <2>4. T(k) \in Nat
    BY <1>1, <1>3
  <2> HIDE DEF T
  <2> QED
    BY <2>1, <2>3, <2>4
<1> HIDE DEF T
<1>5. 0 \in S
  <2>1. 0 \in 0..n /\ 0..0 = {0} /\ T(0) \in Nat
    BY <1>1, <1>3
  <2> QED
    BY <2>1
<1>6. ASSUME NEW k \in 0..(n - 1), k \in S
      PROVE  k + 1 \in S
  <2>1. /\ k + 1 \in 0..n /\ k \in 0..n /\ \A j \in 0..(k + 1) : j \in 0..k \/ j = k + 1
        /\ \A j \in 0..k : j \in 0..n
    BY <1>1
  <2>2. T(k) \in Nat /\ T(k + 1) \in Nat /\ T(k) <= T(k + 1)
    BY <1>3, <1>4, <2>1
  <2>3. \A j \in 0..k : T(j) \in Nat /\ T(j) <= T(k)
    BY <1>3, <1>6, <2>1
  <2>4. ASSUME NEW j \in 0..(k + 1)
        PROVE  T(j) <= T(k + 1)
    <3>1. CASE j = k + 1
      BY <2>2, <3>1
    <3>2. CASE j \in 0..k
      <4>1. T(j) \in Nat /\ T(j) <= T(k)
        BY <2>3, <3>2
      <4> QED
        BY <2>2, <4>1
    <3> QED
      BY <2>1, <3>1, <3>2
  <2> QED
    BY <2>1, <2>4
<1>7. 0..n \subseteq S
  <2> HIDE DEF S
  <2> QED
    BY <1>1, <1>5, <1>6, Induction
<1> QED
  BY <1>3, <1>7 DEF T

\* A conversation's items as turns that observe before they generate.
AsTurns(items) ==
    [t \in DOMAIN items |-> [gen |-> items[t].gen, obs |-> items[t].new, term |-> FALSE,
                             stops |-> <<>>, used |-> <<>>]]

LEMMA Conversation ==
    ASSUME RolloutAssumption, NEW items \in Conversations
    PROVE  /\ Len(items) \in Nat /\ DOMAIN items = 1..Len(items)
           /\ \A t \in 1..Len(items) : items[t].new \in Nat /\ items[t].gen \in Nat \ {0}
           /\ items # <<>> => items[1].new = 0
           /\ AsTurns(items) \in Seq(TurnRecord) /\ Len(AsTurns(items)) = Len(items)
           /\ TurnsOf(items) \in Seq(TurnRecord) /\ Len(TurnsOf(items)) = Len(items)
           /\ Length(items) = Tokens(AsTurns(items)) /\ Length(items) \in 0..MaxSeqLen
<1>1. PICK n \in 0..MaxTurns : items \in [1..n -> Items]
  BY DEF Conversations
<1>2. n \in Nat /\ Len(items) = n /\ DOMAIN items = 1..n
  BY <1>1 DEF RolloutAssumption
<1>3. \A t \in 1..n : items[t].new \in Nat /\ items[t].gen \in Nat \ {0}
  <2> TAKE t \in 1..n
  <2>1. items[t] \in Items
    BY <1>1
  <2>2. items[t].new \in Observed /\ items[t].gen \in 1..MaxSeqLen
    BY <2>1 DEF Items
  <2>3. Observed \subseteq Nat /\ MaxSeqLen \in Nat
    BY DEF RolloutAssumption
  <2>4. \A x \in 1..MaxSeqLen : x \in Nat \ {0}
    BY <2>3
  <2> QED
    BY <2>2, <2>3, <2>4, Zenon
<1>4. items # <<>> => items[1].new = 0
  BY DEF Conversations
<1>5. /\ AsTurns(items) \in Seq(TurnRecord) /\ Len(AsTurns(items)) = n
      /\ DOMAIN AsTurns(items) = 1..n
      /\ \A t \in 1..n : AsTurns(items)[t].gen = items[t].gen /\ AsTurns(items)[t].obs = items[t].new
  <2>1. <<>> \in Seq(Nat)
    OBVIOUS
  <2>2. AsTurns(items) \in [1..n -> TurnRecord]
    BY <1>2, <1>3, <2>1 DEF AsTurns, TurnRecord
  <2>3. AsTurns(items) \in Seq(TurnRecord) /\ Len(AsTurns(items)) = n
    BY <1>2, <2>2, ListOf
  <2> QED
    BY <1>2, <2>2, <2>3 DEF AsTurns
<1>6. TurnsOf(items) \in Seq(TurnRecord) /\ Len(TurnsOf(items)) = n
  <2>1. <<>> \in Seq(Nat)
    OBVIOUS
  <2>2. ASSUME NEW t \in 1..n
        PROVE  TurnsOf(items)[t] \in TurnRecord
    <3>1. /\ t = n \/ t + 1 \in 1..n
          /\ items[t].gen \in Nat /\ (t # n => items[t + 1].new \in Nat)
      BY <1>2, <1>3
    <3>2. (IF t = n THEN 0 ELSE items[t + 1].new) \in Nat
      BY <3>1
    <3>3. TurnsOf(items)[t] =
             [gen |-> items[t].gen, term |-> t = n, stops |-> <<>>, used |-> <<>>,
              obs |-> IF t = n THEN 0 ELSE items[t + 1].new]
      BY <1>2 DEF TurnsOf
    <3> QED
      BY <2>1, <3>1, <3>2, <3>3 DEF TurnRecord
  <2>3. TurnsOf(items) \in [1..n -> TurnRecord]
    BY <1>2, <2>2 DEF TurnsOf
  <2> QED
    BY <1>2, <2>3, ListOf
<1>7. Length(items) = Tokens(AsTurns(items))
  <2> DEFINE a == [t \in DOMAIN items |-> items[t].new + items[t].gen]
             b == [t \in DOMAIN AsTurns(items) |-> AsTurns(items)[t].gen + AsTurns(items)[t].obs]
  <2>1. \A t \in 1..n : items[t].new + items[t].gen = AsTurns(items)[t].gen + AsTurns(items)[t].obs
    BY <1>3, <1>5
  <2>2. a = b
    BY <1>2, <1>5, <2>1
  <2> QED
    BY <2>2 DEF Length, Tokens
<1>8. Length(items) \in 0..MaxSeqLen
  <2>1. Length(items) \in Nat /\ MaxSeqLen \in Nat
    BY <1>5, <1>7, TokensIsNat DEF RolloutAssumption
  <2>2. Length(items) <= MaxSeqLen
    BY DEF Conversations
  <2> QED
    BY <2>1, <2>2
<1> QED
  BY <1>2, <1>3, <1>4, <1>5, <1>6, <1>7, <1>8

\* What a turn of the conversation leads to: its own tokens, and what the next
\* item has in front of its response.
LEMMA ConversationPrefix ==
    ASSUME RolloutAssumption, NEW items \in Conversations
    PROVE  \A k \in 0..Len(items) :
              Tokens(SubSeq(TurnsOf(items), 1, k)) =
                Tokens(SubSeq(AsTurns(items), 1, k))
                + IF k = Len(items) THEN 0 ELSE items[k + 1].new
<1> DEFINE n == Len(items)
           h == TurnsOf(items)
           g == AsTurns(items)
           H(k) == Tokens(SubSeq(h, 1, k))
           G(k) == Tokens(SubSeq(g, 1, k))
           next(k) == IF k = n THEN 0 ELSE items[k + 1].new
           S == {k \in 0..n : H(k) = G(k) + next(k)}
<1>1. /\ n \in Nat /\ DOMAIN items = 1..n
      /\ \A t \in 1..n : items[t].new \in Nat /\ items[t].gen \in Nat
      /\ items # <<>> => items[1].new = 0
      /\ g \in Seq(TurnRecord) /\ Len(g) = n /\ h \in Seq(TurnRecord) /\ Len(h) = n
  BY Conversation
<1>2. \A t \in 1..n : /\ h[t].gen = items[t].gen /\ h[t].obs = next(t)
                      /\ g[t].gen = items[t].gen /\ g[t].obs = items[t].new
  BY <1>1 DEF TurnsOf, AsTurns
<1> HIDE DEF h, g, n
<1>3. /\ SubSeq(h, 1, 0) = <<>> /\ SubSeq(g, 1, 0) = <<>>
      /\ \A k \in 0..(n - 1) :
           /\ SubSeq(h, 1, k) \in Seq(TurnRecord) /\ h[k + 1] \in TurnRecord
           /\ SubSeq(h, 1, k + 1) = Append(SubSeq(h, 1, k), h[k + 1])
           /\ SubSeq(g, 1, k) \in Seq(TurnRecord) /\ g[k + 1] \in TurnRecord
           /\ SubSeq(g, 1, k + 1) = Append(SubSeq(g, 1, k), g[k + 1])
  BY <1>1, PrefixFacts
<1>4. \A k \in 0..n : next(k) \in Nat
  <2> TAKE k \in 0..n
  <2>1. k = n \/ k + 1 \in 1..n
    BY <1>1
  <2> QED
    BY <1>1, <2>1
<1>5. 0 \in S
  <2>1. H(0) = Tokens(<<>>) /\ G(0) = Tokens(<<>>)
    BY <1>3
  <2>2. next(0) = 0
    <3>1. CASE n = 0
      BY <3>1
    <3>2. CASE n # 0
      <4>1. items # <<>> /\ 0 + 1 = 1
        BY <1>1, <3>2
      <4> QED
        BY <1>1, <4>1
    <3> QED
      BY <3>1, <3>2
  <2>3. Tokens(<<>>) \in Nat
    <3>1. <<>> \in Seq(TurnRecord)
      OBVIOUS
    <3> QED
      BY <3>1, TokensIsNat
  <2>4. 0 \in 0..n
    BY <1>1
  <2> HIDE DEF H, G, next
  <2>5. H(0) = G(0) + next(0)
    BY <2>1, <2>2, <2>3
  <2> QED
    BY <2>4, <2>5
<1>6. ASSUME NEW k \in 0..(n - 1), k \in S
      PROVE  k + 1 \in S
  <2>1. /\ H(k + 1) = H(k) + h[k + 1].gen + h[k + 1].obs
        /\ G(k + 1) = G(k) + g[k + 1].gen + g[k + 1].obs
    BY <1>3, TokensAppend
  <2>2. G(k) \in Nat
    BY <1>3, TokensIsNat
  <2>3. k + 1 \in 1..n /\ k + 1 \in 0..n /\ k # n /\ k \in 0..n
    BY <1>1
  <2>4. H(k) = G(k) + items[k + 1].new
    BY <1>6, <2>3
  <2>5. /\ h[k + 1].gen = items[k + 1].gen /\ h[k + 1].obs = next(k + 1)
        /\ g[k + 1].gen = items[k + 1].gen /\ g[k + 1].obs = items[k + 1].new
        /\ items[k + 1].new \in Nat /\ items[k + 1].gen \in Nat /\ next(k + 1) \in Nat
    BY <1>1, <1>2, <1>4, <2>3
  <2> DEFINE a == items[k + 1].new
             b == items[k + 1].gen
             c == next(k + 1)
  <2>6. /\ a \in Nat /\ b \in Nat /\ c \in Nat
        /\ H(k + 1) = H(k) + b + c /\ G(k + 1) = G(k) + b + a /\ H(k) = G(k) + a
    BY <2>1, <2>4, <2>5
  <2> HIDE DEF H, G, next, a, b, c
  <2>7. H(k + 1) = G(k + 1) + c
    BY <2>2, <2>6
  <2> QED
    BY <2>3, <2>7 DEF c
<1>7. 0..n \subseteq S
  <2> HIDE DEF S
  <2> QED
    BY <1>1, <1>5, <1>6, Induction
<1> QED
  BY <1>7 DEF h, g, n

\* A row's result is the outcome of the row's turns.
LEMMA RowOutcome ==
    ASSUME RolloutAssumption, NEW i \in Nat, NEW items \in Conversations, items # <<>>,
           NEW h, h = TurnsOf(items), NEW s \in SampleRecord,
           s.len = Length(items), s.rewards = {<<i, t>> : t \in DOMAIN items},
           s.truncated = (Length(items) = MaxSeqLen)
    PROVE  Outcome("gym", s, h, i)
<1> DEFINE n == Len(items)
           g == AsTurns(items)
<1>1. /\ n \in Nat /\ DOMAIN items = 1..n
      /\ \A t \in 1..n : items[t].new \in Nat /\ items[t].gen \in Nat \ {0}
      /\ g \in Seq(TurnRecord) /\ Len(g) = n /\ h \in Seq(TurnRecord) /\ Len(h) = n
      /\ DOMAIN h = 1..n
      /\ Length(items) = Tokens(g) /\ Length(items) \in 0..MaxSeqLen /\ n # 0
      /\ MaxSeqLen \in Nat
  <2>1. /\ n \in Nat /\ DOMAIN items = 1..n
        /\ \A t \in 1..n : items[t].new \in Nat /\ items[t].gen \in Nat \ {0}
        /\ g \in Seq(TurnRecord) /\ Len(g) = n /\ h \in Seq(TurnRecord) /\ Len(h) = n
        /\ Length(items) = Tokens(g) /\ Length(items) \in 0..MaxSeqLen
    BY Conversation
  <2>2. n # 0
    <3>1. items \in [1..n -> Items]
      BY <2>1 DEF Conversations
    <3> QED
      BY <3>1
  <2>3. DOMAIN h = 1..n /\ MaxSeqLen \in Nat
    BY <2>1 DEF RolloutAssumption
  <2> QED
    BY <2>1, <2>2, <2>3
<1>2. \A t \in 1..n : h[t].term = (t = n) /\ h[t].stops = <<>> /\ h[t].used = <<>>
  BY <1>1 DEF TurnsOf
<1>3. \A k \in 0..n : Tokens(SubSeq(h, 1, k)) = Tokens(SubSeq(g, 1, k))
                                               + IF k = n THEN 0 ELSE items[k + 1].new
  BY ConversationPrefix
<1> HIDE DEF g, n
<1>4. \A k \in 0..n : \A j \in 0..k :
         /\ Tokens(SubSeq(g, 1, k)) \in Nat
         /\ Tokens(SubSeq(g, 1, j)) <= Tokens(SubSeq(g, 1, k))
  BY <1>1, TokensGrow
<1>5. /\ SubSeq(h, 1, n) = h /\ SubSeq(g, 1, n) = g
      /\ \A k \in 0..(n - 1) :
           /\ SubSeq(g, 1, k) \in Seq(TurnRecord) /\ g[k + 1] \in TurnRecord
           /\ SubSeq(g, 1, k + 1) = Append(SubSeq(g, 1, k), g[k + 1])
  BY <1>1, PrefixFacts
<1>6. Tokens(h) = Length(items)
  <2>1. Tokens(SubSeq(h, 1, n)) = Tokens(SubSeq(g, 1, n)) + 0
    BY <1>1, <1>3
  <2>2. Tokens(g) \in 0..MaxSeqLen
    BY <1>1, Zenon
  <2>3. \A x \in 0..MaxSeqLen : x + 0 = x
    BY <1>1
  <2>4. Tokens(h) = Tokens(g) + 0
    BY <1>5, <2>1, Zenon
  <2>5. Tokens(g) + 0 = Tokens(g)
    BY <2>2, <2>3, Zenon
  <2> QED
    BY <1>1, <2>4, <2>5, Zenon
<1>7. ASSUME NEW t \in 1..(Len(h) - 1)
      PROVE  ~h[t].term /\ Tokens(SubSeq(h, 1, t)) < MaxSeqLen
  <2>1. t \in 1..n /\ t \in 0..(n - 1) /\ t # n /\ t + 1 \in 1..n /\ t + 1 \in 0..n /\ n \in 0..n
    BY <1>1
  <2> DEFINE a == items[t + 1].new
             b == items[t + 1].gen
             A == Tokens(SubSeq(g, 1, t))
             B == Tokens(SubSeq(g, 1, t + 1))
  <2>2. g[t + 1].gen = b /\ g[t + 1].obs = a /\ a \in Nat /\ b \in Nat \ {0}
    BY <1>1, <2>1 DEF AsTurns, g
  <2>3. B = A + g[t + 1].gen + g[t + 1].obs
    BY <1>5, <2>1, TokensAppend
  <2>4. A \in Nat /\ B \in Nat /\ B <= Tokens(g) /\ Tokens(g) <= MaxSeqLen /\ Tokens(g) \in Nat
    <3>1. A \in Nat
      <4>1. t \in 0..n /\ 0 \in 0..t
        BY <2>1
      <4> QED
        BY <1>4, <4>1
    <3>2. B \in Nat /\ B <= Tokens(SubSeq(g, 1, n))
      <4>1. t + 1 \in 0..n /\ 0 \in 0..(t + 1)
        BY <2>1
      <4> QED
        BY <1>4, <2>1, <4>1
    <3>3. Tokens(g) \in 0..MaxSeqLen /\ SubSeq(g, 1, n) = g
      BY <1>1, <1>5, Zenon
    <3>4. \A x \in 0..MaxSeqLen : x \in Nat /\ x <= MaxSeqLen
      BY <1>1
    <3>5. Tokens(g) \in Nat /\ Tokens(g) <= MaxSeqLen
      BY <3>3, <3>4, Zenon
    <3> QED
      BY <3>1, <3>2, <3>3, <3>5, Zenon
  <2>5. Tokens(SubSeq(h, 1, t)) = A + a
    <3>1. t \in 0..n
      BY <2>1
    <3> QED
      BY <1>3, <2>1, <3>1
  <2> HIDE DEF a, b, A, B
  <2>6. A + a < MaxSeqLen
    <3>1. B = A + b + a
      BY <2>2, <2>3
    <3> QED
      BY <1>1, <2>2, <2>4, <3>1
  <2> QED
    BY <1>2, <2>1, <2>5, <2>6
<1>8. h # <<>> /\ Last(h) = h[n] /\ Last(h).term
  <2>1. h # <<>> /\ Last(h) = h[n] /\ n \in 1..n
    BY <1>1 DEF Last
  <2> QED
    BY <1>2, <2>1
<1>9. ASSUME NEW t \in 2..Len(h)
      PROVE  h[t].used = NextStops("gym", h[t - 1])
  <2>1. t \in 1..n /\ t - 1 \in 1..n
    BY <1>1
  <2> QED
    BY <1>2, <2>1 DEF NextStops
<1>10. s.rewards = {<<i, t>> : t \in DOMAIN h}
  BY <1>1
<1>11. s.len = IF Tokens(h) > MaxSeqLen THEN MaxSeqLen ELSE Tokens(h)
  BY <1>1, <1>6
<1>12. s.truncated <=> h # <<>> /\ Tokens(h) >= MaxSeqLen
  <2>1. \A x \in 0..MaxSeqLen : x >= MaxSeqLen <=> x = MaxSeqLen
    BY <1>1
  <2>2. Tokens(h) >= MaxSeqLen <=> Length(items) = MaxSeqLen
    BY <1>1, <1>6, <2>1, Zenon
  <2> QED
    BY <1>8, <2>2
<1> QED
  BY <1>7, <1>8, <1>9, <1>10, <1>11, <1>12 DEF Outcome

\* Every result goes to the place of its row.
LEMMA RowsCover ==
    ASSUME mode = "gym", GymInv, gym.out = "running", Len(gym.rows) = Size[mode],
           Size[mode] \in Nat, NEW i \in Batch
    PROVE  /\ ByPosition(gym.rows, gym.results)[i] \in RowResult
           /\ RowOK(ByPosition(gym.rows, gym.results)[i], hist[i], i)
<1> DEFINE rows == gym.rows
           n == Size[mode]
           p == Position(rows, i)
<1>1. /\ rows \in Seq(1..n) /\ Once(rows) /\ Len(rows) = n /\ n \in Nat /\ i \in 1..n
      /\ gym.results \in Seq(RowResult) /\ Len(gym.results) = n
      /\ \A q \in 1..n : RowOK(gym.results[q], hist[rows[q]], rows[q])
  BY DEF GymInv, GymRecord, Batch
<1>2. ByPosition(rows, gym.results) = [q \in DOMAIN rows |-> gym.results[Position(rows, q)]]
  BY DEF ByPosition
<1> HIDE DEF rows, n
<1>3. ToSet(rows) = 1..n /\ DOMAIN rows = 1..n
  BY <1>1, Counting
<1>4. \E q \in 1..n : rows[q] = i
  <2>1. \A x \in ToSet(rows) : \E q \in 1..Len(rows) : rows[q] = x
    BY <1>1, InSeq
  <2> QED
    BY <1>1, <1>3, <2>1
<1>5. p \in 1..n /\ rows[p] = i
  BY <1>3, <1>4 DEF Position
<1>6. ByPosition(rows, gym.results)[i] = gym.results[p]
  BY <1>1, <1>2, <1>3
<1> HIDE DEF p
<1>7. gym.results[p] \in RowResult /\ RowOK(gym.results[p], hist[i], i)
  BY <1>1, <1>5
<1> QED
  BY <1>6, <1>7 DEF rows

LEMMA RowComes ==
    ASSUME RolloutAssumption, Inv, NEW i \in Batch, GymRow(i)
    PROVE  Inv'
<1>1. /\ mode = "gym" /\ gym.out = "running" /\ i \notin ToSet(gym.rows)
      /\ UNCHANGED <<ready, call, faults, mode, sample, active, turn, texts, eval>>
      /\ LoopInv /\ GymInv /\ Batch' = Batch /\ i \in Nat
      /\ sample \in [Batch -> SampleRecord] /\ hist \in [Batch -> Seq(TurnRecord)]
  BY DEF GymRow, Inv, OutcomeInv, Batch
<1>2. PICK items \in Conversations :
        \/ gym' = [gym EXCEPT !.out = "raised"] /\ UNCHANGED hist
        \/ /\ gym' = [gym EXCEPT !.rows = Append(@, i), !.results = Append(@, Postprocess(i, items))]
           /\ hist' = [hist EXCEPT ![i] = TurnsOf(items)]
  BY DEF GymRow
<1>3. LoopInv'
  <2>1. FailedInv'
    BY <1>1 DEF FailedInv, LoopInv
  <2> QED
    BY <1>1, <2>1, LoopRests DEF LoopInv
<1>4. /\ gym \in GymRecord /\ \A j \in Batch : ~sample[j].over
      /\ Once(gym.rows) /\ Len(gym.results) = Len(gym.rows)
      /\ \A p \in 1..Len(gym.rows) : RowOK(gym.results[p], hist[gym.rows[p]], gym.rows[p])
  BY <1>1 DEF GymInv
<1>5. CASE gym' = [gym EXCEPT !.out = "raised"] /\ UNCHANGED hist
  <2>1. gym' \in GymRecord /\ gym'.out = "raised"
    BY <1>4, <1>5 DEF GymRecord
  <2>2. gym' \in GymRecord'
    BY <1>1, <2>1 DEF GymRecord
  <2>3. GymInv'
    BY <1>1, <1>4, <2>1, <2>2 DEF GymInv
  <2> QED
    BY <1>1, <1>3, <1>5, <2>3 DEF OutcomeInv, Inv
<1>6. CASE /\ gym' = [gym EXCEPT !.rows = Append(@, i), !.results = Append(@, Postprocess(i, items))]
           /\ hist' = [hist EXCEPT ![i] = TurnsOf(items)]
  <2> DEFINE rows == gym.rows
             results == gym.results
             n == Len(rows)
             new == Postprocess(i, items)
  <2>1. new \in RowResult
    <3>1. Length(items) \in 0..MaxSeqLen /\ DOMAIN items = 1..Len(items)
      BY Conversation
    <3>2. {<<i, t>> : t \in DOMAIN items} \in SUBSET (Nat \X Nat)
      BY <1>1, <3>1
    <3> QED
      BY <3>1, <3>2 DEF Postprocess, RowResult
  <2>2. TurnsOf(items) \in Seq(TurnRecord)
    BY Conversation
  <2>3. rows \in Seq(Batch) /\ results \in Seq(RowResult) /\ n \in Nat /\ Len(results) = n
    BY <1>4 DEF GymRecord
  <2> HIDE DEF new
  <2>4. gym' = [gym EXCEPT !.rows = Append(rows, i), !.results = Append(results, new)]
    BY <1>6 DEF new
  <2>5. /\ Append(rows, i) \in Seq(Batch) /\ Append(results, new) \in Seq(RowResult)
        /\ Len(Append(rows, i)) = n + 1 /\ Len(Append(results, new)) = n + 1
        /\ Append(rows, i)[n + 1] = i /\ Append(results, new)[n + 1] = new
        /\ \A p \in 1..n : Append(rows, i)[p] = rows[p] /\ Append(results, new)[p] = results[p]
    BY <2>1, <2>3
  <2>6. /\ gym' \in GymRecord /\ gym'.out = "running"
        /\ gym'.rows = Append(rows, i) /\ gym'.results = Append(results, new)
    BY <1>1, <1>4, <2>4, <2>5 DEF GymRecord
  <2>7. gym' \in GymRecord'
    BY <1>1, <2>6 DEF GymRecord
  <2>8. Once(Append(rows, i))
    BY <1>1, <1>4, <2>3, AppendFacts
  <2> HIDE DEF rows, results, n
  <2>9. ASSUME NEW p \in 1..(n + 1)
        PROVE  RowOK(gym'.results[p], hist'[gym'.rows[p]], gym'.rows[p])
    <3>1. CASE p = n + 1
      <4>1. hist'[i] = TurnsOf(items)
        BY <1>1, <1>6
      <4>2. RowOK(new, TurnsOf(items), i)
        BY DEF RowOK, new
      <4> QED
        BY <2>5, <2>6, <3>1, <4>1, <4>2
    <3>2. CASE p # n + 1
      <4>1. p \in 1..n
        BY <2>3, <3>2
      <4>2. rows[p] # i /\ rows[p] \in Batch
        BY <1>1, <2>3, <4>1, InSeq DEF rows, n
      <4>3. hist'[rows[p]] = hist[rows[p]]
        BY <1>1, <1>6, <4>2
      <4>4. RowOK(results[p], hist[rows[p]], rows[p])
        BY <1>4, <4>1 DEF rows, results, n
      <4> QED
        BY <2>5, <2>6, <4>1, <4>3, <4>4
    <3> QED
      BY <3>1, <3>2
  <2>10. GymInv'
    BY <1>1, <1>4, <2>5, <2>6, <2>7, <2>8, <2>9 DEF GymInv
  <2>11. hist' \in [Batch -> Seq(TurnRecord)]
    BY <1>1, <1>6, <2>2
  <2> QED
    BY <1>1, <1>3, <2>10, <2>11 DEF OutcomeInv, Inv
<1> QED
  BY <1>2, <1>5, <1>6

LEMMA GymAgain ==
    ASSUME RolloutAssumption, Inv, GymRestart
    PROVE  Inv'
<1>1. /\ mode = "gym" /\ gym.out = "running"
      /\ gym' = [NewGym(gym.agent) EXCEPT !.restarts = gym.restarts + 1]
      /\ hist' = [i \in Batch |-> <<>>]
      /\ UNCHANGED <<ready, call, faults, mode, sample, active, turn, texts, eval>>
      /\ LoopInv /\ GymInv /\ Batch' = Batch
      /\ sample \in [Batch -> SampleRecord] /\ hist \in [Batch -> Seq(TurnRecord)]
  BY DEF GymRestart, Inv, OutcomeInv, Batch
<1>2. LoopInv'
  <2>1. FailedInv'
    BY <1>1 DEF FailedInv, LoopInv
  <2> QED
    BY <1>1, <2>1, LoopRests DEF LoopInv
<1>3. gym.agent \in [Batch -> 1..2] /\ gym.restarts + 1 \in Nat /\ \A j \in Batch : ~sample[j].over
  BY <1>1 DEF GymInv, GymRecord
<1>4. gym' \in GymRecord' /\ gym'.out = "running" /\ gym'.rows = <<>> /\ gym'.results = <<>>
  <2>1. gym' = [agent |-> gym.agent, rows |-> <<>>, results |-> <<>>, out |-> "running",
                restarts |-> gym.restarts + 1]
    BY <1>1 DEF NewGym
  <2>2. <<>> \in Seq(Batch) /\ <<>> \in Seq(RowResult)
    OBVIOUS
  <2>3. gym' \in GymRecord
    <3> DEFINE a == gym.agent
               n == gym.restarts + 1
    <3>1. gym' = [agent |-> a, rows |-> <<>>, results |-> <<>>, out |-> "running", restarts |-> n]
      BY <2>1
    <3>2. a \in [Batch -> 1..2] /\ n \in Nat
      BY <1>3
    <3> HIDE DEF a, n
    <3> QED
      BY <2>2, <3>1, <3>2 DEF GymRecord
  <2>4. gym' \in GymRecord'
    BY <1>1, <2>3 DEF GymRecord
  <2>5. gym'.out = "running" /\ gym'.rows = <<>> /\ gym'.results = <<>>
    BY <2>1
  <2> QED
    BY <2>4, <2>5
<1>5. GymInv'
  <2>1. Len(<<>>) = 0 /\ 1..Len(<<>>) = {}
    OBVIOUS
  <2>2. Once(<<>>)
    BY OnceShort
  <2> QED
    BY <1>1, <1>3, <1>4, <2>2, <2>1 DEF GymInv
<1>6. hist' \in [Batch -> Seq(TurnRecord)]
  <2>1. <<>> \in Seq(TurnRecord)
    OBVIOUS
  <2> QED
    BY <1>1, <2>1
<1> QED
  BY <1>1, <1>2, <1>5, <1>6 DEF OutcomeInv, Inv

LEMMA GymEnds ==
    ASSUME RolloutAssumption, Inv, GymReturns
    PROVE  Inv'
<1> DEFINE sorted == ByPosition(gym.rows, gym.results)
<1>1. /\ mode = "gym" /\ gym.out = "running" /\ Len(gym.rows) = Size[mode]
      /\ UNCHANGED <<ready, call, faults, mode, active, turn, hist, texts, eval>>
      /\ LoopInv /\ GymInv /\ Batch' = Batch /\ Batch \subseteq Nat
      /\ sample \in [Batch -> SampleRecord] /\ hist \in [Batch -> Seq(TurnRecord)]
      /\ gym \in GymRecord
      /\ \/ gym' = [gym EXCEPT !.out = "raised"] /\ UNCHANGED sample
         \/ /\ \A i \in Batch : ~sorted[i].empty
            /\ gym' = [gym EXCEPT !.out = "done"]
            /\ sample' = [i \in Batch |-> [sample[i] EXCEPT
                  !.len = sorted[i].len, !.rewards = sorted[i].rewards, !.over = TRUE,
                  !.truncated = sorted[i].len = MaxSeqLen]]
  <2>1. /\ mode = "gym" /\ gym.out = "running" /\ Len(gym.rows) = Size[mode]
        /\ UNCHANGED <<ready, call, faults, mode, active, turn, hist, texts, eval>>
    BY DEF GymReturns
  <2>2. \/ gym' = [gym EXCEPT !.out = "raised"] /\ UNCHANGED sample
        \/ /\ \A i \in Batch : ~sorted[i].empty
           /\ gym' = [gym EXCEPT !.out = "done"]
           /\ sample' = [i \in Batch |-> [sample[i] EXCEPT
                 !.len = sorted[i].len, !.rewards = sorted[i].rewards, !.over = TRUE,
                 !.truncated = sorted[i].len = MaxSeqLen]]
    <3> HIDE DEF sorted
    <3> QED
      BY DEF GymReturns, sorted
  <2>3. /\ LoopInv /\ GymInv /\ gym \in GymRecord
        /\ sample \in [Batch -> SampleRecord] /\ hist \in [Batch -> Seq(TurnRecord)]
    BY <2>1 DEF Inv, OutcomeInv, GymInv
  <2>4. Batch' = Batch /\ Batch \subseteq Nat
    BY <2>1 DEF Batch
  <2> HIDE DEF sorted
  <2> QED
    BY <2>1, <2>2, <2>3, <2>4
<1>2. Size[mode] \in Nat
  BY <1>1 DEF RolloutAssumption
<1>3. \A i \in Batch : sorted[i] \in RowResult /\ RowOK(sorted[i], hist[i], i)
  BY <1>1, <1>2, RowsCover
<1> HIDE DEF sorted
<1>4. CASE gym' = [gym EXCEPT !.out = "raised"] /\ UNCHANGED sample
  <2>1. gym' \in GymRecord /\ gym'.out = "raised" /\ \A j \in Batch : ~sample[j].over
    BY <1>1, <1>4 DEF GymRecord, GymInv
  <2>2. gym' \in GymRecord'
    BY <1>1, <2>1 DEF GymRecord
  <2>3. GymInv'
    BY <1>1, <1>4, <2>1, <2>2 DEF GymInv
  <2>4. FailedInv'
    BY <1>1, <1>4 DEF FailedInv, LoopInv
  <2>5. LoopInv'
    BY <1>1, <2>4, LoopRests DEF LoopInv
  <2> QED
    BY <1>1, <1>4, <2>3, <2>5 DEF OutcomeInv, Inv
<1>5. CASE /\ \A i \in Batch : ~sorted[i].empty
           /\ gym' = [gym EXCEPT !.out = "done"]
           /\ sample' = [i \in Batch |-> [sample[i] EXCEPT
                 !.len = sorted[i].len, !.rewards = sorted[i].rewards, !.over = TRUE,
                 !.truncated = sorted[i].len = MaxSeqLen]]
  <2>1. gym' \in GymRecord /\ gym'.out = "done"
    BY <1>1, <1>5 DEF GymRecord
  <2>2. gym' \in GymRecord'
    BY <1>1, <2>1 DEF GymRecord
  <2>3. ASSUME NEW i \in Batch
        PROVE  /\ sample'[i] \in SampleRecord /\ sample'[i].over = TRUE
               /\ sample'[i].failed = sample[i].failed
               /\ Outcome(mode, sample'[i], hist[i], i)
    <3> DEFINE s == sample[i]
               r == sample'[i]
               len == sorted[i].len
               rewards == sorted[i].rewards
               full == (len = MaxSeqLen)
    <3>1. r = [s EXCEPT !.len = len, !.rewards = rewards, !.over = TRUE, !.truncated = full]
      BY <1>5
    <3>2. s \in SampleRecord /\ len \in 0..MaxSeqLen /\ rewards \in SUBSET (Nat \X Nat)
          /\ full \in BOOLEAN /\ i \in Nat
      BY <1>1, <1>3 DEF RowResult
    <3>3. PICK items \in Conversations : sorted[i] = Postprocess(i, items) /\ hist[i] = TurnsOf(items)
      BY <1>3 DEF RowOK
    <3>4. /\ len = Length(items) /\ rewards = {<<i, t>> : t \in DOMAIN items} /\ items # <<>>
      <4>1. sorted[i] = [len |-> Length(items), rewards |-> {<<i, t>> : t \in DOMAIN items},
                         empty |-> items = <<>>]
        BY <3>3 DEF Postprocess
      <4>2. /\ sorted[i].empty = (items = <<>>) /\ len = Length(items)
            /\ rewards = {<<i, t>> : t \in DOMAIN items}
        BY <4>1
      <4>3. ~sorted[i].empty
        BY <1>5
      <4> QED
        BY <4>2, <4>3
    <3>5. full = (Length(items) = MaxSeqLen)
      BY <3>4
    <3> HIDE DEF s, r, len, rewards, full
    <3>6. /\ r \in SampleRecord /\ r.len = len /\ r.rewards = rewards /\ r.truncated = full
          /\ r.over = TRUE /\ r.failed = s.failed
      BY <3>1, <3>2 DEF SampleRecord
    <3>7. r.truncated = (Length(items) = MaxSeqLen)
      BY <3>5, <3>6
    <3>8. Outcome("gym", r, hist[i], i)
      BY <3>2, <3>3, <3>4, <3>6, <3>7, RowOutcome
    <3> QED
      BY <1>1, <3>6, <3>8 DEF r, s
  <2>4. sample' \in [Batch -> SampleRecord]
    BY <1>5, <2>3
  <2>5. GymInv'
    BY <1>1, <2>1, <2>2, <2>3 DEF GymInv
  <2>6. FailedInv'
    BY <1>1, <2>3 DEF FailedInv, LoopInv
  <2>7. LoopInv'
    BY <1>1, <2>6, LoopRests DEF LoopInv
  <2> QED
    BY <1>1, <2>4, <2>5, <2>7 DEF OutcomeInv, Inv
<1> QED
  BY <1>1, <1>4, <1>5

-----------------------------------------------------------------------------
(* The theorems *)

LEMMA Initially ==
    ASSUME RolloutAssumption, Init
    PROVE  Inv /\ Quiet
<1>1. /\ mode \in {"sync", "async", "gym", "eval"}
      /\ sample = [i \in Batch |-> NewSample(i)] /\ hist = [i \in Batch |-> <<>>]
      /\ active = (IF mode = "sync" THEN [i \in Batch |-> i] ELSE <<>>) /\ turn = 0
      /\ texts = <<>> /\ call = [c \in Calls |-> NoCall] /\ faults = {}
  BY DEF Init, RolloutOf
<1>2. /\ \A c \in Calls : call[c] = NoCall
      /\ NoCall.caller = "off" /\ NoCall.stream = <<>> /\ NoCall \in CallRecord
      /\ \A asked \in SUBSET Int : CallOK(NoCall, asked)
  <2>1. \A asked \in SUBSET Int : CallOK(NoCall, asked) /\ NoCall.caller = "off" /\ NoCall.stream = <<>>
    BY NewCallOK
  <2>2. NoCall \in CallRecord
    BY <2>1 DEF CallOK
  <2>3. {} \in SUBSET Int
    OBVIOUS
  <2> QED
    BY <1>1, <2>1, <2>2, <2>3
<1>3. Batch = 1..Size[mode] /\ Size[mode] \in Nat /\ Batch \subseteq Nat
  BY <1>1 DEF Batch, RolloutAssumption
<1>4. mode = "eval" => eval \in EvalRecord
  <2> SUFFICES ASSUME mode = "eval" PROVE eval \in EvalRecord
    OBVIOUS
  <2>1. PICK e \in Evaluations : eval = Evaluated(e)
    BY DEF Init
  <2>2. /\ e.metric \in {"pass@k", "cons@k"} /\ e.async \in BOOLEAN
        /\ e.k \in Nat /\ e.tests \in Nat \ {0} /\ e.prompts \in Nat /\ e.perBatch \in Nat
    <3>1. Configured(e)
      BY DEF RolloutAssumption
    <3>2. e.metric \in {"pass@k", "cons@k"} /\ e.async \in BOOLEAN
      BY <3>1, Zenon DEF Configured
    <3>3. {e.k, e.tests, e.prompts, e.perBatch} \subseteq Nat \ {0}
      BY <3>1, Zenon DEF Configured
    <3> QED
      BY <3>2, <3>3
  <2> QED
    BY <2>1, <2>2 DEF Evaluated, EvalRecord
<1>5. /\ ready \in Seq(Tasks) /\ Once(ready)
      /\ \A c \in Calls : Consumer(c) \notin ToSet(ready) /\ Timer(c) \notin ToSet(ready)
      /\ \A c \in Calls : Caller(c) \in ToSet(ready) => (mode = "async" /\ c \in Batch) \/ mode = "eval"
  <2>1. CASE mode = "async"
    <3>1. ready = [i \in Batch |-> Caller(i)]
      BY <2>1 DEF Init
    <3>2. \A i \in Batch : Caller(i) \in Tasks
      <4>1. \A i \in Batch : i \in Calls
        BY <1>3, <2>1 DEF RolloutAssumption
      <4> QED
        BY <4>1, TaskNames DEF TasksOf
    <3>3. ready \in [1..Size[mode] -> Tasks] /\ \A i \in 1..Size[mode] : ready[i] = Caller(i)
      BY <1>3, <3>1, <3>2
    <3>4. ready \in Seq(Tasks) /\ Len(ready) = Size[mode]
      BY <1>3, <3>3, ListOf
    <3>5. \A i, j : Caller(i) = Caller(j) => i = j
      BY DEF Caller
    <3>6. Once(ready)
      BY <3>3, <3>4, <3>5 DEF Once
    <3>7. \A x \in ToSet(ready) : \E i \in 1..Len(ready) : ready[i] = x
      BY <3>4, InSeq
    <3>8. \A x \in ToSet(ready) : \E i \in Batch : x = Caller(i)
      BY <1>3, <3>3, <3>4, <3>7
    <3>9. \A c \in Calls : Consumer(c) \notin ToSet(ready) /\ Timer(c) \notin ToSet(ready)
      BY <3>8, TaskNames
    <3>10. \A c \in Calls : Caller(c) \in ToSet(ready) => c \in Batch
      BY <3>5, <3>8
    <3> QED
      BY <2>1, <3>4, <3>6, <3>9, <3>10
  <2>2. CASE mode # "async"
    <3>1. ready = <<>> \/ (mode = "eval" /\ ready = <<Caller(1)>>)
      BY <1>1, <2>2 DEF Init
    <3>2. Caller(1) \in Tasks
      BY TaskNames DEF RolloutAssumption, TasksOf
    <3>3. ready \in Seq(Tasks)
      <4>1. \A x \in Tasks : <<x>> \in Seq(Tasks) /\ <<>> \in Seq(Tasks)
        OBVIOUS
      <4> QED
        BY <3>1, <3>2, <4>1, Zenon
    <3>4. Once(ready)
      BY <3>1, OnceShort
    <3>5. ToSet(ready) \subseteq {Caller(1)} /\ (mode # "eval" => ToSet(ready) = {})
      BY <3>1, OneTwo
    <3>6. \A c \in Calls : Consumer(c) \notin ToSet(ready) /\ Timer(c) \notin ToSet(ready)
      BY <3>5, TaskNames
    <3> QED
      BY <3>3, <3>4, <3>5, <3>6
  <2> QED
    BY <2>1, <2>2
<1>6. ModeInv
  BY <1>1, <1>2, <1>4, <1>5 DEF ModeInv
<1>7. CallInv
  <2>1. Asked \in SUBSET Int
    BY <1>6, AskedFacts
  <2>2. call \in [Calls -> CallRecord]
    BY <1>1, <1>2
  <2>3. ToSet(<<>>) = {}
    BY OneTwo
  <2> QED
    BY <1>1, <1>2, <2>1, <2>2, <2>3 DEF CallInv, FaultsOf
<1>8. ReadyInv
  BY <1>2, <1>5 DEF ReadyInv, ReadyOf
<1>9. ASSUME NEW i \in Batch
      PROVE  /\ sample[i] \in SampleRecord /\ hist[i] = <<>> /\ Outcome(mode, sample[i], hist[i], i)
             /\ GoesOn(mode, sample[i], hist[i]) /\ ~sample[i].over /\ ~sample[i].failed
  <2>1. i \in Nat /\ sample[i] = NewSample(i) /\ hist[i] = <<>>
    BY <1>1, <1>3
  <2> QED
    BY <2>1, NewOutcome
<1>10. LoopInv
  BY <1>1, <1>6, <1>7, <1>8, <1>9 DEF LoopInv, TextsInv, FailedInv
<1>11. sample \in [Batch -> SampleRecord] /\ hist \in [Batch -> Seq(TurnRecord)]
  <2>1. <<>> \in Seq(TurnRecord)
    OBVIOUS
  <2> QED
    BY <1>1, <1>9, <2>1
<1>12. \A i \in Batch : Len(hist[i]) = 0
  BY <1>9
<1>13. MaxTurns \in Nat \ {0}
  BY DEF RolloutAssumption
<1>14. mode = "sync" => SyncInv
  <2> SUFFICES ASSUME mode = "sync" PROVE SyncInv
    OBVIOUS
  <2>1. active \in [1..Size[mode] -> Batch] /\ \A i \in Batch : active[i] = i
    BY <1>1, <1>3
  <2>2. active \in Seq(Batch) /\ Len(active) = Size[mode]
    BY <1>3, <2>1, ListOf
  <2>3. Once(active)
    BY <1>3, <2>1, <2>2 DEF Once
  <2>4. \A i \in Batch : i \in ToSet(active)
    <3>1. \A i \in 1..Len(active) : active[i] \in ToSet(active)
      BY <2>2, InSeq
    <3> QED
      BY <1>3, <2>1, <2>2, <3>1
  <2>5. turn \in 0..MaxTurns /\ turn = 0
    BY <1>1, <1>13
  <2> QED
    BY <1>9, <1>12, <2>2, <2>3, <2>4, <2>5 DEF SyncInv
<1>15. mode = "async" => AsyncInv
  BY <1>9, <1>12, <1>13 DEF AsyncInv
<1>16. mode = "gym" => GymInv
  <2> SUFFICES ASSUME mode = "gym" PROVE GymInv
    OBVIOUS
  <2>1. PICK a \in [Batch -> 1..2] : gym = NewGym(a)
    BY DEF Init
  <2>2. <<>> \in Seq(Batch) /\ <<>> \in Seq(RowResult) /\ Len(<<>>) = 0 /\ 1..Len(<<>>) = {}
    OBVIOUS
  <2>3. gym \in GymRecord /\ gym.out = "running" /\ gym.rows = <<>> /\ gym.results = <<>>
    BY <2>1, <2>2 DEF NewGym, GymRecord
  <2>4. Once(<<>>)
    BY OnceShort
  <2> QED
    BY <1>9, <2>2, <2>3, <2>4 DEF GymInv
<1>17. OutcomeInv
  BY <1>9, <1>11, <1>14, <1>15, <1>16 DEF OutcomeInv
<1> QED
  BY <1>2, <1>10, <1>17 DEF Inv, Quiet

\* Only the loop's own callers make calls, and only of the asynchronous engine.
LEMMA StaysQuiet ==
    ASSUME Inv, Quiet, [Next]_vars, RolloutAssumption
    PROVE  Quiet'
<1> SUFFICES ASSUME (mode = "eval")', ~eval'.async
             PROVE  \A c \in Calls : call'[c].caller = "off"
  BY DEF Quiet
<1>1. CASE UNCHANGED vars
  <2>1. UNCHANGED <<mode, eval, call>>
    BY <1>1 DEF vars
  <2> QED
    BY <2>1 DEF Quiet
<1>2. CASE Next
  <2>1. mode = "eval" /\ (eval' = eval \/ ScoreTexts)
    BY <1>2 DEF Next, SyncTurn, SyncEnd, Loop, RunSample, RunCaller, AskTexts, TakeTexts,
                GenerateTexts, Outside, Gym, GymRow, GymRestart, GymReturns, Ended, vars, ScoreTexts
  <2>2. eval \in EvalRecord
    BY <2>1 DEF Inv, LoopInv, ModeInv
  <2>3. ~eval.async
    <3>1. CASE ScoreTexts
      <4>1. \/ eval' = eval
            \/ \E a, b, t : eval' = [eval EXCEPT !.done = @ + Len(texts[2]) \div eval.tests,
                                                 !.score = a, !.due = b, !.torn = t]
        BY <3>1 DEF ScoreTexts
      <4> QED
        BY <2>2, <4>1 DEF EvalRecord
    <3> QED
      BY <2>1, <3>1
  <2>4. call \in [Calls -> CallRecord] /\ \A c \in Calls : call[c].caller = "off" /\ call[c] = NoCall
    BY <2>1, <2>3 DEF Quiet, Inv, LoopInv, CallInv, CallOK
  <2>5. CASE call' = call
    BY <2>4, <2>5
  <2>6. ASSUME NEW c \in Calls, RunConsumer(c) \/ RunTimer(c)
        PROVE  call' = call
    BY <2>4, <2>6 DEF RunConsumer, RunTimer
  <2>7. ASSUME NEW c \in Calls,
               \/ \E x \in {Sample(i) : i \in call[c].prompts} \cup {Error} : Emit(c, x)
               \/ EndStream(c) \/ Resolve(c) \/ Expire(c)
        PROVE  call' = call
    BY <2>4, <2>7 DEF Emit, EndStream, Resolve, Expire
  <2>8. ~AskTexts /\ ~TakeTexts /\ ~SyncTurn /\ ~SyncEnd /\ ~Gym /\ \A i : ~RunSample(i) /\ ~RunCaller(i)
    BY <2>1, <2>3, <2>4 DEF AskTexts, TakeTexts, SyncTurn, SyncEnd, Gym, GymRow, GymRestart,
                            GymReturns, RunSample, RunCaller, RolloutAssumption
  <2>9. GenerateTexts \/ ScoreTexts \/ Ended => call' = call
    BY DEF GenerateTexts, ScoreTexts, Ended, vars
  <2> QED
    BY <1>2, <2>5, <2>6, <2>7, <2>8, <2>9 DEF Next, Loop, Outside
<1> QED
  BY <1>1, <1>2

LEMMA InvStays ==
    ASSUME Inv, Quiet, [Next]_vars, RolloutAssumption
    PROVE  Inv'
<1>1. CASE UNCHANGED vars
  <2>1. UNCHANGED <<ready, call, faults, mode, rollout, texts, eval, gym, sample, hist, active, turn>>
    BY <1>1 DEF vars, rollout
  <2>2. Batch' = Batch
    BY <2>1 DEF Batch
  <2>3. LoopInv'
    <3>1. CallInv' /\ ReadyInv' /\ ModeInv' /\ TextsInv'
      BY <2>1, LoopRests DEF Inv
    <3>2. FailedInv'
      BY <2>1, <2>2 DEF Inv, LoopInv, FailedInv
    <3> QED
      BY <3>1, <3>2 DEF LoopInv
  <2>4. SyncInv => SyncInv'
    BY <2>1, <2>2 DEF SyncInv
  <2>5. AsyncInv => AsyncInv'
    BY <2>1, <2>2 DEF AsyncInv
  <2>6. GymInv => GymInv'
    BY <2>1, <2>2 DEF GymInv, GymRecord
  <2>7. OutcomeInv'
    BY <2>1, <2>2, <2>4, <2>5, <2>6 DEF Inv, OutcomeInv
  <2> QED
    BY <2>3, <2>7 DEF Inv
<1>2. CASE SyncTurn
  BY <1>2, SyncTurns
<1>3. CASE SyncEnd
  BY <1>3, SyncStops
<1>4. CASE Loop
  <2>1. ASSUME NEW c \in Calls, RunConsumer(c) \/ RunTimer(c),
               UNCHANGED <<mode, rollout, texts, eval, gym>>
        PROVE  Inv'
    BY <2>1, CallKept DEF CallSteps
  <2>2. ASSUME NEW i \in Calls, RunSample(i) \/ RunCaller(i)
        PROVE  Inv'
    BY <2>2, SampleStarts, SampleResumes
  <2> QED
    BY <1>4, <2>1, <2>2, TextsAsked, TextsTaken, TextsGenerated, TextsScored DEF Loop
<1>5. CASE Outside
  <2>1. PICK c \in Calls : CallSteps(c) /\ UNCHANGED <<mode, rollout, texts, eval, gym>>
    BY <1>5 DEF Outside, CallSteps
  <2> QED
    BY <2>1, CallKept
<1>6. CASE Gym
  BY <1>6, RowComes, GymAgain, GymEnds DEF Gym
<1>7. CASE Ended
  BY <1>1, <1>7 DEF Ended
<1> QED
  BY <1>1, <1>2, <1>3, <1>4, <1>5, <1>6, <1>7 DEF Next

LEMMA Inductive == Spec => [](Inv /\ Quiet)
<1>1. Init => Inv /\ Quiet
  BY RolloutAssumption, Initially
<1>2. (Inv /\ Quiet) /\ [Next]_vars => (Inv /\ Quiet)'
  BY RolloutAssumption, StaysQuiet, InvStays
<1> QED
  BY <1>1, <1>2, PTL DEF Spec

\* NoResultLost, for any number of calls, prompts and samples: the caller, which
\* leaves when the flag is set with whatever the queue still holds, has then
\* taken every result, because the consumer puts its last message in the step in
\* which it sets the flag and the caller is always ahead of it in the loop's
\* queue (vllm_generation.py:586 to 640).
THEOREM NothingIsLost == Spec => []NoResultLost
<1>1. Inv => NoResultLost
  <2> SUFFICES ASSUME Inv PROVE NoResultLost
    OBVIOUS
  <2>1. TextsInv /\ FailedInv
    BY DEF Inv, LoopInv
  <2> QED
    BY <2>1 DEF TextsInv, FailedInv, NoResultLost
<1> QED
  BY <1>1, Inductive, PTL

\* OutcomeOfItsTurns, for any lengths, limits and answers of the environments:
\* the three rollouts give a sample the outcome its own turns have, in any
\* interleaving with the other samples and in any order in which NeMo-Gym's
\* rows come (rollouts.py:300 to 560, 640 to 800 and 840 to 1000).
THEOREM OutcomesAreTheirTurns == Spec => []OutcomeOfItsTurns
<1>1. Inv => OutcomeOfItsTurns
  <2> SUFFICES ASSUME Inv, NEW i \in Batch, mode = "gym" => sample[i].over
               PROVE  Outcome(mode, sample[i], hist[i], i)
    BY DEF OutcomeOfItsTurns, Outcome, NextStops
  <2>1. OutcomeInv /\ mode \in {"sync", "async", "gym", "eval"}
    BY DEF Inv, LoopInv, ModeInv
  <2> QED
    BY <2>1 DEF OutcomeInv, SyncInv, AsyncInv, GymInv
<1> QED
  BY <1>1, Inductive, PTL
-----------------------------------------------------------------------------
(* Factorials and products *)

FactorialUpto(n, f) == f = [k \in 0..n |-> IF k = 0 THEN 1 ELSE k * f[k - 1]]

LEMMA FactorialsExist == \A n \in Nat : \E f : FactorialUpto(n, f)
<1> SUFFICES ASSUME NEW n \in Nat
             PROVE  \E f : FactorialUpto(n, f)
  OBVIOUS
<1> DEFINE S == {m \in 0..n : \E f : FactorialUpto(m, f)}
<1>1. 0 \in S
  <2>1. FactorialUpto(0, [k \in 0..0 |-> 1])
    BY DEF FactorialUpto
  <2> QED
    BY <2>1
<1>2. ASSUME NEW m \in 0..(n - 1), m \in S
      PROVE  m + 1 \in S
  <2>1. PICK f : FactorialUpto(m, f)
    BY <1>2
  <2> DEFINE g == [k \in 0..(m + 1) |-> IF k = m + 1 THEN k * f[k - 1] ELSE f[k]]
  <2>2. \A k \in 0..m : g[k] = f[k]
    OBVIOUS
  <2>3. \A k \in 1..(m + 1) : k - 1 \in 0..m /\ g[k - 1] = f[k - 1]
    BY <2>2
  <2>4. \A k \in 0..m : f[k] = IF k = 0 THEN 1 ELSE k * f[k - 1]
    BY <2>1 DEF FactorialUpto
  <2>5. \A k \in 0..(m + 1) : g[k] = IF k = 0 THEN 1 ELSE k * g[k - 1]
    BY <2>3, <2>4
  <2>6. FactorialUpto(m + 1, g)
    BY <2>5 DEF FactorialUpto
  <2> QED
    BY <2>6
<1>3. 0..n \subseteq S
  <2> HIDE DEF S
  <2> QED
    BY <1>1, <1>2, Induction
<1> QED
  BY <1>3

\* Any two of these functions agree where both are defined.
LEMMA FactorialsAgree ==
    ASSUME NEW m \in Nat, NEW n \in Nat, NEW f, NEW g, FactorialUpto(m, f),
           FactorialUpto(n, g), m <= n
    PROVE  \A k \in 0..m : f[k] = g[k]
<1> DEFINE S == {k \in 0..m : f[k] = g[k]}
<1>1. /\ \A k \in 0..m : f[k] = IF k = 0 THEN 1 ELSE k * f[k - 1]
      /\ \A k \in 0..n : g[k] = IF k = 0 THEN 1 ELSE k * g[k - 1]
  BY DEF FactorialUpto
<1>2. 0 \in S
  BY <1>1
<1>3. ASSUME NEW k \in 0..(m - 1), k \in S
      PROVE  k + 1 \in S
  <2>1. k + 1 \in 0..m /\ k + 1 \in 0..n /\ (k + 1) - 1 = k /\ k + 1 # 0
    OBVIOUS
  <2>2. f[k + 1] = (k + 1) * f[k] /\ g[k + 1] = (k + 1) * g[k]
    BY <1>1, <2>1
  <2> QED
    BY <1>3, <2>1, <2>2
<1>4. 0..m \subseteq S
  <2> HIDE DEF S
  <2> QED
    BY <1>2, <1>3, Induction
<1> QED
  BY <1>4

LEMMA FactorialFacts ==
    /\ factorial[0] = 1
    /\ \A n \in Nat : factorial[n] \in Nat \ {0} /\ factorial[n + 1] = (n + 1) * factorial[n]
<1> DEFINE upto(n) == CHOOSE f : FactorialUpto(n, f)
           F == [n \in Nat |-> upto(n)[n]]
           isF(f) == f = [n \in Nat |-> IF n = 0 THEN 1 ELSE n * f[n - 1]]
<1>1. \A n \in Nat : FactorialUpto(n, upto(n))
  BY FactorialsExist
<1> HIDE DEF upto
<1>2. \A n \in Nat : upto(n)[n] = IF n = 0 THEN 1 ELSE n * upto(n)[n - 1]
  BY <1>1 DEF FactorialUpto
<1>3. ASSUME NEW n \in Nat, n # 0
      PROVE  upto(n)[n - 1] = upto(n - 1)[n - 1]
  <2>1. n - 1 \in Nat /\ n - 1 <= n /\ n - 1 \in 0..(n - 1)
    BY <1>3
  <2> DEFINE m == n - 1
             f == upto(m)
             g == upto(n)
  <2>2. FactorialUpto(m, f) /\ FactorialUpto(n, g) /\ m \in Nat /\ m <= n /\ m \in 0..m
    BY <1>1, <2>1
  <2> HIDE DEF m, f, g
  <2>3. f[m] = g[m]
    BY <2>2, FactorialsAgree
  <2> QED
    BY <2>3 DEF m, f, g
<1>4. \A n \in Nat : F[n] = IF n = 0 THEN 1 ELSE n * F[n - 1]
  <2> SUFFICES ASSUME NEW n \in Nat
               PROVE  F[n] = IF n = 0 THEN 1 ELSE n * F[n - 1]
    OBVIOUS
  <2>1. n # 0 => n - 1 \in Nat
    OBVIOUS
  <2> QED
    BY <1>2, <1>3, <2>1
<1>5. isF(F)
  BY <1>4
<1> HIDE DEF F
<1>6. isF(factorial)
  <2>1. factorial = CHOOSE f : isF(f)
    BY DEF factorial
  <2> HIDE DEF isF
  <2> QED
    BY <1>5, <2>1
<1> DEFINE f == factorial
<1>7. \A n \in Nat : f[n] = IF n = 0 THEN 1 ELSE n * f[n - 1]
  BY <1>6
<1> HIDE DEF f
<1>8. f[0] = 1 /\ \A n \in Nat : f[n + 1] = (n + 1) * f[n]
  <2>1. \A n \in Nat : n + 1 \in Nat /\ n + 1 # 0 /\ (n + 1) - 1 = n
    OBVIOUS
  <2> QED
    BY <1>7, <2>1
<1>9. \A n \in Nat : f[n] \in Nat \ {0}
  <2> SUFFICES ASSUME NEW n \in Nat
               PROVE  f[n] \in Nat \ {0}
    OBVIOUS
  <2> DEFINE S == {k \in 0..n : f[k] \in Nat \ {0}}
  <2>1. 0 \in S
    BY <1>8
  <2>2. ASSUME NEW k \in 0..(n - 1), k \in S
        PROVE  k + 1 \in S
    <3>1. f[k + 1] = (k + 1) * f[k] /\ f[k] \in Nat \ {0} /\ k \in Nat
      BY <1>8, <2>2
    <3>2. \A x \in Nat : \A y \in Nat \ {0} : (x + 1) * y \in Nat \ {0}
      OBVIOUS
    <3> QED
      BY <3>1, <3>2
  <2>3. 0..n \subseteq S
    <3> HIDE DEF S
    <3> QED
      BY <2>1, <2>2, Induction
  <2> QED
    BY <2>3
<1> QED
  BY <1>8, <1>9 DEF f

ProductsUpto(list, n, f) == f = [k \in 0..n |-> IF k = 0 THEN 1 ELSE f[k - 1] * list[k]]

LEMMA ProductExists ==
    ASSUME NEW list, Len(list) \in Nat
    PROVE  \E f : ProductsUpto(list, Len(list), f) /\ Product(list) = f[Len(list)]
<1> DEFINE n == Len(list)
           S == {m \in 0..n : \E f : ProductsUpto(list, m, f)}
<1>1. 0 \in S
  <2>1. ProductsUpto(list, 0, [k \in 0..0 |-> 1])
    BY DEF ProductsUpto
  <2> QED
    BY <2>1
<1>2. ASSUME NEW m \in 0..(n - 1), m \in S
      PROVE  m + 1 \in S
  <2>1. PICK f : ProductsUpto(list, m, f)
    BY <1>2
  <2> DEFINE g == [k \in 0..(m + 1) |-> IF k = m + 1 THEN f[k - 1] * list[k] ELSE f[k]]
  <2>2. \A k \in 0..m : g[k] = f[k]
    OBVIOUS
  <2>3. \A k \in 1..(m + 1) : k - 1 \in 0..m /\ g[k - 1] = f[k - 1]
    BY <2>2
  <2>4. \A k \in 0..m : f[k] = IF k = 0 THEN 1 ELSE f[k - 1] * list[k]
    BY <2>1 DEF ProductsUpto
  <2>5. \A k \in 0..(m + 1) : g[k] = IF k = 0 THEN 1 ELSE g[k - 1] * list[k]
    BY <2>3, <2>4
  <2>6. ProductsUpto(list, m + 1, g)
    BY <2>5 DEF ProductsUpto
  <2> QED
    BY <2>6
<1>3. 0..n \subseteq S
  <2> HIDE DEF S
  <2> QED
    BY <1>1, <1>2, Induction
<1>4. \E f : ProductsUpto(list, n, f)
  BY <1>3
<1> DEFINE g == CHOOSE g : ProductsUpto(list, n, g)
<1>5. ProductsUpto(list, n, g)
  BY <1>4
<1>6. Product(list) = g[n]
  BY DEF Product, ProductsUpto
<1> QED
  BY <1>5, <1>6

\* (b + c)! is b! times the c numbers behind b.
LEMMA FactorialProduct ==
    ASSUME NEW b \in Nat, NEW c \in Nat
    PROVE  LET p == Product([i \in 1..c |-> b + i]) IN
           p \in Nat \ {0} /\ factorial[b + c] = factorial[b] * p
<1> DEFINE list == [i \in 1..c |-> b + i]
           fac == factorial
<1>1. list \in Seq(Nat) /\ Len(list) = c /\ \A i \in 1..c : list[i] = b + i
  <2>1. list \in [1..c -> Nat]
    OBVIOUS
  <2> HIDE DEF list
  <2>2. list \in Seq(Nat) /\ Len(list) = c
    BY <2>1, ListOf
  <2> QED
    BY <2>2 DEF list
<1> HIDE DEF list
<1>2. PICK f : ProductsUpto(list, c, f) /\ Product(list) = f[c]
  BY <1>1, ProductExists
<1>3. \A k \in 0..c : f[k] = IF k = 0 THEN 1 ELSE f[k - 1] * list[k]
  BY <1>2 DEF ProductsUpto
<1>4. \A n \in Nat : fac[n] \in Nat \ {0} /\ fac[n + 1] = (n + 1) * fac[n]
  BY FactorialFacts
<1> HIDE DEF fac
<1> DEFINE S == {k \in 0..c : f[k] \in Nat \ {0} /\ fac[b + k] = fac[b] * f[k]}
<1>5. 0 \in S
  <2>1. f[0] = 1 /\ b + 0 = b /\ fac[b] \in Nat
    BY <1>3, <1>4
  <2>2. fac[b] = fac[b] * f[0]
    BY <2>1
  <2> QED
    BY <2>1, <2>2
<1>6. ASSUME NEW k \in 0..(c - 1), k \in S
      PROVE  k + 1 \in S
  <2> DEFINE x == b + (k + 1)
  <2>1. f[k + 1] = f[k] * x
    <3>1. k + 1 \in 0..c /\ k + 1 # 0 /\ (k + 1) - 1 = k /\ k + 1 \in 1..c
      BY <1>6
    <3> QED
      BY <1>1, <1>3, <3>1
  <2>2. fac[b + (k + 1)] = x * fac[b + k]
    <3>1. b + k \in Nat /\ (b + k) + 1 = x
      BY <1>6
    <3> QED
      BY <1>4, <3>1
  <2>3. x \in Nat \ {0} /\ f[k] \in Nat \ {0} /\ fac[b] \in Nat \ {0} /\ fac[b + k] = fac[b] * f[k]
    BY <1>4, <1>6
  <2>4. \A p, q, r \in Nat \ {0} : q * r \in Nat \ {0} /\ r * (p * q) = p * (q * r)
    OBVIOUS
  <2> HIDE DEF x
  <2>5. f[k] * x \in Nat \ {0} /\ x * (fac[b] * f[k]) = fac[b] * (f[k] * x)
    BY <2>3, <2>4
  <2>6. f[k + 1] \in Nat \ {0} /\ fac[b + (k + 1)] = fac[b] * f[k + 1]
    BY <2>1, <2>2, <2>3, <2>5
  <2>7. k + 1 \in 0..c
    BY <1>6
  <2> QED
    BY <2>6, <2>7
<1>7. c \in S
  <2> HIDE DEF S
  <2>1. 0..c \subseteq S
    BY <1>5, <1>6, Induction
  <2> QED
    BY <2>1
<1> QED
  BY <1>2, <1>7 DEF list, fac

-----------------------------------------------------------------------------
(* How many choices there are *)

LEMMA ChoicesAreFinite ==
    ASSUME NEW S, IsFiniteSet(S), NEW k \in Nat
    PROVE  /\ IsFiniteSet(kSubset(k, S)) /\ Cardinality(kSubset(k, S)) \in Nat
           /\ k > Cardinality(S) => kSubset(k, S) = {}
           /\ \A s \in kSubset(k, S) : s \subseteq S /\ IsFiniteSet(s) /\ Cardinality(s) = k
<1>1. kSubset(k, S) \in SUBSET (SUBSET S)
  BY DEF kSubset
<1>2. IsFiniteSet(SUBSET S)
  BY FS_SUBSET
<1>3. IsFiniteSet(kSubset(k, S))
  BY <1>1, <1>2, FS_Subset
<1>4. \A s \in kSubset(k, S) : s \subseteq S /\ Cardinality(s) = k
  BY DEF kSubset
<1>5. \A s \in kSubset(k, S) : IsFiniteSet(s) /\ k <= Cardinality(S)
  BY <1>4, FS_Subset
<1>6. Cardinality(S) \in Nat /\ Cardinality(kSubset(k, S)) \in Nat
  BY <1>3, FS_CardinalityType
<1>7. k > Cardinality(S) => kSubset(k, S) = {}
  BY <1>5, <1>6
<1> QED
  BY <1>3, <1>4, <1>5, <1>6, <1>7

\* The choices with and without one more.
LEMMA OneMoreToChoose ==
    ASSUME NEW S, IsFiniteSet(S), NEW x, x \notin S, NEW k \in Nat
    PROVE  Cardinality(kSubset(k + 1, S \cup {x}))
               = Cardinality(kSubset(k + 1, S)) + Cardinality(kSubset(k, S))
<1> DEFINE A == kSubset(k + 1, S)
           C == kSubset(k, S)
           f == [s \in C |-> s \cup {x}]
           B == {s \cup {x} : s \in C}
<1>1. /\ IsFiniteSet(A) /\ IsFiniteSet(C) /\ Cardinality(A) \in Nat /\ Cardinality(C) \in Nat
      /\ \A s \in A : s \subseteq S /\ x \notin s
      /\ \A s \in C : s \subseteq S /\ IsFiniteSet(s) /\ Cardinality(s) = k /\ x \notin s
  BY ChoicesAreFinite
<1>2. f \in Bijection(C, B)
  <2>1. f \in [C -> B]
    OBVIOUS
  <2>2. \A s, t \in C : f[s] = f[t] => s = t
    <3> SUFFICES ASSUME NEW s \in C, NEW t \in C, s \cup {x} = t \cup {x}
                 PROVE  s = t
      OBVIOUS
    <3>1. x \notin s /\ x \notin t
      BY <1>1
    <3> QED
      BY <3>1
  <2>3. \A b \in B : \E s \in C : f[s] = b
    OBVIOUS
  <2> HIDE DEF f, B
  <2> QED
    BY <2>1, <2>2, <2>3, Fun_IsBij
<1>3. IsFiniteSet(B) /\ Cardinality(B) = Cardinality(C)
  <2>1. ExistsBijection(C, B)
    BY <1>2 DEF ExistsBijection
  <2> HIDE DEF B, C
  <2> QED
    BY <1>1, <2>1, FS_Bijection
<1>4. A \cap B = {}
  BY <1>1
<1>5. kSubset(k + 1, S \cup {x}) = A \cup B
  <2>1. ASSUME NEW s \in A PROVE s \in kSubset(k + 1, S \cup {x})
    BY DEF kSubset
  <2>2. ASSUME NEW s \in C PROVE s \cup {x} \in kSubset(k + 1, S \cup {x})
    <3>1. s \subseteq S /\ IsFiniteSet(s) /\ Cardinality(s) = k /\ x \notin s
      BY <1>1
    <3>2. Cardinality(s \cup {x}) = k + 1
      BY <3>1, FS_AddElement
    <3> QED
      BY <3>1, <3>2 DEF kSubset
  <2>3. ASSUME NEW s \in kSubset(k + 1, S \cup {x}) PROVE s \in A \cup B
    <3>1. IsFiniteSet(S \cup {x}) /\ k + 1 \in Nat
      BY FS_AddElement
    <3>2. s \subseteq S \cup {x} /\ IsFiniteSet(s) /\ Cardinality(s) = k + 1
      BY <3>1, ChoicesAreFinite
    <3>3. CASE x \notin s
      BY <3>2, <3>3 DEF kSubset
    <3>4. CASE x \in s
      <4>0. Cardinality(s \ {x}) = Cardinality(s) - 1
        BY <3>2, <3>4, FS_RemoveElement, ZenonT(40)
      <4>1. Cardinality(s \ {x}) = k
        BY <3>2, <4>0
      <4>2. s \ {x} \in C
        BY <3>2, <4>1 DEF kSubset
      <4>3. s = (s \ {x}) \cup {x}
        BY <3>4
      <4> QED
        BY <4>2, <4>3
    <3> QED
      BY <3>3, <3>4
  <2> HIDE DEF A, C
  <2> QED
    BY <2>1, <2>2, <2>3
<1>6. Cardinality({}) = 0
  BY FS_EmptySet
<1> HIDE DEF A, B, C
<1>7. Cardinality(A \cup B) = Cardinality(A) + Cardinality(B) - Cardinality(A \cap B)
  BY <1>1, <1>3, FS_Union
<1>8. Cardinality(A \cup B) = Cardinality(A) + Cardinality(C)
  <2>1. Cardinality(A \cap B) = 0
    BY <1>4, <1>6
  <2>2. Cardinality(A) \in Nat /\ Cardinality(C) \in Nat /\ Cardinality(B) = Cardinality(C)
    BY <1>1, <1>3
  <2> QED
    BY <1>7, <2>1, <2>2
<1> QED
  BY <1>5, <1>8 DEF A, C

\* Of m there are m! / (k! (m - k)!) choices of k.
CountedChoices(m, S) ==
    \A k \in 0..m :
        Cardinality(kSubset(k, S)) * (factorial[k] * factorial[m - k]) = factorial[m]

\* The arithmetic of Pascal's triangle.
LEMMA Pascal ==
    ASSUME NEW a \in Nat, NEW b \in Nat, NEW p \in Nat, NEW q \in Nat, NEW t \in Nat,
           NEW i \in Nat, NEW j \in Nat, a * ((i * p) * q) = t, b * (p * (j * q)) = t
    PROVE  (a + b) * ((i * p) * (j * q)) = (i + j) * t
<1>1. a * ((i * p) * (j * q)) = j * (a * ((i * p) * q))
  OBVIOUS
<1>2. b * ((i * p) * (j * q)) = i * (b * (p * (j * q)))
  OBVIOUS
<1> DEFINE r == (i * p) * (j * q)
<1>3. r \in Nat /\ a * r = j * t /\ b * r = i * t
  BY <1>1, <1>2
<1> HIDE DEF r
<1>4. (a + b) * r = a * r + b * r
  BY <1>3
<1>5. (i + j) * t = i * t + j * t
  OBVIOUS
<1>6. i * t \in Nat /\ j * t \in Nat
  OBVIOUS
<1> QED
  BY <1>3, <1>4, <1>5, <1>6 DEF r

LEMMA NoneToChoose ==
    ASSUME NEW S, IsFiniteSet(S)
    PROVE  Cardinality(kSubset(0, S)) = 1
<1>1. \A s \in kSubset(0, S) : IsFiniteSet(s) /\ Cardinality(s) = 0
  BY ChoicesAreFinite
<1>2. \A s \in kSubset(0, S) : s = {}
  BY <1>1, FS_EmptySet
<1>3. {} \in kSubset(0, S)
  BY FS_EmptySet DEF kSubset
<1>4. kSubset(0, S) = {{}}
  BY <1>2, <1>3
<1> QED
  BY <1>4, FS_Singleton

LEMMA OneMoreCounted ==
    ASSUME NEW S, IsFiniteSet(S), NEW m \in Nat, Cardinality(S) = m, CountedChoices(m, S),
           NEW x, x \notin S
    PROVE  CountedChoices(m + 1, S \cup {x})
<1> DEFINE fac == factorial
           N(k) == Cardinality(kSubset(k, S))
           M(k) == Cardinality(kSubset(k, S \cup {x}))
<1>1. fac[0] = 1 /\ \A n \in Nat : fac[n] \in Nat \ {0} /\ fac[n + 1] = (n + 1) * fac[n]
  BY FactorialFacts
<1>2. \A k \in 0..m : N(k) * (fac[k] * fac[m - k]) = fac[m]
  BY DEF CountedChoices
<1>3. M(0) = 1
  <2>1. IsFiniteSet(S \cup {x})
    BY FS_AddElement
  <2> QED
    BY <2>1, NoneToChoose
<1>4. \A k \in Nat : M(k + 1) = N(k + 1) + N(k)
  BY OneMoreToChoose
<1>5. N(m + 1) = 0
  <2>1. kSubset(m + 1, S) = {}
    <3>1. m + 1 > m /\ m + 1 \in Nat
      OBVIOUS
    <3> QED
      BY <3>1, ChoicesAreFinite
  <2> QED
    BY <2>1, FS_EmptySet
<1>6. \A k \in Nat : N(k) \in Nat
  BY ChoicesAreFinite
<1> HIDE DEF fac, M, N
<1> SUFFICES ASSUME NEW k \in 0..(m + 1)
             PROVE  M(k) * (fac[k] * fac[(m + 1) - k]) = fac[m + 1]
  BY DEF CountedChoices, fac, M
<1>7. CASE k = 0
  <2>1. (m + 1) - 0 = m + 1 /\ fac[m + 1] \in Nat
    BY <1>1
  <2>2. 1 * (1 * fac[m + 1]) = fac[m + 1]
    BY <2>1
  <2> QED
    BY <1>1, <1>3, <1>7, <2>1, <2>2
<1>8. CASE k = m + 1
  <2>1. M(m + 1) = N(m) /\ N(m) \in Nat
    <3>1. N(m) \in Nat
      BY <1>6
    <3> QED
      BY <1>4, <1>5, <3>1
  <2>2. N(m) * (fac[m] * 1) = fac[m]
    <3>1. m \in 0..m /\ m - m = 0
      OBVIOUS
    <3> QED
      BY <1>1, <1>2, <3>1
  <2>3. fac[m + 1] = (m + 1) * fac[m] /\ fac[m] \in Nat
    BY <1>1
  <2>4. \A n, i, t \in Nat : n * ((i * t) * 1) = i * (n * (t * 1))
    OBVIOUS
  <2>5. N(m) * (fac[m + 1] * 1) = (m + 1) * (N(m) * (fac[m] * 1))
    BY <2>1, <2>3, <2>4
  <2>6. (m + 1) - (m + 1) = 0
    OBVIOUS
  <2> QED
    BY <1>1, <1>8, <2>1, <2>2, <2>3, <2>5, <2>6
<1>9. CASE k # 0 /\ k # m + 1
  <2>1. PICK l \in Nat : k = l + 1 /\ l + 1 \in 0..m /\ l \in 0..m
    <3>1. k - 1 \in Nat /\ k = (k - 1) + 1 /\ (k - 1) + 1 \in 0..m /\ k - 1 \in 0..m
      BY <1>9
    <3> QED
      BY <3>1
  <2>2. PICK j \in Nat : m - (l + 1) = j /\ m - l = j + 1 /\ (m + 1) - k = j + 1
                         /\ (l + 1) + (j + 1) = m + 1
    <3>1. m - (l + 1) \in Nat /\ m - l = (m - (l + 1)) + 1 /\ (m + 1) - k = (m - (l + 1)) + 1
          /\ (l + 1) + ((m - (l + 1)) + 1) = m + 1
      BY <2>1
    <3> QED
      BY <3>1
  <2>3. N(l + 1) * (fac[l + 1] * fac[j]) = fac[m] /\ N(l) * (fac[l] * fac[j + 1]) = fac[m]
    BY <1>2, <2>1, <2>2
  <2>4. /\ fac[l + 1] = (l + 1) * fac[l] /\ fac[j + 1] = (j + 1) * fac[j]
        /\ fac[m + 1] = (m + 1) * fac[m]
        /\ fac[l] \in Nat /\ fac[j] \in Nat /\ fac[m] \in Nat
    BY <1>1
  <2>5. /\ N(l + 1) * (((l + 1) * fac[l]) * fac[j]) = fac[m]
        /\ N(l) * (fac[l] * ((j + 1) * fac[j])) = fac[m]
    BY <2>3, <2>4
  <2>6. N(l) \in Nat /\ N(l + 1) \in Nat /\ l + 1 \in Nat /\ j + 1 \in Nat
    BY <1>6
  <2> DEFINE a == N(l + 1)
             b == N(l)
             p == fac[l]
             q == fac[j]
             t == fac[m]
             i == l + 1
             h == j + 1
  <2>7. /\ a \in Nat /\ b \in Nat /\ p \in Nat /\ q \in Nat /\ t \in Nat /\ i \in Nat /\ h \in Nat
        /\ a * ((i * p) * q) = t /\ b * (p * (h * q)) = t
    BY <2>4, <2>5, <2>6
  <2> HIDE DEF a, b, p, q, t, i, h
  <2>8. (a + b) * ((i * p) * (h * q)) = (i + h) * t
    BY <2>7, Pascal
  <2>9. M(k) = a + b
    BY <1>4, <2>1 DEF a, b
  <2> QED
    BY <2>1, <2>2, <2>4, <2>8, <2>9 DEF p, q, t, i, h
<1> QED
  BY <1>7, <1>8, <1>9

LEMMA ChoicesCounted ==
    ASSUME NEW S, IsFiniteSet(S)
    PROVE  CountedChoices(Cardinality(S), S)
<1> DEFINE n == Cardinality(S)
           P == {m \in 0..n :
                    \A T \in SUBSET S : Cardinality(T) = m => CountedChoices(m, T)}
<1>1. n \in Nat
  BY FS_CardinalityType
<1>2. 0 \in P
  <2> SUFFICES ASSUME NEW T \in SUBSET S, Cardinality(T) = 0
               PROVE  CountedChoices(0, T)
    BY <1>1
  <2>1. IsFiniteSet(T)
    BY FS_Subset
  <2>2. Cardinality(kSubset(0, T)) = 1
    BY <2>1, NoneToChoose
  <2>3. factorial[0] = 1
    BY FactorialFacts
  <2>4. (\A k \in 0..0 : k = 0) /\ 0 - 0 = 0
    OBVIOUS
  <2>5. 1 * (1 * 1) = 1
    OBVIOUS
  <2> QED
    BY <2>2, <2>3, <2>4, <2>5 DEF CountedChoices
<1>3. ASSUME NEW m \in 0..(n - 1), m \in P
      PROVE  m + 1 \in P
  <2> SUFFICES ASSUME NEW T \in SUBSET S, Cardinality(T) = m + 1
               PROVE  CountedChoices(m + 1, T)
    BY <1>1, <1>3
  <2>1. IsFiniteSet(T)
    BY FS_Subset
  <2>2. T # {}
    BY <1>1, FS_EmptySet
  <2>3. PICK x \in T : TRUE
    BY <2>2
  <2> DEFINE U == T \ {x}
  <2>4. /\ IsFiniteSet(U) /\ Cardinality(U) = m /\ x \notin U /\ T = U \cup {x}
        /\ U \in SUBSET S /\ m \in Nat
    <3>1. IsFiniteSet(U) /\ Cardinality(U) = Cardinality(T) - 1
      BY <2>1, <2>3, FS_RemoveElement
    <3> QED
      BY <1>1, <2>3, <3>1
  <2>5. CountedChoices(m, U)
    BY <1>3, <2>4
  <2> HIDE DEF U
  <2> QED
    BY <2>4, <2>5, OneMoreCounted
<1>4. n \in P
  <2> HIDE DEF P
  <2>1. 0..n \subseteq P
    BY <1>1, <1>2, <1>3, Induction
  <2> QED
    BY <1>1, <2>1
<1>5. \A T \in SUBSET S : Cardinality(T) = n => CountedChoices(n, T)
  BY <1>4
<1>6. S \in SUBSET S
  OBVIOUS
<1>7. CountedChoices(n, S)
  BY <1>5, <1>6
<1> QED
  BY <1>7

-----------------------------------------------------------------------------
(* pass@k *)

Score(r) == IF r.answer = Right THEN 1 ELSE 0

\* The reward of each response, if none is torn.
LEMMA RightOnes ==
    ASSUME NEW n \in Nat, NEW g \in [1..n -> Responses]
    PROVE  Total([i \in 1..n |-> Score(g[i])]) = Cardinality({i \in 1..n : g[i].answer = Right})
<1> DEFINE list == [i \in 1..n |-> Score(g[i])]
           right(m) == {i \in 1..m : g[i].answer = Right}
           S == {m \in 0..n : /\ IsFiniteSet(right(m)) /\ Cardinality(right(m)) \in Nat
                              /\ Total(SubSeq(list, 1, m)) = Cardinality(right(m))}
<1>1. list \in Seq(Int) /\ Len(list) = n /\ \A i \in 1..n : list[i] = Score(g[i])
  <2>1. list \in [1..n -> Int]
    BY DEF Score
  <2> HIDE DEF list
  <2>2. list \in Seq(Int) /\ Len(list) = n
    BY <2>1, ListOf
  <2> QED
    BY <2>2 DEF list
<1> HIDE DEF list
<1>2. /\ SubSeq(list, 1, 0) = <<>> /\ SubSeq(list, 1, n) = list
      /\ \A m \in 0..(n - 1) : /\ SubSeq(list, 1, m) \in Seq(Int) /\ list[m + 1] \in Int
                               /\ SubSeq(list, 1, m + 1) = Append(SubSeq(list, 1, m), list[m + 1])
  BY <1>1, PrefixFacts
<1>3. 0 \in S
  <2>1. right(0) = {}
    OBVIOUS
  <2>2. Total(SubSeq(list, 1, 0)) = 0
    BY <1>2, TotalEmpty, Zenon
  <2> QED
    BY <2>1, <2>2, FS_EmptySet
<1>4. ASSUME NEW m \in 0..(n - 1), m \in S
      PROVE  m + 1 \in S
  <2>1. Total(SubSeq(list, 1, m + 1)) = Total(SubSeq(list, 1, m)) + list[m + 1]
    BY <1>2, TotalAppend
  <2>2. m + 1 \in 1..n /\ m + 1 \in 0..n /\ m + 1 \notin 1..m /\ 1..(m + 1) = 1..m \cup {m + 1}
    OBVIOUS
  <2>3. list[m + 1] = Score(g[m + 1])
    BY <1>1, <2>2
  <2> DEFINE a == right(m)
             b == right(m + 1)
  <2>4. /\ IsFiniteSet(a) /\ Cardinality(a) \in Nat
        /\ Total(SubSeq(list, 1, m)) = Cardinality(a)
    BY <1>4
  <2>5. CASE g[m + 1].answer = Right
    <3>1. b = a \cup {m + 1} /\ m + 1 \notin a
      BY <2>2, <2>5
    <3> HIDE DEF a, b
    <3>2. IsFiniteSet(b) /\ Cardinality(b) = Cardinality(a) + 1
      BY <2>4, <3>1, FS_AddElement
    <3>3. list[m + 1] = 1
      BY <2>3, <2>5 DEF Score
    <3>4. Total(SubSeq(list, 1, m + 1)) = Cardinality(b) /\ Cardinality(b) \in Nat
      BY <2>1, <2>4, <3>2, <3>3
    <3> QED
      BY <2>2, <3>2, <3>4 DEF b
  <2>6. CASE g[m + 1].answer # Right
    <3>1. b = a
      BY <2>2, <2>6
    <3> HIDE DEF a, b
    <3>2. list[m + 1] = 0
      BY <2>3, <2>6 DEF Score
    <3>3. Total(SubSeq(list, 1, m + 1)) = Cardinality(b)
      BY <2>1, <2>4, <3>1, <3>2
    <3> QED
      BY <2>2, <2>4, <3>1, <3>3 DEF b
  <2> QED
    BY <2>5, <2>6
<1>5. n \in S
  <2> HIDE DEF S
  <2>1. 0..n \subseteq S
    BY <1>3, <1>4, Induction
  <2> QED
    BY <2>1
<1> QED
  BY <1>2, <1>5 DEF list

\* What the product in eval_pass_k is for: all choices of k but those that avoid
\* the c right ones.
LEMMA PassArithmetic ==
    ASSUME NEW all \in Nat, NEW none \in Nat, NEW p \in Nat, NEW q \in Nat, NEW r \in Nat,
           NEW w \in Nat, NEW t \in Nat, all * (p * (q * r)) = t, none * (p * q) = w
    PROVE  (all - none) * (p * (q * r)) = t - r * w
<1> DEFINE s == p * (q * r)
<1>1. s \in Nat /\ all * s = t
  OBVIOUS
<1>2. none * s = r * (none * (p * q))
  OBVIOUS
<1>3. none * s = r * w /\ r * w \in Nat
  BY <1>2
<1> HIDE DEF s
<1>4. (all - none) * s = all * s - none * s
  BY <1>1
<1> QED
  BY <1>1, <1>3, <1>4 DEF s

LEMMA Quotient == \A x \in Nat \ {0}, y \in Nat : (x * y) \div x = y
  OBVIOUS

LEMMA PassOfGroupIsPassAtK ==
    ASSUME NEW n \in Nat, NEW k \in 1..n, NEW g \in [1..n -> Responses]
    PROVE  PassOfGroup(n, Cardinality({i \in 1..n : g[i].answer = Right}), k) = PassAtK(g, n, k)
<1> DEFINE fac == factorial
           N == 1..n
           A == {i \in N : g[i].answer = Right}
           W == N \ A
           c == Cardinality(A)
           all == Cardinality(kSubset(k, N))
           none == Cardinality(kSubset(k, W))
           good == {s \in kSubset(k, N) : \E i \in s : g[i].answer = Right}
<1>1. /\ fac[0] = 1
      /\ \A m \in Nat : fac[m] \in Nat \ {0} /\ fac[m + 1] = (m + 1) * fac[m]
  BY FactorialFacts
<1>2. IsFiniteSet(N) /\ Cardinality(N) = n
  <2>1. IsFiniteSet(1..n) /\ Cardinality(1..n) = IF 1 > n THEN 0 ELSE n - 1 + 1
    BY FS_Interval
  <2> QED
    BY <2>1
<1>3. /\ IsFiniteSet(A) /\ IsFiniteSet(W) /\ c \in 0..n /\ Cardinality(W) = n - c
  <2>1. A \in SUBSET N
    OBVIOUS
  <2>2. N \cap A = A
    OBVIOUS
  <2> HIDE DEF N, A
  <2>3. IsFiniteSet(A) /\ c <= n /\ c \in Nat
    BY <1>2, <2>1, FS_Subset, FS_CardinalityType
  <2>4. IsFiniteSet(W) /\ Cardinality(W) = Cardinality(N) - Cardinality(N \cap A)
    BY <1>2, FS_Difference
  <2>5. Cardinality(W) = n - c
    BY <1>2, <2>2, <2>4
  <2>6. c \in 0..n
    BY <2>3
  <2> QED
    BY <2>3, <2>4, <2>5, <2>6
<1>4. /\ k \in Nat /\ k \in 0..n /\ n - k \in Nat /\ n - c \in Nat
  BY <1>3
<1>5. /\ all \in Nat /\ IsFiniteSet(kSubset(k, N)) /\ none \in Nat
      /\ k > n - c => kSubset(k, W) = {}
  <2> HIDE DEF N, W, c
  <2> QED
    BY <1>2, <1>3, <1>4, ChoicesAreFinite
<1>6. all * (fac[k] * fac[n - k]) = fac[n]
  <2>1. CountedChoices(n, N)
    <3> HIDE DEF N
    <3> QED
      BY <1>2, ChoicesCounted
  <2> QED
    BY <1>4, <2>1 DEF CountedChoices
<1>7. all # 0 /\ fac[n] \div all = fac[k] * fac[n - k]
  <2> DEFINE x == all
             y == fac[k] * fac[n - k]
  <2>1. x \in Nat /\ y \in Nat /\ fac[n] # 0 /\ x * y = fac[n]
    <3>1. fac[k] \in Nat /\ fac[n - k] \in Nat /\ fac[n] # 0
      BY <1>1, <1>4
    <3>2. \A u, v \in Nat : u * v \in Nat
      OBVIOUS
    <3> QED
      BY <1>5, <1>6, <3>1, <3>2
  <2> HIDE DEF x, y
  <2>2. x # 0
    BY <2>1
  <2>3. (x * y) \div x = y
    BY <2>1, <2>2, Quotient
  <2> QED
    BY <2>1, <2>2, <2>3 DEF x, y
<1>8. Cardinality(good) = all - none
  <2>1. good = kSubset(k, N) \ kSubset(k, W)
    BY DEF kSubset
  <2>2. kSubset(k, N) \cap kSubset(k, W) = kSubset(k, W)
    BY DEF kSubset
  <2> HIDE DEF good, N, W
  <2> QED
    BY <1>5, <2>1, <2>2, FS_Difference
<1>9. PassAtK(g, n, k) = Cardinality(good) * (fac[n] \div all)
  BY DEF PassAtK, Share, Draws
<1> HIDE DEF fac, N, A, W, all, none, good
<1>10. PassAtK(g, n, k) = (all - none) * (fac[k] * fac[n - k])
  BY <1>7, <1>8, <1>9
<1>11. CASE n - c < k
  <2>1. none = 0
    BY <1>3, <1>4, <1>5, <1>11, FS_EmptySet DEF none
  <2>2. PassOfGroup(n, c, k) = fac[n]
    BY <1>11 DEF PassOfGroup, fac
  <2>3. all - none = all
    BY <1>5, <2>1
  <2> QED
    BY <1>6, <1>10, <2>2, <2>3 DEF c, A, N
<1>12. CASE ~(n - c < k)
  <2> DEFINE b == n - c
             up == Product([i \in 1..c |-> n - c + i - k])
             down == Product([i \in 1..c |-> n - c + i])
  <2>1. b \in Nat /\ b - k \in Nat /\ c \in Nat /\ b + c = n /\ (b - k) + c = n - k
    BY <1>3, <1>4, <1>12
  <2>2. down \in Nat \ {0} /\ fac[n] = fac[b] * down
    <3>1. Product([i \in 1..c |-> b + i]) \in Nat \ {0}
          /\ factorial[b + c] = factorial[b] * Product([i \in 1..c |-> b + i])
      BY <2>1, FactorialProduct
    <3> QED
      BY <2>1, <3>1 DEF fac
  <2>3. up \in Nat \ {0} /\ fac[n - k] = fac[b - k] * up
    <3> DEFINE d == b - k
    <3>1. Product([i \in 1..c |-> d + i]) \in Nat \ {0}
          /\ factorial[d + c] = factorial[d] * Product([i \in 1..c |-> d + i])
      <4>1. d \in Nat
        BY <2>1
      <4> HIDE DEF d
      <4> QED
        BY <2>1, <4>1, FactorialProduct
    <3>2. [i \in 1..c |-> d + i] = [i \in 1..c |-> n - c + i - k]
      BY <1>4, <2>1
    <3> QED
      BY <2>1, <3>1, <3>2 DEF fac
  <2>4. fac[n] \div down = fac[b]
    <3>1. fac[b] \in Nat /\ fac[b] * down = down * fac[b]
      <4>1. fac[b] \in Nat
        BY <1>1, <2>1
      <4>2. \A u, v \in Nat : u * v = v * u
        OBVIOUS
      <4> HIDE DEF down
      <4> QED
        BY <2>2, <4>1, <4>2
    <3> QED
      BY <2>2, <3>1, Quotient
  <2>5. none * (fac[k] * fac[b - k]) = fac[b]
    <3>1. CountedChoices(b, W)
      BY <1>3, ChoicesCounted
    <3>2. k \in 0..b
      BY <1>4, <2>1
    <3> QED
      BY <3>1, <3>2 DEF CountedChoices, fac, none
  <2>6. PassOfGroup(n, c, k) = fac[n] - up * fac[b]
    <3>1. PassOfGroup(n, c, k) = fac[n] - up * (fac[n] \div down)
      BY <1>12 DEF PassOfGroup, fac
    <3> QED
      BY <2>4, <3>1
  <2>7. (all - none) * (fac[k] * (fac[b - k] * up)) = fac[n] - up * fac[b]
    <3> DEFINE p == fac[k]
               q == fac[b - k]
               r == up
               w == fac[b]
               t == fac[n]
    <3>1. p \in Nat /\ q \in Nat /\ r \in Nat /\ w \in Nat /\ t \in Nat
      BY <1>1, <1>4, <2>1, <2>3
    <3>2. all * (p * (q * r)) = t /\ none * (p * q) = w
      BY <1>6, <2>3, <2>5
    <3> HIDE DEF p, q, r, w, t
    <3>3. (all - none) * (p * (q * r)) = t - r * w
      BY <1>5, <3>1, <3>2, PassArithmetic
    <3> QED
      BY <3>3 DEF p, q, r, w, t
  <2>8. PassOfGroup(n, c, k) = PassAtK(g, n, k)
    BY <1>10, <2>3, <2>6, <2>7
  <2> QED
    BY <2>8 DEF c, A, N
<1> QED
  BY <1>11, <1>12

-----------------------------------------------------------------------------
(* cons@k *)

\* combinations(): the places of a choice, in order; the answers there; and who is for one.
Ordered(k, s) == CHOOSE p \in [1..k -> s] : \A i, j \in 1..k : i < j => p[i] < p[j]
AnswersOf(n, g) == [i \in 1..n |-> g[i].answer]
Ballots(k, answers, p) == [i \in 1..k |-> answers[p[i]]]
InFavour(s, answers, a) == {i \in s : answers[i] = a}

LEMMA PlacesInOrder ==
    ASSUME NEW n \in Nat, NEW k \in Nat, NEW s \in kSubset(k, 1..n)
    PROVE  LET p == Ordered(k, s)
           IN  /\ p \in [1..k -> s]
               /\ \A i, j \in 1..k : i < j => p[i] < p[j]
               /\ \A x \in s : \E i \in 1..k : p[i] = x
<1> DEFINE list == [i \in 1..n |-> i]
           kept == Kept(list, s)
           m == Len(kept)
           ordered(p) == \A i, j \in 1..k : i < j => p[i] < p[j]
<1>1. s \subseteq 1..n /\ IsFiniteSet(s) /\ Cardinality(s) = k
  <2> DEFINE N == 1..n
  <2>1. IsFiniteSet(N)
    BY FS_Interval
  <2> HIDE DEF N
  <2>2. s \in kSubset(k, N)
    BY DEF N
  <2>3. s \subseteq N /\ IsFiniteSet(s) /\ Cardinality(s) = k
    BY <2>1, <2>2, ChoicesAreFinite
  <2> QED
    BY <2>3 DEF N
<1>2. list \in Seq(1..n) /\ Len(list) = n /\ \A i \in 1..n : list[i] = i
  <2> DEFINE N == 1..n
  <2>1. list \in [1..n -> N]
    OBVIOUS
  <2> HIDE DEF list, N
  <2>2. list \in Seq(N) /\ Len(list) = n
    BY <2>1, ListOf
  <2> QED
    BY <2>2 DEF list, N
<1> HIDE DEF list
<1>3. PICK at : Keeps(kept, list, s, at)
  BY <1>2, KeptKeeps
<1>4. kept \in Seq(1..n) /\ m \in Nat
  BY <1>2, KeptKeeps
<1> HIDE DEF kept
<1>5. /\ \A i \in 1..m : kept[i] = at[i] /\ kept[i] \in s
      /\ \A i, j \in 1..m : i < j => kept[i] < kept[j]
      /\ \A x \in s : \E i \in 1..m : kept[i] = x
  <2>1. /\ at \in [1..m -> 1..n] /\ \A i, j \in 1..m : i < j => at[i] < at[j]
        /\ \A i \in 1..m : kept[i] = list[at[i]] /\ list[at[i]] \in s
        /\ \A q \in 1..n : list[q] \in s => \E i \in 1..m : at[i] = q
    BY <1>2, <1>3 DEF Keeps
  <2>2. \A i \in 1..m : at[i] \in 1..n /\ kept[i] = at[i] /\ kept[i] \in s
    BY <1>2, <2>1
  <2>3. \A i, j \in 1..m : i < j => kept[i] < kept[j]
    BY <2>1, <2>2
  <2>4. \A x \in s : \E i \in 1..m : kept[i] = x
    <3> SUFFICES ASSUME NEW x \in s
                 PROVE  \E i \in 1..m : kept[i] = x
      OBVIOUS
    <3>1. x \in 1..n /\ list[x] \in s
      BY <1>1, <1>2
    <3>2. PICK i \in 1..m : at[i] = x
      BY <2>1, <3>1
    <3> QED
      BY <2>2, <3>2
  <2> QED
    BY <2>2, <2>3, <2>4
<1>6. kept \in [1..m -> s]
  <2>1. kept \in [1..m -> 1..n]
    BY <1>4
  <2> QED
    BY <1>5, <2>1
<1>7. \A r : r \in [1..m -> s] /\ (\A i, j \in 1..m : i < j => r[i] < r[j]) =>
         \A i, j \in 1..m : r[i] = r[j] => i = j
  <2> SUFFICES ASSUME NEW r \in [1..m -> s], \A i, j \in 1..m : i < j => r[i] < r[j],
                      NEW i \in 1..m, NEW j \in 1..m, r[i] = r[j]
               PROVE  i = j
    OBVIOUS
  <2>1. r[i] \in Int /\ r[j] \in Int
    <3>1. \A x \in s : x \in Int
      BY <1>1
    <3>2. r[i] \in s /\ r[j] \in s
      OBVIOUS
    <3> QED
      BY <3>1, <3>2
  <2>2. ~(i < j) /\ ~(j < i)
    BY <2>1
  <2> QED
    BY <1>4, <2>2
<1>8. IsFiniteSet(1..m) /\ Cardinality(1..m) = m
  <2>1. m \in Nat
    BY <1>4
  <2> HIDE DEF m
  <2>2. IsFiniteSet(1..m) /\ Cardinality(1..m) = IF 1 > m THEN 0 ELSE m - 1 + 1
    BY <2>1, FS_Interval
  <2> QED
    BY <2>1, <2>2
<1>9. m = k
  <2> DEFINE D == 1..m
  <2>1. kept \in [D -> s] /\ (\A i, j \in D : kept[i] = kept[j] => i = j)
        /\ \A x \in s : \E i \in D : kept[i] = x
    BY <1>5, <1>6, <1>7
  <2>2. IsFiniteSet(D) /\ Cardinality(D) = m
    BY <1>8
  <2> HIDE DEF D
  <2>3. kept \in Bijection(D, s)
    BY <2>1, Fun_IsBij
  <2>4. ExistsBijection(D, s)
    BY <2>3 DEF ExistsBijection
  <2>5. Cardinality(s) = Cardinality(D)
    BY <2>2, <2>4, FS_Bijection
  <2> QED
    BY <1>1, <2>2, <2>5
<1> HIDE DEF m
<1>10. kept \in [1..k -> s] /\ ordered(kept)
  BY <1>5, <1>6, <1>9
<1> DEFINE p == CHOOSE p \in [1..k -> s] : ordered(p)
<1>11. p \in [1..k -> s] /\ ordered(p)
  BY <1>10
<1> HIDE DEF p
<1>12. \A x \in s : \E i \in 1..k : p[i] = x
  <2> DEFINE D == 1..k
  <2>1. p \in [D -> s] /\ \A i, j \in D : p[i] = p[j] => i = j
    BY <1>7, <1>9, <1>11
  <2>2. IsFiniteSet(D) /\ Cardinality(D) = Cardinality(s)
    BY <1>1, <1>8, <1>9
  <2> HIDE DEF D
  <2>3. p \in Injection(D, s)
    BY <2>1, Fun_IsInj
  <2>4. p \in Surjection(D, s)
    BY <1>1, <2>2, <2>3, FS_Injection
  <2>5. \A x \in s : \E i \in D : p[i] = x
    BY <2>4 DEF Surjection
  <2> QED
    BY <2>5 DEF D
<1> QED
  BY <1>11, <1>12 DEF p, Ordered

\* Votes, counted over places or over the list of the answers there.
LEMMA VotesCounted ==
    ASSUME NEW k \in Nat, NEW s, NEW p \in [1..k -> s], NEW answers,
           \A i, j \in 1..k : p[i] = p[j] => i = j,
           \A x \in s : \E i \in 1..k : p[i] = x, NEW a
    PROVE  /\ Times(Ballots(k, answers, p), a) = Cardinality(InFavour(s, answers, a))
           /\ Cardinality(InFavour(s, answers, a)) \in 0..k
<1> DEFINE list == [i \in 1..k |-> answers[p[i]]]
           D == {i \in 1..k : list[i] = a}
           E == {l \in s : answers[l] = a}
           f == [i \in D |-> p[i]]
<1>1. IsFiniteSet(D) /\ Cardinality(D) \in Nat /\ Cardinality(D) <= k
  <2>1. IsFiniteSet(1..k) /\ Cardinality(1..k) = IF 1 > k THEN 0 ELSE k - 1 + 1
    BY FS_Interval
  <2>2. Cardinality(1..k) = k
    BY <2>1
  <2>3. D \in SUBSET (1..k)
    OBVIOUS
  <2> HIDE DEF D
  <2>4. IsFiniteSet(D) /\ Cardinality(D) <= Cardinality(1..k)
    BY <2>1, <2>3, FS_Subset
  <2>5. Cardinality(D) \in Nat
    BY <2>4, FS_CardinalityType
  <2> QED
    BY <2>2, <2>4, <2>5
<1>2. \A i \in 1..k : list[i] = answers[p[i]] /\ p[i] \in s
  OBVIOUS
<1>3. f \in Bijection(D, E)
  <2>1. f \in [D -> E]
    BY <1>2
  <2>2. \A i, j \in D : f[i] = f[j] => i = j
    OBVIOUS
  <2>3. \A l \in E : \E i \in D : f[i] = l
    <3> SUFFICES ASSUME NEW l \in E
                 PROVE  \E i \in D : f[i] = l
      OBVIOUS
    <3>1. PICK i \in 1..k : p[i] = l
      OBVIOUS
    <3>2. list[i] = a
      BY <1>2, <3>1
    <3> QED
      BY <3>1, <3>2
  <2> HIDE DEF f, D, E
  <2> QED
    BY <2>1, <2>2, <2>3, Fun_IsBij
<1>4. ExistsBijection(D, E)
  BY <1>3 DEF ExistsBijection
<1>5. Times(list, a) = Cardinality(D)
  BY DEF Times
<1> HIDE DEF D, E, list
<1>6. Cardinality(E) = Cardinality(D)
  BY <1>1, <1>4, FS_Bijection
<1>7. list = Ballots(k, answers, p) /\ E = InFavour(s, answers, a)
  BY DEF Ballots, InFavour, list, E
<1> QED
  BY <1>1, <1>5, <1>6, <1>7

\* majority_vote chooses a most frequent answer, where it comes first.
Chosen(list, i) ==
    /\ \A j \in DOMAIN list : Times(list, list[j]) <= Times(list, list[i])
    /\ \A j \in 1..i - 1 : Times(list, list[j]) < Times(list, list[i])

LEMMA MajorityIsChosen ==
    ASSUME NEW k \in Nat \ {0}, NEW list, DOMAIN list = 1..k,
           \A i \in 1..k : Times(list, list[i]) \in 0..k
    PROVE  \E i \in 1..k : Chosen(list, i) /\ Majority(list) = list[i]
<1> DEFINE t(i) == Times(list, list[i])
           D == {k - t(i) : i \in 1..k}
<1>1. D \in SUBSET Nat /\ D # {}
  <2>1. \A i \in 1..k : k - t(i) \in Nat
    OBVIOUS
  <2>2. 1 \in 1..k
    OBVIOUS
  <2> QED
    BY <2>1, <2>2
<1>2. PICK d \in D : \A e \in D : d <= e
  <2> HIDE DEF D
  <2> QED
    BY <1>1, LeastExists
<1>3. PICK h \in 1..k : d = k - t(h)
  BY <1>2
<1>4. \A j \in 1..k : t(j) \in Nat /\ t(j) <= t(h)
  <2> TAKE j \in 1..k
  <2>1. k - t(j) \in D /\ t(j) \in 0..k /\ t(h) \in 0..k
    OBVIOUS
  <2>2. k - t(h) <= k - t(j)
    BY <1>2, <1>3, <2>1
  <2> HIDE DEF D, t
  <2> QED
    BY <2>1, <2>2
<1> DEFINE E == {i \in 1..k : t(i) = t(h)}
<1>5. PICK i \in E : \A j \in E : i <= j
  <2>1. E \in SUBSET Nat /\ h \in E
    OBVIOUS
  <2> HIDE DEF E
  <2> QED
    BY <2>1, LeastExists
<1>6. i \in 1..k /\ t(i) = t(h)
  BY <1>5
<1>7. \A j \in 1..(i - 1) : t(j) < t(i)
  <2> TAKE j \in 1..(i - 1)
  <2>1. j \in 1..k /\ j < i
    BY <1>6
  <2>2. t(j) # t(h)
    BY <1>5, <2>1
  <2>3. t(j) \in Nat /\ t(h) \in Nat /\ t(j) <= t(h)
    BY <1>4, <2>1
  <2> HIDE DEF t
  <2> QED
    BY <1>6, <2>2, <2>3
<1>8. Chosen(list, i)
  BY <1>4, <1>6, <1>7 DEF Chosen
<1> DEFINE c == CHOOSE c \in DOMAIN list : Chosen(list, c)
<1>9. c \in 1..k /\ Chosen(list, c)
  BY <1>6, <1>8
<1>10. Majority(list) = list[c]
  BY DEF Majority, Chosen
<1> QED
  BY <1>9, <1>10

LEMMA FirstPlace ==
    ASSUME NEW n \in Nat, NEW list, NEW a, NEW l \in 1..n, list[l] = a
    PROVE  LET I == InFavour(1..n, list, a)
           IN  I # {} /\ Min(I) \in 1..n /\ list[Min(I)] = a
<1> DEFINE I == {i \in 1..n : list[i] = a}
<1>1. I \in SUBSET Nat /\ I # {}
  OBVIOUS
<1>2. \E x \in I : \A y \in I : x <= y
  <2> HIDE DEF I
  <2> QED
    BY <1>1, LeastExists
<1>3. Min(I) \in I
  <2> HIDE DEF I
  <2> QED
    BY <1>2 DEF Min
<1> QED
  BY <1>1, <1>3 DEF InFavour

Elected(n, k, g, s, p) ==
    \E w \in s : /\ Majority(Ballots(k, AnswersOf(n, g), p)) = g[w].answer
                 /\ Wins(g, s, w)
                 /\ \A i \in s : Wins(g, s, i) => g[i].answer = g[w].answer

\* Whom a choice elects: by the vote over the list of its answers, and by what
\* winning means.
LEMMA WinnerIsMajority ==
    ASSUME NEW n \in Nat, NEW k \in Nat \ {0}, NEW g \in [1..n -> Responses],
           NEW s \in kSubset(k, 1..n),
           NEW p \in [1..k -> s], \A i, j \in 1..k : i < j => p[i] < p[j],
           \A x \in s : \E i \in 1..k : p[i] = x
    PROVE  Elected(n, k, g, s, p)
<1> DEFINE A == AnswersOf(n, g)
           list == Ballots(k, A, p)
           V(x) == Cardinality({l \in s : g[l].answer = g[x].answer})
<1>1. s \subseteq 1..n
  BY DEF kSubset
<1>2. \A l \in s : l \in Int /\ A[l] = g[l].answer
  BY <1>1 DEF AnswersOf
<1>3. \A i \in 1..k : p[i] \in s /\ list[i] = g[p[i]].answer
  BY <1>2 DEF Ballots
<1>4. \A i, j \in 1..k : p[i] = p[j] => i = j
  <2> SUFFICES ASSUME NEW i \in 1..k, NEW j \in 1..k, p[i] = p[j]
               PROVE  i = j
    OBVIOUS
  <2>1. p[i] \in Int /\ p[j] \in Int
    BY <1>2, <1>3
  <2>2. ~(i < j) /\ ~(j < i)
    BY <2>1
  <2> QED
    BY <2>2
<1> HIDE DEF A
<1>5. \A a : /\ Times(list, a) = Cardinality(InFavour(s, A, a))
             /\ Cardinality(InFavour(s, A, a)) \in 0..k
  <2> TAKE a
  <2>1. k \in Nat /\ p \in [1..k -> s] /\ \A x \in s : \E i \in 1..k : p[i] = x
    OBVIOUS
  <2> QED
    BY ONLY <1>4, <2>1, VotesCounted
<1>6. \A a : InFavour(s, A, a) = {l \in s : g[l].answer = a}
  BY <1>2 DEF InFavour
<1>7. \A i \in 1..k : Times(list, list[i]) = V(p[i]) /\ V(p[i]) \in 0..k
  <2> SUFFICES ASSUME NEW i \in 1..k
               PROVE  Times(list, list[i]) = V(p[i]) /\ V(p[i]) \in 0..k
    OBVIOUS
  <2>1. list[i] = g[p[i]].answer
    BY <1>3
  <2> HIDE DEF list
  <2>2. V(p[i]) = Cardinality(InFavour(s, A, list[i]))
    BY <1>6, <2>1
  <2> QED
    BY <1>5, <2>2
<1>8. \A i \in 1..k : Times(list, list[i]) \in 0..k
  BY <1>7
<1>9. PICK h \in 1..k : Chosen(list, h) /\ Majority(list) = list[h]
  <2>1. DOMAIN list = 1..k
    BY DEF Ballots
  <2> HIDE DEF list
  <2> QED
    BY <1>8, <2>1, MajorityIsChosen
<1> DEFINE w == p[h]
<1>10. /\ \A j \in 1..k : V(p[j]) <= V(w)
       /\ \A j \in 1..(h - 1) : V(p[j]) < V(w)
  <2>1. /\ \A j \in 1..k : Times(list, list[j]) <= Times(list, list[h])
        /\ \A j \in 1..(h - 1) : Times(list, list[j]) < Times(list, list[h])
    <3>1. DOMAIN list = 1..k
      BY DEF Ballots
    <3> HIDE DEF list
    <3> QED
      BY <1>9, <3>1 DEF Chosen
  <2>2. \A j \in 1..(h - 1) : j \in 1..k
    OBVIOUS
  <2> HIDE DEF list, V
  <2> QED
    BY <1>7, <2>1, <2>2
<1>11. w \in s /\ \A x \in s : V(x) \in Nat /\ V(x) <= V(w)
  <2> HIDE DEF V
  <2>1. \A x \in s : V(x) \in 0..k /\ V(x) <= V(w)
    BY <1>7, <1>10
  <2> QED
    BY <1>3, <2>1
<1>12. \A x \in s : V(x) = V(w) => w <= x
  <2> SUFFICES ASSUME NEW x \in s, V(x) = V(w)
               PROVE  w <= x
    OBVIOUS
  <2>1. PICK j \in 1..k : p[j] = x
    OBVIOUS
  <2> HIDE DEF V
  <2>2. V(x) \in Nat
    BY <1>11
  <2>3. ~(j \in 1..(h - 1))
    BY <1>10, <2>1, <2>2
  <2>4. h <= j
    BY <2>3
  <2>5. p[h] \in Int /\ p[j] \in Int
    BY <1>2, <1>3
  <2>6. p[h] <= p[j]
    BY <2>4, <2>5
  <2> QED
    BY <2>1, <2>6
<1>13. \A x, y \in s : g[x].answer = g[y].answer => V(x) = V(y)
  OBVIOUS
<1>14. \A i : Wins(g, s, i) <=>
          \A j \in s : V(j) < V(i) \/ (V(j) = V(i) /\ \E l \in s :
              /\ g[l].answer = g[i].answer
              /\ \A m \in s : g[m].answer = g[j].answer => l <= m)
  BY DEF Wins
<1> HIDE DEF V, w, list
<1>15. Wins(g, s, w)
  <2> SUFFICES ASSUME NEW j \in s, ~(V(j) < V(w))
               PROVE  V(j) = V(w) /\ \A m \in s : g[m].answer = g[j].answer => w <= m
    BY <1>11, <1>14
  <2>1. V(j) = V(w)
    BY <1>11
  <2>2. \A m \in s : g[m].answer = g[j].answer => V(m) = V(w)
    BY <1>13, <2>1
  <2> QED
    BY <1>12, <2>1, <2>2
<1>16. ASSUME NEW i \in s, Wins(g, s, i)
       PROVE  g[i].answer = g[w].answer
  <2>1. \/ V(w) < V(i)
        \/ V(w) = V(i) /\ \E l \in s : /\ g[l].answer = g[i].answer
                                       /\ \A m \in s : g[m].answer = g[w].answer => l <= m
    BY <1>11, <1>14, <1>16
  <2>2. ~(V(w) < V(i))
    BY <1>11
  <2>3. PICK l \in s : /\ g[l].answer = g[i].answer
                       /\ \A m \in s : g[m].answer = g[w].answer => l <= m
    BY <2>1, <2>2
  <2>4. l <= w
    BY <1>11, <2>3
  <2>5. w <= l
    BY <1>12, <1>13, <2>1, <2>2, <2>3
  <2>6. l = w
    <3>1. l \in Int /\ w \in Int
      BY <1>2, <1>11
    <3> QED
      BY <2>4, <2>5, <3>1
  <2> QED
    BY <2>3, <2>6
<1>17. Majority(list) = g[w].answer
  BY <1>3, <1>9 DEF w
<1> QED
  BY <1>11, <1>15, <1>16, <1>17 DEF list, A, Elected

LEMMA ConsOfGroupIsConsAtK ==
    ASSUME NEW n \in Nat, NEW k \in 1..n, NEW g \in [1..n -> Responses]
    PROVE  ConsOfGroup(n, [i \in 1..n |-> Score(g[i])], [i \in 1..n |-> g[i].answer], k)
               = ConsAtK(g, n, k)
<1> DEFINE N == 1..n
           R == [i \in 1..n |-> Score(g[i])]
           A == [i \in 1..n |-> g[i].answer]
           ordered(s) == CHOOSE p \in [1..k -> s] : \A i, j \in 1..k : i < j => p[i] < p[j]
           vote(s) == Majority([i \in 1..k |-> A[ordered(s)[i]]])
           right == {s \in kSubset(k, N) : R[SelectInSeq(A, LAMBDA a : a = vote(s))] = 1}
           good == {s \in kSubset(k, N) : \A i \in s : Wins(g, s, i) => g[i].answer = Right}
<1>1. /\ k \in Nat \ {0} /\ k \in Nat /\ DOMAIN A = N /\ Len(A) = n /\ ~(k > Len(A))
      /\ \A i \in N : A[i] = g[i].answer /\ R[i] = Score(g[i])
  <2>1. Len(A) = n
    <3> DEFINE T == {g[i].answer : i \in N}
    <3>1. A \in [1..n -> T]
      OBVIOUS
    <3> HIDE DEF A, T
    <3> QED
      BY <3>1, ListOf
  <2> QED
    BY <2>1
<1>0. AnswersOf(n, g) = A
  BY DEF AnswersOf
<1>2. ASSUME NEW s \in kSubset(k, N)
      PROVE  R[SelectInSeq(A, LAMBDA a : a = vote(s))] = 1
                 <=> \A i \in s : Wins(g, s, i) => g[i].answer = Right
  <2> DEFINE p == Ordered(k, s)
  <2>1. /\ p \in [1..k -> s] /\ \A i, j \in 1..k : i < j => p[i] < p[j]
        /\ \A x \in s : \E i \in 1..k : p[i] = x
    <3>1. n \in Nat /\ k \in Nat /\ s \in kSubset(k, 1..n)
      BY <1>1
    <3> QED
      BY ONLY <3>1, PlacesInOrder
  <2> HIDE DEF p
  <2>2. PICK w \in s : /\ Majority(Ballots(k, AnswersOf(n, g), p)) = g[w].answer
                       /\ Wins(g, s, w)
                       /\ \A i \in s : Wins(g, s, i) => g[i].answer = g[w].answer
    <3>1. n \in Nat /\ k \in Nat \ {0} /\ g \in [1..n -> Responses] /\ s \in kSubset(k, 1..n)
      BY <1>1
    <3>2. Elected(n, k, g, s, p)
      BY ONLY <3>1, <2>1, WinnerIsMajority
    <3> QED
      BY <3>2 DEF Elected
  <2>3. vote(s) = g[w].answer
    BY <1>0, <2>2 DEF p, Ballots, Ordered
  <2>4. w \in N /\ A[w] = g[w].answer
    <3>1. s \subseteq N
      BY DEF kSubset
    <3> QED
      BY <1>1, <3>1
  <2> DEFINE q == SelectInSeq(A, LAMBDA a : a = vote(s))
             v == vote(s)
  <2>5. q \in N /\ A[q] = v
    <3>1. A[w] = v /\ w \in 1..n /\ Len(A) = n
      BY <1>1, <2>3, <2>4
    <3> HIDE DEF A, v
    <3> DEFINE I == InFavour(1..n, A, v)
    <3>2. I # {} /\ Min(I) \in 1..n /\ A[Min(I)] = v
      BY ONLY <3>1, FirstPlace
    <3>3. SelectInSeq(A, LAMBDA a : a = v) = Min(I)
      BY <3>1, <3>2 DEF SelectInSeq, InFavour
    <3> QED
      BY <3>2, <3>3 DEF v
  <2> HIDE DEF q, v
  <2>6. R[q] = 1 <=> g[q].answer = Right
    BY <1>1, <2>5 DEF Score
  <2>7. g[q].answer = g[w].answer
    BY <1>1, <2>3, <2>5 DEF v
  <2>8. R[q] = 1 <=> \A i \in s : Wins(g, s, i) => g[i].answer = Right
    BY <2>2, <2>6, <2>7
  <2> QED
    BY <2>8 DEF q
<1>3. right = good
  BY <1>2
<1>4. ConsOfGroup(n, R, A, k)
          = Cardinality(right) * (factorial[n] \div Cardinality(kSubset(k, N)))
  BY <1>1 DEF ConsOfGroup
<1>5. ConsAtK(g, n, k) = Cardinality(good) * (factorial[n] \div Cardinality(kSubset(k, N)))
  BY DEF ConsAtK, Share, Draws
<1> HIDE DEF right, good
<1> QED
  BY <1>3, <1>4, <1>5

-----------------------------------------------------------------------------
(* The environment's chunks *)

\* Parts that follow one another in a list: part w holds the places after at[w - 1]
\* up to at[w].
InParts(m, n, S, list, at, parts) ==
    /\ m \in Nat \ {0} /\ n \in Nat /\ list \in [1..n -> S] /\ Len(parts) = m
    /\ at \in [0..m -> 0..n] /\ at[0] = 0 /\ at[m] = n
    /\ \A w \in 1..m : /\ at[w - 1] <= at[w]
                       /\ parts[w] = [i \in 1..(at[w] - at[w - 1]) |-> list[at[w - 1] + i]]

LEMMA Flattened ==
    ASSUME NEW m, NEW n, NEW S, NEW list, NEW at, NEW parts, InParts(m, n, S, list, at, parts)
    PROVE  FlattenSeq(parts) = list
<1>0. /\ m \in Nat \ {0} /\ n \in Nat /\ list \in [1..n -> S] /\ Len(parts) = m
      /\ at \in [0..m -> 0..n] /\ at[0] = 0 /\ at[m] = n
      /\ \A w \in 1..m : /\ at[w - 1] <= at[w]
                         /\ parts[w] = [i \in 1..(at[w] - at[w - 1]) |-> list[at[w - 1] + i]]
  BY DEF InParts
<1> USE <1>0
<1> DEFINE upto(w) == [i \in 1..at[w] |-> list[i]]
           f == [w \in 1..m |-> upto(w)]
           g == CHOOSE g : g = [i \in 1..m |-> IF i = 1 THEN parts[i] ELSE g[i - 1] \o parts[i]]
<1>1. \A w \in 0..m : /\ at[w] \in 0..n /\ upto(w) \in Seq(S) /\ Len(upto(w)) = at[w]
                      /\ \A i \in 1..at[w] : upto(w)[i] = list[i]
  <2> SUFFICES ASSUME NEW w \in 0..m
               PROVE  /\ at[w] \in 0..n /\ upto(w) \in Seq(S) /\ Len(upto(w)) = at[w]
                      /\ \A i \in 1..at[w] : upto(w)[i] = list[i]
    OBVIOUS
  <2> DEFINE u == upto(w)
  <2>1. at[w] \in 0..n /\ at[w] \in Nat
    OBVIOUS
  <2>2. u \in [1..at[w] -> S] /\ \A i \in 1..at[w] : u[i] = list[i]
    BY <2>1
  <2> HIDE DEF u
  <2>3. u \in Seq(S) /\ Len(u) = at[w]
    BY <2>1, <2>2, ListOf
  <2> QED
    BY <2>1, <2>2, <2>3 DEF u
<1>2. \A w \in 2..m : upto(w) = upto(w - 1) \o parts[w]
  <2> SUFFICES ASSUME NEW w \in 2..m
               PROVE  upto(w) = upto(w - 1) \o parts[w]
    OBVIOUS
  <2> DEFINE a == at[w - 1]
             b == at[w]
             u == upto(w - 1)
             v == upto(w)
             p == parts[w]
             c == u \o p
  <2>1. /\ a \in 0..n /\ b \in 0..n /\ a <= b /\ p = [i \in 1..(b - a) |-> list[a + i]]
        /\ u \in Seq(S) /\ Len(u) = a /\ \A i \in 1..a : u[i] = list[i]
        /\ v \in Seq(S) /\ Len(v) = b /\ \A i \in 1..b : v[i] = list[i]
    <3> HIDE DEF upto
    <3>1. w \in 0..m /\ w - 1 \in 0..m /\ w \in 1..m
      OBVIOUS
    <3> QED
      BY <1>1, <3>1
  <2> HIDE DEF a, b, u, v, p
  <2>2. p \in Seq(S) /\ Len(p) = b - a /\ \A i \in 1..(b - a) : p[i] = list[a + i]
    <3>1. b - a \in Nat
      BY <2>1
    <3>2. \A i \in 1..(b - a) : a + i \in 1..n
      BY <2>1
    <3>3. p \in [1..(b - a) -> S]
      BY <2>1, <3>2
    <3> QED
      BY <2>1, <3>1, <3>3, ListOf
  <2>3. /\ c \in Seq(S) /\ Len(c) = b
        /\ \A i \in 1..b : c[i] = IF i <= a THEN u[i] ELSE p[i - a]
    <3>1. /\ c \in Seq(S) /\ Len(c) = Len(u) + Len(p)
          /\ \A i \in 1..(Len(u) + Len(p)) : c[i] = IF i <= Len(u) THEN u[i] ELSE p[i - Len(u)]
      <4>1. u \in Seq(S) /\ p \in Seq(S)
        BY <2>1, <2>2
      <4> QED
        BY ONLY <4>1, ConcatProperties
    <3>2. Len(u) = a /\ Len(u) + Len(p) = b
      BY <2>1, <2>2
    <3> HIDE DEF c
    <3> QED
      BY <3>1, <3>2
  <2> HIDE DEF c
  <2>4. \A i \in 1..b : c[i] = v[i]
    <3> SUFFICES ASSUME NEW i \in 1..b
                 PROVE  c[i] = v[i]
      OBVIOUS
    <3>1. CASE i <= a
      BY <2>1, <2>3, <3>1
    <3>2. CASE ~(i <= a)
      <4>1. i - a \in 1..(b - a) /\ a + (i - a) = i
        BY <2>1, <3>2
      <4>2. p[i - a] = list[i]
        BY <2>2, <4>1
      <4> QED
        BY <2>1, <2>3, <3>2, <4>2
    <3> QED
      BY <3>1, <3>2
  <2>5. v = c
    BY <2>1, <2>3, <2>4, SeqEqual
  <2> QED
    BY <2>5 DEF c, u, v, p
<1>3. upto(1) = parts[1]
  <2>1. 1 \in 1..m /\ 1 \in 0..m /\ 1 - 1 = 0
    OBVIOUS
  <2>2. at[1] \in 0..n
    BY <2>1
  <2>3. parts[1] = [i \in 1..(at[1] - 0) |-> list[0 + i]]
    <3>1. parts[1] = [i \in 1..(at[1] - at[1 - 1]) |-> list[at[1 - 1] + i]]
      BY <2>1, Zenon
    <3>2. at[1 - 1] = 0
      BY <2>1
    <3> QED
      BY <3>1, <3>2
  <2>4. at[1] - 0 = at[1] /\ \A i \in 1..at[1] : 0 + i = i
    BY <2>2
  <2> QED
    BY <2>3, <2>4
<1>4. f = [i \in 1..m |-> IF i = 1 THEN parts[i] ELSE f[i - 1] \o parts[i]]
  <2>1. \A i \in 1..m : f[i] = upto(i)
    OBVIOUS
  <2> HIDE DEF upto
  <2>2. ASSUME NEW i \in 1..m
        PROVE  upto(i) = IF i = 1 THEN parts[i] ELSE f[i - 1] \o parts[i]
    <3>1. CASE i = 1
      BY <1>3, <3>1
    <3>2. CASE i # 1
      <4>1. i \in 2..m /\ i - 1 \in 1..m
        BY <3>2
      <4> QED
        BY <1>2, <2>1, <3>2, <4>1
    <3> QED
      BY <3>1, <3>2
  <2> QED
    BY <2>2
<1> HIDE DEF f
<1>5. g = [i \in 1..m |-> IF i = 1 THEN parts[i] ELSE g[i - 1] \o parts[i]]
  BY <1>4
<1>6. FlattenSeq(parts) = g[m]
  BY DEF FlattenSeq
<1> HIDE DEF g
<1> DEFINE R == {w \in 0..m : w = 0 \/ g[w] = upto(w)}
<1>7. 0 \in R
  OBVIOUS
<1>8. ASSUME NEW w \in 0..(m - 1), w \in R
      PROVE  w + 1 \in R
  <2>1. w + 1 \in 1..m /\ w + 1 \in 0..m /\ (w + 1) - 1 = w
    OBVIOUS
  <2>2. g[w + 1] = IF w + 1 = 1 THEN parts[w + 1] ELSE g[w] \o parts[w + 1]
    BY <1>5, <2>1
  <2>3. CASE w = 0
    <3> HIDE DEF upto
    <3>1. w + 1 = 1
      BY <2>3
    <3> QED
      BY <1>3, <2>1, <2>2, <3>1
  <2>4. CASE w # 0
    <3>1. w + 1 \in 2..m /\ w + 1 # 1
      BY <2>4
    <3>2. g[w] = upto(w)
      BY <1>8, <2>4
    <3> HIDE DEF upto
    <3>3. upto(w + 1) = upto(w) \o parts[w + 1]
      BY <1>2, <2>1, <3>1
    <3> QED
      BY <2>1, <2>2, <3>1, <3>2, <3>3
  <2> QED
    BY <2>3, <2>4
<1>9. g[m] = upto(m)
  <2> HIDE DEF R
  <2>1. 0..m \subseteq R
    BY <1>7, <1>8, Induction
  <2>2. m \in R
    BY <2>1
  <2> QED
    BY <2>2 DEF R
<1>10. upto(m) = list
  OBVIOUS
<1> QED
  BY <1>6, <1>9, <1>10

LEMMA MinOfTwo == \A a, b \in Int : Min({a, b}) = IF a <= b THEN a ELSE b
<1> SUFFICES ASSUME NEW a \in Int, NEW b \in Int
             PROVE  Min({a, b}) = IF a <= b THEN a ELSE b
  OBVIOUS
<1>1. \E x \in {a, b} : \A y \in {a, b} : x <= y
  OBVIOUS
<1> DEFINE c == Min({a, b})
<1>2. c \in {a, b} /\ \A y \in {a, b} : c <= y
  BY <1>1 DEF Min
<1> HIDE DEF c
<1>3. c = IF a <= b THEN a ELSE b
  BY <1>2
<1> QED
  BY <1>3 DEF c

\* Where the chunks of n responses end.
ChunkSize(n) == (n + VerifyWorkers - 1) \div VerifyWorkers
ChunkEnds(n) == [w \in 0..VerifyWorkers |-> Min({w * ChunkSize(n), n})]

LEMMA ChunksCover ==
    ASSUME WorkersAssumption, NEW n \in Nat
    PROVE  /\ ChunkSize(n) \in Nat /\ n <= VerifyWorkers * ChunkSize(n)
           /\ ChunkEnds(n) \in [0..VerifyWorkers -> 0..n]
           /\ ChunkEnds(n)[0] = 0 /\ ChunkEnds(n)[VerifyWorkers] = n
           /\ \A w \in 1..VerifyWorkers : ChunkEnds(n)[w - 1] <= ChunkEnds(n)[w]
<1> DEFINE m == VerifyWorkers
           q == ChunkSize(n)
           x == n + m - 1
           at == ChunkEnds(n)
<1>1. m \in Nat \ {0}
  BY DEF WorkersAssumption
<1>2. q \in Nat /\ n <= m * q
  <2>1. x \in Nat /\ q = x \div m
    BY <1>1 DEF ChunkSize
  <2> HIDE DEF x, m, q
  <2>2. q \in Nat /\ x < m * q + m
    BY <1>1, <2>1
  <2>3. m * q \in Nat
    BY <1>1, <2>2
  <2> DEFINE z == m * q
  <2> HIDE DEF z
  <2>4. x < z + m /\ z \in Nat /\ x = n + m - 1
    BY <2>2, <2>3 DEF z, x
  <2>5. n <= z
    BY <1>1, <2>4
  <2> QED
    BY <2>2, <2>5 DEF z
<1> HIDE DEF q
<1>3. \A w \in 0..m : w * q \in Nat
  BY <1>1, <1>2
<1>4. \A w \in 0..m : at[w] = IF w * q <= n THEN w * q ELSE n
  <2> SUFFICES ASSUME NEW w \in 0..m
               PROVE  at[w] = IF w * q <= n THEN w * q ELSE n
    OBVIOUS
  <2>1. w * q \in Int /\ n \in Int
    BY <1>3
  <2>2. at[w] = Min({w * q, n})
    BY DEF ChunkEnds, q
  <2> QED
    BY <2>1, <2>2, MinOfTwo
<1>5. at \in [0..m -> 0..n]
  <2>1. \A w \in 0..m : at[w] \in 0..n
    BY <1>3, <1>4
  <2>2. at = [w \in 0..m |-> at[w]]
    BY DEF ChunkEnds
  <2> HIDE DEF at
  <2> QED
    BY <2>1, <2>2
<1> HIDE DEF at
<1>6. at[0] = 0 /\ at[m] = n
  <2>1. 0 \in 0..m /\ m \in 0..m /\ 0 * q = 0 /\ m * q \in Nat
    BY <1>1, <1>2, <1>3
  <2> QED
    BY <1>2, <1>4, <2>1
<1>7. ASSUME NEW w \in 1..m
      PROVE  at[w - 1] <= at[w]
  <2>1. w \in 0..m /\ w - 1 \in 0..m
    BY <1>1
  <2> DEFINE a == (w - 1) * q
             b == w * q
  <2>2. a \in Nat /\ b \in Nat
    BY <1>3, <2>1
  <2>3. b = a + q
    BY <1>1, <1>2
  <2>4. at[w - 1] = (IF a <= n THEN a ELSE n) /\ at[w] = IF b <= n THEN b ELSE n
    BY <1>4, <2>1
  <2> HIDE DEF a, b
  <2> QED
    BY <1>2, <2>2, <2>3, <2>4
<1> QED
  BY <1>2, <1>5, <1>6, <1>7 DEF at, q

Piece(list, at, w) == [i \in 1..(at[w] - at[w - 1]) |-> list[at[w - 1] + i]]

LEMMA ChunkOf ==
    ASSUME WorkersAssumption, NEW S, NEW n \in Nat, NEW list \in [1..n -> S],
           NEW w \in 1..VerifyWorkers
    PROVE  ChunkLists(list)[w] = Piece(list, ChunkEnds(n), w)
<1> DEFINE at == ChunkEnds(n)
           q == ChunkSize(n)
           a == (w - 1) * q
           b == w * q
           e == Min({b, n})
<1>1. list \in Seq(S) /\ Len(list) = n
  BY ListOf
<1>2. w \in Nat /\ w - 1 \in Nat /\ w \in 0..VerifyWorkers /\ w - 1 \in 0..VerifyWorkers
  BY DEF WorkersAssumption
<1>3. q \in Nat
  BY ChunksCover
<1>4. at[w] = e /\ at[w - 1] = Min({a, n})
  BY <1>2 DEF ChunkEnds
<1>5. ChunkLists(list)[w] = SubSeq(list, a + 1, e)
  BY <1>1 DEF ChunkLists, ChunkSize
<1> HIDE DEF at, q
<1>6. a \in Nat /\ b \in Nat /\ a <= b
  <2>1. a \in Nat /\ b \in Nat
    BY <1>2, <1>3
  <2>2. b = a + q
    BY <1>2, <1>3
  <2> HIDE DEF a, b
  <2> QED
    BY <1>3, <2>1, <2>2
<1> HIDE DEF a, b
<1>7. e = (IF b <= n THEN b ELSE n) /\ at[w - 1] = IF a <= n THEN a ELSE n
  BY <1>4, <1>6, MinOfTwo
<1> HIDE DEF e
<1>8. SubSeq(list, a + 1, e) = [i \in 1..(at[w] - at[w - 1]) |-> list[at[w - 1] + i]]
  <2>1. e \in Nat /\ SubSeq(list, a + 1, e) = [i \in 1..(e - (a + 1) + 1) |-> list[i + (a + 1) - 1]]
    BY <1>1, <1>6, <1>7
  <2>2. CASE a <= n
    <3>1. at[w - 1] = a /\ e - (a + 1) + 1 = at[w] - at[w - 1]
      BY <1>4, <1>6, <1>7, <2>1, <2>2
    <3>2. \A i \in 1..(at[w] - at[w - 1]) : i + (a + 1) - 1 = at[w - 1] + i
      BY <1>6, <3>1
    <3> QED
      BY <2>1, <3>1, <3>2
  <2>3. CASE ~(a <= n)
    <3>1. e = n /\ at[w - 1] = n /\ at[w] = n
      BY <1>4, <1>6, <1>7, <2>3
    <3>2. 1..(e - (a + 1) + 1) = {} /\ 1..(at[w] - at[w - 1]) = {}
      BY <1>6, <2>3, <3>1
    <3> QED
      BY <2>1, <3>2
  <2> QED
    BY <2>2, <2>3
<1> QED
  BY <1>5, <1>8 DEF at, Piece

\* What a worker makes of its chunk.
LEMMA Verified ==
    ASSUME NEW n \in Nat, NEW chunk \in [1..n -> Responses], \A i \in 1..n : ~chunk[i].torn
    PROVE  /\ Verify(chunk).rewards = [i \in 1..n |-> Score(chunk[i])]
           /\ Verify(chunk).answers = [i \in 1..n |-> chunk[i].answer]
<1> DEFINE list == [i \in 1..n |-> Score(chunk[i])]
           parts == [i \in DOMAIN chunk |-> Scores(chunk[i])]
<1>1. parts = [i \in 1..n |-> <<Score(chunk[i])>>]
  BY DEF Scores, Score
<1>2. Len(parts) = n
  <2> DEFINE T == {<<Score(chunk[i])>> : i \in 1..n}
  <2>1. parts \in [1..n -> T]
    BY <1>1
  <2> HIDE DEF parts, T
  <2> QED
    BY <2>1, ListOf
<1>3. FlattenSeq(parts) = list
  <2>1. CASE n = 0
    <3>1. FlattenSeq(parts) = parts
      <4> HIDE DEF parts
      <4> QED
        BY <1>2, <2>1 DEF FlattenSeq
    <3>2. 1..n = {}
      BY <2>1
    <3>3. parts = list
      BY <1>1, <3>2
    <3> QED
      BY <3>1, <3>3
  <2>2. CASE n # 0
    <3> DEFINE at == [w \in 0..n |-> w]
    <3>1. n \in Nat \ {0} /\ list \in [1..n -> Nat]
      BY <2>2 DEF Score
    <3>2. at \in [0..n -> 0..n] /\ at[0] = 0 /\ at[n] = n
      OBVIOUS
    <3>3. ASSUME NEW w \in 1..n
          PROVE  /\ at[w - 1] <= at[w]
                 /\ parts[w] = [i \in 1..(at[w] - at[w - 1]) |-> list[at[w - 1] + i]]
      <4>1. at[w] = w /\ at[w - 1] = w - 1
        OBVIOUS
      <4> HIDE DEF at
      <4>2. at[w] - at[w - 1] = 1 /\ at[w - 1] + 1 = w /\ at[w - 1] <= at[w]
        BY <4>1
      <4>3. parts[w] = <<list[w]>>
        BY <1>1
      <4> DEFINE x == list[w]
      <4>4. <<x>> = [i \in 1..1 |-> x]
        OBVIOUS
      <4>5. \A i \in 1..1 : at[w - 1] + i = w
        BY <4>2
      <4> HIDE DEF list, parts
      <4>6. [i \in 1..1 |-> list[at[w - 1] + i]] = [i \in 1..1 |-> x]
        BY <4>5
      <4> QED
        BY <4>2, <4>3, <4>4, <4>6
    <3> HIDE DEF at, parts, list
    <3>4. InParts(n, n, Nat, list, at, parts)
      BY <1>2, <3>1, <3>2, <3>3 DEF InParts
    <3> QED
      BY <3>4, Flattened
  <2> QED
    BY <2>1, <2>2
<1>4. Verify(chunk).rewards = FlattenSeq(parts)
  BY DEF Verify
<1>5. Verify(chunk).answers = [i \in 1..n |-> chunk[i].answer]
  BY DEF Verify
<1> QED
  BY <1>3, <1>4, <1>5

\* However many workers there are and however the chunks come out: each
\* response's score and answer in the responses' order.
LEMMA Stepped ==
    ASSUME WorkersAssumption, NEW n \in Nat, NEW list \in [1..n -> Responses],
           \A i \in 1..n : ~list[i].torn
    PROVE  /\ EnvStep(list).rewards = [i \in 1..n |-> Score(list[i])]
           /\ EnvStep(list).answers = [i \in 1..n |-> list[i].answer]
<1> DEFINE m == VerifyWorkers
           at == ChunkEnds(n)
           chunks == ChunkLists(list)
           R == [i \in 1..n |-> Score(list[i])]
           A == [i \in 1..n |-> list[i].answer]
           parts == [w \in 1..m |-> Verify(chunks[w]).rewards]
           others == [w \in 1..m |-> Verify(chunks[w]).answers]
<1>1. /\ m \in Nat \ {0} /\ m \in Nat /\ at \in [0..m -> 0..n] /\ at[0] = 0 /\ at[m] = n
      /\ \A w \in 1..m : at[w - 1] <= at[w]
  BY ChunksCover DEF WorkersAssumption
<1>2. \A w \in 1..m : chunks[w] = [i \in 1..(at[w] - at[w - 1]) |-> list[at[w - 1] + i]]
  <2>1. n \in Nat /\ list \in [1..n -> Responses]
    OBVIOUS
  <2>2. \A w \in 1..m : chunks[w] = Piece(list, at, w)
    BY ONLY WorkersAssumption, <2>1, ChunkOf
  <2> QED
    BY <2>2 DEF Piece
<1>3. EnvStep(list).rewards = FlattenSeq(parts) /\ EnvStep(list).answers = FlattenSeq(others)
  <2>1. DOMAIN chunks = 1..m
    BY DEF ChunkLists
  <2> HIDE DEF chunks
  <2>2. LET results == [w \in DOMAIN chunks |-> Verify(chunks[w])]
        IN  /\ [w \in DOMAIN results |-> results[w].rewards] = parts
            /\ [w \in DOMAIN results |-> results[w].answers] = others
    BY <2>1
  <2> QED
    BY <2>2 DEF EnvStep, chunks
<1> HIDE DEF at, chunks
<1>4. ASSUME NEW w \in 1..m
      PROVE  /\ parts[w] = [i \in 1..(at[w] - at[w - 1]) |-> R[at[w - 1] + i]]
             /\ others[w] = [i \in 1..(at[w] - at[w - 1]) |-> A[at[w - 1] + i]]
  <2> DEFINE a == at[w - 1]
             b == at[w]
             c == chunks[w]
             d == b - a
  <2>1. a \in 0..n /\ b \in 0..n /\ a <= b
    <3>1. w - 1 \in 0..m /\ w \in 0..m
      BY <1>1
    <3> QED
      BY <1>1, <3>1
  <2>2. c = [i \in 1..d |-> list[a + i]]
    BY <1>2
  <2> HIDE DEF a, b, c
  <2>3. d \in Nat /\ \A i \in 1..d : a + i \in 1..n
    BY <2>1
  <2> HIDE DEF d
  <2>4. c \in [1..d -> Responses] /\ \A i \in 1..d : ~c[i].torn
    BY <2>2, <2>3
  <2>5. /\ Verify(c).rewards = [i \in 1..d |-> Score(c[i])]
        /\ Verify(c).answers = [i \in 1..d |-> c[i].answer]
    BY <2>3, <2>4, Verified
  <2>6. \A i \in 1..d : Score(c[i]) = R[a + i] /\ c[i].answer = A[a + i]
    BY <2>2, <2>3
  <2>7. parts[w] = Verify(c).rewards /\ others[w] = Verify(c).answers
    BY DEF c
  <2> HIDE DEF R, A, parts, others
  <2>8. /\ parts[w] = [i \in 1..d |-> R[a + i]]
        /\ others[w] = [i \in 1..d |-> A[a + i]]
    BY <2>5, <2>6, <2>7
  <2> QED
    BY <2>8 DEF d, a, b
<1>5. Len(parts) = m /\ Len(others) = m
  <2> DEFINE T == {parts[w] : w \in 1..m}
             U == {others[w] : w \in 1..m}
  <2>1. parts \in [1..m -> T] /\ others \in [1..m -> U]
    OBVIOUS
  <2> HIDE DEF parts, others, T, U
  <2> QED
    BY <1>1, <2>1, ListOf
<1> DEFINE Values == {list[i].answer : i \in 1..n}
<1>6. R \in [1..n -> Nat] /\ A \in [1..n -> Values]
  BY DEF Score
<1> HIDE DEF R, A, parts, others, Values, m
<1>7. InParts(m, n, Nat, R, at, parts) /\ InParts(m, n, Values, A, at, others)
  BY <1>1, <1>4, <1>5, <1>6 DEF InParts
<1>8. FlattenSeq(parts) = R /\ FlattenSeq(others) = A
  BY <1>7, Flattened
<1> QED
  BY <1>3, <1>8 DEF R, A

-----------------------------------------------------------------------------
(* The prompts of a batch *)

\* The responses to one prompt of a batch of m.
Group(list, n, g) == [i \in 1..n |-> list[(g - 1) * n + i]]
Batches(list, n, m) == [g \in 1..m |-> Group(list, n, g)]

LEMMA WholeGroups ==
    ASSUME NEW m \in Nat, NEW n \in Nat \ {0}
    PROVE  m * n \in Nat /\ (m * n + n - 1) \div n = m
<1>1. m * n \in Nat
  OBVIOUS
<1> DEFINE z == m * n
           q == (z + n - 1) \div n
<1>2. z \in Nat /\ z + n - 1 \in Nat
  BY <1>1
<1>3. q \in Nat /\ n * q <= z + n - 1 /\ z + n - 1 < n * q + n
  <2> HIDE DEF z
  <2> DEFINE x == z + n - 1
  <2>1. x \in Nat
    BY <1>2
  <2> HIDE DEF x
  <2>2. x \div n \in Nat /\ n * (x \div n) <= x /\ x < n * (x \div n) + n
    BY <2>1
  <2> QED
    BY <2>2 DEF x
<1> HIDE DEF q
<1>4. ~(m <= q - 1)
  <2> SUFFICES ASSUME m <= q - 1
               PROVE  FALSE
    OBVIOUS
  <2>1. PICK d \in Nat : q = m + 1 + d
    <3>1. q - m - 1 \in Nat /\ q = m + 1 + (q - m - 1)
      BY <1>3
    <3> QED
      BY <3>1
  <2>2. n * q = z + n + n * d
    BY <2>1
  <2>3. n * d \in Nat
    BY <2>1
  <2> HIDE DEF z
  <2> QED
    BY <1>2, <1>3, <2>2, <2>3
<1>5. ~(q <= m - 1)
  <2> SUFFICES ASSUME q <= m - 1
               PROVE  FALSE
    OBVIOUS
  <2>1. PICK d \in Nat : m = q + 1 + d
    <3>1. m - q - 1 \in Nat /\ m = q + 1 + (m - q - 1)
      BY <1>3
    <3> QED
      BY <3>1
  <2>2. z = n * q + n + n * d
    BY <1>3, <2>1
  <2>3. n * d \in Nat /\ n * q \in Nat
    BY <1>3, <2>1
  <2> HIDE DEF z
  <2> QED
    BY <1>2, <1>3, <2>2, <2>3
<1>6. q = m
  BY <1>3, <1>4, <1>5
<1> QED
  BY <1>1, <1>6 DEF q, z

LEMMA SplitEven ==
    ASSUME NEW m \in Nat, NEW n \in Nat \ {0}, NEW S, NEW list \in [1..(m * n) -> S]
    PROVE  /\ Split(list, n) = Batches(list, n, m)
           /\ \A g \in 1..m : Group(list, n, g) \in [1..n -> S]
<1> DEFINE z == m * n
<1>1. z \in Nat /\ (z + n - 1) \div n = m
  BY WholeGroups
<1>2. list \in Seq(S) /\ Len(list) = z
  <2>1. z \in Nat /\ list \in [1..z -> S]
    BY <1>1
  <2> HIDE DEF z
  <2> QED
    BY <2>1, ListOf
<1>3. ASSUME NEW g \in 1..m
      PROVE  /\ SubSeq(list, (g - 1) * n + 1, Min({g * n, z})) = Group(list, n, g)
             /\ Group(list, n, g) \in [1..n -> S]
  <2> DEFINE a == (g - 1) * n
             b == g * n
  <2>1. a \in Nat /\ b \in Nat
    OBVIOUS
  <2>2. b = a + n
    OBVIOUS
  <2>3. b <= z
    <3>1. PICK d \in Nat : m = g + d
      <4>1. m - g \in Nat /\ m = g + (m - g)
        OBVIOUS
      <4> QED
        BY <4>1
    <3>2. z = b + d * n /\ d * n \in Nat
      BY <3>1
    <3> HIDE DEF z, b
    <3> QED
      BY <2>1, <3>2
  <2>4. Group(list, n, g) = [i \in 1..n |-> list[a + i]]
    BY DEF Group
  <2> HIDE DEF z, a, b
  <2>5. Min({b, z}) = b
    BY <1>1, <2>1, <2>3, MinOfTwo
  <2>6. SubSeq(list, a + 1, b) = [i \in 1..(b - (a + 1) + 1) |-> list[i + (a + 1) - 1]]
    BY <1>2, <2>1
  <2>7. b - (a + 1) + 1 = n /\ \A i \in 1..n : i + (a + 1) - 1 = a + i /\ a + i \in 1..z
    BY <1>1, <2>1, <2>2, <2>3
  <2>8. SubSeq(list, a + 1, b) = [i \in 1..n |-> list[a + i]]
    BY <2>6, <2>7
  <2>9. \A i \in 1..n : list[a + i] \in S
    BY <2>7 DEF z
  <2> QED
    BY <2>4, <2>5, <2>8, <2>9 DEF a, b
<1>4. Split(list, n) = [g \in 1..m |-> SubSeq(list, (g - 1) * n + 1, Min({g * n, z}))]
  <2> HIDE DEF z
  <2> QED
    BY <1>1, <1>2 DEF Split
<1> HIDE DEF z
<1>5. Split(list, n) = Batches(list, n, m)
  BY <1>3, <1>4 DEF Batches
<1> QED
  BY <1>3, <1>5

LEMMA PlaceInBatch ==
    ASSUME NEW m \in Nat, NEW n \in Nat \ {0}, NEW g \in 1..m, NEW i \in 1..n
    PROVE  (g - 1) * n + i \in 1..(m * n)
<1> DEFINE z == m * n
           a == (g - 1) * n
<1>1. PICK d \in Nat : m = g + d
  <2>1. m - g \in Nat /\ m = g + (m - g)
    OBVIOUS
  <2> QED
    BY <2>1
<1>2. a \in Nat /\ d * n \in Nat /\ z = a + n + d * n
  BY <1>1
<1> DEFINE e == d * n
<1>3. a \in Nat /\ e \in Nat /\ z = a + n + e
  BY <1>2
<1> HIDE DEF z, a, e
<1>4. a + i \in 1..z
  BY <1>3
<1> QED
  BY <1>4 DEF z, a

\* The metrics of a batch of m prompts without a torn response.
LEMMA MetricsAreDue ==
    ASSUME NEW m \in Nat, NEW n \in Nat \ {0}, NEW k \in 1..n,
           NEW list \in [1..(m * n) -> Responses]
    PROVE  LET R == [i \in 1..(m * n) |-> Score(list[i])]
               A == [i \in 1..(m * n) |-> list[i].answer]
           IN  /\ EvalPassK(R, n, k) = Total([g \in 1..m |-> PassAtK(Group(list, n, g), n, k)])
               /\ EvalConsK(R, A, n, k) = Total([g \in 1..m |-> ConsAtK(Group(list, n, g), n, k)])
<1> DEFINE z == m * n
           R == [i \in 1..z |-> Score(list[i])]
           A == [i \in 1..z |-> list[i].answer]
           Values == {list[i].answer : i \in 1..z}
           rs == Batches(R, n, m)
           as == Batches(A, n, m)
<1>1. R \in [1..z -> Nat] /\ A \in [1..z -> Values]
  BY DEF Score
<1>2. ASSUME NEW g \in 1..m
      PROVE  /\ Group(list, n, g) \in [1..n -> Responses]
             /\ Group(R, n, g) = [i \in 1..n |-> Score(Group(list, n, g)[i])]
             /\ Group(A, n, g) = [i \in 1..n |-> Group(list, n, g)[i].answer]
  <2>1. \A i \in 1..n : (g - 1) * n + i \in 1..z
    BY PlaceInBatch
  <2>2. Group(list, n, g) \in [1..n -> Responses]
    BY SplitEven
  <2> DEFINE a == (g - 1) * n
             l == Group(list, n, g)
  <2>3. \A i \in 1..n : l[i] = list[a + i]
    BY DEF Group
  <2>4. \A i \in 1..n : a + i \in 1..z /\ R[a + i] = Score(list[a + i]) /\ A[a + i] = list[a + i].answer
    BY <2>1
  <2>5. Group(R, n, g) = [i \in 1..n |-> R[a + i]] /\ Group(A, n, g) = [i \in 1..n |-> A[a + i]]
    BY DEF Group
  <2> HIDE DEF R, A, a, l
  <2>6. \A i \in 1..n : R[a + i] = Score(l[i]) /\ A[a + i] = l[i].answer
    BY <2>3, <2>4
  <2>7. /\ Group(R, n, g) = [i \in 1..n |-> Score(l[i])]
        /\ Group(A, n, g) = [i \in 1..n |-> l[i].answer]
    BY <2>5, <2>6
  <2> QED
    BY <2>2, <2>7 DEF l
<1>3. Split(R, n) = rs /\ Split(A, n) = as
  <2> HIDE DEF R, A, Values
  <2> QED
    BY <1>1, SplitEven
<1> HIDE DEF R, A
<1>4. /\ DOMAIN rs = 1..m
      /\ \A g \in 1..m : rs[g] = Group(R, n, g) /\ as[g] = Group(A, n, g)
  BY DEF Batches
<1> HIDE DEF rs, as
<1>5. ASSUME NEW g \in 1..m
      PROVE  /\ PassOfGroup(n, Total(rs[g]), k) = PassAtK(Group(list, n, g), n, k)
             /\ ConsOfGroup(n, rs[g], as[g], k) = ConsAtK(Group(list, n, g), n, k)
  <2> DEFINE l == Group(list, n, g)
  <2>1. /\ l \in [1..n -> Responses] /\ rs[g] = [i \in 1..n |-> Score(l[i])]
        /\ as[g] = [i \in 1..n |-> l[i].answer]
    BY <1>2, <1>4
  <2> HIDE DEF l
  <2>2. n \in Nat /\ k \in 1..n
    OBVIOUS
  <2>3. Total([i \in 1..n |-> Score(l[i])]) = Cardinality({i \in 1..n : l[i].answer = Right})
    BY <2>1, <2>2, RightOnes
  <2>4. PassOfGroup(n, Cardinality({i \in 1..n : l[i].answer = Right}), k) = PassAtK(l, n, k)
    BY <2>1, <2>2, PassOfGroupIsPassAtK
  <2>5. ConsOfGroup(n, [i \in 1..n |-> Score(l[i])], [i \in 1..n |-> l[i].answer], k)
            = ConsAtK(l, n, k)
    BY <2>1, <2>2, ConsOfGroupIsConsAtK
  <2>6. Total(rs[g]) = Cardinality({i \in 1..n : l[i].answer = Right})
    BY <2>1, <2>3
  <2>7. PassOfGroup(n, Total(rs[g]), k) = PassAtK(l, n, k)
    BY <2>4, <2>6
  <2>8. ConsOfGroup(n, rs[g], as[g], k) = ConsAtK(l, n, k)
    BY <2>1, <2>5
  <2> QED
    BY <2>7, <2>8 DEF l
<1>6. EvalPassK(R, n, k) = Total([g \in 1..m |-> PassOfGroup(n, Total(rs[g]), k)])
  BY <1>3, <1>4 DEF EvalPassK
<1>7. EvalConsK(R, A, n, k) = Total([g \in 1..m |-> ConsOfGroup(n, rs[g], as[g], k)])
  BY <1>3, <1>4 DEF EvalConsK
<1>8. /\ [g \in 1..m |-> PassOfGroup(n, Total(rs[g]), k)]
            = [g \in 1..m |-> PassAtK(Group(list, n, g), n, k)]
      /\ [g \in 1..m |-> ConsOfGroup(n, rs[g], as[g], k)]
            = [g \in 1..m |-> ConsAtK(Group(list, n, g), n, k)]
  BY <1>5
<1> QED
  BY <1>6, <1>7, <1>8 DEF R, A

-----------------------------------------------------------------------------
(* The evaluation's score *)

\* Behind ScoreOfEveryPrompt: what setup() has checked.
ScoreInv ==
    mode = "eval" =>
        /\ eval.tests \in Nat \ {0} /\ eval.k \in 1..eval.tests /\ eval.torn \in BOOLEAN
        /\ ScoreOfEveryPrompt

LEMMA DueOfBatch ==
    ASSUME NEW m \in Nat, eval.tests \in Nat \ {0}, eval.k \in 1..eval.tests,
           eval.metric \in {"pass@k", "cons@k"},
           NEW responses \in [1..(m * eval.tests) -> Responses]
    PROVE  LET n == eval.tests
               R == [i \in 1..(m * n) |-> Score(responses[i])]
               A == [i \in 1..(m * n) |-> responses[i].answer]
           IN  Due(responses) = IF eval.metric = "pass@k" THEN EvalPassK(R, n, eval.k)
                                                          ELSE EvalConsK(R, A, n, eval.k)
<1> DEFINE n == eval.tests
           k == eval.k
           R == [i \in 1..(m * n) |-> Score(responses[i])]
           A == [i \in 1..(m * n) |-> responses[i].answer]
           groups == Split(responses, n)
<1>1. n \in Nat \ {0} /\ k \in 1..n /\ responses \in [1..(m * n) -> Responses]
  OBVIOUS
<1>2. DOMAIN groups = 1..m /\ \A g \in 1..m : groups[g] = Group(responses, n, g)
  <2>1. groups = Batches(responses, n, m)
    <3> HIDE DEF n
    <3> QED
      BY <1>1, SplitEven
  <2> HIDE DEF groups
  <2> QED
    BY <2>1 DEF Batches
<1>3. /\ EvalPassK(R, n, k) = Total([g \in 1..m |-> PassAtK(Group(responses, n, g), n, k)])
      /\ EvalConsK(R, A, n, k) = Total([g \in 1..m |-> ConsAtK(Group(responses, n, g), n, k)])
  <2> HIDE DEF n, k
  <2> QED
    BY <1>1, MetricsAreDue
<1>4. Due(responses) = Total([g \in DOMAIN groups |->
                                 IF eval.metric = "pass@k" THEN PassAtK(groups[g], n, k)
                                                           ELSE ConsAtK(groups[g], n, k)])
  BY DEF Due
<1> HIDE DEF n, k, R, A, groups
<1>5. CASE eval.metric = "pass@k"
  <2>1. Due(responses) = Total([g \in 1..m |-> PassAtK(Group(responses, n, g), n, k)])
    BY <1>2, <1>4, <1>5
  <2> QED
    BY <1>3, <1>5, <2>1 DEF n, k, R, A
<1>6. CASE eval.metric # "pass@k"
  <2>1. Due(responses) = Total([g \in 1..m |-> ConsAtK(Group(responses, n, g), n, k)])
    BY <1>2, <1>4, <1>6
  <2> QED
    BY <1>3, <1>6, <2>1 DEF n, k, R, A
<1> QED
  BY <1>5, <1>6

LEMMA BatchScored ==
    ASSUME RolloutAssumption, WorkersAssumption, Inv, ScoreInv, ScoreTexts
    PROVE  ScoreInv'
<1> DEFINE n == eval.tests
           k == eval.k
           m == Min({eval.perBatch, eval.prompts - eval.done})
<1>1. /\ mode = "eval" /\ texts # <<>> /\ Head(texts) = "ok" /\ UNCHANGED mode
      /\ eval.tests \in Nat \ {0} /\ eval.k \in 1..eval.tests /\ eval.torn \in BOOLEAN
      /\ ~eval.torn => eval.score = eval.due
  BY DEF ScoreTexts, ScoreInv, ScoreOfEveryPrompt
<1>2. /\ texts = <<"ok", [i \in Texts |-> Sample(i)]>> /\ eval.done < eval.prompts
      /\ eval \in EvalRecord
  BY <1>1 DEF Inv, LoopInv, TextsInv, ModeInv
<1>3. m \in Nat /\ Texts = 1..(m * n)
  <2>1. Texts = 1..(m * n)
    BY DEF Texts
  <2>2. /\ eval.perBatch \in Nat /\ eval.prompts - eval.done \in Nat
        /\ eval.perBatch \in Int /\ eval.prompts - eval.done \in Int
    BY <1>2 DEF EvalRecord
  <2>3. m \in Nat
    BY <2>2, MinOfTwo
  <2> QED
    BY <2>1, <2>3
<1> HIDE DEF m
<1>4. PICK responses \in [Texts -> Responses] :
        LET step == EnvStep([p \in DOMAIN texts[2] |-> responses[texts[2][p].of]])
        IN  \/ UNCHANGED eval
            \/ eval' = [eval EXCEPT
                   !.done = @ + Len(texts[2]) \div eval.tests,
                   !.score = @ + IF eval.metric = "pass@k"
                                 THEN EvalPassK(step.rewards, eval.tests, eval.k)
                                 ELSE EvalConsK(step.rewards, step.answers, eval.tests, eval.k),
                   !.due = @ + Due(responses),
                   !.torn = @ \/ \E i \in Texts : responses[i].torn]
  BY DEF ScoreTexts
<1>5. [p \in DOMAIN texts[2] |-> responses[texts[2][p].of]] = responses
  <2>1. DOMAIN texts[2] = Texts /\ \A p \in Texts : texts[2][p].of = p
    BY <1>2 DEF Sample
  <2> QED
    BY <2>1
<1> DEFINE step == EnvStep(responses)
           torn == \E i \in Texts : responses[i].torn
           gain == IF eval.metric = "pass@k"
                   THEN EvalPassK(step.rewards, n, k)
                   ELSE EvalConsK(step.rewards, step.answers, n, k)
           due == Due(responses)
           done == eval.done + Len(texts[2]) \div n
<1>6. \/ UNCHANGED eval
      \/ eval' = [eval EXCEPT !.done = done, !.score = @ + gain, !.due = @ + due, !.torn = @ \/ torn]
  BY <1>4, <1>5
<1>7. ~torn => gain = due
  <2> SUFFICES ASSUME ~torn PROVE gain = due
    OBVIOUS
  <2> DEFINE z == m * n
             R == [i \in 1..(m * n) |-> Score(responses[i])]
             A == [i \in 1..(m * n) |-> responses[i].answer]
  <2>1. z \in Nat /\ responses \in [1..z -> Responses] /\ \A i \in 1..z : ~responses[i].torn
    BY <1>1, <1>3
  <2>2. step.rewards = [i \in 1..z |-> Score(responses[i])]
        /\ step.answers = [i \in 1..z |-> responses[i].answer]
    <3> HIDE DEF z
    <3> QED
      BY <2>1, Stepped
  <2>3. step.rewards = R /\ step.answers = A
    BY <2>2
  <2>4. due = IF eval.metric = "pass@k" THEN EvalPassK(R, n, k) ELSE EvalConsK(R, A, n, k)
    <3>1. eval.metric \in {"pass@k", "cons@k"} /\ responses \in [1..(m * n) -> Responses]
      BY <1>2, <2>1 DEF EvalRecord
    <3> QED
      BY <1>1, <1>3, <3>1, DueOfBatch
  <2> HIDE DEF R, A, step, due
  <2> QED
    BY <2>3, <2>4
<1> HIDE DEF gain, due, torn, done
<1>8. CASE UNCHANGED eval
  BY <1>1, <1>8 DEF ScoreInv, ScoreOfEveryPrompt
<1>9. CASE eval' = [eval EXCEPT !.done = done, !.score = @ + gain, !.due = @ + due,
                                !.torn = @ \/ torn]
  <2>1. /\ eval'.tests = n /\ eval'.k = k /\ eval'.score = eval.score + gain
        /\ eval'.due = eval.due + due /\ eval'.torn = (eval.torn \/ torn)
    BY <1>2, <1>9 DEF EvalRecord
  <2>2. eval'.torn \in BOOLEAN /\ (~eval'.torn => ~eval.torn /\ ~torn)
    BY <2>1
  <2>3. ~eval'.torn => eval'.score = eval'.due
    BY <1>1, <1>7, <2>1, <2>2
  <2> QED
    BY <1>1, <2>1, <2>2, <2>3 DEF ScoreInv, ScoreOfEveryPrompt
<1> QED
  BY <1>6, <1>8, <1>9

LEMMA ScoreStays ==
    ASSUME RolloutAssumption, WorkersAssumption, Inv, ScoreInv, [Next]_vars
    PROVE  ScoreInv'
<1>1. CASE ScoreTexts
  BY <1>1, BatchScored
<1>2. CASE ~ScoreTexts
  <2>1. UNCHANGED <<mode, eval>>
    <3>1. CASE UNCHANGED vars
      BY <3>1 DEF vars
    <3>2. CASE Next
      BY <1>2, <3>2 DEF Next, SyncTurn, SyncEnd, Loop, RunSample, RunCaller, AskTexts, TakeTexts,
                GenerateTexts, Outside, Gym, GymRow, GymRestart, GymReturns, Ended, vars
    <3> QED
      BY <3>1, <3>2
  <2> QED
    BY <2>1 DEF ScoreInv, ScoreOfEveryPrompt
<1> QED
  BY <1>1, <1>2

LEMMA ScoreStarts == ASSUME RolloutAssumption, Init PROVE ScoreInv
<1> SUFFICES ASSUME mode = "eval"
             PROVE  /\ eval.tests \in Nat \ {0} /\ eval.k \in 1..eval.tests /\ eval.torn \in BOOLEAN
                    /\ eval.score = eval.due
  BY DEF ScoreInv, ScoreOfEveryPrompt
<1>1. PICK e \in Evaluations : eval = Evaluated(e)
  BY DEF Init
<1>2. e.tests \in Nat \ {0} /\ e.k \in Nat \ {0} /\ e.tests >= e.k
  BY DEF RolloutAssumption, Configured
<1> DEFINE t == e.tests
           d == e.k
<1>3. t \in Nat \ {0} /\ d \in 1..t
  <2>1. t \in Nat \ {0} /\ d \in Nat \ {0} /\ t >= d
    BY <1>2
  <2> HIDE DEF t, d
  <2> QED
    BY <2>1
<1>4. /\ eval.tests = e.tests /\ eval.k = e.k /\ eval.torn = FALSE
      /\ eval.score = 0 /\ eval.due = 0
  BY <1>1 DEF Evaluated
<1> QED
  BY <1>4, <1>3

\* ScoreOfEveryPrompt, for any number of prompts, tests, workers and sizes of the
\* batches: what eval.py:175 to 390 adds up, from the environment's flattened
\* chunks (math_environment.py:295 to 330), is the sum of the prompts' own pass@k
\* or cons@k: no response's score or answer changes places between the texts and
\* the prompts' groups, the closed formula counts the choices with a right
\* answer, and the vote's winner is scored by its own reward.
THEOREM ScoresAreDue == Spec => []ScoreOfEveryPrompt
<1>1. Init => ScoreInv
  BY RolloutAssumption, ScoreStarts
<1>2. (Inv /\ Quiet) /\ ScoreInv /\ [Next]_vars => ScoreInv'
  BY RolloutAssumption, WorkersAssumption, ScoreStays
<1>3. ScoreInv => ScoreOfEveryPrompt
  BY DEF ScoreInv, ScoreOfEveryPrompt
<1> QED
  BY <1>1, <1>2, <1>3, Inductive, PTL DEF Spec
=============================================================================
