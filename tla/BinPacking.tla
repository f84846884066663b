----------------------------- MODULE BinPacking -----------------------------
(***************************************************************************)
(* The sequence packers (nemo_rl/data/packing/algorithms.py).  A packer    *)
(* puts sequences of given lengths into bins of a given capacity; a bin is *)
(* a sequence of indices.  Each packer is a function of the lengths and    *)
(* the capacity; the shuffling one is a set, one packing per order.        *)
(***************************************************************************)
EXTENDS Integers, Sequences, SequencesExt, FiniteSetsExt, Functions, TLC

Packers == {"concatenative", "first_fit_decreasing", "first_fit_shuffle",
            "modified_first_fit_decreasing"}

\* Python's sort of indices by length, stable; with reverse=True equal lengths
\* keep their order when a key is given, and go by index when pairs are compared.
Indices(lens) == [i \in DOMAIN lens |-> i]
Ascending(s, lens) ==
    SortSeq(s, LAMBDA i, j : lens[i] < lens[j] \/ (lens[i] = lens[j] /\ i < j))
Descending(s, lens) ==
    SortSeq(s, LAMBDA i, j : lens[i] > lens[j] \/ (lens[i] = lens[j] /\ i < j))
DescendingPairs(s, lens) ==
    SortSeq(s, LAMBDA i, j : lens[i] > lens[j] \/ (lens[i] = lens[j] /\ i > j))

Load(bin, lens) == MapThenSumSet(LAMBDA i : lens[i], ToSet(bin))
Fits(i, bin, lens, cap) == Load(bin, lens) + lens[i] <= cap
PutIn(bins, b, i) == [bins EXCEPT ![b] = Append(@, i)]

-----------------------------------------------------------------------------
\* In the order of the batch; a sequence that does not fit starts a new bin.
Concatenative(lens, cap) ==
    LET Next(bins, i) ==
            IF bins # <<>> /\ Fits(i, Last(bins), lens, cap)
            THEN PutIn(bins, Len(bins), i)
            ELSE Append(bins, <<i>>)
    IN  FoldLeft(Next, <<>>, Indices(lens))

\* In the given order, each into the first bin that has room for it.
FirstFit(order, lens, cap) ==
    LET Next(bins, i) ==
            LET room == {b \in DOMAIN bins : Fits(i, bins[b], lens, cap)}
            IN  IF room # {} THEN PutIn(bins, Min(room), i) ELSE Append(bins, <<i>>)
    IN  FoldLeft(Next, <<>>, order)

FirstFitDecreasing(lens, cap) ==
    FirstFit(DescendingPairs(Indices(lens), lens), lens, cap)

\* random.shuffle: any order of the batch.
FirstFitShuffles(lens, cap) ==
    {FirstFit(order, lens, cap) : order \in Permutations(DOMAIN lens)}

-----------------------------------------------------------------------------
(* Modified first-fit decreasing: one bin for every large sequence, then a   *)
(* medium one, then two small ones, then whatever fits, then first fit.      *)
IsLarge(n, cap) == 2 * n > cap
IsMedium(n, cap) == ~IsLarge(n, cap) /\ 3 * n > cap
IsSmall(n, cap) == ~IsLarge(n, cap) /\ ~IsMedium(n, cap) /\ 6 * n > cap
IsTiny(n, cap) == 6 * n <= cap

\* st.bins filled so far, st.left the sequences not packed yet, in order.
Take(st, b, i) == [bins |-> PutIn(st.bins, b, i), left |-> RemoveFirst(st.left, i)]

\* Phase 2: into each bin the first (largest) medium sequence that fits.
AddMedium(st, b, lens, cap) ==
    LET fit == SelectSeq(st.left, LAMBDA i : IsMedium(lens[i], cap)
                                             /\ Fits(i, st.bins[b], lens, cap))
    IN  IF fit = <<>> THEN st ELSE Take(st, b, Head(fit))

\* Phase 3: into a bin without a medium one the smallest small sequence and the
\* largest that fits beside it, if the two smallest fit.
AddSmallPair(st, b, lens, cap) ==
    LET small == Ascending(SelectSeq(st.left, LAMBDA i : IsSmall(lens[i], cap)), lens)
        room == cap - Load(st.bins[b], lens)
        beside == {j \in 2 .. Len(small) : lens[small[j]] <= room - lens[small[1]]}
    IN  IF \/ \E i \in ToSet(st.bins[b]) : IsMedium(lens[i], cap)
           \/ Len(small) < 2
           \/ lens[small[1]] + lens[small[2]] > room
        THEN st
        ELSE Take(Take(st, b, small[1]), b, small[Max(beside)])

\* Phase 4: into each bin, from the largest on, whatever still fits.
FillUp(st, b, lens, cap) ==
    LET Try(s, i) == IF Fits(i, s.bins[b], lens, cap) THEN Take(s, b, i) ELSE s
    IN  FoldLeft(Try, st, st.left)

ModifiedFirstFitDecreasing(lens, cap) ==
    LET all == Descending(Indices(lens), lens)
        large == SelectSeq(all, LAMBDA i : IsLarge(lens[i], cap))
        rest == SelectSeq(all, LAMBDA i : ~IsLarge(lens[i], cap))
        forward == Indices(large)
        phase1 == [bins |-> FoldLeft(LAMBDA bs, i : Append(bs, <<i>>), <<>>, large), left |-> rest]
        phase2 == FoldLeft(LAMBDA s, b : AddMedium(s, b, lens, cap), phase1, forward)
        phase3 == FoldLeft(LAMBDA s, b : AddSmallPair(s, b, lens, cap), phase2, Reverse(forward))
        phase4 == FoldLeft(LAMBDA s, b : FillUp(s, b, lens, cap), phase3, forward)
    IN  phase4.bins \o FirstFit(phase4.left, lens, cap)

-----------------------------------------------------------------------------
NumSequences(bins) == Len(FlattenSeq(bins))
RoundUp(n, multiple) == ((n + multiple - 1) \div multiple) * multiple

\* How many bins the callers ask for: at least `multiple`, and a multiple of it.
TargetBinCount(bins, multiple) == RoundUp(Max({Len(bins), multiple}), multiple)

\* Each missing bin gets the last sequence of the largest bin that had more than
\* one, the sizes being those before the first move.
AdjustBinCount(bins, multiple) ==
    LET count == Len(bins)
        largest == SortSeq(Indices(bins), LAMBDA a, b :
                       Len(bins[a]) > Len(bins[b]) \/ (Len(bins[a]) = Len(bins[b]) /\ a > b))
        Split(bs, new) ==
            LET from == Head(SelectSeq(largest, LAMBDA b : Len(bs[b]) > 1))
            IN  Append([bs EXCEPT ![from] = Front(@)], <<Last(bs[from])>>)
    IN  FoldLeft(Split, bins, [k \in 1 .. TargetBinCount(bins, multiple) - count |-> count + k])

\* A sequence longer than a bin, or fewer sequences than bins asked for, is a
\* ValueError: then there is no packing.
Packable(lens, cap) == \A i \in DOMAIN lens : lens[i] <= cap

RawPackings(alg, lens, cap) ==
    CASE alg = "concatenative" -> {Concatenative(lens, cap)}
      [] alg = "first_fit_decreasing" -> {FirstFitDecreasing(lens, cap)}
      [] alg = "first_fit_shuffle" -> FirstFitShuffles(lens, cap)
      [] alg = "modified_first_fit_decreasing" -> {ModifiedFirstFitDecreasing(lens, cap)}

Packings(alg, lens, cap, multiple) ==
    IF ~Packable(lens, cap) THEN {}
    ELSE {AdjustBinCount(bins, multiple) : bins \in
             {bs \in RawPackings(alg, lens, cap) :
                 TargetBinCount(bs, multiple) <= NumSequences(bs)}}
=============================================================================
