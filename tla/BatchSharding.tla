--------------------------- MODULE BatchSharding ---------------------------
(***************************************************************************)
(* BatchedDataDict (nemo_rl/distributed/batched_data_dict.py): how a batch *)
(* is cut into shards for the data-parallel ranks and into microbatches,   *)
(* and how results are put back in the order of the batch; and which       *)
(* workers of a group get which shard (worker_groups.py).                  *)
(*                                                                         *)
(* A batch is the sequence of its samples' lengths; a sample is its index. *)
(* A shard is [rows, gbs]: the samples in order and, for every global      *)
(* batch, [count, mbs], mbs being a sequence of [first, last, length]:     *)
(* rows first+1 .. last of that global batch, `length` tokens wide         *)
(* (dynamic) or long (packed).  gbs is <<>> where none were made.          *)
(***************************************************************************)
EXTENDS BinPacking

CONSTANTS
    Capacity,       \* max_tokens_per_microbatch (train_mb_tokens, logprob_mb_tokens)
    Round,          \* dynamic_batching.sequence_length_round
    PadMultiple,    \* sequence_length_pad_multiple, make_sequence_length_divisible_by
    PipelineParallel,   \* pipeline stages of one data-parallel rank
    TensorParallel      \* workers of one stage (tensor and context parallel)

ASSUME ShardingAssumption ==
    {Capacity, Round, PadMultiple, PipelineParallel, TensorParallel} \subseteq Nat \ {0}

\* Width of the tensor of tokens: the longest sample, rounded up.
Width(lens) == RoundUp(Max(Range(lens)), PadMultiple)
PaddedLength(n) == RoundUp(n, PadMultiple)

NumChunks(lens, size) == Len(lens) \div size
Chunk(c, size) == [k \in 1 .. size |-> (c - 1) * size + k]
Upto(s, n) == IF n < Len(s) THEN n ELSE Len(s)

\* Sort a chunk by length and deal it out to the shards; shard after shard.
DealtOut(c, size, lens, shards) ==
    LET sorted == Ascending(Chunk(c, size), lens)
    IN  FlattenSeq([s \in 1 .. shards |->
            [k \in 1 .. size \div shards |-> sorted[s + (k - 1) * shards]]])
DynamicOrder(lens, size, shards) ==
    FlattenSeq([c \in 1 .. NumChunks(lens, size) |-> DealtOut(c, size, lens, shards)])

\* The s-th share of every chunk of `data`.
Share(data, c, s, size, share) ==
    SubSeq(data, Upto(data, (c - 1) * size + (s - 1) * share) + 1,
                 Upto(data, (c - 1) * size + s * share))
Grouped(data, size, shards, share) ==
    [s \in 1 .. shards |->
        FlattenSeq([c \in 1 .. Len(data) \div size |-> Share(data, c, s, size, share)])]

-----------------------------------------------------------------------------
\* Dynamic batching: position p of shard s joins the microbatch if the microbatch,
\* as wide as its longest sample on any shard, stays within the capacity.
BadWidestAt(rows, s, at, lens) == lens[rows[s][at]]
WidestAt(rows, s, at, lens) == Max({lens[rows[t][at]] : t \in DOMAIN rows})

RoundedWidth(rows, s, at, lens) ==
    LET rounded == RoundUp(WidestAt(rows, s, at, lens), Round)
    IN  IF rounded < Width(lens) THEN rounded ELSE Width(lens)

BadJoinOrStart(mbs, p, width) ==
    LET mb == Last(mbs)
    IN  IF (mb.last - mb.first + 1) * mb.length <= Capacity
        THEN [mbs EXCEPT ![Len(mbs)] = [@ EXCEPT !.last = p, !.length = Max({@, width})]]
        ELSE Append(mbs, [first |-> p - 1, last |-> p, length |-> width])
JoinOrStart(mbs, p, width) ==
    LET mb == Last(mbs)
        wider == Max({mb.length, width})
    IN  IF (mb.last - mb.first + 1) * wider <= Capacity
        THEN [mbs EXCEPT ![Len(mbs)] = [@ EXCEPT !.last = p, !.length = wider]]
        ELSE Append(mbs, [first |-> p - 1, last |-> p, length |-> width])

DynamicMicrobatches(rows, s, c, share, lens) ==
    FoldLeft(LAMBDA mbs, p :
                 JoinOrStart(mbs, p, RoundedWidth(rows, s, (c - 1) * share + p, lens)),
             <<[first |-> 0, last |-> 0, length |-> 0]>>,
             [p \in 1 .. share |-> p])

\* Every sample alone must fit: an AssertionError otherwise.
DynamicFits(rows, lens) ==
    \A p \in DOMAIN rows[1] : RoundedWidth(rows, 1, p, lens) <= Capacity

-----------------------------------------------------------------------------
\* Packing: bins[c] are the bins of chunk c, dealt out to the shards in turn.
BinsOf(bins, s, shards) ==
    [k \in 1 .. (Len(bins) - s + shards) \div shards |-> bins[s + (k - 1) * shards]]
BadBinRows(bins, c, size) == FlattenSeq(bins)
BinRows(bins, c, size) == [k \in DOMAIN FlattenSeq(bins) |-> (c - 1) * size + FlattenSeq(bins)[k]]

AddBin(mbs, bin, lens) ==
    LET end == IF mbs = <<>> THEN 0 ELSE Last(mbs).last
    IN  Append(mbs, [first |-> end, last |-> end + Len(bin),
                     length |-> MapThenSumSet(LAMBDA i : PaddedLength(lens[i]), ToSet(bin))])

PackedShard(bins, s, shards, size, lens) ==
    LET mine == [c \in DOMAIN bins |-> BinsOf(bins[c], s, shards)]
        mbs(c) == FoldLeft(LAMBDA m, bin : AddBin(m, BinRows(<<bin>>, c, size), lens), <<>>, mine[c])
    IN  [rows |-> FlattenSeq([c \in DOMAIN bins |-> BinRows(mine[c], c, size)]),
         gbs |-> [c \in DOMAIN bins |-> [count |-> Last(mbs(c)).last, mbs |-> mbs(c)]]]

\* One packing per chunk, of the padded lengths.
ChunkPackings(lens, c, size, shards, alg) ==
    Packings(alg, [k \in 1 .. size |-> PaddedLength(lens[(c - 1) * size + k])], Capacity, shards)

BatchPackings(lens, size, shards, alg) ==
    FoldLeft(LAMBDA packings, c : {Append(p, q) : p \in packings,
                                                q \in ChunkPackings(lens, c, size, shards, alg)},
             {<<>>}, [c \in 1 .. NumChunks(lens, size) |-> c])

-----------------------------------------------------------------------------
\* shard_by_batch_size: the set of results, each [shards, order]; {} if it raises.
\* order is batch_sorted_indices, the samples in the order of the shards.
ShardPlain(lens, size, shards) ==
    IF Len(lens) % size # 0 \/ size % shards # 0 THEN {}
    ELSE LET data == Indices(lens)
             rows == Grouped(data, size, shards, size \div shards)
         IN  {[shards |-> [s \in 1 .. shards |-> [rows |-> rows[s], gbs |-> <<>>]],
               order |-> data]}

ShardUneven(lens, shards) ==
    LET n == Len(lens)
        rows == Grouped(Indices(lens), n, shards, RoundUp(n, shards) \div shards)
    IN  {[shards |-> [s \in 1 .. shards |-> [rows |-> rows[s], gbs |-> <<>>]],
          order |-> Indices(lens)]}

ShardDynamic(lens, size, shards) ==
    IF Len(lens) % size # 0 \/ size % shards # 0 THEN {}
    ELSE LET share == size \div shards
             data == DynamicOrder(lens, size, shards)
             rows == Grouped(data, size, shards, share)
             gbs(s) == [c \in 1 .. NumChunks(lens, size) |->
                           [count |-> share, mbs |-> DynamicMicrobatches(rows, s, c, share, lens)]]
         IN  IF ~DynamicFits(rows, lens) THEN {}
             ELSE {[shards |-> [s \in 1 .. shards |-> [rows |-> rows[s], gbs |-> gbs(s)]],
                    order |-> data]}

ShardPacked(lens, size, shards, alg) ==
    IF Len(lens) % size # 0 \/ size % shards # 0 THEN {}
    ELSE {LET cut == [s \in 1 .. shards |-> PackedShard(bins, s, shards, size, lens)]
          IN  [shards |-> cut, order |-> FlattenSeq([s \in 1 .. shards |-> cut[s].rows])]
          : bins \in BatchPackings(lens, size, shards, alg)}

-----------------------------------------------------------------------------
\* get_batch: global batch g of a shard (`share` rows where none were counted).
Before(shard, g) == MapThenSumSet(LAMBDA c : shard.gbs[c].count, 1 .. g - 1)
GlobalBatch(shard, g, share, packed) ==
    IF packed THEN SubSeq(shard.rows, Before(shard, g) + 1, Before(shard, g) + shard.gbs[g].count)
    ELSE SubSeq(shard.rows, (g - 1) * share + 1, g * share)

\* The three microbatch iterators over global batch g, `slice`.
EvenMicrobatches(slice, mbs, lens) ==
    [k \in 1 .. Len(slice) \div mbs |->
        [samples |-> SubSeq(slice, (k - 1) * mbs + 1, k * mbs), length |-> Width(lens)]]
CutMicrobatches(slice, mbs) ==
    [k \in DOMAIN mbs |->
        [samples |-> SubSeq(slice, mbs[k].first + 1, mbs[k].last), length |-> mbs[k].length]]

\* from_batches and reorder_data: stack the ranks' rows, then sort the positions by
\* the sample `order` says they hold.
Stacked(results) == FlattenSeq(results)
BadReordered(rows, order) == [i \in DOMAIN rows |-> rows[order[i]]]
Reordered(rows, order) ==
    LET at == SortSeq(Indices(order), LAMBDA p, q : order[p] < order[q])
    IN  [i \in DOMAIN rows |-> rows[at[i]]]

\* run_all_workers_sharded_data and get_results: every worker of a rank runs the
\* call on the rank's shard (for an engine, its first one), and the results of those
\* at the first place of the replicated axes come back, in the order of the workers.
Workers(shards) == [w \in 1 .. PipelineParallel * shards * TensorParallel |-> w - 1]
PolicyCoords(w, shards) ==
    [pipeline |-> w \div (shards * TensorParallel),
     data |-> ((w \div TensorParallel) % shards) + 1, tensor |-> w % TensorParallel]
EngineCoords(w) ==
    [pipeline |-> (w \div TensorParallel) % PipelineParallel,
     data |-> w \div (PipelineParallel * TensorParallel) + 1, tensor |-> w % TensorParallel]
WorkerResults(results, coords) ==
    LET returning == SelectSeq(Workers(Len(results)), LAMBDA w :
                         coords[w].pipeline = 0 /\ coords[w].tensor = 0)
    IN  [k \in DOMAIN returning |-> results[coords[returning[k]].data]]
=============================================================================
