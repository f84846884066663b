------------------------------ MODULE Clusters ------------------------------
(***************************************************************************)
(* From a configuration to running worker groups: the setup functions of   *)
(* the drivers divide the machine into clusters, RayVirtualCluster asks    *)
(* Ray for their placement groups, Policy and VllmGeneration put a worker  *)
(* group on them, and the setup joins the groups for weight updates.       *)
(*                                                                         *)
(* Setup runs in threads: one for each worker group it makes and one for   *)
(* the reward-model environment, an actor that makes its own cluster while *)
(* the driver makes the others.  Ray is external: a placement group gets   *)
(* all its bundles, one GPU each, or none.  CPUs are taken to be plenty.   *)
(***************************************************************************)
EXTENDS Integers, Sequences, SequencesExt, FiniteSets, FiniteSetsExt, Functions

CONSTANTS
    Setups,         \* the jobs set up, each a record of IsSetup
    MaxRetries      \* NRL_VIRTUAL_CLUSTER_MAX_RETRIES

Sizes(r, fields) == \A f \in fields : r[f] \in Nat \ {0}

\* nodes, gpus: of the machine; late: nodes not there yet; inference, reward: the resources
\* configured for engines of their own and for a reward model (0: none).  With Megatron as
\* the engine the policy generates itself.
IsSetup(s) ==
    /\ s.driver \in {"grpo", "distillation", "plain"} /\ s.engine \in {"vllm", "megatron"}
    /\ Sizes(s, {"nodes", "gpus"}) /\ s.late \in 0 .. s.nodes - 1 /\ s.colocated \in BOOLEAN
    /\ {s.inference.nodes, s.inference.gpus, s.reward.nodes, s.reward.gpus} \subseteq Nat
    /\ Sizes(s.policy, {"pp", "cp", "tp"}) /\ Sizes(s.vllm, {"pp", "tp"})
    /\ s.reward.nodes > 0 => s.driver = "grpo"
    /\ s.driver = "distillation" => s.engine = "vllm"
    /\ s.driver = "plain" => s.engine = "megatron" /\ s.colocated

ASSUME SetupsAssumption == (\A s \in Setups : IsSetup(s)) /\ MaxRetries \in Nat \ {0}

VARIABLES
    setup,
    joined,     \* the nodes of the machine Ray knows
    cluster,    \* the virtual clusters (see NoCluster)
    pc,         \* where each thread is
    group,      \* the worker groups (see NoWorkers)
    stage       \* of the driver: init, collective, ready or raised

vars == <<setup, joined, cluster, pc, group, stage>>

Product(sizes, fields) == FoldSet(LAMBDA f, n : sizes[f] * n, 1, fields)
PolicyParallel == Product(setup.policy, {"pp", "cp", "tp"})
EngineParallel == Product(setup.vllm, {"pp", "tp"})
-----------------------------------------------------------------------------
(* Dividing the machine *)

PolicyNodes == IF setup.nodes = 1 THEN 1 ELSE setup.nodes - setup.reward.nodes
PolicyGpus == setup.gpus - (IF setup.nodes = 1 THEN setup.reward.gpus ELSE 0)

EngineShape ==
    IF PolicyNodes = 1 THEN [nodes |-> 1, gpus |-> setup.inference.gpus] ELSE setup.inference
TrainShape ==
    CASE setup.colocated -> [nodes |-> PolicyNodes, gpus |-> PolicyGpus]
      [] ~setup.colocated /\ PolicyNodes = 1 ->
             [nodes |-> 1, gpus |-> PolicyGpus - EngineShape.gpus]
      [] OTHER -> [nodes |-> PolicyNodes - EngineShape.nodes, gpus |-> setup.gpus]

\* What setup asserts of the resources.  That nodes are left for training it does not.
ValidDivision ==
    /\ PolicyNodes > 0
    /\ IF setup.colocated THEN PolicyGpus > 0
       ELSE /\ setup.engine # "megatron"
            /\ setup.inference.gpus > 0
            /\ IF PolicyNodes = 1
               THEN setup.inference.nodes \in {0, 1} /\ (setup.driver = "grpo" => TrainShape.gpus > 0)
               ELSE setup.inference.nodes > 0 /\ setup.inference.gpus = setup.gpus

Shape(c) ==
    CASE c = "train" -> TrainShape [] c = "inference" -> EngineShape [] c = "reward" -> setup.reward
World(c) == Shape(c).nodes * Shape(c).gpus

\* max_colocated_worker_groups: a worker reserves this part of its GPU.
Groups(c) ==
    IF c = "reward" \/ setup.driver = "plain" THEN 1
    ELSE IF setup.driver = "distillation" THEN 3
    ELSE IF setup.colocated /\ setup.engine = "vllm" THEN 2 ELSE 1

-----------------------------------------------------------------------------
(* The threads *)

HasEngine == setup.engine = "vllm"
DriverThreads ==
    {"policy"} \cup (IF HasEngine THEN {"engine"} ELSE {})
               \cup (IF setup.driver = "distillation" THEN {"teacher"} ELSE {})
Threads == DriverThreads \cup (IF setup.reward.nodes > 0 THEN {"reward"} ELSE {})

\* Colocated engines are loaded first, separate ones of GRPO beside the policy; distillation
\* makes the teacher, the engine and the student.
Before(t) ==
    CASE t = "policy" /\ setup.driver = "distillation" -> {"engine"}
      [] t = "policy" /\ setup.driver # "distillation" /\ HasEngine /\ setup.colocated -> {"engine"}
      [] t = "engine" /\ setup.driver = "distillation" -> {"teacher"}
      [] OTHER -> {}

ClusterOf(t) ==
    IF t = "reward" THEN "reward"
    ELSE IF t = "engine" /\ ~setup.colocated THEN "inference" ELSE "train"

\* sizes, placed: of the placement groups, and the GPUs of their bundles (<<>> until Ray has
\* placed it); order: _sorted_bundle_indices, <<>> if there are none.
NoCluster == [state |-> "none", tries |-> 0, strategy |-> "PACK", sizes |-> <<>>, placed |-> <<>>,
              order |-> <<>>]

\* ties: the tied groups [pg, bundles]; members: the workers in the order of their ranks;
\* running: those Ray has started; spawned: the groups whose engine has its own workers.
NoWorkers == [ties |-> <<>>, members |-> <<>>, running |-> {}, spawned |-> {}]

Init ==
    /\ setup \in Setups
    /\ joined \in {n \in SUBSET (1 .. setup.nodes) : Cardinality(n) = setup.nodes - setup.late}
    /\ cluster = [c \in {"train", "inference", "reward"} |-> NoCluster]
    /\ pc = [t \in Threads |-> "idle"]
    /\ group = [t \in Threads |-> NoWorkers]
    /\ stage = IF ValidDivision THEN "init" ELSE "raised"

Goes(t, to) == pc' = [pc EXCEPT ![t] = to]
Active(t, at) == pc[t] = at /\ (t \in DriverThreads => stage = "init")

-----------------------------------------------------------------------------
(* Ray *)

GpusOf(nodes) == {<<n, g>> : n \in nodes, g \in 1 .. setup.gpus}
BundlesOf(c) == UNION {Range(cluster[c].placed[k]) : k \in DOMAIN cluster[c].placed}
Taken == UNION {BundlesOf(c) : c \in DOMAIN cluster}
Free == GpusOf(joined) \ Taken
FreeOn(n, free) == Cardinality({g \in free : g[1] = n})

\* Where Ray puts the next bundle of a group.  PACK: on one node if one has room for all, else
\* it fills one node after the other.  SPREAD: on a node with the fewest of them.
WithRoom(free, gpus) == {g[1] : g \in free \ Range(gpus)}
PackedNodes(gpus, size, free) ==
    LET roomy == {n \in joined : FreeOn(n, free) >= size}
        last == gpus[Len(gpus)][1]
    IN  IF gpus # <<>> /\ last \in WithRoom(free, gpus) THEN {last}
        ELSE IF gpus = <<>> /\ roomy # {} THEN roomy
        ELSE WithRoom(free, gpus)
SpreadNodes(gpus, free) ==
    {n \in WithRoom(free, gpus) : \A m \in WithRoom(free, gpus) :
        FreeOn(n, Range(gpus)) <= FreeOn(m, Range(gpus))}
Placements(size, strategy, free) ==
    LET nodes(gpus) == IF strategy = "PACK" THEN PackedNodes(gpus, size, free) ELSE SpreadNodes(gpus, free)
        upto[n \in 0 .. size] ==
            IF n = 0 THEN {<<>>}
            ELSE UNION {{Append(gpus, g) : g \in ((nodes(gpus) \X (1 .. setup.gpus)) \cap free) \ Range(gpus)} :
                           gpus \in upto[n - 1]}
    IN  upto[size]

\* Groups are placed in the order they were asked for, those without room are left for later.
Pending(c) == {k \in DOMAIN cluster[c].sizes : cluster[c].placed[k] = <<>>}
Placeable(c) == {k \in Pending(c) : Cardinality(Free) >= cluster[c].sizes[k]}
Place(c) ==
    /\ cluster[c].state = "pending" /\ Placeable(c) # {}
    /\ \E k \in {Min(Placeable(c))}, free \in {Free} :
       \E gpus \in Placements(cluster[c].sizes[k], cluster[c].strategy, free) :
           cluster' = [cluster EXCEPT ![c].placed[k] = gpus]
    /\ UNCHANGED <<setup, joined, pc, group, stage>>

Join(n) ==
    /\ n \notin joined
    /\ joined' = joined \cup {n}
    /\ UNCHANGED <<setup, cluster, pc, group, stage>>

-----------------------------------------------------------------------------
(* The placement groups of a virtual cluster *)

\* The worker classes check the size of the cluster before they use it.
Divides(t) ==
    IF t = "engine" THEN World(ClusterOf(t)) % EngineParallel = 0
    ELSE LET n == IF t = "policy" THEN PolicyParallel ELSE 1
         IN  World(ClusterOf(t)) >= n /\ World(ClusterOf(t)) % n = 0
Starts(t) == Active(t, "idle") /\ \A b \in Before(t) : pc[b] = "up"
Reject(t) ==
    /\ Starts(t) /\ ~Divides(t)
    /\ Goes(t, "raised")
    /\ UNCHANGED <<setup, joined, cluster, group, stage>>

\* Only an engine asks for one group over all nodes: if a model does not fit on one.
CrossNode(t) == t = "engine" /\ EngineParallel > Shape(ClusterOf(t)).gpus
BadStrategy(t) == IF ~CrossNode(t) THEN "PACK" ELSE "SPREAD"
Strategy(t) == IF ~CrossNode(t) THEN "PACK" ELSE IF setup.colocated THEN "SPREAD" ELSE "PACK"
GroupSizes(t) ==
    LET s == Shape(ClusterOf(t))
    IN  IF CrossNode(t) THEN <<s.nodes * s.gpus>> ELSE [n \in 1 .. s.nodes |-> s.gpus]

\* _init_placement_groups: whoever comes later uses the groups that are there.
FindGroups(t) ==
    /\ Starts(t) /\ Divides(t) /\ cluster[ClusterOf(t)].state = "ready"
    /\ Goes(t, "placed")
    /\ UNCHANGED <<setup, joined, cluster, group, stage>>

\* The GPUs of the machine are counted, whether free or not.
Enough(c) == World(c) <= Cardinality(GpusOf(joined))
RequestGroups(t) ==
    LET c == ClusterOf(t) IN
    /\ Starts(t) /\ Divides(t) /\ cluster[c].state = "none" /\ Enough(c)
    /\ cluster' = [cluster EXCEPT ![c].state = "pending", ![c].strategy = Strategy(t),
                                  ![c].sizes = GroupSizes(t),
                                  ![c].placed = [k \in DOMAIN GroupSizes(t) |-> <<>>]]
    /\ Goes(t, "placing")
    /\ UNCHANGED <<setup, joined, group, stage>>

RetryLater(t) ==
    LET c == ClusterOf(t) IN
    /\ Starts(t) /\ Divides(t) /\ cluster[c].state = "none" /\ ~Enough(c)
    /\ cluster' = [cluster EXCEPT ![c].tries = @ + 1]
    /\ Goes(t, IF cluster[c].tries + 1 = MaxRetries THEN "raised" ELSE "idle")
    /\ UNCHANGED <<setup, joined, group, stage>>

BadSortedBundles(gpus) == [i \in DOMAIN gpus |-> i]
\* _get_sorted_bundle_indices: by node, then by GPU.
SortedBundles(gpus) ==
    SortSeq([i \in DOMAIN gpus |-> i],
            LAMBDA i, j : \/ gpus[i][1] < gpus[j][1]
                          \/ gpus[i][1] = gpus[j][1] /\ gpus[i][2] < gpus[j][2])
GroupsReady(t) ==
    LET c == ClusterOf(t) IN
    /\ Active(t, "placing") /\ Pending(c) = {}
    /\ cluster' = [cluster EXCEPT ![c].state = "ready",
                       ![c].order = IF CrossNode(t) THEN SortedBundles(cluster[c].placed[1]) ELSE <<>>]
    /\ Goes(t, "placed")
    /\ UNCHANGED <<setup, joined, group, stage>>

\* Ray had no room for some group in three minutes; no retry.
GroupsTimeOut(t) ==
    LET c == ClusterOf(t) IN
    /\ Active(t, "placing") /\ Pending(c) # {} /\ Placeable(c) = {}
    /\ cluster' = [cluster EXCEPT ![c] = [NoCluster EXCEPT !.tries = cluster[c].tries]]
    /\ Goes(t, "raised")
    /\ UNCHANGED <<setup, joined, group, stage>>

-----------------------------------------------------------------------------
(* The workers of a group *)

\* One worker on each bundle; the policy of a cluster with sorted bundles follows these.
SingleBundles(c) ==
    FlattenSeq([k \in DOMAIN cluster[c].placed |->
                    [b \in DOMAIN cluster[c].placed[k] |-> [pg |-> k - 1, bundles |-> <<b>>]]])
SortedSingles(c) ==
    [i \in DOMAIN cluster[c].order |->
        [pg |-> (i - 1) \div Shape(c).gpus, bundles |-> <<cluster[c].order[i]>>]]
PolicyTies(c) == IF cluster[c].order # <<>> THEN SortedSingles(c) ELSE SingleBundles(c)

\* _get_tied_worker_bundle_indices.  Over one group: its bundles node by node.
NodesOf(gpus) == SetToSortSeq({g[1] : g \in Range(gpus)}, <)
BundlesByNode(gpus) ==
    LET nodes == NodesOf(gpus)
    IN  FlattenSeq([n \in DOMAIN nodes |->
            SelectSeq([b \in DOMAIN gpus |-> b], LAMBDA b : gpus[b][1] = nodes[n])])
Cut(bundles, g) == SubSeq(bundles, (g - 1) * EngineParallel + 1, g * EngineParallel)
EvenNodes(gpus) == \A n, m \in {g[1] : g \in Range(gpus)} : FreeOn(n, Range(gpus)) = FreeOn(m, Range(gpus))
TiesInOne(gpus) ==
    LET nodes == NodesOf(gpus)
        bundles == BundlesByNode(gpus)
        first(g) == gpus[bundles[(g - 1) * EngineParallel + 1]][1]
    IN  [g \in 1 .. Len(gpus) \div EngineParallel |->
            [pg |-> SelectInSeq(nodes, LAMBDA n : n = first(g)) - 1, bundles |-> Cut(bundles, g)]]
\* Over several: each group on its own, what is left of it unused.
TiesInEach(placed) ==
    FlattenSeq([k \in DOMAIN placed |->
        [g \in 1 .. Len(placed[k]) \div EngineParallel |->
            [pg |-> k - 1, bundles |-> Cut([b \in DOMAIN placed[k] |-> b], g)]]])
EngineTies(c) ==
    IF EngineParallel = 1 THEN SingleBundles(c)
    ELSE IF Len(cluster[c].placed) = 1 THEN TiesInOne(cluster[c].placed[1])
    ELSE TiesInEach(cluster[c].placed)
CanTie(c) ==
    EngineParallel > 1 =>
        /\ EngineTies(c) # <<>>
        /\ Len(cluster[c].placed) = 1 => EvenNodes(cluster[c].placed[1])

GpuAt(c, pg, b) == IF Len(cluster[c].placed) = 1 THEN cluster[c].placed[1][b] ELSE cluster[c].placed[pg + 1][b]

\* get_master_address_and_port: where the ranks of a group are told to meet.
BadMasterBundle(c) == 1
MasterBundle(c) == IF cluster[c].order # <<>> THEN cluster[c].order[1] ELSE 1
MasterNode(c) == cluster[c].placed[1][MasterBundle(c)][1]

\* In a tied group the engine reserves the GPUs for workers of its own.
BadReserves(tie) == Len(tie.bundles) >= 1
Reserves(tie) == Len(tie.bundles) = 1
MembersOf(c, ties) ==
    FlattenSeq([g \in DOMAIN ties |->
        [l \in DOMAIN ties[g].bundles |->
            [gpu |-> GpuAt(c, ties[g].pg, ties[g].bundles[l]), group |-> g, local |-> l - 1,
             reserves |-> Reserves(ties[g])]]])

TieBundles(t) ==
    LET c == ClusterOf(t) IN
    /\ Active(t, "placed") /\ (t = "engine" => CanTie(c))
    /\ group' = [group EXCEPT ![t].ties = IF t = "engine" THEN EngineTies(c) ELSE PolicyTies(c)]
    /\ Goes(t, "tied")
    /\ UNCHANGED <<setup, joined, cluster, stage>>
CannotTie(t) ==
    /\ Active(t, "placed") /\ t = "engine" /\ ~CanTie(ClusterOf(t))
    /\ Goes(t, "raised")
    /\ UNCHANGED <<setup, joined, cluster, group, stage>>

CreateWorkers(t) ==
    /\ Active(t, "tied")
    /\ group' = [group EXCEPT ![t].members = MembersOf(ClusterOf(t), group[t].ties)]
    /\ Goes(t, "starting")
    /\ UNCHANGED <<setup, joined, cluster, stage>>

\* Parts of a GPU in use: by workers, and by the workers of engines.
GroupGpus(t, g) == {m.gpu : m \in {group[t].members[w] : w \in {v \in DOMAIN group[t].members : group[t].members[v].group = g}}}
Uses(t, gpu) ==
    Cardinality({w \in group[t].running : group[t].members[w].gpu = gpu /\ group[t].members[w].reserves})
    + Cardinality({g \in group[t].spawned : gpu \in GroupGpus(t, g)})
InUse(gpu) == MapThenSumSet(LAMBDA t : Uses(t, gpu), Threads)
RoomOn(t, gpu) == InUse(gpu) < Groups(ClusterOf(t))

Startable(t) ==
    {w \in DOMAIN group[t].members \ group[t].running :
        group[t].members[w].reserves => RoomOn(t, group[t].members[w].gpu)}
StartWorkers(t) ==
    /\ Active(t, "starting") /\ Startable(t) # {}
    /\ group' = [group EXCEPT ![t].running = @ \cup Startable(t)]
    /\ UNCHANGED <<setup, joined, cluster, pc, stage>>

Owners(t) == {w \in group[t].running : group[t].members[w].local = 0}
Spawnable(t) ==
    {g \in {group[t].members[w].group : w \in Owners(t)} \ group[t].spawned :
        Len(group[t].ties[g].bundles) > 1 /\ \A gpu \in GroupGpus(t, g) : RoomOn(t, gpu)}
SpawnEngines(t) ==
    /\ Active(t, "starting") /\ Spawnable(t) # {}
    /\ group' = [group EXCEPT ![t].spawned = @ \cup Spawnable(t)]
    /\ UNCHANGED <<setup, joined, cluster, pc, stage>>

\* VllmGeneration: as many engines as the world has room for.
BadEnginesComplete(t) == TRUE
EnginesComplete(t) == Len(group[t].ties) = World(ClusterOf(t)) \div EngineParallel
Running(t) ==
    /\ group[t].running = DOMAIN group[t].members
    /\ \A g \in DOMAIN group[t].ties : Len(group[t].ties[g].bundles) > 1 => g \in group[t].spawned
WorkersUp(t) ==
    /\ Active(t, "starting") /\ Running(t)
    /\ Goes(t, IF t = "engine" /\ ~EnginesComplete(t) THEN "raised" ELSE "up")
    /\ UNCHANGED <<setup, joined, cluster, group, stage>>

-----------------------------------------------------------------------------
(* The driver *)

AllUp ==
    /\ stage = "init" /\ \A t \in DriverThreads : pc[t] = "up"
    /\ stage' = IF setup.colocated THEN "ready" ELSE "collective"
    /\ UNCHANGED <<setup, joined, cluster, pc, group>>

\* The executor waits for the other thread before the exception leaves it.
Abort ==
    /\ stage = "init" /\ \E t \in DriverThreads : pc[t] = "raised"
    /\ \A t \in DriverThreads : pc[t] \in {"idle", "up", "raised"}
    /\ \A t \in DriverThreads : pc[t] = "idle" => \E b \in Before(t) : pc[b] # "up"
    /\ stage' = "raised"
    /\ UNCHANGED <<setup, joined, cluster, pc, group>>

\* init_collective: the policy's ranks, then those of the engines.  The engines' workers are
\* called at the first place of every axis but the data-parallel one.
PolicyRanks == [w \in DOMAIN group["policy"].members |-> w - 1]
Called == SelectSeq([w \in DOMAIN group["engine"].members |-> w],
                    LAMBDA w : (w - 1) % EngineParallel = 0)
PrefixStep == Len(group["engine"].members) \div (World("inference") \div EngineParallel)
EngineRanks ==
    FlattenSeq([k \in DOMAIN Called |->
        [l \in 1 .. EngineParallel |-> World("train") + (k - 1) * PrefixStep + (l - 1)]])
CollectiveRanks == PolicyRanks \o EngineRanks
CollectiveWorld == World("train") + World("inference")
Meets ==
    /\ \A k \in DOMAIN Called : group["engine"].members[Called[k]].local = 0
    /\ Len(CollectiveRanks) = CollectiveWorld
    /\ ToSet(CollectiveRanks) = 0 .. CollectiveWorld - 1
FormCollective ==
    /\ stage = "collective" /\ Meets
    /\ stage' = "ready"
    /\ UNCHANGED <<setup, joined, cluster, pc, group>>

Ended == stage \in {"ready", "raised"} /\ UNCHANGED vars

Thread(t) ==
    \/ Reject(t) \/ FindGroups(t) \/ RequestGroups(t) \/ RetryLater(t)
    \/ GroupsReady(t) \/ GroupsTimeOut(t)
    \/ TieBundles(t) \/ CannotTie(t) \/ CreateWorkers(t) \/ StartWorkers(t) \/ SpawnEngines(t) \/ WorkersUp(t)
Ray == \E c \in DOMAIN cluster : Place(c)
Driver == AllUp \/ Abort \/ FormCollective

Next ==
    \/ \E t \in Threads : Thread(t)
    \/ Ray
    \/ \E n \in 1 .. setup.nodes : Join(n)
    \/ Driver
    \/ Ended

\* Threads and the driver go on, Ray places what it can; a node need never come.
Spec ==
    /\ Init /\ [][Next]_vars
    /\ WF_vars(Ray) /\ WF_vars(Driver)
    /\ \A t \in {"policy", "engine", "teacher", "reward"} : WF_vars(t \in Threads /\ Thread(t))

-----------------------------------------------------------------------------
Places == {"idle", "placing", "placed", "tied", "starting", "up", "raised"}

TypeOK ==
    /\ IsSetup(setup) /\ joined \subseteq 1 .. setup.nodes
    /\ \A t \in Threads : pc[t] \in Places
    /\ \A c \in DOMAIN cluster :
        /\ cluster[c].state \in {"none", "pending", "ready"} /\ cluster[c].tries \in 0 .. MaxRetries
        /\ Len(cluster[c].placed) = Len(cluster[c].sizes)
        /\ Taken \subseteq GpusOf(joined)
    /\ stage \in {"init", "collective", "ready", "raised"}

Ready(t) == t \in Threads /\ pc[t] = "up"
NodeOf(t, w) == group[t].members[w].gpu[1]

\* The workers that exchange weights by IPC: each worker of the policy finds one worker of an
\* engine on its GPU and the other way round (get_zmq_address names the socket by the GPU).
EngineWorkersOn(gpu) == {w \in DOMAIN group["engine"].members : group["engine"].members[w].gpu = gpu}
PolicyWorkersOn(gpu) == {w \in DOMAIN group["policy"].members : group["policy"].members[w].gpu = gpu}
PairsShareGpus ==
    stage = "ready" /\ HasEngine /\ setup.colocated =>
        \A gpu \in BundlesOf("train") :
            Cardinality(EngineWorkersOn(gpu)) = 1 /\ Cardinality(PolicyWorkersOn(gpu)) = 1

\* Workers that hold parts of the same layer are on one node whenever their number divides
\* the GPUs of a node, however Ray numbers the bundles: neighbours in rank are neighbours
\* in the machine, for the policy and in every engine.  (A reward model that wants more GPUs
\* of each node than it has may leave the policy the rest of two nodes.)
SameNode(t, tp) ==
    Ready(t) /\ Shape(ClusterOf(t)).gpus % tp = 0 =>
        \A v, w \in DOMAIN group[t].members :
            (v - 1) \div tp = (w - 1) \div tp => NodeOf(t, v) = NodeOf(t, w)
LayersOnOneNode ==
    setup.reward.gpus <= setup.gpus =>
        SameNode("policy", setup.policy.tp) /\ SameNode("engine", setup.vllm.tp)

\* The address every worker of a policy is given to meet at, and that of the collective for
\* weight updates, is one of the node that rank 0, which listens there, runs on.
MasterRunsRankZero ==
    \A t \in Threads \ {"engine"} : Ready(t) => MasterNode(ClusterOf(t)) = NodeOf(t, 1)

\* A model of an engine that does not fit on one node needs one placement group over all nodes
\* of its cluster.  It comes too late where a teacher has made groups before, and where the
\* cluster shares the machine with a reward model it gets even nodes only by luck.
CrossNodeEngine == HasEngine /\ CrossNode("engine")
TeacherFirst == CrossNodeEngine /\ setup.colocated /\ setup.driver = "distillation"
RewardNodesInTheWay == CrossNodeEngine /\ setup.colocated /\ setup.reward.nodes > 0 /\ setup.nodes > 1

\* A setup whose groups fit the machine, all of whose nodes are there, does not fail.
Fits ==
    /\ ValidDivision /\ setup.late = 0
    /\ \A t \in DriverThreads : Divides(t)
    /\ HasEngine /\ EngineParallel <= Shape(ClusterOf("engine")).gpus =>
           Shape(ClusterOf("engine")).gpus % EngineParallel = 0
    /\ ~TeacherFirst /\ ~RewardNodesInTheWay
FailsOnlyIfUnfit == stage = "raised" => ~Fits

\* Setup comes to an end: with all groups up and met, or with an exception.  Nobody waits for
\* part of a GPU that is never given back, for bundles, or for a rank that never comes.
SetupEnds == <>(stage \in {"ready", "raised"})
=============================================================================
