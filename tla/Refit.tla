------------------------------- MODULE Refit -------------------------------
(***************************************************************************)
(* How a refit moves the weights from the policy workers to the engine.    *)
(*                                                                         *)
(* ipc: each policy worker packs its parameters into two buffers in turn   *)
(* and hands them over ZeroMQ to the engine worker on its GPU, which reads *)
(* them in place and acknowledges (stream_weights_via_ipc_zmq_impl,        *)
(* update_weights_via_ipc_zmq).  A parameter is gathered from all policy   *)
(* workers.                                                                *)
(* collective: both sides cut the list of parameters into groups, each by  *)
(* itself, and meet in one broadcast a group (packed_tensor.py).           *)
(*                                                                         *)
(* A parameter is its index in the list; the value it brings is new.       *)
(***************************************************************************)
EXTENDS Integers, Sequences, SequencesExt, FiniteSets, FiniteSetsExt

CONSTANTS
    Ranks,          \* pairs of a policy and an engine worker, one engine
    Leader,         \* the engine worker whose result is reported
    Models,         \* the sizes in bytes of the parameters of a model
    ScaleCounts,    \* how many KV scales may be exported with it
    ScaleSize,      \* the bytes of one
    BufferSize,     \* buffer_size_bytes
    Alignment,      \* 512 in the code
    TrainTarget,    \* get_target_packed_tensor_size of the policy workers
    EngineTarget,   \* and of the engine workers
    MaxFaults       \* how many workers may raise

ASSUME RefitAssumption ==
    /\ Leader \in Ranks /\ IsFiniteSet(Ranks)
    /\ \A l \in Models : l \in Seq(Nat \ {0}) /\ l # <<>>
    /\ ScaleCounts \subseteq Nat /\ ScaleSize \in Nat \ {0}
    /\ BufferSize \in Nat /\ Alignment \in Nat \ {0} /\ MaxFaults \in Nat
ASSUME SameTarget == TrainTarget \in Nat /\ EngineTarget = TrainTarget

VARIABLES
    transport,  \* ipc or collective
    sizes,      \* the sizes of the parameters
    sender,     \* the policy workers
    buffers,    \* ipc: what each half of a policy worker's buffer holds, by offset
    wire,       \* ipc: the message between the two sockets of a pair
    receiver,   \* the engine workers
    loaded,     \* the parameters an engine worker has loaded
    torn,       \* it has loaded bytes of another parameter
    outcome,    \* of refit_policy_generation: pending, ok or raised
    faults

vars == <<transport, sizes, sender, buffers, wire, receiver, loaded, torn, outcome, faults>>
ipcVars == <<buffers, wire>>

Params == DOMAIN sizes
Half == BufferSize \div 2

AlignedSize(n) == ((n + Alignment - 1) \div Alignment) * Alignment

\* The parameters in the order every worker exports them, and in which the
\* engine was told of them: the scales of an FP8 cache after the weights.
Exported(model, scales) == model \o [i \in 1..scales |-> ScaleSize]
SizeLists == {Exported(m, n) : m \in Models, n \in ScaleCounts}

Nothing == [kind |-> "none"]

Init ==
    /\ transport \in {"ipc", "collective"}
    /\ sizes \in SizeLists
    /\ sender = [r \in Ranks |-> [pc |-> "fetch", next |-> 1, used |-> 0, names |-> <<>>,
                                  buffer |-> 1, awaiting |-> FALSE]]
    /\ buffers = [r \in Ranks |-> [b \in 1..2 |-> <<>>]]
    /\ wire = [r \in Ranks |-> Nothing]
    /\ receiver = [r \in Ranks |-> [pc |-> "recv", next |-> 1, keys |-> <<>>, offset |-> 0,
                                    buffer |-> 1]]
    /\ loaded = [r \in Ranks |-> {}]
    /\ torn = [r \in Ranks |-> FALSE]
    /\ outcome = "pending"
    /\ faults = 0

Raise(r) == sender' = [sender EXCEPT ![r].pc = "raised"]
ReturnFalse(r) == receiver' = [receiver EXCEPT ![r].pc = "false"]

-----------------------------------------------------------------------------
(* ipc, the policy worker *)

\* Gathering parameter k is a collective of the policy workers: all have come
\* to ask for it.
Fetch(r) ==
    LET k == sender[r].next IN
    /\ transport = "ipc" /\ sender[r].pc = "fetch" /\ k \in Params
    /\ \A s \in Ranks : sender[s].next >= k /\ sender[s].pc # "raised"
    /\ sender' = [sender EXCEPT ![r].pc =
            IF AlignedSize(sizes[k]) > Half THEN "raised"
            ELSE IF sender[r].used + AlignedSize(sizes[k]) > Half THEN "send" ELSE "pack"]
    /\ UNCHANGED <<transport, sizes, ipcVars, receiver, loaded, torn, outcome, faults>>

\* A sender that does not wait for the group before.
BadSend(r) ==
    /\ sender[r].pc \in {"send", "flush"}
    /\ wire' = [wire EXCEPT ![r] = [kind |-> "group", buffer |-> sender[r].buffer,
                                    keys |-> sender[r].names, used |-> sender[r].used]]
    /\ sender' = [sender EXCEPT ![r].awaiting = TRUE, ![r].buffer = 3 - @, ![r].used = 0,
                                ![r].names = <<>>,
                                ![r].pc = IF @ = "send" THEN "pack" ELSE "complete"]
    /\ UNCHANGED <<transport, sizes, buffers, receiver, loaded, torn, outcome, faults>>

\* send_buffer_group_overlap: take the acknowledgement of the group before,
\* send this one, and go on in the other buffer.
Send(r) ==
    /\ sender[r].pc \in {"send", "flush"}
    /\ sender[r].awaiting => wire[r].kind = "ack"
    /\ wire' = [wire EXCEPT ![r] = [kind |-> "group", buffer |-> sender[r].buffer,
                                    keys |-> sender[r].names, used |-> sender[r].used]]
    /\ sender' = [sender EXCEPT ![r].awaiting = TRUE, ![r].buffer = 3 - @, ![r].used = 0,
                                ![r].names = <<>>,
                                ![r].pc = IF @ = "send" THEN "pack" ELSE "complete"]
    /\ UNCHANGED <<transport, sizes, buffers, receiver, loaded, torn, outcome, faults>>

\* A sender that ends the loop without the group it has not sent yet.
BadPack(r) ==
    LET k == sender[r].next
        b == sender[r].buffer
    IN
    /\ sender[r].pc = "pack"
    /\ buffers' = [buffers EXCEPT ![r][b] =
            [o \in DOMAIN @ \cup {sender[r].used} |-> IF o = sender[r].used THEN k ELSE @[o]]]
    /\ sender' = [sender EXCEPT ![r].names = Append(@, k), ![r].next = k + 1,
                                ![r].used = @ + AlignedSize(sizes[k]),
                                ![r].pc = IF k = Len(sizes) THEN "complete" ELSE "fetch"]
    /\ UNCHANGED <<transport, sizes, wire, receiver, loaded, torn, outcome, faults>>

\* The bytes at an offset are those of the parameter packed there last.
Pack(r) ==
    LET k == sender[r].next
        b == sender[r].buffer
    IN
    /\ sender[r].pc = "pack"
    /\ buffers' = [buffers EXCEPT ![r][b] =
            [o \in DOMAIN @ \cup {sender[r].used} |-> IF o = sender[r].used THEN k ELSE @[o]]]
    /\ sender' = [sender EXCEPT ![r].names = Append(@, k), ![r].next = k + 1,
                                ![r].used = @ + AlignedSize(sizes[k]),
                                ![r].pc = IF k = Len(sizes) THEN "flush" ELSE "fetch"]
    /\ UNCHANGED <<transport, sizes, wire, receiver, loaded, torn, outcome, faults>>

Complete(r) ==
    /\ sender[r].pc = "complete" /\ wire[r].kind = "ack"
    /\ wire' = [wire EXCEPT ![r] = [kind |-> "complete"]]
    /\ sender' = [sender EXCEPT ![r].pc = "last_ack"]
    /\ UNCHANGED <<transport, sizes, buffers, receiver, loaded, torn, outcome, faults>>

Finish(r) ==
    /\ sender[r].pc = "last_ack" /\ wire[r].kind = "ack"
    /\ wire' = [wire EXCEPT ![r] = Nothing]
    /\ sender' = [sender EXCEPT ![r].pc = "done"]
    /\ UNCHANGED <<transport, sizes, buffers, receiver, loaded, torn, outcome, faults>>

\* A socket that waits for ever.
BadSendTimeout(r) == UNCHANGED vars

\* RCVTIMEO while an acknowledgement is awaited.
SendTimeout(r) ==
    /\ \/ sender[r].pc \in {"send", "flush"} /\ sender[r].awaiting
       \/ sender[r].pc \in {"complete", "last_ack"}
    /\ wire[r].kind # "ack"
    /\ Raise(r)
    /\ UNCHANGED <<transport, sizes, ipcVars, receiver, loaded, torn, outcome, faults>>

-----------------------------------------------------------------------------
(* ipc, the engine worker *)

Receive(r) ==
    /\ receiver[r].pc = "recv" /\ wire[r].kind \in {"group", "complete"}
    /\ IF wire[r].kind = "group"
       THEN /\ receiver' = [receiver EXCEPT ![r].pc = "load", ![r].keys = wire[r].keys,
                                ![r].offset = 0, ![r].buffer = wire[r].buffer]
            /\ wire' = [wire EXCEPT ![r] = Nothing]
       ELSE /\ receiver' = [receiver EXCEPT ![r].pc = "scales"]
            /\ wire' = [wire EXCEPT ![r] = [kind |-> "ack"]]
    /\ UNCHANGED <<transport, sizes, sender, buffers, loaded, torn, outcome, faults>>

\* One parameter read from the shared buffer, at the offset the receiver's own
\* sizes give; the group is acknowledged when all are copied.
Load(r) ==
    LET k == Head(receiver[r].keys)
        b == buffers[r][receiver[r].buffer]
        o == receiver[r].offset
        rest == Tail(receiver[r].keys)
    IN
    /\ receiver[r].pc = "load"
    /\ loaded' = [loaded EXCEPT ![r] = @ \cup {k}]
    /\ torn' = [torn EXCEPT ![r] = @ \/ o \notin DOMAIN b \/ b[o] # k]
    /\ receiver' = [receiver EXCEPT ![r].keys = rest, ![r].offset = @ + AlignedSize(sizes[k]),
                                    ![r].pc = IF rest = <<>> THEN "recv" ELSE "load"]
    /\ wire' = IF rest = <<>> THEN [wire EXCEPT ![r] = [kind |-> "ack"]] ELSE wire
    /\ UNCHANGED <<transport, sizes, sender, buffers, outcome, faults>>

ReceiveTimeout(r) ==
    /\ transport = "ipc" /\ receiver[r].pc = "recv" /\ wire[r].kind \in {"none", "ack"}
    /\ ReturnFalse(r)
    /\ UNCHANGED <<transport, sizes, sender, ipcVars, loaded, torn, outcome, faults>>

-----------------------------------------------------------------------------
(* collective *)

Bytes(from, to) == FoldSeq(LAMBDA n, sum : sum + n, 0, SubSeq(sizes, from, to))

\* A consumer that closes a group at the target instead of above it.
BadUnpackGroup(from) ==
    LET full == {n \in from..Len(sizes) : Bytes(from, n) >= EngineTarget}
    IN IF full = {} THEN Len(sizes) ELSE Min(full)

\* The last parameter of the group that begins at `from`: the first to exceed
\* the target, or the last of all.
PackGroup(from) ==
    LET full == {n \in from..Len(sizes) : Bytes(from, n) > TrainTarget}
    IN IF full = {} THEN Len(sizes) ELSE Min(full)

UnpackGroup(from) ==
    LET full == {n \in from..Len(sizes) : Bytes(from, n) > EngineTarget}
    IN IF full = {} THEN Len(sizes) ELSE Min(full)

\* A worker comes to the broadcast of its next group.
ProducerArrives(r) ==
    /\ transport = "collective" /\ sender[r].pc = "fetch"
    /\ sender' = [sender EXCEPT ![r].pc = "broadcast"]
    /\ UNCHANGED <<transport, sizes, ipcVars, receiver, loaded, torn, outcome, faults>>

ConsumerArrives(r) ==
    /\ transport = "collective" /\ receiver[r].pc = "recv"
    /\ receiver' = [receiver EXCEPT ![r].pc = "broadcast"]
    /\ UNCHANGED <<transport, sizes, sender, ipcVars, loaded, torn, outcome, faults>>

\* All meet.  A consumer splits what comes by its own list.
Broadcast ==
    /\ \A r \in Ranks : sender[r].pc = "broadcast" /\ receiver[r].pc = "broadcast"
    /\ sender' = [r \in Ranks |->
         LET n == PackGroup(sender[r].next) + 1
         IN [sender[r] EXCEPT !.next = n, !.pc = IF n > Len(sizes) THEN "done" ELSE "fetch"]]
    /\ receiver' = [r \in Ranks |->
         LET n == UnpackGroup(receiver[r].next)
         IN [receiver[r] EXCEPT !.pc = "unpack",
                                !.keys = [i \in 1..(n + 1 - receiver[r].next) |->
                                              receiver[r].next + i - 1],
                                !.next = n + 1]]
    /\ UNCHANGED <<transport, sizes, ipcVars, loaded, torn, outcome, faults>>

Unpack(r) ==
    /\ receiver[r].pc = "unpack"
    /\ loaded' = [loaded EXCEPT ![r] = @ \cup ToSet(receiver[r].keys)]
    /\ receiver' = [receiver EXCEPT ![r].pc =
            IF receiver[r].next > Len(sizes) THEN "scales" ELSE "recv"]
    /\ UNCHANGED <<transport, sizes, sender, ipcVars, torn, outcome, faults>>

-----------------------------------------------------------------------------
(* Both *)

\* _maybe_process_fp8_kv_cache, and True.
ReturnTrue(r) ==
    /\ receiver[r].pc = "scales"
    /\ receiver' = [receiver EXCEPT ![r].pc = "true"]
    /\ UNCHANGED <<transport, sizes, sender, ipcVars, loaded, torn, outcome, faults>>

\* A policy worker raises; an engine worker catches what it raises and returns
\* False, without an acknowledgement.
Fault ==
    /\ faults < MaxFaults
    /\ faults' = faults + 1
    /\ \E r \in Ranks :
         \/ sender[r].pc \in {"fetch", "pack"} /\ Raise(r) /\ UNCHANGED receiver
         \/ /\ receiver[r].pc \in {"recv", "load", "unpack", "scales"} /\ ReturnFalse(r)
            /\ UNCHANGED sender
    /\ UNCHANGED <<transport, sizes, ipcVars, loaded, torn, outcome>>

\* What the engine reports of its workers is the leader's result.
UpdateSuccess == receiver[Leader].pc = "true"

\* refit_policy_generation: the policy workers' errors come first; the engine
\* answers when all its workers have.
Driver ==
    /\ outcome = "pending"
    /\ \/ /\ \E r \in Ranks : sender[r].pc = "raised"
          /\ outcome' = "raised"
       \/ /\ \A r \in Ranks : sender[r].pc = "done" /\ receiver[r].pc \in {"true", "false"}
          /\ outcome' = IF UpdateSuccess THEN "ok" ELSE "raised"
    /\ UNCHANGED <<transport, sizes, sender, ipcVars, receiver, loaded, torn, faults>>

\* The refit is over; or some worker never comes to a broadcast.
Ended ==
    /\ \/ outcome # "pending"
       \/ transport = "collective" /\ faults > 0
    /\ UNCHANGED vars

Sending(r)   == Fetch(r) \/ Send(r) \/ Pack(r) \/ Complete(r) \/ Finish(r) \/ SendTimeout(r)
Receiving(r) == Receive(r) \/ Load(r) \/ ReceiveTimeout(r) \/ Unpack(r) \/ ReturnTrue(r)
Arriving(r)  == ProducerArrives(r) \/ ConsumerArrives(r)

Next ==
    \/ \E r \in Ranks : Sending(r) \/ Receiving(r) \/ Arriving(r)
    \/ Broadcast \/ Fault \/ Driver \/ Ended

\* Workers and sockets go on; faults need not happen.
Fairness ==
    /\ \A r \in Ranks : WF_vars(Sending(r)) /\ WF_vars(Receiving(r))
                        /\ WF_vars(ProducerArrives(r)) /\ WF_vars(ConsumerArrives(r))
    /\ WF_vars(Broadcast) /\ WF_vars(Driver)

Spec == Init /\ [][Next]_vars /\ Fairness

-----------------------------------------------------------------------------
(* Properties *)

SenderType ==
    [pc: {"fetch", "send", "pack", "flush", "complete", "last_ack", "broadcast", "done", "raised"},
     next: 1..(Len(sizes) + 1), used: Nat, names: Seq(Params), buffer: 1..2, awaiting: BOOLEAN]
ReceiverType ==
    [pc: {"recv", "load", "broadcast", "unpack", "scales", "true", "false"},
     next: 1..(Len(sizes) + 1), keys: Seq(Params), offset: Nat, buffer: 1..2]

TypeOK ==
    /\ transport \in {"ipc", "collective"} /\ sizes \in SizeLists
    /\ sender \in [Ranks -> SenderType] /\ receiver \in [Ranks -> ReceiverType]
    /\ loaded \in [Ranks -> SUBSET Params] /\ torn \in [Ranks -> BOOLEAN]
    /\ outcome \in {"pending", "ok", "raised"} /\ faults \in 0..MaxFaults

\* A buffer shared by two processes is never read after it was written for a
\* later group, and every parameter is read where it was put: what an engine
\* loads under a name is that parameter.
NeverTorn == \A r \in Ranks : ~torn[r]

\* In a broadcast all ranks send and receive the same number of bytes, of the
\* same parameters: two loops that cut the list separately cut it alike.
BroadcastsAgree ==
    (\A r \in Ranks : sender[r].pc = "broadcast" /\ receiver[r].pc = "broadcast") =>
        \A r, s \in Ranks : sender[r].next = receiver[s].next
                            /\ PackGroup(sender[r].next) = UnpackGroup(receiver[s].next)

\* A refit the driver takes for done has brought every parameter, once packed,
\* to every engine worker over ipc, and to each that returned True.
RefitIsWhole ==
    outcome = "ok" => \A r \in Ranks :
        (transport = "ipc" \/ receiver[r].pc = "true") => loaded[r] = Params

\* A refit that succeeds has succeeded on every worker of the engine
\* (grpo.py: "check if update is successful").
RefittedEverywhere == outcome = "ok" => \A r \in Ranks : receiver[r].pc = "true"

\* Over ipc a refit ends whatever worker fails, by the sockets' timeouts; a
\* collective refit ends unless a worker has failed.
RefitEnds == <>(outcome # "pending" \/ (transport = "collective" /\ faults > 0))
=============================================================================
