---------------------------- MODULE RefitProofs ----------------------------
(***************************************************************************)
(* What holds of a refit for every model, whatever the sizes of its        *)
(* parameters, the buffers, their alignment and the targets of the         *)
(* broadcasts, and for any number of workers and of failures.              *)
(***************************************************************************)
EXTENDS Refit, TLAPS, SequenceTheorems, WellFoundedInduction

\* What a half of a shared buffer may hold, by offset, and what a socket may.
Contents == UNION {[at -> Params] : at \in SUBSET Nat}
Messages == [kind: {"none", "ack", "complete"}]
            \cup [kind: {"group"}, buffer: 1..2, keys: Seq(Params), used: Nat]

Types ==
    /\ TypeOK
    /\ sizes \in Seq(Nat \ {0}) /\ sizes # <<>>
    /\ buffers \in [Ranks -> [1..2 -> Contents]]
    /\ wire \in [Ranks -> Messages]

\* Which steps belong to which transport.
TransportOf(r) ==
    /\ transport = "ipc" =>
         /\ sender[r].pc # "broadcast" /\ receiver[r].pc \notin {"broadcast", "unpack"}
    /\ transport = "collective" =>
         /\ sender[r].pc \in {"fetch", "broadcast", "done", "raised"}
         /\ receiver[r].pc # "load" /\ wire[r].kind = "none"

\* How far a policy worker is in its list of parameters.
ListOf(r) ==
    /\ sender[r].pc \in {"send", "pack"} => sender[r].next \in Params
    /\ sender[r].pc \in {"send", "flush"} => sender[r].names # <<>>
    /\ sender[r].pc \in {"flush", "complete", "last_ack", "done"} =>
         sender[r].next = Len(sizes) + 1
    /\ sender[r].pc \in {"complete", "last_ack", "done"} => sender[r].names = <<>>

\* Who holds which half: a group that was sent or is read is in the half the
\* policy worker does not fill.
HandshakeOf(r) ==
    /\ wire[r].kind = "group" =>
         /\ wire[r].buffer = 3 - sender[r].buffer /\ wire[r].keys # <<>>
         /\ receiver[r].pc \in {"recv", "false"} /\ sender[r].awaiting
    /\ receiver[r].pc = "load" =>
         /\ receiver[r].buffer = 3 - sender[r].buffer /\ receiver[r].keys # <<>>
         /\ wire[r].kind = "none" /\ sender[r].awaiting
    /\ wire[r].kind = "ack" \/ receiver[r].pc = "recv" => receiver[r].keys = <<>>
    /\ receiver[r].pc \in {"scales", "true"} \/ wire[r].kind = "complete" =>
         sender[r].pc \in {"last_ack", "done", "raised"}
    /\ ~sender[r].awaiting =>
         /\ wire[r].kind = "none"
         /\ sender[r].pc \notin {"complete", "last_ack", "done"}

\* Parameters `keys` lie one behind the other in a half, from one offset to
\* another.
Laid(list, half, keys, from, to) ==
    \E at \in [1..(Len(keys) + 1) -> Nat] :
      /\ at[1] = from /\ at[Len(keys) + 1] = to
      /\ \A i \in 1..Len(keys) :
           /\ at[i + 1] = at[i] + AlignedSize(list[keys[i]])
           /\ at[i] < to /\ at[i] \in DOMAIN half /\ half[at[i]] = keys[i]

PackedOf(r) ==
    /\ Laid(sizes, buffers[r][sender[r].buffer], sender[r].names, 0, sender[r].used)
    /\ wire[r].kind = "group" =>
         Laid(sizes, buffers[r][wire[r].buffer], wire[r].keys, 0, wire[r].used)
    /\ receiver[r].pc = "load" =>
         \E end \in Nat :
            Laid(sizes, buffers[r][receiver[r].buffer], receiver[r].keys, receiver[r].offset, end)

\* A parameter packed is loaded, or on its way in one of three places.
OnItsWay(r) ==
    ToSet(sender[r].names) \cup ToSet(receiver[r].keys)
      \cup (IF wire[r].kind = "group" THEN ToSet(wire[r].keys) ELSE {})
DeliveredOf(r) ==
    /\ \A k \in Params : k < sender[r].next => k \in loaded[r] \cup OnItsWay(r)
    /\ sender[r].pc \in {"last_ack", "done"} => Params \subseteq loaded[r]

PairInv(r) ==
    /\ TransportOf(r)
    /\ transport = "ipc" => ListOf(r) /\ HandshakeOf(r) /\ PackedOf(r) /\ DeliveredOf(r)
    /\ ~torn[r]

\* All workers of a collective refit are at the same group.
InStep == \A r, t \in Ranks : sender[r].next = receiver[t].next
CollectiveInv ==
    transport = "collective" =>
      /\ InStep
      /\ \A r \in Ranks :
           /\ receiver[r].pc \in {"recv", "broadcast"} => receiver[r].next \in Params
           /\ receiver[r].pc \in {"scales", "true"} => receiver[r].next = Len(sizes) + 1
           /\ \A k \in Params : k < receiver[r].next /\ receiver[r].pc # "false" =>
                k \in loaded[r] \/ (receiver[r].pc = "unpack" /\ k \in ToSet(receiver[r].keys))

OutcomeInv ==
    outcome = "ok" => \A r \in Ranks :
        sender[r].pc = "done" /\ receiver[r].pc \in {"true", "false"}

PairsInv == \A r \in Ranks : PairInv(r)

IInv == Types /\ PairsInv /\ CollectiveInv /\ OutcomeInv
-----------------------------------------------------------------------------
(* The operators *)

LEMMA AlignedSizeIsPositive == \A n \in Nat \ {0} : AlignedSize(n) \in Nat \ {0}
<1> SUFFICES ASSUME NEW n \in Nat \ {0} PROVE AlignedSize(n) \in Nat \ {0}
  OBVIOUS
<1> DEFINE q == (n + Alignment - 1) \div Alignment
<1>1. Alignment \in Nat \ {0}
  BY RefitAssumption
<1>2. q \in Nat /\ q >= 1
  BY <1>1
<1> HIDE DEF q
<1>3. q * Alignment \in Nat \ {0}
  BY <1>1, <1>2
<1> QED
  BY <1>3 DEF AlignedSize, q

LEMMA ModelsAreLists == \A list \in SizeLists : list \in Seq(Nat \ {0}) /\ list # <<>>
<1> SUFFICES ASSUME NEW l \in Models, NEW n \in ScaleCounts
             PROVE  Exported(l, n) \in Seq(Nat \ {0}) /\ Exported(l, n) # <<>>
  BY DEF SizeLists
<1>1. l \in Seq(Nat \ {0}) /\ l # <<>> /\ n \in Nat /\ ScaleSize \in Nat \ {0}
  BY RefitAssumption
<1>2. [i \in 1..n |-> ScaleSize] \in Seq(Nat \ {0})
  BY <1>1
<1> QED
  BY <1>1, <1>2, ConcatProperties DEF Exported

\* A set of naturals that is not empty has a least element, which Min chooses.
Descents == {p \in Nat \X Nat : p[1] < p[2]}

LEMMA MinIsLeast ==
    ASSUME NEW S \in SUBSET Nat, S # {}
    PROVE  Min(S) \in S
<1>1. IsWellFoundedOn(Descents, Nat)
  BY NatLessThanWellFounded, Zenon DEF OpToRel, Descents
<1>2. PICK x \in S : \A y \in S : ~(<<y, x>> \in Descents)
  BY <1>1, WFMin, Zenon
<1>3. ASSUME NEW y \in S PROVE x <= y
  <2>1. x \in Nat /\ y \in Nat
    OBVIOUS
  <2>2. y < x => <<y, x>> \in Descents
    BY <2>1 DEF Descents
  <2>3. ~(y < x)
    BY <1>2, <2>2, Zenon
  <2> QED
    BY <2>1, <2>3
<1> QED
  BY <1>3 DEF Min

\* Both sides cut the list alike, behind a parameter at or after the first.
LEMMA GroupsAgree == \A n : PackGroup(n) = UnpackGroup(n)
BY SameTarget DEF PackGroup, UnpackGroup

LEMMA GroupIsNotEmpty ==
    ASSUME sizes \in Seq(Nat \ {0}), NEW n \in Params
    PROVE  PackGroup(n) \in n..Len(sizes)
<1> DEFINE full == {m \in n..Len(sizes) : Bytes(n, m) > TrainTarget}
<1>1. CASE full = {}
  BY <1>1 DEF PackGroup, Params
<1>2. CASE full # {}
  <2>1. full \in SUBSET Nat
    BY DEF Params
  <2>2. Min(full) \in full
    BY <1>2, <2>1, MinIsLeast
  <2> QED
    BY <1>2, <2>2 DEF PackGroup
<1> QED
  BY <1>1, <1>2

-----------------------------------------------------------------------------
(* Groups in a half of a buffer *)

\* No parameters are laid anywhere, from an offset to itself.
LEMMA NothingLaid ==
    ASSUME NEW half, NEW from \in Nat
    PROVE  Laid(sizes, half, <<>>, from, from)
<1> DEFINE at == [i \in 1..1 |-> from]
<1>1. at \in [1..(Len(<<>>) + 1) -> Nat]
  OBVIOUS
<1>2. at[1] = from /\ at[Len(<<>>) + 1] = from
  OBVIOUS
<1>3. 1..Len(<<>>) = {}
  OBVIOUS
<1> HIDE DEF at
<1> QED
  BY <1>1, <1>2, <1>3 DEF Laid

LEMMA LaidNothing ==
    ASSUME NEW half, NEW from, NEW to, Laid(sizes, half, <<>>, from, to)
    PROVE  from = to
BY DEF Laid

\* Packing one more behind the others disturbs none of them.
LEMMA LaidOneMore ==
    ASSUME sizes \in Seq(Nat \ {0}),
           NEW half \in Contents, NEW keys \in Seq(Params), NEW to \in Nat,
           NEW k \in Params, Laid(sizes, half, keys, 0, to)
    PROVE  LET more == [o \in DOMAIN half \cup {to} |-> IF o = to THEN k ELSE half[o]]
           IN  /\ more \in Contents
               /\ Laid(sizes, more, Append(keys, k), 0, to + AlignedSize(sizes[k]))
<1> DEFINE more == [o \in DOMAIN half \cup {to} |-> IF o = to THEN k ELSE half[o]]
           size == AlignedSize(sizes[k])
<1>1. more \in Contents
  <2>1. PICK S \in SUBSET Nat : half \in [S -> Params]
    BY DEF Contents
  <2>2. more \in [S \cup {to} -> Params]
    BY <2>1
  <2> QED
    BY <2>2 DEF Contents
<1>2. size \in Nat \ {0}
  BY AlignedSizeIsPositive DEF Params
<1>3. PICK at \in [1..(Len(keys) + 1) -> Nat] :
         /\ at[1] = 0 /\ at[Len(keys) + 1] = to
         /\ \A i \in 1..Len(keys) :
              /\ at[i + 1] = at[i] + AlignedSize(sizes[keys[i]])
              /\ at[i] < to /\ at[i] \in DOMAIN half /\ half[at[i]] = keys[i]
  BY DEF Laid
<1> HIDE DEF size
<1> DEFINE n == Len(keys)
           new == [i \in 1..(n + 2) |-> IF i = n + 2 THEN to + size ELSE at[i]]
<1>4. n \in Nat /\ Len(Append(keys, k)) = n + 1
      /\ \A i \in 1..(n + 1) : Append(keys, k)[i] = IF i = n + 1 THEN k ELSE keys[i]
  BY DEF Params
<1>5. new \in [1..(n + 1 + 1) -> Nat] /\ new[1] = 0 /\ new[n + 1 + 1] = to + size
  BY <1>2, <1>3, <1>4
<1>6. ASSUME NEW i \in 1..(n + 1)
      PROVE  /\ new[i + 1] = new[i] + AlignedSize(sizes[Append(keys, k)[i]])
             /\ new[i] < to + size
             /\ new[i] \in DOMAIN more /\ more[new[i]] = Append(keys, k)[i]
  <2>1. CASE i = n + 1
    BY <2>1, <1>2, <1>3, <1>4 DEF size
  <2>2. CASE i # n + 1
    <3>1. i \in 1..n /\ new[i] = at[i] /\ new[i + 1] = at[i + 1]
      BY <2>2, <1>4
    <3>2. at[i] \in Nat /\ at[i] < to /\ at[i] \in DOMAIN half /\ half[at[i]] = keys[i]
          /\ at[i + 1] = at[i] + AlignedSize(sizes[keys[i]])
      BY <3>1, <1>3
    <3>3. Append(keys, k)[i] = keys[i]
      BY <2>2, <1>4
    <3> HIDE DEF new
    <3> QED
      BY <3>1, <3>2, <3>3, <1>2
  <2> QED
    BY <2>1, <2>2
<1> HIDE DEF new, n, more
<1> DEFINE longer == Append(keys, k)
<1>7. /\ new \in [1..(Len(longer) + 1) -> Nat]
      /\ new[1] = 0 /\ new[Len(longer) + 1] = to + size
      /\ \A i \in 1..Len(longer) :
           /\ new[i + 1] = new[i] + AlignedSize(sizes[longer[i]])
           /\ new[i] < to + size /\ new[i] \in DOMAIN more /\ more[new[i]] = longer[i]
  BY <1>4, <1>5, <1>6
<1> HIDE DEF longer
<1>8. Laid(sizes, more, longer, 0, to + size)
  BY <1>7 DEF Laid
<1> QED
  BY <1>1, <1>8 DEF more, size, longer

\* The first of a group lies at its offset, the rest behind it.
LEMMA LaidFirst ==
    ASSUME NEW half, NEW keys \in Seq(Params), keys # <<>>, NEW from \in Nat, NEW to \in Nat,
           Laid(sizes, half, keys, from, to)
    PROVE  /\ from \in DOMAIN half /\ half[from] = Head(keys)
           /\ Laid(sizes, half, Tail(keys), from + AlignedSize(sizes[Head(keys)]), to)
<1>1. PICK at \in [1..(Len(keys) + 1) -> Nat] :
         /\ at[1] = from /\ at[Len(keys) + 1] = to
         /\ \A i \in 1..Len(keys) :
              /\ at[i + 1] = at[i] + AlignedSize(sizes[keys[i]])
              /\ at[i] < to /\ at[i] \in DOMAIN half /\ half[at[i]] = keys[i]
  BY DEF Laid
<1> DEFINE n == Len(keys) - 1
           new == [i \in 1..(n + 1) |-> at[i + 1]]
<1>2. /\ n \in Nat /\ Len(keys) = n + 1 /\ Len(Tail(keys)) = n /\ Head(keys) = keys[1]
      /\ \A i \in 1..n : Tail(keys)[i] = keys[i + 1]
  BY DEF Params
<1> HIDE DEF n
<1>3. /\ from \in DOMAIN half /\ half[from] = Head(keys)
      /\ at[2] = from + AlignedSize(sizes[Head(keys)])
  BY <1>1, <1>2
<1>4. new \in [1..(n + 1) -> Nat] /\ new[1] = at[2] /\ new[n + 1] = to
  BY <1>1, <1>2
<1>5. ASSUME NEW i \in 1..n
      PROVE  /\ new[i + 1] = new[i] + AlignedSize(sizes[Tail(keys)[i]])
             /\ new[i] < to /\ new[i] \in DOMAIN half /\ half[new[i]] = Tail(keys)[i]
  <2>1. i + 1 \in 1..Len(keys) /\ new[i] = at[i + 1] /\ new[i + 1] = at[i + 1 + 1]
    BY <1>2
  <2>2. Tail(keys)[i] = keys[i + 1]
    BY <1>2
  <2> HIDE DEF new
  <2> QED
    BY <2>1, <2>2, <1>1
<1> HIDE DEF new
<1> QED
  BY <1>2, <1>3, <1>4, <1>5, ZenonT(40) DEF Laid

-----------------------------------------------------------------------------
(* The invariant *)

LEMMA InitIInv == Init => IInv
<1> SUFFICES ASSUME Init PROVE IInv
  OBVIOUS
<1>1. sizes \in Seq(Nat \ {0}) /\ sizes # <<>> /\ 1 \in Params /\ Len(sizes) \in Nat
  BY ModelsAreLists DEF Init, Params
<1>2. <<>> \in Contents
  <2>1. {} \in SUBSET Nat /\ <<>> \in [{} -> Params]
    OBVIOUS
  <2> QED
    BY <2>1 DEF Contents
<1>3. Types
  <2>1. TypeOK
    BY <1>1, RefitAssumption DEF Init, TypeOK, SenderType, ReceiverType, Params
  <2>2. wire \in [Ranks -> Messages]
    BY DEF Init, Messages, Nothing
  <2> QED
    BY <1>1, <1>2, <2>1, <2>2 DEF Init, Types
<1>4. OutcomeInv
  BY DEF Init, OutcomeInv
<1>5. ASSUME NEW r \in Ranks PROVE PairInv(r)
  <2>1. TransportOf(r) /\ ListOf(r) /\ HandshakeOf(r) /\ ~torn[r]
    BY DEF Init, TransportOf, ListOf, HandshakeOf, Nothing
  <2>2. PackedOf(r)
    BY NothingLaid DEF Init, PackedOf, Nothing
  <2>3. DeliveredOf(r)
    BY <1>1 DEF Init, DeliveredOf, Params
  <2> QED
    BY <2>1, <2>2, <2>3 DEF PairInv
<1>6. CollectiveInv
  BY <1>1 DEF Init, CollectiveInv, InStep, Params
<1> QED
  BY <1>3, <1>4, <1>5, <1>6 DEF IInv, PairsInv

Step ==
    \/ \E r \in Ranks : Sending(r) \/ Receiving(r) \/ Arriving(r)
    \/ Broadcast \/ Fault \/ Driver

\* The model and the way it takes never change.
LEMMA ModelStays ==
    Step => /\ UNCHANGED <<transport, sizes>> /\ Params' = Params
            /\ SenderType' = SenderType /\ ReceiverType' = ReceiverType
            /\ Contents' = Contents /\ Messages' = Messages
<1> SUFFICES ASSUME Step PROVE UNCHANGED <<transport, sizes>>
  BY DEF Params, SenderType, ReceiverType, Contents, Messages
<1>1. CASE \E r \in Ranks : Sending(r)
  BY <1>1 DEF Sending, Fetch, Send, Pack, Complete, Finish, SendTimeout
<1>2. CASE \E r \in Ranks : Receiving(r)
  BY <1>2 DEF Receiving, Receive, Load, ReceiveTimeout, Unpack, ReturnTrue
<1>3. CASE \E r \in Ranks : Arriving(r)
  BY <1>3 DEF Arriving, ProducerArrives, ConsumerArrives
<1>4. CASE Broadcast \/ Fault \/ Driver
  BY <1>4 DEF Broadcast, Fault, Driver
<1> QED
  BY <1>1, <1>2, <1>3, <1>4 DEF Step

LEMMA ListFacts ==
    IInv => /\ sizes \in Seq(Nat \ {0}) /\ Params = 1..Len(sizes) /\ Len(sizes) \in Nat \ {0}
            /\ Params \subseteq Nat
            /\ \A k \in Params : sizes[k] \in Nat \ {0} /\ AlignedSize(sizes[k]) \in Nat \ {0}
            /\ sender \in [Ranks -> SenderType] /\ receiver \in [Ranks -> ReceiverType]
<1> SUFFICES ASSUME IInv PROVE
            /\ sizes \in Seq(Nat \ {0}) /\ Params = 1..Len(sizes) /\ Len(sizes) \in Nat \ {0}
            /\ Params \subseteq Nat
            /\ \A k \in Params : sizes[k] \in Nat \ {0} /\ AlignedSize(sizes[k]) \in Nat \ {0}
            /\ sender \in [Ranks -> SenderType] /\ receiver \in [Ranks -> ReceiverType]
  OBVIOUS
<1>1. sizes \in Seq(Nat \ {0}) /\ sizes # <<>>
      /\ sender \in [Ranks -> SenderType] /\ receiver \in [Ranks -> ReceiverType]
  BY DEF IInv, Types, TypeOK
<1>2. Params = 1..Len(sizes) /\ Len(sizes) \in Nat \ {0}
  BY <1>1 DEF Params
<1>3. \A k \in Params : sizes[k] \in Nat \ {0}
  BY <1>1, <1>2
<1> QED
  BY <1>1, <1>2, <1>3, AlignedSizeIsPositive

\* What each step does to the worker that takes it, and that it leaves the others alone.
Alone(r) ==
    \A t \in Ranks \ {r} :
        /\ sender'[t] = sender[t] /\ receiver'[t] = receiver[t] /\ wire'[t] = wire[t]
        /\ buffers'[t] = buffers[t] /\ loaded'[t] = loaded[t] /\ torn'[t] = torn[t]

LEMMA SendStep ==
    ASSUME IInv, NEW r \in Ranks, Send(r)
    PROVE  /\ Alone(r) /\ sender' \in [Ranks -> SenderType]
           /\ sender'[r] = [sender[r] EXCEPT !.awaiting = TRUE, !.buffer = 3 - @, !.used = 0,
                              !.names = <<>>, !.pc = IF @ = "send" THEN "pack" ELSE "complete"]
           /\ wire'[r] = [kind |-> "group", buffer |-> sender[r].buffer,
                          keys |-> sender[r].names, used |-> sender[r].used]
           /\ UNCHANGED <<receiver, buffers, loaded, torn, outcome, faults>>
<1> DEFINE new == [sender[r] EXCEPT !.awaiting = TRUE, !.buffer = 3 - @, !.used = 0,
                              !.names = <<>>, !.pc = IF @ = "send" THEN "pack" ELSE "complete"]
<1>1. sender \in [Ranks -> SenderType] /\ wire \in [Ranks -> Messages]
  BY DEF IInv, Types, TypeOK
<1>2. sender' = [sender EXCEPT ![r] = new]
  BY <1>1 DEF Send
<1>3. new \in SenderType
  <2>1. sender[r] \in SenderType /\ 3 - sender[r].buffer \in 1..2 /\ <<>> \in Seq(Params)
    BY <1>1 DEF SenderType
  <2>2. (IF sender[r].pc = "send" THEN "pack" ELSE "complete") \in {"pack", "complete"}
    OBVIOUS
  <2> QED
    BY <2>1, <2>2 DEF SenderType
<1> HIDE DEF new
<1>4. sender'[r] = new /\ sender' \in [Ranks -> SenderType] 
      /\ \A t \in Ranks \ {r} : sender'[t] = sender[t]
  BY <1>1, <1>2, <1>3
<1> QED
  BY <1>1, <1>4 DEF Send, Alone, new

LEMMA FetchStep ==
    ASSUME IInv, NEW r \in Ranks, Fetch(r)
    PROVE  /\ transport = "ipc" /\ sender[r].pc = "fetch" /\ sender[r].next \in Params
           /\ Alone(r) /\ sender' \in [Ranks -> SenderType]
           /\ \E pc \in {"raised", "send", "pack"} :
                /\ sender'[r] = [sender[r] EXCEPT !.pc = pc]
                /\ pc = "send" => sender[r].used > 0
           /\ UNCHANGED <<receiver, wire, buffers, loaded, torn, outcome, faults>>
<1> DEFINE k == sender[r].next
           size == AlignedSize(sizes[k])
           pc == IF size > Half THEN "raised"
                 ELSE IF sender[r].used + size > Half THEN "send" ELSE "pack"
<1>1. sender \in [Ranks -> SenderType]
  BY DEF IInv, Types, TypeOK
<1>2. k \in Params /\ size \in Nat /\ sender[r].used \in Nat /\ Half \in Int
  <2>1. k \in Params
    BY DEF Fetch
  <2>2. sender[r].used \in Nat
    BY <1>1 DEF SenderType
  <2>3. Half \in Int
    BY RefitAssumption DEF Half
  <2> QED
    BY <2>1, <2>2, <2>3, ListFacts
<1> HIDE DEF size
<1>3. pc \in {"raised", "send", "pack"} /\ (pc = "send" => sender[r].used > 0)
  BY <1>2
<1>4. sender' = [sender EXCEPT ![r].pc = pc]
  BY DEF Fetch, size
<1> HIDE DEF pc
<1>5. [sender[r] EXCEPT !.pc = pc] \in SenderType
  BY <1>1, <1>3 DEF SenderType
<1>6. /\ sender'[r] = [sender[r] EXCEPT !.pc = pc] /\ sender' \in [Ranks -> SenderType]
      /\ \A t \in Ranks \ {r} : sender'[t] = sender[t]
  BY <1>1, <1>4, <1>5
<1> QED
  BY <1>3, <1>6 DEF Fetch, Alone, ipcVars

LEMMA PackStep ==
    ASSUME IInv, NEW r \in Ranks, Pack(r)
    PROVE  LET k == sender[r].next
               b == sender[r].buffer
               half == buffers[r][b]
               to == sender[r].used
           IN  /\ transport = "ipc" /\ k \in Params /\ b \in 1..2 /\ to \in Nat
               /\ half \in Contents /\ sender[r].pc = "pack"
               /\ Alone(r) /\ sender' \in [Ranks -> SenderType]
               /\ sender'[r] = [sender[r] EXCEPT !.names = Append(@, k), !.next = k + 1,
                                  !.used = @ + AlignedSize(sizes[k]),
                                  !.pc = IF k = Len(sizes) THEN "flush" ELSE "fetch"]
               /\ buffers' = [buffers EXCEPT ![r][b] =
                    [o \in DOMAIN half \cup {to} |-> IF o = to THEN k ELSE half[o]]]
               /\ UNCHANGED <<receiver, wire, loaded, torn, outcome, faults>>
<1> DEFINE k == sender[r].next
           b == sender[r].buffer
           half == buffers[r][b]
           to == sender[r].used
           size == AlignedSize(sizes[k])
           new == [sender[r] EXCEPT !.names = Append(@, k), !.next = k + 1, !.used = @ + size,
                                    !.pc = IF k = Len(sizes) THEN "flush" ELSE "fetch"]
<1>1. sender \in [Ranks -> SenderType] /\ buffers \in [Ranks -> [1..2 -> Contents]]
  BY DEF IInv, Types, TypeOK
<1>2. sender[r].pc = "pack" /\ transport = "ipc"
  BY DEF IInv, Types, TypeOK, PairsInv, PairInv, TransportOf, Pack
<1>3. k \in Params
  BY <1>2 DEF IInv, PairsInv, PairInv, ListOf
<1>4. sender[r] \in SenderType /\ to \in Nat /\ b \in 1..2 /\ half \in Contents
  BY <1>1 DEF SenderType
<1>5. size \in Nat /\ k + 1 \in 1..(Len(sizes) + 1) /\ sender[r].names \in Seq(Params)
  BY <1>1, <1>3, ListFacts, SMTT(40) DEF SenderType
<1>6. sender' = [sender EXCEPT ![r] = new]
  BY <1>1 DEF Pack
<1> HIDE DEF size
<1>7. new \in SenderType
  <2>1. to + size \in Nat /\ Append(sender[r].names, k) \in Seq(Params)
    BY <1>3, <1>4, <1>5
  <2>2. (IF k = Len(sizes) THEN "flush" ELSE "fetch") \in {"flush", "fetch"}
    OBVIOUS
  <2> QED
    BY <1>4, <1>5, <2>1, <2>2 DEF SenderType
<1> HIDE DEF new
<1>8. /\ sender'[r] = new /\ sender' \in [Ranks -> SenderType]
      /\ \A t \in Ranks \ {r} : sender'[t] = sender[t]
  BY <1>1, <1>6, <1>7
<1>9. buffers' = [buffers EXCEPT ![r][b] =
                    [o \in DOMAIN half \cup {to} |-> IF o = to THEN k ELSE half[o]]]
  BY DEF Pack
<1>10. \A t \in Ranks \ {r} : buffers'[t] = buffers[t]
  BY <1>1, <1>9
<1> QED
  BY <1>2, <1>3, <1>4, <1>8, <1>9, <1>10 DEF Pack, Alone, new, size

\* The steps of a policy worker that leave its buffer alone.
LEMMA CompleteStep ==
    ASSUME IInv, NEW r \in Ranks, Complete(r)
    PROVE  /\ sender[r].pc = "complete" /\ wire[r].kind = "ack"
           /\ Alone(r) /\ sender' \in [Ranks -> SenderType]
           /\ sender'[r] = [sender[r] EXCEPT !.pc = "last_ack"] /\ wire'[r].kind = "complete"
           /\ UNCHANGED <<receiver, buffers, loaded, torn, outcome, faults>>
<1>1. sender \in [Ranks -> SenderType] /\ wire \in [Ranks -> Messages]
  BY DEF IInv, Types, TypeOK
<1>2. [sender[r] EXCEPT !.pc = "last_ack"] \in SenderType
  BY <1>1 DEF SenderType
<1>3. /\ sender' \in [Ranks -> SenderType] /\ sender'[r] = [sender[r] EXCEPT !.pc = "last_ack"]
      /\ \A t \in Ranks \ {r} : sender'[t] = sender[t]
  BY <1>1, <1>2 DEF Complete
<1> QED
  BY <1>1, <1>3 DEF Complete, Alone

LEMMA FinishStep ==
    ASSUME IInv, NEW r \in Ranks, Finish(r)
    PROVE  /\ sender[r].pc = "last_ack" /\ wire[r].kind = "ack"
           /\ Alone(r) /\ sender' \in [Ranks -> SenderType]
           /\ sender'[r] = [sender[r] EXCEPT !.pc = "done"] /\ wire'[r].kind = "none"
           /\ UNCHANGED <<receiver, buffers, loaded, torn, outcome, faults>>
<1>1. sender \in [Ranks -> SenderType] /\ wire \in [Ranks -> Messages]
  BY DEF IInv, Types, TypeOK
<1>2. [sender[r] EXCEPT !.pc = "done"] \in SenderType
  BY <1>1 DEF SenderType
<1>3. /\ sender' \in [Ranks -> SenderType] /\ sender'[r] = [sender[r] EXCEPT !.pc = "done"]
      /\ \A t \in Ranks \ {r} : sender'[t] = sender[t]
  BY <1>1, <1>2 DEF Finish
<1> QED
  BY <1>1, <1>3 DEF Finish, Alone, Nothing

\* A policy worker raises, in a fault or a timeout, or comes to a broadcast.
SenderMoves(r, pc) ==
    /\ Alone(r) /\ sender' \in [Ranks -> SenderType]
    /\ sender'[r] = [sender[r] EXCEPT !.pc = pc]
    /\ UNCHANGED <<receiver, wire, buffers, loaded, torn, outcome>>

LEMMA SenderStep ==
    ASSUME IInv, NEW r \in Ranks, NEW pc \in {"raised", "broadcast"},
           sender' = [sender EXCEPT ![r].pc = pc],
           UNCHANGED <<receiver, ipcVars, loaded, torn, outcome>>
    PROVE  SenderMoves(r, pc)
<1>1. sender \in [Ranks -> SenderType]
  BY DEF IInv, Types, TypeOK
<1>2. [sender[r] EXCEPT !.pc = pc] \in SenderType
  BY <1>1 DEF SenderType
<1>3. /\ sender' \in [Ranks -> SenderType] /\ sender'[r] = [sender[r] EXCEPT !.pc = pc]
      /\ \A t \in Ranks \ {r} : sender'[t] = sender[t]
  BY <1>1, <1>2
<1> QED
  BY <1>3 DEF SenderMoves, Alone, ipcVars

LEMMA ReceiveStep ==
    ASSUME IInv, NEW r \in Ranks, Receive(r)
    PROVE  /\ receiver[r].pc = "recv" /\ Alone(r) /\ receiver' \in [Ranks -> ReceiverType]
           /\ \/ /\ wire[r].kind = "group" /\ wire'[r].kind = "none"
                 /\ wire[r].keys \in Seq(Params) /\ wire[r].used \in Nat
                 /\ receiver'[r] = [receiver[r] EXCEPT !.pc = "load", !.keys = wire[r].keys,
                                      !.offset = 0, !.buffer = wire[r].buffer]
              \/ /\ wire[r].kind = "complete" /\ wire'[r].kind = "ack"
                 /\ receiver'[r] = [receiver[r] EXCEPT !.pc = "scales"]
           /\ UNCHANGED <<sender, buffers, loaded, torn, outcome, faults>>
<1>1. receiver \in [Ranks -> ReceiverType] /\ wire \in [Ranks -> Messages]
  BY DEF IInv, Types, TypeOK
<1>2. CASE wire[r].kind = "group"
  <2> DEFINE new == [receiver[r] EXCEPT !.pc = "load", !.keys = wire[r].keys, !.offset = 0,
                                        !.buffer = wire[r].buffer]
  <2>1. wire[r].keys \in Seq(Params) /\ wire[r].buffer \in 1..2 /\ wire[r].used \in Nat
    BY <1>1, <1>2 DEF Messages
  <2>2. receiver' = [receiver EXCEPT ![r] = new]
    BY <1>1, <1>2 DEF Receive
  <2>3. new \in ReceiverType
    BY <1>1, <2>1 DEF ReceiverType
  <2> HIDE DEF new
  <2>4. /\ receiver' \in [Ranks -> ReceiverType] /\ receiver'[r] = new
        /\ \A t \in Ranks \ {r} : receiver'[t] = receiver[t]
    BY <1>1, <2>2, <2>3
  <2> QED
    BY <1>1, <1>2, <2>1, <2>4 DEF Receive, Alone, Nothing, new
<1>3. CASE wire[r].kind = "complete"
  <2>1. [receiver[r] EXCEPT !.pc = "scales"] \in ReceiverType
    BY <1>1 DEF ReceiverType
  <2>2. /\ receiver' \in [Ranks -> ReceiverType]
        /\ receiver'[r] = [receiver[r] EXCEPT !.pc = "scales"]
        /\ \A t \in Ranks \ {r} : receiver'[t] = receiver[t]
    BY <1>1, <1>3, <2>1 DEF Receive
  <2> QED
    BY <1>1, <1>3, <2>2 DEF Receive, Alone
<1> QED
  BY <1>2, <1>3 DEF Receive

LEMMA LoadStep ==
    ASSUME IInv, NEW r \in Ranks, Load(r)
    PROVE  LET k == Head(receiver[r].keys)
               rest == Tail(receiver[r].keys)
           IN  /\ transport = "ipc" /\ receiver[r].pc = "load" /\ receiver[r].keys # <<>>
               /\ receiver[r].keys \in Seq(Params) /\ receiver[r].offset \in Nat
               /\ k \in Params /\ rest \in Seq(Params)
               /\ Alone(r) /\ receiver' \in [Ranks -> ReceiverType]
               /\ receiver'[r] = [receiver[r] EXCEPT !.keys = rest,
                    !.offset = @ + AlignedSize(sizes[k]),
                    !.pc = IF rest = <<>> THEN "recv" ELSE "load"]
               /\ loaded'[r] = loaded[r] \cup {k} /\ loaded' \in [Ranks -> SUBSET Params]
               /\ torn' \in [Ranks -> BOOLEAN]
               /\ wire'[r].kind = IF rest = <<>> THEN "ack" ELSE wire[r].kind
               /\ rest # <<>> => wire'[r] = wire[r]
               /\ UNCHANGED <<sender, buffers, outcome, faults>>
<1> DEFINE k == Head(receiver[r].keys)
           rest == Tail(receiver[r].keys)
           size == AlignedSize(sizes[k])
           new == [receiver[r] EXCEPT !.keys = rest, !.offset = @ + size,
                                      !.pc = IF rest = <<>> THEN "recv" ELSE "load"]
<1>1. /\ receiver \in [Ranks -> ReceiverType] /\ wire \in [Ranks -> Messages]
      /\ loaded \in [Ranks -> SUBSET Params] /\ torn \in [Ranks -> BOOLEAN]
  BY DEF IInv, Types, TypeOK
<1>2. receiver[r].pc = "load" /\ transport = "ipc" /\ receiver[r].keys # <<>>
  BY DEF IInv, Types, TypeOK, PairsInv, PairInv, TransportOf, HandshakeOf, Load
<1>3. receiver[r] \in ReceiverType /\ receiver[r].keys \in Seq(Params) /\ receiver[r].offset \in Nat
  BY <1>1 DEF ReceiverType
<1>4. k \in Params /\ rest \in Seq(Params)
  BY <1>2, <1>3
<1>5. size \in Nat
  BY <1>4, ListFacts
<1>6. receiver' = [receiver EXCEPT ![r] = new]
  BY <1>1 DEF Load
<1> HIDE DEF size, rest, k
<1>7. new \in ReceiverType
  <2>1. receiver[r].offset + size \in Nat
    BY <1>3, <1>5
  <2>2. (IF rest = <<>> THEN "recv" ELSE "load") \in {"recv", "load"}
    OBVIOUS
  <2> QED
    BY <1>3, <1>4, <2>1, <2>2 DEF ReceiverType
<1> HIDE DEF new
<1>8. /\ receiver' \in [Ranks -> ReceiverType] /\ receiver'[r] = new
      /\ \A t \in Ranks \ {r} : receiver'[t] = receiver[t]
  BY <1>1, <1>6, <1>7
<1>9. /\ loaded'[r] = loaded[r] \cup {k} /\ loaded' \in [Ranks -> SUBSET Params]
      /\ \A t \in Ranks \ {r} : loaded'[t] = loaded[t]
  BY <1>1, <1>4 DEF Load, k
<1>10. torn' \in [Ranks -> BOOLEAN] /\ \A t \in Ranks \ {r} : torn'[t] = torn[t]
  BY <1>1 DEF Load
<1>11. /\ wire'[r].kind = IF rest = <<>> THEN "ack" ELSE wire[r].kind
       /\ rest # <<>> => wire'[r] = wire[r]
       /\ \A t \in Ranks \ {r} : wire'[t] = wire[t]
  BY <1>1 DEF Load, rest
<1> QED
  BY <1>2, <1>3, <1>4, <1>8, <1>9, <1>10, <1>11 DEF Load, Alone, new, k, rest, size

\* An engine worker only goes on to another place.
ReceiverMoves(r, pc) ==
    /\ Alone(r) /\ receiver' \in [Ranks -> ReceiverType]
    /\ receiver'[r] = [receiver[r] EXCEPT !.pc = pc]
    /\ UNCHANGED <<sender, wire, buffers, loaded, torn, outcome>>

LEMMA ReceiverStep ==
    ASSUME IInv, NEW r \in Ranks, NEW pc \in {"true", "false", "broadcast"},
           receiver' = [receiver EXCEPT ![r].pc = pc],
           UNCHANGED <<sender, ipcVars, loaded, torn, outcome>>
    PROVE  ReceiverMoves(r, pc)
<1>1. receiver \in [Ranks -> ReceiverType]
  BY DEF IInv, Types, TypeOK
<1>2. [receiver[r] EXCEPT !.pc = pc] \in ReceiverType
  BY <1>1 DEF ReceiverType
<1>3. /\ receiver' \in [Ranks -> ReceiverType] /\ receiver'[r] = [receiver[r] EXCEPT !.pc = pc]
      /\ \A t \in Ranks \ {r} : receiver'[t] = receiver[t]
  BY <1>1, <1>2
<1> QED
  BY <1>3 DEF ReceiverMoves, Alone, ipcVars

LEMMA UnpackStep ==
    ASSUME IInv, NEW r \in Ranks, Unpack(r)
    PROVE  /\ receiver[r].pc = "unpack" /\ transport = "collective"
           /\ Alone(r) /\ receiver' \in [Ranks -> ReceiverType]
           /\ receiver'[r] = [receiver[r] EXCEPT !.pc =
                                IF receiver[r].next > Len(sizes) THEN "scales" ELSE "recv"]
           /\ loaded'[r] = loaded[r] \cup ToSet(receiver[r].keys)
           /\ loaded' \in [Ranks -> SUBSET Params]
           /\ UNCHANGED <<sender, wire, buffers, torn, outcome, faults>>
<1> DEFINE pc == IF receiver[r].next > Len(sizes) THEN "scales" ELSE "recv"
<1>1. receiver \in [Ranks -> ReceiverType] /\ loaded \in [Ranks -> SUBSET Params]
  BY DEF IInv, Types, TypeOK
<1>2. receiver[r].pc = "unpack" /\ transport = "collective"
  BY DEF IInv, Types, TypeOK, PairsInv, PairInv, TransportOf, Unpack
<1>3. pc \in {"scales", "recv"} /\ receiver' = [receiver EXCEPT ![r].pc = pc]
  BY DEF Unpack
<1> HIDE DEF pc
<1>4. [receiver[r] EXCEPT !.pc = pc] \in ReceiverType
  BY <1>1, <1>3 DEF ReceiverType
<1>5. /\ receiver' \in [Ranks -> ReceiverType] /\ receiver'[r] = [receiver[r] EXCEPT !.pc = pc]
      /\ \A t \in Ranks \ {r} : receiver'[t] = receiver[t]
  BY <1>1, <1>3, <1>4
<1>6. receiver[r].keys \in Seq(Params)
  BY <1>1 DEF ReceiverType
<1>7. ToSet(receiver[r].keys) \subseteq Params
  BY <1>6 DEF ToSet
<1>8. /\ loaded'[r] = loaded[r] \cup ToSet(receiver[r].keys)
      /\ loaded' \in [Ranks -> SUBSET Params] /\ \A t \in Ranks \ {r} : loaded'[t] = loaded[t]
  BY <1>1, <1>7 DEF Unpack
<1> QED
  BY <1>2, <1>5, <1>8 DEF Unpack, Alone, ipcVars, pc

LEMMA BroadcastStep ==
    ASSUME IInv, Broadcast
    PROVE  /\ transport = "collective"
           /\ sender' \in [Ranks -> SenderType] /\ receiver' \in [Ranks -> ReceiverType]
           /\ \A r \in Ranks :
                /\ receiver[r].pc = "broadcast" /\ sender[r].next = receiver[r].next
                /\ receiver[r].next \in Params /\ receiver'[r].next \in Nat
                /\ sender'[r].next = receiver'[r].next
                /\ sender'[r].next = PackGroup(sender[r].next) + 1
                /\ sender'[r].pc \in {"done", "fetch"}
                /\ sender'[r].used = sender[r].used /\ sender'[r].names = sender[r].names
                /\ receiver'[r].pc = "unpack"
                /\ \A k \in Params : k < receiver'[r].next =>
                     k < receiver[r].next \/ k \in ToSet(receiver'[r].keys)
           /\ UNCHANGED <<wire, buffers, loaded, torn, outcome, faults>>
<1>1. /\ sender \in [Ranks -> SenderType] /\ receiver \in [Ranks -> ReceiverType]
      /\ transport \in {"ipc", "collective"} /\ sizes \in Seq(Nat \ {0})
  BY DEF IInv, Types, TypeOK
<1>2. \A r \in Ranks : sender[r].pc = "broadcast" /\ receiver[r].pc = "broadcast"
  BY DEF Broadcast
<1>3. transport = "collective"
  BY <1>1, <1>2, RefitAssumption DEF IInv, PairsInv, PairInv, TransportOf
<1> DEFINE last(r) == PackGroup(sender[r].next)
<1>4. ASSUME NEW r \in Ranks
      PROVE  /\ receiver[r].next \in Params /\ sender[r].next = receiver[r].next
             /\ last(r) \in receiver[r].next..Len(sizes)
             /\ UnpackGroup(receiver[r].next) = last(r)
  <2>1. receiver[r].next \in Params /\ sender[r].next = receiver[r].next
    BY <1>2, <1>3 DEF IInv, CollectiveInv, InStep
  <2> QED
    BY <1>1, <2>1, GroupIsNotEmpty, GroupsAgree
<1> DEFINE s(r) == [sender[r] EXCEPT !.next = last(r) + 1,
                       !.pc = IF last(r) + 1 > Len(sizes) THEN "done" ELSE "fetch"]
           keys(r) == [i \in 1..(last(r) + 1 - receiver[r].next) |-> receiver[r].next + i - 1]
           c(r) == [receiver[r] EXCEPT !.pc = "unpack", !.keys = keys(r), !.next = last(r) + 1]
<1>5. sender' = [r \in Ranks |-> s(r)]
  BY ZenonT(40) DEF Broadcast
<1>6. receiver' = [r \in Ranks |-> c(r)]
  BY <1>4 DEF Broadcast
<1> HIDE DEF last
<1>7. ASSUME NEW r \in Ranks PROVE s(r) \in SenderType
  <2>1. sender[r] \in SenderType /\ last(r) + 1 \in 1..(Len(sizes) + 1)
    BY <1>1, <1>4, ListFacts
  <2>2. (IF last(r) + 1 > Len(sizes) THEN "done" ELSE "fetch") \in {"done", "fetch"}
    OBVIOUS
  <2> QED
    BY <2>1, <2>2 DEF SenderType
<1>8. ASSUME NEW r \in Ranks
      PROVE  /\ keys(r) \in Seq(Params)
             /\ \A k \in Params : k < last(r) + 1 => k < receiver[r].next \/ k \in ToSet(keys(r))
  <2>1. /\ receiver[r].next \in Nat /\ last(r) \in Nat /\ Params = 1..Len(sizes)
        /\ Len(sizes) \in Nat /\ 1 <= receiver[r].next /\ last(r) <= Len(sizes)
        /\ receiver[r].next <= last(r)
    BY <1>4, ListFacts
  <2>2. keys(r) \in Seq(Params)
    BY <2>1
  <2>3. ASSUME NEW k \in Params, k < last(r) + 1, ~(k < receiver[r].next)
        PROVE  k \in ToSet(keys(r))
    <3>1. k + 1 - receiver[r].next \in 1..(last(r) + 1 - receiver[r].next)
      BY <2>1, <2>3
    <3>2. keys(r)[k + 1 - receiver[r].next] = k
      BY <2>1, <3>1, SMTT(40)
    <3>3. DOMAIN keys(r) = 1..(last(r) + 1 - receiver[r].next)
      OBVIOUS
    <3> HIDE DEF keys
    <3> QED
      BY <3>1, <3>2, <3>3 DEF ToSet
  <2> QED
    BY <2>2, <2>3
<1> HIDE DEF keys
<1>9. ASSUME NEW r \in Ranks PROVE c(r) \in ReceiverType
  <2>1. receiver[r] \in ReceiverType /\ last(r) + 1 \in 1..(Len(sizes) + 1)
    BY <1>1, <1>4, ListFacts
  <2> QED
    BY <1>8, <2>1 DEF ReceiverType
<1>10. ASSUME NEW r \in Ranks
       PROVE  /\ s(r).next = last(r) + 1 /\ s(r).pc \in {"done", "fetch"}
              /\ s(r).used = sender[r].used /\ s(r).names = sender[r].names
              /\ c(r).next = last(r) + 1 /\ c(r).pc = "unpack" /\ c(r).keys = keys(r)
              /\ last(r) + 1 \in Nat
  BY <1>1, <1>4, ListFacts, SMTT(40) DEF SenderType, ReceiverType
<1> HIDE DEF s, c
<1>11. /\ sender' \in [Ranks -> SenderType] /\ receiver' \in [Ranks -> ReceiverType]
       /\ \A r \in Ranks : sender'[r] = s(r) /\ receiver'[r] = c(r)
  BY <1>5, <1>6, <1>7, <1>9
<1>12. UNCHANGED <<wire, buffers, loaded, torn, outcome, faults>>
  BY DEF Broadcast, ipcVars
<1> QED
  BY <1>2, <1>3, <1>4, <1>8, <1>10, <1>11, <1>12 DEF last

-----------------------------------------------------------------------------
(* Every step keeps every part of the invariant. *)

Raises(r) ==
    /\ sender[r].pc \in {"fetch", "send", "pack", "flush", "complete", "last_ack"}
    /\ SenderMoves(r, "raised")
ProducerComes(r) ==
    transport = "collective" /\ sender[r].pc = "fetch" /\ SenderMoves(r, "broadcast")
ReturnsFalse(r) ==
    receiver[r].pc \in {"recv", "load", "unpack", "scales"} /\ ReceiverMoves(r, "false")
ReturnsTrue(r) == receiver[r].pc = "scales" /\ ReceiverMoves(r, "true")
ConsumerComes(r) ==
    transport = "collective" /\ receiver[r].pc = "recv" /\ ReceiverMoves(r, "broadcast")

OneWorker(r) ==
    \/ Fetch(r) \/ Send(r) \/ Pack(r) \/ Complete(r) \/ Finish(r) \/ Raises(r) \/ ProducerComes(r)
    \/ Receive(r) \/ Load(r) \/ ReturnsFalse(r) \/ ReturnsTrue(r) \/ ConsumerComes(r) \/ Unpack(r)

LEMMA StepKinds == IInv /\ Step => (\E r \in Ranks : OneWorker(r)) \/ Broadcast \/ Driver
<1> SUFFICES ASSUME IInv, Step PROVE (\E r \in Ranks : OneWorker(r)) \/ Broadcast \/ Driver
  OBVIOUS
<1>1. ASSUME NEW r \in Ranks, SendTimeout(r) PROVE Raises(r)
  BY <1>1, SenderStep DEF SendTimeout, Raise, Raises
<1>2. ASSUME NEW r \in Ranks, ReceiveTimeout(r) PROVE ReturnsFalse(r)
  BY <1>2, ReceiverStep DEF ReceiveTimeout, ReturnFalse, ReturnsFalse
<1>3. ASSUME NEW r \in Ranks, ReturnTrue(r) PROVE ReturnsTrue(r)
  BY <1>3, ReceiverStep DEF ReturnTrue, ReturnsTrue
<1>4. ASSUME NEW r \in Ranks, Arriving(r) PROVE ProducerComes(r) \/ ConsumerComes(r)
  BY <1>4, SenderStep, ReceiverStep
     DEF Arriving, ProducerArrives, ConsumerArrives, ProducerComes, ConsumerComes
<1>5. ASSUME Fault PROVE \E r \in Ranks : Raises(r) \/ ReturnsFalse(r)
  <2>1. PICK r \in Ranks :
          \/ sender[r].pc \in {"fetch", "pack"} /\ Raise(r) /\ UNCHANGED receiver
          \/ /\ receiver[r].pc \in {"recv", "load", "unpack", "scales"} /\ ReturnFalse(r)
             /\ UNCHANGED sender
    BY <1>5 DEF Fault
  <2>2. UNCHANGED <<ipcVars, loaded, torn, outcome>>
    BY <1>5 DEF Fault
  <2> QED
    BY <2>1, <2>2, SenderStep, ReceiverStep DEF Raise, ReturnFalse, Raises, ReturnsFalse
<1> QED
  BY <1>1, <1>2, <1>3, <1>4, <1>5 DEF Step, Sending, Receiving, OneWorker

LEMMA OutcomeInvKept == IInv /\ Step => OutcomeInv'
<1> SUFFICES ASSUME IInv, Step PROVE OutcomeInv'
  OBVIOUS
<1>1. OutcomeInv
  BY DEF IInv
<1>2. ASSUME NEW r \in Ranks, OneWorker(r) PROVE OutcomeInv'
  <2>1. UNCHANGED outcome /\ \A t \in Ranks \ {r} : sender'[t] = sender[t] /\ receiver'[t] = receiver[t]
    BY <1>2, FetchStep, SendStep, PackStep, CompleteStep, FinishStep, ReceiveStep, LoadStep,
       UnpackStep, ZenonT(40)
       DEF OneWorker, Raises, ProducerComes, ReturnsFalse, ReturnsTrue, ConsumerComes,
           SenderMoves, ReceiverMoves, Alone
  <2>2. sender[r].pc = "done" => sender'[r] = sender[r]
    BY <1>2, FetchStep, PackStep, CompleteStep, FinishStep, ReceiveStep, LoadStep, UnpackStep,
       ZenonT(40)
       DEF OneWorker, Send, Raises, ProducerComes, ReturnsFalse, ReturnsTrue, ConsumerComes,
           ReceiverMoves
  <2>3. receiver[r].pc \in {"true", "false"} => receiver'[r] = receiver[r]
    BY <1>2, FetchStep, SendStep, PackStep, CompleteStep, FinishStep, ReceiveStep, LoadStep, UnpackStep
       DEF OneWorker, Raises, ProducerComes, ReturnsFalse, ReturnsTrue, ConsumerComes,
           SenderMoves
  <2> QED
    BY <1>1, <2>1, <2>2, <2>3, SMTT(40) DEF OutcomeInv
<1>3. CASE Broadcast
  BY <1>1, <1>3, BroadcastStep, RefitAssumption DEF OutcomeInv
<1>4. CASE Driver
  BY <1>1, <1>4 DEF OutcomeInv, Driver
<1> QED
  BY <1>2, <1>3, <1>4, StepKinds

LEMMA FaultsKept == IInv /\ Step => faults' \in 0..MaxFaults
<1> SUFFICES ASSUME IInv, Step PROVE faults' \in 0..MaxFaults
  OBVIOUS
<1>1. faults \in 0..MaxFaults /\ MaxFaults \in Nat
  BY RefitAssumption DEF IInv, Types, TypeOK
<1>2. CASE Fault
  BY <1>1, <1>2 DEF Fault
<1>3. CASE ~Fault
  <2>1. UNCHANGED faults
    BY <1>3, ZenonT(40) DEF Step, Sending, Receiving, Arriving, Fetch, Send, Pack, Complete, Finish,
         SendTimeout, Receive, Load, ReceiveTimeout, Unpack, ReturnTrue, ProducerArrives,
         ConsumerArrives, Broadcast, Driver
  <2> QED
    BY <1>1, <2>1, SMTT(40)
<1> QED
  BY <1>2, <1>3

\* Every variable keeps its type.
LEMMA TypesKept == IInv /\ Step => Types'
<1> SUFFICES ASSUME IInv, Step PROVE Types'
  OBVIOUS
<1>1. Types
  BY DEF IInv
<1>2. SUFFICES /\ sender' \in [Ranks -> SenderType] /\ receiver' \in [Ranks -> ReceiverType]
               /\ buffers' \in [Ranks -> [1..2 -> Contents]] /\ wire' \in [Ranks -> Messages]
               /\ loaded' \in [Ranks -> SUBSET Params] /\ torn' \in [Ranks -> BOOLEAN]
               /\ outcome' \in {"pending", "ok", "raised"}
  BY <1>1, ModelStays, FaultsKept DEF Types, TypeOK
<1>3. /\ sender \in [Ranks -> SenderType] /\ receiver \in [Ranks -> ReceiverType]
      /\ buffers \in [Ranks -> [1..2 -> Contents]] /\ wire \in [Ranks -> Messages]
      /\ loaded \in [Ranks -> SUBSET Params] /\ torn \in [Ranks -> BOOLEAN]
      /\ outcome \in {"pending", "ok", "raised"}
  BY <1>1 DEF Types, TypeOK
<1>4. ASSUME NEW r \in Ranks, Fetch(r) PROVE <1>2!1
  BY <1>3, <1>4, FetchStep
<1>5. ASSUME NEW r \in Ranks, Send(r) PROVE <1>2!1
  <2>1. wire' \in [Ranks -> Messages]
    BY <1>3, <1>5 DEF Send, Messages, SenderType
  <2> QED
    BY <1>3, <1>5, <2>1, SendStep
<1>6. ASSUME NEW r \in Ranks, Pack(r) PROVE <1>2!1
  <2> DEFINE k == sender[r].next
             b == sender[r].buffer
             half == buffers[r][b]
             to == sender[r].used
             more == [o \in DOMAIN half \cup {to} |-> IF o = to THEN k ELSE half[o]]
  <2>1. /\ k \in Params /\ b \in 1..2 /\ to \in Nat /\ half \in Contents
        /\ buffers' = [buffers EXCEPT ![r][b] = more]
    BY <1>6, PackStep
  <2>2. PICK S \in SUBSET Nat : half \in [S -> Params]
    BY <2>1 DEF Contents
  <2>3. more \in [S \cup {to} -> Params] /\ S \cup {to} \in SUBSET Nat
    BY <2>1, <2>2
  <2>4. more \in Contents
    BY <2>3 DEF Contents
  <2> HIDE DEF more
  <2>5. buffers' \in [Ranks -> [1..2 -> Contents]]
    BY <1>3, <2>1, <2>4
  <2> QED
    BY <1>3, <1>6, <2>5, PackStep
<1>7. ASSUME NEW r \in Ranks, Complete(r) \/ Finish(r) PROVE <1>2!1
  <2>1. wire' \in [Ranks -> Messages]
    BY <1>3, <1>7, SMTT(40) DEF Complete, Finish, Messages, Nothing
  <2> QED
    BY <1>3, <1>7, <2>1, CompleteStep, FinishStep
<1>8. ASSUME NEW r \in Ranks,
             \/ Raises(r) \/ ProducerComes(r) \/ ReturnsFalse(r) \/ ReturnsTrue(r)
             \/ ConsumerComes(r) \/ Unpack(r)
      PROVE  <1>2!1
  BY <1>3, <1>8, UnpackStep
     DEF Raises, ProducerComes, ReturnsFalse, ReturnsTrue, ConsumerComes, SenderMoves,
         ReceiverMoves
<1>9. ASSUME NEW r \in Ranks, Receive(r) PROVE <1>2!1
  <2>1. wire' \in [Ranks -> Messages]
    BY <1>3, <1>9, SMTT(40) DEF Receive, Messages, Nothing
  <2> QED
    BY <1>3, <1>9, <2>1, ReceiveStep
<1>10. ASSUME NEW r \in Ranks, Load(r) PROVE <1>2!1
  <2>1. wire' \in [Ranks -> Messages]
    BY <1>3, <1>10 DEF Load, Messages
  <2> QED
    BY <1>3, <1>10, <2>1, LoadStep
<1>11. CASE Broadcast
  BY <1>3, <1>11, BroadcastStep
<1>12. CASE Driver
  BY <1>3, <1>12 DEF Driver, ipcVars
<1> QED
  BY <1>4, <1>5, <1>6, <1>7, <1>8, <1>9, <1>10, <1>11, <1>12, StepKinds DEF OneWorker

\* What each step keeps of the pair of workers that takes it.
LEMMA PairFacts ==
    ASSUME IInv, NEW r \in Ranks
    PROVE  /\ TransportOf(r) /\ ~torn[r] /\ transport \in {"ipc", "collective"}
           /\ transport = "ipc" => ListOf(r) /\ HandshakeOf(r) /\ PackedOf(r) /\ DeliveredOf(r)
           /\ sender[r] \in SenderType /\ receiver[r] \in ReceiverType /\ wire[r] \in Messages
           /\ sender[r].used \in Nat /\ sender[r].names \in Seq(Params)
           /\ sender[r].buffer \in 1..2 /\ sender[r].next \in 1..(Len(sizes) + 1)
           /\ receiver[r].keys \in Seq(Params)
BY DEF IInv, Types, TypeOK, PairsInv, PairInv, SenderType, ReceiverType

LEMMA FetchKeeps == ASSUME IInv, NEW r \in Ranks, Fetch(r) PROVE PairInv(r)'
<1>1. PICK pc \in {"raised", "send", "pack"} :
         sender'[r] = [sender[r] EXCEPT !.pc = pc] /\ (pc = "send" => sender[r].used > 0)
  BY FetchStep
<1>2. /\ transport = "ipc" /\ sender[r].pc = "fetch" /\ sender[r].next \in Params
      /\ UNCHANGED <<receiver, wire, buffers, loaded, torn>>
      /\ UNCHANGED <<transport, sizes>> /\ Params' = Params
  BY FetchStep, ModelStays DEF Step, Sending
<1>3. /\ sender'[r].pc = pc /\ sender'[r].next = sender[r].next
      /\ sender'[r].used = sender[r].used /\ sender'[r].names = sender[r].names
      /\ sender'[r].buffer = sender[r].buffer /\ sender'[r].awaiting = sender[r].awaiting
  BY <1>1, PairFacts DEF SenderType
<1>4. TransportOf(r)' /\ ~torn'[r]
  BY <1>2, <1>3, PairFacts DEF TransportOf
<1>5. ListOf(r)'
  <2>1. PackedOf(r) /\ sender[r].used \in Nat
    BY <1>2, PairFacts
  <2>2. sender[r].names = <<>> => sender[r].used = 0
    BY <2>1, LaidNothing DEF PackedOf
  <2> QED
    BY <1>1, <1>2, <1>3, <2>1, <2>2 DEF ListOf
<1>6. HandshakeOf(r)'
  BY <1>2, <1>3, PairFacts DEF HandshakeOf
<1>7. PackedOf(r)'
  BY <1>2, <1>3, PairFacts DEF PackedOf
<1>8. DeliveredOf(r)'
  BY <1>2, <1>3, PairFacts DEF DeliveredOf, OnItsWay
<1> QED
  BY <1>4, <1>5, <1>6, <1>7, <1>8 DEF PairInv

LEMMA SendKeeps == ASSUME IInv, NEW r \in Ranks, Send(r) PROVE PairInv(r)'
<1>1. transport = "ipc" /\ sender[r].pc \in {"send", "flush"}
  BY PairFacts DEF Send, TransportOf
<1>2. /\ UNCHANGED <<receiver, buffers, loaded, torn>>
      /\ UNCHANGED <<transport, sizes>> /\ Params' = Params
  BY SendStep, ModelStays DEF Step, Sending
<1>3. /\ sender'[r].pc = (IF sender[r].pc = "send" THEN "pack" ELSE "complete")
      /\ sender'[r].next = sender[r].next /\ sender'[r].used = 0 /\ sender'[r].names = <<>>
      /\ sender'[r].buffer = 3 - sender[r].buffer /\ sender'[r].awaiting
  BY SendStep, PairFacts, ZenonT(40) DEF SenderType
<1>4. /\ wire'[r].kind = "group" /\ wire'[r].buffer = sender[r].buffer
      /\ wire'[r].keys = sender[r].names /\ wire'[r].used = sender[r].used
  <2>1. wire'[r] = [kind |-> "group", buffer |-> sender[r].buffer,
                    keys |-> sender[r].names, used |-> sender[r].used]
    BY SendStep, Zenon
  <2> QED
    BY <2>1
<1>5. /\ wire[r].kind # "group" /\ receiver[r].pc \in {"recv", "false"}
      /\ receiver[r].pc = "recv" => receiver[r].keys = <<>>
  <2>1. HandshakeOf(r) /\ TransportOf(r) /\ receiver[r] \in ReceiverType
    BY <1>1, PairFacts
  <2>2. sender[r].awaiting => wire[r].kind = "ack"
    BY DEF Send
  <2> QED
    BY <1>1, <2>1, <2>2 DEF HandshakeOf, TransportOf, ReceiverType
<1>6. TransportOf(r)' /\ ~torn'[r]
  BY <1>1, <1>2, <1>3, PairFacts DEF TransportOf
<1>7. ListOf(r)'
  BY <1>1, <1>2, <1>3, PairFacts DEF ListOf
<1>8. HandshakeOf(r)'
  <2>1. sender[r].buffer = 3 - sender'[r].buffer /\ sender[r].names # <<>>
    BY <1>1, <1>3, PairFacts DEF ListOf
  <2> QED
    BY <1>2, <1>3, <1>4, <1>5, <2>1 DEF HandshakeOf
<1>9. PackedOf(r)'
  <2>1. Laid(sizes, buffers[r][sender'[r].buffer], <<>>, 0, 0)
    BY NothingLaid
  <2>2. Laid(sizes, buffers[r][sender[r].buffer], sender[r].names, 0, sender[r].used)
    BY <1>1, PairFacts DEF PackedOf
  <2> QED
    BY <1>2, <1>3, <1>4, <1>5, <2>1, <2>2 DEF PackedOf
<1>10. DeliveredOf(r)'
  <2>1. DeliveredOf(r)
    BY <1>1, PairFacts
  <2>2. OnItsWay(r) \subseteq OnItsWay(r)'
    BY <1>2, <1>4, <1>5 DEF OnItsWay
  <2> QED
    BY <1>2, <1>3, <2>1, <2>2 DEF DeliveredOf
<1> QED
  BY <1>6, <1>7, <1>8, <1>9, <1>10 DEF PairInv

LEMMA PackKeeps == ASSUME IInv, NEW r \in Ranks, Pack(r) PROVE PairInv(r)'
<1> DEFINE k == sender[r].next
           b == sender[r].buffer
           half == buffers[r][b]
           to == sender[r].used
           more == [o \in DOMAIN half \cup {to} |-> IF o = to THEN k ELSE half[o]]
           size == AlignedSize(sizes[k])
<1>1. /\ transport = "ipc" /\ k \in Params /\ b \in 1..2 /\ to \in Nat /\ half \in Contents
      /\ sender[r].pc = "pack" /\ UNCHANGED <<receiver, wire, loaded, torn>>
      /\ buffers' = [buffers EXCEPT ![r][b] = more]
  BY PackStep
<1>2. UNCHANGED <<transport, sizes>> /\ Params' = Params
  BY ModelStays DEF Step, Sending
<1>3. /\ sender'[r].pc = (IF k = Len(sizes) THEN "flush" ELSE "fetch")
      /\ sender'[r].next = k + 1 /\ sender'[r].used = to + size
      /\ sender'[r].names = Append(sender[r].names, k)
      /\ sender'[r].buffer = b /\ sender'[r].awaiting = sender[r].awaiting
  <2>1. sender'[r] = [sender[r] EXCEPT !.names = Append(@, k), !.next = k + 1, !.used = @ + size,
                                       !.pc = IF k = Len(sizes) THEN "flush" ELSE "fetch"]
    BY PackStep, Zenon
  <2> QED
    BY <2>1, PairFacts DEF SenderType
<1>4. TransportOf(r) /\ ListOf(r) /\ HandshakeOf(r) /\ PackedOf(r) /\ DeliveredOf(r)
      /\ ~torn[r] /\ sender[r].names \in Seq(Params)
  BY <1>1, PairFacts
<1>5. Append(sender[r].names, k) # <<>> /\ k \in Nat /\ Len(sizes) \in Nat /\ k <= Len(sizes)
  <2>1. k \in Params /\ sender[r].names \in Seq(Params)
    BY <1>1, <1>4
  <2> HIDE DEF k
  <2>2. k \in Nat /\ Len(sizes) \in Nat /\ k <= Len(sizes)
    BY <2>1, ListFacts
  <2> QED
    BY <2>1, <2>2, AppendProperties
<1>6. TransportOf(r)' /\ ~torn'[r]
  BY <1>1, <1>2, <1>3, <1>4 DEF TransportOf
<1>7. ListOf(r)'
  BY <1>2, <1>3, <1>5 DEF ListOf
<1>8. HandshakeOf(r)'
  BY <1>1, <1>3, <1>4 DEF HandshakeOf
<1>9. PackedOf(r)'
  <2>1. buffers'[r][b] = more /\ buffers'[r][3 - b] = buffers[r][3 - b]
    <3>1. buffers \in [Ranks -> [1..2 -> Contents]] /\ 3 - b \in 1..2 /\ 3 - b # b
      BY <1>1 DEF IInv, Types
    <3> QED
      BY <1>1, <3>1
  <2>2. Laid(sizes, half, sender[r].names, 0, to)
    BY <1>4 DEF PackedOf
  <2>3. Laid(sizes, more, Append(sender[r].names, k), 0, to + size)
    BY <1>1, <1>4, <2>2, ListFacts, LaidOneMore
  <2>4. /\ wire[r].kind = "group" => wire[r].buffer = 3 - b
        /\ receiver[r].pc = "load" => receiver[r].buffer = 3 - b
    BY <1>4 DEF HandshakeOf
  <2> HIDE DEF more, size, to, b, k
  <2> QED
    BY <1>1, <1>2, <1>3, <1>4, <2>1, <2>3, <2>4 DEF PackedOf
<1>10. DeliveredOf(r)'
  <2>1. /\ k \in ToSet(Append(sender[r].names, k))
        /\ ToSet(sender[r].names) \subseteq ToSet(Append(sender[r].names, k))
    <3> DEFINE names == sender[r].names
    <3>1. k \in Params /\ names \in Seq(Params)
      BY <1>1, <1>4
    <3> HIDE DEF k, names
    <3>2. /\ Len(Append(names, k)) = Len(names) + 1 /\ Append(names, k)[Len(names) + 1] = k
          /\ \A i \in 1..Len(names) : Append(names, k)[i] = names[i]
          /\ DOMAIN Append(names, k) = 1..(Len(names) + 1) /\ DOMAIN names = 1..Len(names)
          /\ Len(names) \in Nat
      BY <3>1, AppendProperties
    <3>3. k \in ToSet(Append(names, k)) /\ ToSet(names) \subseteq ToSet(Append(names, k))
      BY <3>2 DEF ToSet
    <3> QED
      BY <3>3 DEF names
  <2>2. OnItsWay(r) \cup {k} \subseteq OnItsWay(r)'
    BY <1>1, <1>3, <2>1 DEF OnItsWay
  <2>3. \A j \in Params : j < k + 1 => j < k \/ j = k
    BY <1>5, ListFacts
  <2> QED
    BY <1>1, <1>2, <1>3, <1>4, <2>2, <2>3 DEF DeliveredOf
<1> QED
  BY <1>6, <1>7, <1>8, <1>9, <1>10 DEF PairInv

LEMMA CompleteKeeps == ASSUME IInv, NEW r \in Ranks, Complete(r) PROVE PairInv(r)'
<1>1. /\ sender[r].pc = "complete" /\ wire[r].kind = "ack" /\ wire'[r].kind = "complete"
      /\ UNCHANGED <<receiver, buffers, loaded, torn, transport, sizes>> /\ Params' = Params
      /\ sender'[r] = [sender[r] EXCEPT !.pc = "last_ack"]
  BY CompleteStep, ModelStays DEF Step, Sending
<1>2. /\ sender'[r].pc = "last_ack" /\ sender'[r].next = sender[r].next
      /\ sender'[r].used = sender[r].used /\ sender'[r].names = sender[r].names
      /\ sender'[r].buffer = sender[r].buffer /\ sender'[r].awaiting = sender[r].awaiting
  BY <1>1, PairFacts DEF SenderType
<1>3. transport = "ipc"
  BY <1>1, PairFacts DEF TransportOf
<1>4. TransportOf(r)' /\ ~torn'[r]
  BY <1>1, <1>2, <1>3, PairFacts DEF TransportOf
<1>5. ListOf(r)'
  BY <1>1, <1>2, <1>3, PairFacts DEF ListOf
<1>6. HandshakeOf(r)'
  BY <1>1, <1>2, <1>3, PairFacts DEF HandshakeOf
<1>7. PackedOf(r)'
  <2>1. PackedOf(r) /\ HandshakeOf(r)
    BY <1>3, PairFacts
  <2>2. receiver[r].pc # "load"
    BY <1>1, <2>1 DEF HandshakeOf
  <2> QED
    BY <1>1, <1>2, <2>1, <2>2 DEF PackedOf
<1>8. DeliveredOf(r)'
  <2>1. /\ DeliveredOf(r) /\ sender[r].names = <<>> /\ receiver[r].keys = <<>>
        /\ sender[r].next = Len(sizes) + 1
    BY <1>1, <1>3, PairFacts DEF ListOf, HandshakeOf
  <2>2. OnItsWay(r) = {}
    BY <1>1, <2>1 DEF OnItsWay, ToSet
  <2>3. \A j \in Params : j < sender[r].next
    BY <2>1, ListFacts
  <2> QED
    BY <1>1, <1>2, <2>1, <2>2, <2>3 DEF DeliveredOf
<1> QED
  BY <1>4, <1>5, <1>6, <1>7, <1>8 DEF PairInv

LEMMA FinishKeeps == ASSUME IInv, NEW r \in Ranks, Finish(r) PROVE PairInv(r)'
<1>1. /\ sender[r].pc = "last_ack" /\ wire[r].kind = "ack" /\ wire'[r].kind = "none"
      /\ UNCHANGED <<receiver, buffers, loaded, torn, transport, sizes>> /\ Params' = Params
      /\ sender'[r] = [sender[r] EXCEPT !.pc = "done"]
  BY FinishStep, ModelStays DEF Step, Sending
<1>2. /\ sender'[r].pc = "done" /\ sender'[r].next = sender[r].next
      /\ sender'[r].used = sender[r].used /\ sender'[r].names = sender[r].names
      /\ sender'[r].buffer = sender[r].buffer /\ sender'[r].awaiting = sender[r].awaiting
  BY <1>1, PairFacts DEF SenderType
<1>3. transport = "ipc"
  BY <1>1, PairFacts DEF TransportOf
<1>4. TransportOf(r)' /\ ~torn'[r]
  BY <1>1, <1>2, <1>3, PairFacts DEF TransportOf
<1>5. ListOf(r)'
  BY <1>1, <1>2, <1>3, PairFacts DEF ListOf
<1>6. HandshakeOf(r)'
  BY <1>1, <1>2, <1>3, PairFacts DEF HandshakeOf
<1>7. PackedOf(r)'
  <2>1. PackedOf(r) /\ HandshakeOf(r)
    BY <1>3, PairFacts
  <2> QED
    BY <1>1, <1>2, <2>1 DEF PackedOf, HandshakeOf
<1>8. DeliveredOf(r)'
  BY <1>1, <1>2, <1>3, PairFacts DEF DeliveredOf
<1> QED
  BY <1>4, <1>5, <1>6, <1>7, <1>8 DEF PairInv

LEMMA ReceiveKeeps == ASSUME IInv, NEW r \in Ranks, Receive(r) PROVE PairInv(r)'
<1>1. /\ receiver[r].pc = "recv" /\ wire[r].kind \in {"group", "complete"}
      /\ UNCHANGED <<sender, buffers, loaded, torn, transport, sizes>> /\ Params' = Params
  BY ReceiveStep, ModelStays DEF Step, Receiving
<1>2. transport = "ipc"
  BY <1>1, PairFacts DEF TransportOf
<1>3. /\ TransportOf(r) /\ ListOf(r) /\ HandshakeOf(r) /\ PackedOf(r) /\ DeliveredOf(r)
      /\ ~torn[r]
  BY <1>2, PairFacts
<1>4. ListOf(r)'
  BY <1>1, <1>3 DEF ListOf
<1>5. CASE wire[r].kind = "group"
  <2>1. /\ wire'[r].kind = "none" /\ wire[r].used \in Nat
        /\ receiver'[r] = [receiver[r] EXCEPT !.pc = "load", !.keys = wire[r].keys,
                             !.offset = 0, !.buffer = wire[r].buffer]
    BY <1>5, ReceiveStep
  <2>2. /\ receiver'[r].pc = "load" /\ receiver'[r].keys = wire[r].keys
        /\ receiver'[r].offset = 0 /\ receiver'[r].buffer = wire[r].buffer
    BY <2>1, PairFacts DEF ReceiverType
  <2>3. TransportOf(r)'
    BY <1>1, <1>2, <1>3, <2>2 DEF TransportOf
  <2>4. HandshakeOf(r)'
    BY <1>1, <1>3, <1>5, <2>1, <2>2 DEF HandshakeOf
  <2>5. PackedOf(r)'
    BY <1>1, <1>3, <1>5, <2>1, <2>2 DEF PackedOf
  <2>6. DeliveredOf(r)'
    <3>1. receiver[r].keys = <<>>
      BY <1>1, <1>3 DEF HandshakeOf
    <3>2. OnItsWay(r) \subseteq OnItsWay(r)'
      BY <1>1, <1>5, <2>1, <2>2, <3>1 DEF OnItsWay, ToSet
    <3> QED
      BY <1>1, <1>3, <3>2 DEF DeliveredOf
  <2> QED
    BY <1>1, <1>3, <1>4, <2>3, <2>4, <2>5, <2>6 DEF PairInv
<1>6. CASE wire[r].kind = "complete"
  <2>1. wire'[r].kind = "ack" /\ receiver'[r] = [receiver[r] EXCEPT !.pc = "scales"]
    BY <1>6, ReceiveStep
  <2>2. receiver'[r].pc = "scales" /\ receiver'[r].keys = receiver[r].keys
    BY <2>1, PairFacts DEF ReceiverType
  <2>3. TransportOf(r)'
    BY <1>1, <1>2, <1>3, <2>2 DEF TransportOf
  <2>4. HandshakeOf(r)'
    BY <1>1, <1>3, <1>6, <2>1, <2>2 DEF HandshakeOf
  <2>5. PackedOf(r)'
    BY <1>1, <1>3, <2>1, <2>2 DEF PackedOf
  <2>6. DeliveredOf(r)'
    BY <1>1, <1>3, <1>6, <2>1, <2>2 DEF DeliveredOf, OnItsWay
  <2> QED
    BY <1>1, <1>3, <1>4, <2>3, <2>4, <2>5, <2>6 DEF PairInv
<1> QED
  BY <1>1, <1>5, <1>6

LEMMA LoadKeeps == ASSUME IInv, NEW r \in Ranks, Load(r) PROVE PairInv(r)'
<1> DEFINE keys == receiver[r].keys
           rest == Tail(keys)
           from == receiver[r].offset
           half == buffers[r][receiver[r].buffer]
           size == AlignedSize(sizes[Head(keys)])
<1>1. /\ transport = "ipc" /\ receiver[r].pc = "load" /\ keys # <<>>
      /\ keys \in Seq(Params) /\ from \in Nat /\ Head(keys) \in Params /\ rest \in Seq(Params)
      /\ loaded'[r] = loaded[r] \cup {Head(keys)}
      /\ wire'[r].kind = (IF rest = <<>> THEN "ack" ELSE wire[r].kind)
      /\ UNCHANGED <<sender, buffers>>
  BY LoadStep
<1>2. UNCHANGED <<transport, sizes>> /\ Params' = Params
  BY ModelStays DEF Step, Receiving
<1>3. /\ receiver'[r].pc = (IF rest = <<>> THEN "recv" ELSE "load")
      /\ receiver'[r].keys = rest /\ receiver'[r].offset = from + size
      /\ receiver'[r].buffer = receiver[r].buffer
  <2>1. receiver'[r] = [receiver[r] EXCEPT !.keys = rest, !.offset = @ + size,
                                           !.pc = IF rest = <<>> THEN "recv" ELSE "load"]
    BY LoadStep, Zenon
  <2> QED
    BY <2>1, PairFacts DEF ReceiverType
<1>4. /\ TransportOf(r) /\ ListOf(r) /\ HandshakeOf(r) /\ PackedOf(r) /\ DeliveredOf(r)
      /\ ~torn[r]
  BY <1>1, PairFacts
<1>5. wire[r].kind = "none" /\ wire'[r].kind \in {"none", "ack"}
  BY <1>1, <1>4 DEF HandshakeOf
<1>6. PICK end \in Nat : Laid(sizes, half, keys, from, end)
  BY <1>1, <1>4 DEF PackedOf
<1>7. /\ from \in DOMAIN half /\ half[from] = Head(keys)
      /\ Laid(sizes, half, rest, from + size, end)
  <2> HIDE DEF keys, half, from
  <2> QED
    BY <1>1, <1>6, LaidFirst, SMTT(40)
<1>8. ~torn'[r]
  <2>1. torn \in [Ranks -> BOOLEAN]
    BY DEF IInv, Types, TypeOK
  <2> QED
    BY <1>4, <1>7, <2>1 DEF Load
<1>9. TransportOf(r)'
  BY <1>1, <1>2, <1>3, <1>4 DEF TransportOf
<1>10. ListOf(r)'
  BY <1>1, <1>2, <1>4 DEF ListOf
<1>11. HandshakeOf(r)'
  <2>1. sender[r].awaiting /\ receiver[r].buffer = 3 - sender[r].buffer
    BY <1>1, <1>4 DEF HandshakeOf
  <2> HIDE DEF rest
  <2>2. CASE rest = <<>>
    BY <1>1, <1>3, <2>1, <2>2 DEF HandshakeOf
  <2>3. CASE rest # <<>>
    BY <1>1, <1>3, <1>5, <2>1, <2>3 DEF HandshakeOf
  <2> QED
    BY <2>2, <2>3
<1>12. PackedOf(r)'
  <2>1. end \in Nat /\ Laid(sizes, half, rest, from + size, end)
    BY <1>7
  <2> HIDE DEF rest, size, from
  <2> QED
    BY <1>1, <1>2, <1>3, <1>4, <1>5, <2>1 DEF PackedOf
<1>13. DeliveredOf(r)'
  <2>1. ToSet(keys) \subseteq {Head(keys)} \cup ToSet(rest)
    <3> HIDE DEF keys
    <3>1. /\ Len(keys) \in Nat \ {0} /\ Head(keys) = keys[1] /\ Len(rest) = Len(keys) - 1
          /\ \A i \in 1..(Len(keys) - 1) : rest[i] = keys[i + 1]
          /\ DOMAIN rest = 1..(Len(keys) - 1) /\ DOMAIN keys = 1..Len(keys)
      BY <1>1
    <3>2. ASSUME NEW i \in 1..Len(keys), i # 1
          PROVE  \E j \in DOMAIN rest : rest[j] = keys[i]
      <4>1. i - 1 \in 1..(Len(keys) - 1) /\ (i - 1) + 1 = i
        BY <3>1, <3>2
      <4> QED
        BY <3>1, <4>1
    <3> HIDE DEF rest
    <3> QED
      BY <3>1, <3>2 DEF ToSet
  <2>2. OnItsWay(r) \subseteq {Head(keys)} \cup OnItsWay(r)'
    BY <1>1, <1>3, <1>5, <2>1 DEF OnItsWay
  <2> QED
    BY <1>1, <1>2, <1>4, <2>2 DEF DeliveredOf
<1> QED
  BY <1>8, <1>9, <1>10, <1>11, <1>12, <1>13, <1>1, <1>2, SMTT(40) DEF PairInv

LEMMA RaisesKeeps == ASSUME IInv, Step, NEW r \in Ranks, Raises(r) PROVE PairInv(r)'
<1>1. /\ UNCHANGED <<receiver, wire, buffers, loaded, torn, transport, sizes>> /\ Params' = Params
      /\ sender'[r] = [sender[r] EXCEPT !.pc = "raised"]
  BY ModelStays DEF Raises, SenderMoves
<1>2. /\ sender'[r].pc = "raised" /\ sender'[r].next = sender[r].next
      /\ sender'[r].used = sender[r].used /\ sender'[r].names = sender[r].names
      /\ sender'[r].buffer = sender[r].buffer /\ sender'[r].awaiting = sender[r].awaiting
  BY <1>1, PairFacts DEF SenderType
<1>3. TransportOf(r)' /\ ~torn'[r]
  BY <1>1, <1>2, PairFacts DEF TransportOf
<1>4. ASSUME transport = "ipc" PROVE ListOf(r)' /\ HandshakeOf(r)' /\ PackedOf(r)' /\ DeliveredOf(r)'
  <2>1. HandshakeOf(r) /\ PackedOf(r) /\ DeliveredOf(r)
    BY <1>4, PairFacts
  <2>2. ListOf(r)'
    BY <1>2 DEF ListOf
  <2>3. HandshakeOf(r)'
    BY <1>1, <1>2, <2>1 DEF HandshakeOf
  <2>4. PackedOf(r)'
    BY <1>1, <1>2, <2>1 DEF PackedOf
  <2>5. DeliveredOf(r)'
    BY <1>1, <1>2, <2>1 DEF DeliveredOf, OnItsWay
  <2> QED
    BY <2>2, <2>3, <2>4, <2>5
<1> QED
  BY <1>1, <1>3, <1>4 DEF PairInv

LEMMA ReturnsKeep ==
    ASSUME IInv, Step, NEW r \in Ranks, ReturnsFalse(r) \/ ReturnsTrue(r)
    PROVE  PairInv(r)'
<1>1. /\ UNCHANGED <<sender, wire, buffers, loaded, torn, transport, sizes>> /\ Params' = Params
      /\ \/ ReturnsFalse(r) /\ receiver'[r] = [receiver[r] EXCEPT !.pc = "false"]
         \/ ReturnsTrue(r) /\ receiver'[r] = [receiver[r] EXCEPT !.pc = "true"]
  BY ModelStays DEF ReturnsFalse, ReturnsTrue, ReceiverMoves
<1>2. /\ receiver'[r].keys = receiver[r].keys
      /\ \/ ReturnsFalse(r) /\ receiver'[r].pc = "false"
         \/ ReturnsTrue(r) /\ receiver'[r].pc = "true"
  BY <1>1, PairFacts DEF ReceiverType
<1>3. TransportOf(r)' /\ ~torn'[r]
  BY <1>1, <1>2, PairFacts DEF TransportOf
<1>4. ASSUME transport = "ipc" PROVE ListOf(r)' /\ HandshakeOf(r)' /\ PackedOf(r)' /\ DeliveredOf(r)'
  <2>1. ListOf(r) /\ HandshakeOf(r) /\ PackedOf(r) /\ DeliveredOf(r)
    BY <1>4, PairFacts
  <2>2. ListOf(r)'
    BY <1>1, <2>1 DEF ListOf
  <2>3. HandshakeOf(r)'
    <3>1. CASE receiver'[r].pc = "false"
      BY <1>1, <1>2, <2>1, <3>1 DEF HandshakeOf
    <3>2. CASE receiver[r].pc = "scales" /\ receiver'[r].pc = "true"
      BY <1>1, <1>2, <2>1, <3>2 DEF HandshakeOf
    <3> QED
      BY <1>2, <3>1, <3>2 DEF ReturnsTrue
  <2>4. PackedOf(r)'
    BY <1>1, <1>2, <2>1 DEF PackedOf
  <2>5. DeliveredOf(r)'
    BY <1>1, <1>2, <2>1 DEF DeliveredOf, OnItsWay
  <2> QED
    BY <2>2, <2>3, <2>4, <2>5
<1> QED
  BY <1>1, <1>3, <1>4 DEF PairInv

\* The steps to and from a broadcast.
LEMMA ComingKeeps ==
    ASSUME IInv, Step, NEW r \in Ranks, ProducerComes(r) \/ ConsumerComes(r) \/ Unpack(r)
    PROVE  PairInv(r)'
<1>1. transport = "collective" /\ transport' = transport /\ torn' = torn
  BY UnpackStep, ModelStays DEF ProducerComes, ConsumerComes, SenderMoves, ReceiverMoves
<1>2. TransportOf(r)'
  <2>1. CASE ProducerComes(r)
    <3>1. sender'[r].pc = "broadcast" /\ UNCHANGED <<receiver, wire>>
      BY <2>1, PairFacts DEF ProducerComes, SenderMoves, SenderType
    <3> QED
      BY <1>1, <3>1, PairFacts DEF TransportOf
  <2>2. CASE ConsumerComes(r)
    <3>1. receiver'[r].pc = "broadcast" /\ UNCHANGED <<sender, wire>>
      BY <2>2, PairFacts DEF ConsumerComes, ReceiverMoves, ReceiverType
    <3> QED
      BY <1>1, <3>1, PairFacts DEF TransportOf
  <2>3. CASE Unpack(r)
    <3>1. receiver'[r].pc \in {"scales", "recv"} /\ UNCHANGED <<sender, wire>>
      BY <2>3, UnpackStep, PairFacts, ZenonT(40) DEF ReceiverType
    <3> QED
      BY <1>1, <3>1, PairFacts DEF TransportOf
  <2> QED
    BY <2>1, <2>2, <2>3
<1> QED
  BY <1>1, <1>2, PairFacts DEF PairInv

LEMMA OthersStay ==
    ASSUME IInv, NEW r \in Ranks, OneWorker(r)
    PROVE  Alone(r) /\ UNCHANGED outcome
BY FetchStep, SendStep, PackStep, CompleteStep, FinishStep, ReceiveStep, LoadStep, UnpackStep
   DEF OneWorker, Raises, ProducerComes, ReturnsFalse, ReturnsTrue, ConsumerComes,
       SenderMoves, ReceiverMoves

LEMMA PairsInvKept == IInv /\ Step => PairsInv'
<1> SUFFICES ASSUME IInv, Step, NEW t \in Ranks PROVE PairInv(t)'
  BY DEF PairsInv
<1>1. UNCHANGED <<transport, sizes>> /\ Params' = Params
  BY ModelStays
<1>2. PairInv(t)
  BY DEF IInv, PairsInv
<1>3. ASSUME NEW r \in Ranks, OneWorker(r) PROVE PairInv(t)'
  <2>1. CASE t = r
    BY <1>3, <2>1, FetchKeeps, SendKeeps, PackKeeps, CompleteKeeps, FinishKeeps, ReceiveKeeps,
       LoadKeeps, RaisesKeeps, ReturnsKeep, ComingKeeps DEF OneWorker
  <2>2. CASE t # r
    <3>1. /\ sender'[t] = sender[t] /\ receiver'[t] = receiver[t] /\ wire'[t] = wire[t]
          /\ buffers'[t] = buffers[t] /\ loaded'[t] = loaded[t] /\ torn'[t] = torn[t]
      BY <1>3, <2>2, OthersStay DEF Alone
    <3> QED
      BY <1>1, <1>2, <3>1 DEF PairInv, TransportOf, ListOf, HandshakeOf, PackedOf, DeliveredOf,
                              OnItsWay
  <2> QED
    BY <2>1, <2>2
<1>4. CASE Broadcast
  <2>1. /\ transport = "collective" /\ receiver'[t].pc = "unpack"
        /\ sender'[t].pc \in {"done", "fetch"} /\ UNCHANGED <<wire, torn>>
    BY <1>4, BroadcastStep
  <2> QED
    BY <1>1, <1>2, <2>1 DEF PairInv, TransportOf
<1>5. CASE Driver
  BY <1>1, <1>2, <1>5 DEF Driver, ipcVars, PairInv, TransportOf, ListOf, HandshakeOf, PackedOf,
                          DeliveredOf, OnItsWay
<1> QED
  BY <1>3, <1>4, <1>5, StepKinds

\* The workers of a collective refit stay at one group.
LEMMA CollectiveInvKept == IInv /\ Step => CollectiveInv'
<1> SUFFICES ASSUME IInv, Step, transport = "collective"
             PROVE  /\ InStep'
                    /\ \A r \in Ranks :
                         /\ receiver'[r].pc \in {"recv", "broadcast"} => receiver'[r].next \in Params
                         /\ receiver'[r].pc \in {"scales", "true"} =>
                              receiver'[r].next = Len(sizes) + 1
                         /\ \A k \in Params : k < receiver'[r].next /\ receiver'[r].pc # "false" =>
                              \/ k \in loaded'[r]
                              \/ receiver'[r].pc = "unpack" /\ k \in ToSet(receiver'[r].keys)
  BY ModelStays DEF CollectiveInv
<1>1. CollectiveInv /\ InStep
  BY DEF IInv, CollectiveInv
<1> DEFINE Goal(t) ==
      /\ receiver'[t].pc \in {"recv", "broadcast"} => receiver'[t].next \in Params
      /\ receiver'[t].pc \in {"scales", "true"} => receiver'[t].next = Len(sizes) + 1
      /\ \A k \in Params : k < receiver'[t].next /\ receiver'[t].pc # "false" =>
           \/ k \in loaded'[t]
           \/ receiver'[t].pc = "unpack" /\ k \in ToSet(receiver'[t].keys)
<1>2. ASSUME NEW r \in Ranks, OneWorker(r)
      PROVE  InStep' /\ \A t \in Ranks : Goal(t)
  <2>1. \/ Raises(r) \/ ProducerComes(r) \/ ReturnsFalse(r) \/ ReturnsTrue(r)
        \/ ConsumerComes(r) \/ Unpack(r)
    <3>1. TransportOf(r)
      BY PairFacts
    <3>2. ~Fetch(r) /\ ~Send(r) /\ ~Pack(r) /\ ~Complete(r) /\ ~Finish(r) /\ ~Receive(r) /\ ~Load(r)
      BY <3>1 DEF TransportOf, Fetch, Send, Pack, Complete, Finish, Receive, Load
    <3> QED
      BY <1>2, <3>2 DEF OneWorker
  <2>2. sender'[r].next = sender[r].next /\ receiver'[r].next = receiver[r].next
        /\ receiver'[r].keys = receiver[r].keys
    <3>1. CASE Raises(r) \/ ProducerComes(r)
      BY <3>1, PairFacts DEF Raises, ProducerComes, SenderMoves, SenderType
    <3>2. CASE ReturnsFalse(r) \/ ReturnsTrue(r) \/ ConsumerComes(r)
      BY <3>2, PairFacts
         DEF ReturnsFalse, ReturnsTrue, ConsumerComes, ReceiverMoves, ReceiverType
    <3>3. CASE Unpack(r)
      BY <3>3, UnpackStep, PairFacts, ZenonT(40) DEF ReceiverType
    <3> QED
      BY <2>1, <3>1, <3>2, <3>3
  <2>3. Alone(r)
    BY <1>2, OthersStay
  <2>4. InStep'
    BY <1>1, <2>2, <2>3 DEF InStep, Alone
  <2>5. ASSUME NEW t \in Ranks, t # r PROVE Goal(t)
    BY <1>1, <2>3, <2>5 DEF CollectiveInv, Alone
  <2>6. Goal(r)
    <3>1. CASE Raises(r) \/ ProducerComes(r)
      BY <1>1, <3>1 DEF CollectiveInv, Raises, ProducerComes, SenderMoves
    <3>2. CASE ReturnsFalse(r)
      <4>1. receiver'[r].pc = "false"
        BY <3>2, PairFacts DEF ReturnsFalse, ReceiverMoves, ReceiverType
      <4> QED
        BY <4>1
    <3>3. CASE ReturnsTrue(r)
      <4>1. receiver[r].pc = "scales" /\ receiver'[r].pc = "true" /\ loaded' = loaded
        BY <3>3, PairFacts DEF ReturnsTrue, ReceiverMoves, ReceiverType
      <4> QED
        BY <1>1, <2>2, <4>1 DEF CollectiveInv
    <3>4. CASE ConsumerComes(r)
      <4>1. receiver[r].pc = "recv" /\ receiver'[r].pc = "broadcast" /\ loaded' = loaded
        BY <3>4, PairFacts DEF ConsumerComes, ReceiverMoves, ReceiverType
      <4> QED
        BY <1>1, <2>2, <4>1 DEF CollectiveInv
    <3>5. CASE Unpack(r)
      <4>1. /\ receiver[r].pc = "unpack"
            /\ receiver'[r].pc = (IF receiver[r].next > Len(sizes) THEN "scales" ELSE "recv")
            /\ loaded'[r] = loaded[r] \cup ToSet(receiver[r].keys)
            /\ receiver[r].next \in 1..(Len(sizes) + 1)
        BY <3>5, UnpackStep, PairFacts, ZenonT(40) DEF ReceiverType
      <4>2. \A k \in Params : k < receiver[r].next => k \in loaded'[r]
        BY <1>1, <4>1 DEF CollectiveInv
      <4>3. CASE receiver[r].next > Len(sizes)
        <5>1. receiver[r].next = Len(sizes) + 1 /\ receiver'[r].pc = "scales"
          BY <4>1, <4>3, ListFacts
        <5> QED
          BY <2>2, <4>2, <5>1
      <4>4. CASE ~(receiver[r].next > Len(sizes))
        <5>1. receiver[r].next \in Params /\ receiver'[r].pc = "recv"
          BY <4>1, <4>4, ListFacts
        <5> QED
          BY <2>2, <4>2, <5>1
      <4> QED
        BY <4>3, <4>4
    <3> QED
      BY <2>1, <3>1, <3>2, <3>3, <3>4, <3>5
  <2> QED
    BY <2>4, <2>5, <2>6
<1>3. CASE Broadcast
  <2>1. ASSUME NEW r \in Ranks PROVE Goal(r)
    <3>1. /\ receiver[r].pc = "broadcast" /\ receiver'[r].pc = "unpack" /\ loaded' = loaded
          /\ \A k \in Params : k < receiver'[r].next =>
               k < receiver[r].next \/ k \in ToSet(receiver'[r].keys)
      BY <1>3, BroadcastStep
    <3> QED
      BY <1>1, <3>1 DEF CollectiveInv
  <2>2. InStep'
    <3>1. \A r \in Ranks : sender'[r].next = PackGroup(sender[r].next) + 1
                           /\ sender'[r].next = receiver'[r].next
      BY <1>3, BroadcastStep
    <3>2. \A r, t \in Ranks : sender[r].next = sender[t].next
      BY <1>1 DEF InStep
    <3> QED
      BY <3>1, <3>2 DEF InStep
  <2> QED
    BY <2>1, <2>2
<1>4. CASE Driver
  BY <1>1, <1>4 DEF Driver, ipcVars, InStep, CollectiveInv
<1> QED
  BY <1>2, <1>3, <1>4, StepKinds

-----------------------------------------------------------------------------
(* What holds of every refit *)

LEMMA NextIInv == IInv /\ [Next]_vars => IInv'
<1> SUFFICES ASSUME IInv, [Next]_vars PROVE IInv'
  OBVIOUS
<1>1. CASE Step
  BY <1>1, TypesKept, PairsInvKept, CollectiveInvKept, OutcomeInvKept DEF IInv
<1>2. CASE UNCHANGED vars
  <2>1. UNCHANGED <<transport, sizes, sender, buffers, wire, receiver, loaded, torn, outcome,
                    faults>>
    BY <1>2 DEF vars
  <2>2. Types'
    BY <2>1, SMTT(40) DEF IInv, Types, TypeOK, SenderType, ReceiverType, Params, Contents, Messages
  <2>3. PairsInv'
    BY <2>1 DEF IInv, PairsInv, PairInv, TransportOf, ListOf, HandshakeOf, PackedOf, DeliveredOf,
                OnItsWay, Params
  <2>4. CollectiveInv' /\ OutcomeInv'
    BY <2>1 DEF IInv, CollectiveInv, InStep, OutcomeInv, Params
  <2> QED
    BY <2>2, <2>3, <2>4 DEF IInv
<1> QED
  BY <1>1, <1>2 DEF Next, Step, Ended

LEMMA Invariance == Spec => []IInv
BY InitIInv, NextIInv, PTL DEF Spec

\* Every variable of a refit keeps its type (all of packed_tensor.py and the
\* two ends of the ZeroMQ socket).
THEOREM TypeCorrect == Spec => []TypeOK
<1>1. IInv => TypeOK
  BY DEF IInv, Types
<1> QED
  BY <1>1, Invariance, PTL

\* An engine worker never reads a half of the shared buffer after the policy
\* worker has begun to write a later group to it, and reads every parameter at
\* the offset it was packed at.
THEOREM NothingTorn == Spec => []NeverTorn
<1>1. IInv => NeverTorn
  BY DEF IInv, PairsInv, PairInv, NeverTorn
<1> QED
  BY <1>1, Invariance, PTL

\* The producer's and the consumers' loops cut the list of parameters alike:
\* in a broadcast all are at the same group.
THEOREM BroadcastsMatch == Spec => []BroadcastsAgree
<1>1. IInv => BroadcastsAgree
  <2> SUFFICES ASSUME IInv, NEW r \in Ranks, NEW t \in Ranks,
                      \A u \in Ranks : sender[u].pc = "broadcast" /\ receiver[u].pc = "broadcast"
               PROVE  /\ sender[r].next = receiver[t].next
                      /\ PackGroup(sender[r].next) = UnpackGroup(receiver[t].next)
    BY DEF BroadcastsAgree
  <2>1. transport = "collective"
    BY PairFacts DEF TransportOf
  <2>2. sender[r].next = receiver[t].next
    BY <2>1 DEF IInv, CollectiveInv, InStep
  <2> QED
    BY <2>2, GroupsAgree
<1> QED
  BY <1>1, Invariance, PTL

\* A refit the driver takes for done has brought every parameter to every
\* engine worker over ipc, and to each that returned True over a broadcast.
THEOREM RefitsAreWhole == Spec => []RefitIsWhole
<1>1. IInv => RefitIsWhole
  <2> SUFFICES ASSUME IInv, outcome = "ok", NEW r \in Ranks,
                      transport = "ipc" \/ receiver[r].pc = "true"
               PROVE  loaded[r] = Params
    BY DEF RefitIsWhole
  <2>1. sender[r].pc = "done" /\ loaded[r] \subseteq Params
    BY DEF IInv, OutcomeInv, Types, TypeOK
  <2>2. CASE transport = "ipc"
    BY <2>1, <2>2, PairFacts DEF DeliveredOf
  <2>3. CASE transport = "collective" /\ receiver[r].pc = "true"
    <3>1. receiver[r].next = Len(sizes) + 1
          /\ \A k \in Params : k < receiver[r].next => k \in loaded[r]
      BY <2>3 DEF IInv, CollectiveInv
    <3>2. \A k \in Params : k < Len(sizes) + 1
      BY ListFacts
    <3> QED
      BY <2>1, <3>1, <3>2
  <2> QED
    BY <2>2, <2>3, PairFacts
<1> QED
  BY <1>1, Invariance, PTL
=============================================================================
