-------------------------- MODULE AsyncGeneration --------------------------
(***************************************************************************)
(* VllmGeneration._async_generate_base: a call streams its results from a  *)
(* vLLM worker through two tasks of one event loop, a consumer of the      *)
(* worker's generator, which fills a queue, and the caller, which empties  *)
(* it.  The caller stops when the shared flag `finished` is set, and then  *)
(* leaves in the queue what it holds, so whether results are lost hangs on *)
(* the order in which the loop runs its tasks.                             *)
(*                                                                         *)
(* The loop is asyncio's: tasks run one at a time, from one suspension to  *)
(* the next, in the order in which they became ready; workers and clocks   *)
(* make tasks ready from outside.                                          *)
(***************************************************************************)
EXTENDS Integers, Sequences, SequencesExt

CONSTANT Calls      \* one for each concurrent call

VARIABLES
    ready,  \* the loop's queue of tasks that can run
    call,   \* the calls
    faults  \* the calls whose worker has raised, or whose time has run out

\* [x for x in list if x in set], the comprehensions of the code.
Kept(list, set) ==
    LET from[n \in 0..Len(list)] ==
            IF n = 0 THEN <<>>
            ELSE IF list[n] \in set THEN Append(from[n - 1], list[n]) ELSE from[n - 1]
    IN from[Len(list)]

\* prompts: the indices not answered by the worker yet; stream: what its
\* generator holds; queue: result_queue; got: what the caller has taken out.
\* consumer: off, at the generator's next item, at the item's reference, done.
\* caller: off, suspended in the queue's get, to be woken with an item or
\* with a cancellation.
NoCall == [prompts |-> {}, stream |-> <<>>, queue |-> <<>>, got |-> <<>>, finished |-> FALSE,
           consumer |-> "off", caller |-> "off"]

Consumer(c) == [task |-> "consumer", of |-> c]
Caller(c)   == [task |-> "caller", of |-> c]
Timer(c)    == [task |-> "timer", of |-> c]

Sample(i) == [type |-> "sample", of |-> i]
Error     == [type |-> "error", of |-> 0]
Done      == [type |-> "worker_done", of |-> 0]
End       == [type |-> "end", of |-> 0]

\* The call's state once it is made; its consumer task is put on the loop.
NewCall(prompts) == [NoCall EXCEPT !.prompts = prompts, !.consumer = "next", !.caller = "wait"]

-----------------------------------------------------------------------------
(* The worker (generate_async, generate_text_async): it yields results as    *)
(* they complete, ends its stream after the last, or after an error.         *)

\* A consumer suspended at an empty generator is woken.
AfterYield(c) ==
    IF call[c].consumer = "next" /\ call[c].stream = <<>> /\ Consumer(c) \notin ToSet(ready)
    THEN Append(ready, Consumer(c)) ELSE ready

Emit(c, x) ==
    LET k == call[c] IN
    /\ k.caller # "off" /\ End \notin ToSet(k.stream)
    /\ \/ x.type = "sample" /\ x.of \in k.prompts
       \/ x.type = "error" /\ k.prompts # {}
    /\ LET rest  == IF x.type = "sample" THEN k.prompts \ {x.of} ELSE {}
           items == IF x.type = "error" THEN <<x, End>> ELSE <<x>>
       IN call' = [call EXCEPT ![c].prompts = rest, ![c].stream = @ \o items]
    /\ ready' = AfterYield(c)
    /\ faults' = IF x = Error THEN faults \cup {c} ELSE faults

\* The generator ends behind its last result, perhaps after that was taken.
EndStream(c) ==
    LET k == call[c] IN
    /\ k.caller # "off" /\ k.prompts = {} /\ End \notin ToSet(k.stream)
    /\ call' = [call EXCEPT ![c].stream = Append(@, End)]
    /\ ready' = AfterYield(c)
    /\ UNCHANGED faults

\* The value of the item's reference is there.
Resolve(c) ==
    /\ call[c].consumer = "ref" /\ Consumer(c) \notin ToSet(ready)
    /\ ready' = Append(ready, Consumer(c))
    /\ UNCHANGED <<call, faults>>

\* A deadline for the first result only.
BadExpire(c) ==
    /\ call[c].caller \in {"wait", "woken"} /\ Timer(c) \notin ToSet(ready)
    /\ call[c].got = <<>>
    /\ ready' = Append(ready, Timer(c))
    /\ faults' = faults \cup {c}
    /\ UNCHANGED call

\* The caller's wait_for has run out (NRL_VLLM_ASYNC_TIMEOUT_SECONDS).
Expire(c) ==
    /\ call[c].caller \in {"wait", "woken"} /\ Timer(c) \notin ToSet(ready)
    /\ ready' = Append(ready, Timer(c))
    /\ faults' = faults \cup {c}
    /\ UNCHANGED call

-----------------------------------------------------------------------------
(* What the loop runs.  Each operator gives the state of the call and the    *)
(* queue of tasks behind the one that ran.                                   *)

\* Messages put by the consumer wake a caller suspended in get.
Woken(c, k) == k.caller = "wait" /\ k.queue # <<>>

AfterPut(c, k, rest) ==
    IF Woken(c, k) THEN /\ call' = [call EXCEPT ![c] = [k EXCEPT !.caller = "woken"]]
                        /\ ready' = Append(rest, Caller(c))
                   ELSE /\ call' = [call EXCEPT ![c] = k]
                        /\ ready' = rest

\* A consumer that takes all there is without giving way to other tasks.
BadConsumerResumes(k) ==
    LET ended == k.stream # <<>> /\ Last(k.stream) = End
    IN [k EXCEPT !.stream = <<>>, !.finished = ended,
                 !.consumer = IF ended THEN "done" ELSE "next",
                 !.queue = @ \o SelectSeq(k.stream, LAMBDA x : x # End)
                             \o (IF ended THEN <<Done>> ELSE <<>>)]

\* From the generator's next item to the suspension at its reference, or to
\* the end of the stream; the finally clause sets the flag, then reports.
ConsumerResumes(k) ==
    LET take(j) ==
            IF j.stream = <<>> THEN j
            ELSE IF Head(j.stream) = End
            THEN [j EXCEPT !.finished = TRUE, !.consumer = "done", !.queue = Append(@, Done)]
            ELSE [j EXCEPT !.consumer = "ref"]
        x == Head(k.stream)
    IN IF k.consumer = "next" THEN take(k)
       ELSE IF x.type = "error"
       THEN [k EXCEPT !.finished = TRUE, !.consumer = "done", !.queue = @ \o <<Error, Done>>]
       ELSE take([k EXCEPT !.consumer = "next", !.stream = Tail(@), !.queue = Append(@, x)])

RunConsumer(c) ==
    /\ ready # <<>> /\ Head(ready) = Consumer(c)
    /\ IF call[c].caller = "off"   \* cancelled by a caller that gave up
       THEN call' = call /\ ready' = Tail(ready)
       ELSE AfterPut(c, ConsumerResumes(call[c]), Tail(ready))
    /\ UNCHANGED faults

\* The timer cancels the caller: at its wait, or before it is resumed with an
\* item that has come meanwhile.
RunTimer(c) ==
    /\ ready # <<>> /\ Head(ready) = Timer(c)
    /\ LET k == call[c] IN
       CASE k.caller = "wait"  -> /\ call' = [call EXCEPT ![c].caller = "cancelled"]
                                  /\ ready' = Append(Tail(ready), Caller(c))
         [] k.caller = "woken" -> /\ call' = [call EXCEPT ![c].caller = "cancelled"]
                                  /\ ready' = Tail(ready)
         [] OTHER              -> call' = call /\ ready' = Tail(ready)
    /\ UNCHANGED faults

\* The timer of a wait that is over does nothing.
WithoutTimer(c) == Kept(Tail(ready), ToSet(ready) \ {Timer(c)})

\* What a caller does when it is resumed.  It takes a message; if the flag is
\* set it leaves, else it takes what else there is and waits again.
CallerTakes(k) ==
    IF k.caller = "cancelled" \/ Head(k.queue) = Error
    THEN [k EXCEPT !.caller = "raised"]
    ELSE LET samples == Kept(IF k.finished THEN <<Head(k.queue)>> ELSE k.queue,
                             {x \in ToSet(k.queue) : x.type = "sample"})
         IN [k EXCEPT !.got = @ \o samples,
                      !.queue = IF k.finished THEN Tail(@) ELSE <<>>,
                      !.caller = IF k.finished THEN "returned" ELSE "wait"]

\* generate_responses_async and _generate_texts: results in order of index.
InOrder(k) ==
    LET places == DOMAIN k.got
        sorted == CHOOSE p \in [places -> places] :
            \A i, j \in places : i < j => /\ p[i] # p[j]
                                         /\ k.got[p[i]].of <= k.got[p[j]].of
    IN [i \in places |-> k.got[sorted[i]]]
=============================================================================
