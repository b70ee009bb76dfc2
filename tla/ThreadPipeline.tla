---------------------------- MODULE ThreadPipeline ----------------------------
(***************************************************************************)
(* ThreadPipeline.map: a feeder, the worker threads of every stage and the *)
(* generator that yields the outputs, joined by FIFO queues.  Queue k is   *)
(* the input of stage k; the last one is the generator's.  An input is its *)
(* sequence number, a sentinel is 0; stage functions are one in, one out.  *)
(*                                                                         *)
(* `stopped` is one closure cell of map(): the loop over the stages resets *)
(* it before any thread runs, so the workers of all stages count in it.    *)
(***************************************************************************)
EXTENDS Naturals, Sequences, FiniteSets

CONSTANTS Shapes,     \* [workers: Seq(Nat \ {0}), maxsize: Nat, ordered: BOOLEAN]
          NInputs,    \* how many inputs are mapped
          MaxErrors   \* bound: how often the iterable or a stage function raises

ASSUME ShapesAssumption ==
    /\ Shapes \subseteq [workers : Seq(Nat \ {0}), maxsize : Nat, ordered : BOOLEAN]
    /\ \A s \in Shapes : s.workers # <<>>
ASSUME InputsAssumption == NInputs \in Nat /\ MaxErrors \in Nat

VARIABLES
    shape,     \* the stages and the options of this ThreadPipeline; NoShape before map()
    queues,    \* the contents of the queues
    feeder,    \* "checking", "placing", "closing" or "returned"
    fed,       \* inputs put so far
    worker,    \* per thread: where it is, and the number it holds
    stopped,   \* sentinels counted by the workers
    raised,    \* exceptions passed to _set_error
    stop,      \* _stop_event
    consumer,  \* "getting", "emitting", "suspended", "joining", "ended"
    buffer,    \* outputs received and not yielded
    yielded,   \* outputs yielded
    closed     \* the caller closed the generator early

pipelineVars == <<shape, queues, feeder, fed, worker, stopped, raised, stop,
                  consumer, buffer, yielded, closed>>

Sentinel == 0
Inputs == 1 .. NInputs
NoShape == [workers |-> <<>>, maxsize |-> 0, ordered |-> FALSE]
Started == shape # NoShape

ThreadsOf(s) == UNION {{k} \X (1 .. s.workers[k]) : k \in DOMAIN s.workers}
Threads == ThreadsOf(shape)
AllThreads == UNION {ThreadsOf(s) : s \in Shapes}
WorkerPoints == {"getting", "counting", "again", "forward", "running", "calling", "putting",
           "wakeIn", "wakeOut", "returned"}
Alive(t) == worker[t].at # "returned"

PipelineType ==
    /\ shape \in Shapes \cup {NoShape}
    /\ feeder \in {"checking", "placing", "closing", "returned"}
    /\ fed \in 0 .. NInputs /\ stopped \in Nat /\ raised \in 0 .. MaxErrors
    /\ stop = (raised > 0)
    /\ consumer \in {"getting", "emitting", "suspended", "joining", "ended"}
    /\ closed \in BOOLEAN
    /\ buffer \subseteq Inputs /\ yielded \in Seq(Inputs)
    /\ Started =>
        /\ queues \in [1 .. Len(shape.workers) + 1 -> Seq(Inputs \cup {Sentinel})]
        /\ worker \in [Threads -> [at : WorkerPoints, item : Inputs \cup {Sentinel}]]
        /\ shape.maxsize > 0 => \A k \in DOMAIN queues : Len(queues[k]) <= shape.maxsize

PipelineInit ==
    /\ shape = NoShape /\ queues = <<>> /\ worker = <<>>
    /\ feeder = "checking" /\ fed = 0 /\ stopped = 0 /\ raised = 0 /\ stop = FALSE
    /\ consumer = "getting" /\ buffer = {} /\ yielded = <<>> /\ closed = FALSE

\* map(): the queues and the threads, all started.
Map ==
    /\ ~Started
    /\ shape' \in Shapes
    /\ queues' = [k \in 1 .. Len(shape'.workers) + 1 |-> <<>>]
    /\ worker' = [t \in Threads' |-> [at |-> "getting", item |-> Sentinel]]
    /\ UNCHANGED <<feeder, fed, stopped, raised, stop, consumer, buffer, yielded, closed>>

----------------------------------------------------------------------------
(* queue.Queue. *)

Full(k) == shape.maxsize > 0 /\ Len(queues[k]) >= shape.maxsize

\* Mutant: a put that does not wait for room.
PutAnyway(k, x) == queues' = [queues EXCEPT ![k] = Append(@, x)]

Put(k, x) == ~Full(k) /\ queues' = [queues EXCEPT ![k] = Append(@, x)]

PutNowait(k, x) ==
    queues' = IF Full(k) THEN queues ELSE [queues EXCEPT ![k] = Append(@, x)]

Get(k) == queues[k] # <<>> /\ queues' = [queues EXCEPT ![k] = Tail(@)]

\* _set_error: the first exception sets the event.
SetError ==
    /\ raised < MaxErrors
    /\ raised' = raised + 1 /\ stop' = TRUE

----------------------------------------------------------------------------
(* The feeder. *)

FeederStep == UNCHANGED <<shape, worker, stopped, consumer, buffer, yielded, closed>>

FeedCheck ==
    /\ feeder = "checking"
    /\ feeder' = IF fed = NInputs \/ stop THEN "closing" ELSE "placing"
    /\ FeederStep /\ UNCHANGED <<queues, fed, raised, stop>>

FeedRaises ==
    /\ feeder = "checking" /\ fed < NInputs
    /\ SetError /\ feeder' = "closing"
    /\ FeederStep /\ UNCHANGED <<queues, fed>>

FeedPut ==
    /\ feeder = "placing"
    /\ Put(1, fed + 1) /\ fed' = fed + 1
    /\ feeder' = "checking"
    /\ FeederStep /\ UNCHANGED <<raised, stop>>

FeedClose ==
    /\ feeder = "closing"
    /\ Put(1, Sentinel)
    /\ feeder' = "returned"
    /\ FeederStep /\ UNCHANGED <<fed, raised, stop>>

Feed == Started /\ (FeedCheck \/ FeedRaises \/ FeedPut \/ FeedClose)

----------------------------------------------------------------------------
(* A worker thread t = <<stage, number>>. *)

MoveTo(t, at) == worker' = [worker EXCEPT ![t].at = at]

WorkerStep == UNCHANGED <<shape, feeder, fed, consumer, buffer, yielded, closed>>

WorkGet(t) ==
    /\ worker[t].at = "getting"
    /\ Get(t[1])
    /\ LET x == Head(queues[t[1]])
       IN  worker' = [worker EXCEPT ![t] =
                        [at |-> IF x = Sentinel THEN "counting" ELSE "running", item |-> x]]
    /\ WorkerStep /\ UNCHANGED <<stopped, raised, stop>>

\* Mutant: no worker takes itself for the last.
IsLastNever(t) == stopped + 1 = shape.workers[t[1]] + 1

IsLast(t) == stopped + 1 = shape.workers[t[1]]

\* Under stopped_lock.
WorkCount(t) ==
    /\ worker[t].at = "counting"
    /\ stopped' = stopped + 1
    /\ MoveTo(t, IF IsLast(t) THEN "forward" ELSE "again")
    /\ WorkerStep /\ UNCHANGED <<queues, raised, stop>>

WorkPass(t) ==
    /\ \/ worker[t].at = "again" /\ Put(t[1], Sentinel)
       \/ worker[t].at = "forward" /\ Put(t[1] + 1, Sentinel)
    /\ MoveTo(t, "returned")
    /\ WorkerStep /\ UNCHANGED <<stopped, raised, stop>>

\* After the stop an item is dropped; a call that has begun goes on.
WorkChecks(t) ==
    /\ worker[t].at = "running"
    /\ MoveTo(t, IF stop THEN "getting" ELSE "calling")
    /\ WorkerStep /\ UNCHANGED <<queues, stopped, raised, stop>>

WorkReturns(t) ==
    /\ worker[t].at = "calling"
    /\ MoveTo(t, "putting")
    /\ WorkerStep /\ UNCHANGED <<queues, stopped, raised, stop>>

WorkRaises(t) ==
    /\ worker[t].at = "calling"
    /\ SetError /\ MoveTo(t, "wakeIn")
    /\ WorkerStep /\ UNCHANGED <<queues, stopped>>

WorkWake(t) ==
    /\ \/ worker[t].at = "wakeIn" /\ PutNowait(t[1], Sentinel) /\ MoveTo(t, "wakeOut")
       \/ worker[t].at = "wakeOut" /\ PutNowait(t[1] + 1, Sentinel) /\ MoveTo(t, "returned")
    /\ WorkerStep /\ UNCHANGED <<stopped, raised, stop>>

WorkPut(t) ==
    /\ worker[t].at = "putting"
    /\ Put(t[1] + 1, worker[t].item)
    /\ MoveTo(t, "getting")
    /\ WorkerStep /\ UNCHANGED <<stopped, raised, stop>>

Work(t) ==
    \/ WorkGet(t) \/ WorkCount(t) \/ WorkPass(t) \/ WorkChecks(t)
    \/ WorkReturns(t) \/ WorkRaises(t) \/ WorkWake(t) \/ WorkPut(t)

----------------------------------------------------------------------------
(* output_iter, driven by the caller. *)

ConsumerStep == UNCHANGED <<shape, feeder, fed, worker, stopped, raised, stop>>

Receive ==
    /\ consumer = "getting"
    /\ LET k == Len(queues)
           x == Head(queues[k])
       IN  /\ Get(k)
           /\ IF x = Sentinel THEN consumer' = "joining" /\ UNCHANGED buffer
                              ELSE consumer' = "emitting" /\ buffer' = buffer \cup {x}
    /\ ConsumerStep /\ UNCHANGED <<yielded, closed>>

\* Mutant: the buffered outputs leave as they come.
DueUnordered == buffer

\* What is yielded next: in order from the buffer, or what has just come.
Due == IF shape.ordered THEN buffer \cap {Len(yielded) + 1} ELSE buffer

Emit ==
    /\ consumer = "emitting"
    /\ \E x \in Due : yielded' = Append(yielded, x) /\ buffer' = buffer \ {x}
    /\ consumer' = "suspended"
    /\ ConsumerStep /\ UNCHANGED <<queues, closed>>

ResumeMap ==
    /\ consumer = "suspended" \/ (consumer = "emitting" /\ Due = {})
    /\ consumer' = IF Due = {} THEN "getting" ELSE "emitting"
    /\ ConsumerStep /\ UNCHANGED <<queues, buffer, yielded, closed>>

\* The caller drops the generator at a yield: its `finally` joins the threads.
CloseMap ==
    /\ consumer = "suspended"
    /\ closed' = TRUE /\ consumer' = "joining"
    /\ ConsumerStep /\ UNCHANGED <<queues, buffer, yielded>>

JoinThreads ==
    /\ consumer = "joining"
    /\ feeder = "returned" /\ \A t \in Threads : ~Alive(t)
    /\ consumer' = "ended"
    /\ ConsumerStep /\ UNCHANGED <<queues, buffer, yielded, closed>>

Consume == Started /\ (Receive \/ Emit \/ ResumeMap \/ CloseMap \/ JoinThreads)

----------------------------------------------------------------------------

PipelineNext == Map \/ Feed \/ Consume \/ (Started /\ \E t \in Threads : Work(t))

\* What runs by itself: nobody has to raise, or to close the generator.
FeederRuns == Started /\ (FeedCheck \/ FeedPut \/ FeedClose)
ConsumerRuns == Started /\ (Receive \/ Emit \/ ResumeMap \/ JoinThreads)
ThreadRuns(t) ==
    /\ Started /\ t \in Threads
    /\ \/ WorkGet(t) \/ WorkCount(t) \/ WorkPass(t) \/ WorkChecks(t)
       \/ WorkReturns(t) \/ WorkWake(t) \/ WorkPut(t)

\* The threads run and the caller goes on iterating.
PipelineFairness ==
    /\ WF_pipelineVars(Map) /\ WF_pipelineVars(FeederRuns) /\ WF_pipelineVars(ConsumerRuns)
    /\ \A t \in AllThreads : WF_pipelineVars(ThreadRuns(t))

PipelineSpec == PipelineInit /\ [][PipelineNext]_pipelineVars /\ PipelineFairness

----------------------------------------------------------------------------
(* Properties. *)

\* No output comes twice and, with preserve_order, each comes at its place
\* whatever raised; a generator that ends without error or close has yielded
\* the output of every input (docstring, mt_pipeline.py:40-41).
OutputsWhole ==
    /\ \A i, j \in DOMAIN yielded : yielded[i] = yielded[j] => i = j
    /\ Started /\ shape.ordered => \A i \in DOMAIN yielded : yielded[i] = i
    /\ consumer = "ended" /\ ~stop /\ ~closed => Len(yielded) = NInputs

(* Where a map() may hang on bounded queues, once something raised or the  *)
(* caller closed the generator.                                            *)

\* Nobody of stage k gets from its queue any more.
StageGone(k) == \A t \in Threads : t[1] = k => worker[t].at \in {"again", "returned"}

QueueUnread(k) == IF k = Len(queues) THEN consumer = "joining" ELSE StageGone(k)

\* The threads in put(), or about to be, on queue k.
Putting(k) ==
    \/ k = 1 /\ feeder \in {"placing", "closing"}
    \/ \E t \in Threads : \/ t[1] = k /\ worker[t].at = "again"
                          \/ t[1] + 1 = k /\ worker[t].at \in {"forward", "putting"}

\* A put() that never returns, or a generator whose sentinel was dropped.
Wedged ==
    /\ Started
    /\ \/ \E k \in DOMAIN queues : Full(k) /\ QueueUnread(k) /\ Putting(k)
       \/ /\ consumer = "getting"
          /\ queues[Len(queues)] = <<>> /\ StageGone(Len(queues) - 1)

\* The generator ends, with all threads joined (mt_pipeline.py:180).
MapEnds == <>(consumer = "ended")
=============================================================================
