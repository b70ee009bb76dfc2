------------------------ MODULE ThreadPipelineProofs ------------------------
(***************************************************************************)
(* ThreadPipeline for every number of stages, workers and inputs.  Every   *)
(* input is in one place; as long as nothing raised, none is lost and      *)
(* there is one sentinel, behind everything else in the queues it decides  *)
(* about.  With one stage it reaches the generator when all workers are    *)
(* done; with more, some workers of the second stage never stop.  After    *)
(* an exception or an early close a pipeline of one stage also goes on to  *)
(* its end, unless a bounded queue is wedged; wedged, it stays so.         *)
(***************************************************************************)
EXTENDS ThreadPipeline, FiniteSetTheorems, SequenceTheorems, TLAPS

(* What the queues, the threads and the caller hold. *)

Contents(q) == {q[i] : i \in DOMAIN q} \ {Sentinel}

\* No input twice in one queue.
Distinct(q) == \A i, j \in DOMAIN q : q[i] = q[j] /\ q[i] # Sentinel => i = j

HasSentinel(q) == \E i \in DOMAIN q : q[i] = Sentinel

\* A single sentinel, behind everything else.
SentinelLast(q) == q # <<>> /\ \A i \in DOMAIN q : q[i] = Sentinel <=> i = Len(q)

\* Not two.
OneSentinel(q) == \A i, j \in DOMAIN q : q[i] = Sentinel /\ q[j] = Sentinel => i = j

HeldBy(t) == IF worker[t].at \in {"running", "calling", "putting"} THEN {worker[t].item} ELSE {}

Outputs == {yielded[i] : i \in DOMAIN yielded}

Places ==
    ({"queue"} \X DOMAIN queues) \cup ({"worker"} \X Threads) \cup {<<"buffer", 0>>, <<"yielded", 0>>}

\* The inputs that are at place p, or whose outputs are.
At(p) ==
    CASE p[1] = "queue" -> Contents(queues[p[2]])
      [] p[1] = "worker" -> HeldBy(p[2])
      [] p[1] = "buffer" -> buffer
      [] OTHER -> Outputs

\* Nothing is at two places, or twice at one.
Exclusive == \A p, q \in Places : p # q => At(p) \cap At(q) = {}

ItemsUnique ==
    /\ Exclusive
    /\ \A k \in DOMAIN queues : Distinct(queues[k])
    /\ \A i, j \in DOMAIN yielded : yielded[i] = yielded[j] => i = j

\* What was fed, and nothing else, is somewhere, until an exception.
ItemsKept ==
    /\ \A p \in Places : At(p) \subseteq 1 .. fed
    /\ ~stop => \A x \in 1 .. fed : \E p \in Places : x \in At(p)

FeederInv ==
    /\ feeder = "placing" => fed < NInputs
    /\ ~stop /\ feeder \in {"closing", "returned"} => fed = NInputs

\* The caller waits for more only when nothing can be yielded.
CallerInv ==
    /\ consumer = "getting" \/ (consumer \in {"joining", "ended"} /\ ~closed) => Due = {}
    /\ shape.ordered => \A i \in DOMAIN yielded : yielded[i] = i
    /\ consumer = "ended" => \A t \in Threads : ~Alive(t)

----------------------------------------------------------------------------
(* The sentinel, as long as nothing raised: there is one. *)

NStages == Len(shape.workers)

Carries(t) == worker[t].at \in {"counting", "again", "forward"}

\* The workers of stage k that are in `stopped`.
Counted(k) ==
    {j \in 1 .. shape.workers[k] : worker[<<k, j>>].at \in {"again", "forward", "returned"}}

Everyone(k) == 1 .. shape.workers[k]

\* It is at stage p: in the queue or with one worker.  Stage 0 is the feeder,
\* NStages + 1 the last queue, NStages + 2 the caller.
SentinelAt(p) ==
    /\ p = 0 <=> feeder # "returned"
    /\ \A k \in DOMAIN queues : k # p => ~HasSentinel(queues[k])
    /\ \A t \in Threads : Carries(t) => t[1] = p /\ ~HasSentinel(queues[p])
    /\ \A t, u \in Threads : Carries(t) /\ Carries(u) => t = u
    /\ \A t \in Threads : worker[t].at \notin {"wakeIn", "wakeOut"}
    /\ p \in DOMAIN queues =>
        /\ OneSentinel(queues[p])
        /\ HasSentinel(queues[p]) \/ \E t \in Threads : Carries(t)
    /\ consumer \in {"joining", "ended"} /\ ~closed => p = NStages + 2
    /\ p = NStages + 2 => consumer \in {"joining", "ended"}

\* The queue of the first stage is empty behind it, and with one stage the
\* last queue as well.
SentinelBehindAll(p) ==
    /\ p = 1 /\ HasSentinel(queues[1]) => SentinelLast(queues[1])
    /\ p = 1 /\ ~HasSentinel(queues[1]) => queues[1] = <<>>
    /\ p > 1 => queues[1] = <<>>
    /\ NStages = 1 /\ p = 2 => SentinelLast(queues[2])
    /\ NStages = 1 /\ p > 2 => queues[2] = <<>>

\* `stopped` is right for the first stage, and only for that.
CountInv(p) ==
    /\ \A k \in 1 .. NStages : k > p => Counted(k) = {}
    /\ p <= 1 => stopped = Cardinality(Counted(1))
    /\ p = 1 => \A t \in Threads : worker[t].at = "forward" => Counted(1) = Everyone(1)
    /\ p = 1 /\ (\A t \in Threads : worker[t].at # "forward") => Counted(1) # Everyone(1)
    /\ p > 1 => Counted(1) = Everyone(1)
    /\ p = 2 /\ NStages > 1 =>
        /\ stopped = shape.workers[1] + Cardinality(Counted(2))
        /\ \A t \in Threads : worker[t].at = "forward" => Counted(2) # Everyone(2)
    /\ p > 2 /\ NStages > 1 => Counted(2) # Everyone(2)

SentinelInv ==
    ~stop => \E p \in 0 .. NStages + 2 : SentinelAt(p) /\ SentinelBehindAll(p) /\ CountInv(p)

PipelineInv ==
    /\ PipelineType
    /\ IF Started
       THEN ItemsUnique /\ ItemsKept /\ FeederInv /\ CallerInv /\ SentinelInv
       ELSE PipelineInit

\* A generator of several stages, with no error and no close, has not ended.
SeveralStagesNeverEnd ==
    NStages > 1 /\ ~stop /\ ~closed => consumer # "ended"

(* The end of a map() of one stage, whatever raised or was closed. *)

PastItems == {"again", "forward", "returned", "wakeIn", "wakeOut"}

\* The workers of the stage that take no more.
Past == {j \in Everyone(1) : worker[<<1, j>>].at \in PastItems}

\* Who raised is not in `stopped`.  The feeder's sentinel stays with the workers
\* until all of them have seen it or raised, and on unbounded queues the last of
\* them does not go without a sentinel for the generator.
ShutdownInv ==
    Started /\ NStages = 1 =>
        /\ stopped <= Cardinality(Past)
        /\ feeder = "returned" /\ Past # Everyone(1) =>
            HasSentinel(queues[1]) \/ \E t \in Threads : worker[t].at \in {"counting", "again"}
        /\ shape.maxsize = 0 =>
            \/ HasSentinel(queues[2]) \/ consumer \in {"joining", "ended"}
            \/ \E t \in Threads : worker[t].at \in {"forward", "wakeIn", "wakeOut"}
            \/ stopped = Cardinality(Past) /\ stopped < shape.workers[1]

\* Some action of FeederRuns, ConsumerRuns or ThreadRuns has its guard.
SomeoneGoesOn ==
    \/ feeder = "checking" \/ (feeder \in {"placing", "closing"} /\ ~Full(1))
    \/ consumer \in {"emitting", "suspended"}
    \/ consumer = "getting" /\ queues[Len(queues)] # <<>>
    \/ consumer = "joining" /\ feeder = "returned" /\ \A t \in Threads : ~Alive(t)
    \/ \E t \in Threads :
        \/ worker[t].at \in {"counting", "running", "calling", "wakeIn", "wakeOut"}
        \/ worker[t].at = "getting" /\ queues[t[1]] # <<>>
        \/ worker[t].at = "again" /\ ~Full(t[1])
        \/ worker[t].at \in {"forward", "putting"} /\ ~Full(t[1] + 1)

\* One stage: it goes on until it ends or is wedged, which takes bounded queues
\* and an exception or a close.
OneStageGoesOn ==
    Started /\ NStages = 1 =>
        /\ consumer = "ended" \/ SomeoneGoesOn \/ Wedged
        /\ Wedged => shape.maxsize > 0 /\ (stop \/ closed)

----------------------------------------------------------------------------
(* The queues and the threads. *)

LEMMA QueueTail ==
    ASSUME NEW S, NEW q \in Seq(S), q # <<>>
    PROVE  /\ Tail(q) \in Seq(S) /\ Len(Tail(q)) = Len(q) - 1 /\ Head(q) = q[1] /\ Head(q) \in S
           /\ Len(q) \in Nat \ {0} /\ DOMAIN q = 1 .. Len(q)
           /\ DOMAIN Tail(q) = 1 .. Len(q) - 1
           /\ \A i \in 1 .. Len(q) - 1 : Tail(q)[i] = q[i + 1]
OBVIOUS

LEMMA QueueAppend ==
    ASSUME NEW S, NEW q \in Seq(S), NEW x \in S
    PROVE  /\ Append(q, x) \in Seq(S) /\ Len(Append(q, x)) = Len(q) + 1
           /\ DOMAIN Append(q, x) = 1 .. Len(q) + 1 /\ DOMAIN q = 1 .. Len(q) /\ Len(q) \in Nat
           /\ \A i \in 1 .. Len(q) : Append(q, x)[i] = q[i]
           /\ Append(q, x)[Len(q) + 1] = x
OBVIOUS

\* Getting takes the head out of a queue, putting adds to it.
LEMMA GetContents ==
    ASSUME NEW q \in Seq(Inputs \cup {Sentinel}), q # <<>>, Distinct(q)
    PROVE  Contents(Tail(q)) = Contents(q) \ {Head(q)} /\ Distinct(Tail(q))
<1> DEFINE n == Len(q)
<1>1. /\ n \in Nat \ {0} /\ DOMAIN q = 1 .. n /\ DOMAIN Tail(q) = 1 .. n - 1 /\ Head(q) = q[1]
      /\ \A i \in 1 .. n - 1 : Tail(q)[i] = q[i + 1]
  BY QueueTail
<1> HIDE DEF n
<1>2. ASSUME NEW x \in Contents(Tail(q)) PROVE x \in Contents(q) /\ x # Head(q)
  <2>1. PICK i \in 1 .. n - 1 : x = q[i + 1] /\ x # Sentinel
    BY <1>1 DEF Contents
  <2>2. i + 1 \in 1 .. n /\ i + 1 # 1
    BY <1>1
  <2> QED BY <1>1, <2>1, <2>2 DEF Contents, Distinct
<1>3. ASSUME NEW x \in Contents(q), x # Head(q) PROVE x \in Contents(Tail(q))
  <2>1. PICK i \in 1 .. n : x = q[i] /\ x # Sentinel
    BY <1>1 DEF Contents
  <2>2. i - 1 \in 1 .. n - 1 /\ (i - 1) + 1 = i
    BY <1>1, <1>3, <2>1
  <2> QED BY <1>1, <2>1, <2>2 DEF Contents
<1>4. Distinct(Tail(q))
  <2> SUFFICES ASSUME NEW i \in 1 .. n - 1, NEW j \in 1 .. n - 1, q[i + 1] = q[j + 1],
                      q[i + 1] # Sentinel
               PROVE  i = j
    BY <1>1 DEF Distinct
  <2>1. i + 1 \in 1 .. n /\ j + 1 \in 1 .. n
    BY <1>1
  <2>2. i + 1 = j + 1
    BY <1>1, <2>1 DEF Distinct
  <2> QED BY <2>2
<1> QED BY <1>2, <1>3, <1>4

LEMMA PutContents ==
    ASSUME NEW q \in Seq(Inputs \cup {Sentinel}), NEW x \in Inputs \cup {Sentinel},
           Distinct(q), x \notin Contents(q)
    PROVE  Contents(Append(q, x)) = Contents(q) \cup ({x} \ {Sentinel}) /\ Distinct(Append(q, x))
<1> DEFINE n == Len(q)
           r == Append(q, x)
<1>1. /\ n \in Nat /\ DOMAIN q = 1 .. n /\ DOMAIN r = 1 .. n + 1 /\ r[n + 1] = x
      /\ \A i \in 1 .. n : r[i] = q[i]
  BY QueueAppend
<1> HIDE DEF n, r
<1>2. ASSUME NEW y PROVE (\E i \in 1 .. n + 1 : y = r[i]) <=> (\E i \in 1 .. n : y = q[i]) \/ y = x
  <2>1. ASSUME NEW i \in 1 .. n + 1, y = r[i] PROVE (\E j \in 1 .. n : y = q[j]) \/ y = x
    <3>1. i \in 1 .. n \/ i = n + 1
      BY <1>1
    <3> QED BY <1>1, <2>1, <3>1
  <2>2. ASSUME NEW i \in 1 .. n, y = q[i] PROVE \E j \in 1 .. n + 1 : y = r[j]
    <3>1. i \in 1 .. n + 1
      BY <1>1
    <3> QED BY <1>1, <2>2, <3>1
  <2>3. n + 1 \in 1 .. n + 1
    BY <1>1
  <2> QED BY <1>1, <2>1, <2>2, <2>3
<1>3. Contents(r) = Contents(q) \cup ({x} \ {Sentinel})
  BY <1>1, <1>2 DEF Contents
<1>4. Distinct(r)
  <2> SUFFICES ASSUME NEW i \in 1 .. n + 1, NEW j \in 1 .. n + 1, r[i] = r[j], r[i] # Sentinel
               PROVE  i = j
    BY <1>1 DEF Distinct
  <2>1. \A k \in 1 .. n : r[k] # Sentinel => r[k] # x
    BY <1>1 DEF Contents
  <2>2. (i \in 1 .. n \/ i = n + 1) /\ (j \in 1 .. n \/ j = n + 1)
    BY <1>1
  <2> QED BY <1>1, <2>1, <2>2 DEF Distinct
<1> QED BY <1>3, <1>4 DEF r

LEMMA ThreadIs ==
    /\ \A t \in Threads : /\ t = <<t[1], t[2]>>
                          /\ t[1] \in DOMAIN shape.workers
                          /\ t[2] \in 1 .. shape.workers[t[1]]
    /\ \A k \in DOMAIN shape.workers : \A j \in 1 .. shape.workers[k] : <<k, j>> \in Threads
BY DEF Threads, ThreadsOf

\* Of a running map().
LEMMA ShapeIs ==
    ASSUME PipelineType, Started
    PROVE  /\ shape.workers \in Seq(Nat \ {0}) /\ NStages \in Nat \ {0}
           /\ DOMAIN shape.workers = 1 .. NStages
           /\ shape.maxsize \in Nat /\ shape.ordered \in BOOLEAN
           /\ DOMAIN queues = 1 .. NStages + 1 /\ Len(queues) = NStages + 1
           /\ \A k \in 1 .. NStages + 1 : queues[k] \in Seq(Inputs \cup {Sentinel})
           /\ \A k \in 1 .. NStages : shape.workers[k] \in Nat \ {0}
           /\ \A t \in Threads : t[1] \in 1 .. NStages
<1>1. shape \in [workers : Seq(Nat \ {0}), maxsize : Nat, ordered : BOOLEAN] /\ shape.workers # <<>>
  BY ShapesAssumption DEF PipelineType, Started
<1>2. NStages \in Nat \ {0} /\ DOMAIN shape.workers = 1 .. NStages
  BY <1>1 DEF NStages
<1>3. queues \in [1 .. NStages + 1 -> Seq(Inputs \cup {Sentinel})]
  BY DEF PipelineType, NStages
<1>4. queues \in Seq(Seq(Inputs \cup {Sentinel})) /\ Len(queues) = NStages + 1
  BY <1>2, <1>3
<1> QED BY <1>1, <1>2, <1>3, <1>4, ThreadIs

----------------------------------------------------------------------------
(* Types. *)

\* A put keeps to the bound of the queue; a get and a put keep its type.
LEMMA QueueTypes ==
    ASSUME PipelineType, Started, shape' = shape,
           NEW k \in DOMAIN queues, NEW q \in Seq(Inputs \cup {Sentinel}),
           shape.maxsize > 0 => Len(q) <= shape.maxsize,
           queues' = [queues EXCEPT ![k] = q]
    PROVE  /\ queues' \in [1 .. Len(shape.workers) + 1 -> Seq(Inputs \cup {Sentinel})]
           /\ shape.maxsize > 0 => \A l \in DOMAIN queues' : Len(queues'[l]) <= shape.maxsize
BY DEF PipelineType

LEMMA PutTypes ==
    ASSUME PipelineType, Started, shape' = shape, NEW k \in DOMAIN queues,
           NEW x \in Inputs \cup {Sentinel}, Put(k, x) \/ PutNowait(k, x)
    PROVE  /\ queues' \in [1 .. Len(shape.workers) + 1 -> Seq(Inputs \cup {Sentinel})]
           /\ shape.maxsize > 0 => \A l \in DOMAIN queues' : Len(queues'[l]) <= shape.maxsize
<1>1. queues[k] \in Seq(Inputs \cup {Sentinel}) /\ shape.maxsize \in Nat
  BY ShapeIs
<1>2. CASE Full(k) /\ queues' = queues
  BY <1>2 DEF PipelineType
<1>3. CASE ~Full(k) /\ queues' = [queues EXCEPT ![k] = Append(@, x)]
  <2>1. Append(queues[k], x) \in Seq(Inputs \cup {Sentinel})
        /\ Len(Append(queues[k], x)) = Len(queues[k]) + 1 /\ Len(queues[k]) \in Nat
    BY <1>1, QueueAppend
  <2>2. shape.maxsize > 0 => Len(queues[k]) + 1 <= shape.maxsize
    BY <1>1, <1>3, <2>1 DEF Full
  <2>3. queues' = [queues EXCEPT ![k] = Append(queues[k], x)]
    BY <1>3
  <2> QED BY <2>1, <2>2, <2>3, QueueTypes
<1> QED BY <1>2, <1>3 DEF Put, PutNowait

LEMMA GetTypes ==
    ASSUME PipelineType, Started, shape' = shape, NEW k \in DOMAIN queues, Get(k)
    PROVE  /\ queues' \in [1 .. Len(shape.workers) + 1 -> Seq(Inputs \cup {Sentinel})]
           /\ shape.maxsize > 0 => \A l \in DOMAIN queues' : Len(queues'[l]) <= shape.maxsize
           /\ Head(queues[k]) \in Inputs \cup {Sentinel}
<1>1. queues[k] \in Seq(Inputs \cup {Sentinel}) /\ queues[k] # <<>> /\ shape.maxsize \in Nat
  BY ShapeIs DEF Get
<1>2. /\ Tail(queues[k]) \in Seq(Inputs \cup {Sentinel}) /\ Len(Tail(queues[k])) = Len(queues[k]) - 1
      /\ Len(queues[k]) \in Nat /\ Head(queues[k]) \in Inputs \cup {Sentinel}
  BY <1>1, QueueTail
<1>3. shape.maxsize > 0 => Len(queues[k]) <= shape.maxsize
  BY DEF PipelineType
<1>4. queues' = [queues EXCEPT ![k] = Tail(queues[k])]
  BY DEF Get
<1>5. shape.maxsize > 0 => Len(Tail(queues[k])) <= shape.maxsize
  BY <1>1, <1>2, <1>3
<1> QED BY <1>1, <1>2, <1>4, <1>5, QueueTypes

\* The threads of the pipeline are those of the shape.
LEMMA WorkerTypes ==
    ASSUME PipelineType, Started, shape' = shape, NEW t \in Threads,
           NEW at \in WorkerPoints, NEW x \in Inputs \cup {Sentinel},
           worker' = [worker EXCEPT ![t] = [at |-> at, item |-> x]]
    PROVE  worker' \in [Threads' -> [at : WorkerPoints, item : Inputs \cup {Sentinel}]]
BY DEF PipelineType, Threads

LEMMA MoveToIs ==
    ASSUME PipelineType, Started, NEW t \in Threads, NEW at, MoveTo(t, at)
    PROVE  /\ worker' = [worker EXCEPT ![t] = [at |-> at, item |-> worker[t].item]]
           /\ worker[t].item \in Inputs \cup {Sentinel}
           /\ worker'[t] = [at |-> at, item |-> worker[t].item]
           /\ DOMAIN worker' = Threads /\ \A u \in Threads : u # t => worker'[u] = worker[u]
<1>1. worker \in [Threads -> [at : WorkerPoints, item : Inputs \cup {Sentinel}]]
  BY DEF PipelineType
<1>2. worker' = [worker EXCEPT ![t] = [worker[t] EXCEPT !.at = at]]
  BY <1>1 DEF MoveTo
<1>3. [worker[t] EXCEPT !.at = at] = [at |-> at, item |-> worker[t].item]
  BY <1>1
<1> QED BY <1>1, <1>2, <1>3

LEMMA MapTypes == ASSUME PipelineType, Map PROVE PipelineType'
<1>1. /\ shape' \in Shapes
      /\ queues' = [k \in 1 .. Len(shape'.workers) + 1 |-> <<>>]
      /\ worker' = [t \in Threads' |-> [at |-> "getting", item |-> Sentinel]]
      /\ UNCHANGED <<feeder, fed, stopped, raised, stop, consumer, buffer, yielded, closed>>
  BY DEF Map
<1>2. queues' \in [1 .. Len(shape'.workers) + 1 -> Seq(Inputs \cup {Sentinel})]
      /\ \A k \in DOMAIN queues' : Len(queues'[k]) = 0
  BY <1>1
<1>3. worker' \in [Threads' -> [at : WorkerPoints, item : Inputs \cup {Sentinel}]]
  BY <1>1 DEF WorkerPoints
<1>4. shape'.maxsize \in Nat
  BY <1>1, ShapesAssumption
<1> QED BY <1>1, <1>2, <1>3, <1>4 DEF PipelineType

LEMMA FeedTypes == ASSUME PipelineType, FeederInv, Feed PROVE PipelineType'
<1>1. Started /\ shape' = shape /\ 1 \in DOMAIN queues /\ Started'
  BY ShapeIs DEF Feed, FeedCheck, FeedRaises, FeedPut, FeedClose, FeederStep, Started
<1> USE InputsAssumption DEF FeederStep, Threads
<1>2. CASE FeedCheck
  BY <1>1, <1>2 DEF FeedCheck, PipelineType
<1>3. CASE FeedRaises
  <2>1. raised' \in 0 .. MaxErrors /\ raised' > 0 /\ stop' = TRUE
    BY <1>3 DEF FeedRaises, SetError, PipelineType
  <2>2. stop' = (raised' > 0)
    BY <2>1
  <2> QED BY <1>1, <1>3, <2>1, <2>2 DEF FeedRaises, PipelineType
<1>4. CASE FeedPut
  <2>1. fed + 1 \in Inputs /\ Put(1, fed + 1)
    BY <1>4 DEF FeedPut, FeederInv, PipelineType, Inputs
  <2>2. fed' \in 0 .. NInputs
    BY <1>4, <2>1 DEF FeedPut, Inputs, PipelineType
  <2>3. /\ queues' \in [1 .. Len(shape.workers) + 1 -> Seq(Inputs \cup {Sentinel})]
        /\ shape.maxsize > 0 => \A l \in DOMAIN queues' : Len(queues'[l]) <= shape.maxsize
    BY <1>1, <2>1, PutTypes
  <2> QED BY <1>1, <1>4, <2>2, <2>3 DEF FeedPut, PipelineType
<1>5. CASE FeedClose
  BY <1>1, <1>5, PutTypes DEF FeedClose, PipelineType
<1> QED BY <1>2, <1>3, <1>4, <1>5 DEF Feed

LEMMA WorkTypes == ASSUME PipelineType, Started, NEW t \in Threads, Work(t) PROVE PipelineType'
<1>1. shape' = shape /\ Started' /\ {t[1], t[1] + 1} \subseteq DOMAIN queues
  BY ShapeIs DEF Work, WorkGet, WorkCount, WorkPass, WorkChecks, WorkReturns, WorkRaises, WorkWake,
                 WorkPut,
                 WorkerStep, Started
<1> USE InputsAssumption DEF WorkerStep
<1>3. CASE WorkGet(t)
  <2>1. Get(t[1]) /\ Head(queues[t[1]]) \in Inputs \cup {Sentinel}
    BY <1>1, <1>3, GetTypes DEF WorkGet
  <2>2. worker' \in [Threads' -> [at : WorkerPoints, item : Inputs \cup {Sentinel}]]
    <3> DEFINE x == Head(queues[t[1]])
    <3>1. worker' = [worker EXCEPT ![t] =
                        [at |-> IF x = Sentinel THEN "counting" ELSE "running", item |-> x]]
      BY <1>3 DEF WorkGet
    <3> QED BY <1>1, <2>1, <3>1, WorkerTypes DEF WorkerPoints
  <2> QED BY <1>1, <1>3, <2>1, <2>2, GetTypes DEF WorkGet, PipelineType
<1>4. CASE WorkCount(t) \/ WorkChecks(t) \/ WorkReturns(t) \/ WorkRaises(t)
  <2>1. PICK at \in WorkerPoints : MoveTo(t, at)
    BY <1>4 DEF WorkCount, WorkChecks, WorkReturns, WorkRaises, WorkerPoints
  <2>2. worker' \in [Threads' -> [at : WorkerPoints, item : Inputs \cup {Sentinel}]]
    <3>1. /\ worker[t].item \in Inputs \cup {Sentinel}
          /\ worker' = [worker EXCEPT ![t] = [at |-> at, item |-> worker[t].item]]
      BY <2>1, MoveToIs
    <3> QED BY <1>1, <3>1, WorkerTypes
  <2>3. queues' = queues
    BY <1>4 DEF WorkCount, WorkChecks, WorkReturns, WorkRaises
  <2>4. raised' \in 0 .. MaxErrors /\ stop' = (raised' > 0) /\ stopped' \in Nat
    <3>1. CASE WorkRaises(t)
      <4>1. raised' \in 0 .. MaxErrors /\ raised' > 0 /\ stop' = TRUE
        BY <3>1 DEF WorkRaises, SetError, PipelineType
      <4>2. stop' = (raised' > 0)
        BY <4>1
      <4> QED BY <3>1, <4>1, <4>2 DEF WorkRaises, PipelineType
    <3>2. CASE WorkCount(t) \/ WorkChecks(t) \/ WorkReturns(t)
      BY <3>2 DEF WorkCount, WorkChecks, WorkReturns, PipelineType
    <3> QED BY <1>4, <3>1, <3>2
  <2>5. UNCHANGED <<shape, feeder, fed, consumer, buffer, yielded, closed>>
    BY <1>4 DEF WorkCount, WorkChecks, WorkReturns, WorkRaises
  <2> QED BY <1>1, <2>2, <2>3, <2>4, <2>5 DEF PipelineType
<1>5. CASE WorkPass(t) \/ WorkWake(t) \/ WorkPut(t)
  <2>1. PICK at \in WorkerPoints : MoveTo(t, at)
    BY <1>5 DEF WorkPass, WorkWake, WorkPut, WorkerPoints
  <2>2. worker' \in [Threads' -> [at : WorkerPoints, item : Inputs \cup {Sentinel}]]
    <3>1. /\ worker[t].item \in Inputs \cup {Sentinel}
          /\ worker' = [worker EXCEPT ![t] = [at |-> at, item |-> worker[t].item]]
      BY <2>1, MoveToIs
    <3> QED BY <1>1, <3>1, WorkerTypes
  <2>3. \E k \in DOMAIN queues, x \in Inputs \cup {Sentinel} : Put(k, x) \/ PutNowait(k, x)
    BY <1>1, <1>5, <2>1, MoveToIs DEF WorkPass, WorkWake, WorkPut
  <2> QED BY <1>1, <1>5, <2>2, <2>3, PutTypes DEF WorkPass, WorkWake, WorkPut, PipelineType
<1> QED BY <1>3, <1>4, <1>5 DEF Work

LEMMA ConsumeTypes == ASSUME PipelineType, Consume PROVE PipelineType'
<1>1. Started /\ shape' = shape /\ Len(queues) \in DOMAIN queues /\ Started'
  BY ShapeIs DEF Consume, Receive, Emit, ResumeMap, CloseMap, JoinThreads, ConsumerStep, Started
<1> USE DEF ConsumerStep, Threads
<1>2. CASE Receive
  <2>1. Get(Len(queues)) /\ Head(queues[Len(queues)]) \in Inputs \cup {Sentinel}
    BY <1>1, <1>2, GetTypes DEF Receive
  <2> QED BY <1>1, <1>2, <2>1, GetTypes DEF Receive, PipelineType
<1>3. CASE Emit
  <2>1. PICK x \in Due : yielded' = Append(yielded, x) /\ buffer' = buffer \ {x}
    BY <1>3 DEF Emit
  <2>2. x \in Inputs
    BY <2>1 DEF Due, PipelineType
  <2> QED BY <1>1, <1>3, <2>1, <2>2 DEF Emit, PipelineType
<1>4. CASE ResumeMap \/ CloseMap \/ JoinThreads
  BY <1>1, <1>4 DEF ResumeMap, CloseMap, JoinThreads, PipelineType
<1> QED BY <1>2, <1>3, <1>4 DEF Consume

----------------------------------------------------------------------------
(* The inputs. *)

LEMMA PlaceIs ==
    /\ \A k \in DOMAIN queues : <<"queue", k>> \in Places
    /\ \A t \in Threads : <<"worker", t>> \in Places
    /\ <<"buffer", 0>> \in Places /\ <<"yielded", 0>> \in Places
    /\ \A p \in Places : \/ \E k \in DOMAIN queues : p = <<"queue", k>>
                         \/ \E t \in Threads : p = <<"worker", t>>
                         \/ p = <<"buffer", 0>>
                         \/ p = <<"yielded", 0>>
BY DEF Places

\* What a step does to each kind of place says what it does to all.
LEMMA AtKept ==
    ASSUME NEW p \in Places,
           \A k \in DOMAIN queues : p = <<"queue", k>> => Contents(queues[k])' = Contents(queues[k]),
           \A t \in Threads : p = <<"worker", t>> => HeldBy(t)' = HeldBy(t),
           p = <<"buffer", 0>> => buffer' = buffer,
           p = <<"yielded", 0>> => Outputs' = Outputs
    PROVE  At(p)' = At(p)
<1>1. CASE \E k \in DOMAIN queues : p = <<"queue", k>>
  BY <1>1 DEF At
<1>2. CASE \E t \in Threads : p = <<"worker", t>>
  BY <1>2 DEF At
<1>3. CASE p = <<"buffer", 0>> \/ p = <<"yielded", 0>>
  BY <1>3 DEF At
<1> QED BY <1>1, <1>2, <1>3, PlaceIs

\* One input goes from one place to another.
LEMMA Moved ==
    ASSUME Exclusive, ItemsKept, Places' = Places, fed' = fed, stop' = stop,
           NEW src \in Places, NEW dst \in Places, src # dst, NEW x \in At(src),
           At(src)' = At(src) \ {x}, At(dst)' = At(dst) \cup {x},
           \A p \in Places \ {src, dst} : At(p)' = At(p)
    PROVE  Exclusive' /\ ItemsKept'
<1>1. ASSUME NEW p \in Places, NEW q \in Places, p # q, NEW y, y \in At(p)', y \in At(q)'
      PROVE  FALSE
  <2>1. \A r \in Places : y \in At(r)' => \/ y \in At(r) /\ (r = src => y # x)
                                          \/ y = x /\ r = dst
    OBVIOUS
  <2>2. \A r \in Places : x \in At(r) => r = src
    BY DEF Exclusive
  <2> QED BY <1>1, <2>1, <2>2 DEF Exclusive
<1>2. Exclusive'
  BY <1>1 DEF Exclusive
<1>3. \A p \in Places : At(p)' \subseteq 1 .. fed
  BY DEF ItemsKept
<1>4. ASSUME ~stop, NEW y \in 1 .. fed PROVE \E p \in Places : y \in At(p)'
  <2>1. PICK p \in Places : y \in At(p)
    BY <1>4 DEF ItemsKept
  <2>2. y # x => y \in At(p)'
    BY <2>1
  <2> QED BY <2>2
<1> QED BY <1>2, <1>3, <1>4 DEF ItemsKept

LEMMA Stayed ==
    ASSUME Exclusive, ItemsKept, Places' = Places, fed' = fed, stop => stop',
           \A p \in Places : At(p)' = At(p)
    PROVE  Exclusive' /\ ItemsKept'
BY DEF Exclusive, ItemsKept

\* Inputs are only lost after an exception.
LEMMA Dropped ==
    ASSUME Exclusive, ItemsKept, Places' = Places, fed' = fed, stop',
           \A p \in Places : At(p)' \subseteq At(p)
    PROVE  Exclusive' /\ ItemsKept'
BY DEF Exclusive, ItemsKept

LEMMA Fed ==
    ASSUME Exclusive, ItemsKept, Places' = Places, fed \in Nat, fed' = fed + 1, stop' = stop,
           NEW dst \in Places, At(dst)' = At(dst) \cup {fed + 1},
           \A p \in Places \ {dst} : At(p)' = At(p)
    PROVE  Exclusive' /\ ItemsKept'
<1>1. \A p \in Places : fed + 1 \notin At(p)
  BY DEF ItemsKept
<1>2. Exclusive'
  BY <1>1 DEF Exclusive
<1>3. 1 .. fed + 1 = (1 .. fed) \cup {fed + 1}
  OBVIOUS
<1>4. \A p \in Places : At(p)' \subseteq 1 .. fed + 1
  BY <1>3 DEF ItemsKept
<1>5. ASSUME ~stop, NEW y \in 1 .. fed + 1 PROVE \E p \in Places : y \in At(p)'
  BY <1>3, <1>5 DEF ItemsKept
<1> QED BY <1>2, <1>4, <1>5 DEF ItemsKept

\* The effect of a put and a get on what the queues hold.
LEMMA PutHolds ==
    ASSUME PipelineType, Started, ItemsUnique, NEW k \in DOMAIN queues,
           NEW x \in Inputs \cup {Sentinel}, x \notin Contents(queues[k]), Put(k, x)
    PROVE  /\ DOMAIN queues' = DOMAIN queues
           /\ Contents(queues[k])' = Contents(queues[k]) \cup ({x} \ {Sentinel})
           /\ \A l \in DOMAIN queues : l # k => Contents(queues[l])' = Contents(queues[l])
           /\ \A l \in DOMAIN queues' : Distinct(queues[l])'
<1>1. queues' = [queues EXCEPT ![k] = Append(queues[k], x)]
  BY DEF Put
<1>2. queues[k] \in Seq(Inputs \cup {Sentinel}) /\ \A l \in DOMAIN queues : Distinct(queues[l])
  BY ShapeIs DEF ItemsUnique
<1>3. /\ Contents(Append(queues[k], x)) = Contents(queues[k]) \cup ({x} \ {Sentinel})
      /\ Distinct(Append(queues[k], x))
  BY <1>2, PutContents
<1>4. /\ DOMAIN queues' = DOMAIN queues /\ queues'[k] = Append(queues[k], x)
      /\ \A l \in DOMAIN queues : l # k => queues'[l] = queues[l]
  BY <1>1 DEF PipelineType
<1>5. \A l \in DOMAIN queues : Distinct(queues'[l])
  BY <1>2, <1>3, <1>4
<1> QED BY <1>3, <1>4, <1>5 DEF Contents, Distinct

LEMMA PutSentinelHolds ==
    ASSUME PipelineType, Started, ItemsUnique, NEW k \in DOMAIN queues,
           Put(k, Sentinel) \/ PutNowait(k, Sentinel)
    PROVE  /\ DOMAIN queues' = DOMAIN queues
           /\ \A l \in DOMAIN queues : Contents(queues[l])' = Contents(queues[l])
           /\ \A l \in DOMAIN queues' : Distinct(queues[l])'
<1>1. CASE queues' = queues
  BY <1>1 DEF ItemsUnique, Contents, Distinct
<1>2. CASE Put(k, Sentinel)
  <2>1. Sentinel \notin Contents(queues[k])
    BY DEF Contents
  <2> QED BY <1>2, <2>1, PutHolds
<1> QED BY <1>1, <1>2 DEF Put, PutNowait

LEMMA GetHolds ==
    ASSUME PipelineType, Started, ItemsUnique, NEW k \in DOMAIN queues, Get(k)
    PROVE  /\ DOMAIN queues' = DOMAIN queues
           /\ Contents(queues[k])' = Contents(queues[k]) \ {Head(queues[k])}
           /\ Head(queues[k]) # Sentinel => Head(queues[k]) \in Contents(queues[k])
           /\ Head(queues[k]) = Sentinel => Contents(queues[k])' = Contents(queues[k])
           /\ \A l \in DOMAIN queues : l # k => Contents(queues[l])' = Contents(queues[l])
           /\ \A l \in DOMAIN queues' : Distinct(queues[l])'
<1>1. queues' = [queues EXCEPT ![k] = Tail(queues[k])] /\ queues[k] # <<>>
  BY DEF Get
<1>2. queues[k] \in Seq(Inputs \cup {Sentinel}) /\ \A l \in DOMAIN queues : Distinct(queues[l])
  BY ShapeIs DEF ItemsUnique
<1>3. /\ Contents(Tail(queues[k])) = Contents(queues[k]) \ {Head(queues[k])}
      /\ Distinct(Tail(queues[k]))
  BY <1>1, <1>2, GetContents
<1>4. /\ DOMAIN queues' = DOMAIN queues /\ queues'[k] = Tail(queues[k])
      /\ \A l \in DOMAIN queues : l # k => queues'[l] = queues[l]
  BY <1>1 DEF PipelineType
<1>5. \A l \in DOMAIN queues : Distinct(queues'[l])
  BY <1>2, <1>3, <1>4
<1>6. Head(queues[k]) = queues[k][1] /\ 1 \in DOMAIN queues[k]
  BY <1>1, <1>2, QueueTail
<1>7. Head(queues[k]) # Sentinel => Head(queues[k]) \in Contents(queues[k])
  BY <1>6 DEF Contents
<1>8. Contents(queues[k])' = Contents(queues[k]) \ {Head(queues[k])}
  BY <1>3, <1>4 DEF Contents
<1>9. Sentinel \notin Contents(queues[k])
  BY DEF Contents
<1>10. \A l \in DOMAIN queues : l # k => Contents(queues[l])' = Contents(queues[l])
  BY <1>4 DEF Contents
<1>11. \A l \in DOMAIN queues' : Distinct(queues[l])'
  BY <1>4, <1>5 DEF Distinct
<1> QED BY <1>4, <1>7, <1>8, <1>9, <1>10, <1>11

\* Every input is in one place after the feeder's steps.
LEMMA FeedItems ==
    ASSUME PipelineType, Started, ItemsUnique, ItemsKept, FeederInv, Feed
    PROVE  ItemsUnique' /\ ItemsKept'
<1>1. /\ UNCHANGED <<shape, worker, stopped, consumer, buffer, yielded, closed>>
      /\ 1 \in DOMAIN queues
  BY ShapeIs DEF Feed, FeedCheck, FeedRaises, FeedPut, FeedClose, FeederStep
<1>2. Outputs' = Outputs /\ (\A t \in Threads : HeldBy(t)' = HeldBy(t)) /\ Threads' = Threads
      /\ \A i, j \in DOMAIN yielded' : yielded'[i] = yielded'[j] => i = j
  BY <1>1 DEF Outputs, HeldBy, Threads, ItemsUnique
<1>3. CASE FeedCheck \/ FeedRaises
  <2>1. queues' = queues /\ fed' = fed /\ (stop => stop')
    BY <1>3 DEF FeedCheck, FeedRaises, SetError
  <2>2. Places' = Places /\ \A k \in DOMAIN queues : Contents(queues[k])' = Contents(queues[k])
    BY <1>2, <2>1 DEF Places, Contents
  <2>3. \A p \in Places : At(p)' = At(p)
    BY <1>1, <1>2, <2>2, AtKept
  <2>4. Exclusive' /\ ItemsKept'
    BY <2>1, <2>2, <2>3, Stayed DEF ItemsUnique
  <2> QED BY <1>2, <2>1, <2>4 DEF ItemsUnique, Distinct
<1>4. CASE FeedPut
  <2>1. Put(1, fed + 1) /\ fed' = fed + 1 /\ stop' = stop /\ fed \in Nat /\ fed + 1 \in Inputs
    BY <1>4, InputsAssumption DEF FeedPut, FeederInv, PipelineType, Inputs
  <2>2. fed + 1 \notin Contents(queues[1])
    <3>1. At(<<"queue", 1>>) = Contents(queues[1])
      BY DEF At
    <3> QED BY <1>1, <2>1, <3>1, PlaceIs DEF ItemsKept
  <2>3. /\ DOMAIN queues' = DOMAIN queues
        /\ Contents(queues[1])' = Contents(queues[1]) \cup {fed + 1}
        /\ \A l \in DOMAIN queues : l # 1 => Contents(queues[l])' = Contents(queues[l])
        /\ \A l \in DOMAIN queues' : Distinct(queues[l])'
    BY <1>1, <2>1, <2>2, PutHolds DEF Inputs, Sentinel
  <2>4. Places' = Places
    BY <1>2, <2>3 DEF Places
  <2>5. At(<<"queue", 1>>)' = At(<<"queue", 1>>) \cup {fed + 1}
    BY <2>3 DEF At
  <2>6. \A p \in Places \ {<<"queue", 1>>} : At(p)' = At(p)
    BY <1>1, <1>2, <2>3, AtKept
  <2>7. Exclusive' /\ ItemsKept'
    BY <1>1, <2>1, <2>4, <2>5, <2>6, PlaceIs, Fed DEF ItemsUnique
  <2> QED BY <1>2, <2>3, <2>7 DEF ItemsUnique
<1>5. CASE FeedClose
  <2>1. Put(1, Sentinel) /\ fed' = fed /\ stop' = stop
    BY <1>5 DEF FeedClose
  <2>2. /\ DOMAIN queues' = DOMAIN queues
        /\ \A l \in DOMAIN queues : Contents(queues[l])' = Contents(queues[l])
        /\ \A l \in DOMAIN queues' : Distinct(queues[l])'
    BY <1>1, <2>1, PutSentinelHolds
  <2>3. Places' = Places
    BY <1>2, <2>2 DEF Places
  <2>4. \A p \in Places : At(p)' = At(p)
    BY <1>1, <1>2, <2>2, AtKept
  <2>5. Exclusive' /\ ItemsKept'
    BY <2>1, <2>3, <2>4, Stayed DEF ItemsUnique
  <2> QED BY <1>2, <2>2, <2>5 DEF ItemsUnique
<1> QED BY <1>3, <1>4, <1>5 DEF Feed

\* A worker's steps that move no input.
LEMMA QuietWork ==
    ASSUME PipelineType, Started, ItemsUnique, ItemsKept,
           UNCHANGED <<shape, fed, buffer, yielded>>, stop => stop',
           DOMAIN queues' = DOMAIN queues,
           \A l \in DOMAIN queues : Contents(queues[l])' = Contents(queues[l]),
           \A l \in DOMAIN queues' : Distinct(queues[l])',
           \/ \A u \in Threads : HeldBy(u)' = HeldBy(u)
           \/ stop' /\ \A u \in Threads : HeldBy(u)' \subseteq HeldBy(u)
    PROVE  ItemsUnique' /\ ItemsKept'
<1>1. Places' = Places /\ Threads' = Threads /\ Outputs' = Outputs
  BY DEF Places, Threads, Outputs
<1>2. ASSUME \A u \in Threads : HeldBy(u)' = HeldBy(u)
      PROVE  Exclusive' /\ ItemsKept'
  <2>1. \A p \in Places : At(p)' = At(p)
    BY <1>1, <1>2, AtKept
  <2> QED BY <1>1, <2>1, Stayed DEF ItemsUnique
<1>3. ASSUME stop', \A u \in Threads : HeldBy(u)' \subseteq HeldBy(u)
      PROVE  Exclusive' /\ ItemsKept'
  <2>1. \A t \in Threads : At(<<"worker", t>>)' \subseteq At(<<"worker", t>>)
    BY <1>3 DEF At
  <2>2. \A p \in Places : (\A t \in Threads : p # <<"worker", t>>) => At(p)' = At(p)
    BY <1>1, AtKept
  <2>3. \A p \in Places : At(p)' \subseteq At(p)
    BY <2>1, <2>2
  <2> QED BY <1>1, <1>3, <2>3, Dropped DEF ItemsUnique
<1>4. \A i, j \in DOMAIN yielded' : yielded'[i] = yielded'[j] => i = j
  BY DEF ItemsUnique
<1> QED BY <1>2, <1>3, <1>4 DEF ItemsUnique

LEMMA WorkItems ==
    ASSUME PipelineType, Started, ItemsUnique, ItemsKept, NEW t \in Threads, Work(t)
    PROVE  ItemsUnique' /\ ItemsKept'
<1>1. /\ UNCHANGED <<shape, feeder, fed, consumer, buffer, yielded, closed>>
      /\ {t[1], t[1] + 1} \subseteq DOMAIN queues /\ t[1] \in Nat
  BY ShapeIs DEF Work, WorkGet, WorkCount, WorkPass, WorkChecks, WorkReturns, WorkRaises, WorkWake,
                 WorkPut,
                 WorkerStep
<1>2. Outputs' = Outputs /\ Threads' = Threads
      /\ \A i, j \in DOMAIN yielded' : yielded'[i] = yielded'[j] => i = j
  BY <1>1 DEF Outputs, Threads, ItemsUnique
<1>3. worker \in [Threads -> [at : WorkerPoints, item : Inputs \cup {Sentinel}]]
  BY DEF PipelineType
<1>4. CASE WorkGet(t)
  <2> DEFINE k == t[1]
             x == Head(queues[k])
             src == <<"queue", k>>
             dst == <<"worker", t>>
  <2>1. /\ Get(k) /\ stop' = stop /\ worker[t].at = "getting"
        /\ worker' = [worker EXCEPT ![t] =
                        [at |-> IF x = Sentinel THEN "counting" ELSE "running", item |-> x]]
    BY <1>4 DEF WorkGet
  <2>2. HeldBy(t) = {} /\ \A u \in Threads : u # t => HeldBy(u)' = HeldBy(u)
    BY <1>3, <2>1 DEF HeldBy
  <2>3. HeldBy(t)' = IF x = Sentinel THEN {} ELSE {x}
    BY <1>3, <2>1 DEF HeldBy
  <2>4. /\ DOMAIN queues' = DOMAIN queues
        /\ Contents(queues[k])' = Contents(queues[k]) \ {x}
        /\ x # Sentinel => x \in Contents(queues[k])
        /\ x = Sentinel => Contents(queues[k])' = Contents(queues[k])
        /\ \A l \in DOMAIN queues : l # k => Contents(queues[l])' = Contents(queues[l])
        /\ \A l \in DOMAIN queues' : Distinct(queues[l])'
    BY <1>1, <2>1, GetHolds
  <2>5. CASE x = Sentinel
    <3>1. \A u \in Threads : HeldBy(u)' = HeldBy(u)
      BY <2>2, <2>3, <2>5
    <3>2. \A l \in DOMAIN queues : Contents(queues[l])' = Contents(queues[l])
      BY <2>4, <2>5
    <3> QED BY <1>1, <2>1, <2>4, <3>1, <3>2, QuietWork
  <2>6. CASE x # Sentinel
    <3>1. At(src)' = At(src) \ {x} /\ x \in At(src) /\ src # dst /\ src \in Places /\ dst \in Places
      BY <1>1, <2>4, <2>6, PlaceIs DEF At
    <3>2. At(dst)' = At(dst) \cup {x}
      BY <2>2, <2>3, <2>6 DEF At
    <3>3. \A p \in Places \ {src, dst} : At(p)' = At(p)
      BY <1>1, <1>2, <2>2, <2>4, AtKept
    <3>4. Places' = Places
      BY <1>2, <2>4 DEF Places
    <3> HIDE DEF src, dst, x, k
    <3>5. Exclusive' /\ ItemsKept'
      BY <1>1, <2>1, <3>1, <3>2, <3>3, <3>4, Moved DEF ItemsUnique
    <3> QED BY <1>2, <2>4, <3>5 DEF ItemsUnique
  <2> QED BY <2>5, <2>6
<1>5. CASE WorkCount(t) \/ WorkChecks(t) \/ WorkReturns(t) \/ WorkRaises(t)
  <2>1. PICK at : MoveTo(t, at)
    BY <1>5 DEF WorkCount, WorkChecks, WorkReturns, WorkRaises
  <2>2. worker'[t] = [at |-> at, item |-> worker[t].item] /\ DOMAIN worker' = Threads
        /\ \A u \in Threads : u # t => worker'[u] = worker[u]
    BY <2>1, MoveToIs
  <2>3. queues' = queues /\ (stop => stop')
    BY <1>5 DEF WorkCount, WorkChecks, WorkReturns, WorkRaises, SetError
  <2>4. /\ \A l \in DOMAIN queues : Contents(queues[l])' = Contents(queues[l])
        /\ \A l \in DOMAIN queues' : Distinct(queues[l])'
    BY <2>3 DEF Contents, Distinct, ItemsUnique
  <2>5. \A u \in Threads : HeldBy(u)' \subseteq HeldBy(u)
    <3>1. HeldBy(t)' \subseteq HeldBy(t)
      BY <1>3, <1>5, <2>2 DEF WorkCount, WorkChecks, WorkReturns, WorkRaises, HeldBy, MoveTo
    <3> QED BY <2>2, <3>1 DEF HeldBy
  <2>6. stop' \/ \A u \in Threads : HeldBy(u)' = HeldBy(u)
    <3>1. stop' \/ HeldBy(t)' = HeldBy(t)
      BY <1>3, <1>5, <2>2 DEF WorkCount, WorkChecks, WorkReturns, WorkRaises, SetError, HeldBy,
                              MoveTo
    <3> QED BY <2>2, <3>1 DEF HeldBy
  <2> QED BY <1>1, <2>3, <2>4, <2>5, <2>6, QuietWork
<1>6. CASE WorkPass(t) \/ WorkWake(t)
  <2>1. PICK at : MoveTo(t, at) /\ at \in {"returned", "wakeOut"}
    BY <1>6 DEF WorkPass, WorkWake
  <2>2. worker'[t] = [at |-> at, item |-> worker[t].item] /\ DOMAIN worker' = Threads
        /\ \A u \in Threads : u # t => worker'[u] = worker[u]
    BY <2>1, MoveToIs
  <2>3. \A u \in Threads : HeldBy(u)' = HeldBy(u)
    <3>1. HeldBy(t)' = {} /\ HeldBy(t) = {}
      BY <1>6, <2>1, <2>2 DEF WorkPass, WorkWake, HeldBy
    <3> QED BY <2>2, <3>1 DEF HeldBy
  <2>4. \E k \in DOMAIN queues : Put(k, Sentinel) \/ PutNowait(k, Sentinel)
    BY <1>1, <1>6 DEF WorkPass, WorkWake
  <2>5. stop' = stop
    BY <1>6 DEF WorkPass, WorkWake
  <2> QED BY <1>1, <2>3, <2>4, <2>5, PutSentinelHolds, QuietWork
<1>7. CASE WorkPut(t)
  <2> DEFINE k == t[1] + 1
             x == worker[t].item
             src == <<"worker", t>>
             dst == <<"queue", k>>
  <2>1. Put(k, x) /\ MoveTo(t, "getting") /\ worker[t].at = "putting" /\ stop' = stop
    BY <1>7 DEF WorkPut
  <2>2. worker'[t] = [at |-> "getting", item |-> x] /\ DOMAIN worker' = Threads
        /\ \A u \in Threads : u # t => worker'[u] = worker[u]
    BY <2>1, MoveToIs
  <2>3. HeldBy(t) = {x} /\ HeldBy(t)' = {} /\ \A u \in Threads : u # t => HeldBy(u)' = HeldBy(u)
    BY <2>1, <2>2 DEF HeldBy
  <2>4. At(src) = {x} /\ At(dst) = Contents(queues[k]) /\ src # dst
        /\ src \in Places /\ dst \in Places
    BY <1>1, <2>3, PlaceIs DEF At
  <2>5. x \notin Contents(queues[k]) /\ x \in Inputs
    <3>1. x \in 1 .. fed /\ fed \in 0 .. NInputs
      BY <2>4 DEF ItemsKept, PipelineType
    <3> QED BY <2>4, <3>1, InputsAssumption DEF ItemsUnique, Exclusive, Inputs
  <2>6. /\ DOMAIN queues' = DOMAIN queues
        /\ Contents(queues[k])' = Contents(queues[k]) \cup {x}
        /\ \A l \in DOMAIN queues : l # k => Contents(queues[l])' = Contents(queues[l])
        /\ \A l \in DOMAIN queues' : Distinct(queues[l])'
    <3> HIDE DEF x, k
    <3>1. {x} \ {Sentinel} = {x}
      BY <2>5 DEF Inputs, Sentinel
    <3> QED BY <1>1, <2>1, <2>5, <3>1, PutHolds DEF k
  <2>7. At(src)' = At(src) \ {x} /\ x \in At(src)
    BY <2>3, <2>4 DEF At
  <2>8. At(dst)' = At(dst) \cup {x}
    BY <2>4, <2>6 DEF At
  <2>9. \A p \in Places \ {src, dst} : At(p)' = At(p)
    BY <1>1, <1>2, <2>3, <2>6, AtKept
  <2>10. Places' = Places
    BY <1>2, <2>6 DEF Places
  <2> HIDE DEF src, dst, x, k
  <2>11. Exclusive' /\ ItemsKept'
    BY <1>1, <2>1, <2>4, <2>7, <2>8, <2>9, <2>10, Moved DEF ItemsUnique
  <2> QED BY <1>2, <2>6, <2>11 DEF ItemsUnique
<1> QED BY <1>4, <1>5, <1>6, <1>7 DEF Work

LEMMA ConsumeItems ==
    ASSUME PipelineType, Started, ItemsUnique, ItemsKept, Consume
    PROVE  ItemsUnique' /\ ItemsKept'
<1>1. UNCHANGED <<shape, feeder, fed, worker, stopped, raised, stop>> /\ Len(queues) \in DOMAIN queues
  BY ShapeIs DEF Consume, Receive, Emit, ResumeMap, CloseMap, JoinThreads, ConsumerStep
<1>2. Threads' = Threads /\ \A t \in Threads : HeldBy(t)' = HeldBy(t)
  BY <1>1 DEF Threads, HeldBy
<1>3. CASE Receive
  <2>01. PICK k \in DOMAIN queues : k = Len(queues)
    BY <1>1
  <2>02. PICK x : x = Head(queues[k])
    OBVIOUS
  <2> DEFINE src == <<"queue", k>>
             dst == <<"buffer", 0>>
  <2>1. Get(k) /\ yielded' = yielded
        /\ buffer' = IF x = Sentinel THEN buffer ELSE buffer \cup {x}
    BY <1>3, <2>01, <2>02 DEF Receive
  <2>2. /\ DOMAIN queues' = DOMAIN queues
        /\ Contents(queues[k])' = Contents(queues[k]) \ {x}
        /\ x # Sentinel => x \in Contents(queues[k])
        /\ x = Sentinel => Contents(queues[k])' = Contents(queues[k])
        /\ \A l \in DOMAIN queues : l # k => Contents(queues[l])' = Contents(queues[l])
        /\ \A l \in DOMAIN queues' : Distinct(queues[l])'
    BY <1>1, <2>1, <2>02, GetHolds
  <2>3. CASE x = Sentinel
    <3>1. \A l \in DOMAIN queues : Contents(queues[l])' = Contents(queues[l])
      BY <2>2, <2>3
    <3> QED BY <1>1, <1>2, <2>1, <2>2, <2>3, <3>1, QuietWork
  <2>4. CASE x # Sentinel
    <3>1. At(src)' = At(src) \ {x} /\ x \in At(src) /\ src # dst /\ src \in Places /\ dst \in Places
      BY <1>1, <2>2, <2>4, PlaceIs DEF At
    <3>2. At(dst)' = At(dst) \cup {x} /\ Outputs' = Outputs
      BY <2>1, <2>4 DEF At, Outputs
    <3>3. \A p \in Places \ {src, dst} : At(p)' = At(p)
      BY <1>1, <1>2, <2>1, <2>2, <3>2, AtKept
    <3>4. Places' = Places
      BY <1>2, <2>2 DEF Places
    <3>5. \A i, j \in DOMAIN yielded' : yielded'[i] = yielded'[j] => i = j
      BY <2>1 DEF ItemsUnique
    <3>6. Exclusive' /\ ItemsKept'
      BY <1>1, <3>1, <3>2, <3>3, <3>4, Moved DEF ItemsUnique
    <3> QED BY <2>2, <3>5, <3>6 DEF ItemsUnique
  <2> QED BY <2>3, <2>4
<1>4. CASE Emit
  <2> DEFINE src == <<"buffer", 0>>
             dst == <<"yielded", 0>>
  <2>1. PICK x \in Due : yielded' = Append(yielded, x) /\ buffer' = buffer \ {x}
    BY <1>4 DEF Emit
  <2>2. x \in buffer /\ x \in Inputs /\ queues' = queues
    BY <1>4, <2>1 DEF Due, PipelineType, Emit
  <2>3. At(src) = buffer /\ At(dst) = Outputs /\ src \in Places /\ dst \in Places /\ src # dst
    BY PlaceIs DEF At
  <2>4. x \notin Outputs
    BY <2>2, <2>3 DEF ItemsUnique, Exclusive
  <2>5. /\ DOMAIN yielded' = 1 .. Len(yielded) + 1 /\ yielded'[Len(yielded) + 1] = x
        /\ DOMAIN yielded = 1 .. Len(yielded) /\ Len(yielded) \in Nat
        /\ \A i \in DOMAIN yielded : yielded'[i] = yielded[i]
    BY <2>1, <2>2 DEF PipelineType
  <2>6. Outputs' = Outputs \cup {x}
    <3>1. 1 .. Len(yielded) + 1 = (1 .. Len(yielded)) \cup {Len(yielded) + 1}
      BY <2>5
    <3> QED BY <2>5, <3>1 DEF Outputs
  <2>7. \A i, j \in DOMAIN yielded' : yielded'[i] = yielded'[j] => i = j
    BY <2>4, <2>5 DEF ItemsUnique, Outputs
  <2>8. /\ \A l \in DOMAIN queues : Contents(queues[l])' = Contents(queues[l])
        /\ \A l \in DOMAIN queues' : Distinct(queues[l])'
    BY <2>2 DEF Contents, Distinct, ItemsUnique
  <2>9. At(src)' = At(src) \ {x} /\ At(dst)' = At(dst) \cup {x} /\ x \in At(src)
    BY <2>1, <2>2, <2>6 DEF At
  <2>10. \A p \in Places \ {src, dst} : At(p)' = At(p)
    BY <1>2, <2>8, AtKept
  <2>11. Places' = Places
    BY <1>2, <2>2 DEF Places
  <2>12. Exclusive' /\ ItemsKept'
    BY <1>1, <2>3, <2>9, <2>10, <2>11, Moved DEF ItemsUnique
  <2> QED BY <2>7, <2>8, <2>12 DEF ItemsUnique
<1>5. CASE ResumeMap \/ CloseMap \/ JoinThreads
  <2>1. UNCHANGED <<queues, buffer, yielded>>
    BY <1>5 DEF ResumeMap, CloseMap, JoinThreads
  <2>2. /\ \A l \in DOMAIN queues : Contents(queues[l])' = Contents(queues[l])
        /\ \A l \in DOMAIN queues' : Distinct(queues[l])'
    BY <2>1 DEF Contents, Distinct, ItemsUnique
  <2> QED BY <1>1, <1>2, <2>1, <2>2, QuietWork
<1> QED BY <1>3, <1>4, <1>5 DEF Consume

----------------------------------------------------------------------------
(* The feeder and the caller. *)

LEMMA FeederKeeps ==
    ASSUME PipelineType, FeederInv, Started, Feed \/ Consume \/ \E t \in Threads : Work(t)
    PROVE  FeederInv'
<1>1. CASE Feed
  <2>1. CASE FeedCheck
    <3>1. fed' = fed /\ stop' = stop /\ fed \in 0 .. NInputs
          /\ feeder' = IF fed = NInputs \/ stop THEN "closing" ELSE "placing"
      BY <2>1 DEF FeedCheck, PipelineType
    <3>2. feeder' = "placing" => fed # NInputs
      BY <3>1
    <3>3. feeder' \in {"closing", "returned"} /\ ~stop => fed = NInputs
      BY <3>1
    <3>4. fed # NInputs => fed < NInputs
      BY <3>1, InputsAssumption
    <3> QED BY <3>1, <3>2, <3>3, <3>4 DEF FeederInv
  <2>2. CASE FeedRaises
    BY <2>2 DEF FeedRaises, SetError, FeederInv
  <2>3. CASE FeedPut
    BY <2>3 DEF FeedPut, FeederInv
  <2>4. CASE FeedClose
    BY <2>4 DEF FeedClose, FeederInv
  <2> QED BY <1>1, <2>1, <2>2, <2>3, <2>4 DEF Feed
<1>2. CASE Consume
  BY <1>2
  DEF Consume, Receive, Emit, ResumeMap, CloseMap, JoinThreads, ConsumerStep, FeederInv
<1>3. ASSUME NEW t \in Threads, Work(t) PROVE FeederInv'
  BY <1>3
  DEF Work, WorkGet, WorkCount, WorkPass, WorkChecks, WorkReturns, WorkRaises, WorkWake, WorkPut,
      WorkerStep,
      SetError, FeederInv
<1> QED BY <1>1, <1>2, <1>3

LEMMA CallerKeeps ==
    ASSUME PipelineType, CallerInv, Started, Feed \/ Consume \/ \E t \in Threads : Work(t)
    PROVE  CallerInv'
<1>1. CASE Feed
  <2>1. UNCHANGED <<shape, worker, consumer, buffer, yielded, closed>>
    BY <1>1 DEF Feed, FeedCheck, FeedRaises, FeedPut, FeedClose, FeederStep
  <2> QED BY <2>1 DEF CallerInv, Due, Alive, Threads
<1>2. ASSUME NEW t \in Threads, Work(t) PROVE CallerInv'
  <2>1. UNCHANGED <<shape, consumer, buffer, yielded, closed>>
    BY <1>2
    DEF Work, WorkGet, WorkCount, WorkPass, WorkChecks, WorkReturns, WorkRaises, WorkWake, WorkPut,
        WorkerStep
  <2>2. Alive(t)
    BY <1>2
    DEF Work, WorkGet, WorkCount, WorkPass, WorkChecks, WorkReturns, WorkRaises, WorkWake, WorkPut,
        Alive
  <2>3. consumer # "ended"
    BY <2>2 DEF CallerInv
  <2> QED BY <2>1, <2>3 DEF CallerInv, Due
<1>3. CASE Receive
  <2>1. UNCHANGED <<shape, yielded, closed, worker>> /\ consumer = "getting"
    BY <1>3 DEF Receive, ConsumerStep
  <2>2. \/ consumer' = "joining" /\ buffer' = buffer
        \/ consumer' = "emitting"
    BY <1>3 DEF Receive
  <2> QED BY <2>1, <2>2 DEF CallerInv, Due
<1>4. CASE Emit
  <2>1. PICK x \in Due : yielded' = Append(yielded, x) /\ buffer' = buffer \ {x}
    BY <1>4 DEF Emit
  <2>2. x \in Inputs /\ yielded \in Seq(Inputs)
    BY <2>1 DEF Due, PipelineType
  <2>3. /\ DOMAIN yielded' = 1 .. Len(yielded) + 1 /\ yielded'[Len(yielded) + 1] = x
        /\ DOMAIN yielded = 1 .. Len(yielded) /\ Len(yielded) \in Nat
        /\ \A i \in DOMAIN yielded : yielded'[i] = yielded[i]
    BY <2>1, <2>2
  <2>4. shape.ordered => x = Len(yielded) + 1
    BY <2>1 DEF Due
  <2>5. shape' = shape /\ consumer' = "suspended"
    BY <1>4 DEF Emit, ConsumerStep
  <2> QED BY <2>3, <2>4, <2>5 DEF CallerInv
<1>5. CASE ResumeMap
  <2>1. UNCHANGED <<shape, yielded, closed, worker, buffer>>
    BY <1>5 DEF ResumeMap, ConsumerStep
  <2>2. consumer' = IF Due = {} THEN "getting" ELSE "emitting"
    BY <1>5 DEF ResumeMap
  <2> QED BY <2>1, <2>2 DEF CallerInv, Due
<1>6. CASE CloseMap
  BY <1>6 DEF CloseMap, ConsumerStep, CallerInv, Due
<1>7. CASE JoinThreads
  BY <1>7 DEF JoinThreads, ConsumerStep, CallerInv, Due, Alive, Threads
<1> QED BY <1>1, <1>2, <1>3, <1>4, <1>5, <1>6, <1>7 DEF Consume

----------------------------------------------------------------------------
(* The sentinel in a queue. *)

LEMMA LastIsOne ==
    ASSUME NEW S, NEW q \in Seq(S), SentinelLast(q)
    PROVE  OneSentinel(q) /\ HasSentinel(q)
<1>1. Len(q) \in DOMAIN q
  BY DEF SentinelLast
<1> QED BY <1>1 DEF SentinelLast, OneSentinel, HasSentinel

LEMMA GetInput ==
    ASSUME NEW S, NEW q \in Seq(S), q # <<>>, Head(q) # Sentinel
    PROVE  /\ HasSentinel(Tail(q)) <=> HasSentinel(q)
           /\ OneSentinel(q) => OneSentinel(Tail(q))
           /\ SentinelLast(q) => SentinelLast(Tail(q))
<1> DEFINE n == Len(q)
           r == Tail(q)
<1>1. /\ n \in Nat \ {0} /\ DOMAIN q = 1 .. n /\ DOMAIN r = 1 .. n - 1 /\ q[1] # Sentinel
      /\ r \in Seq(S) /\ Len(r) = n - 1
      /\ \A i \in 1 .. n - 1 : r[i] = q[i + 1]
  BY QueueTail
<1> HIDE DEF n, r
<1>2. \A i \in 2 .. n : i - 1 \in 1 .. n - 1 /\ r[i - 1] = q[i]
  <2> TAKE i \in 2 .. n
  <2>1. i - 1 \in 1 .. n - 1 /\ (i - 1) + 1 = i
    BY <1>1
  <2> QED BY <1>1, <2>1
<1>3. \A i \in 1 .. n : q[i] = Sentinel => i \in 2 .. n
  BY <1>1
<1>4. \A i \in 1 .. n - 1 : i + 1 \in 1 .. n
  BY <1>1
<1>5. HasSentinel(r) <=> HasSentinel(q)
  <2>1. ASSUME NEW i \in 1 .. n - 1, r[i] = Sentinel PROVE HasSentinel(q)
    BY <1>1, <1>4, <2>1 DEF HasSentinel
  <2>2. ASSUME NEW i \in 1 .. n, q[i] = Sentinel PROVE HasSentinel(r)
    BY <1>1, <1>2, <1>3, <2>2 DEF HasSentinel
  <2> QED BY <1>1, <2>1, <2>2 DEF HasSentinel
<1>6. ASSUME OneSentinel(q), NEW i \in 1 .. n - 1, NEW j \in 1 .. n - 1,
             r[i] = Sentinel, r[j] = Sentinel
      PROVE  i = j
  <2>1. q[i + 1] = Sentinel /\ q[j + 1] = Sentinel
    BY <1>1, <1>6
  <2>2. i + 1 = j + 1
    BY <1>1, <1>4, <1>6, <2>1 DEF OneSentinel
  <2> QED BY <2>2
<1>7. ASSUME SentinelLast(q) PROVE SentinelLast(r)
  <2>1. \A j \in 1 .. n : q[j] = Sentinel <=> j = n
    BY <1>1, <1>7 DEF SentinelLast, n
  <2>2. n \in 1 .. n /\ n # 1
    BY <1>1, <2>1
  <2>3. ASSUME NEW j \in 1 .. n - 1 PROVE r[j] = Sentinel <=> j = n - 1
    <3>1. j + 1 \in 1 .. n
      BY <1>1
    <3>2. q[j + 1] = Sentinel <=> j + 1 = n
      BY <2>1, <3>1
    <3> QED BY <1>1, <3>2
  <2>4. r # <<>>
    BY <1>1, <2>2
  <2> QED BY <1>1, <2>3, <2>4 DEF SentinelLast
<1>8. OneSentinel(q) => OneSentinel(r)
  BY <1>1, <1>6 DEF OneSentinel
<1> QED BY <1>5, <1>7, <1>8 DEF r

LEMMA GetSentinel ==
    ASSUME NEW S, NEW q \in Seq(S), q # <<>>, Head(q) = Sentinel
    PROVE  /\ HasSentinel(q)
           /\ OneSentinel(q) => ~HasSentinel(Tail(q))
           /\ SentinelLast(q) => Tail(q) = <<>>
<1> DEFINE n == Len(q)
           r == Tail(q)
<1>1. /\ n \in Nat \ {0} /\ DOMAIN q = 1 .. n /\ DOMAIN r = 1 .. n - 1 /\ q[1] = Sentinel
      /\ r \in Seq(S) /\ Len(r) = n - 1
      /\ \A i \in 1 .. n - 1 : r[i] = q[i + 1]
  BY QueueTail
<1> HIDE DEF n, r
<1>2. 1 \in 1 .. n
  BY <1>1
<1>3. ASSUME OneSentinel(q), NEW i \in 1 .. n - 1, r[i] = Sentinel PROVE FALSE
  <2>1. i + 1 \in 1 .. n /\ q[i + 1] = Sentinel /\ i + 1 # 1
    BY <1>1, <1>3
  <2> QED BY <1>1, <1>2, <1>3, <2>1 DEF OneSentinel
<1>4. ASSUME SentinelLast(q) PROVE r = <<>>
  <2>1. n = 1
    BY <1>1, <1>2, <1>4 DEF SentinelLast, n
  <2> QED BY <1>1, <2>1
<1> QED BY <1>1, <1>2, <1>3, <1>4 DEF HasSentinel, r

LEMMA PutInput ==
    ASSUME NEW q \in Seq(Inputs \cup {Sentinel}), NEW x \in Inputs
    PROVE  /\ HasSentinel(Append(q, x)) <=> HasSentinel(q)
           /\ OneSentinel(q) => OneSentinel(Append(q, x))
<1> DEFINE n == Len(q)
           r == Append(q, x)
<1>1. /\ n \in Nat /\ DOMAIN q = 1 .. n /\ DOMAIN r = 1 .. n + 1 /\ r[n + 1] = x
      /\ \A i \in 1 .. n : r[i] = q[i]
  BY QueueAppend
<1> HIDE DEF n, r
<1>2. x # Sentinel
  BY DEF Inputs, Sentinel
<1>3. \A i \in 1 .. n + 1 : r[i] = Sentinel => i \in 1 .. n /\ q[i] = Sentinel
  BY <1>1, <1>2
<1>4. \A i \in 1 .. n : i \in 1 .. n + 1
  BY <1>1
<1>5. HasSentinel(r) <=> HasSentinel(q)
  BY <1>1, <1>3, <1>4 DEF HasSentinel
<1>6. OneSentinel(q) => OneSentinel(r)
  BY <1>1, <1>3 DEF OneSentinel
<1> QED BY <1>5, <1>6 DEF r

LEMMA PutSentinel ==
    ASSUME NEW q \in Seq(Inputs \cup {Sentinel}), ~HasSentinel(q)
    PROVE  LET r == Append(q, Sentinel)
           IN  SentinelLast(r) /\ OneSentinel(r) /\ HasSentinel(r)
<1> DEFINE n == Len(q)
           r == Append(q, Sentinel)
<1>1. /\ n \in Nat /\ DOMAIN q = 1 .. n /\ DOMAIN r = 1 .. n + 1 /\ r[n + 1] = Sentinel
      /\ \A i \in 1 .. n : r[i] = q[i]
      /\ r \in Seq(Inputs \cup {Sentinel}) /\ Len(r) = n + 1
  BY QueueAppend
<1> HIDE DEF n, r
<1>2. \A i \in 1 .. n + 1 : r[i] = Sentinel <=> i = n + 1
  BY <1>1 DEF HasSentinel
<1>3. r # <<>>
  BY <1>1
<1>4. SentinelLast(r)
  BY <1>1, <1>2, <1>3 DEF SentinelLast
<1>5. OneSentinel(r) /\ HasSentinel(r)
  BY <1>1, <1>4, LastIsOne
<1> QED BY <1>4, <1>5 DEF r

\* The steps that move no sentinel: what they do to every queue.
LEMMA QueueSteps ==
    ASSUME PipelineType, Started, NEW k \in DOMAIN queues
    PROVE  /\ \A x : Put(k, x) =>
                /\ DOMAIN queues' = DOMAIN queues /\ queues'[k] = Append(queues[k], x)
                /\ \A l \in DOMAIN queues : l # k => queues'[l] = queues[l]
           /\ Get(k) =>
                /\ DOMAIN queues' = DOMAIN queues /\ queues'[k] = Tail(queues[k])
                /\ queues[k] # <<>>
                /\ \A l \in DOMAIN queues : l # k => queues'[l] = queues[l]
           /\ queues[k] \in Seq(Inputs \cup {Sentinel})
BY ShapeIs DEF PipelineType, Put, Get

LEMMA InputStep ==
    ASSUME PipelineType, Started, NEW k \in DOMAIN queues,
           \/ Get(k) /\ Head(queues[k]) # Sentinel
           \/ \E x \in Inputs : Put(k, x)
    PROVE  /\ DOMAIN queues' = DOMAIN queues
           /\ \A l \in DOMAIN queues : HasSentinel(queues[l])' <=> HasSentinel(queues[l])
           /\ \A l \in DOMAIN queues : OneSentinel(queues[l]) => OneSentinel(queues[l])'
<1>1. /\ DOMAIN queues' = DOMAIN queues /\ \A l \in DOMAIN queues : l # k => queues'[l] = queues[l]
      /\ queues[k] \in Seq(Inputs \cup {Sentinel})
  BY QueueSteps
<1>2. /\ HasSentinel(queues'[k]) <=> HasSentinel(queues[k])
      /\ OneSentinel(queues[k]) => OneSentinel(queues'[k])
  <2>1. CASE Get(k) /\ Head(queues[k]) # Sentinel
    <3>1. queues'[k] = Tail(queues[k]) /\ queues[k] # <<>>
      BY <2>1, QueueSteps
    <3> QED BY <1>1, <2>1, <3>1, GetInput
  <2>2. ASSUME NEW x \in Inputs, Put(k, x)
        PROVE  /\ HasSentinel(queues'[k]) <=> HasSentinel(queues[k])
               /\ OneSentinel(queues[k]) => OneSentinel(queues'[k])
    <3>1. queues'[k] = Append(queues[k], x)
      BY <2>2, QueueSteps
    <3> QED BY <1>1, <3>1, PutInput
  <2> QED BY <2>1, <2>2
<1>3. \A l \in DOMAIN queues : /\ HasSentinel(queues'[l]) <=> HasSentinel(queues[l])
                               /\ OneSentinel(queues[l]) => OneSentinel(queues'[l])
  BY <1>1, <1>2
<1> QED BY <1>1, <1>3 DEF HasSentinel, OneSentinel

\* How many of a stage are in `stopped`.
LEMMA CountedIs ==
    ASSUME PipelineType, Started, NEW k \in 1 .. NStages
    PROVE  /\ Counted(k) \subseteq Everyone(k) /\ IsFiniteSet(Counted(k))
           /\ Cardinality(Counted(k)) \in Nat /\ shape.workers[k] \in Nat \ {0}
           /\ Cardinality(Counted(k)) = shape.workers[k] <=> Counted(k) = Everyone(k)
           /\ Cardinality(Counted(k)) <= shape.workers[k]
           /\ Counted(k) = {} => Counted(k) # Everyone(k)
<1>1. shape.workers[k] \in Nat \ {0}
  BY ShapeIs
<1>2. IsFiniteSet(Everyone(k)) /\ Cardinality(Everyone(k)) = shape.workers[k] /\ 1 \in Everyone(k)
  <2>1. PICK n \in Nat \ {0} : n = shape.workers[k]
    BY <1>1
  <2>2. IsFiniteSet(1 .. n) /\ Cardinality(1 .. n) = IF 1 > n THEN 0 ELSE n - 1 + 1
    BY FS_Interval
  <2>3. Cardinality(1 .. n) = n /\ 1 \in 1 .. n
    BY <2>2
  <2> QED BY <2>1, <2>2, <2>3 DEF Everyone
<1>3. Counted(k) \subseteq Everyone(k)
  BY DEF Counted, Everyone
<1>4. /\ IsFiniteSet(Counted(k)) /\ Cardinality(Counted(k)) <= Cardinality(Everyone(k))
      /\ Cardinality(Counted(k)) = Cardinality(Everyone(k)) => Counted(k) = Everyone(k)
  BY <1>2, <1>3, FS_Subset
<1>5. Cardinality(Counted(k)) \in Nat
  BY <1>4, FS_CardinalityType
<1> QED BY <1>1, <1>2, <1>3, <1>4, <1>5

\* A step after which the same workers carry it and the same are counted.
LEMMA QuietSentinel ==
    ASSUME PipelineType, Started, NEW p \in 0 .. NStages + 2, SentinelAt(p), CountInv(p),
           shape' = shape, stopped' = stopped, feeder' = "returned" <=> feeder = "returned",
           DOMAIN queues' = DOMAIN queues,
           \A l \in DOMAIN queues : HasSentinel(queues[l])' <=> HasSentinel(queues[l]),
           \A l \in DOMAIN queues : OneSentinel(queues[l]) => OneSentinel(queues[l])',
           \A t \in Threads :
               worker'[t].at = worker[t].at
               \/ {worker[t].at, worker'[t].at} \subseteq {"getting", "running", "calling", "putting"},
           consumer \in {"joining", "ended"} => consumer' \in {"joining", "ended"},
           consumer' \in {"joining", "ended"} /\ ~closed' => consumer \in {"joining", "ended"} /\ ~closed
    PROVE  SentinelAt(p)' /\ CountInv(p)'
<1>1. Threads' = Threads /\ NStages' = NStages /\ \A k : Everyone(k)' = Everyone(k)
  BY DEF Threads, NStages, Everyone
<1>2. \A t \in Threads : Carries(t)' <=> Carries(t)
  BY DEF Carries
<1>3. \A k \in 1 .. NStages : Counted(k)' = Counted(k)
  <2> TAKE k \in 1 .. NStages
  <2>1. \A j \in 1 .. shape.workers[k] : <<k, j>> \in Threads
    BY ThreadIs, ShapeIs
  <2> QED BY <2>1 DEF Counted
<1>4. \A t \in Threads : worker'[t].at = "forward" <=> worker[t].at = "forward"
  OBVIOUS
<1>5. SentinelAt(p)'
  <2>1. \A t \in Threads : worker[t].at \notin {"wakeIn", "wakeOut"} /\ t[1] \in DOMAIN queues
    BY ShapeIs DEF SentinelAt
  <2>2. /\ (p = 0 <=> feeder # "returned")'
        /\ \A k \in DOMAIN queues' : k # p => ~HasSentinel(queues[k])'
        /\ \A t \in Threads : worker'[t].at \notin {"wakeIn", "wakeOut"}
    BY <2>1 DEF SentinelAt
  <2>3. \A t \in Threads : Carries(t)' => t[1] = p /\ ~HasSentinel(queues[p])'
    BY <1>2, <2>1 DEF SentinelAt
  <2>4. \A t, u \in Threads : Carries(t)' /\ Carries(u)' => t = u
    BY <1>2 DEF SentinelAt
  <2>5. p \in DOMAIN queues' =>
            /\ OneSentinel(queues[p])'
            /\ HasSentinel(queues[p])' \/ \E t \in Threads : Carries(t)'
    BY <1>2 DEF SentinelAt
  <2>6. /\ consumer' \in {"joining", "ended"} /\ ~closed' => p = NStages + 2
        /\ p = NStages + 2 => consumer' \in {"joining", "ended"}
    BY DEF SentinelAt
  <2> QED BY <1>1, <2>2, <2>3, <2>4, <2>5, <2>6 DEF SentinelAt
<1>6. 1 \in 1 .. NStages /\ (NStages > 1 => 2 \in 1 .. NStages)
  BY ShapeIs
<1>7. CountInv(p)'
  BY <1>1, <1>3, <1>4, <1>6 DEF CountInv
<1> QED BY <1>5, <1>7

LEMMA FeedSentinel ==
    ASSUME PipelineType, Started, FeederInv, SentinelInv, Feed
    PROVE  SentinelInv'
<1> SUFFICES ASSUME ~stop'
             PROVE  \E p \in 0 .. NStages' + 2 :
                        SentinelAt(p)' /\ SentinelBehindAll(p)' /\ CountInv(p)'
  BY DEF SentinelInv
<1>1. /\ UNCHANGED <<shape, worker, stopped, consumer, buffer, yielded, closed>>
      /\ 1 \in DOMAIN queues /\ ~stop /\ feeder # "returned"
  BY ShapeIs DEF Feed, FeedCheck, FeedRaises, FeedPut, FeedClose, FeederStep, SetError
<1>2. NStages' = NStages /\ Threads' = Threads /\ NStages \in Nat \ {0}
      /\ \A k : Counted(k)' = Counted(k) /\ Everyone(k)' = Everyone(k)
  BY <1>1, ShapeIs DEF NStages, Threads, Counted, Everyone
<1>3. PICK p \in 0 .. NStages + 2 : SentinelAt(p) /\ SentinelBehindAll(p) /\ CountInv(p)
  BY <1>1 DEF SentinelInv
<1>4. p = 0
  BY <1>1, <1>3 DEF SentinelAt
<1>5. ~FeedRaises
  BY DEF FeedRaises, SetError
<1>6. CASE FeedCheck
  <2>1. queues' = queues /\ feeder' # "returned"
    BY <1>6 DEF FeedCheck
  <2>2. SentinelAt(0)' /\ CountInv(0)'
    BY <1>1, <1>3, <1>4, <2>1, QuietSentinel DEF HasSentinel, OneSentinel
  <2>3. SentinelBehindAll(0)'
    BY DEF SentinelBehindAll
  <2> QED BY <1>2, <2>2, <2>3
<1>7. CASE FeedPut
  <2>1. Put(1, fed + 1) /\ feeder' # "returned" /\ fed + 1 \in Inputs
    BY <1>7, InputsAssumption DEF FeedPut, FeederInv, PipelineType, Inputs
  <2>2. /\ DOMAIN queues' = DOMAIN queues
        /\ \A l \in DOMAIN queues : HasSentinel(queues[l])' <=> HasSentinel(queues[l])
        /\ \A l \in DOMAIN queues : OneSentinel(queues[l]) => OneSentinel(queues[l])'
    BY <1>1, <2>1, InputStep
  <2>3. SentinelAt(0)' /\ CountInv(0)'
    BY <1>1, <1>3, <1>4, <2>1, <2>2, QuietSentinel
  <2>4. SentinelBehindAll(0)'
    BY DEF SentinelBehindAll
  <2> QED BY <1>2, <2>3, <2>4
<1>8. CASE FeedClose
  <2>1. Put(1, Sentinel) /\ feeder' = "returned"
    BY <1>8 DEF FeedClose
  <2>2. /\ DOMAIN queues' = DOMAIN queues /\ queues'[1] = Append(queues[1], Sentinel)
        /\ \A l \in DOMAIN queues : l # 1 => queues'[l] = queues[l]
        /\ queues[1] \in Seq(Inputs \cup {Sentinel})
    BY <1>1, <2>1, QueueSteps
  <2>3. ~HasSentinel(queues[1]) /\ \A l \in DOMAIN queues : l # 1 => ~HasSentinel(queues[l])
    BY <1>1, <1>3, <1>4, ShapeIs DEF SentinelAt
  <2>4. SentinelLast(queues'[1]) /\ OneSentinel(queues'[1]) /\ HasSentinel(queues'[1])
    BY <2>2, <2>3, PutSentinel
  <2>5. \A t \in Threads : ~Carries(t) /\ worker[t].at \notin {"wakeIn", "wakeOut"}
    BY <1>3, <1>4, ShapeIs DEF SentinelAt
  <2>6. \A t \in Threads : ~Carries(t)' /\ worker'[t].at \notin {"wakeIn", "wakeOut", "forward"}
    BY <1>1, <2>5 DEF Carries
  <2>7. ~(consumer \in {"joining", "ended"} /\ ~closed)
    BY <1>2, <1>3, <1>4 DEF SentinelAt
  <2>8. SentinelAt(1)'
    <3>1. \A l \in DOMAIN queues : l # 1 => ~HasSentinel(queues[l])'
      BY <2>2, <2>3 DEF HasSentinel
    <3>2. OneSentinel(queues[1])' /\ HasSentinel(queues[1])'
      BY <2>4 DEF OneSentinel, HasSentinel
    <3>3. 1 # NStages + 2
      BY <1>2
    <3> QED BY <1>1, <1>2, <2>1, <2>2, <2>6, <2>7, <3>1, <3>2, <3>3 DEF SentinelAt
  <2>9. SentinelBehindAll(1)'
    <3>1. SentinelLast(queues[1])' /\ HasSentinel(queues[1])'
      BY <2>4 DEF SentinelLast, HasSentinel
    <3> QED BY <3>1 DEF SentinelBehindAll
  <2>10. CountInv(1)'
    <3>1. \A k \in 1 .. NStages : Counted(k) = {}
      BY <1>2, <1>3, <1>4 DEF CountInv
    <3>2. Counted(1) # Everyone(1) /\ stopped = Cardinality(Counted(1))
      BY <1>2, <1>3, <1>4, <3>1, CountedIs DEF CountInv
    <3> QED BY <1>1, <1>2, <2>6, <3>1, <3>2 DEF CountInv
  <2> QED BY <1>2, <2>8, <2>9, <2>10
<1> QED BY <1>5, <1>6, <1>7, <1>8 DEF Feed

LEMMA ConsumeSentinel ==
    ASSUME PipelineType, Started, SentinelInv, Consume
    PROVE  SentinelInv'
<1> SUFFICES ASSUME ~stop'
             PROVE  \E p \in 0 .. NStages' + 2 :
                        SentinelAt(p)' /\ SentinelBehindAll(p)' /\ CountInv(p)'
  BY DEF SentinelInv
<1>1. UNCHANGED <<shape, feeder, fed, worker, stopped, raised, stop>>
  BY DEF Consume, Receive, Emit, ResumeMap, CloseMap, JoinThreads, ConsumerStep
<1>2. NStages' = NStages /\ Threads' = Threads /\ NStages \in Nat \ {0} /\ Len(queues) = NStages + 1
      /\ DOMAIN queues = 1 .. NStages + 1
      /\ \A k : Counted(k)' = Counted(k) /\ Everyone(k)' = Everyone(k)
  BY <1>1, ShapeIs DEF NStages, Threads, Counted, Everyone
<1>3. PICK p \in 0 .. NStages + 2 : SentinelAt(p) /\ SentinelBehindAll(p) /\ CountInv(p)
  BY <1>1 DEF SentinelInv
<1>4. CASE Receive
  <2>1. PICK k \in DOMAIN queues : k = Len(queues)
    BY <1>2
  <2>2. Get(k) /\ consumer = "getting" /\ closed' = closed
        /\ consumer' = IF Head(queues[k]) = Sentinel THEN "joining" ELSE "emitting"
    BY <1>4, <2>1 DEF Receive
  <2>3. /\ DOMAIN queues' = DOMAIN queues /\ queues'[k] = Tail(queues[k]) /\ queues[k] # <<>>
        /\ \A l \in DOMAIN queues : l # k => queues'[l] = queues[l]
        /\ queues[k] \in Seq(Inputs \cup {Sentinel})
    BY <2>2, QueueSteps
  <2>4. k = NStages + 1 /\ k # 1 /\ 1 \in DOMAIN queues
    BY <1>2, <2>1
  <2>5. CASE Head(queues[k]) # Sentinel
    <3>1. /\ \A l \in DOMAIN queues : HasSentinel(queues[l])' <=> HasSentinel(queues[l])
          /\ \A l \in DOMAIN queues : OneSentinel(queues[l]) => OneSentinel(queues[l])'
      BY <2>2, <2>5, InputStep
    <3>2. SentinelAt(p)' /\ CountInv(p)'
      BY <1>1, <1>3, <2>2, <2>3, <2>5, <3>1, QuietSentinel
    <3>3. SentinelLast(queues[k]) => SentinelLast(queues[k])'
      <4>1. SentinelLast(queues[k]) => SentinelLast(queues'[k])
        BY <2>3, <2>5, GetInput
      <4> QED BY <4>1 DEF SentinelLast
    <3>4. SentinelBehindAll(p)'
      <4>1. queues'[1] = queues[1]
        BY <2>3, <2>4
      <4>2. /\ HasSentinel(queues[1])' <=> HasSentinel(queues[1])
            /\ SentinelLast(queues[1])' <=> SentinelLast(queues[1])
        BY <4>1 DEF HasSentinel, SentinelLast
      <4>3. NStages = 1 /\ p = 2 => SentinelLast(queues[2])'
        BY <1>3, <2>4, <3>3 DEF SentinelBehindAll
      <4>4. NStages = 1 /\ p > 2 => FALSE
        BY <1>3, <2>3, <2>4 DEF SentinelBehindAll
      <4> QED BY <1>2, <1>3, <4>1, <4>2, <4>3, <4>4 DEF SentinelBehindAll
    <3> QED BY <1>2, <3>2, <3>4
  <2>6. CASE Head(queues[k]) = Sentinel
    <3>1. HasSentinel(queues[k])
      BY <2>3, <2>6, GetSentinel
    <3>2. p = NStages + 1
      BY <1>3, <2>4, <3>1 DEF SentinelAt
    <3>3. OneSentinel(queues[k]) /\ \A l \in DOMAIN queues : l # k => ~HasSentinel(queues[l])
      BY <1>3, <2>4, <3>2 DEF SentinelAt
    <3>4. ~HasSentinel(queues'[k]) /\ (SentinelLast(queues[k]) => queues'[k] = <<>>)
      BY <2>3, <2>6, <3>3, GetSentinel
    <3>5. \A t \in Threads : ~Carries(t) /\ worker[t].at \notin {"wakeIn", "wakeOut"}
      BY <1>3, <2>4, <3>1, <3>2 DEF SentinelAt
    <3>6. \A t \in Threads : ~Carries(t)' /\ worker'[t].at \notin {"wakeIn", "wakeOut", "forward"}
      BY <1>1, <3>5 DEF Carries
    <3>7. SentinelAt(NStages + 2)'
      <4>1. \A l \in DOMAIN queues : ~HasSentinel(queues[l])'
        BY <2>3, <3>3, <3>4 DEF HasSentinel
      <4>2. feeder' = "returned" /\ NStages + 2 # 0 /\ NStages + 2 \notin DOMAIN queues
        BY <1>1, <1>2, <1>3, <3>2 DEF SentinelAt
      <4>3. consumer' \in {"joining", "ended"}
        BY <2>2, <2>6
      <4> QED BY <1>2, <2>3, <3>6, <4>1, <4>2, <4>3 DEF SentinelAt
    <3>8. SentinelBehindAll(NStages + 2)'
      <4>1. queues'[1] = <<>>
        BY <1>2, <1>3, <2>3, <2>4, <3>2 DEF SentinelBehindAll
      <4>2. NStages = 1 => queues'[2] = <<>>
        BY <1>2, <1>3, <2>4, <3>2, <3>4 DEF SentinelBehindAll
      <4>3. NStages + 2 # 1 /\ (NStages = 1 => NStages + 2 # 2)
        BY <1>2
      <4> QED BY <1>2, <4>1, <4>2, <4>3 DEF SentinelBehindAll
    <3>9. CountInv(NStages + 2)'
      <4>1. Counted(1) = Everyone(1) /\ (NStages > 1 => Counted(2) # Everyone(2))
        BY <1>2, <1>3, <3>2 DEF CountInv
      <4>2. NStages + 2 > 2 /\ \A l \in 1 .. NStages : ~(l > NStages + 2)
        BY <1>2
      <4> QED BY <1>2, <4>1, <4>2 DEF CountInv
    <3> QED BY <1>2, <3>7, <3>8, <3>9
  <2> QED BY <2>5, <2>6
<1>5. CASE Emit \/ ResumeMap \/ CloseMap \/ JoinThreads
  <2>1. queues' = queues
        /\ (consumer \in {"joining", "ended"} => consumer' \in {"joining", "ended"})
        /\ (consumer' \in {"joining", "ended"} /\ ~closed' => consumer \in {"joining", "ended"} /\ ~closed)
    BY <1>5 DEF Emit, ResumeMap, CloseMap, JoinThreads
  <2>2. SentinelAt(p)' /\ CountInv(p)'
    BY <1>1, <1>3, <2>1, QuietSentinel DEF HasSentinel, OneSentinel
  <2>3. SentinelBehindAll(p)'
    BY <1>2, <1>3, <2>1 DEF SentinelBehindAll, SentinelLast, HasSentinel
  <2> QED BY <1>2, <2>2, <2>3
<1> QED BY <1>4, <1>5 DEF Consume

\* A worker that moves between two points of the same kind, and what of the
\* counted one that becomes counted.
LEMMA CountedAfter ==
    ASSUME PipelineType, Started, NEW t \in Threads, NEW at, MoveTo(t, at), shape' = shape
    PROVE  /\ \A k \in 1 .. NStages :
                k # t[1] \/ (worker[t].at \in {"again", "forward", "returned"}
                              <=> at \in {"again", "forward", "returned"})
                => Counted(k)' = Counted(k)
           /\ worker[t].at = "counting" /\ at \in {"again", "forward"} =>
                /\ Counted(t[1])' = Counted(t[1]) \cup {t[2]}
                /\ t[2] \notin Counted(t[1])
           /\ \A u \in Threads : u # t => /\ Carries(u)' <=> Carries(u)
                                          /\ worker'[u] = worker[u]
           /\ Carries(t)' <=> at \in {"counting", "again", "forward"}
           /\ worker'[t].at = at
<1>1. worker'[t] = [at |-> at, item |-> worker[t].item] /\ \A u \in Threads : u # t => worker'[u] = worker[u]
  BY MoveToIs
<1>2. worker'[t].at = at
  BY <1>1
<1>3. t = <<t[1], t[2]>> /\ t[1] \in 1 .. NStages /\ t[2] \in 1 .. shape.workers[t[1]]
  BY ThreadIs, ShapeIs
<1>4. \A k \in 1 .. NStages : \A j \in 1 .. shape.workers[k] : <<k, j>> \in Threads
  BY ThreadIs, ShapeIs
<1>5. ASSUME NEW k \in 1 .. NStages, k # t[1] \/ (worker[t].at \in {"again", "forward", "returned"}
                                                   <=> at \in {"again", "forward", "returned"})
      PROVE  Counted(k)' = Counted(k)
  <2>1. \A j \in 1 .. shape.workers[k] :
            worker'[<<k, j>>].at \in {"again", "forward", "returned"}
              <=> worker[<<k, j>>].at \in {"again", "forward", "returned"}
    <3> TAKE j \in 1 .. shape.workers[k]
    <3>1. CASE <<k, j>> = t
      BY <1>2, <1>3, <1>5, <3>1
    <3>2. CASE <<k, j>> # t
      BY <1>1, <1>4, <3>2
    <3> QED BY <3>1, <3>2
  <2> QED BY <2>1 DEF Counted
<1>6. ASSUME worker[t].at = "counting", at \in {"again", "forward"}
      PROVE  Counted(t[1])' = Counted(t[1]) \cup {t[2]} /\ t[2] \notin Counted(t[1])
  <2> DEFINE k == t[1]
  <2>1. ASSUME NEW j \in 1 .. shape.workers[k], j # t[2]
        PROVE  worker'[<<k, j>>] = worker[<<k, j>>]
    BY <1>1, <1>3, <1>4, <2>1
  <2>2. worker'[<<k, t[2]>>].at \in {"again", "forward", "returned"}
        /\ worker[<<k, t[2]>>].at \notin {"again", "forward", "returned"}
    BY <1>2, <1>3, <1>6
  <2> QED BY <1>3, <2>1, <2>2 DEF Counted
<1>7. \A u \in Threads : u # t => /\ Carries(u)' <=> Carries(u)
                                  /\ worker'[u] = worker[u]
  BY <1>1 DEF Carries
<1>8. Carries(t)' <=> at \in {"counting", "again", "forward"}
  BY <1>2 DEF Carries
<1> QED BY <1>2, <1>5, <1>6, <1>7, <1>8

\* A worker's steps that move no sentinel.
LEMMA WorkQuietSentinel ==
    ASSUME PipelineType, Started, ItemsKept, NEW t \in Threads, ~stop',
           \/ WorkGet(t) /\ Head(queues[t[1]]) # Sentinel
           \/ WorkChecks(t) \/ WorkReturns(t) \/ WorkPut(t),
           NEW p \in 0 .. NStages + 2, SentinelAt(p), SentinelBehindAll(p), CountInv(p)
    PROVE  SentinelAt(p)' /\ SentinelBehindAll(p)' /\ CountInv(p)'
<1>1. /\ UNCHANGED <<shape, feeder, consumer, closed, stopped>>
      /\ {t[1], t[1] + 1} \subseteq DOMAIN queues /\ t[1] \in 1 .. NStages
  BY ShapeIs DEF WorkGet, WorkChecks, WorkReturns, WorkPut, WorkerStep
<1>2. NStages' = NStages /\ NStages \in Nat \ {0} /\ DOMAIN queues = 1 .. NStages + 1
  BY <1>1, ShapeIs DEF NStages
<1>3. \A u \in Threads :
        \/ worker'[u].at = worker[u].at
        \/ {worker[u].at, worker'[u].at} \subseteq {"getting", "running", "calling", "putting"}
  <2>1. worker \in [Threads -> [at : WorkerPoints, item : Inputs \cup {Sentinel}]]
    BY DEF PipelineType
  <2>2. CASE WorkGet(t) /\ Head(queues[t[1]]) # Sentinel
    BY <2>1, <2>2 DEF WorkGet
  <2>3. CASE WorkChecks(t) \/ WorkReturns(t) \/ WorkPut(t)
    <3>1. PICK at \in {"getting", "calling", "putting"} : MoveTo(t, at)
      BY <2>3 DEF WorkChecks, WorkReturns, WorkPut
    <3>2. worker[t].at \in {"running", "calling", "putting"}
      BY <2>3 DEF WorkChecks, WorkReturns, WorkPut
    <3>3. worker'[t] = [at |-> at, item |-> worker[t].item]
          /\ \A u \in Threads : u # t => worker'[u] = worker[u]
      BY <3>1, MoveToIs
    <3>4. worker'[t].at = at
      BY <3>3
    <3> QED BY <3>1, <3>2, <3>3, <3>4
  <2> QED BY <2>2, <2>3
<1>4. CASE WorkChecks(t) \/ WorkReturns(t)
  <2>1. queues' = queues
    BY <1>4 DEF WorkChecks, WorkReturns
  <2>2. SentinelAt(p)' /\ CountInv(p)'
    BY <1>1, <1>3, <2>1, QuietSentinel DEF HasSentinel, OneSentinel
  <2>3. SentinelBehindAll(p)'
    BY <1>2, <2>1 DEF SentinelBehindAll, SentinelLast, HasSentinel
  <2> QED BY <2>2, <2>3
<1>5. CASE WorkGet(t) /\ Head(queues[t[1]]) # Sentinel
  <2> DEFINE k == t[1]
  <2>1. Get(k)
    BY <1>5 DEF WorkGet
  <2>2. /\ DOMAIN queues' = DOMAIN queues /\ queues'[k] = Tail(queues[k]) /\ queues[k] # <<>>
        /\ \A l \in DOMAIN queues : l # k => queues'[l] = queues[l]
        /\ queues[k] \in Seq(Inputs \cup {Sentinel})
    BY <1>1, <2>1, QueueSteps
  <2>3. /\ \A l \in DOMAIN queues : HasSentinel(queues[l])' <=> HasSentinel(queues[l])
        /\ \A l \in DOMAIN queues : OneSentinel(queues[l]) => OneSentinel(queues[l])'
    BY <1>1, <1>5, <2>1, InputStep
  <2>4. SentinelAt(p)' /\ CountInv(p)'
    BY <1>1, <1>3, <2>2, <2>3, QuietSentinel
  <2>5. \A l \in DOMAIN queues : SentinelLast(queues[l]) => SentinelLast(queues[l])'
    <3>1. SentinelLast(queues[k]) => SentinelLast(queues'[k])
      BY <1>5, <2>2, GetInput
    <3>2. \A l \in DOMAIN queues : SentinelLast(queues[l]) => SentinelLast(queues'[l])
      BY <2>2, <3>1
    <3> QED BY <3>2 DEF SentinelLast
  <2>6. \A l \in DOMAIN queues : queues[l] = <<>> => queues'[l] = <<>>
    BY <2>2
  <2>7. 1 \in DOMAIN queues /\ 2 \in DOMAIN queues
    BY <1>2
  <2>8. SentinelBehindAll(p)'
    BY <1>2, <2>3, <2>5, <2>6, <2>7 DEF SentinelBehindAll
  <2> QED BY <2>4, <2>8
<1>6. CASE WorkPut(t)
  <2> DEFINE k == t[1] + 1
             x == worker[t].item
  <2>1. Put(k, x) /\ worker[t].at = "putting"
    BY <1>6 DEF WorkPut
  <2>2. x \in Inputs
    <3>1. x \in At(<<"worker", t>>) /\ <<"worker", t>> \in Places
      BY <2>1, PlaceIs DEF At, HeldBy
    <3>2. x \in 1 .. fed /\ fed \in 0 .. NInputs
      BY <3>1 DEF ItemsKept, PipelineType
    <3> QED BY <3>2, InputsAssumption DEF Inputs
  <2>3. /\ DOMAIN queues' = DOMAIN queues
        /\ \A l \in DOMAIN queues : l # k => queues'[l] = queues[l]
    BY <1>1, <2>1, QueueSteps
  <2>4. /\ \A l \in DOMAIN queues : HasSentinel(queues[l])' <=> HasSentinel(queues[l])
        /\ \A l \in DOMAIN queues : OneSentinel(queues[l]) => OneSentinel(queues[l])'
    <3>1. \E y \in Inputs : Put(k, y)
      BY <2>1, <2>2
    <3> QED BY <1>1, <3>1, InputStep
  <2>5. SentinelAt(p)' /\ CountInv(p)'
    BY <1>1, <1>3, <2>3, <2>4, QuietSentinel
  <2>6. queues'[1] = queues[1]
    BY <1>1, <1>2, <2>3
  <2>7. NStages = 1 /\ p > 1 => FALSE
    <3> SUFFICES ASSUME NStages = 1, p > 1 PROVE FALSE
      OBVIOUS
    <3>1. t[1] = 1 /\ t = <<1, t[2]>> /\ t[2] \in 1 .. shape.workers[1]
      BY <1>1, ThreadIs
    <3>2. t[2] \in Counted(1)
      BY <3>1 DEF CountInv, Everyone
    <3> QED BY <2>1, <3>1, <3>2 DEF Counted
  <2>8. SentinelLast(queues[1])' <=> SentinelLast(queues[1])
    BY <2>6 DEF SentinelLast
  <2>9. SentinelBehindAll(p)'
    BY <1>2, <2>4, <2>6, <2>7, <2>8 DEF SentinelBehindAll
  <2> QED BY <2>5, <2>9
<1> QED BY <1>4, <1>5, <1>6

\* A worker takes the sentinel.
LEMMA TakeSentinel ==
    ASSUME PipelineType, Started, NEW t \in Threads, WorkGet(t), Head(queues[t[1]]) = Sentinel,
           NEW p \in 0 .. NStages + 2, SentinelAt(p), SentinelBehindAll(p), CountInv(p)
    PROVE  SentinelAt(p)' /\ SentinelBehindAll(p)' /\ CountInv(p)'
<1> DEFINE k == t[1]
<1>1. /\ UNCHANGED <<shape, feeder, consumer, closed, stopped>> /\ Get(k) /\ worker[t].at = "getting"
      /\ worker' = [worker EXCEPT ![t] = [at |-> "counting", item |-> Sentinel]]
      /\ k \in DOMAIN queues /\ k \in 1 .. NStages
  <2>1. worker' = [worker EXCEPT ![t] =
                     [at |-> IF Head(queues[k]) = Sentinel THEN "counting" ELSE "running",
                      item |-> Head(queues[k])]]
    BY DEF WorkGet
  <2>2. worker' = [worker EXCEPT ![t] = [at |-> "counting", item |-> Sentinel]]
    BY <2>1
  <2>3. k \in DOMAIN queues /\ k \in 1 .. NStages
    BY ShapeIs
  <2> QED BY <2>2, <2>3 DEF WorkGet, WorkerStep
<1>2. NStages' = NStages /\ NStages \in Nat \ {0} /\ DOMAIN queues = 1 .. NStages + 1
      /\ Threads' = Threads /\ \A l : Everyone(l)' = Everyone(l)
  BY <1>1, ShapeIs DEF NStages, Threads, Everyone
<1>3. worker'[t].at = "counting" /\ \A u \in Threads : u # t => worker'[u] = worker[u]
  BY <1>1 DEF PipelineType
<1>4. /\ DOMAIN queues' = DOMAIN queues /\ queues'[k] = Tail(queues[k]) /\ queues[k] # <<>>
      /\ \A l \in DOMAIN queues : l # k => queues'[l] = queues[l]
      /\ queues[k] \in Seq(Inputs \cup {Sentinel})
  BY <1>1, QueueSteps
<1>5. HasSentinel(queues[k])
  BY <1>4, GetSentinel
<1>6. p = k
  BY <1>1, <1>5 DEF SentinelAt
<1>7. ~HasSentinel(queues'[k]) /\ (SentinelLast(queues[k]) => queues'[k] = <<>>)
  BY <1>1, <1>4, <1>6, GetSentinel DEF SentinelAt
<1>8. \A l \in DOMAIN queues : ~HasSentinel(queues[l])'
  <2>1. \A l \in DOMAIN queues : l # k => ~HasSentinel(queues[l])
    BY <1>6 DEF SentinelAt
  <2> QED BY <1>4, <1>7, <2>1 DEF HasSentinel
<1>9. \A u \in Threads : ~Carries(u) /\ worker[u].at \notin {"wakeIn", "wakeOut"}
  BY <1>5, <1>6 DEF SentinelAt
<1>10. /\ \A u \in Threads : Carries(u)' <=> u = t
       /\ \A u \in Threads : worker'[u].at \notin {"wakeIn", "wakeOut", "forward"}
       /\ \A u \in Threads : worker[u].at # "forward"
  BY <1>3, <1>9 DEF Carries
<1>11. \A l \in 1 .. NStages : Counted(l)' = Counted(l)
  <2> TAKE l \in 1 .. NStages
  <2>1. \A j \in 1 .. shape.workers[l] : <<l, j>> \in Threads
    BY ThreadIs, ShapeIs
  <2> QED BY <1>1, <1>3, <2>1 DEF Counted
<1>12. SentinelAt(p)'
  <2>1. OneSentinel(queues[p])'
    BY <1>1, <1>6, <1>8 DEF OneSentinel, HasSentinel
  <2>2. (p = 0 <=> feeder # "returned")'
        /\ (consumer' \in {"joining", "ended"} /\ ~closed' => p = NStages + 2)
        /\ (p = NStages + 2 => consumer' \in {"joining", "ended"})
    BY <1>1 DEF SentinelAt
  <2> QED BY <1>1, <1>2, <1>4, <1>6, <1>8, <1>10, <2>1, <2>2 DEF SentinelAt
<1>13. SentinelBehindAll(p)'
  <2>1. ~HasSentinel(queues[1])' /\ 1 \in DOMAIN queues
    BY <1>2, <1>8
  <2>2. p = 1 => queues'[1] = <<>>
    BY <1>5, <1>6, <1>7 DEF SentinelBehindAll
  <2>3. p > 1 => queues'[1] = <<>>
    BY <1>4, <1>6, <2>1 DEF SentinelBehindAll
  <2>4. NStages = 1 => p = 1
    BY <1>1, <1>6
  <2> QED BY <1>2, <2>1, <2>2, <2>3, <2>4 DEF SentinelBehindAll
<1>14. CountInv(p)'
  <2>1. 1 \in 1 .. NStages /\ (NStages > 1 => 2 \in 1 .. NStages)
    BY <1>2
  <2>2. p <= 1 => Counted(1) # Everyone(1)
    BY <1>1, <1>6, <1>10 DEF CountInv
  <2> QED BY <1>1, <1>2, <1>10, <1>11, <2>1, <2>2 DEF CountInv
<1> QED BY <1>12, <1>13, <1>14

\* A worker adds itself to `stopped`.
LEMMA CountSentinel ==
    ASSUME PipelineType, Started, NEW t \in Threads, WorkCount(t),
           NEW p \in 0 .. NStages + 2, SentinelAt(p), SentinelBehindAll(p), CountInv(p)
    PROVE  SentinelAt(p)' /\ SentinelBehindAll(p)' /\ CountInv(p)'
<1>1. PICK at \in {"forward", "again"} :
        /\ MoveTo(t, at)
        /\ at = "forward" <=> stopped + 1 = shape.workers[t[1]]
  BY DEF WorkCount, IsLast
<1>2. /\ UNCHANGED <<shape, feeder, consumer, closed, queues>> /\ worker[t].at = "counting"
      /\ stopped' = stopped + 1 /\ stopped \in Nat
  BY DEF WorkCount, WorkerStep, PipelineType
<1>3. NStages' = NStages /\ NStages \in Nat \ {0} /\ DOMAIN queues = 1 .. NStages + 1
      /\ Threads' = Threads /\ \A l : Everyone(l)' = Everyone(l)
  BY <1>2, ShapeIs DEF NStages, Threads, Everyone
<1>4. /\ \A l \in 1 .. NStages : l # t[1] => Counted(l)' = Counted(l)
      /\ Counted(t[1])' = Counted(t[1]) \cup {t[2]} /\ t[2] \notin Counted(t[1])
      /\ \A u \in Threads : u # t => (Carries(u)' <=> Carries(u)) /\ worker'[u] = worker[u]
      /\ Carries(t)' /\ worker'[t].at = at
  BY <1>1, <1>2, CountedAfter
<1>5. Carries(t) /\ t[1] = p /\ ~HasSentinel(queues[p]) /\ p \in 1 .. NStages
  BY <1>2, <1>3, ShapeIs DEF Carries, SentinelAt
<1>6. \A u \in Threads : u # t => ~Carries(u) /\ ~Carries(u)' /\ worker[u].at # "forward"
                                  /\ worker'[u].at # "forward"
  BY <1>4, <1>5 DEF SentinelAt, Carries
<1>7. \A u \in Threads : worker[u].at # "forward"
  BY <1>2, <1>6
<1>8. SentinelAt(p)'
  <2>1. \A u \in Threads : worker'[u].at \notin {"wakeIn", "wakeOut"}
    BY <1>1, <1>4 DEF SentinelAt
  <2>2. \A u \in Threads : Carries(u)' <=> u = t
    BY <1>4, <1>6
  <2>3. /\ (p = 0 <=> feeder # "returned")'
        /\ \A l \in DOMAIN queues : l # p => ~HasSentinel(queues[l])'
        /\ OneSentinel(queues[p])' /\ ~HasSentinel(queues[p])'
        /\ (consumer' \in {"joining", "ended"} /\ ~closed' => p = NStages + 2)
        /\ (p = NStages + 2 => consumer' \in {"joining", "ended"})
    BY <1>2, <1>3, <1>5 DEF SentinelAt, HasSentinel, OneSentinel
  <2> QED BY <1>2, <1>3, <1>5, <2>1, <2>2, <2>3 DEF SentinelAt
<1>9. SentinelBehindAll(p)'
  BY <1>2, <1>3 DEF SentinelBehindAll, HasSentinel, SentinelLast
<1>10. 1 \in 1 .. NStages /\ (NStages > 1 => 2 \in 1 .. NStages)
  BY <1>3
<1>11. /\ Cardinality(Counted(p)') = Cardinality(Counted(p)) + 1
       /\ Counted(p)' \subseteq Everyone(p)
       /\ Cardinality(Counted(p)') = shape.workers[p] <=> Counted(p)' = Everyone(p)
       /\ Cardinality(Counted(p)) \in Nat /\ shape.workers[p] \in Nat \ {0}
  <2>1. Counted(p) \subseteq Everyone(p) /\ IsFiniteSet(Counted(p)) /\ Cardinality(Counted(p)) \in Nat
        /\ shape.workers[p] \in Nat \ {0}
    BY <1>5, CountedIs
  <2>2. t[2] \in Everyone(p)
    BY <1>5, ThreadIs DEF Everyone
  <2>3. Counted(p)' \subseteq Everyone(p)
    BY <1>4, <1>5, <2>1, <2>2
  <2>4. Cardinality(Counted(p)') = Cardinality(Counted(p)) + 1
    <3>1. Cardinality(Counted(p) \cup {t[2]}) = Cardinality(Counted(p)) + 1
      BY <1>4, <1>5, <2>1, FS_AddElement
    <3> QED BY <1>4, <1>5, <3>1
  <2>5. IsFiniteSet(Everyone(p)) /\ Cardinality(Everyone(p)) = shape.workers[p]
    <3>1. PICK n \in Nat \ {0} : n = shape.workers[p]
      BY <2>1
    <3>2. IsFiniteSet(1 .. n) /\ Cardinality(1 .. n) = IF 1 > n THEN 0 ELSE n - 1 + 1
      BY FS_Interval
    <3> QED BY <3>1, <3>2 DEF Everyone
  <2>6. Cardinality(Counted(p)') = Cardinality(Everyone(p)) => Counted(p)' = Everyone(p)
    BY <2>3, <2>5, FS_Subset
  <2> QED BY <2>1, <2>3, <2>4, <2>5, <2>6
<1>12. ASSUME p = 1 PROVE CountInv(p)'
  <2>1. Counted(1) # Everyone(1) /\ stopped = Cardinality(Counted(1))
    BY <1>7, <1>12 DEF CountInv
  <2>2. stopped' = Cardinality(Counted(1)') /\ (at = "forward" <=> Counted(1)' = Everyone(1))
    BY <1>1, <1>2, <1>5, <1>11, <1>12, <2>1
  <2>3. (\E u \in Threads : worker'[u].at = "forward") <=> at = "forward"
    BY <1>4, <1>6
  <2>4. \A k \in 1 .. NStages : k > p => Counted(k)' = {}
    BY <1>4, <1>5 DEF CountInv
  <2> QED BY <1>3, <1>12, <2>2, <2>3, <2>4 DEF CountInv
<1>13. ASSUME p > 1 PROVE CountInv(p)'
  <2>1. NStages > 1 /\ Counted(1)' = Counted(1) /\ Counted(1) = Everyone(1)
    BY <1>3, <1>4, <1>5, <1>10, <1>13 DEF CountInv
  <2>2. \A k \in 1 .. NStages : k > p => Counted(k)' = {}
    BY <1>4, <1>5 DEF CountInv
  <2>3. ASSUME p = 2
        PROVE  /\ stopped' = shape.workers[1] + Cardinality(Counted(2)')
               /\ at = "forward" => Counted(2)' # Everyone(2)
    <3>1. stopped = shape.workers[1] + Cardinality(Counted(2)) /\ shape.workers[1] \in Nat \ {0}
      BY <1>10, <2>1, <2>3, CountedIs DEF CountInv
    <3>2. stopped' = shape.workers[1] + Cardinality(Counted(2)')
      BY <1>2, <1>11, <2>3, <3>1
    <3>3. at = "forward" => Cardinality(Counted(2)') # shape.workers[2]
      BY <1>1, <1>5, <1>11, <2>3, <3>1
    <3> QED BY <1>11, <2>3, <3>2, <3>3
  <2>4. \A u \in Threads : worker'[u].at = "forward" => at = "forward"
    BY <1>4, <1>6
  <2>5. p > 2 => Counted(2)' = Counted(2)
    BY <1>4, <1>5, <1>10, <2>1
  <2>6. p > 2 => Counted(2)' # Everyone(2)
    BY <2>1, <2>5 DEF CountInv
  <2> QED BY <1>2, <1>3, <1>13, <2>1, <2>2, <2>3, <2>4, <2>6 DEF CountInv
<1>14. p = 1 \/ p > 1
  BY <1>5
<1> QED BY <1>8, <1>9, <1>12, <1>13, <1>14

\* What holds of all threads when the one that carries the sentinel passes it on.
LEMMA PassedOn ==
    ASSUME PipelineType, Started, NEW t \in Threads, WorkPass(t), NEW k \in DOMAIN queues,
           Put(k, Sentinel),
           NEW p \in 0 .. NStages + 2, SentinelAt(p), k \in {p, p + 1}
    PROVE  /\ t[1] = p /\ p \in 1 .. NStages /\ Carries(t) /\ NStages' = NStages
           /\ Threads' = Threads /\ (\A l : Everyone(l)' = Everyone(l))
           /\ UNCHANGED <<shape, feeder, consumer, closed, stopped>>
           /\ \A u \in Threads : ~Carries(u)'
                                 /\ worker'[u].at \notin {"wakeIn", "wakeOut", "forward"}
           /\ \A l \in 1 .. NStages : Counted(l)' = Counted(l)
           /\ SentinelLast(queues[k])' /\ OneSentinel(queues[k])' /\ HasSentinel(queues[k])'
           /\ DOMAIN queues' = DOMAIN queues
           /\ \A l \in DOMAIN queues : l # k => queues'[l] = queues[l] /\ ~HasSentinel(queues[l])'
           /\ SentinelAt(k)'
<1>1. /\ UNCHANGED <<shape, feeder, consumer, closed, stopped>> /\ MoveTo(t, "returned")
      /\ worker[t].at \in {"again", "forward"}
  BY DEF WorkPass, WorkerStep
<1>2. NStages' = NStages /\ Threads' = Threads /\ \A l : Everyone(l)' = Everyone(l)
  BY <1>1 DEF NStages, Threads, Everyone
<1>3. Carries(t) /\ t[1] = p /\ p \in 1 .. NStages /\ ~HasSentinel(queues[p])
      /\ DOMAIN queues = 1 .. NStages + 1 /\ NStages \in Nat \ {0}
  BY <1>1, ShapeIs DEF Carries, SentinelAt
<1>4. /\ \A l \in 1 .. NStages : Counted(l)' = Counted(l)
      /\ \A u \in Threads : u # t => (Carries(u)' <=> Carries(u)) /\ worker'[u] = worker[u]
      /\ ~Carries(t)' /\ worker'[t].at = "returned"
  BY <1>1, CountedAfter
<1>5. \A u \in Threads : ~Carries(u)' /\ worker'[u].at \notin {"wakeIn", "wakeOut", "forward"}
  <2>1. \A u \in Threads : u # t => ~Carries(u)
    BY <1>3 DEF SentinelAt
  <2> QED BY <1>4, <2>1 DEF SentinelAt, Carries
<1>6. \A l \in DOMAIN queues : ~HasSentinel(queues[l])
  BY <1>3 DEF SentinelAt
<1>7. /\ DOMAIN queues' = DOMAIN queues /\ queues'[k] = Append(queues[k], Sentinel)
      /\ \A l \in DOMAIN queues : l # k => queues'[l] = queues[l]
      /\ queues[k] \in Seq(Inputs \cup {Sentinel})
  BY QueueSteps
<1>8. SentinelLast(queues[k])' /\ OneSentinel(queues[k])' /\ HasSentinel(queues[k])'
  <2>1. SentinelLast(queues'[k]) /\ OneSentinel(queues'[k]) /\ HasSentinel(queues'[k])
    BY <1>6, <1>7, PutSentinel
  <2> QED BY <2>1 DEF SentinelLast, OneSentinel, HasSentinel
<1>9. \A l \in DOMAIN queues : l # k => ~HasSentinel(queues[l])'
  BY <1>6, <1>7 DEF HasSentinel
<1>10. SentinelAt(k)'
  <2>1. /\ feeder' = "returned" /\ k # 0 /\ k # NStages + 2
        /\ ~(consumer' \in {"joining", "ended"} /\ ~closed')
    BY <1>1, <1>3 DEF SentinelAt
  <2> QED BY <1>2, <1>5, <1>7, <1>8, <1>9, <2>1 DEF SentinelAt
<1> QED BY <1>1, <1>2, <1>3, <1>4, <1>5, <1>7, <1>8, <1>9, <1>10

LEMMA PassSentinel ==
    ASSUME PipelineType, Started, NEW t \in Threads, WorkPass(t),
           NEW p \in 0 .. NStages + 2, SentinelAt(p), SentinelBehindAll(p), CountInv(p)
    PROVE  \E q \in 0 .. NStages + 2 : SentinelAt(q)' /\ SentinelBehindAll(q)' /\ CountInv(q)'
<1>1. Carries(t) /\ t[1] = p /\ p \in 1 .. NStages
      /\ DOMAIN queues = 1 .. NStages + 1 /\ NStages \in Nat \ {0}
  BY ShapeIs DEF WorkPass, Carries, SentinelAt
<1>2. 1 \in 1 .. NStages /\ (NStages > 1 => 2 \in 1 .. NStages)
  BY <1>1
<1>3. CASE worker[t].at = "again"
  <2>1. Put(p, Sentinel) /\ p \in DOMAIN queues
    BY <1>1, <1>3 DEF WorkPass
  <2>2. /\ NStages' = NStages /\ Threads' = Threads /\ (\A l : Everyone(l)' = Everyone(l))
        /\ UNCHANGED <<shape, stopped>>
        /\ \A u \in Threads : worker'[u].at # "forward"
        /\ \A l \in 1 .. NStages : Counted(l)' = Counted(l)
        /\ SentinelLast(queues[p])' /\ HasSentinel(queues[p])'
        /\ \A l \in DOMAIN queues : l # p => queues'[l] = queues[l]
        /\ SentinelAt(p)'
    BY <2>1, PassedOn
  <2>3. \A u \in Threads : worker[u].at # "forward"
    BY <1>1, <1>3 DEF SentinelAt, Carries
  <2>4. SentinelBehindAll(p)'
    <3>1. p > 1 => queues'[1] = <<>>
      BY <1>1, <2>2 DEF SentinelBehindAll
    <3>2. NStages = 1 => p = 1
      BY <1>1
    <3> QED BY <2>2, <3>1, <3>2 DEF SentinelBehindAll
  <2>5. CountInv(p)'
    BY <1>2, <2>2, <2>3 DEF CountInv
  <2> QED BY <2>2, <2>4, <2>5
<1>4. CASE worker[t].at = "forward"
  <2> DEFINE q == p + 1
  <2>1. Put(q, Sentinel) /\ q \in DOMAIN queues /\ q # p /\ q \in 0 .. NStages + 2 /\ q > 1
    BY <1>1, <1>4 DEF WorkPass
  <2>2. /\ NStages' = NStages /\ Threads' = Threads /\ (\A l : Everyone(l)' = Everyone(l))
        /\ UNCHANGED <<shape, stopped>>
        /\ \A u \in Threads : worker'[u].at # "forward"
        /\ \A l \in 1 .. NStages : Counted(l)' = Counted(l)
        /\ SentinelLast(queues[q])'
        /\ \A l \in DOMAIN queues : l # q => queues'[l] = queues[l]
        /\ SentinelAt(q)'
    BY <2>1, PassedOn
  <2>3. SentinelBehindAll(q)'
    <3>1. queues[1] = <<>>
      <4>1. ~HasSentinel(queues[p])
        BY <1>1 DEF SentinelAt
      <4>2. p = 1 \/ p > 1
        BY <1>1
      <4> QED BY <4>1, <4>2 DEF SentinelBehindAll
    <3>2. queues'[1] = <<>>
      BY <1>1, <2>1, <2>2, <3>1
    <3>3. NStages = 1 => q = 2
      BY <1>1
    <3>4. q # 1
      BY <2>1
    <3> QED BY <2>2, <3>2, <3>3, <3>4 DEF SentinelBehindAll
  <2>4. CountInv(q)'
    <3>1. \A k \in 1 .. NStages : k > q => Counted(k)' = {}
      BY <1>1, <2>2 DEF CountInv
    <3>2. Counted(1)' = Everyone(1)
      <4>1. p = 1 \/ p > 1
        BY <1>1
      <4>2. Counted(1) = Everyone(1)
        BY <1>4, <4>1 DEF CountInv
      <4> QED BY <1>2, <2>2, <4>2
    <3>3. q = 2 /\ NStages > 1 => stopped' = shape.workers[1] + Cardinality(Counted(2)')
      <4> SUFFICES ASSUME q = 2, NStages > 1
                   PROVE  stopped' = shape.workers[1] + Cardinality(Counted(2)')
        OBVIOUS
      <4>1. p = 1
        BY <1>1
      <4>2. Counted(2) = {} /\ stopped = Cardinality(Counted(1)) /\ Counted(1) = Everyone(1)
        BY <1>2, <1>4, <4>1 DEF CountInv
      <4>3. Cardinality(Counted(1)) = shape.workers[1] /\ shape.workers[1] \in Nat
        BY <1>2, <4>2, CountedIs
      <4>4. Counted(2)' = {} /\ stopped' = stopped
        BY <1>2, <2>2, <4>2
      <4> QED BY <4>2, <4>3, <4>4, FS_EmptySet
    <3>4. q > 2 /\ NStages > 1 => Counted(2)' # Everyone(2)
      <4> SUFFICES ASSUME q > 2, NStages > 1 PROVE Counted(2)' # Everyone(2)
        OBVIOUS
      <4>1. p = 2 \/ p > 2
        BY <1>1
      <4>2. Counted(2) # Everyone(2)
        BY <1>4, <4>1 DEF CountInv
      <4> QED BY <1>2, <2>2, <4>2
    <3>5. ~(q <= 1) /\ q # 1
      BY <2>1
    <3> HIDE DEF q
    <3> QED BY <2>2, <3>1, <3>2, <3>3, <3>4, <3>5 DEF CountInv
  <2> QED BY <2>1, <2>2, <2>3, <2>4
<1> QED BY <1>3, <1>4 DEF WorkPass

LEMMA WorkSentinel ==
    ASSUME PipelineType, Started, ItemsKept, SentinelInv, NEW t \in Threads, Work(t)
    PROVE  SentinelInv'
<1> SUFFICES ASSUME ~stop'
             PROVE  \E p \in 0 .. NStages' + 2 :
                        SentinelAt(p)' /\ SentinelBehindAll(p)' /\ CountInv(p)'
  BY DEF SentinelInv
<1>1. ~stop /\ ~WorkRaises(t) /\ shape' = shape
  BY DEF Work, WorkGet, WorkCount, WorkPass, WorkChecks, WorkReturns, WorkRaises, WorkWake,
         WorkPut, SetError,
         WorkerStep
<1>2. NStages' = NStages
  BY <1>1 DEF NStages
<1>3. PICK p \in 0 .. NStages + 2 : SentinelAt(p) /\ SentinelBehindAll(p) /\ CountInv(p)
  BY <1>1 DEF SentinelInv
<1>4. ~WorkWake(t)
  BY <1>3 DEF WorkWake, SentinelAt
<1>5. CASE WorkPass(t)
  BY <1>2, <1>3, <1>5, PassSentinel
<1>6. CASE WorkCount(t)
  BY <1>2, <1>3, <1>6, CountSentinel
<1>7. CASE WorkGet(t) /\ Head(queues[t[1]]) = Sentinel
  BY <1>2, <1>3, <1>7, TakeSentinel
<1>8. CASE \/ WorkGet(t) /\ Head(queues[t[1]]) # Sentinel
           \/ WorkChecks(t) \/ WorkReturns(t) \/ WorkPut(t)
  BY <1>2, <1>3, <1>8, WorkQuietSentinel
<1> QED BY <1>1, <1>4, <1>5, <1>6, <1>7, <1>8 DEF Work

----------------------------------------------------------------------------
(* The invariant. *)

LEMMA MapKeeps ==
    ASSUME PipelineType, PipelineInit, Map
    PROVE  Started' /\ ItemsUnique' /\ ItemsKept' /\ FeederInv' /\ CallerInv' /\ SentinelInv'
<1>1. /\ shape' \in Shapes /\ shape'.workers \in Seq(Nat \ {0}) /\ shape'.workers # <<>>
      /\ queues' = [k \in 1 .. Len(shape'.workers) + 1 |-> <<>>]
      /\ worker' = [t \in Threads' |-> [at |-> "getting", item |-> Sentinel]]
      /\ feeder' = "checking" /\ fed' = 0 /\ stopped' = 0 /\ stop' = FALSE
      /\ consumer' = "getting" /\ buffer' = {} /\ yielded' = <<>>
  BY ShapesAssumption DEF Map, PipelineInit
<1>2. Started'
  BY <1>1 DEF Started, NoShape
<1>3. NStages' \in Nat \ {0} /\ \A k \in 1 .. NStages' : shape'.workers[k] \in Nat \ {0}
  BY <1>1 DEF NStages
<1>4. /\ \A k \in DOMAIN queues' : queues'[k] = <<>>
      /\ \A t \in Threads' : worker'[t].at = "getting"
  BY <1>1
<1>5. Outputs' = {}
  BY <1>1 DEF Outputs
<1>6. /\ \A k \in DOMAIN queues' : Contents(queues[k])' = {} /\ Distinct(queues[k])'
                                   /\ ~HasSentinel(queues[k])' /\ OneSentinel(queues[k])'
      /\ \A t \in Threads' : HeldBy(t)' = {} /\ ~Carries(t)'
  BY <1>4 DEF Contents, Distinct, HasSentinel, OneSentinel, HeldBy, Carries
<1>7. \A p \in Places' : At(p)' = {}
  <2> TAKE p \in Places'
  <2>1. \/ \E k \in DOMAIN queues' : p = <<"queue", k>>
        \/ \E t \in Threads' : p = <<"worker", t>>
        \/ p = <<"buffer", 0>>
        \/ p = <<"yielded", 0>>
    BY DEF Places
  <2>2. ASSUME NEW k \in DOMAIN queues', p = <<"queue", k>> PROVE At(p)' = {}
    BY <1>6, <2>2 DEF At
  <2>3. ASSUME NEW t \in Threads', p = <<"worker", t>> PROVE At(p)' = {}
    BY <1>6, <2>3 DEF At
  <2>4. CASE p = <<"buffer", 0>> \/ p = <<"yielded", 0>>
    BY <1>1, <1>5, <2>4 DEF At
  <2> QED BY <2>1, <2>2, <2>3, <2>4
<1>8. ItemsUnique' /\ ItemsKept'
  BY <1>1, <1>6, <1>7 DEF ItemsUnique, Exclusive, ItemsKept
<1>9. FeederInv' /\ CallerInv'
  BY <1>1 DEF FeederInv, CallerInv, Due
<1>01. 0 # NStages' + 2 /\ 0 \in 0 .. NStages' + 2
  <2>1. PICK n \in Nat : n = NStages'
    BY <1>3
  <2>2. 0 # n + 2 /\ 0 \in 0 .. n + 2
    OBVIOUS
  <2> QED BY <2>1, <2>2
<1>10. SentinelAt(0)'
  <2>1. \A k \in DOMAIN queues' : k # 0
    BY <1>1
  <2> QED BY <1>1, <1>01, <1>4, <1>6, <2>1 DEF SentinelAt
<1>11. CountInv(0)'
  <2>1. \A k \in 1 .. NStages' : Counted(k)' = {}
    <3> TAKE k \in 1 .. NStages'
    <3>1. \A j \in 1 .. shape'.workers[k] : <<k, j>> \in Threads'
      BY <1>1 DEF Threads, ThreadsOf, NStages
    <3> QED BY <1>4, <3>1 DEF Counted
  <2>2. Cardinality(Counted(1)') = 0
    BY <1>3, <2>1, FS_EmptySet
  <2> QED BY <1>1, <2>1, <2>2 DEF CountInv
<1>12. SentinelBehindAll(0)'
  BY DEF SentinelBehindAll
<1> QED BY <1>01, <1>1, <1>2, <1>8, <1>9, <1>10, <1>11, <1>12 DEF SentinelInv

LEMMA PipelineStarts == PipelineInit => PipelineInv
<1> SUFFICES ASSUME PipelineInit PROVE PipelineInv
  OBVIOUS
<1>1. ~Started
  BY DEF PipelineInit, Started
<1>2. stop = (raised > 0)
  <2>1. stop = FALSE /\ raised = 0
    BY DEF PipelineInit
  <2>2. (raised > 0) = FALSE
    BY <2>1
  <2> QED BY <2>1, <2>2
<1>3. PipelineType
  <2>1. 0 \in 0 .. NInputs /\ 0 \in 0 .. MaxErrors
    BY InputsAssumption
  <2>2. fed \in 0 .. NInputs /\ raised \in 0 .. MaxErrors /\ stopped \in Nat
    BY <2>1 DEF PipelineInit
  <2>3. yielded \in Seq(Inputs) /\ buffer \subseteq Inputs
    BY DEF PipelineInit
  <2> QED BY <1>1, <1>2, <2>2, <2>3 DEF PipelineInit, PipelineType
<1> QED BY <1>1, <1>3 DEF PipelineInv

LEMMA PipelineStep ==
    ASSUME PipelineInv, [PipelineNext]_pipelineVars
    PROVE  PipelineInv'
<1>1. PipelineType
  BY DEF PipelineInv
<1>2. ASSUME Started, Feed \/ Consume \/ \E t \in Threads : Work(t) PROVE PipelineInv'
  <2>1. ItemsUnique /\ ItemsKept /\ FeederInv /\ CallerInv /\ SentinelInv
    BY <1>2 DEF PipelineInv
  <2>2. PipelineType'
    BY <1>1, <1>2, <2>1, FeedTypes, ConsumeTypes, WorkTypes
  <2>3. ItemsUnique' /\ ItemsKept'
    BY <1>1, <1>2, <2>1, FeedItems, ConsumeItems, WorkItems
  <2>4. FeederInv' /\ CallerInv'
    BY <1>1, <1>2, <2>1, FeederKeeps, CallerKeeps
  <2>5. SentinelInv'
    BY <1>1, <1>2, <2>1, FeedSentinel, ConsumeSentinel, WorkSentinel
  <2>6. Started'
    BY <1>2 DEF Started, Feed, FeedCheck, FeedRaises, FeedPut, FeedClose, FeederStep,
                Consume, Receive, Emit, ResumeMap, CloseMap, JoinThreads, ConsumerStep,
                Work, WorkGet, WorkCount, WorkPass, WorkChecks, WorkReturns, WorkRaises, WorkWake,
                WorkPut,
                WorkerStep
  <2> QED BY <2>2, <2>3, <2>4, <2>5, <2>6 DEF PipelineInv
<1>3. CASE Map
  <2>1. PipelineInit
    BY <1>3 DEF Map, PipelineInv
  <2> QED BY <1>1, <1>3, <2>1, MapTypes, MapKeeps DEF PipelineInv
<1>4. CASE UNCHANGED pipelineVars
  <2> USE <1>4 DEF pipelineVars
  <2>1. PipelineType' /\ (Started' <=> Started) /\ (PipelineInit' <=> PipelineInit)
    BY <1>1 DEF PipelineType, Started, PipelineInit, Threads
  <2>2. ItemsUnique' <=> ItemsUnique
    BY DEF ItemsUnique, Exclusive, Distinct, Places, At, Contents, HeldBy, Outputs, Threads
  <2>3. ItemsKept' <=> ItemsKept
    BY DEF ItemsKept, Places, At, Contents, HeldBy, Outputs, Threads
  <2>4. (FeederInv' <=> FeederInv) /\ (CallerInv' <=> CallerInv)
    BY DEF FeederInv, CallerInv, Due, Alive, Threads
  <2>5. SentinelInv' <=> SentinelInv
    <3>1. NStages' = NStages /\ \A k : Counted(k)' = Counted(k) /\ Everyone(k)' = Everyone(k)
      BY DEF NStages, Counted, Everyone
    <3>2. \A p : SentinelAt(p)' <=> SentinelAt(p)
      BY <3>1 DEF SentinelAt, HasSentinel, OneSentinel, Carries, Threads
    <3>3. \A p : SentinelBehindAll(p)' <=> SentinelBehindAll(p)
      BY <3>1 DEF SentinelBehindAll, HasSentinel, SentinelLast
    <3>4. \A p : CountInv(p)' <=> CountInv(p)
      BY <3>1 DEF CountInv, Threads
    <3> QED BY <3>1, <3>2, <3>3, <3>4 DEF SentinelInv
  <2> QED BY <2>1, <2>2, <2>3, <2>4, <2>5 DEF PipelineInv
<1>5. PipelineNext => Map \/ (Started /\ (Feed \/ Consume \/ \E t \in Threads : Work(t)))
  BY DEF PipelineNext, Feed, Consume
<1> QED BY <1>2, <1>3, <1>4, <1>5

----------------------------------------------------------------------------
(* What follows from it. *)

LEMMA EndedWithout ==
    ASSUME PipelineInv, consumer = "ended", ~stop, ~closed
    PROVE  /\ Started /\ NStages = 1 /\ feeder = "returned" /\ Due = {}
           /\ queues[1] = <<>> /\ queues[2] = <<>>
           /\ \A t \in Threads : ~Alive(t)
<1>1. Started
  BY DEF PipelineInv, PipelineInit
<1>2. PipelineType /\ CallerInv /\ SentinelInv /\ NStages \in Nat \ {0}
  BY <1>1, ShapeIs DEF PipelineInv
<1>3. SentinelAt(NStages + 2) /\ SentinelBehindAll(NStages + 2) /\ CountInv(NStages + 2)
  BY <1>2 DEF SentinelInv, SentinelAt
<1>4. \A t \in Threads : ~Alive(t)
  BY <1>2 DEF CallerInv
<1>5. NStages = 1
  <2> SUFFICES ASSUME NStages > 1 PROVE FALSE
    BY <1>2
  <2>1. Counted(2) # Everyone(2) /\ 2 \in 1 .. NStages
    BY <1>2, <1>3 DEF CountInv
  <2>2. \A j \in 1 .. shape.workers[2] : <<2, j>> \in Threads
    BY <1>1, <1>2, <2>1, ThreadIs, ShapeIs
  <2> QED BY <1>4, <2>1, <2>2 DEF Counted, Everyone, Alive
<1>6. queues[1] = <<>> /\ queues[2] = <<>>
  BY <1>3, <1>5 DEF SentinelBehindAll
<1>7. feeder = "returned" /\ Due = {}
  BY <1>2, <1>3 DEF SentinelAt, CallerInv
<1> QED BY <1>1, <1>4, <1>5, <1>6, <1>7

LEMMA WholeFromInv == PipelineInv => OutputsWhole
<1> SUFFICES ASSUME PipelineInv PROVE OutputsWhole
  OBVIOUS
<1>1. \A i, j \in DOMAIN yielded : yielded[i] = yielded[j] => i = j
  BY DEF PipelineInv, PipelineInit, ItemsUnique
<1>2. Started /\ shape.ordered => \A i \in DOMAIN yielded : yielded[i] = i
  BY DEF PipelineInv, CallerInv
<1>3. ASSUME consumer = "ended", ~stop, ~closed PROVE Len(yielded) = NInputs
  <2> DEFINE n == Len(yielded)
  <2>1. /\ Started /\ NStages = 1 /\ feeder = "returned" /\ Due = {}
        /\ queues[1] = <<>> /\ queues[2] = <<>> /\ \A t \in Threads : ~Alive(t)
    BY <1>3, EndedWithout
  <2>2. PipelineType /\ ItemsKept /\ FeederInv /\ Exclusive
    BY <2>1 DEF PipelineInv, ItemsUnique
  <2>3. fed = NInputs /\ NInputs \in Nat
    BY <1>3, <2>1, <2>2, InputsAssumption DEF FeederInv
  <2>4. /\ yielded \in [1 .. n -> Inputs] /\ n \in Nat /\ buffer \subseteq Inputs
        /\ DOMAIN yielded = 1 .. n
    BY <2>2 DEF PipelineType
  <2>5. Inputs \subseteq buffer \cup Outputs
    <3>1. DOMAIN queues = {1, 2}
      BY <2>1, <2>2, ShapeIs
    <3>2. \A p \in Places : At(p) \subseteq buffer \cup Outputs
      <4> TAKE p \in Places
      <4>1. \A k \in DOMAIN queues : Contents(queues[k]) = {}
        BY <2>1, <3>1 DEF Contents
      <4>2. \A t \in Threads : HeldBy(t) = {}
        BY <2>1 DEF HeldBy, Alive
      <4> QED BY <4>1, <4>2, PlaceIs DEF At
    <3> QED BY <1>3, <2>2, <2>3, <3>2 DEF ItemsKept, Inputs
  <2>6. CASE ~shape.ordered
    <3>1. Outputs = Inputs
      BY <2>1, <2>4, <2>5, <2>6 DEF Due, Outputs
    <3>2. yielded \in Bijection(1 .. n, Inputs)
      BY <1>1, <2>4, <3>1 DEF Bijection, Injection, Surjection, IsInjective, Outputs
    <3>3. \A m \in Nat : IsFiniteSet(1 .. m) /\ Cardinality(1 .. m) = m
      <4> TAKE m \in Nat
      <4>1. IsFiniteSet(1 .. m) /\ Cardinality(1 .. m) = IF 1 > m THEN 0 ELSE m - 1 + 1
        BY FS_Interval
      <4> QED BY <4>1
    <3>4. Cardinality(Inputs) = NInputs /\ IsFiniteSet(1 .. n) /\ Cardinality(1 .. n) = n
      BY <2>3, <2>4, <3>3 DEF Inputs
    <3> QED BY <3>2, <3>4, FS_Bijection DEF ExistsBijection
  <2>7. CASE shape.ordered
    <3>1. \A i \in 1 .. n : yielded[i] = i
      BY <1>2, <2>1, <2>4, <2>7
    <3>2. n <= NInputs
      <4>1. n > 0 => n \in 1 .. n
        BY <2>4
      <4>2. n > 0 => n \in Inputs
        BY <2>4, <3>1, <4>1
      <4> QED BY <2>3, <2>4, <4>2 DEF Inputs
    <3>3. n + 1 \notin buffer
      BY <2>1, <2>7 DEF Due
    <3>4. n + 1 \notin Outputs
      BY <2>4, <3>1 DEF Outputs
    <3>5. n + 1 \notin Inputs
      BY <2>5, <3>3, <3>4
    <3> HIDE DEF n
    <3>6. ~(n + 1 <= NInputs)
      BY <2>3, <2>4, <3>5 DEF Inputs
    <3>7. n = NInputs
      BY <2>3, <2>4, <3>2, <3>6
    <3> QED BY <3>7 DEF n
  <2>8. shape.ordered \in BOOLEAN
    BY <2>1, <2>2, ShapeIs
  <2> QED BY <2>6, <2>7, <2>8
<1> QED BY <1>1, <1>2, <1>3 DEF OutputsWhole

LEMMA SeveralFromInv == PipelineInv => SeveralStagesNeverEnd
BY EndedWithout DEF SeveralStagesNeverEnd

----------------------------------------------------------------------------
(* The end of a map() of one stage. *)

LEMMA PastIs ==
    ASSUME PipelineType, Started, NStages = 1
    PROVE  /\ Past \subseteq Everyone(1) /\ IsFiniteSet(Past) /\ Cardinality(Past) \in Nat
           /\ shape.workers[1] \in Nat \ {0}
           /\ Cardinality(Past) <= shape.workers[1]
           /\ Cardinality(Past) = shape.workers[1] <=> Past = Everyone(1)
           /\ \A P \in SUBSET Everyone(1) :
                /\ Cardinality(P) <= shape.workers[1]
                /\ Cardinality(P) = shape.workers[1] => P = Everyone(1)
<1>1. shape.workers[1] \in Nat \ {0}
  BY ShapeIs
<1> DEFINE w == shape.workers[1]
<1>2. w \in Nat \ {0} /\ Everyone(1) = 1 .. w
  BY <1>1 DEF Everyone
<1> HIDE DEF w
<1>3. IsFiniteSet(1 .. w) /\ Cardinality(1 .. w) = w
  <2>1. IsFiniteSet(1 .. w) /\ Cardinality(1 .. w) = IF 1 > w THEN 0 ELSE w - 1 + 1
    BY <1>2, FS_Interval
  <2> QED BY <1>2, <2>1
<1>4. Past \subseteq 1 .. w
  BY <1>2 DEF Past
<1>5. /\ IsFiniteSet(Past) /\ Cardinality(Past) \in Nat /\ Cardinality(Past) <= Cardinality(1 .. w)
      /\ \A P \in SUBSET (1 .. w) :
            /\ Cardinality(P) <= Cardinality(1 .. w)
            /\ Cardinality(P) = Cardinality(1 .. w) => P = 1 .. w
  BY <1>3, <1>4, FS_Subset, FS_CardinalityType
<1> QED BY <1>2, <1>3, <1>4, <1>5 DEF w

\* The threads are the workers of the one stage.
LEMMA OneStageIs ==
    ASSUME PipelineType, Started, NStages = 1
    PROVE  /\ DOMAIN queues = {1, 2} /\ Len(queues) = 2
           /\ \A t \in Threads : t[1] = 1 /\ t = <<1, t[2]>> /\ t[2] \in Everyone(1)
           /\ \A j \in Everyone(1) : <<1, j>> \in Threads
           /\ (\A t \in Threads : worker[t].at \in PastItems) <=> Past = Everyone(1)
<1>1. DOMAIN queues = {1, 2} /\ Len(queues) = 2 /\ 1 \in 1 .. NStages
  BY ShapeIs
<1>2. /\ \A t \in Threads : t[1] = 1 /\ t = <<1, t[2]>> /\ t[2] \in Everyone(1)
      /\ \A j \in Everyone(1) : <<1, j>> \in Threads
  BY ShapeIs, ThreadIs DEF Everyone
<1> QED BY <1>1, <1>2 DEF Past

LEMMA MovedAt ==
    ASSUME PipelineType, Started, NEW t \in Threads, NEW at, MoveTo(t, at)
    PROVE  worker'[t].at = at /\ \A u \in Threads : u # t => worker'[u] = worker[u]
<1>1. worker'[t] = [at |-> at, item |-> worker[t].item]
      /\ \A u \in Threads : u # t => worker'[u] = worker[u]
  BY MoveToIs
<1> QED BY <1>1

\* What is past after worker t has moved; none comes back.
LEMMA PastAfter ==
    ASSUME PipelineType, Started, NStages = 1, shape' = shape, NEW t \in Threads,
           \A u \in Threads : u # t => worker'[u] = worker[u],
           worker[t].at \in PastItems => worker'[t].at \in PastItems
    PROVE  /\ Threads' = Threads /\ NStages' = 1 /\ Everyone(1)' = Everyone(1)
           /\ Past' = IF worker'[t].at \in PastItems THEN Past \cup {t[2]} ELSE Past
           /\ worker[t].at \in PastItems <=> t[2] \in Past
<1>1. Threads' = Threads /\ NStages' = 1 /\ Everyone(1)' = Everyone(1)
  BY DEF Threads, NStages, Everyone
<1>2. /\ t = <<1, t[2]>> /\ t[2] \in Everyone(1)
      /\ \A j \in Everyone(1) : <<1, j>> \in Threads /\ (j # t[2] => <<1, j>> # t)
  BY OneStageIs
<1>3. \A j \in Everyone(1) :
        worker'[<<1, j>>].at \in PastItems <=> j \in Past \/ (j = t[2] /\ worker'[t].at \in PastItems)
  BY <1>2 DEF Past
<1>4. Past' = {j \in Everyone(1) : worker'[<<1, j>>].at \in PastItems}
  BY <1>1 DEF Past
<1>5. worker[t].at \in PastItems <=> t[2] \in Past
  BY <1>2 DEF Past
<1>6. Past \subseteq Everyone(1)
  BY DEF Past
<1> QED BY <1>1, <1>2, <1>3, <1>4, <1>5, <1>6

\* A sentinel leaves a queue only when somebody takes it.
LEMMA SentinelKept ==
    ASSUME PipelineType, Started, NEW k \in DOMAIN queues
    PROVE  /\ \A x \in Inputs \cup {Sentinel} : Put(k, x) \/ PutNowait(k, x) =>
                \A l \in DOMAIN queues : HasSentinel(queues[l]) => HasSentinel(queues[l])'
           /\ Get(k) =>
                \A l \in DOMAIN queues :
                    HasSentinel(queues[l]) /\ (l # k \/ Head(queues[k]) # Sentinel)
                        => HasSentinel(queues[l])'
           /\ Put(k, Sentinel) => HasSentinel(queues[k])'
           /\ PutNowait(k, Sentinel) /\ ~Full(k) => HasSentinel(queues[k])'
<1>1. queues[k] \in Seq(Inputs \cup {Sentinel}) /\ DOMAIN queues = 1 .. Len(queues)
  BY ShapeIs
<1>2. ASSUME NEW x \in Inputs \cup {Sentinel}, queues' = [queues EXCEPT ![k] = Append(@, x)]
      PROVE  /\ \A l \in DOMAIN queues : HasSentinel(queues[l]) => HasSentinel(queues[l])'
             /\ x = Sentinel => HasSentinel(queues[k])'
  <2>1. queues'[k] = Append(queues[k], x) /\ \A l \in DOMAIN queues : l # k => queues'[l] = queues[l]
    BY <1>2
  <2>2. /\ DOMAIN Append(queues[k], x) = 1 .. Len(queues[k]) + 1
        /\ DOMAIN queues[k] = 1 .. Len(queues[k]) /\ Len(queues[k]) \in Nat
        /\ \A i \in 1 .. Len(queues[k]) : Append(queues[k], x)[i] = queues[k][i]
        /\ Append(queues[k], x)[Len(queues[k]) + 1] = x
    BY <1>1, QueueAppend
  <2>3. HasSentinel(queues[k]) => HasSentinel(queues[k])'
    BY <2>1, <2>2 DEF HasSentinel
  <2>4. x = Sentinel => HasSentinel(queues[k])'
    BY <2>1, <2>2 DEF HasSentinel
  <2>5. \A l \in DOMAIN queues : l # k => (HasSentinel(queues[l]) => HasSentinel(queues[l])')
    BY <2>1 DEF HasSentinel
  <2> QED BY <2>3, <2>4, <2>5
<1>3. queues' = queues => \A l \in DOMAIN queues : HasSentinel(queues[l]) => HasSentinel(queues[l])'
  BY DEF HasSentinel
<1>4. ASSUME Get(k), NEW l \in DOMAIN queues, HasSentinel(queues[l]),
             l # k \/ Head(queues[k]) # Sentinel
      PROVE  HasSentinel(queues[l])'
  <2>1. /\ queues'[k] = Tail(queues[k]) /\ queues[k] # <<>>
        /\ \A m \in DOMAIN queues : m # k => queues'[m] = queues[m]
    BY <1>4, QueueSteps
  <2>2. CASE l # k
    BY <1>4, <2>1, <2>2 DEF HasSentinel
  <2>3. CASE l = k /\ Head(queues[k]) # Sentinel
    <3> DEFINE n == Len(queues[k])
    <3>1. /\ n \in Nat \ {0} /\ DOMAIN queues[k] = 1 .. n /\ Head(queues[k]) = queues[k][1]
          /\ DOMAIN Tail(queues[k]) = 1 .. n - 1
          /\ \A i \in 1 .. n - 1 : Tail(queues[k])[i] = queues[k][i + 1]
      BY <1>1, <2>1, QueueTail
    <3> HIDE DEF n
    <3>2. PICK i \in 1 .. n : queues[k][i] = Sentinel
      BY <1>4, <2>3, <3>1 DEF HasSentinel
    <3>3. i - 1 \in 1 .. n - 1 /\ (i - 1) + 1 = i
      BY <2>3, <3>1, <3>2
    <3>4. Tail(queues[k])[i - 1] = Sentinel
      BY <3>1, <3>2, <3>3
    <3>5. queues'[l] = Tail(queues[k])
      BY <2>1, <2>3
    <3> QED BY <3>1, <3>3, <3>4, <3>5 DEF HasSentinel
  <2> QED BY <1>4, <2>2, <2>3
<1> QED BY <1>2, <1>3, <1>4 DEF Put, PutNowait

\* The three parts of the invariant, of a running map() of one stage.
CountsPast == stopped <= Cardinality(Past)
SentinelStays ==
    feeder = "returned" /\ Past # Everyone(1) =>
        HasSentinel(queues[1]) \/ \E t \in Threads : worker[t].at \in {"counting", "again"}
GeneratorTold ==
    shape.maxsize = 0 =>
        \/ HasSentinel(queues[2]) \/ consumer \in {"joining", "ended"}
        \/ \E t \in Threads : worker[t].at \in {"forward", "wakeIn", "wakeOut"}
        \/ stopped = Cardinality(Past) /\ stopped < shape.workers[1]

LEMMA ShutdownIs ==
    ShutdownInv <=> (Started /\ NStages = 1 => CountsPast /\ SentinelStays /\ GeneratorTold)
BY DEF ShutdownInv, CountsPast, SentinelStays, GeneratorTold

\* The feeder and the caller leave the workers alone.
LEMMA OthersShutdown ==
    ASSUME PipelineType, Started, NStages = 1, Feed \/ Consume,
           CountsPast, SentinelStays, GeneratorTold
    PROVE  CountsPast' /\ SentinelStays' /\ GeneratorTold'
<1>1. UNCHANGED <<shape, worker, stopped>>
  BY DEF Feed, FeedCheck, FeedRaises, FeedPut, FeedClose, FeederStep,
         Consume, Receive, Emit, ResumeMap, CloseMap, JoinThreads, ConsumerStep
<1>2. Threads' = Threads /\ Past' = Past /\ Everyone(1)' = Everyone(1)
  BY <1>1 DEF Threads, Past, Everyone
<1>3. DOMAIN queues = {1, 2} /\ Len(queues) = 2
  BY OneStageIs
<1>4. CountsPast'
  BY <1>1, <1>2 DEF CountsPast
<1>5. CASE Feed
  <2>1. consumer' = consumer
    BY <1>5 DEF Feed, FeedCheck, FeedRaises, FeedPut, FeedClose, FeederStep
  <2>2. CASE FeedCheck \/ FeedRaises
    <3>1. queues' = queues /\ feeder' # "returned"
      BY <2>2 DEF FeedCheck, FeedRaises
    <3>2. HasSentinel(queues[2])' <=> HasSentinel(queues[2])
      BY <3>1 DEF HasSentinel
    <3> QED BY <1>1, <1>2, <1>4, <2>1, <3>1, <3>2 DEF SentinelStays, GeneratorTold
  <2>3. CASE FeedPut \/ FeedClose
    <3>1. PICK x : Put(1, x) /\ (feeder' = "returned" => x = Sentinel)
      BY <2>3 DEF FeedPut, FeedClose
    <3>2. queues'[2] = queues[2]
      BY <1>3, <3>1, QueueSteps
    <3>3. feeder' = "returned" => HasSentinel(queues[1])'
      BY <1>3, <3>1, SentinelKept
    <3>4. HasSentinel(queues[2])' <=> HasSentinel(queues[2])
      BY <3>2 DEF HasSentinel
    <3> QED BY <1>1, <1>2, <1>4, <2>1, <3>3, <3>4 DEF SentinelStays, GeneratorTold
  <2> QED BY <1>5, <2>2, <2>3 DEF Feed
<1>6. CASE Consume
  <2>1. feeder' = feeder
    BY <1>6 DEF Consume, Receive, Emit, ResumeMap, CloseMap, JoinThreads, ConsumerStep
  <2>2. consumer \in {"joining", "ended"} => consumer' \in {"joining", "ended"}
    BY <1>6 DEF Consume, Receive, Emit, ResumeMap, CloseMap, JoinThreads
  <2>3. CASE Receive
    <3>1. Get(2) /\ (Head(queues[2]) = Sentinel => consumer' = "joining")
      BY <1>3, <2>3 DEF Receive
    <3>2. queues'[1] = queues[1]
      BY <1>3, <3>1, QueueSteps
    <3>3. HasSentinel(queues[1])' <=> HasSentinel(queues[1])
      BY <3>2 DEF HasSentinel
    <3>4. HasSentinel(queues[2]) => HasSentinel(queues[2])' \/ consumer' = "joining"
      BY <1>3, <3>1, SentinelKept
    <3> QED BY <1>1, <1>2, <1>4, <2>1, <2>2, <3>3, <3>4 DEF SentinelStays, GeneratorTold
  <2>4. CASE Emit \/ ResumeMap \/ CloseMap \/ JoinThreads
    <3>1. queues' = queues
      BY <2>4 DEF Emit, ResumeMap, CloseMap, JoinThreads
    <3>2. \A k : HasSentinel(queues[k])' <=> HasSentinel(queues[k])
      BY <3>1 DEF HasSentinel
    <3> QED BY <1>1, <1>2, <1>4, <2>1, <2>2, <3>2 DEF SentinelStays, GeneratorTold
  <2> QED BY <1>6, <2>3, <2>4 DEF Consume
<1> QED BY <1>5, <1>6

\* A worker's steps before it is past its last item.
LEMMA TakingShutdown ==
    ASSUME PipelineType, Started, NStages = 1, NEW t \in Threads,
           WorkGet(t) \/ WorkChecks(t) \/ WorkReturns(t) \/ WorkPut(t),
           CountsPast, SentinelStays, GeneratorTold
    PROVE  CountsPast' /\ SentinelStays' /\ GeneratorTold'
<1>1. UNCHANGED <<shape, feeder, consumer, stopped>>
  BY DEF WorkGet, WorkChecks, WorkReturns, WorkPut, WorkerStep
<1>2. DOMAIN queues = {1, 2} /\ t[1] = 1
  BY OneStageIs
<1>3. /\ \A u \in Threads : u # t => worker'[u] = worker[u]
      /\ worker[t].at \in {"getting", "running", "calling", "putting"}
      /\ worker'[t].at \in {"getting", "running", "calling", "putting", "counting"}
      /\ WorkGet(t) /\ Head(queues[1]) = Sentinel => worker'[t].at = "counting"
  <2>1. CASE WorkGet(t)
    BY <1>2, <2>1 DEF WorkGet, PipelineType
  <2>2. CASE WorkChecks(t) \/ WorkReturns(t) \/ WorkPut(t)
    <3>1. PICK at \in {"getting", "calling", "putting"} : MoveTo(t, at)
      BY <2>2 DEF WorkChecks, WorkReturns, WorkPut
    <3>2. worker'[t].at = at /\ \A u \in Threads : u # t => worker'[u] = worker[u]
      BY <3>1, MovedAt
    <3>3. worker[t].at \in {"running", "calling", "putting"}
      BY <2>2 DEF WorkChecks, WorkReturns, WorkPut
    <3>4. ~WorkGet(t)
      BY <3>3 DEF WorkGet
    <3> QED BY <3>1, <3>2, <3>3, <3>4
  <2> QED BY <2>1, <2>2
<1>4. Threads' = Threads /\ Past' = Past /\ Everyone(1)' = Everyone(1)
  BY <1>1, <1>3, PastAfter DEF PastItems
<1>5. /\ HasSentinel(queues[1]) => HasSentinel(queues[1])' \/ worker'[t].at = "counting"
      /\ HasSentinel(queues[2]) => HasSentinel(queues[2])'
  <2>1. CASE WorkGet(t)
    BY <1>2, <1>3, <2>1, SentinelKept DEF WorkGet
  <2>2. CASE WorkChecks(t) \/ WorkReturns(t)
    BY <2>2 DEF WorkChecks, WorkReturns, HasSentinel
  <2>3. CASE WorkPut(t)
    <3>1. Put(2, worker[t].item) /\ worker[t].item \in Inputs \cup {Sentinel}
      BY <1>2, <2>3 DEF WorkPut, PipelineType
    <3> QED BY <1>2, <3>1, SentinelKept
  <2> QED BY <2>1, <2>2, <2>3
<1>6. \A u \in Threads : worker[u].at \in PastItems \cup {"counting"} => worker'[u].at = worker[u].at
  BY <1>3 DEF PastItems
<1>7. CountsPast'
  BY <1>1, <1>4 DEF CountsPast
<1>8. SentinelStays'
  BY <1>1, <1>4, <1>5, <1>6 DEF SentinelStays, PastItems
<1>9. GeneratorTold'
  BY <1>1, <1>4, <1>5, <1>6 DEF GeneratorTold, PastItems
<1> QED BY <1>7, <1>8, <1>9

\* A worker's last steps: it counts the sentinel, raises, or passes it on.
LEMMA LeavingShutdown ==
    ASSUME PipelineType, Started, NStages = 1, NEW t \in Threads,
           WorkCount(t) \/ WorkRaises(t) \/ WorkPass(t) \/ WorkWake(t),
           CountsPast, SentinelStays, GeneratorTold
    PROVE  CountsPast' /\ SentinelStays' /\ GeneratorTold'
<1>1. UNCHANGED <<shape, feeder, consumer>>
  BY DEF WorkCount, WorkRaises, WorkPass, WorkWake, WorkerStep
<1>2. DOMAIN queues = {1, 2} /\ t[1] = 1 /\ t[2] \in Everyone(1)
  BY OneStageIs
<1>3. PICK at \in PastItems : MoveTo(t, at)
  BY DEF WorkCount, WorkRaises, WorkPass, WorkWake, PastItems
<1>4. worker'[t].at = at /\ \A u \in Threads : u # t => worker'[u] = worker[u]
  BY <1>3, MovedAt
<1>5. /\ Threads' = Threads /\ Everyone(1)' = Everyone(1) /\ Past' = Past \cup {t[2]}
      /\ worker[t].at \in PastItems <=> t[2] \in Past
  BY <1>1, <1>4, PastAfter
<1>6. /\ Past \subseteq Everyone(1) /\ IsFiniteSet(Past) /\ Cardinality(Past) \in Nat
      /\ shape.workers[1] \in Nat \ {0} /\ stopped \in Nat
  BY PastIs DEF PipelineType
<1>7. t[2] \notin Past => Cardinality(Past') = Cardinality(Past) + 1
  BY <1>5, <1>6, FS_AddElement
<1>8. /\ Cardinality(Past') <= shape.workers[1]
      /\ Cardinality(Past') = shape.workers[1] => Past' = Everyone(1)
  BY <1>2, <1>5, <1>6, PastIs
<1>10. CASE WorkCount(t)
  <2>1. /\ queues' = queues /\ stopped' = stopped + 1 /\ worker[t].at = "counting"
        /\ MoveTo(t, IF IsLast(t) THEN "forward" ELSE "again")
    BY <1>10 DEF WorkCount
  <2>2. worker'[t].at = IF stopped + 1 = shape.workers[1] THEN "forward" ELSE "again"
    BY <1>2, <2>1, MovedAt DEF IsLast
  <2>3. Cardinality(Past') = Cardinality(Past) + 1
    BY <1>5, <1>7, <2>1 DEF PastItems
  <2>4. CountsPast'
    BY <1>6, <2>1, <2>3 DEF CountsPast
  <2>5. SentinelStays'
    <3>1. worker'[t].at = "forward" => Past' = Everyone(1)
      BY <1>6, <1>8, <2>2, <2>3 DEF CountsPast
    <3> QED BY <1>5, <2>2, <3>1 DEF SentinelStays
  <2>6. GeneratorTold'
    <3>1. \A k : HasSentinel(queues[k])' <=> HasSentinel(queues[k])
      BY <2>1 DEF HasSentinel
    <3>2. \A u \in Threads : worker[u].at \in {"forward", "wakeIn", "wakeOut"}
                                => worker'[u].at = worker[u].at
      BY <1>4, <2>1
    <3>3. stopped = Cardinality(Past) /\ stopped < shape.workers[1] /\ worker'[t].at # "forward"
            => stopped' = Cardinality(Past') /\ stopped' < shape'.workers[1]
      BY <1>1, <1>6, <2>1, <2>2, <2>3
    <3> QED BY <1>1, <1>5, <3>1, <3>2, <3>3 DEF GeneratorTold
  <2> QED BY <2>4, <2>5, <2>6
<1>11. CASE WorkRaises(t)
  <2>1. /\ queues' = queues /\ stopped' = stopped /\ worker[t].at = "calling"
        /\ MoveTo(t, "wakeIn")
    BY <1>11 DEF WorkRaises
  <2>2. worker'[t].at = "wakeIn"
    BY <2>1, MovedAt
  <2>3. Cardinality(Past') = Cardinality(Past) + 1
    BY <1>5, <1>7, <2>1 DEF PastItems
  <2>4. CountsPast'
    BY <1>6, <2>1, <2>3 DEF CountsPast
  <2>5. SentinelStays'
    <3>1. HasSentinel(queues[1])' <=> HasSentinel(queues[1])
      BY <2>1 DEF HasSentinel
    <3>2. \A u \in Threads : worker[u].at \in {"counting", "again"} => worker'[u].at = worker[u].at
      BY <1>4, <2>1
    <3>3. Past' # Everyone(1) => Past # Everyone(1)
      BY <1>2, <1>5
    <3> QED BY <1>1, <1>5, <3>1, <3>2, <3>3 DEF SentinelStays
  <2>6. GeneratorTold'
    BY <1>5, <2>2 DEF GeneratorTold
  <2> QED BY <2>4, <2>5, <2>6
<1>12. CASE WorkPass(t) \/ WorkWake(t)
  <2>1. stopped' = stopped /\ worker[t].at \in {"again", "forward", "wakeIn", "wakeOut"}
    BY <1>12 DEF WorkPass, WorkWake
  <2>2. Past' = Past
    BY <1>5, <2>1 DEF PastItems
  <2>3. \E k \in {1, 2} : Put(k, Sentinel) \/ PutNowait(k, Sentinel)
    BY <1>2, <1>12 DEF WorkPass, WorkWake
  <2>4. \A k \in {1, 2} : HasSentinel(queues[k]) => HasSentinel(queues[k])'
    BY <1>2, <2>3, SentinelKept
  <2>5. worker[t].at = "again" => HasSentinel(queues[1])'
    BY <1>2, <1>12, SentinelKept DEF WorkPass, WorkWake
  <2>6. shape.maxsize = 0 /\ worker[t].at \in {"forward", "wakeOut"} => HasSentinel(queues[2])'
    <3>1. ~(shape.maxsize > 0) => ~Full(2)
      BY DEF Full
    <3> QED BY <1>2, <1>12, <3>1, SentinelKept DEF WorkPass, WorkWake
  <2>7. worker[t].at = "wakeIn" => worker'[t].at = "wakeOut"
    BY <1>12, MovedAt DEF WorkPass, WorkWake
  <2>8. CountsPast'
    BY <2>1, <2>2 DEF CountsPast
  <2>9. SentinelStays'
    <3>1. \A u \in Threads : worker[u].at \in {"counting", "again"} /\ u # t
                                => worker'[u].at = worker[u].at
      BY <1>4
    <3> QED BY <1>1, <1>5, <2>1, <2>2, <2>4, <2>5, <3>1 DEF SentinelStays
  <2>10. GeneratorTold'
    <3>1. \A u \in Threads : worker[u].at \in {"forward", "wakeIn", "wakeOut"} /\ u # t
                                => worker'[u].at = worker[u].at
      BY <1>4
    <3> QED BY <1>1, <1>5, <2>1, <2>2, <2>4, <2>6, <2>7, <3>1 DEF GeneratorTold
  <2> QED BY <2>8, <2>9, <2>10
<1> QED BY <1>10, <1>11, <1>12

LEMMA MapShutdown == ASSUME PipelineType, PipelineInit, Map PROVE ShutdownInv'
<1> SUFFICES ASSUME Started', NStages' = 1 PROVE (CountsPast /\ SentinelStays /\ GeneratorTold)'
  BY ShutdownIs DEF ShutdownInv, CountsPast, SentinelStays, GeneratorTold
<1>1. /\ worker' = [t \in Threads' |-> [at |-> "getting", item |-> Sentinel]]
      /\ feeder' = "checking" /\ stopped' = 0
      /\ shape'.workers \in Seq(Nat \ {0}) /\ Len(shape'.workers) = 1
  BY ShapesAssumption DEF Map, PipelineInit, NStages
<1>2. DOMAIN shape'.workers = {1} /\ shape'.workers[1] \in Nat \ {0}
  BY <1>1
<1>3. \A j \in 1 .. shape'.workers[1] : <<1, j>> \in Threads'
  BY <1>2 DEF Threads, ThreadsOf
<1>4. Past' = {}
  BY <1>1, <1>3 DEF Past, PastItems, Everyone
<1>5. Cardinality(Past') = 0
  BY <1>4, FS_EmptySet
<1> QED BY <1>1, <1>2, <1>5 DEF CountsPast, SentinelStays, GeneratorTold

LEMMA ShutdownStep ==
    ASSUME PipelineInv, ShutdownInv, [PipelineNext]_pipelineVars
    PROVE  ShutdownInv'
<1>1. PipelineType
  BY DEF PipelineInv
<1>2. CASE Map
  BY <1>1, <1>2, MapShutdown DEF PipelineInv, Map
<1>3. CASE Started /\ (Feed \/ Consume \/ \E t \in Threads : Work(t))
  <2>1. shape' = shape
    BY <1>3 DEF Feed, FeedCheck, FeedRaises, FeedPut, FeedClose, FeederStep,
                Consume, Receive, Emit, ResumeMap, CloseMap, JoinThreads, ConsumerStep,
                Work, WorkGet, WorkCount, WorkPass, WorkChecks, WorkReturns, WorkRaises, WorkWake,
                WorkPut, WorkerStep
  <2> SUFFICES ASSUME NStages = 1 PROVE CountsPast' /\ SentinelStays' /\ GeneratorTold'
    BY <2>1, ShutdownIs DEF ShutdownInv, CountsPast, SentinelStays, GeneratorTold, NStages
  <2>2. CountsPast /\ SentinelStays /\ GeneratorTold
    BY <1>3, ShutdownIs
  <2>3. CASE Feed \/ Consume
    BY <1>1, <1>3, <2>2, <2>3, OthersShutdown
  <2>4. ASSUME NEW t \in Threads, Work(t) PROVE CountsPast' /\ SentinelStays' /\ GeneratorTold'
    BY <1>1, <1>3, <2>2, <2>4, TakingShutdown, LeavingShutdown DEF Work
  <2> QED BY <1>3, <2>3, <2>4
<1>4. CASE UNCHANGED pipelineVars
  BY <1>4 DEF pipelineVars, ShutdownInv, Started, NStages, Past, Everyone, Threads, HasSentinel
<1> QED BY <1>2, <1>3, <1>4 DEF PipelineNext, Feed, Consume

\* Nobody can go on: then it is wedged.
LEMMA StuckIsWedged ==
    ASSUME PipelineType, Started, NStages = 1, CountsPast, SentinelStays,
           ~SomeoneGoesOn, consumer # "ended"
    PROVE  Wedged
<1>1. /\ DOMAIN queues = {1, 2} /\ Len(queues) = 2
      /\ \A t \in Threads : t[1] = 1
      /\ (\A t \in Threads : worker[t].at \in PastItems) <=> Past = Everyone(1)
  BY OneStageIs
<1>2. /\ feeder \in {"placing", "closing", "returned"}
      /\ feeder # "returned" => Full(1)
      /\ consumer \in {"getting", "joining"}
      /\ consumer = "getting" => queues[2] = <<>>
      /\ consumer = "joining" => ~(feeder = "returned" /\ \A t \in Threads : ~Alive(t))
  BY <1>1 DEF SomeoneGoesOn, PipelineType
<1>3. \A t \in Threads :
        /\ worker[t].at \in {"getting", "again", "forward", "putting", "returned"}
        /\ worker[t].at = "getting" => queues[1] = <<>>
        /\ worker[t].at = "again" => Full(1)
        /\ worker[t].at \in {"forward", "putting"} => Full(2)
  <2>1. \A t \in Threads : worker[t].at \in WorkerPoints
    BY DEF PipelineType
  <2> QED BY <1>1, <2>1 DEF SomeoneGoesOn, WorkerPoints
<1>4. \A k \in {1, 2} : Full(k) => queues[k] # <<>>
  <2>1. shape.maxsize \in Nat
    BY ShapeIs
  <2> QED BY <2>1 DEF Full
<1>5. CASE \E t \in Threads : worker[t].at \in {"forward", "putting"}
  <2>1. PICK t \in Threads : worker[t].at \in {"forward", "putting"}
    BY <1>5
  <2>2. Full(2) /\ consumer = "joining"
    BY <1>2, <1>3, <1>4, <2>1
  <2>3. QueueUnread(2) /\ Putting(2)
    BY <1>1, <2>1, <2>2 DEF QueueUnread, Putting
  <2> QED BY <1>1, <2>2, <2>3 DEF Wedged
<1>6. CASE \A t \in Threads : worker[t].at \in {"getting", "again", "returned"}
  <2>1. CASE Full(1)
    <3>1. \A t \in Threads : worker[t].at \in {"again", "returned"}
      BY <1>3, <1>4, <1>6, <2>1
    <3>2. StageGone(1) /\ QueueUnread(1)
      BY <1>1, <3>1 DEF StageGone, QueueUnread
    <3>3. CASE Putting(1)
      BY <1>1, <2>1, <3>2, <3>3 DEF Wedged
    <3>4. CASE ~Putting(1)
      <4>1. feeder = "returned" /\ \A t \in Threads : ~Alive(t)
        BY <1>1, <1>2, <3>1, <3>4 DEF Putting, Alive
      <4>2. consumer = "getting" /\ queues[2] = <<>>
        BY <1>2, <4>1
      <4> QED BY <1>1, <3>2, <4>2 DEF Wedged
    <3> QED BY <3>3, <3>4
  <2>2. CASE ~Full(1)
    <3>1. feeder = "returned" /\ \A t \in Threads : worker[t].at \in {"getting", "returned"}
      BY <1>2, <1>3, <1>6, <2>2
    <3>2. \A t \in Threads : worker[t].at # "getting"
      <4> SUFFICES ASSUME NEW t \in Threads, worker[t].at = "getting" PROVE FALSE
        OBVIOUS
      <4>1. Past # Everyone(1) /\ queues[1] = <<>>
        BY <1>1, <1>3 DEF PastItems
      <4>2. ~HasSentinel(queues[1])
        BY <4>1 DEF HasSentinel
      <4> QED BY <3>1, <4>1, <4>2 DEF SentinelStays
    <3>3. consumer = "getting" /\ queues[2] = <<>>
      BY <1>2, <3>1, <3>2 DEF Alive
    <3>4. StageGone(1)
      BY <3>1, <3>2 DEF StageGone
    <3> QED BY <1>1, <3>3, <3>4 DEF Wedged
  <2> QED BY <2>1, <2>2
<1> QED BY <1>3, <1>5, <1>6

\* What being wedged takes.
LEMMA WedgedNeeds ==
    ASSUME PipelineInv, Started, NStages = 1, GeneratorTold, Wedged
    PROVE  shape.maxsize > 0 /\ (stop \/ closed)
<1>1. PipelineType /\ SentinelInv /\ shape.maxsize \in Nat
  BY ShapeIs DEF PipelineInv
<1>2. /\ DOMAIN queues = {1, 2} /\ Len(queues) = 2
      /\ \A t \in Threads : t[1] = 1
      /\ \A j \in Everyone(1) : <<1, j>> \in Threads
      /\ (\A t \in Threads : worker[t].at \in PastItems) <=> Past = Everyone(1)
  BY <1>1, OneStageIs
<1>3. shape.maxsize > 0
  <2> SUFFICES ASSUME shape.maxsize = 0 PROVE FALSE
    BY <1>1
  <2>1. \A k : ~Full(k)
    BY DEF Full
  <2>2. consumer = "getting" /\ queues[2] = <<>> /\ StageGone(1)
    BY <1>2, <2>1 DEF Wedged
  <2>3. \A t \in Threads : worker[t].at \in {"again", "returned"}
    BY <1>2, <2>2 DEF StageGone
  <2>4. Past = Everyone(1)
    BY <1>2, <2>3 DEF PastItems
  <2>5. Cardinality(Past) = shape.workers[1] /\ shape.workers[1] \in Nat
    BY <1>1, <2>4, PastIs
  <2>6. ~HasSentinel(queues[2])
    BY <2>2 DEF HasSentinel
  <2> QED BY <2>2, <2>3, <2>5, <2>6 DEF GeneratorTold
<1>4. ASSUME ~stop, ~closed PROVE FALSE
  <2>1. PICK p \in 0 .. 3 : SentinelAt(p) /\ SentinelBehindAll(p) /\ CountInv(p)
    BY <1>1, <1>4 DEF SentinelInv
  <2>2. /\ Counted(1) \subseteq Everyone(1) /\ Counted(1) = {} => Counted(1) # Everyone(1)
        /\ p = 0 => Counted(1) = {}
    BY <1>1, <2>1, CountedIs DEF CountInv
  <2>3. consumer \in {"joining", "ended"} <=> p = 3
    BY <1>4, <2>1 DEF SentinelAt
  <2>4. ASSUME StageGone(1)
        PROVE  /\ p > 1 /\ feeder = "returned"
               /\ \A t \in Threads : worker[t].at = "returned"
    <3>1. \A t \in Threads : worker[t].at \in {"again", "returned"}
      BY <1>2, <2>4 DEF StageGone
    <3>2. Counted(1) = Everyone(1)
      BY <1>2, <3>1 DEF Counted, Everyone
    <3>3. p # 0 /\ p # 1
      BY <2>1, <2>2, <3>1, <3>2 DEF CountInv
    <3>4. \A t \in Threads : ~Carries(t)
      BY <1>2, <2>1, <3>3 DEF SentinelAt
    <3> QED BY <2>1, <3>1, <3>3, <3>4 DEF SentinelAt, Carries
  <2>5. CASE Full(1) /\ QueueUnread(1) /\ Putting(1)
    <3>1. StageGone(1)
      BY <1>2, <2>5 DEF QueueUnread
    <3> QED BY <1>2, <2>4, <2>5, <3>1 DEF Putting
  <2>6. CASE Full(2) /\ QueueUnread(2) /\ Putting(2)
    <3>1. p = 3
      BY <1>2, <2>3, <2>6 DEF QueueUnread
    <3>2. PICK t \in Threads : worker[t].at \in {"forward", "putting"}
      BY <1>2, <2>6 DEF Putting
    <3>3. Counted(1) = Everyone(1) /\ ~Carries(t)
      BY <1>2, <2>1, <3>1, <3>2 DEF CountInv, SentinelAt
    <3>4. t[2] \in Everyone(1) /\ t = <<1, t[2]>>
      BY <1>1, OneStageIs
    <3>5. worker[t].at \in {"again", "forward", "returned"}
      BY <3>3, <3>4 DEF Counted
    <3> QED BY <3>2, <3>3, <3>5 DEF Carries
  <2>7. CASE consumer = "getting" /\ queues[2] = <<>> /\ StageGone(1)
    <3>1. p = 2
      BY <2>3, <2>4, <2>7
    <3> QED BY <2>1, <2>7, <3>1 DEF SentinelBehindAll, SentinelLast
  <2> QED BY <1>2, <2>5, <2>6, <2>7 DEF Wedged
<1> QED BY <1>3, <1>4

LEMMA OneGoesOnFromInv == PipelineInv /\ ShutdownInv => OneStageGoesOn
<1> SUFFICES ASSUME PipelineInv, ShutdownInv, Started, NStages = 1
             PROVE  /\ consumer = "ended" \/ SomeoneGoesOn \/ Wedged
                    /\ Wedged => shape.maxsize > 0 /\ (stop \/ closed)
  BY DEF OneStageGoesOn
<1>1. PipelineType /\ CountsPast /\ SentinelStays /\ GeneratorTold
  BY ShutdownIs DEF PipelineInv
<1> QED BY <1>1, StuckIsWedged, WedgedNeeds

----------------------------------------------------------------------------
(* A wedged map() stays wedged, with any number of stages. *)

\* A put() on queue k that waits for room nobody makes.
PutBlocked(k) == Full(k) /\ QueueUnread(k) /\ Putting(k)

GeneratorBlocked ==
    /\ consumer = "getting"
    /\ queues[Len(queues)] = <<>> /\ StageGone(Len(queues) - 1)

LEMMA WedgedIs ==
    Wedged <=> Started /\ ((\E k \in DOMAIN queues : PutBlocked(k)) \/ GeneratorBlocked)
BY DEF Wedged, PutBlocked, GeneratorBlocked

\* A step that takes nothing from the blocked queue and leaves who is blocked.
LEMMA WedgedKept ==
    ASSUME PipelineType, PipelineType', Started, shape' = shape,
           \A t \in Threads : worker[t].at \in {"again", "returned"}
                                => worker'[t].at \in {"again", "returned"},
           \/ \E k \in DOMAIN queues :
                /\ PutBlocked(k) /\ queues'[k] = queues[k] /\ Putting(k)'
                /\ consumer = "joining" => consumer' = "joining"
           \/ GeneratorBlocked /\ consumer' = "getting" /\ queues'[Len(queues)] = <<>>
    PROVE  Wedged'
<1>1. DOMAIN queues = 1 .. NStages + 1 /\ Len(queues) = NStages + 1 /\ NStages \in Nat
  BY ShapeIs
<1>2. queues' \in [1 .. NStages + 1 -> Seq(Inputs \cup {Sentinel})] /\ Started' /\ Threads' = Threads
  BY DEF PipelineType, Started, NStages, Threads
<1>3. DOMAIN queues' = DOMAIN queues /\ Len(queues') = Len(queues)
  <2>1. queues' \in Seq(Seq(Inputs \cup {Sentinel})) /\ Len(queues') = NStages + 1
    BY <1>1, <1>2
  <2> QED BY <1>1, <1>2, <2>1
<1>4. \A k : StageGone(k) => StageGone(k)'
  BY <1>2 DEF StageGone
<1>5. ASSUME NEW k \in DOMAIN queues, PutBlocked(k), queues'[k] = queues[k], Putting(k)',
             consumer = "joining" => consumer' = "joining"
      PROVE  Wedged'
  <2>1. Full(k)'
    BY <1>5 DEF PutBlocked, Full
  <2>2. QueueUnread(k)'
    BY <1>3, <1>4, <1>5 DEF PutBlocked, QueueUnread
  <2> QED BY <1>2, <1>3, <1>5, <2>1, <2>2 DEF Wedged
<1>6. ASSUME GeneratorBlocked, consumer' = "getting", queues'[Len(queues)] = <<>>
      PROVE  Wedged'
  <2>1. StageGone(Len(queues) - 1)'
    BY <1>2, <1>3, <1>6 DEF GeneratorBlocked, StageGone
  <2> QED BY <1>2, <1>3, <1>6, <2>1 DEF Wedged
<1> QED BY <1>5, <1>6

LEMMA FeedWedged ==
    ASSUME PipelineType, PipelineType', Wedged, Feed
    PROVE  Wedged'
<1>1. Started /\ UNCHANGED <<shape, worker, consumer>> /\ Threads' = Threads
  BY DEF Feed, FeedCheck, FeedRaises, FeedPut, FeedClose, FeederStep, Threads
<1>2. /\ Len(queues) = NStages + 1 /\ NStages \in Nat \ {0} /\ DOMAIN queues = 1 .. NStages + 1
      /\ 1 \in DOMAIN queues
  BY <1>1, ShapeIs
<1>3. \/ queues' = queues /\ feeder \notin {"placing", "closing"}
      \/ ~Full(1) /\ \E x : Put(1, x)
  BY DEF Feed, FeedCheck, FeedRaises, FeedPut, FeedClose, Put
<1>4. \A l \in DOMAIN queues : (l = 1 /\ ~Full(1)) \/ queues'[l] = queues[l]
  BY <1>1, <1>2, <1>3, QueueSteps
<1>5. ASSUME NEW k \in DOMAIN queues, PutBlocked(k)
      PROVE  queues'[k] = queues[k] /\ Putting(k)'
  <2>1. ~(k = 1 /\ feeder \in {"placing", "closing"})
    BY <1>3, <1>5 DEF PutBlocked, Feed, FeedCheck, FeedRaises
  <2> QED BY <1>1, <1>4, <1>5, <2>1 DEF PutBlocked, Putting
<1>6. CASE GeneratorBlocked
  <2>1. queues'[Len(queues)] = queues[Len(queues)]
    BY <1>2, <1>4
  <2> QED BY <1>1, <1>6, <2>1, WedgedKept DEF GeneratorBlocked
<1> QED BY <1>1, <1>5, <1>6, WedgedIs, WedgedKept

LEMMA ConsumeWedged ==
    ASSUME PipelineType, PipelineType', Wedged, Consume
    PROVE  Wedged'
<1>1. Started /\ UNCHANGED <<shape, worker, feeder>> /\ Threads' = Threads
  BY DEF Consume, Receive, Emit, ResumeMap, CloseMap, JoinThreads, ConsumerStep, Threads
<1>2. Len(queues) = NStages + 1 /\ DOMAIN queues = 1 .. NStages + 1 /\ NStages \in Nat \ {0}
  BY <1>1, ShapeIs
<1>3. ~GeneratorBlocked
  BY DEF GeneratorBlocked, Consume, Receive, Get, Emit, ResumeMap, CloseMap, JoinThreads
<1>4. PICK k \in DOMAIN queues : PutBlocked(k)
  BY <1>3, WedgedIs
<1>5. feeder # "returned" \/ \E t \in Threads : Alive(t)
  BY <1>4 DEF PutBlocked, Putting, Alive
<1>6. queues'[k] = queues[k]
  <2>1. CASE Receive
    <3>1. Get(Len(queues)) /\ k # Len(queues)
      BY <1>4, <2>1 DEF Receive, PutBlocked, QueueUnread
    <3> QED BY <1>1, <1>2, <3>1, QueueSteps
  <2> QED BY <2>1 DEF Consume, Emit, ResumeMap, CloseMap, JoinThreads
<1>7. Putting(k)'
  BY <1>1, <1>4 DEF PutBlocked, Putting
<1>8. consumer = "joining" => consumer' = "joining"
  BY <1>5 DEF Consume, Receive, Emit, ResumeMap, CloseMap, JoinThreads
<1> QED BY <1>1, <1>4, <1>6, <1>7, <1>8, WedgedKept

LEMMA WorkWedged ==
    ASSUME PipelineType, PipelineType', Wedged, NEW t \in Threads, Work(t)
    PROVE  Wedged'
<1>1. Started /\ UNCHANGED <<shape, consumer, feeder>> /\ Threads' = Threads
  BY DEF Work, WorkGet, WorkCount, WorkPass, WorkChecks, WorkReturns, WorkRaises, WorkWake, WorkPut,
         WorkerStep, Threads, Wedged
<1>2. /\ Len(queues) = NStages + 1 /\ DOMAIN queues = 1 .. NStages + 1 /\ NStages \in Nat \ {0}
      /\ t[1] \in 1 .. NStages /\ {t[1], t[1] + 1} \subseteq DOMAIN queues
  BY <1>1, ShapeIs
<1>3. \A u \in Threads : u # t => worker'[u] = worker[u]
  <2>1. CASE WorkGet(t)
    BY <2>1 DEF WorkGet, PipelineType
  <2>2. CASE ~WorkGet(t)
    <3>1. \E at : MoveTo(t, at)
      BY <2>2 DEF Work, WorkCount, WorkPass, WorkChecks, WorkReturns, WorkRaises, WorkWake, WorkPut
    <3> QED BY <1>1, <3>1, MovedAt
  <2> QED BY <2>1, <2>2
<1>4. /\ worker[t].at # "returned"
      /\ worker[t].at = "again" => worker'[t].at = "returned"
  <2>1. worker[t].at = "again" => WorkPass(t) /\ MoveTo(t, "returned")
    BY DEF Work, WorkGet, WorkCount, WorkPass, WorkChecks, WorkReturns, WorkRaises, WorkWake, WorkPut
  <2>2. worker[t].at = "again" => worker'[t].at = "returned"
    BY <1>1, <2>1, MovedAt
  <2>3. worker[t].at # "returned"
    BY DEF Work, WorkGet, WorkCount, WorkPass, WorkChecks, WorkReturns, WorkRaises, WorkWake, WorkPut
  <2> QED BY <2>2, <2>3
<1>5. \A u \in Threads : worker[u].at \in {"again", "returned"} => worker'[u].at \in {"again", "returned"}
  BY <1>3, <1>4
<1>6. \A l \in DOMAIN queues :
        \/ queues'[l] = queues[l]
        \/ l = t[1] /\ worker[t].at = "getting"
        \/ /\ ~Full(l)
           /\ \/ l = t[1] /\ worker[t].at \in {"again", "wakeIn"}
              \/ l = t[1] + 1 /\ worker[t].at \in {"forward", "putting", "wakeOut"}
  <2>1. CASE WorkGet(t)
    BY <1>1, <1>2, <2>1, QueueSteps DEF WorkGet
  <2>2. CASE WorkCount(t) \/ WorkChecks(t) \/ WorkReturns(t) \/ WorkRaises(t)
    BY <2>2 DEF WorkCount, WorkChecks, WorkReturns, WorkRaises
  <2>3. CASE WorkPass(t) \/ WorkPut(t) \/ WorkWake(t)
    <3>1. PICK k \in DOMAIN queues :
            /\ \E x : Put(k, x) \/ PutNowait(k, x)
            /\ \/ k = t[1] /\ worker[t].at \in {"again", "wakeIn"}
               \/ k = t[1] + 1 /\ worker[t].at \in {"forward", "putting", "wakeOut"}
      BY <1>2, <2>3 DEF WorkPass, WorkPut, WorkWake
    <3>2. queues' = queues \/ (~Full(k) /\ \E x : Put(k, x))
      BY <3>1 DEF Put, PutNowait
    <3>3. queues' = queues \/ (~Full(k) /\ \A l \in DOMAIN queues : l # k => queues'[l] = queues[l])
      BY <1>1, <3>2, QueueSteps
    <3> QED BY <3>1, <3>3
  <2> QED BY <2>1, <2>2, <2>3 DEF Work
<1>7. ASSUME NEW k \in DOMAIN queues, PutBlocked(k)
      PROVE  queues'[k] = queues[k] /\ Putting(k)'
  <2>1. ~(k = t[1] /\ worker[t].at = "getting")
    BY <1>2, <1>7 DEF PutBlocked, QueueUnread, StageGone
  <2>2. queues'[k] = queues[k]
    BY <1>6, <1>7, <2>1 DEF PutBlocked
  <2>3. ~(t[1] = k /\ worker[t].at = "again") /\ ~(t[1] + 1 = k /\ worker[t].at \in {"forward", "putting"})
    BY <1>7 DEF PutBlocked, Put, Work, WorkGet, WorkCount, WorkPass, WorkChecks, WorkReturns,
                WorkRaises, WorkWake, WorkPut
  <2> QED BY <1>1, <1>3, <1>7, <2>2, <2>3 DEF PutBlocked, Putting
<1>8. CASE GeneratorBlocked
  <2>1. t[1] + 1 = Len(queues) => worker[t].at \in {"again", "returned"}
    BY <1>2, <1>8 DEF GeneratorBlocked, StageGone
  <2>2. t[1] # Len(queues)
    BY <1>2
  <2>3. queues'[Len(queues)] = queues[Len(queues)]
    BY <1>2, <1>6, <2>1, <2>2
  <2> QED BY <1>1, <1>5, <1>8, <2>3, WedgedKept DEF GeneratorBlocked
<1> QED BY <1>1, <1>5, <1>7, <1>8, WedgedIs, WedgedKept

LEMMA WedgedStep ==
    ASSUME PipelineType, PipelineType', [PipelineNext]_pipelineVars, Wedged
    PROVE  Wedged'
<1>1. ~Map
  BY DEF Map, Wedged
<1>2. CASE UNCHANGED pipelineVars
  BY <1>2 DEF pipelineVars, Wedged, Started, Full, QueueUnread, StageGone, Putting, Threads
<1> QED BY <1>1, <1>2, FeedWedged, ConsumeWedged, WorkWedged DEF PipelineNext

----------------------------------------------------------------------------

THEOREM PipelineInvHolds == PipelineSpec => []PipelineInv
<1>1. PipelineInv /\ [PipelineNext]_pipelineVars => PipelineInv'
  BY PipelineStep
<1> QED BY <1>1, PipelineStarts, PTL DEF PipelineSpec

\* Nothing leaves its type, and no queue grows beyond maxsize.
THEOREM PipelineTypeHolds == PipelineSpec => []PipelineType
<1>1. PipelineInv => PipelineType
  BY DEF PipelineInv
<1> QED BY <1>1, PipelineInvHolds, PTL

\* No output twice, each at its place with preserve_order, and all of them
\* when the generator ends without error or close: for every number of
\* threads and stages, bounded queues or not (map, mt_pipeline.py:70-186).
THEOREM OutputsWholeHolds == PipelineSpec => []OutputsWhole
BY PipelineInvHolds, WholeFromInv, PTL

\* With two stages or more the generator never ends by itself: `stopped` already
\* counts the workers of the first stage when the second's come to stop, so some
\* of those never do (mt_pipeline.py:99-118).
THEOREM SeveralStagesStay == PipelineSpec => []SeveralStagesNeverEnd
BY PipelineInvHolds, SeveralFromInv, PTL


\* A map() of one stage goes on until its generator has ended, unless it is
\* wedged: a put() nobody makes room for, or a generator whose sentinel was
\* dropped.  That takes a bounded queue, and an exception or an early close:
\* map() never hangs on unbounded queues, nor as long as nothing raised and
\* the caller goes on (mt_pipeline.py:81-136, 181).
THEOREM OneStageStays == PipelineSpec => []OneStageGoesOn
<1>1. PipelineInv /\ ShutdownInv /\ [PipelineNext]_pipelineVars => ShutdownInv'
  BY ShutdownStep
<1>2. PipelineInit => ShutdownInv
  BY DEF PipelineInit, ShutdownInv, Started
<1>3. PipelineSpec => []ShutdownInv
  BY <1>1, <1>2, PipelineInvHolds, PTL DEF PipelineSpec
<1> QED BY <1>3, PipelineInvHolds, OneGoesOnFromInv, PTL

\* The hang is for good: a wedged map() stays so whatever its threads and its
\* caller do, with any number of stages (mt_pipeline.py:88, 115-117, 128-137, 181).
THEOREM WedgedStays == PipelineSpec => [][Wedged => Wedged']_pipelineVars
<1>1. PipelineType /\ PipelineType' /\ [PipelineNext]_pipelineVars => (Wedged => Wedged')
  BY WedgedStep
<1> QED BY <1>1, PipelineTypeHolds, PTL DEF PipelineSpec
=============================================================================
