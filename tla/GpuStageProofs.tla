----------------------------- MODULE GpuStageProofs -----------------------------
(***************************************************************************)
(* Theorems about GpuStage for every number of devices, items and photos,  *)
(* every chunk size, and any number of reruns, exceptions, kills and       *)
(* deaths, worker processes that outlive their run included.               *)
(***************************************************************************)
EXTENDS GpuStage, FiniteSetTheorems, WellFoundedInduction, TLAPS

\* A set of numbers that is not empty has a least one.
LEMMA LeastIsOne ==
    ASSUME NEW S \in SUBSET Nat, S # {}
    PROVE  Least(S) \in S
<1> DEFINE R == {ss \in Nat \X Nat : ss[1] < ss[2]}
<1>1. R = OpToRel(<, Nat)
  BY DEF OpToRel
<1>2. IsWellFoundedOn(R, Nat)
  BY <1>1, NatLessThanWellFounded
<1>3. PICK x \in S : \A y \in S : ~ (<<y, x>> \in R)
  <2> HIDE DEF R
  <2> QED BY <1>2, WFMin
<1>4. \A y \in S : x <= y
  <2> SUFFICES ASSUME NEW y \in S, y < x PROVE FALSE
    OBVIOUS
  <2>1. <<y, x>> \in Nat \X Nat
    OBVIOUS
  <2>2. <<y, x>> \in R
    BY <2>1
  <2> QED BY <1>3, <2>2
<1> QED BY <1>4 DEF Least

\* The tasks of a set of items are numbered.
LEMMA TasksAreNumbers ==
    ASSUME NEW S \in SUBSET Items
    PROVE  TasksOf(S) \subseteq Nat
<1>1. \A i \in S : PhotoOf[i] \in Nat
  BY StageAssumption
<1>2. \A i \in S : Chunk(i, S) \in Nat
  <2> TAKE i \in S
  <2> DEFINE before == {j \in S : j < i}
  <2>1. IsFiniteSet(before)
    BY StageAssumption, FS_Subset
  <2>2. Cardinality(before) \in Nat
    BY <2>1, FS_CardinalityType
  <2> HIDE DEF before
  <2>3. Cardinality(before) \div ChunkSize \in Nat
    BY <2>2, StageAssumption
  <2> QED BY <2>3 DEF Chunk, before
<1> QED BY <1>1, <1>2 DEF TasksOf

LEMMA StageKind ==
    ASSUME kind \in Kinds
    PROVE  This.parts \in {1, 2}
BY StageAssumption DEF This, StageKinds

----------------------------------------------------------------------------
(***************************************************************************)
(* The pool.  A process that lives has taken an index below the counter,   *)
(* which no other living process holds; the init lock is with the process  *)
(* that is making its data.  Without a pool only process 1, the            *)
(* coordinator itself, does anything.                                      *)
(***************************************************************************)

PoolPoints == {"off", "spawned", "locking", "making", "idle", "busy", "gone"}

PoolInv ==
    /\ counter \in 0 .. NDevices
    /\ initLock \in {Free, Lost} \cup Procs
    /\ at \in [Procs -> PoolPoints]
    /\ device \in [Procs -> {None} \cup 0 .. NDevices - 1]
    /\ \A p \in Procs : at[p] = "making" <=> initLock = p
    /\ pooled => /\ \A p \in Live : device[p] \in 0 .. counter - 1
                 /\ \A p, q \in Live : p # q => device[p] # device[q]
    /\ ~pooled => \A p \in Procs : at[p] \in {"off", "idle", "busy"} /\ (p # 1 => at[p] = "off")
    /\ phase = "down" => \A p \in Procs : at[p] = "off"

LEMMA ProcNumbers == Procs \subseteq Nat /\ 1 \in Procs /\ Free \notin Procs /\ Lost \notin Procs /\ Free # Lost
BY PoolAssumption DEF Procs, Free, Lost

\* No process is started, or every process is.
LEMMA StartKeeps ==
    ASSUME NEW start \in [Procs -> {"off", "spawned"}], NEW tasks, StartPool(start, tasks),
           pooled' \/ start = NoPool, phase' = "down" => start = NoPool
    PROVE  PoolInv'
<1>1. counter' \in 0 .. NDevices
  BY PoolAssumption DEF StartPool
<1>2. device' \in [Procs -> {None} \cup 0 .. NDevices - 1]
  BY DEF StartPool, Nowhere
<1>3. at' \in [Procs -> PoolPoints] /\ Live' = {}
  BY DEF StartPool, PoolPoints, Live
<1> QED BY <1>1, <1>2, <1>3, ProcNumbers DEF StartPool, PoolInv, NoPool

\* The coordinator works by itself.
LEMMA InPlaceKeeps ==
    ASSUME NEW tasks, StartPool([NoPool EXCEPT ![1] = "idle"], tasks), ~pooled', phase' = "batch"
    PROVE  PoolInv'
<1>1. counter' \in 0 .. NDevices
  BY PoolAssumption DEF StartPool
<1>2. device' \in [Procs -> {None} \cup 0 .. NDevices - 1]
  BY DEF StartPool, Nowhere
<1>3. at' \in [Procs -> {"off", "idle"}] /\ \A p \in Procs : p # 1 => at'[p] = "off"
  BY DEF StartPool, NoPool
<1>4. at' \in [Procs -> PoolPoints]
  BY <1>3 DEF PoolPoints
<1> QED BY <1>1, <1>2, <1>3, <1>4, ProcNumbers DEF StartPool, PoolInv

\* A process takes a task, answers it or dies.
LEMMA TaskStepKeeps ==
    ASSUME PoolInv, NEW p \in Procs, phase # "down",
           \/ Take(p) \/ (at[p] = "busy" /\ Deliver(p)) \/ (pooled /\ Die(p)),
           UNCHANGED <<pooled, phase>>
    PROVE  PoolInv'
<1> USE DEF Take, Deliver, Die, Move
<1>1. at[p] \in PoolPoints /\ at' \in [Procs -> PoolPoints]
  BY DEF PoolInv, PoolPoints
<1>2. /\ UNCHANGED <<counter, device>>
      /\ \A q \in Procs : q # p => at'[q] = at[q]
      /\ at'[p] \in {"idle", "busy", "gone"}
      /\ at'[p] # "gone" => at[p] \in {"idle", "busy"}
      /\ at'[p] = "gone" => pooled
  BY DEF PoolInv
<1>3. Live' \subseteq Live
  BY <1>2 DEF Live
<1>4. \A q \in Procs : at'[q] = "making" <=> initLock' = q
  BY <1>2, ProcNumbers DEF PoolInv
<1>5. initLock' \in {Free, Lost} \cup Procs
  BY DEF PoolInv
<1>6. ~pooled' => \A q \in Procs : at'[q] \in {"off", "idle", "busy"} /\ (q # 1 => at'[q] = "off")
  BY <1>2 DEF PoolInv
<1> QED BY <1>1, <1>2, <1>3, <1>4, <1>5, <1>6 DEF PoolInv

\* A process starts or is replaced; only a pool has such processes.
LEMMA InitStepKeeps ==
    ASSUME PoolInv, NEW p \in Procs, InitStep(p), UNCHANGED <<pooled, phase>>
    PROVE  PoolInv'
<1> USE DEF Move
<1>1. pooled /\ phase # "down"
  BY DEF PoolInv, InitStep, GrabIndex, AcquireInitLock, InitLockTimesOut, MakeData, Respawn
<1>2. CASE GrabIndex(p) /\ counter < NDevices
  <2>1. /\ counter' = counter + 1 /\ initLock' = initLock /\ at[p] = "spawned"
        /\ at' = [at EXCEPT ![p] = "locking"] /\ device' = [device EXCEPT ![p] = counter]
    BY <1>2 DEF GrabIndex
  <2>2. counter \in 0 .. NDevices - 1 /\ counter' \in 0 .. NDevices
    BY <1>2, <2>1, PoolAssumption DEF PoolInv
  <2>3. at' \in [Procs -> PoolPoints] /\ device' \in [Procs -> {None} \cup 0 .. NDevices - 1]
    BY <2>1, <2>2 DEF PoolInv, PoolPoints
  <2>4. Live' = Live \cup {p} /\ p \notin Live
    BY <2>1 DEF PoolInv, Live
  <2>5. /\ device'[p] = counter
        /\ \A q \in Live : device'[q] = device[q] /\ device[q] \in 0 .. counter - 1
    BY <1>1, <2>1, <2>4 DEF PoolInv, Live
  <2>6. \A q \in Live' : device'[q] \in 0 .. counter' - 1
    BY <2>1, <2>2, <2>4, <2>5
  <2>7. \A q, r \in Live' : q # r => device'[q] # device'[r]
    BY <1>1, <2>2, <2>4, <2>5 DEF PoolInv
  <2> QED BY <1>1, <2>1, <2>2, <2>3, <2>6, <2>7 DEF PoolInv
<1>3. CASE GrabIndex(p) /\ ~(counter < NDevices)
  <2>1. /\ UNCHANGED <<counter, device, initLock>> /\ at[p] = "spawned" /\ at' = [at EXCEPT ![p] = "gone"]
    BY <1>3 DEF GrabIndex
  <2>2. at' \in [Procs -> PoolPoints] /\ Live' = Live
    BY <2>1 DEF PoolInv, PoolPoints, Live
  <2> QED BY <1>1, <2>1, <2>2 DEF PoolInv
<1>4. CASE AcquireInitLock(p) \/ InitLockTimesOut(p) \/ MakeData(p)
  <2> USE DEF AcquireInitLock, InitLockTimesOut, MakeData
  <2>1. /\ UNCHANGED <<counter, device>>
        /\ at' \in [Procs -> PoolPoints]
        /\ \A q \in Procs : q # p => at'[q] = at[q]
    BY <1>4 DEF PoolInv, PoolPoints
  <2>2. Live' \subseteq Live
    BY <1>4, <2>1 DEF PoolInv, Live
  <2>3. initLock' \in {Free, Lost} \cup Procs
    BY <1>4 DEF PoolInv
  <2>4. \A q \in Procs : at'[q] = "making" <=> initLock' = q
    BY <1>4, <2>1, ProcNumbers DEF PoolInv
  <2> QED BY <1>1, <2>1, <2>2, <2>3, <2>4 DEF PoolInv
<1>5. CASE Respawn(p)
  <2>1. /\ UNCHANGED <<counter, initLock>> /\ at[p] = "gone"
        /\ at' = [at EXCEPT ![p] = "spawned"] /\ device' = [device EXCEPT ![p] = None]
    BY <1>5 DEF Respawn
  <2>2. at' \in [Procs -> PoolPoints] /\ device' \in [Procs -> {None} \cup 0 .. NDevices - 1]
    BY <2>1 DEF PoolInv, PoolPoints
  <2>3. Live' = Live /\ \A q \in Live : device'[q] = device[q]
    BY <2>1 DEF PoolInv, Live
  <2> QED BY <1>1, <2>1, <2>2, <2>3 DEF PoolInv
<1> QED BY <1>2, <1>3, <1>4, <1>5 DEF InitStep

----------------------------------------------------------------------------
(***************************************************************************)
(* The tasks.  A busy process is inside _worker with some of the items of  *)
(* the task it took; a task is with one process or in the queue.           *)
(***************************************************************************)

Steps == {"none", "open", "item", "work", "store", "mark", "clear", "fail"}

LocalType ==
    /\ step \in [Workers -> Steps]
    /\ rest \in [Workers -> SUBSET Items]
    /\ part \in [Workers -> Nat]

InTask ==
    \A w \in Workers : /\ step[w] = "none" => rest[w] = {}
                       /\ step[w] \notin {"none", "item"} => rest[w] # {}

Assigned ==
    /\ \A p \in Procs : at[p] = "busy" <=> step[p] # "none"
    /\ \A p \in Procs : at[p] = "busy" <=> job[p] # None
    /\ \A p \in Procs : at[p] = "busy" => job[p] \notin queue /\ rest[p] \subseteq ItemsOf(job[p], ready)
    /\ \A p, q \in Procs : p # q /\ at[p] = "busy" /\ at[q] = "busy" => job[p] # job[q]

TaskInv ==
    /\ kind \in Kinds /\ ready \in SUBSET Items
    /\ LocalType
    /\ InTask
    /\ job \in [Procs -> {None} \cup Nat]
    /\ queue \subseteq due /\ due \subseteq TasksOf(ready)
    /\ Assigned

LEMMA OrphanIsNone == Orphan \in Workers /\ Orphan \notin Procs /\ Procs \subseteq Workers
BY PoolAssumption DEF Orphan, Workers, Procs

\* A worker goes on inside its task.
LEMMA LocalStepKeeps ==
    ASSUME TaskInv, NEW w \in Workers, NEW s \in Steps \ {"none"}, NEW r \in SUBSET rest[w], NEW k \in Nat,
           step[w] # "none", s = "item" \/ r # {},
           step' = [step EXCEPT ![w] = s], rest' = [rest EXCEPT ![w] = r], part' = [part EXCEPT ![w] = k],
           UNCHANGED <<poolVars, kind, ready>>
    PROVE  TaskInv'
<1> USE DEF poolVars
<1>1. LocalType' /\ InTask'
  BY DEF TaskInv, LocalType, InTask
<1>2. \A v \in Workers : /\ (step'[v] = "none") <=> (step[v] = "none")
                         /\ rest'[v] \subseteq rest[v]
  BY DEF TaskInv, LocalType
<1>3. Assigned'
  BY <1>2, OrphanIsNone DEF TaskInv, Assigned, ItemsOf, This, Chunk
<1>4. TasksOf(ready)' = TasksOf(ready)
  BY DEF TasksOf, This, Chunk
<1> QED BY <1>1, <1>2, <1>3, <1>4 DEF TaskInv

\* A process answers its task, or dies with it.
LEMMA TaskEndKeeps ==
    ASSUME TaskInv, NEW p \in Procs, at \in [Procs -> PoolPoints], Finish(p), UNCHANGED <<kind, ready>>,
           \/ at[p] = "busy" /\ Deliver(p)
           \/ Die(p)
    PROVE  TaskInv'
<1> USE DEF Deliver, Die, Move, Finish
<1>1. LocalType' /\ InTask'
  BY OrphanIsNone DEF TaskInv, LocalType, InTask, Steps
<1>2. /\ \A q \in Procs : q # p => /\ at'[q] = at[q] /\ job'[q] = job[q]
                                   /\ step'[q] = step[q] /\ rest'[q] = rest[q]
      /\ at'[p] # "busy" /\ job'[p] = None /\ step'[p] = "none"
      /\ job' \in [Procs -> {None} \cup Nat] /\ queue' = queue
  BY OrphanIsNone DEF TaskInv, LocalType
<1>3. Assigned'
  <2>1. \A t : ItemsOf(t, ready)' = ItemsOf(t, ready)
    BY DEF ItemsOf, This, Chunk
  <2> HIDE DEF Deliver, Die, Move, Finish
  <2> QED BY <1>2, <2>1 DEF TaskInv, Assigned
<1>4. queue' \subseteq due' /\ due' \subseteq TasksOf(ready)'
  <2>1. TasksOf(ready)' = TasksOf(ready)
    BY DEF TasksOf, This, Chunk
  <2>2. due' \subseteq due /\ queue' \subseteq due'
    BY DEF TaskInv, Assigned
  <2> QED BY <2>1, <2>2 DEF TaskInv
<1> QED BY <1>1, <1>2, <1>3, <1>4 DEF TaskInv

\* A pool or no pool is started while no process is in a task.
LEMMA StartTasksKeeps ==
    ASSUME TaskInv, NEW start \in [Procs -> PoolPoints \ {"busy"}], NEW tasks, StartPool(start, tasks),
           kind' = kind, ready' \in SUBSET Items, tasks \subseteq TasksOf(ready)',
           LocalType', InTask',
           \A p \in Procs : step'[p] = "none"
    PROVE  TaskInv'
<1>1. \A p \in Procs : at'[p] # "busy" /\ job'[p] = None
  BY DEF StartPool, Nowhere
<1>2. Assigned'
  BY <1>1 DEF Assigned
<1>3. job' \in [Procs -> {None} \cup Nat]
  BY DEF StartPool, Nowhere
<1> QED BY <1>2, <1>3 DEF StartPool, TaskInv

\* The run ends; the orphan's task is what it was, or that of a process left over.
LEMMA EndKeeps ==
    ASSUME TaskInv, PoolInv, End, NEW w \in Workers, ForgetTasks(step[w], rest[w], part[w])
    PROVE  TaskInv' /\ PoolInv'
<1>1. NoPool \in [Procs -> {"off", "spawned"}] /\ NoPool \in [Procs -> PoolPoints \ {"busy"}]
  BY DEF NoPool, PoolPoints
<1>2. LocalType'
  <2>1. step' \in [Workers -> Steps]
    BY DEF ForgetTasks, NoTask, TaskInv, LocalType, Steps
  <2>2. rest' \in [Workers -> SUBSET Items]
    BY DEF ForgetTasks, NoRest, TaskInv, LocalType
  <2>3. part' \in [Workers -> Nat]
    BY DEF ForgetTasks, FirstPart, TaskInv, LocalType
  <2> QED BY <2>1, <2>2, <2>3 DEF LocalType
<1>3. \A p \in Procs : step'[p] = "none"
  BY OrphanIsNone DEF ForgetTasks, NoTask
<1>4. InTask'
  BY DEF ForgetTasks, NoTask, NoRest, TaskInv, LocalType, InTask
<1>5. TaskInv'
  BY <1>1, <1>2, <1>3, <1>4, StartTasksKeeps DEF End
<1>6. PoolInv'
  BY <1>1, StartKeeps DEF End
<1> QED BY <1>5, <1>6

\* A worker leaves its task, by itself or answering it.
LEMMA FinishKeeps ==
    ASSUME TaskInv, PoolInv, NEW w \in Workers, step[w] # "none", Finish(w),
           IF w = Orphan THEN UNCHANGED poolVars ELSE Deliver(w),
           UNCHANGED <<kind, phase, pooled, ready>>
    PROVE  TaskInv' /\ PoolInv'
<1>1. CASE w = Orphan
  <2> USE DEF poolVars
  <2>1. /\ LocalType' /\ InTask'
        /\ \A p \in Procs : step'[p] = step[p] /\ rest'[p] = rest[p]
    BY <1>1, OrphanIsNone DEF Finish, TaskInv, LocalType, InTask, Steps
  <2>2. \A t : ItemsOf(t, ready)' = ItemsOf(t, ready)
    BY DEF ItemsOf, This, Chunk
  <2>3. Assigned'
    BY <1>1, <2>1, <2>2 DEF TaskInv, Assigned
  <2>4. TasksOf(ready)' = TasksOf(ready)
    BY DEF TasksOf, This, Chunk
  <2>5. TaskInv'
    BY <1>1, <2>1, <2>3, <2>4 DEF TaskInv
  <2>6. PoolInv'
    BY <1>1 DEF PoolInv, Live
  <2> QED BY <2>5, <2>6
<1>2. CASE w # Orphan
  <2>1. w \in Procs /\ at[w] = "busy" /\ at \in [Procs -> PoolPoints]
    BY <1>2 DEF Workers, TaskInv, Assigned, PoolInv
  <2>2. phase # "down"
    BY <2>1 DEF PoolInv
  <2>3. TaskInv'
    BY <1>2, <2>1, TaskEndKeeps
  <2>4. PoolInv'
    BY <1>2, <2>1, <2>2, TaskStepKeeps
  <2> QED BY <2>3, <2>4
<1> QED BY <1>1, <1>2

\* An exception leaves _worker.
LEMMA EscapeKeeps ==
    ASSUME TaskInv, PoolInv, NEW w \in Workers, step[w] # "none", Escape(w)
    PROVE  TaskInv' /\ PoolInv'
<1>1. CASE w = Orphan /\ Finish(w) /\ UNCHANGED <<poolVars, kind, runVars>>
  BY <1>1, FinishKeeps DEF runVars
<1>2. CASE w # Orphan /\ Deliver(w) /\ Finish(w) /\ UNCHANGED <<kind, phase, pooled, failFast, ready>>
  BY <1>2, FinishKeeps
<1>3. CASE End /\ KeepOrphan
  BY <1>3, OrphanIsNone, EndKeeps DEF KeepOrphan
<1> QED BY <1>1, <1>2, <1>3 DEF Escape

----------------------------------------------------------------------------
(***************************************************************************)
(* The writes.  StoredBeforeDone is kept by mark_done because the parts of *)
(* the result before part[w] are on disk while a worker stores, and all of *)
(* them once it marks; an orphan takes this with it when its run is over.  *)
(***************************************************************************)

Written(w) ==
    /\ step[w] = "store" => part[w] \in Parts /\ {Cur(w)} \X (1 .. part[w] - 1) \subseteq stored
    /\ step[w] = "mark" => {Cur(w)} \X Parts \subseteq stored
    /\ step[w] # "store" => part[w] = 1

WriteInv ==
    /\ ProgressType
    /\ StoredBeforeDone
    /\ \A w \in Workers : Written(w)

StageInv == PoolInv /\ TaskInv /\ WriteInv

\* A worker's place, its own or one it takes over, stays right as results are added.
LEMMA PlaceKeeps ==
    ASSUME NEW w \in Workers, NEW v \in Workers, Written(v), kind' = kind, stored \subseteq stored',
           step'[w] = step[v], rest'[w] = rest[v], part'[w] = part[v]
    PROVE  Written(w)'
BY DEF Written, Cur, Parts, This

LEMMA PlaceFresh ==
    ASSUME NEW w \in Workers, step'[w] \notin {"store", "mark"}, part'[w] = 1
    PROVE  Written(w)'
BY DEF Written

\* A step of one worker that does not mark an item done.
LEMMA OneWorkerWrites ==
    ASSUME WriteInv, NEW w \in Workers, Written(w)', kind' = kind, done' = done, ProgressType',
           stored \subseteq stored',
           \A v \in Workers : v # w => step'[v] = step[v] /\ rest'[v] = rest[v] /\ part'[v] = part[v]
    PROVE  WriteInv'
<1>1. \A v \in Workers : Written(v)'
  <2> TAKE v \in Workers
  <2>1. CASE v = w
    BY <2>1
  <2>2. CASE v # w
    BY <2>2, PlaceKeeps DEF WriteInv
  <2> QED BY <2>1, <2>2
<1>2. StoredBeforeDone'
  BY DEF WriteInv, StoredBeforeDone, Parts, This
<1> QED BY <1>1, <1>2 DEF WriteInv

LEMMA SameProgress ==
    ASSUME StageInv, UNCHANGED progressVars
    PROVE  ProgressType' /\ done' = done
BY DEF StageInv, WriteInv, ProgressType, progressVars

LEMMA EndWrites ==
    ASSUME StageInv, NEW w \in Workers, ForgetTasks(step[w], rest[w], part[w]),
           UNCHANGED <<kind, done, stored>>, ProgressType'
    PROVE  WriteInv'
<1>1. \A v \in Workers : Written(v)'
  <2> TAKE v \in Workers
  <2>1. CASE v = Orphan
    <3>1. step'[v] = step[w] /\ rest'[v] = rest[w] /\ part'[v] = part[w]
      BY <2>1, OrphanIsNone DEF ForgetTasks, NoTask, NoRest, FirstPart
    <3> QED BY <3>1, PlaceKeeps DEF StageInv, WriteInv
  <2>2. CASE v # Orphan
    BY <2>2, PlaceFresh DEF ForgetTasks, NoTask, FirstPart
  <2> QED BY <2>1, <2>2
<1>2. StoredBeforeDone'
  BY DEF StageInv, WriteInv, StoredBeforeDone, Parts, This
<1> QED BY <1>1, <1>2 DEF WriteInv

LEMMA FinishWrites ==
    ASSUME StageInv, NEW w \in Workers, Finish(w), UNCHANGED <<kind, done, stored>>, ProgressType'
    PROVE  WriteInv'
<1>1. step'[w] = "none" /\ part'[w] = 1
  BY DEF Finish, StageInv, TaskInv, LocalType
<1>2. \A v \in Workers : v # w => step'[v] = step[v] /\ rest'[v] = rest[v] /\ part'[v] = part[v]
  BY DEF Finish, StageInv, TaskInv, LocalType
<1> QED BY <1>1, <1>2, PlaceFresh, OneWorkerWrites DEF StageInv

LEMMA EscapeWrites ==
    ASSUME StageInv, NEW w \in Workers, Escape(w), UNCHANGED <<done, stored>>, ProgressType'
    PROVE  WriteInv'
<1>1. CASE Finish(w) /\ kind' = kind
  BY <1>1, FinishWrites
<1>2. CASE End /\ KeepOrphan
  BY <1>2, OrphanIsNone, EndWrites DEF End, KeepOrphan
<1> QED BY <1>1, <1>2 DEF Escape

LEMMA QuietWrites ==
    ASSUME WriteInv, UNCHANGED <<progressVars, kind, stored, localVars>>
    PROVE  WriteInv'
<1>1. Written(Orphan)'
  BY OrphanIsNone, PlaceKeeps DEF WriteInv, localVars
<1> QED BY <1>1, OrphanIsNone, OneWorkerWrites DEF WriteInv, ProgressType, progressVars, localVars

----------------------------------------------------------------------------
(* The steps of Next.                                                      *)

\* A worker that stays in its task and marks nothing done.
LEMMA LocalStep ==
    ASSUME StageInv, NEW w \in Workers, NEW s \in Steps \ {"none"}, NEW r \in SUBSET rest[w], NEW k \in Nat,
           step[w] # "none", s = "item" \/ r # {},
           step' = [step EXCEPT ![w] = s], rest' = [rest EXCEPT ![w] = r], part' = [part EXCEPT ![w] = k],
           UNCHANGED <<poolVars, runVars, kind, done>>, ProgressType', stored \subseteq stored', Written(w)'
    PROVE  StageInv'
<1>1. TaskInv'
  BY LocalStepKeeps DEF StageInv, runVars
<1>2. PoolInv'
  BY DEF StageInv, PoolInv, Live, poolVars, runVars
<1>3. \A v \in Workers : v # w => step'[v] = step[v] /\ rest'[v] = rest[v] /\ part'[v] = part[v]
  BY DEF StageInv, TaskInv, LocalType
<1>4. WriteInv'
  BY <1>3, OneWorkerWrites DEF StageInv
<1> QED BY <1>1, <1>2, <1>4 DEF StageInv

LEMMA LaunchKeeps == StageInv /\ Launch => StageInv'
<1> SUFFICES ASSUME StageInv, Launch PROVE StageInv'
  OBVIOUS
<1>1. /\ phase' = "batch" /\ ready' = Ready /\ Ready \in SUBSET Items
      /\ UNCHANGED <<progressVars, kind, stored, localVars>>
      /\ pooled' \in BOOLEAN
  BY DEF Launch, Ready
<1>2. StartPool(IF pooled' THEN [p \in Procs |-> "spawned"] ELSE [NoPool EXCEPT ![1] = "idle"], TasksOf(Ready))
  BY DEF Launch
<1>3. PoolInv'
  <2>1. CASE pooled'
    <3>1. [p \in Procs |-> "spawned"] \in [Procs -> {"off", "spawned"}]
      OBVIOUS
    <3> QED BY <1>1, <1>2, <2>1, <3>1, StartKeeps
  <2>2. CASE ~pooled'
    BY <1>1, <1>2, <2>2, InPlaceKeeps
  <2> QED BY <2>1, <2>2
<1>4. TaskInv'
  <2>1. /\ [p \in Procs |-> "spawned"] \in [Procs -> PoolPoints \ {"busy"}]
        /\ [NoPool EXCEPT ![1] = "idle"] \in [Procs -> PoolPoints \ {"busy"}]
    BY DEF NoPool, PoolPoints
  <2>2. TasksOf(ready)' = TasksOf(Ready)
    BY <1>1 DEF TasksOf, This, Chunk
  <2>3. /\ LocalType' /\ InTask'
        /\ \A p \in Procs : step'[p] = "none"
    BY <1>1 DEF Launch, localVars, StageInv, PoolInv, TaskInv, Assigned, LocalType, InTask
  <2> QED BY <1>1, <1>2, <2>1, <2>2, <2>3, StartTasksKeeps DEF StageInv
<1>5. WriteInv'
  BY <1>1, QuietWrites DEF StageInv
<1> QED BY <1>3, <1>4, <1>5 DEF StageInv

LEMMA BeginKeeps ==
    ASSUME StageInv, NEW p \in Procs, Begin(p)
    PROVE  StageInv'
<1>1. /\ Take(p) /\ UNCHANGED <<stageVars, runVars, part>>
      /\ step' = [step EXCEPT ![p] = IF This.opens THEN "open" ELSE "item"]
      /\ rest' = [rest EXCEPT ![p] = ItemsOf(job'[p], ready)]
  BY DEF Begin
<1>2. at[p] = "idle" /\ queue # {} /\ at \in [Procs -> PoolPoints]
  BY <1>1 DEF Take, StageInv, PoolInv
<1>3. PoolInv'
  <2>1. phase # "down"
    BY <1>2 DEF StageInv, PoolInv
  <2> QED BY <1>1, <2>1, TaskStepKeeps DEF StageInv, runVars
<1>4. Least(queue) \in queue /\ queue \subseteq Nat
  <2>1. queue \in SUBSET Nat
    BY TasksAreNumbers DEF StageInv, TaskInv
  <2> QED BY <1>2, <2>1, LeastIsOne
<1>5. /\ queue' = queue \ {Least(queue)} /\ due' = due
      /\ job' = [job EXCEPT ![p] = Least(queue)] /\ at' = [at EXCEPT ![p] = "busy"]
  BY <1>1 DEF Take, Move
<1>6. TaskInv'
  <2>1. TasksOf(ready)' = TasksOf(ready)
    BY <1>1 DEF stageVars, runVars, TasksOf, This, Chunk
  <2>2. /\ job'[p] = Least(queue)
        /\ ItemsOf(job'[p], ready) \in SUBSET Items /\ ItemsOf(job'[p], ready) # {}
    BY <1>4, <1>5 DEF ItemsOf, TasksOf, StageInv, TaskInv
  <2>3. LocalType' /\ InTask'
    BY <1>1, <2>2, OrphanIsNone DEF StageInv, TaskInv, LocalType, InTask, Steps
  <2>4. /\ job' \in [Procs -> {None} \cup Nat]
        /\ job'[p] = Least(queue) /\ job'[p] # None
    <3>1. Least(queue) \in Nat
      BY <1>4
    <3>2. None \notin Nat
      BY DEF None
    <3>3. job \in [Procs -> {None} \cup Nat]
      BY DEF StageInv, TaskInv
    <3> QED BY <1>5, <3>1, <3>2, <3>3
  <2>5. at'[p] = "busy" /\ step'[p] # "none" /\ rest'[p] = ItemsOf(job'[p], ready)
    BY <1>1, <1>2, <1>5, OrphanIsNone DEF StageInv, TaskInv, LocalType
  <2>6. \A q \in Procs : q # p => /\ at'[q] = at[q] /\ job'[q] = job[q]
                                  /\ step'[q] = step[q] /\ rest'[q] = rest[q]
    BY <1>1, <1>2, <1>5, OrphanIsNone DEF StageInv, TaskInv, LocalType
  <2>7. Assigned'
    <3>1. \A q \in Procs : at'[q] = "busy" <=> step'[q] # "none"
      BY <2>4, <2>5, <2>6 DEF StageInv, TaskInv, Assigned
    <3>2. \A q \in Procs : at'[q] = "busy" <=> job'[q] # None
      BY <2>4, <2>5, <2>6 DEF StageInv, TaskInv, Assigned
    <3>3. \A q \in Procs : at'[q] = "busy" => job'[q] \notin queue' /\ rest'[q] \subseteq ItemsOf(job'[q], ready)
      BY <1>5, <2>4, <2>5, <2>6 DEF StageInv, TaskInv, Assigned
    <3>4. \A q, r \in Procs : q # r /\ at'[q] = "busy" /\ at'[r] = "busy" => job'[q] # job'[r]
      BY <1>4, <2>4, <2>5, <2>6 DEF StageInv, TaskInv, Assigned
    <3>5. \A q \in Procs : ItemsOf(job[q], ready)' = ItemsOf(job'[q], ready)
      BY <1>1 DEF stageVars, runVars, ItemsOf, This, Chunk
    <3> QED BY <3>1, <3>2, <3>3, <3>4, <3>5 DEF Assigned
  <2> QED BY <1>1, <1>5, <2>1, <2>3, <2>4, <2>7 DEF stageVars, runVars, StageInv, TaskInv
<1>7. WriteInv'
  <2>1. /\ step'[p] \notin {"store", "mark"} /\ part'[p] = 1
        /\ \A v \in Workers : v # p => step'[v] = step[v] /\ rest'[v] = rest[v] /\ part'[v] = part[v]
    BY <1>1, <1>2, OrphanIsNone DEF StageInv, TaskInv, Assigned, LocalType, WriteInv, Written
  <2> QED
    BY <1>1, <2>1, OrphanIsNone, PlaceFresh, OneWorkerWrites
       DEF stageVars, StageInv, WriteInv, ProgressType, progressVars
<1> QED BY <1>3, <1>6, <1>7 DEF StageInv

LEMMA PoolStepKeeps ==
    ASSUME StageInv, NEW p \in Procs, PoolStep(p)
    PROVE  StageInv'
<1>1. InitStep(p) /\ UNCHANGED <<stageVars, runVars, localVars>>
  BY DEF PoolStep
<1>2. PoolInv'
  BY <1>1, InitStepKeeps DEF StageInv, runVars
<1>3. /\ at[p] # "busy" /\ at'[p] # "busy"
      /\ \A q \in Procs : q # p => at'[q] = at[q]
      /\ UNCHANGED <<job, queue, due>>
  BY <1>1 DEF InitStep, GrabIndex, AcquireInitLock, InitLockTimesOut, MakeData, Respawn, Move, StageInv, PoolInv
<1>4. TaskInv'
  <2>1. \A t : ItemsOf(t, ready)' = ItemsOf(t, ready) /\ TasksOf(ready)' = TasksOf(ready)
    BY <1>1 DEF stageVars, runVars, ItemsOf, TasksOf, This, Chunk
  <2>2. Assigned'
    BY <1>1, <1>3, <2>1 DEF stageVars, runVars, localVars, StageInv, TaskInv, Assigned
  <2> QED BY <1>1, <1>3, <2>1, <2>2 DEF stageVars, runVars, localVars, StageInv, TaskInv, LocalType, InTask
<1>5. WriteInv'
  BY <1>1, QuietWrites DEF StageInv, stageVars
<1> QED BY <1>2, <1>4, <1>5 DEF StageInv

LEMMA WorkerDiesKeeps ==
    ASSUME StageInv, NEW p \in Procs, WorkerDies(p)
    PROVE  StageInv'
<1>1. pooled /\ Die(p) /\ Finish(p) /\ UNCHANGED <<stageVars, runVars>>
  BY DEF WorkerDies
<1>2. phase # "down"
  BY <1>1 DEF Die, StageInv, PoolInv
<1>3. PoolInv'
  BY <1>1, <1>2, TaskStepKeeps DEF StageInv, runVars
<1>4. TaskInv'
  BY <1>1, TaskEndKeeps DEF StageInv, PoolInv, stageVars, runVars
<1>5. WriteInv'
  BY <1>1, OrphanIsNone, SameProgress, FinishWrites DEF stageVars
<1> QED BY <1>3, <1>4, <1>5 DEF StageInv

\* The coordinator leaves its batch.
LEMMA EndStep ==
    ASSUME StageInv, End, NEW w \in Workers, ForgetTasks(step[w], rest[w], part[w]),
           UNCHANGED <<progressVars, stored>>
    PROVE  StageInv'
<1>1. TaskInv' /\ PoolInv'
  BY EndKeeps DEF StageInv
<1>2. WriteInv'
  BY SameProgress, EndWrites DEF End
<1> QED BY <1>1, <1>2 DEF StageInv

LEMMA EscapeStep ==
    ASSUME StageInv, NEW w \in Workers, step[w] # "none", Escape(w), UNCHANGED <<progressVars, stored>>
    PROVE  StageInv'
BY SameProgress, EscapeKeeps, EscapeWrites DEF StageInv

\* The next point in the task, at the same item and before anything is written.
LEMMA GoStep ==
    ASSUME StageInv, NEW w \in Workers, NEW s \in {"item", "work", "store", "fail"}, Go(w, s),
           step[w] \in {"open", "item", "work"}, s = "item" \/ rest[w] # {},
           UNCHANGED <<progressVars, kind, stored, poolVars, runVars>>
    PROVE  StageInv'
<1>1. /\ part[w] = 1 /\ step' = [step EXCEPT ![w] = s]
      /\ rest' = [rest EXCEPT ![w] = rest[w]] /\ part' = [part EXCEPT ![w] = part[w]]
  BY DEF Go, StageInv, TaskInv, LocalType, WriteInv, Written
<1>2. step'[w] = s /\ part'[w] = 1
  BY <1>1 DEF StageInv, TaskInv, LocalType
<1>3. 1 \in Parts /\ Parts' = Parts
  <2>1. Parts' = Parts
    BY DEF Parts, This
  <2>2. This.parts \in {1, 2}
    BY StageKind DEF StageInv, TaskInv
  <2> QED BY <2>1, <2>2 DEF Parts
<1>4. Written(w)'
  <2>1. s = "store" => part'[w] \in Parts' /\ {Cur(w)'} \X (1 .. part'[w] - 1) \subseteq stored'
    BY <1>2, <1>3
  <2> QED BY <1>2, <2>1 DEF Written
<1>5. ProgressType' /\ done' = done
  BY DEF progressVars, StageInv, WriteInv, ProgressType
<1> QED BY <1>1, <1>4, <1>5, LocalStep DEF Steps

\* On to the next item.
LEMMA AdvanceStep ==
    ASSUME StageInv, NEW w \in Workers, Advance(w), step[w] \in {"item", "clear", "fail"},
           UNCHANGED <<done, kind, stored, poolVars, runVars>>, ProgressType'
    PROVE  StageInv'
<1> DEFINE r == rest[w] \ {Cur(w)}
<1>1. /\ part[w] = 1 /\ step' = [step EXCEPT ![w] = "item"]
      /\ rest' = [rest EXCEPT ![w] = r] /\ part' = [part EXCEPT ![w] = part[w]]
      /\ r \in SUBSET rest[w]
  BY DEF Advance, StageInv, TaskInv, LocalType, WriteInv, Written
<1>2. Written(w)'
  BY <1>1 DEF Written, StageInv, TaskInv, LocalType
<1> HIDE DEF r
<1> QED BY <1>1, <1>2, LocalStep DEF Steps

\* The item a worker is at is one of the stage's.
LEMMA CurIsItem ==
    ASSUME StageInv, NEW w \in Workers, rest[w] # {}
    PROVE  Cur(w) \in Items
<1>1. rest[w] \in SUBSET Items
  BY DEF StageInv, TaskInv, LocalType
<1>2. rest[w] \in SUBSET Nat
  BY <1>1, ItemsAssumption
<1> QED BY <1>1, <1>2, LeastIsOne DEF Cur

LEMMA StorePartKeeps ==
    ASSUME StageInv, NEW w \in Workers, StorePart(w)
    PROVE  StageInv'
<1>1. /\ step[w] = "store" /\ part[w] \in Parts /\ rest[w] # {}
      /\ {Cur(w)} \X (1 .. part[w] - 1) \subseteq stored
  BY DEF StorePart, StageInv, TaskInv, InTask, WriteInv, Written
<1>2. /\ This.parts \in {1, 2} /\ Parts = 1 .. This.parts /\ part[w] \in Nat
      /\ Parts' = Parts /\ This' = This
  BY <1>1, StageKind DEF StorePart, StageInv, TaskInv, Parts, This
<1> DEFINE s == IF part[w] < This.parts THEN "store" ELSE "mark"
           k == IF part[w] < This.parts THEN part[w] + 1 ELSE 1
<1>3. /\ step' = [step EXCEPT ![w] = s] /\ part' = [part EXCEPT ![w] = k]
      /\ rest' = [rest EXCEPT ![w] = rest[w]]
      /\ stored' = stored \cup {<<Cur(w), part[w]>>}
      /\ UNCHANGED <<progressVars, kind, poolVars, runVars>>
  BY DEF StorePart, StageInv, TaskInv, LocalType
<1>4. k \in Nat /\ s \in Steps \ {"none"}
  BY <1>2 DEF Steps
<1>5. step'[w] = s /\ part'[w] = k /\ rest'[w] = rest[w] /\ Cur(w)' = Cur(w)
  BY <1>3 DEF StageInv, TaskInv, LocalType, Cur
<1>6. {Cur(w)} \X (1 .. part[w]) \subseteq stored'
  BY <1>1, <1>2, <1>3
<1>7. Written(w)'
  <2>1. CASE part[w] < This.parts
    BY <1>2, <1>5, <1>6, <2>1 DEF Written
  <2>2. CASE ~(part[w] < This.parts)
    BY <1>1, <1>2, <1>5, <1>6, <2>2 DEF Written
  <2> QED BY <2>1, <2>2
<1>8. ProgressType' /\ done' = done /\ stored \subseteq stored'
  BY <1>3 DEF progressVars, StageInv, WriteInv, ProgressType
<1> HIDE DEF s, k
<1> QED BY <1>1, <1>3, <1>4, <1>7, <1>8, LocalStep

LEMMA MarkDoneAddKeeps ==
    ASSUME StageInv, NEW w \in Workers, MarkDoneAdd(w)
    PROVE  StageInv'
<1>1. /\ step[w] = "mark" /\ part[w] = 1 /\ rest[w] # {}
      /\ {Cur(w)} \X Parts \subseteq stored
  BY DEF MarkDoneAdd, StageInv, TaskInv, InTask, WriteInv, Written
<1>2. /\ step' = [step EXCEPT ![w] = "clear"] /\ part' = [part EXCEPT ![w] = part[w]]
      /\ rest' = [rest EXCEPT ![w] = rest[w]]
      /\ done' = [done EXCEPT ![Stage] = @ \cup {Cur(w)}]
      /\ UNCHANGED <<skipped, errors, kind, stored, poolVars, runVars>>
  BY DEF MarkDoneAdd, Go, DoneAdd, StageInv, TaskInv, LocalType
<1>3. TaskInv'
  BY <1>1, <1>2, LocalStepKeeps DEF StageInv, TaskInv, LocalType, Steps, runVars
<1>4. PoolInv'
  BY <1>2 DEF StageInv, PoolInv, Live, poolVars, runVars
<1>5. Stage \in Stages /\ Cur(w) \in Items
  BY <1>1, StageAssumption, CurIsItem
<1>6. ProgressType'
  BY <1>2, <1>5 DEF StageInv, WriteInv, ProgressType
<1>7. StoredBeforeDone'
  <2>1. done'[Stage] = done[Stage] \cup {Cur(w)} /\ Parts' = Parts
    BY <1>2, <1>5 DEF StageInv, WriteInv, ProgressType, Parts, This
  <2> QED BY <1>1, <1>2, <2>1 DEF StageInv, WriteInv, StoredBeforeDone
<1>8. ASSUME NEW v \in Workers PROVE Written(v)'
  <2>1. CASE v = w
    <3>1. step'[v] = "clear" /\ part'[v] = 1
      BY <1>1, <1>2, <2>1 DEF StageInv, TaskInv, LocalType
    <3> QED BY <3>1, PlaceFresh
  <2>2. CASE v # w
    <3>1. step'[v] = step[v] /\ rest'[v] = rest[v] /\ part'[v] = part[v]
      BY <1>2, <2>2 DEF StageInv, TaskInv, LocalType
    <3> QED BY <1>2, <3>1, PlaceKeeps DEF StageInv, WriteInv
  <2> QED BY <2>1, <2>2
<1> QED BY <1>3, <1>4, <1>6, <1>7, <1>8 DEF StageInv, WriteInv

LEMMA WorkerStepKeeps ==
    ASSUME StageInv, NEW w \in Workers, WorkerStep(w) \/ ItemFault(w) \/ ProgressFault(w)
    PROVE  StageInv'
<1> USE DEF stageVars
<1>a. step[w] \in Steps /\ (step[w] \notin {"none", "item"} => rest[w] # {})
  BY DEF StageInv, TaskInv, LocalType, InTask
<1>b. ASSUME step[w] # "none", rest[w] # {}, ErrorsSet(Stage, Cur(w)) \/ ErrorsDelete(Stage, Cur(w))
      PROVE  ProgressType' /\ done' = done
  BY <1>b, StageAssumption, CurIsItem DEF ErrorsSet, ErrorsDelete, StageInv, WriteInv, ProgressType
<1>1. CASE OpenPhoto(w)
  <2>1. CASE Go(w, "item") /\ UNCHANGED <<poolVars, runVars, kind>>
    BY <1>1, <2>1, GoStep DEF OpenPhoto
  <2>2. CASE Escape(w)
    BY <1>1, <2>2, EscapeStep DEF OpenPhoto
  <2> QED BY <1>1, <2>1, <2>2 DEF OpenPhoto
<1>2. CASE NextItem(w)
  <2>1. CASE Advance(w)
    <3>1. ProgressType'
      BY <1>2 DEF NextItem, progressVars, StageInv, WriteInv, ProgressType
    <3> QED BY <1>2, <2>1, <3>1, AdvanceStep DEF NextItem, progressVars
  <2>2. CASE Go(w, "work")
    BY <1>2, <2>2, GoStep DEF NextItem
  <2> QED BY <1>2, <2>1, <2>2 DEF NextItem
<1>3. CASE Work(w)
  BY <1>3, <1>a, GoStep DEF Work
<1>4. CASE StorePart(w)
  BY <1>4, StorePartKeeps
<1>5. CASE MarkDoneAdd(w)
  BY <1>5, MarkDoneAddKeeps
<1>6. CASE MarkDoneClear(w)
  BY <1>6, <1>a, <1>b, AdvanceStep DEF MarkDoneClear
<1>7. CASE MarkFailed(w)
  <2>1. step[w] = "fail" /\ ErrorsSet(Stage, Cur(w)) /\ stored' = stored /\ rest[w] # {}
    BY <1>7, <1>a DEF MarkFailed
  <2>2. ProgressType' /\ done' = done
    BY <1>b, <2>1
  <2>3. CASE Advance(w) /\ UNCHANGED <<poolVars, kind, runVars>>
    BY <2>1, <2>2, <2>3, AdvanceStep
  <2>4. CASE Escape(w)
    <3>1. TaskInv' /\ PoolInv'
      BY <2>1, <2>4, EscapeKeeps DEF StageInv
    <3> QED BY <2>1, <2>2, <2>4, <3>1, EscapeWrites DEF StageInv
  <2> QED BY <1>7, <2>3, <2>4 DEF MarkFailed
<1>8. CASE TaskReturns(w)
  <2>1. TaskInv' /\ PoolInv'
    BY <1>8, FinishKeeps DEF TaskReturns, StageInv, runVars
  <2>2. WriteInv'
    BY <1>8, SameProgress, FinishWrites DEF TaskReturns
  <2> QED BY <2>1, <2>2 DEF StageInv
<1>9. CASE ItemFault(w)
  <2>1. /\ step' = [step EXCEPT ![w] = "fail"] /\ part' = [part EXCEPT ![w] = 1]
        /\ rest' = [rest EXCEPT ![w] = rest[w]] /\ rest[w] # {}
        /\ step[w] # "none"
    BY <1>9, <1>a DEF ItemFault, StageInv, TaskInv, LocalType
  <2>2. Written(w)'
    BY <2>1, PlaceFresh DEF StageInv, TaskInv, LocalType
  <2>3. ProgressType' /\ done' = done
    BY <1>9 DEF ItemFault, progressVars, StageInv, WriteInv, ProgressType
  <2> QED BY <1>9, <2>1, <2>2, <2>3, LocalStep DEF ItemFault, Steps
<1>10. CASE ProgressFault(w)
  BY <1>10, EscapeStep DEF ProgressFault
<1> QED BY <1>1, <1>2, <1>3, <1>4, <1>5, <1>6, <1>7, <1>8, <1>9, <1>10 DEF WorkerStep

LEMMA StageInvHolds == Spec => []StageInv
<1>1. Init => StageInv
  <2> SUFFICES ASSUME Init PROVE StageInv
    OBVIOUS
  <2>1. PoolInv
    BY ProcNumbers, PoolAssumption DEF Init, PoolInit, NoPool, Nowhere, PoolInv, PoolPoints, Live
  <2>2. LocalType /\ InTask
    BY DEF Init, NoTask, NoRest, FirstPart, LocalType, InTask, Steps
  <2>3. Assigned
    BY OrphanIsNone DEF Init, PoolInit, NoPool, Nowhere, NoTask, Assigned
  <2>4. job \in [Procs -> {None} \cup Nat] /\ queue \subseteq due /\ due \subseteq TasksOf(ready)
    BY DEF Init, PoolInit, Nowhere
  <2>5. WriteInv
    BY StageAssumption DEF Init, EmptyProgress, NoTask, FirstPart, WriteInv, ProgressType, StoredBeforeDone, Written
  <2> QED BY <2>1, <2>2, <2>3, <2>4, <2>5 DEF Init, StageInv, TaskInv
<1>2. StageInv /\ [Next]_vars => StageInv'
  <2> SUFFICES ASSUME StageInv, [Next]_vars PROVE StageInv'
    OBVIOUS
  <2>1. CASE Launch
    BY <2>1, LaunchKeeps
  <2>2. CASE InitRaises \/ Join
    BY <2>2, OrphanIsNone, EndStep DEF InitRaises, Join, KeepOrphan
  <2>3. CASE Crash
    <3>1. CASE KeepOrphan
      BY <2>3, <3>1, OrphanIsNone, EndStep DEF Crash, KeepOrphan
    <3>2. ASSUME NEW p \in Procs, ForgetTasks(step[p], rest[p], part[p]) PROVE StageInv'
      BY <2>3, <3>2, OrphanIsNone, EndStep DEF Crash
    <3> QED BY <2>3, <3>1, <3>2 DEF Crash
  <2>4. ASSUME NEW p \in Procs, Begin(p) \/ PoolStep(p) \/ WorkerDies(p) PROVE StageInv'
    BY <2>4, BeginKeeps, PoolStepKeeps, WorkerDiesKeeps
  <2>5. ASSUME NEW w \in Workers, WorkerStep(w) \/ ItemFault(w) \/ ProgressFault(w) PROVE StageInv'
    BY <2>5, WorkerStepKeeps
  <2>6. CASE UNCHANGED vars
    <3>1. PoolInv'
      BY <2>6 DEF vars, poolVars, runVars, StageInv, PoolInv, Live
    <3>2. TaskInv'
      <4>1. /\ \A t : ItemsOf(t, ready)' = ItemsOf(t, ready)
            /\ TasksOf(ready)' = TasksOf(ready)
        BY <2>6 DEF vars, runVars, ItemsOf, TasksOf, This, Chunk
      <4>2. Assigned'
        BY <2>6, <4>1 DEF vars, poolVars, runVars, localVars, StageInv, TaskInv, Assigned
      <4> QED
        BY <2>6, <4>1, <4>2 DEF vars, poolVars, runVars, localVars, StageInv, TaskInv, LocalType, InTask
    <3>3. WriteInv'
      BY <2>6, QuietWrites DEF vars, StageInv
    <3> QED BY <3>1, <3>2, <3>3 DEF StageInv
  <2> QED BY <2>1, <2>2, <2>3, <2>4, <2>5, <2>6 DEF Next, Stopped
<1> QED BY <1>1, <1>2, PTL DEF Spec

\* An item is recorded done only when everything later stages load of it is on
\* disk (s3:355-356, s5:337-352, s6:301-311), orphans of killed runs included.
THEOREM StoredBeforeDoneHolds == Spec => []StoredBeforeDone
<1>1. StageInv => StoredBeforeDone
  BY DEF StageInv, WriteInv
<1> QED BY <1>1, StageInvHolds, PTL

\* Two living processes of a pool never hold the same device, and one at a time
\* runs make_data, whatever dies and is replaced (gpu_pool.py:63, 98-99).
THEOREM DevicesExclusiveHolds == Spec => []DevicesExclusive
<1>1. StageInv => DevicesExclusive
  <2> SUFFICES ASSUME StageInv PROVE DevicesExclusive
    OBVIOUS
  <2>1. \A p, q \in Live : p # q => device[p] # device[q]
    <3>1. CASE pooled
      BY <3>1 DEF StageInv, PoolInv
    <3>2. CASE ~pooled
      BY <3>2 DEF StageInv, PoolInv, Live
    <3> QED BY <3>1, <3>2
  <2>2. Cardinality({p \in Procs : at[p] = "making"}) <= 1
    <3>1. {p \in Procs : at[p] = "making"} \subseteq {initLock}
      BY DEF StageInv, PoolInv
    <3>2. IsFiniteSet({initLock}) /\ Cardinality({initLock}) = 1
      BY FS_Singleton
    <3> QED BY <3>1, <3>2, FS_Subset
  <2> QED BY <2>1, <2>2 DEF DevicesExclusive
<1> QED BY <1>1, StageInvHolds, PTL

\* No two processes of a pool are at the same item: their tasks are different,
\* and tasks share no item (s3:373-381, s5:431-435).
THEOREM OneProcessPerItemHolds == Spec => []OneProcessPerItem
<1>1. StageInv => OneProcessPerItem
  <2> SUFFICES ASSUME StageInv, NEW p \in Procs, NEW q \in Procs, p # q
               PROVE  rest[p] \cap rest[q] = {}
    BY DEF OneProcessPerItem
  <2>1. CASE at[p] = "busy" /\ at[q] = "busy"
    <3>1. /\ rest[p] \subseteq ItemsOf(job[p], ready) /\ rest[q] \subseteq ItemsOf(job[q], ready)
          /\ job[p] # job[q]
      BY <2>1 DEF StageInv, TaskInv, Assigned
    <3>2. ItemsOf(job[p], ready) \cap ItemsOf(job[q], ready) = {}
      BY <3>1 DEF ItemsOf
    <3> QED BY <3>1, <3>2
  <2>2. CASE ~(at[p] = "busy" /\ at[q] = "busy")
    BY <2>2, OrphanIsNone DEF StageInv, TaskInv, Assigned, InTask
  <2> QED BY <2>1, <2>2
<1> QED BY <1>1, StageInvHolds, PTL

----------------------------------------------------------------------------
(***************************************************************************)
(* Accounting for the items of a run.  While no exception has come back,   *)
(* an item whose task has answered is done or listed as failed, and so is  *)
(* every item a process has behind it in the task it holds.  A failure is  *)
(* taken off the list only of an item that is done.                        *)
(***************************************************************************)

Accounted(i) == i \in done[Stage] \cup errors[Stage]

ClearIsDone == \A w \in Workers : step[w] = "clear" => Cur(w) \in done[Stage]

AnsweredAccounted ==
    \A t \in TasksOf(ready) \ due : \A i \in ItemsOf(t, ready) : Accounted(i)

BehindAccounted ==
    \A p \in Procs : at[p] = "busy" =>
        \A i \in ItemsOf(job[p], ready) : i \in rest[p] \/ Accounted(i)

AccountInv ==
    /\ phase \in {"down", "batch"}
    /\ ClearIsDone
    /\ phase = "batch" /\ ~raising => AnsweredAccounted /\ BehindAccounted

\* A step inside the task of one worker, after which the items it leaves behind
\* are accounted for.
LEMMA InsideAccounts ==
    ASSUME StageInv, AccountInv, NEW w \in Workers, UNCHANGED <<poolVars, runVars, kind>>,
           \A v \in Workers : v # w => step'[v] = step[v] /\ rest'[v] = rest[v],
           done[Stage] \subseteq done'[Stage],
           \A i : Accounted(i) => Accounted(i)',
           \A i \in rest[w] : i \in rest'[w] \/ Accounted(i)',
           step'[w] = "clear" => Cur(w)' \in done'[Stage]
    PROVE  AccountInv'
<1>1. ClearIsDone'
  BY DEF AccountInv, ClearIsDone, Cur
<1>2. \A t : ItemsOf(t, ready)' = ItemsOf(t, ready) /\ TasksOf(ready)' = TasksOf(ready)
  BY DEF runVars, ItemsOf, TasksOf, This, Chunk
<1>3. AnsweredAccounted => AnsweredAccounted'
  BY <1>2 DEF poolVars, AnsweredAccounted
<1>4. ASSUME BehindAccounted, NEW p \in Procs, at[p] = "busy", NEW i \in ItemsOf(job[p], ready)
      PROVE  i \in rest'[p] \/ Accounted(i)'
  <2>1. i \in rest[p] \/ Accounted(i)
    BY <1>4 DEF BehindAccounted
  <2>2. p \in Workers
    BY OrphanIsNone
  <2> QED BY <2>1, <2>2
<1>5. BehindAccounted => BehindAccounted'
  BY <1>2, <1>4 DEF poolVars, BehindAccounted
<1> QED BY <1>1, <1>3, <1>5 DEF AccountInv, runVars

\* A worker that leaves its task: the place it leaves claims nothing.
LEMMA FinishClears ==
    ASSUME StageInv, AccountInv, NEW w \in Workers, Finish(w), done[Stage] \subseteq done'[Stage]
    PROVE  /\ ClearIsDone' /\ step'[w] = "none"
           /\ \A v \in Workers : v # w => step'[v] = step[v] /\ rest'[v] = rest[v]
<1>1. /\ step'[w] = "none"
      /\ \A v \in Workers : v # w => step'[v] = step[v] /\ rest'[v] = rest[v]
  BY DEF Finish, StageInv, TaskInv, LocalType
<1> QED BY <1>1 DEF AccountInv, ClearIsDone, Cur

\* The coordinator leaves its batch; one worker may become the orphan.
LEMMA EndAccounts ==
    ASSUME StageInv, AccountInv, End, NEW w \in Workers, ForgetTasks(step[w], rest[w], part[w]),
           done[Stage] \subseteq done'[Stage]
    PROVE  AccountInv'
<1>1. step'[Orphan] = step[w] /\ rest'[Orphan] = rest[w]
  BY OrphanIsNone DEF ForgetTasks, NoTask, NoRest
<1>2. \A v \in Workers : v # Orphan => step'[v] = "none"
  BY DEF ForgetTasks, NoTask
<1>3. ClearIsDone'
  BY <1>1, <1>2 DEF AccountInv, ClearIsDone, Cur
<1> QED BY <1>3 DEF End, AccountInv

LEMMA EscapeAccounts ==
    ASSUME StageInv, AccountInv, NEW w \in Workers, Escape(w), done[Stage] \subseteq done'[Stage],
           \A i : Accounted(i) => Accounted(i)'
    PROVE  AccountInv'
<1>1. CASE w = Orphan /\ Finish(w) /\ UNCHANGED <<poolVars, kind, runVars>>
  <2>1. \A t : ItemsOf(t, ready)' = ItemsOf(t, ready) /\ TasksOf(ready)' = TasksOf(ready)
    BY <1>1 DEF runVars, ItemsOf, TasksOf, This, Chunk
  <2>2. \A p \in Procs : rest'[p] = rest[p]
    BY <1>1, OrphanIsNone, FinishClears
  <2>3. (AnsweredAccounted => AnsweredAccounted') /\ (BehindAccounted => BehindAccounted')
    BY <1>1, <2>1, <2>2 DEF poolVars, AnsweredAccounted, BehindAccounted
  <2> QED BY <1>1, <2>3, FinishClears DEF AccountInv, runVars
<1>2. CASE Finish(w) /\ raising' /\ phase' = phase
  BY <1>2, FinishClears DEF AccountInv
<1>3. CASE End /\ KeepOrphan
  BY <1>3, OrphanIsNone, EndAccounts DEF KeepOrphan
<1> QED BY <1>1, <1>2, <1>3 DEF Escape

LEMMA LaunchAccounts == StageInv /\ AccountInv /\ Launch => AccountInv'
<1> SUFFICES ASSUME StageInv, AccountInv, Launch PROVE AccountInv'
  OBVIOUS
<1>1. /\ phase' = "batch" /\ ready' = Ready /\ due' = TasksOf(Ready)
      /\ UNCHANGED <<progressVars, kind, localVars>> /\ \A p \in Procs : at'[p] # "busy"
  BY DEF Launch, StartPool, NoPool
<1>2. TasksOf(ready)' = TasksOf(Ready)
  BY <1>1 DEF TasksOf, This, Chunk
<1>3. ClearIsDone'
  BY <1>1 DEF AccountInv, ClearIsDone, Cur, progressVars, localVars
<1> QED BY <1>1, <1>2, <1>3 DEF AccountInv, AnsweredAccounted, BehindAccounted

\* A task that is taken has all its items ahead.
LEMMA BeginAccounts ==
    ASSUME StageInv, AccountInv, NEW p \in Procs, Begin(p)
    PROVE  AccountInv'
<1>1. /\ Take(p) /\ UNCHANGED <<stageVars, runVars, part>>
      /\ step' = [step EXCEPT ![p] = IF This.opens THEN "open" ELSE "item"]
      /\ rest' = [rest EXCEPT ![p] = ItemsOf(job'[p], ready)]
  BY DEF Begin
<1>2. /\ due' = due /\ step'[p] # "clear" /\ rest'[p] = ItemsOf(job'[p], ready)
      /\ \A q \in Procs : q # p => at'[q] = at[q] /\ job'[q] = job[q]
      /\ \A v \in Workers : v # p => step'[v] = step[v] /\ rest'[v] = rest[v]
  BY <1>1, OrphanIsNone DEF Take, Move, StageInv, PoolInv, TaskInv, LocalType
<1>3. \A t : ItemsOf(t, ready)' = ItemsOf(t, ready) /\ TasksOf(ready)' = TasksOf(ready)
  BY <1>1 DEF stageVars, runVars, ItemsOf, TasksOf, This, Chunk
<1>4. ItemsOf(job[p], ready)' = ItemsOf(job'[p], ready)
  BY <1>1 DEF stageVars, runVars, ItemsOf, This, Chunk
<1>5. UNCHANGED <<done, errors, phase, raising, ready>>
  BY <1>1 DEF stageVars, progressVars, runVars
<1>6. ClearIsDone'
  BY <1>2, <1>5 DEF AccountInv, ClearIsDone, Cur
<1>7. AnsweredAccounted => AnsweredAccounted'
  BY <1>2, <1>3, <1>5 DEF AnsweredAccounted, Accounted
<1>8. ASSUME BehindAccounted, NEW q \in Procs, at'[q] = "busy", NEW i \in ItemsOf(job[q], ready)'
      PROVE  i \in rest'[q] \/ Accounted(i)'
  <2>1. CASE q = p
    BY <1>2, <1>4, <1>8, <2>1
  <2>2. CASE q # p
    <3>1. ItemsOf(job[q], ready)' = ItemsOf(job[q], ready)
      BY <1>1, <1>2, <2>2 DEF stageVars, runVars, ItemsOf, This, Chunk
    <3> QED BY <1>2, <1>5, <1>8, <2>2, <3>1, OrphanIsNone DEF BehindAccounted, Accounted
  <2> QED BY <2>1, <2>2
<1>9. BehindAccounted => BehindAccounted'
  BY <1>8 DEF BehindAccounted
<1> QED BY <1>5, <1>6, <1>7, <1>9 DEF AccountInv

\* Processes that start, die or are replaced answer nothing.
LEMMA PoolAccounts ==
    ASSUME StageInv, AccountInv, NEW p \in Procs, PoolStep(p) \/ WorkerDies(p)
    PROVE  AccountInv'
<1>1. /\ UNCHANGED <<done, errors, phase, raising, ready, due, kind>> /\ at'[p] # "busy"
      /\ \A q \in Procs : q # p => at'[q] = at[q] /\ job'[q] = job[q]
  BY DEF PoolStep, WorkerDies, stageVars, runVars, progressVars, InitStep, GrabIndex, AcquireInitLock,
         InitLockTimesOut, MakeData, Respawn, Die, Move, StageInv, PoolInv, TaskInv
<1>2. /\ ClearIsDone'
      /\ \A v \in Workers : v # p => rest'[v] = rest[v]
  <2>1. CASE PoolStep(p)
    BY <1>1, <2>1 DEF PoolStep, localVars, AccountInv, ClearIsDone, Cur
  <2>2. CASE WorkerDies(p)
    BY <1>1, <2>2, OrphanIsNone, FinishClears DEF WorkerDies
  <2> QED BY <2>1, <2>2
<1>3. AnsweredAccounted => AnsweredAccounted'
  <2>1. \A t : ItemsOf(t, ready)' = ItemsOf(t, ready) /\ TasksOf(ready)' = TasksOf(ready)
    BY <1>1 DEF ItemsOf, TasksOf, This, Chunk
  <2> QED BY <1>1, <2>1 DEF AnsweredAccounted, Accounted
<1>4. ASSUME BehindAccounted, NEW q \in Procs, at'[q] = "busy", NEW i \in ItemsOf(job[q], ready)'
      PROVE  i \in rest'[q] \/ Accounted(i)'
  <2>1. q # p
    BY <1>1, <1>4
  <2>2. ItemsOf(job[q], ready)' = ItemsOf(job[q], ready)
    BY <1>1, <2>1 DEF ItemsOf, This, Chunk
  <2> QED BY <1>1, <1>2, <1>4, <2>1, <2>2, OrphanIsNone DEF BehindAccounted, Accounted
<1>5. BehindAccounted => BehindAccounted'
  BY <1>4 DEF BehindAccounted
<1> QED BY <1>1, <1>2, <1>3, <1>5 DEF AccountInv

\* A task is answered once all its items are behind.
LEMMA ReturnAccounts ==
    ASSUME StageInv, AccountInv, NEW w \in Workers, TaskReturns(w)
    PROVE  AccountInv'
<1>1. /\ step[w] = "item" /\ rest[w] = {} /\ Finish(w)
      /\ UNCHANGED <<done, errors, phase, raising, ready, kind>>
      /\ IF w = Orphan THEN UNCHANGED poolVars ELSE Deliver(w)
  BY DEF TaskReturns, stageVars, progressVars, runVars
<1>2. /\ ClearIsDone'
      /\ \A v \in Workers : v # w => rest'[v] = rest[v]
  BY <1>1, FinishClears
<1>3. \A t : ItemsOf(t, ready)' = ItemsOf(t, ready) /\ TasksOf(ready)' = TasksOf(ready)
  BY <1>1 DEF ItemsOf, TasksOf, This, Chunk
<1>4. CASE w = Orphan
  <2>1. \A q \in Procs : rest'[q] = rest[q]
    BY <1>2, <1>4, OrphanIsNone
  <2>2. (AnsweredAccounted => AnsweredAccounted') /\ (BehindAccounted => BehindAccounted')
    BY <1>1, <1>3, <1>4, <2>1 DEF poolVars, AnsweredAccounted, BehindAccounted, Accounted
  <2> QED BY <1>1, <1>2, <2>2 DEF AccountInv
<1>5. CASE w # Orphan
  <2>1. /\ w \in Procs /\ at[w] = "busy" /\ due' = due \ {job[w]} /\ at'[w] = "idle"
        /\ \A q \in Procs : q # w => at'[q] = at[q] /\ job'[q] = job[q] /\ rest'[q] = rest[q]
    BY <1>1, <1>2, <1>5, OrphanIsNone DEF Workers, Deliver, Move, StageInv, PoolInv, TaskInv, Assigned
  <2>2. ASSUME AnsweredAccounted, BehindAccounted, NEW t \in TasksOf(ready) \ due', NEW i \in ItemsOf(t, ready)
        PROVE  Accounted(i)'
    <3>1. Accounted(i)
      <4>1. CASE t = job[w]
        BY <1>1, <2>1, <2>2, <4>1 DEF BehindAccounted
      <4>2. CASE t # job[w]
        BY <2>1, <2>2, <4>2 DEF AnsweredAccounted
      <4> QED BY <4>1, <4>2
    <3> QED BY <1>1, <3>1 DEF Accounted
  <2>3. AnsweredAccounted /\ BehindAccounted => AnsweredAccounted'
    BY <1>3, <2>2 DEF AnsweredAccounted
  <2>4. ASSUME BehindAccounted, NEW q \in Procs, at'[q] = "busy", NEW i \in ItemsOf(job[q], ready)'
        PROVE  i \in rest'[q] \/ Accounted(i)'
    <3>1. q # w
      BY <2>1, <2>4
    <3>2. ItemsOf(job[q], ready)' = ItemsOf(job[q], ready)
      BY <1>1, <2>1, <3>1 DEF ItemsOf, This, Chunk
    <3> QED BY <1>1, <2>1, <2>4, <3>1, <3>2 DEF BehindAccounted, Accounted
  <2>5. BehindAccounted => BehindAccounted'
    BY <2>4 DEF BehindAccounted
  <2> QED BY <1>1, <1>2, <2>3, <2>5 DEF AccountInv
<1> QED BY <1>4, <1>5

LEMMA WorkerAccounts ==
    ASSUME StageInv, AccountInv, NEW w \in Workers, WorkerStep(w) \/ ItemFault(w) \/ ProgressFault(w)
    PROVE  AccountInv'
<1> USE DEF stageVars
<1>a. /\ step[w] \in Steps /\ (step[w] \notin {"none", "item"} => rest[w] # {})
      /\ done \in [Stages -> SUBSET Items] /\ errors \in [Stages -> SUBSET Items] /\ Stage \in Stages
  BY StageAssumption DEF StageInv, TaskInv, LocalType, InTask, WriteInv, ProgressType
<1>b. ASSUME NEW s, Go(w, s)
      PROVE  /\ step'[w] = s /\ rest' = rest
             /\ \A v \in Workers : v # w => step'[v] = step[v] /\ rest'[v] = rest[v]
  BY <1>b DEF Go, StageInv, TaskInv, LocalType
<1>c. ASSUME Advance(w)
      PROVE  /\ step'[w] = "item" /\ rest'[w] = rest[w] \ {Cur(w)}
             /\ \A v \in Workers : v # w => step'[v] = step[v] /\ rest'[v] = rest[v]
  BY <1>c DEF Advance, StageInv, TaskInv, LocalType
<1>d. ASSUME UNCHANGED progressVars
      PROVE  done[Stage] \subseteq done'[Stage] /\ \A i : Accounted(i) => Accounted(i)'
  BY <1>d DEF progressVars, Accounted
<1>1. CASE OpenPhoto(w)
  <2>1. CASE Go(w, "item") /\ UNCHANGED <<poolVars, runVars, kind>>
    BY <1>1, <1>b, <1>d, <2>1, InsideAccounts DEF OpenPhoto
  <2>2. CASE Escape(w)
    BY <1>1, <1>d, <2>2, EscapeAccounts DEF OpenPhoto
  <2> QED BY <1>1, <2>1, <2>2 DEF OpenPhoto
<1>2. CASE NextItem(w)
  <2>1. CASE Cur(w) \in done[Stage] /\ Advance(w)
    <3>1. Accounted(Cur(w))
      BY <2>1 DEF Accounted
    <3>2. UNCHANGED <<progressVars, poolVars, runVars, kind>>
      BY <1>2 DEF NextItem
    <3> QED BY <1>c, <1>d, <2>1, <3>1, <3>2, InsideAccounts
  <2>2. CASE Go(w, "work")
    BY <1>2, <1>b, <1>d, <2>2, InsideAccounts DEF NextItem
  <2> QED BY <1>2, <2>1, <2>2 DEF NextItem
<1>3. CASE Work(w)
  BY <1>3, <1>b, <1>d, InsideAccounts DEF Work
<1>4. CASE StorePart(w)
  <2>1. /\ step'[w] # "clear" /\ rest' = rest /\ UNCHANGED <<progressVars, poolVars, runVars, kind>>
        /\ \A v \in Workers : v # w => step'[v] = step[v]
    BY <1>4 DEF StorePart, StageInv, TaskInv, LocalType
  <2> QED BY <1>d, <2>1, InsideAccounts
<1>5. CASE MarkDoneAdd(w)
  <2>1. /\ step'[w] = "clear" /\ rest' = rest /\ UNCHANGED <<poolVars, runVars, kind>>
        /\ \A v \in Workers : v # w => step'[v] = step[v]
    BY <1>5, <1>b DEF MarkDoneAdd
  <2>2. done'[Stage] = done[Stage] \cup {Cur(w)} /\ errors' = errors
    BY <1>5, <1>a DEF MarkDoneAdd, DoneAdd
  <2>3. Cur(w)' = Cur(w)
    BY <2>1 DEF Cur
  <2>4. \A i : Accounted(i) => Accounted(i)'
    BY <2>2 DEF Accounted
  <2> QED BY <2>1, <2>2, <2>3, <2>4, InsideAccounts
<1>6. CASE MarkDoneClear(w)
  <2>1. Cur(w) \in done[Stage] /\ Advance(w) /\ UNCHANGED <<poolVars, runVars, kind>>
    BY <1>6 DEF MarkDoneClear, AccountInv, ClearIsDone
  <2>2. done' = done /\ errors'[Stage] = errors[Stage] \ {Cur(w)}
    BY <1>6, <1>a DEF MarkDoneClear, ErrorsDelete
  <2>3. \A i : Accounted(i) => Accounted(i)'
    BY <2>1, <2>2 DEF Accounted
  <2>4. \A i \in rest[w] : i \in rest'[w] \/ Accounted(i)'
    BY <1>c, <2>1, <2>2 DEF Accounted
  <2> QED BY <1>c, <2>1, <2>2, <2>3, <2>4, InsideAccounts
<1>7. CASE MarkFailed(w)
  <2>1. done' = done /\ errors'[Stage] = errors[Stage] \cup {Cur(w)}
    BY <1>7, <1>a DEF MarkFailed, ErrorsSet
  <2>2. \A i : Accounted(i) => Accounted(i)'
    BY <2>1 DEF Accounted
  <2>3. CASE Advance(w) /\ UNCHANGED <<poolVars, kind, runVars>>
    <3>1. \A i \in rest[w] : i \in rest'[w] \/ Accounted(i)'
      BY <1>c, <2>1, <2>3 DEF Accounted
    <3> QED BY <1>c, <2>1, <2>2, <2>3, <3>1, InsideAccounts
  <2>4. CASE Escape(w)
    BY <2>1, <2>2, <2>4, EscapeAccounts
  <2> QED BY <1>7, <2>3, <2>4 DEF MarkFailed
<1>8. CASE TaskReturns(w)
  BY <1>8, ReturnAccounts
<1>9. CASE ItemFault(w)
  <2>1. /\ step'[w] = "fail" /\ rest' = rest /\ UNCHANGED <<progressVars, poolVars, runVars, kind>>
        /\ \A v \in Workers : v # w => step'[v] = step[v]
    BY <1>9 DEF ItemFault, StageInv, TaskInv, LocalType
  <2> QED BY <1>d, <2>1, InsideAccounts
<1>10. CASE ProgressFault(w)
  BY <1>10, <1>d, EscapeAccounts DEF ProgressFault
<1> QED BY <1>1, <1>2, <1>3, <1>4, <1>5, <1>6, <1>7, <1>8, <1>9, <1>10 DEF WorkerStep

LEMMA AccountInvHolds == Spec => []AccountInv
<1>1. Init => AccountInv
  <2> SUFFICES ASSUME Init PROVE AccountInv
    OBVIOUS
  <2> QED BY DEF Init, NoTask, AccountInv, ClearIsDone
<1>2. StageInv /\ AccountInv /\ [Next]_vars => AccountInv'
  <2> SUFFICES ASSUME StageInv, AccountInv, [Next]_vars PROVE AccountInv'
    OBVIOUS
  <2>1. CASE Launch
    BY <2>1, LaunchAccounts
  <2>2. CASE InitRaises \/ Join
    BY <2>2, OrphanIsNone, EndAccounts DEF InitRaises, Join, KeepOrphan, progressVars
  <2>3. CASE Crash
    <3>1. CASE KeepOrphan
      BY <2>3, <3>1, OrphanIsNone, EndAccounts DEF Crash, KeepOrphan, progressVars
    <3>2. ASSUME NEW p \in Procs, ForgetTasks(step[p], rest[p], part[p]) PROVE AccountInv'
      BY <2>3, <3>2, OrphanIsNone, EndAccounts DEF Crash, progressVars
    <3> QED BY <2>3, <3>1, <3>2 DEF Crash
  <2>4. ASSUME NEW p \in Procs, Begin(p) \/ PoolStep(p) \/ WorkerDies(p) PROVE AccountInv'
    BY <2>4, BeginAccounts, PoolAccounts
  <2>5. ASSUME NEW w \in Workers, WorkerStep(w) \/ ItemFault(w) \/ ProgressFault(w) PROVE AccountInv'
    BY <2>5, WorkerAccounts
  <2>6. CASE UNCHANGED vars
    <3>1. \A i : Accounted(i) => Accounted(i)'
      BY <2>6 DEF vars, progressVars, Accounted
    <3> QED BY <2>6, <3>1, OrphanIsNone, InsideAccounts DEF vars, progressVars, localVars, AccountInv, ClearIsDone, Cur
  <2> QED BY <2>1, <2>2, <2>3, <2>4, <2>5, <2>6 DEF Next, Stopped
<1> QED BY <1>1, <1>2, StageInvHolds, PTL DEF Spec

\* A run that returns has accounted for each of its items, done or failed
\* (node.py:41), whatever tasks, processes, orphans and retries did.
THEOREM ReturnAccountsForAllHolds == Spec => ReturnAccountsForAll
<1>1. StageInv /\ AccountInv /\ phase # "down" /\ due = {} /\ ~raising => ready \subseteq done[Stage] \cup errors[Stage]
  <2> SUFFICES ASSUME StageInv, AccountInv, phase # "down", due = {}, ~raising, NEW i \in ready
               PROVE  Accounted(i)
    BY DEF Accounted
  <2> DEFINE t == IF This.byPhoto THEN PhotoOf[i] ELSE Chunk(i, ready)
  <2>1. t \in TasksOf(ready) /\ i \in ItemsOf(t, ready)
    BY DEF TasksOf, ItemsOf
  <2> HIDE DEF t
  <2> QED BY <2>1 DEF AccountInv, AnsweredAccounted
<1> QED BY <1>1, StageInvHolds, AccountInvHolds, PTL DEF ReturnAccountsForAll

----------------------------------------------------------------------------
(* The rest of the type: what is counted, and where results may be.         *)

CountInv ==
    /\ deaths \in 0 .. MaxDeaths /\ runs \in 0 .. MaxRuns /\ troubles \in 0 .. MaxTroubles
    /\ {pooled, failFast, raising} \subseteq BOOLEAN
    /\ stored \subseteq Items \X Parts

\* A worker's step spends no more than there is, and writes under its item.
LEMMA WorkerCounts ==
    ASSUME StageInv, CountInv, NEW w \in Workers, WorkerStep(w) \/ ItemFault(w) \/ ProgressFault(w)
    PROVE  CountInv'
<1> USE DEF stageVars, runVars, poolVars
<1>1. Parts' = Parts /\ UNCHANGED <<kind, deaths, runs>>
  BY DEF WorkerStep, OpenPhoto, NextItem, Work, StorePart, MarkDoneAdd, MarkDoneClear, MarkFailed, TaskReturns,
         ItemFault, ProgressFault, Escape, Deliver, End, StartPool, Trouble, NoTrouble, Parts, This
<1>2. troubles' \in 0 .. MaxTroubles
  <2>1. Trouble \/ troubles' = troubles
    BY DEF WorkerStep, OpenPhoto, NextItem, Work, StorePart, MarkDoneAdd, MarkDoneClear, MarkFailed, TaskReturns,
           ItemFault, ProgressFault, NoTrouble
  <2>2. Trouble => troubles' \in 0 .. MaxTroubles
    BY StageAssumption DEF Trouble, CountInv
  <2> QED BY <2>1, <2>2 DEF CountInv
<1>3. {pooled, failFast, raising}' \subseteq BOOLEAN
  <2>1. /\ pooled' = pooled \/ pooled' = FALSE
        /\ failFast' = failFast \/ failFast' = FALSE
        /\ raising' = raising \/ raising' \in BOOLEAN
    BY DEF WorkerStep, OpenPhoto, NextItem, Work, StorePart, MarkDoneAdd, MarkDoneClear, MarkFailed, TaskReturns,
           ItemFault, ProgressFault, Escape, End
  <2> QED BY <2>1 DEF CountInv
<1>4. stored' \subseteq Items \X Parts
  <2>1. CASE StorePart(w)
    <3>1. Cur(w) \in Items /\ part[w] \in Parts
      BY <2>1, CurIsItem DEF StorePart, StageInv, TaskInv, InTask, WriteInv, Written
    <3> QED BY <2>1, <3>1 DEF StorePart, CountInv
  <2>2. CASE ~StorePart(w)
    BY <2>2 DEF CountInv, WorkerStep, OpenPhoto, NextItem, Work, MarkDoneAdd, MarkDoneClear, MarkFailed, TaskReturns,
                ItemFault, ProgressFault
  <2> QED BY <2>1, <2>2
<1> QED BY <1>1, <1>2, <1>3, <1>4 DEF CountInv

LEMMA CountInvHolds == Spec => []CountInv
<1>1. Init => CountInv
  <2> SUFFICES ASSUME Init PROVE CountInv
    OBVIOUS
  <2>1. deaths \in 0 .. MaxDeaths
    <3>1. MaxDeaths \in Nat /\ deaths = 0
      BY PoolAssumption DEF Init, PoolInit
    <3> QED BY <3>1
  <2>2. runs \in 0 .. MaxRuns /\ troubles \in 0 .. MaxTroubles
    <3>1. MaxRuns \in Nat /\ MaxTroubles \in Nat /\ runs = 0 /\ troubles = 0
      BY StageAssumption DEF Init
    <3> QED BY <3>1
  <2> QED BY <2>1, <2>2 DEF Init, CountInv
<1>2. StageInv /\ CountInv /\ [Next]_vars => CountInv'
  <2> SUFFICES ASSUME StageInv, CountInv, [Next]_vars PROVE CountInv'
    OBVIOUS
  <2> USE DEF CountInv, Parts, This, runVars, stageVars
  <2>a. Trouble => troubles' \in 0 .. MaxTroubles /\ runs' = runs
    BY StageAssumption DEF Trouble
  <2>1. CASE Launch
    <3>1. runs' \in 0 .. MaxRuns
      BY <2>1, StageAssumption DEF Launch
    <3> QED BY <2>1, <3>1 DEF Launch, StartPool
  <2>2. CASE InitRaises \/ Join \/ Crash
    BY <2>2, <2>a DEF InitRaises, Join, Crash, End, StartPool, NoTrouble
  <2>3. ASSUME NEW p \in Procs, Begin(p) PROVE CountInv'
    BY <2>3 DEF Begin, Take
  <2>4. ASSUME NEW p \in Procs, PoolStep(p) \/ WorkerDies(p) PROVE CountInv'
    <3>1. deaths' \in 0 .. MaxDeaths
      BY <2>4, PoolAssumption DEF PoolStep, WorkerDies, InitStep, GrabIndex, AcquireInitLock, InitLockTimesOut,
                                  MakeData, Respawn, Die
    <3> QED BY <2>4, <3>1 DEF PoolStep, WorkerDies
  <2>5. ASSUME NEW w \in Workers, WorkerStep(w) \/ ItemFault(w) \/ ProgressFault(w) PROVE CountInv'
    BY <2>5, WorkerCounts
  <2>6. CASE UNCHANGED vars
    BY <2>6 DEF vars, poolVars
  <2> QED BY <2>1, <2>2, <2>3, <2>4, <2>5, <2>6 DEF Next, Stopped
<1> QED BY <1>1, <1>2, StageInvHolds, PTL DEF Spec

\* The state of the pool, of its workers and of the coordinator keeps its type
\* for any number of devices, items, deaths and reruns.
THEOREM TypeCorrect == Spec => []TypeOK
<1>1. StageInv /\ AccountInv /\ CountInv => TypeOK
  <2> SUFFICES ASSUME StageInv, AccountInv, CountInv PROVE TypeOK
    OBVIOUS
  <2>1. due \subseteq Nat
    BY TasksAreNumbers DEF StageInv, TaskInv
  <2>2. PoolType
    BY <2>1 DEF PoolType, StageInv, PoolInv, PoolPoints, TaskInv, Assigned, CountInv
  <2>3. part \in [Workers -> Parts]
    <3>1. 1 \in Parts
      BY StageKind DEF Parts, StageInv, TaskInv
    <3>2. \A w \in Workers : part[w] \in Parts
      BY <3>1 DEF StageInv, WriteInv, Written
    <3> QED BY <3>2 DEF StageInv, TaskInv, LocalType
  <2>4. step \in [Workers -> {"none", "open", "item", "work", "store", "mark", "clear", "fail"}]
    BY DEF StageInv, TaskInv, LocalType, Steps
  <2> QED
    BY <2>2, <2>3, <2>4 DEF TypeOK, StageInv, TaskInv, LocalType, InTask, WriteInv, AccountInv, CountInv
<1> QED BY <1>1, StageInvHolds, AccountInvHolds, CountInvHolds, PTL

----------------------------------------------------------------------------
(***************************************************************************)
(* Nothing hangs as long as no process was lost.  Then no process is over, *)
(* the lock is with nobody or with a process that is making its data, the  *)
(* indices left are as many as the processes that still want one, and a    *)
(* task that is owed waits in the queue or is being worked on.             *)
(***************************************************************************)

Spawned == {p \in Procs : at[p] = "spawned"}

AliveInv ==
    deaths = 0 =>
        /\ initLock # Lost
        /\ \A p \in Procs : at[p] # "gone"
        /\ phase = "batch" => at[1] # "off"
        /\ pooled => Cardinality(Spawned) = NDevices - counter
        /\ \A t \in due : t \in queue \/ \E p \in Procs : at[p] = "busy" /\ job[p] = t

\* The coordinator can leave its batch, or some process can go on: with a device
\* of its own, with the lock, with a task of the queue or in its task.
SomebodyGoesOn ==
    phase = "batch" /\ deaths = 0 =>
        \/ Joined
        \/ \E p \in Procs :
            \/ at[p] = "spawned" /\ counter < NDevices
            \/ at[p] = "locking" /\ initLock = Free
            \/ at[p] = "making"
            \/ at[p] = "idle" /\ queue # {}
            \/ at[p] = "busy" /\ step[p] # "none"

LEMMA SpawnedFinite == IsFiniteSet(Spawned) /\ Cardinality(Spawned) \in Nat
<1>1. IsFiniteSet(Procs)
  <2>1. PICK n \in Nat : n = NDevices
    BY PoolAssumption
  <2> QED BY <2>1, FS_Interval DEF Procs
<1> QED BY <1>1, FS_Subset, FS_CardinalityType DEF Spawned

\* A process leaves the start for good, with an index or without.
LEMMA OneStarts ==
    ASSUME NEW p \in Procs, at[p] = "spawned", at' = [at EXCEPT ![p] = "locking"], at \in [Procs -> PoolPoints]
    PROVE  Cardinality(Spawned') = Cardinality(Spawned) - 1 /\ Cardinality(Spawned) > 0
<1>1. p \in Spawned /\ Spawned' = Spawned \ {p}
  BY DEF Spawned
<1>2. Spawned # {}
  BY <1>1
<1>3. Cardinality(Spawned \ {p}) = Cardinality(Spawned) - 1
  BY <1>1, SpawnedFinite, FS_RemoveElement
<1>4. Cardinality(Spawned) # 0
  BY <1>2, SpawnedFinite, FS_EmptySet
<1> QED BY <1>1, <1>3, <1>4, SpawnedFinite

LEMMA EndAlive == End => AliveInv'
BY DEF End, StartPool, NoPool, AliveInv, Free, Lost

\* What a worker does to the pool: nothing, or it answers its task, or it is the
\* coordinator and ends the run.
LEMMA WorkerPool ==
    ASSUME NEW w \in Workers, WorkerStep(w) \/ ItemFault(w) \/ ProgressFault(w)
    PROVE  \/ UNCHANGED <<poolVars, phase, pooled>>
           \/ End
           \/ w # Orphan /\ step[w] # "none" /\ Deliver(w) /\ UNCHANGED <<phase, pooled>>
BY DEF WorkerStep, OpenPhoto, NextItem, Work, StorePart, MarkDoneAdd, MarkDoneClear, MarkFailed, TaskReturns,
       ItemFault, ProgressFault, Escape, runVars

LEMMA InitStepAlive ==
    ASSUME PoolInv, CountInv, AliveInv, NEW p \in Procs, InitStep(p), UNCHANGED <<phase, pooled>>
    PROVE  AliveInv'
<1> SUFFICES ASSUME deaths' = 0 PROVE AliveInv'
  BY DEF AliveInv
<1> USE DEF Move
<1>1. deaths = 0 /\ UNCHANGED <<job, queue, due>> /\ pooled
  BY DEF InitStep, GrabIndex, AcquireInitLock, InitLockTimesOut, MakeData, Respawn, CountInv, PoolInv
<1>2. /\ initLock # Lost /\ \A q \in Procs : at[q] # "gone"
      /\ phase = "batch" => at[1] # "off"
      /\ Cardinality(Spawned) = NDevices - counter
      /\ \A t \in due : t \in queue \/ \E q \in Procs : at[q] = "busy" /\ job[q] = t
  BY <1>1 DEF AliveInv
<1>3. at \in [Procs -> PoolPoints] /\ counter \in Nat /\ NDevices \in Nat
  BY PoolAssumption DEF PoolInv
<1>4. CASE GrabIndex(p)
  <2>1. at[p] = "spawned" /\ initLock' = initLock
    BY <1>4 DEF GrabIndex
  <2>2. p \in Spawned
    BY <2>1 DEF Spawned
  <2>3. Cardinality(Spawned) # 0
    BY <2>2, SpawnedFinite, FS_EmptySet
  <2>4. counter < NDevices
    BY <1>2, <1>3, <2>3, SpawnedFinite
  <2>5. counter' = counter + 1 /\ at' = [at EXCEPT ![p] = "locking"]
    BY <1>4, <2>4 DEF GrabIndex
  <2>6. Cardinality(Spawned') = NDevices - counter'
    <3>1. Cardinality(Spawned') = Cardinality(Spawned) - 1
      BY <1>3, <2>1, <2>5, OneStarts
    <3>2. PICK c \in Nat : c = Cardinality(Spawned)
      BY SpawnedFinite
    <3> QED BY <1>2, <1>3, <2>5, <3>1, <3>2
  <2>7. \A q \in Procs : at'[q] = IF q = p THEN "locking" ELSE at[q]
    BY <1>3, <2>5
  <2> QED BY <1>1, <1>2, <2>1, <2>6, <2>7, ProcNumbers DEF AliveInv
<1>5. CASE AcquireInitLock(p) \/ MakeData(p)
  <2>1. /\ at[p] \in {"locking", "making"} /\ at'[p] \in {"making", "idle"}
        /\ \A q \in Procs : q # p => at'[q] = at[q]
        /\ initLock' # Lost /\ counter' = counter
    BY <1>1, <1>3, <1>5, ProcNumbers DEF AcquireInitLock, MakeData, CountInv
  <2>2. Spawned' = Spawned
    BY <2>1 DEF Spawned
  <2> QED BY <1>1, <1>2, <2>1, <2>2, ProcNumbers DEF AliveInv
<1>6. ~InitLockTimesOut(p) /\ ~Respawn(p)
  BY <1>2 DEF InitLockTimesOut, Respawn
<1> QED BY <1>4, <1>5, <1>6 DEF InitStep

\* A process takes a task, or answers it.
LEMMA TaskAlive ==
    ASSUME PoolInv, TaskInv, AliveInv, NEW p \in Procs,
           Take(p) \/ (at[p] = "busy" /\ Deliver(p)), UNCHANGED <<phase, pooled>>
    PROVE  AliveInv'
<1> SUFFICES ASSUME deaths' = 0 PROVE AliveInv'
  BY DEF AliveInv
<1> USE DEF Move
<1>1. deaths = 0 /\ UNCHANGED <<counter, initLock>>
  BY DEF Take, Deliver
<1>2. /\ initLock # Lost /\ \A q \in Procs : at[q] # "gone"
      /\ phase = "batch" => at[1] # "off"
      /\ pooled => Cardinality(Spawned) = NDevices - counter
      /\ \A t \in due : t \in queue \/ \E q \in Procs : at[q] = "busy" /\ job[q] = t
  BY <1>1 DEF AliveInv
<1>3. /\ at[p] \in {"idle", "busy"} /\ at'[p] \in {"idle", "busy"}
      /\ \A q \in Procs : q # p => at'[q] = at[q] /\ job'[q] = job[q]
  BY DEF Take, Deliver, PoolInv, TaskInv
<1>4. Spawned' = Spawned
  BY <1>3 DEF Spawned
<1>5. ASSUME NEW t \in due' PROVE t \in queue' \/ \E q \in Procs : at'[q] = "busy" /\ job'[q] = t
  <2>1. t \in due
    BY DEF Take, Deliver
  <2>2. CASE Take(p)
    <3>1. /\ at[p] = "idle" /\ at'[p] = "busy" /\ job'[p] = Least(queue)
          /\ queue' = queue \ {Least(queue)}
      BY <2>2 DEF Take, PoolInv, TaskInv
    <3>2. CASE t = Least(queue)
      BY <3>1, <3>2
    <3>3. CASE t # Least(queue) /\ t \in queue
      BY <3>1, <3>3
    <3>4. CASE t \notin queue
      <4>1. PICK q \in Procs : at[q] = "busy" /\ job[q] = t
        BY <1>2, <2>1, <3>4
      <4> QED BY <1>3, <3>1, <4>1
    <3> QED BY <3>2, <3>3, <3>4
  <2>3. CASE at[p] = "busy" /\ Deliver(p)
    <3>1. t # job[p] /\ queue' = queue
      BY <2>3 DEF Deliver
    <3>2. CASE t \in queue
      BY <3>1, <3>2
    <3>3. CASE t \notin queue
      <4>1. PICK q \in Procs : at[q] = "busy" /\ job[q] = t
        BY <1>2, <2>1, <3>3
      <4> QED BY <1>3, <3>1, <4>1
    <3> QED BY <3>2, <3>3
  <2> QED BY <2>2, <2>3
<1> QED BY <1>1, <1>2, <1>3, <1>4, <1>5, ProcNumbers DEF AliveInv

\* Every process of a new pool still wants an index, and there is one for each.
LEMMA LaunchAlive == Launch => AliveInv'
<1> SUFFICES ASSUME Launch PROVE AliveInv'
  OBVIOUS
<1>1. /\ counter' = 0 /\ initLock' = Free /\ due' = queue' /\ phase' = "batch"
      /\ at' = IF pooled' THEN [p \in Procs |-> "spawned"] ELSE [NoPool EXCEPT ![1] = "idle"]
  BY DEF Launch, StartPool
<1>2. pooled' => Cardinality(Spawned') = NDevices
  <2> SUFFICES ASSUME pooled' PROVE Cardinality(Spawned') = NDevices
    OBVIOUS
  <2>1. Spawned' = Procs
    BY <1>1 DEF Spawned
  <2>2. PICK n \in Nat \ {0} : n = NDevices
    BY PoolAssumption
  <2>3. Cardinality(1 .. n) = IF 1 > n THEN 0 ELSE n - 1 + 1
    BY FS_Interval
  <2>4. Cardinality(1 .. n) = n
    BY <2>3
  <2> QED BY <2>1, <2>2, <2>4 DEF Procs
<1>3. \A p \in Procs : at'[p] # "gone"
  BY <1>1 DEF NoPool
<1>4. at'[1] # "off"
  BY <1>1, ProcNumbers DEF NoPool
<1> QED BY <1>1, <1>2, <1>3, <1>4, PoolAssumption DEF AliveInv, Free, Lost

LEMMA AliveInvHolds == Spec => []AliveInv
<1>1. Init => AliveInv
  BY DEF Init, PoolInit, NoPool, AliveInv, Free, Lost
<1>2. StageInv /\ CountInv /\ AliveInv /\ [Next]_vars => AliveInv'
  <2> SUFFICES ASSUME StageInv, CountInv, AliveInv, [Next]_vars PROVE AliveInv'
    OBVIOUS
  <2>a. PoolInv /\ TaskInv
    BY DEF StageInv
  <2>b. UNCHANGED <<poolVars, phase, pooled>> => AliveInv'
    BY DEF AliveInv, poolVars, Spawned
  <2>1. CASE Launch
    BY <2>1, LaunchAlive
  <2>2. CASE InitRaises \/ Join \/ Crash
    BY <2>2, EndAlive DEF InitRaises, Join, Crash
  <2>3. ASSUME NEW p \in Procs, Begin(p) PROVE AliveInv'
    BY <2>3, <2>a, TaskAlive DEF Begin, runVars
  <2>4. ASSUME NEW p \in Procs, PoolStep(p) PROVE AliveInv'
    BY <2>4, <2>a, InitStepAlive DEF PoolStep, runVars
  <2>5. ASSUME NEW p \in Procs, WorkerDies(p) PROVE AliveInv'
    <3>1. deaths' = deaths + 1 /\ deaths \in Nat
      BY <2>5, PoolAssumption DEF WorkerDies, Die, CountInv
    <3>2. deaths' # 0
      BY <3>1
    <3> QED BY <3>2 DEF AliveInv
  <2>6. ASSUME NEW w \in Workers, WorkerStep(w) \/ ItemFault(w) \/ ProgressFault(w) PROVE AliveInv'
    <3>1. CASE w # Orphan /\ step[w] # "none" /\ Deliver(w) /\ UNCHANGED <<phase, pooled>>
      <4>1. w \in Procs /\ at[w] = "busy"
        BY <2>a, <3>1 DEF Workers, TaskInv, Assigned
      <4> QED BY <2>a, <3>1, <4>1, TaskAlive
    <3> QED BY <2>6, <2>b, <3>1, EndAlive, WorkerPool
  <2>7. CASE UNCHANGED vars
    BY <2>7, <2>b DEF vars, runVars
  <2> QED BY <2>1, <2>2, <2>3, <2>4, <2>5, <2>6, <2>7 DEF Next, Stopped
<1> QED BY <1>1, <1>2, StageInvHolds, CountInvHolds, PTL DEF Spec

\* No process waits for ever for an index, the init lock or a task as long as none
\* was killed and no make_data raised: what run_mp_per_gpu waits for can come, for
\* any number of devices, with orphans, faults and reruns (gpu_pool.py:63-114).
THEOREM SomebodyGoesOnHolds == Spec => []SomebodyGoesOn
<1>1. StageInv /\ AliveInv => SomebodyGoesOn
  <2> SUFFICES ASSUME PoolInv, TaskInv, AliveInv, phase = "batch", deaths = 0,
                      \A p \in Procs :
                        /\ ~(at[p] = "spawned" /\ counter < NDevices)
                        /\ ~(at[p] = "locking" /\ initLock = Free)
                        /\ at[p] # "making"
                        /\ ~(at[p] = "idle" /\ queue # {})
                        /\ ~(at[p] = "busy" /\ step[p] # "none")
               PROVE  Joined
    BY DEF StageInv, SomebodyGoesOn
  <2>1. \A p \in Procs : at[p] # "busy"
    BY DEF TaskInv, Assigned
  <2>2. \A p \in Procs : at[p] # "spawned"
    <3> SUFFICES ASSUME NEW p \in Procs, at[p] = "spawned" PROVE FALSE
      OBVIOUS
    <3>1. pooled /\ Cardinality(Spawned) = NDevices - counter /\ counter \in Nat /\ NDevices \in Nat
      BY PoolAssumption DEF PoolInv, AliveInv
    <3>2. p \in Spawned
      BY DEF Spawned
    <3>3. Cardinality(Spawned) # 0
      BY <3>2, SpawnedFinite, FS_EmptySet
    <3> QED BY <3>1, <3>3, SpawnedFinite
  <2>3. initLock = Free
    BY DEF PoolInv, AliveInv
  <2>4. \A p \in Procs : at[p] \in {"off", "idle"}
    BY <2>1, <2>2, <2>3 DEF PoolInv, PoolPoints, AliveInv
  <2>5. queue = {}
    BY <2>4, ProcNumbers DEF AliveInv
  <2>6. due = {}
    BY <2>1, <2>5 DEF AliveInv
  <2> QED BY <2>4, <2>6 DEF Joined
<1> QED BY <1>1, StageInvHolds, AliveInvHolds, PTL

----------------------------------------------------------------------------
(* The ledger of the stages, which the GPU stages keep as the plain ones do. *)

\* Nothing is skipped in a GPU stage; what comes before it is in the ready items.
Status == [s \in Stages |-> [i \in Items |-> IF i \in done[s] THEN "done" ELSE "pending"]]

Ledger == INSTANCE StageLedger WITH Deps <- [s \in Stages |-> {}], status <- Status

\* Several workers, and an orphan next to those of a later run, may mark one item:
\* it is decided by the first, once and for good.
ImplementsLedger == Ledger!LedgerSpec

\* The GPU stages implement the ledger StageNode implements, for any number of
\* devices, orphans, deaths and reruns (mark_done of s3:356, s5:352 and s6:311).
THEOREM LedgerImplemented == Spec => ImplementsLedger
<1>1. Init => Ledger!LedgerInit
  BY DEF Init, EmptyProgress, Ledger!LedgerInit, Status
<1>2. StageInv /\ [Next]_vars => [Ledger!LedgerNext]_Status
  <2> SUFFICES ASSUME StageInv, [Next]_vars PROVE Ledger!LedgerNext \/ Status' = Status
    OBVIOUS
  <2>1. Stages = {Stage} /\ done \in [Stages -> SUBSET Items]
    BY StageAssumption DEF StageInv, WriteInv, ProgressType
  <2>2. done' = done => Status' = Status
    BY DEF Status
  <2>3. ASSUME NEW w \in Workers, MarkDoneAdd(w) PROVE Ledger!LedgerNext \/ Status' = Status
    <3> DEFINE i == Cur(w)
    <3>1. i \in Items /\ done' = [done EXCEPT ![Stage] = @ \cup {i}]
      BY <2>3, CurIsItem DEF MarkDoneAdd, DoneAdd, StageInv, TaskInv, InTask
    <3> HIDE DEF i
    <3>2. CASE i \in done[Stage]
      BY <2>1, <2>2, <3>1, <3>2
    <3>3. CASE i \notin done[Stage]
      <4>1. Status[Stage][i] = "pending" /\ Stage \in Stages
        BY <2>1, <3>1, <3>3 DEF Status
      <4>2. Status' = [Status EXCEPT ![Stage] = [@ EXCEPT ![i] = "done"]]
        BY <2>1, <3>1 DEF Status
      <4>3. Ledger!Decide(Stage, i)
        BY <4>1, <4>2 DEF Ledger!Decide, Ledger!Decided, Ledger!Propagated
      <4> QED BY <3>1, <4>1, <4>3 DEF Ledger!LedgerNext
    <3> QED BY <3>2, <3>3
  <2>4. CASE ~\E w \in Workers : MarkDoneAdd(w)
    <3>1. done' = done
      BY <2>4 DEF Next, Launch, InitRaises, Join, Crash, Begin, PoolStep, WorkerDies, WorkerStep, OpenPhoto,
                  NextItem, Work, StorePart, MarkDoneClear, MarkFailed, TaskReturns, ItemFault, ProgressFault,
                  Stopped, vars, progressVars, stageVars, ErrorsSet, ErrorsDelete
    <3> QED BY <2>2, <3>1
  <2> QED BY <2>3, <2>4
<1> QED BY <1>1, <1>2, StageInvHolds, PTL DEF Spec, ImplementsLedger, Ledger!LedgerSpec
=============================================================================
