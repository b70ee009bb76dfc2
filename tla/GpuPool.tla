------------------------------- MODULE GpuPool -------------------------------
(***************************************************************************)
(* GPUProcessPool (utils/parallel/gpu_pool.py): one worker process per     *)
(* device.  A process takes the next index into `devices`, waits for the   *)
(* init lock, runs make_data under it and then takes tasks.  What          *)
(* multiprocessing.Pool does around it is modelled from its use: a process *)
(* that died is replaced, the task it held is not, and the results are     *)
(* awaited until every task has answered.                                  *)
(***************************************************************************)
EXTENDS Integers, FiniteSets

CONSTANTS NDevices,    \* len(devices)
          MaxDeaths    \* bound: processes killed, and make_data calls that raise

ASSUME PoolAssumption == NDevices \in Nat \ {0} /\ MaxDeaths \in Nat

VARIABLES
    counter,    \* the next index to hand out
    initLock,   \* the process that holds init_lock, Free, or Lost with its holder
    at,         \* per process: where it is
    device,     \* per process: its index into devices
    job,        \* per process: the task it executes
    queue,      \* the tasks no process has taken
    due,        \* the tasks whose output has not come
    deaths

poolVars == <<counter, initLock, at, device, job, queue, due, deaths>>

Procs == 1 .. NDevices
None == -1
Free == 0
Lost == -1

Least(S) == CHOOSE x \in S : \A y \in S : x <= y

PoolType ==
    /\ counter \in 0 .. NDevices
    /\ initLock \in {Free, Lost} \cup Procs
    /\ at \in [Procs -> {"off", "spawned", "locking", "making", "idle", "busy", "gone"}]
    /\ device \in [Procs -> {None} \cup 0 .. NDevices - 1]
    /\ job \in [Procs -> {None} \cup Nat]
    /\ \A p \in Procs : at[p] = "busy" <=> job[p] # None
    /\ due \subseteq Nat /\ queue \subseteq due
    /\ deaths \in 0 .. MaxDeaths

NoPool == [p \in Procs |-> "off"]
Nowhere == [p \in Procs |-> None]

PoolInit ==
    /\ counter = 0 /\ initLock = Free
    /\ at = NoPool /\ device = Nowhere /\ job = Nowhere
    /\ queue = {} /\ due = {} /\ deaths = 0

\* A new pool, or no pool, with processes at `start` and tasks to hand out.
StartPool(start, tasks) ==
    /\ counter' = 0 /\ initLock' = Free
    /\ at' = start /\ device' = Nowhere /\ job' = Nowhere
    /\ queue' = tasks /\ due' = tasks
    /\ UNCHANGED deaths

Move(p, point) == at' = [at EXCEPT ![p] = point]

----------------------------------------------------------------------------
(* _worker_init.                                                           *)

\* Mutant: a replacement shares the device of another process.
GrabIndexWraps(p) ==
    /\ at[p] = "spawned"
    /\ counter' = (counter + 1) % NDevices
    /\ device' = [device EXCEPT ![p] = counter]
    /\ Move(p, "locking")
    /\ UNCHANGED <<initLock, job, queue, due, deaths>>

\* devices[idx] raises IndexError in every process but the first NDevices; the
\* counter goes on, to no effect, and stays at NDevices here.
GrabIndex(p) ==
    /\ at[p] = "spawned"
    /\ IF counter < NDevices
       THEN /\ counter' = counter + 1
            /\ device' = [device EXCEPT ![p] = counter]
            /\ Move(p, "locking")
       ELSE /\ Move(p, "gone")
            /\ UNCHANGED <<counter, device>>
    /\ UNCHANGED <<initLock, job, queue, due, deaths>>

AcquireInitLock(p) ==
    /\ at[p] = "locking" /\ initLock = Free
    /\ initLock' = p
    /\ Move(p, "making")
    /\ UNCHANGED <<counter, device, job, queue, due, deaths>>

\* After _INIT_LOCK_TIMEOUT, "long enough for any realistic make_data": only
\* when the holder is dead.
InitLockTimesOut(p) ==
    /\ at[p] = "locking" /\ initLock = Lost
    /\ Move(p, "gone")
    /\ UNCHANGED <<counter, initLock, device, job, queue, due, deaths>>

\* make_data returns; the lock is released either way.
MakeData(p) ==
    /\ at[p] = "making"
    /\ initLock' = Free
    /\ \/ Move(p, "idle") /\ UNCHANGED deaths
       \/ Move(p, "gone") /\ deaths < MaxDeaths /\ deaths' = deaths + 1
    /\ UNCHANGED <<counter, device, job, queue, due>>

----------------------------------------------------------------------------
(* Tasks, and processes that die.                                          *)

\* The tasks are queued in order.
Take(p) ==
    /\ at[p] = "idle" /\ queue # {}
    /\ job' = [job EXCEPT ![p] = Least(queue)]
    /\ queue' = queue \ {Least(queue)}
    /\ Move(p, "busy")
    /\ UNCHANGED <<counter, initLock, device, due, deaths>>

\* Mutant: the process forgets to go back to the queue.
DeliverAndStay(p) ==
    /\ due' = due \ {job[p]}
    /\ job' = [job EXCEPT ![p] = None]
    /\ UNCHANGED <<counter, initLock, at, device, queue, deaths>>

\* _entry: the function's result, or its exception, is sent back.
Deliver(p) ==
    /\ due' = due \ {job[p]}
    /\ job' = [job EXCEPT ![p] = None]
    /\ Move(p, "idle")
    /\ UNCHANGED <<counter, initLock, device, queue, deaths>>

\* Killed by the system: its task and, during make_data, the lock are lost.
Die(p) ==
    /\ at[p] \in {"spawned", "locking", "making", "idle", "busy"}
    /\ deaths < MaxDeaths /\ deaths' = deaths + 1
    /\ initLock' = IF initLock = p THEN Lost ELSE initLock
    /\ job' = [job EXCEPT ![p] = None]
    /\ Move(p, "gone")
    /\ UNCHANGED <<counter, device, queue, due>>

\* The pool keeps NDevices processes while results are owed; the replacement
\* starts over in _worker_init.
Respawn(p) ==
    /\ at[p] = "gone" /\ due # {}
    /\ device' = [device EXCEPT ![p] = None]
    /\ Move(p, "spawned")
    /\ UNCHANGED <<counter, initLock, job, queue, due, deaths>>

\* pool.join() returns: every task answered and no process is still starting.
Joined == due = {} /\ \A p \in Procs : at[p] \in {"off", "idle", "gone"}

InitStep(p) == GrabIndex(p) \/ AcquireInitLock(p) \/ InitLockTimesOut(p) \/ MakeData(p) \/ Respawn(p)

----------------------------------------------------------------------------

Live == {p \in Procs : at[p] \in {"locking", "making", "idle", "busy"}}

\* "Each worker grabs a unique index into `devices`" and "each worker fully
\* completes its CUDA initialisation before the next one begins" (gpu_pool.py:63,
\* 98-99), whatever dies and is replaced: two processes on one device would run
\* it out of memory.
DevicesExclusive ==
    /\ \A p, q \in Live : p # q => device[p] # device[q]
    /\ Cardinality({p \in Procs : at[p] = "making"}) <= 1
=============================================================================
