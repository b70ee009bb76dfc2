------------------------------ MODULE GpuStage ------------------------------
(***************************************************************************)
(* The GPU stages s3 (camera), s5 (psf) and s6 (blur): _process_batch cuts *)
(* the ready items into tasks, run_mp_per_gpu runs the stage's _worker on  *)
(* each, in a GPUProcessPool or, with one GPU, in the coordinator itself,  *)
(* and the workers write results and progress item by item.  The first     *)
(* exception that reaches the coordinator ends the run.                    *)
(***************************************************************************)
EXTENDS GpuPool, ItemProgress

CONSTANTS Stage,         \* the one stage of this module
          Kinds,         \* which of the three stages it may be
          PhotoOf,       \* the photo of every item
          Unopenable,    \* photos that provider.open always raises on
          ChunkSize,     \* gpu_task_chunk_size
          MaxRuns,       \* bound: how often the stage is run
          MaxTroubles    \* bound: exceptions, faults and kills of the program

\* What distinguishes the three: s3 works on chunks, and in a pool even with
\* one GPU; s5 and s6 work photo by photo and write two results per item, and
\* s6 opens the photo first.
StageKinds ==
    [camera |-> [parts |-> 1, byPhoto |-> FALSE, forceMp |-> TRUE, opens |-> FALSE],
     psf |-> [parts |-> 2, byPhoto |-> TRUE, forceMp |-> FALSE, opens |-> FALSE],
     blur |-> [parts |-> 2, byPhoto |-> TRUE, forceMp |-> FALSE, opens |-> TRUE]]

ASSUME StageAssumption ==
    /\ Stages = {Stage} /\ IsFiniteSet(Items)
    /\ Kinds \subseteq DOMAIN StageKinds
    /\ PhotoOf \in [Items -> Nat] /\ Unopenable \subseteq Nat
    /\ ChunkSize \in Nat \ {0}
    /\ MaxRuns \in Nat /\ MaxTroubles \in Nat

VARIABLES
    kind,
    stored,     \* the parts of results that are on disk
    phase,      \* the coordinator: "down", or in "batch"
    pooled,     \* FALSE: one GPU, the tasks run in the coordinator (process 1)
    failFast,
    ready,      \* the items of this run
    raising,    \* an output with an exception has come
    step, rest, part,   \* per worker: inside _worker, the items left, the part to write
    runs, troubles

localVars == <<step, rest, part>>
runVars == <<phase, pooled, failFast, ready, raising>>
vars == <<poolVars, progressVars, kind, stored, runVars, localVars, runs, troubles>>

\* A worker whose coordinator was killed goes on with its task.
Orphan == 0
Workers == Procs \cup {Orphan}

Trouble == troubles < MaxTroubles /\ troubles' = troubles + 1 /\ UNCHANGED runs
NoTrouble == UNCHANGED <<runs, troubles>>

This == StageKinds[kind]
Parts == 1 .. This.parts

TypeOK ==
    /\ PoolType /\ ProgressType
    /\ kind \in Kinds
    /\ stored \subseteq Items \X Parts
    /\ phase \in {"down", "batch"}
    /\ {pooled, failFast, raising} \subseteq BOOLEAN
    /\ ready \subseteq Items
    /\ step \in [Workers -> {"none", "open", "item", "work", "store", "mark", "clear", "fail"}]
    /\ rest \in [Workers -> SUBSET Items]
    /\ part \in [Workers -> Parts]
    /\ \A w \in Workers : step[w] \notin {"none", "item"} => rest[w] # {}
    /\ runs \in 0 .. MaxRuns /\ troubles \in 0 .. MaxTroubles

NoTask == [w \in Workers |-> "none"]
NoRest == [w \in Workers |-> {}]
FirstPart == [w \in Workers |-> 1]

Init ==
    /\ PoolInit /\ EmptyProgress
    /\ kind \in Kinds
    /\ stored = {}
    /\ phase = "down" /\ pooled = FALSE /\ failFast = FALSE /\ ready = {}
    /\ raising = FALSE
    /\ step = NoTask /\ rest = NoRest /\ part = FirstPart
    /\ runs = 0 /\ troubles = 0

----------------------------------------------------------------------------
(* _process_batch: the tasks of a snapshot S of ready items.               *)

\* Mutant: failed items do not come back.
ReadyDropsFailed == Items \ (Processable(Stage) \cup errors[Stage])

Ready == Items \ Processable(Stage)

Chunk(i, S) == Cardinality({j \in S : j < i}) \div ChunkSize

\* Mutant: a chunk ends one item late.
ItemsOfOverlap(t, S) ==
    IF This.byPhoto THEN {i \in S : PhotoOf[i] = t}
    ELSE {i \in S : Cardinality({j \in S : j < i}) \in t * ChunkSize .. (t + 1) * ChunkSize}

ItemsOf(t, S) == {i \in S : t = IF This.byPhoto THEN PhotoOf[i] ELSE Chunk(i, S)}

TasksOf(S) == {IF This.byPhoto THEN PhotoOf[i] ELSE Chunk(i, S) : i \in S}

Launch ==
    /\ phase = "down" /\ Ready # {}
    /\ runs < MaxRuns /\ runs' = runs + 1
    /\ phase' = "batch" /\ ready' = Ready
    /\ failFast' \in BOOLEAN
    /\ pooled' \in (IF This.forceMp THEN {TRUE} ELSE BOOLEAN)
    /\ StartPool(IF pooled' THEN [p \in Procs |-> "spawned"] ELSE [NoPool EXCEPT ![1] = "idle"],
                 TasksOf(Ready))
    /\ UNCHANGED <<progressVars, kind, stored, raising, localVars, troubles>>

\* The run is over, and the processes with it.
End ==
    /\ phase' = "down"
    /\ pooled' = FALSE /\ failFast' = FALSE /\ ready' = {} /\ raising' = FALSE
    /\ StartPool(NoPool, {})
    /\ UNCHANGED kind

ForgetTasks(orphanStep, orphanRest, orphanPart) ==
    /\ step' = [NoTask EXCEPT ![Orphan] = orphanStep]
    /\ rest' = [NoRest EXCEPT ![Orphan] = orphanRest]
    /\ part' = [FirstPart EXCEPT ![Orphan] = orphanPart]

KeepOrphan == ForgetTasks(step[Orphan], rest[Orphan], part[Orphan])

\* With one GPU the stage's _init runs in the coordinator, and may raise there.
InitRaises ==
    /\ phase = "batch" /\ ~pooled /\ queue = due
    /\ Trouble
    /\ End /\ KeepOrphan
    /\ UNCHANGED <<progressVars, stored>>

----------------------------------------------------------------------------
(* run_mp_per_gpu: the coordinator.                                        *)

\* _temp_err_handling raises the first exception that comes, or all outputs
\* have come; __exit__ closes and joins the pool either way.
Join ==
    /\ phase = "batch" /\ (raising \/ due = {})
    /\ Joined
    /\ End /\ KeepOrphan /\ NoTrouble
    /\ UNCHANGED <<progressVars, stored>>

\* The program is killed; of its worker processes one may survive it.
Crash ==
    /\ phase # "down"
    /\ Trouble
    /\ End
    /\ \/ KeepOrphan
       \/ \E p \in Procs :
            /\ pooled /\ step[p] # "none" /\ step[Orphan] = "none"
            /\ ForgetTasks(step[p], rest[p], part[p])
    /\ UNCHANGED <<progressVars, stored>>

----------------------------------------------------------------------------
(* _worker: one task, item by item.                                        *)

stageVars == <<progressVars, kind, stored, runs, troubles>>

Cur(w) == Least(rest[w])

Go(w, point) == step' = [step EXCEPT ![w] = point] /\ UNCHANGED <<rest, part>>

\* On to the next item of the task.
Advance(w) ==
    /\ step' = [step EXCEPT ![w] = "item"]
    /\ rest' = [rest EXCEPT ![w] = @ \ {Cur(w)}]
    /\ UNCHANGED part

Finish(w) ==
    /\ step' = [step EXCEPT ![w] = "none"]
    /\ rest' = [rest EXCEPT ![w] = {}]
    /\ part' = [part EXCEPT ![w] = 1]

\* An exception leaves _worker: the pool sends it back, the coordinator's own
\* loop ends with it.  Nobody waits for an orphan.
Escape(w) ==
    \/ w = Orphan /\ Finish(w) /\ UNCHANGED <<poolVars, kind, runVars>>
    \/ /\ w # Orphan /\ pooled
       /\ Deliver(w) /\ Finish(w)
       /\ raising' = TRUE
       /\ UNCHANGED <<kind, phase, pooled, failFast, ready>>
    \/ w # Orphan /\ ~pooled /\ End /\ KeepOrphan

Begin(p) ==
    /\ Take(p)
    /\ step' = [step EXCEPT ![p] = IF This.opens THEN "open" ELSE "item"]
    /\ rest' = [rest EXCEPT ![p] = ItemsOf(job'[p], ready)]
    /\ UNCHANGED <<stageVars, runVars, part>>

\* provider.open is outside of the try.
OpenPhoto(w) ==
    /\ step[w] = "open"
    /\ \/ /\ PhotoOf[Cur(w)] \notin Unopenable
          /\ Go(w, "item")
          /\ NoTrouble /\ UNCHANGED <<poolVars, runVars, kind>>
       \/ PhotoOf[Cur(w)] \in Unopenable /\ Escape(w) /\ NoTrouble
       \/ PhotoOf[Cur(w)] \notin Unopenable /\ Trouble /\ Escape(w)
    /\ UNCHANGED <<progressVars, stored>>

\* Items already done are passed over.
NextItem(w) ==
    /\ step[w] = "item" /\ rest[w] # {}
    /\ IF Cur(w) \in done[Stage] THEN Advance(w) ELSE Go(w, "work")
    /\ UNCHANGED <<stageVars, poolVars, runVars>>

\* Loading and computing.
Work(w) ==
    /\ step[w] = "work"
    /\ \/ Go(w, "store") /\ NoTrouble
       \/ Go(w, "fail") /\ Trouble
    /\ UNCHANGED <<progressVars, kind, stored, poolVars, runVars>>

\* Mutant: the last part is not awaited.
StorePartShort(w) ==
    /\ step[w] = "store"
    /\ stored' = stored \cup {<<Cur(w), part[w]>>}
    /\ step' = [step EXCEPT ![w] = IF part[w] + 1 < This.parts THEN "store" ELSE "mark"]
    /\ part' = [part EXCEPT ![w] = IF part[w] + 1 < This.parts THEN @ + 1 ELSE 1]
    /\ NoTrouble
    /\ UNCHANGED <<progressVars, kind, rest, poolVars, runVars>>

\* camera_store.add; psf_store.add_psfs, two stores; the two PNGs of s6.  All
\* may be there already and are written again.
StorePart(w) ==
    /\ step[w] = "store"
    /\ stored' = stored \cup {<<Cur(w), part[w]>>}
    /\ step' = [step EXCEPT ![w] = IF part[w] < This.parts THEN "store" ELSE "mark"]
    /\ part' = [part EXCEPT ![w] = IF part[w] < This.parts THEN @ + 1 ELSE 1]
    /\ NoTrouble
    /\ UNCHANGED <<progressVars, kind, rest, poolVars, runVars>>

\* progress.mark_done.
MarkDoneAdd(w) ==
    /\ step[w] = "mark"
    /\ DoneAdd(Stage, Cur(w))
    /\ Go(w, "clear")
    /\ NoTrouble
    /\ UNCHANGED <<kind, stored, poolVars, runVars>>

MarkDoneClear(w) ==
    /\ step[w] = "clear"
    /\ ErrorsDelete(Stage, Cur(w))
    /\ Advance(w)
    /\ NoTrouble
    /\ UNCHANGED <<kind, stored, poolVars, runVars>>

\* A store or progress call, or the preview of s5, raises.
ItemFault(w) ==
    /\ step[w] \in {"store", "mark", "clear"}
    /\ Trouble
    /\ step' = [step EXCEPT ![w] = "fail"] /\ part' = [part EXCEPT ![w] = 1]
    /\ UNCHANGED <<progressVars, kind, stored, rest, poolVars, runVars>>

\* Mutant: the failure is only logged.
MarkFailedForgets(w) ==
    /\ step[w] = "fail"
    /\ IF failFast THEN Escape(w) ELSE Advance(w) /\ UNCHANGED <<poolVars, kind, runVars>>
    /\ NoTrouble
    /\ UNCHANGED <<progressVars, stored>>

\* except: progress.mark_failed, then raise with fail_fast.  An orphan's
\* fail_fast is that of a run that is over.
MarkFailed(w) ==
    /\ step[w] = "fail"
    /\ ErrorsSet(Stage, Cur(w))
    /\ IF w = Orphan THEN (Escape(w) \/ (Advance(w) /\ UNCHANGED <<poolVars, kind, runVars>>))
       ELSE IF failFast THEN Escape(w)
       ELSE Advance(w) /\ UNCHANGED <<poolVars, kind, runVars>>
    /\ NoTrouble /\ UNCHANGED stored

\* progress.is_done or mark_failed raises, outside of the try.
ProgressFault(w) ==
    /\ step[w] = "fail" \/ (step[w] = "item" /\ rest[w] # {})
    /\ Trouble
    /\ Escape(w)
    /\ UNCHANGED <<progressVars, stored>>

TaskReturns(w) ==
    /\ step[w] = "item" /\ rest[w] = {}
    /\ Finish(w)
    /\ IF w = Orphan THEN UNCHANGED poolVars ELSE Deliver(w)
    /\ UNCHANGED <<stageVars, runVars>>

WorkerStep(w) ==
    \/ OpenPhoto(w) \/ NextItem(w) \/ Work(w) \/ StorePart(w)
    \/ MarkDoneAdd(w) \/ MarkDoneClear(w) \/ MarkFailed(w) \/ TaskReturns(w)

\* A process starts, dies or is replaced.
PoolStep(p) ==
    /\ InitStep(p)
    /\ UNCHANGED <<stageVars, runVars, localVars>>

WorkerDies(p) ==
    /\ pooled
    /\ Die(p) /\ Finish(p)
    /\ UNCHANGED <<stageVars, runVars>>

\* Every item is done, or the bound on runs is spent.
Stopped ==
    /\ phase = "down" /\ step[Orphan] = "none"
    /\ Ready = {} \/ runs = MaxRuns
    /\ UNCHANGED vars

Next ==
    \/ Launch \/ InitRaises \/ Join \/ Crash
    \/ \E p \in Procs : Begin(p) \/ PoolStep(p) \/ WorkerDies(p)
    \/ \E w \in Workers : WorkerStep(w) \/ ItemFault(w) \/ ProgressFault(w)
    \/ Stopped

Spec == Init /\ [][Next]_vars

Fairness ==
    /\ WF_vars(Launch) /\ WF_vars(Join)
    /\ \A p \in Procs : WF_vars(Begin(p)) /\ WF_vars(PoolStep(p)) /\ WF_vars(WorkerStep(p))

FairSpec == Spec /\ Fairness

----------------------------------------------------------------------------
(* Properties. *)

\* An item is recorded done only with everything later stages load of it, or
\* the dataset is made of, on disk (the order of the store and of mark_done in
\* s3:355-356, s5:337-352 and s6:301-311), through reruns, orphans and faults.
StoredBeforeDone == done[Stage] \X Parts \subseteq stored

\* No two processes of a pool are at the same item (the chunks of s3:373-381
\* and the groups of s5:431-435 are disjoint, and no task is handed out twice).
OneProcessPerItem ==
    \A p, q \in Procs : p # q => rest[p] \cap rest[q] = {}

\* A run that returns has accounted for each of its items: done, or listed in
\* errors.db for the next run ("failed : retried on the next run", node.py:41).
ReturnAccountsForAll ==
    [][ phase # "down" /\ phase' = "down" /\ due = {} /\ ~raising /\ NoTrouble =>
            ready \subseteq done[Stage] \cup errors[Stage] ]_vars

\* With more runs than interruptions every item is done in the end, unless a
\* worker process dies.
EventuallyDone == <>(deaths > 0) \/ <>[](done[Stage] = Items)

\* "process all currently ready items once, then return" (node.py:142): without
\* fail_fast and without trouble no item is left that was not attempted.
AllAttempted ==
    [][ phase # "down" /\ phase' = "down" /\ ~failFast /\ troubles' = 0 =>
            ready \subseteq done'[Stage] \cup errors'[Stage] ]_vars

\* "a hard crash in another worker (which would leave the lock permanently held)
\* turns into a loud error instead of a silent infinite hang" (gpu_pool.py:101-103):
\* a run that started ends, by itself.
RunsEnd == phase = "batch" ~> phase = "down"
=============================================================================
