------------------------------ MODULE StageNode ------------------------------
(***************************************************************************)
(* Pipeline.run_batch over plain StageNodes: the stages of `Order` run one *)
(* after the other, each over a snapshot of its ready items, with one      *)
(* thread (n_workers <= 1) or a thread pool.  A process may crash at any   *)
(* point and be started again on the same directories; an item-level       *)
(* exception fails the item or, with fail_fast, ends the run; a SQLite     *)
(* call may raise ("database is locked" after its 30 s timeout).           *)
(*                                                                         *)
(* process() is the subclass's: it may call mark_skipped, return or raise. *)
(***************************************************************************)
EXTENDS ItemProgress, Sequences, FiniteSets

CONSTANTS Deps,        \* StageNode.deps, as sets of stages
          Order,       \* Pipeline._topo_order
          Workers,     \* the threads of a batch, n_workers of them
          NoItem,
          MaxRuns,     \* bound: how often the program is started
          MaxCrashes,  \* bound: how often it is killed
          MaxRaises,   \* bound: how often process() raises
          MaxFaults,   \* bound: how often a SQLite call raises
          MaxSkipAlls  \* bound: how often skip_all_failed is called

ASSUME DepsAssumption == Deps \in [Stages -> SUBSET Stages]
ASSUME OrderAssumption == Order \in Seq(Stages)
ASSUME NoItemAssumption == NoItem \notin Items
ASSUME BoundsAssumption == {MaxRuns, MaxCrashes, MaxRaises, MaxFaults, MaxSkipAlls} \subseteq Nat

VARIABLES
    phase,     \* "down", "between" two stages, or inside a "batch"
    cursor,    \* position of the current stage in Order
    failFast,  \* the run_batch argument
    serial,    \* this start has n_workers <= 1
    queue,     \* ready items not handed to a thread yet
    pc, item,  \* per thread: the point inside _run_one, and its item
    raised,    \* an exception is about to leave _process_batch
    todo,      \* skip_all_failed: the (stage, item) pairs still to move
    moving,    \* skip_all_failed: the pairs skipped but not yet cleared
    used       \* how much of each bound is spent

runVars == <<phase, cursor, failFast, serial, queue, pc, item, raised>>
operVars == <<todo, moving>>
vars == <<progressVars, runVars, operVars, used>>

Bounds == [run |-> MaxRuns, crash |-> MaxCrashes, raise |-> MaxRaises,
           fault |-> MaxFaults, skipAll |-> MaxSkipAlls]

Spend(k) == used[k] < Bounds[k] /\ used' = [used EXCEPT ![k] = @ + 1]

Current == Order[cursor]

PC == {"idle", "processing", "skipMarked", "marking", "clearing", "failing"}

TypeOK ==
    /\ ProgressType
    /\ phase \in {"down", "between", "batch"}
    /\ cursor \in 1 .. (Len(Order) + 1)
    /\ phase = "batch" => cursor <= Len(Order)
    /\ failFast \in BOOLEAN /\ serial \in BOOLEAN
    /\ queue \in SUBSET Items
    /\ pc \in [Workers -> PC]
    /\ item \in [Workers -> Items \cup {NoItem}]
    /\ \A w \in Workers : pc[w] = "idle" <=> item[w] = NoItem
    /\ raised \in BOOLEAN
    /\ todo \in SUBSET (Stages \X Items)
    /\ moving \in SUBSET (Stages \X Items)
    /\ used \in [DOMAIN Bounds -> Nat]

AllIdle == [w \in Workers |-> "idle"]
NoItems == [w \in Workers |-> NoItem]

Init ==
    /\ EmptyProgress
    /\ phase = "down" /\ cursor = 1 /\ failFast = FALSE /\ serial = FALSE /\ queue = {}
    /\ pc = AllIdle /\ item = NoItems /\ raised = FALSE
    /\ todo = {} /\ moving = {}
    /\ used = [k \in DOMAIN Bounds |-> 0]

----------------------------------------------------------------------------
(* StageNode.ready_items. *)

\* Items every dependency has completed; a root offers all its source items.
Upstream(s) == {i \in Items : \A d \in Deps[s] : i \in done[d]}

\* Mutants of ReadyItems: skipped items propagate; skipped items come back;
\* failed items do not.
ReadySkippedPropagate(s) == {i \in Items : \A d \in Deps[s] : i \in Processable(d)} \ Processable(s)
ReadyForgetsSkipped(s) == Upstream(s) \ done[s]
ReadyDropsFailed(s) == Upstream(s) \ (Processable(s) \cup errors[s])

ReadyItems(s) == Upstream(s) \ Processable(s)

----------------------------------------------------------------------------
(* Pipeline.run_batch. *)

Launch ==
    /\ phase = "down" /\ todo = {} /\ moving = {}
    /\ Spend("run")
    /\ phase' = "between" /\ cursor' = 1
    /\ failFast' \in BOOLEAN /\ serial' \in BOOLEAN
    /\ UNCHANGED <<progressVars, queue, pc, item, raised, operVars>>

\* run(): a stage with nothing ready returns at once.
RunStage ==
    /\ phase = "between" /\ cursor <= Len(Order)
    /\ queue' = ReadyItems(Current)
    /\ IF queue' = {} THEN cursor' = cursor + 1 /\ phase' = phase
                      ELSE cursor' = cursor /\ phase' = "batch"
    /\ UNCHANGED <<progressVars, failFast, serial, pc, item, raised, operVars, used>>

Finish ==
    /\ phase = "between" /\ cursor > Len(Order)
    /\ phase' = "down" /\ cursor' = 1 /\ failFast' = FALSE /\ serial' = FALSE
    /\ UNCHANGED <<progressVars, queue, pc, item, raised, operVars, used>>

\* The process dies: its memory is gone, the databases stay.
Crash ==
    /\ phase # "down"
    /\ Spend("crash")
    /\ phase' = "down" /\ cursor' = 1 /\ failFast' = FALSE /\ serial' = FALSE /\ queue' = {}
    /\ pc' = AllIdle /\ item' = NoItems /\ raised' = FALSE
    /\ UNCHANGED <<progressVars, operVars>>

----------------------------------------------------------------------------
(* StageNode._process_batch: threads take the sorted items in order.  The  *)
(* serial loop stops at the first exception; leaving the executor's `with` *)
(* block lets every submitted item finish before the exception goes on.    *)

InBatch == phase = "batch"

Take(w) ==
    /\ InBatch /\ pc[w] = "idle"
    /\ serial => ~raised /\ \A v \in Workers : pc[v] = "idle"
    /\ \E i \in queue :
        /\ \A j \in queue : i <= j
        /\ queue' = queue \ {i}
        /\ item' = [item EXCEPT ![w] = i]
    /\ pc' = [pc EXCEPT ![w] = "processing"]
    /\ UNCHANGED <<progressVars, phase, cursor, failFast, serial, raised, operVars, used>>

EndBatch ==
    /\ InBatch
    /\ \A w \in Workers : pc[w] = "idle"
    /\ queue = {} \/ (serial /\ raised)
    /\ IF raised THEN phase' = "down" /\ cursor' = 1 /\ failFast' = FALSE /\ serial' = FALSE
                 ELSE phase' = "between" /\ cursor' = cursor + 1 /\ UNCHANGED <<failFast, serial>>
    /\ queue' = {} /\ raised' = FALSE
    /\ UNCHANGED <<progressVars, pc, item, operVars, used>>

----------------------------------------------------------------------------
(* StageNode._run_one. *)

At(w, at) == InBatch /\ pc[w] \in at

GoTo(w, to) == pc' = [pc EXCEPT ![w] = to] /\ UNCHANGED <<item, raised>>

\* Mutant: a finished thread keeps its item.
ReleaseKeepsItem(w) == pc' = [pc EXCEPT ![w] = "idle"] /\ UNCHANGED item

Release(w) ==
    /\ pc' = [pc EXCEPT ![w] = "idle"]
    /\ item' = [item EXCEPT ![w] = NoItem]

Done(w) == Release(w) /\ UNCHANGED raised

\* An exception in the try block: caught and recorded next, or let through.
Throw(w) ==
    IF failFast THEN Release(w) /\ raised' = TRUE ELSE GoTo(w, "failing")

UNCHANGED_run == UNCHANGED <<phase, cursor, failFast, serial, queue, operVars>>

\* process() calls self.progress.mark_skipped(item).
MarkSkipped(w) ==
    /\ At(w, {"processing"})
    /\ SkippedAdd(Current, item[w])
    /\ GoTo(w, "skipMarked")
    /\ UNCHANGED_run /\ UNCHANGED used

\* Mutant: mark_done without the is_skipped test.
ProcessReturnsUnchecked(w) ==
    /\ At(w, {"processing", "skipMarked"})
    /\ GoTo(w, "marking")
    /\ UNCHANGED_run /\ UNCHANGED <<progressVars, used>>

\* process() returns; _run_one asks is_skipped before it marks the item done.
ProcessReturns(w) ==
    /\ At(w, {"processing", "skipMarked"})
    /\ IF item[w] \in skipped[Current] THEN Done(w) ELSE GoTo(w, "marking")
    /\ UNCHANGED_run /\ UNCHANGED <<progressVars, used>>

ProcessRaises(w) ==
    /\ At(w, {"processing", "skipMarked"})
    /\ Spend("raise")
    /\ Throw(w)
    /\ UNCHANGED_run /\ UNCHANGED progressVars

\* mark_done, first call: done.db.
MarkDoneAdd(w) ==
    /\ At(w, {"marking"})
    /\ DoneAdd(Current, item[w])
    /\ GoTo(w, "clearing")
    /\ UNCHANGED_run /\ UNCHANGED used

\* mark_done, second call: errors.db.
MarkDoneClear(w) ==
    /\ At(w, {"clearing"})
    /\ ErrorsDelete(Current, item[w])
    /\ Done(w)
    /\ UNCHANGED_run /\ UNCHANGED used

MarkFailed(w) ==
    /\ At(w, {"failing"})
    /\ ErrorsSet(Current, item[w])
    /\ Done(w)
    /\ UNCHANGED_run /\ UNCHANGED used

\* A SQLite call of mark_done raises inside the try; one of mark_failed is in
\* the except clause, so nothing catches it.
StoreFault(w) ==
    /\ Spend("fault")
    /\ \/ At(w, {"marking", "clearing"}) /\ Throw(w)
       \/ At(w, {"failing"}) /\ Release(w) /\ raised' = TRUE
    /\ UNCHANGED_run /\ UNCHANGED progressVars

Work(w) ==
    \/ Take(w) \/ MarkSkipped(w) \/ ProcessReturns(w) \/ ProcessRaises(w)
    \/ MarkDoneAdd(w) \/ MarkDoneClear(w) \/ MarkFailed(w) \/ StoreFault(w)

----------------------------------------------------------------------------
(* ItemProgress.skip_all_failed, called on one stage between two runs.     *)

SkipAllFailed(s) ==
    /\ phase = "down" /\ todo = {} /\ moving = {} /\ errors[s] # {}
    /\ Spend("skipAll")
    /\ todo' = {s} \X errors[s]
    /\ UNCHANGED <<progressVars, runVars, moving>>

SkipOne ==
    /\ moving = {}
    /\ \E p \in todo :
        /\ SkippedAdd(p[1], p[2])
        /\ todo' = todo \ {p} /\ moving' = {p}
    /\ UNCHANGED <<runVars, used>>

ClearOne ==
    /\ \E p \in moving :
        /\ ErrorsDelete(p[1], p[2])
        /\ moving' = {}
    /\ UNCHANGED <<runVars, todo, used>>

\* It is killed, or one of its SQLite calls raises: the rest stays as it is.
SkipAllStops ==
    /\ todo \cup moving # {}
    /\ Spend("crash") \/ Spend("fault")
    /\ todo' = {} /\ moving' = {}
    /\ UNCHANGED <<progressVars, runVars>>

----------------------------------------------------------------------------

\* Nothing is left to do once the bound on runs is spent.
Stopped ==
    /\ phase = "down" /\ todo = {} /\ moving = {} /\ used["run"] = MaxRuns
    /\ UNCHANGED vars

Next ==
    \/ Launch \/ RunStage \/ Finish \/ EndBatch \/ Crash
    \/ \E w \in Workers : Work(w)
    \/ \E s \in Stages : SkipAllFailed(s)
    \/ SkipOne \/ ClearOne \/ SkipAllStops
    \/ Stopped

Spec == Init /\ [][Next]_vars

\* A started run goes on while it can, and the operator starts the program
\* again until its work is done.
Fairness ==
    /\ WF_vars(Launch) /\ WF_vars(RunStage) /\ WF_vars(Finish) /\ WF_vars(EndBatch)
    /\ \A w \in Workers :
        /\ WF_vars(Take(w)) /\ WF_vars(ProcessReturns(w)) /\ WF_vars(MarkDoneAdd(w))
        /\ WF_vars(MarkDoneClear(w)) /\ WF_vars(MarkFailed(w))
    /\ WF_vars(SkipOne) /\ WF_vars(ClearOne)

FairSpec == Spec /\ Fairness

----------------------------------------------------------------------------
(* Properties. *)

\* An item is done or skipped in a stage only after every stage it depends on
\* completed it (ready_items, node.py:106-124), across threads and crashes.
UpstreamFirst == \A s \in Stages : Processable(s) \subseteq Upstream(s)

\* Two threads never hold the same item, and none holds one that is decided
\* already (node.py:42-45, "Done and skipped items are never re-processed").
WorkIsExclusive ==
    \A w \in Workers : pc[w] # "idle" =>
        /\ item[w] \notin queue
        /\ \A v \in Workers \ {w} : item[v] # item[w]
        /\ pc[w] = "processing" => item[w] \notin Processable(Current)

\* Until skip_all_failed is called, no item is both done and skipped, whatever
\* the crashes: _run_one asks is_skipped before mark_done (node.py:201-202).  And
\* as long as nothing was killed and no SQLite call raised, an item that is done
\* has no error but while mark_done is about to clear it (progress.py:47-50).
OneOutcome == \A s \in Stages : done[s] \cap skipped[s] = {}

BeingCleared(s, i) == s = Current /\ \E w \in Workers : pc[w] = "clearing" /\ item[w] = i

FailuresCleared == \A s \in Stages : \A i \in done[s] \cap errors[s] : BeingCleared(s, i)

OutcomeIsUnique ==
    used["skipAll"] = 0 =>
        OneOutcome /\ (used["crash"] = 0 /\ used["fault"] = 0 => FailuresCleared)

\* The stages implement the ledger: decisions are final and follow the deps.
Outcome(s, i) ==
    IF i \in done[s] THEN "done" ELSE IF i \in skipped[s] THEN "skipped" ELSE "pending"

Ledger == INSTANCE StageLedger
            WITH status <- [s \in Stages |-> [i \in Items |-> Outcome(s, i)]]

ImplementsLedger == Ledger!LedgerSpec

\* With more runs than bad events, every item is decided in every stage or was
\* stopped by a stage before it (node.py:37-45: failed items are retried).
Settled(s, i) == i \in Processable(s) \cup UNION {Items \ done[d] : d \in Deps[s]}

AllSettled == phase = "down" /\ \A s \in Stages, i \in Items : Settled(s, i)

EventuallySettled == <>[]AllSettled

\* What pipeline/progress.py:62-67 and 77-83 say of a skipped item: nothing
\* downstream completes it.
SkippedStops ==
    \A s \in Stages, t \in Stages :
        s \in Deps[t] => skipped[s] \cap done[t] = {}
=============================================================================
