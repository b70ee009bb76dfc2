--------------------------- MODULE SharpnessFilter ---------------------------
(***************************************************************************)
(* Stage s2 as the pipeline runs it: SharpnessFilterNode in a child        *)
(* process of SubprocessStageRunNode.  It ranks the finished s1 output     *)
(* once, stores the best NKeep ids, writes a completion marker and then    *)
(* marks those ids done one by one; a restart that finds state but no      *)
(* marker throws everything away.  Killing the program may leave the child *)
(* behind, which then runs next to the child of the next start.  s1 and    *)
(* the stages after s2 are one item and one step each.                     *)
(***************************************************************************)
EXTENDS ItemProgress, FiniteSets

CONSTANTS Crop, Filter,   \* the two stages of this module
          Score,          \* the combined sharpness score of every item
          NKeep,          \* SharpnessFilterConfig.n_keep
          MaxTroubles,    \* bound: kills, and calls that raise
          MaxOrphans      \* bound: children that outlive a killed program

ASSUME FilterAssumption ==
    /\ Stages = {Crop, Filter} /\ Crop # Filter
    /\ Items # {} /\ Score \in [Items -> Nat]
    /\ NKeep \in Nat \ {0}
    /\ MaxTroubles \in Nat /\ MaxOrphans \in Nat

VARIABLES
    selection,        \* selected.db
    marker,           \* selection_complete.json exists
    tables,           \* the files under _progress/ have their tables
    phase,            \* run_batch: "down", or in the stage(s) named
    taken,            \* items a stage after s2 has started from
    pc, cand, queue,  \* per child: its point, the s1 items it ranks, its batch
    troubles, orphans

storeVars == <<progressVars, selection, marker, tables>>
childVars == <<pc, cand, queue>>
vars == <<storeVars, phase, taken, childVars, troubles, orphans>>

\* The child of the current run, and one an earlier run left behind.
Child == "child"
Orphan == "orphan"
Children == {Child, Orphan}

Points == {"boot", "probe", "wipe", "unlink", "recreate", "ready", "clear",
           "update", "mark", "list", "item", "clearing", "fail"}

TypeOK ==
    /\ ProgressType
    /\ selection \subseteq Items /\ {marker, tables} \subseteq BOOLEAN
    /\ phase \in {"down", "crop", "filter", "rest"}
    /\ taken \subseteq Items
    /\ pc \in [Children -> Points \cup {"off", "ok", "err"}]
    /\ cand \in [Children -> SUBSET Items] /\ queue \in [Children -> SUBSET Items]
    /\ \A c \in Children : pc[c] \in {"clearing", "fail"} => queue[c] # {}
    /\ pc[Orphan] \notin {"ok", "err"}
    /\ troubles \in 0 .. MaxTroubles /\ orphans \in 0 .. MaxOrphans

Init ==
    /\ EmptyProgress
    /\ selection = {} /\ marker = FALSE /\ tables = TRUE
    /\ phase = "down" /\ taken = {}
    /\ pc = [c \in Children |-> "off"]
    /\ cand = [c \in Children |-> {}] /\ queue = [c \in Children |-> {}]
    /\ troubles = 0 /\ orphans = 0

Trouble == troubles < MaxTroubles /\ troubles' = troubles + 1
NoTrouble == UNCHANGED troubles

\* The last n_keep of a stable argsort over the sorted ids: of two items with
\* one score the later id is kept.
Better(i, j) == Score[i] > Score[j] \/ (Score[i] = Score[j] /\ i > j)
Top(S) == {i \in S : Cardinality({j \in S : Better(j, i)}) < NKeep}

Ranking == Top(Items)

----------------------------------------------------------------------------
(* Pipeline.run_batch and SubprocessStageRunNode.run, in the parent.       *)

\* ItemProgress of the parent's node creates tables that are missing.
Launch ==
    /\ phase = "down" /\ taken # Ranking
    /\ phase' = "crop" /\ tables' = TRUE
    /\ UNCHANGED <<progressVars, selection, marker, taken, childVars, troubles, orphans>>

\* Stage s1 produces one more item of its target.
CropItem ==
    /\ phase = "crop"
    /\ \E i \in Items \ done[Crop] : DoneAdd(Crop, i)
    /\ UNCHANGED <<selection, marker, tables, phase, taken, childVars, troubles, orphans>>

\* Mutant: stages overlap.  The child would not notice: to it s1 is a proxy
\* without a total, always complete.
StartFilterEarly ==
    /\ phase = "crop" /\ done[Crop] # {}
    /\ phase' = "filter"
    /\ pc' = [pc EXCEPT ![Child] = "boot"]
    /\ UNCHANGED <<storeVars, taken, cand, queue, troubles, orphans>>

StartFilter ==
    /\ phase = "crop" /\ done[Crop] = Items
    /\ phase' = "filter"
    /\ pc' = [pc EXCEPT ![Child] = "boot"]
    /\ UNCHANGED <<storeVars, taken, cand, queue, troubles, orphans>>

\* Mutant: a child that ended without a result counts as finished.
JoinChildAny ==
    /\ phase = "filter" /\ pc[Child] \in {"ok", "err", "off"}
    /\ phase' = IF pc[Child] # "err" THEN "rest" ELSE "down"
    /\ pc' = [pc EXCEPT ![Child] = "off"]
    /\ UNCHANGED <<storeVars, taken, cand, queue, troubles, orphans>>

\* run_single_subprocess: no result, or an exception, raises here too.
JoinChild ==
    /\ phase = "filter" /\ pc[Child] \in {"ok", "err", "off"}
    /\ phase' = IF pc[Child] = "ok" THEN "rest" ELSE "down"
    /\ pc' = [pc EXCEPT ![Child] = "off"]
    /\ UNCHANGED <<storeVars, taken, cand, queue, troubles, orphans>>

\* Stage s3 starts from the items done in s1 and in s2.
Rest ==
    /\ phase = "rest"
    /\ taken' = taken \cup (done[Crop] \cap done[Filter])
    /\ phase' = "down"
    /\ UNCHANGED <<storeVars, childVars, troubles, orphans>>

Running(c) == pc[c] \in Points

\* The program is killed; its child dies with it, or goes on by itself.
Crash ==
    /\ phase # "down" /\ Trouble
    /\ phase' = "down"
    /\ \/ /\ pc' = [pc EXCEPT ![Child] = "off"]
          /\ UNCHANGED <<cand, queue, orphans>>
       \/ /\ Running(Child) /\ pc[Orphan] = "off"
          /\ orphans < MaxOrphans /\ orphans' = orphans + 1
          /\ pc' = [pc EXCEPT ![Child] = "off", ![Orphan] = pc[Child]]
          /\ cand' = [cand EXCEPT ![Orphan] = cand[Child]]
          /\ queue' = [queue EXCEPT ![Orphan] = queue[Child]]
    /\ UNCHANGED <<storeVars, taken>>

ChildDies(c) ==
    /\ Running(c) /\ Trouble
    /\ pc' = [pc EXCEPT ![c] = "off"]
    /\ UNCHANGED <<storeVars, phase, taken, cand, queue, orphans>>

----------------------------------------------------------------------------
(* The child: SharpnessFilterNode.__init__.                                *)

unchangedParent == UNCHANGED <<phase, taken, orphans>>

Go(c, point) == pc' = [pc EXCEPT ![c] = point]

\* Nobody waits for the result of an orphan.
Exit(c, result) == Go(c, IF c = Orphan THEN "off" ELSE result)

\* Mutant: an empty selection with a marker is taken as final.
BootTrustsMarker(c) ==
    /\ pc[c] = "boot"
    /\ tables' = TRUE
    /\ Go(c, IF marker THEN "ready" ELSE "probe")
    /\ UNCHANGED <<progressVars, selection, marker, cand, queue>>
    /\ NoTrouble /\ unchangedParent

\* The marker counts unless the selection is empty though s1 has items.
Boot(c) ==
    /\ pc[c] = "boot"
    /\ tables' = TRUE
    /\ LET trusted == marker /\ ~(selection = {} /\ done[Crop] # {})
       IN  /\ marker' = trusted
           /\ Go(c, IF trusted THEN "ready" ELSE "probe")
    /\ UNCHANGED <<progressVars, selection, cand, queue>>
    /\ NoTrouble /\ unchangedParent

\* Anything left of an earlier run?
Probe(c) ==
    /\ pc[c] = "probe" /\ tables
    /\ Go(c, IF Processable(Filter) = {} /\ errors[Filter] = {} /\ selection = {}
             THEN "ready" ELSE "wipe")
    /\ UNCHANGED <<storeVars, cand, queue>>
    /\ NoTrouble /\ unchangedParent

Wipe(c) ==
    /\ pc[c] = "wipe"
    /\ selection' = {}
    /\ Go(c, "unlink")
    /\ UNCHANGED <<progressVars, marker, tables, cand, queue>>
    /\ NoTrouble /\ unchangedParent

\* The progress databases are deleted, in one step here (a part of them left by
\* a crash is found by the next Probe like all of them); a connection to one made before the new
\* ItemProgress finds no table in it.
Unlink(c) ==
    /\ pc[c] = "unlink"
    /\ done' = [done EXCEPT ![Filter] = {}]
    /\ skipped' = [skipped EXCEPT ![Filter] = {}]
    /\ errors' = [errors EXCEPT ![Filter] = {}]
    /\ tables' = FALSE
    /\ Go(c, "recreate")
    /\ UNCHANGED <<selection, marker, cand, queue>>
    /\ NoTrouble /\ unchangedParent

Recreate(c) ==
    /\ pc[c] = "recreate"
    /\ tables' = TRUE
    /\ Go(c, "ready")
    /\ UNCHANGED <<progressVars, selection, marker, cand, queue>>
    /\ NoTrouble /\ unchangedParent

----------------------------------------------------------------------------
(* The child: ready_items, _ensure_selection_materialized and the batch.   *)

\* The dependency's is_complete() is that of the proxy of s1: always true.
Ready(c) ==
    /\ pc[c] = "ready"
    /\ IF marker THEN Go(c, "list") /\ UNCHANGED cand
       ELSE Go(c, "clear") /\ cand' = [cand EXCEPT ![c] = done[Crop]]
    /\ UNCHANGED <<storeVars, queue>>
    /\ NoTrouble /\ unchangedParent

Clear(c) ==
    /\ pc[c] = "clear"
    /\ selection' = {}
    /\ Go(c, "update")
    /\ UNCHANGED <<progressVars, marker, tables, cand, queue>>
    /\ NoTrouble /\ unchangedParent

Update(c) ==
    /\ pc[c] = "update"
    /\ selection' = selection \cup Top(cand[c])
    /\ Go(c, "mark")
    /\ UNCHANGED <<progressVars, marker, tables, cand, queue>>
    /\ NoTrouble /\ unchangedParent

Mark(c) ==
    /\ pc[c] = "mark"
    /\ marker' = TRUE
    /\ Go(c, "list")
    /\ UNCHANGED <<progressVars, selection, tables, cand, queue>>
    /\ NoTrouble /\ unchangedParent

List(c) ==
    /\ pc[c] = "list" /\ tables
    /\ queue' = [queue EXCEPT ![c] = selection \ Processable(Filter)]
    /\ Go(c, "item")
    /\ UNCHANGED <<storeVars, cand>>
    /\ NoTrouble /\ unchangedParent

\* The item at work: the batch is sorted.
Current(c) == {i \in queue[c] : \A j \in queue[c] : i <= j}

Advance(c, i) ==
    /\ queue' = [queue EXCEPT ![c] = @ \ {i}]
    /\ Go(c, "item")

\* process() does nothing; mark_done is its two transactions.
MarkDoneAdd(c) ==
    /\ pc[c] = "item" /\ tables
    /\ \E i \in Current(c) : DoneAdd(Filter, i)
    /\ Go(c, "clearing")
    /\ UNCHANGED <<selection, marker, tables, cand, queue>>
    /\ NoTrouble /\ unchangedParent

MarkDoneClear(c) ==
    /\ pc[c] = "clearing" /\ tables
    /\ \E i \in Current(c) : ErrorsDelete(Filter, i) /\ Advance(c, i)
    /\ UNCHANGED <<selection, marker, tables, cand>>
    /\ NoTrouble /\ unchangedParent

MarkFailed(c) ==
    /\ pc[c] = "fail" /\ tables
    /\ \E i \in Current(c) : ErrorsSet(Filter, i) /\ Advance(c, i)
    /\ UNCHANGED <<selection, marker, tables, cand>>
    /\ NoTrouble /\ unchangedParent

BatchDone(c) ==
    /\ pc[c] = "item" /\ queue[c] = {}
    /\ Exit(c, "ok")
    /\ UNCHANGED <<storeVars, cand, queue>>
    /\ NoTrouble /\ unchangedParent

\* Mutant: what fails after the last item is taken for a failure of an item.
InItemAlways(c) == pc[c] \in {"item", "clearing"}

InItem(c) == pc[c] = "clearing" \/ (pc[c] = "item" /\ queue[c] # {})

\* A call raises: its tables are gone, or SQLite or the file system fails.  In
\* _run_one, without fail_fast, that fails the item; elsewhere it ends the child.
Raise(c) ==
    /\ Running(c)
    /\ \/ ~tables /\ NoTrouble /\ (InItem(c) \/ pc[c] \in {"probe", "list", "fail"})
       \/ Trouble
    /\ \/ Exit(c, "err")
       \/ InItem(c) /\ Go(c, "fail")
    /\ UNCHANGED <<storeVars, cand, queue>>
    /\ unchangedParent

ChildStep(c) ==
    \/ Boot(c) \/ Probe(c) \/ Wipe(c) \/ Unlink(c) \/ Recreate(c)
    \/ Ready(c) \/ Clear(c) \/ Update(c) \/ Mark(c) \/ List(c)
    \/ MarkDoneAdd(c) \/ MarkDoneClear(c) \/ MarkFailed(c) \/ BatchDone(c) \/ Raise(c)

\* The operator has what he wants.
Stopped == phase = "down" /\ taken = Ranking /\ UNCHANGED vars

Next ==
    \/ Launch \/ CropItem \/ StartFilter \/ JoinChild \/ Rest \/ Crash
    \/ \E c \in Children : ChildStep(c) \/ ChildDies(c)
    \/ Stopped

Spec == Init /\ [][Next]_vars

\* Processes that run go on, orphans too, and the operator starts the program
\* again until every item of the ranking went on.
Fairness ==
    /\ WF_vars(Launch) /\ WF_vars(CropItem) /\ WF_vars(StartFilter)
    /\ WF_vars(JoinChild) /\ WF_vars(Rest)
    /\ \A c \in Children : WF_vars(ChildStep(c))

FairSpec == Spec /\ Fairness

----------------------------------------------------------------------------
(* Properties. *)

\* The later stages only ever see items of one ranking, that of the complete
\* s1 output ("ranks the whole candidate pool once", s2:90-97), although
\* nothing in the child checks that s1 is complete, through crashes, restarts
\* and two children at work on the same files.
OnlyRankedItems ==
    /\ selection \in {{}, Ranking}
    /\ done[Filter] \cup taken \subseteq Ranking

\* Unless a child was left behind, stage s3 starts only when s2 has decided all
\* of the ranking: done, or failed and to be retried.
RestSeesWholeRanking ==
    [][ phase = "filter" /\ phase' = "rest" /\ orphans = 0 =>
            Ranking \subseteq done[Filter] \cup errors[Filter] ]_vars

\* Whatever two children did to each other's files, started often enough the
\* program gets every item of the ranking to the later stages.
EventuallyFiltered == <>[](taken = Ranking)
=============================================================================
