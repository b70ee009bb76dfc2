----------------------------- MODULE UnitCommit -----------------------------
(***************************************************************************)
(* The durable half of a while-source: what committing one computed        *)
(* (cycle, unit) does to the stores of PatchCropNode, to its progress and  *)
(* to the resume checkpoint, one transaction at a time.  The drivers of    *)
(* pipeline/node.py (serial, thread window, GPU batches) extend this.      *)
(***************************************************************************)
EXTENDS Integers, FiniteSets

CONSTANTS NUnits, MaxCycle, Yield, Target,
          MaxStreak,   \* max_consecutive_unit_failures
          NoCkpt,      \* a checkpoint key that was never written
          MaxRuns, MaxCrashes,
          MaxRaises,   \* bound: how often computing a unit raises
          MaxFaults    \* bound: how often a store write raises

VARIABLES
    lins, dpts, defs,    \* PatchStore: two LMDB stores, the definitions table
    sharp,               \* SharpnessStore
    done, errors,        \* ItemProgress; errors is keyed by unit here
    ckCycle, ckUnit,     \* the two keys of cycle_checkpoint.db
    pc,                  \* where the coordinator is
    cycle, idx,          \* the loop position: units[idx] of this cycle
    batch,               \* to_commit
    produced,            \* the coordinator's last count of done items
    missed,              \* history: the (cycle, unit) attempts that raised
    used                 \* how much of each bound is spent

storeVars == <<lins, dpts, defs, sharp>>
ckptVars == <<ckCycle, ckUnit>>
durableVars == <<storeVars, done, errors, ckptVars>>
loopVars == <<cycle, idx, batch, produced>>
commitVars == <<durableVars, pc, loopVars, missed, used>>

P == INSTANCE UnitProduction WITH produced <- done

Cycles == P!Cycles
UnitIdx == P!UnitIdx

ASSUME CommitAssumption ==
    /\ P!ProductionParams
    /\ MaxStreak \in Nat \ {0}
    /\ NoCkpt \notin Int
    /\ {MaxRuns, MaxCrashes, MaxRaises, MaxFaults} \subseteq Nat

Bounds == [run |-> MaxRuns, crash |-> MaxCrashes, raise |-> MaxRaises, fault |-> MaxFaults]

Spend(k) == used[k] < Bounds[k] /\ used' = [used EXCEPT ![k] = @ + 1]

\* One point before each write of commit_unit and of the loop after it.
CommitPC == {"lins", "dpts", "defs", "sharp", "done", "viz",
             "ckCycle", "ckUnit", "clear", "count"}

\* "collect" and "pick" are the GPU driver's.
PC == CommitPC \cup {"down", "loop", "select", "raised", "next", "collect", "pick"}

CommitTypeOK ==
    /\ {lins, dpts, defs, sharp, done, batch} \subseteq SUBSET P!AllItems
    /\ errors \subseteq UnitIdx
    /\ ckCycle \in Cycles \cup {NoCkpt}
    /\ ckUnit \in (1 .. NUnits) \cup {NoCkpt}
    /\ pc \in PC
    /\ cycle \in Cycles /\ idx \in 0 .. NUnits
    /\ pc \in CommitPC \cup {"select", "raised", "next"} => idx < NUnits
    /\ produced \in Nat
    /\ missed \subseteq Cycles \X UnitIdx
    /\ used \in [DOMAIN Bounds -> Nat]

CommitInit ==
    /\ lins = {} /\ dpts = {} /\ defs = {} /\ sharp = {}
    /\ done = {} /\ errors = {}
    /\ ckCycle = NoCkpt /\ ckUnit = NoCkpt
    /\ pc = "down" /\ cycle = 0 /\ idx = 0 /\ batch = {} /\ produced = 0
    /\ missed = {}
    /\ used = [k \in DOMAIN Bounds |-> 0]

----------------------------------------------------------------------------
(* WhileSourceNode.run, first lines: the checkpoint and the count.         *)

HasCkpt == ckCycle # NoCkpt /\ ckUnit # NoCkpt

\* Mutant: take the checkpoint's cycle for a finished one.
ResumeNextCycle ==
    /\ pc = "down"
    /\ Spend("run")
    /\ cycle' = IF HasCkpt /\ ckCycle < MaxCycle THEN ckCycle + 1 ELSE 0
    /\ idx' = IF HasCkpt THEN ckUnit ELSE 0
    /\ produced' = Cardinality(done)
    /\ pc' = "loop"
    /\ UNCHANGED <<durableVars, batch, missed>>

Resume ==
    /\ pc = "down"
    /\ Spend("run")
    /\ cycle' = IF HasCkpt THEN ckCycle ELSE 0
    /\ idx' = IF HasCkpt THEN ckUnit ELSE 0
    /\ produced' = Cardinality(done)
    /\ pc' = "loop"
    /\ UNCHANGED <<durableVars, batch, missed>>

----------------------------------------------------------------------------
(* PatchCropNode.commit_unit.                                              *)

At(point) == pc = point

GoTo(point) == pc' = point /\ UNCHANGED <<loopVars, missed, used>>

\* Mutant: the budget is taken from the count of the last unit that went well.
ToCommitStale == P!FirstOf(P!ItemsOf(cycle, idx) \ done, Target - produced)

\* The budget is read from done.db; items already done are passed over.
ToCommit == P!FirstOf(P!ItemsOf(cycle, idx) \ done, Target - Cardinality(done))

Select ==
    /\ At("select")
    /\ batch' = ToCommit
    /\ pc' = IF batch' = {} THEN "ckCycle" ELSE "lins"
    /\ UNCHANGED <<durableVars, cycle, idx, produced, missed, used>>

PutLins ==
    /\ At("lins") /\ lins' = lins \cup batch
    /\ GoTo("dpts")
    /\ UNCHANGED <<dpts, defs, sharp, done, errors, ckptVars>>

PutDpts ==
    /\ At("dpts") /\ dpts' = dpts \cup batch
    /\ GoTo("defs")
    /\ UNCHANGED <<lins, defs, sharp, done, errors, ckptVars>>

\* Mutant: the sharpness scores are left for later.
InsertDefsOnly ==
    /\ At("defs") /\ defs' = defs \cup batch
    /\ GoTo("done")
    /\ UNCHANGED <<lins, dpts, sharp, done, errors, ckptVars>>

\* Rows that exist already are filtered out first: nothing is inserted twice.
InsertDefs ==
    /\ At("defs") /\ defs' = defs \cup batch
    /\ GoTo("sharp")
    /\ UNCHANGED <<lins, dpts, sharp, done, errors, ckptVars>>

InsertSharp ==
    /\ At("sharp") /\ sharp' = sharp \cup batch
    /\ GoTo("done")
    /\ UNCHANGED <<lins, dpts, defs, done, errors, ckptVars>>

\* Mutant: one mark_done per item.
MarkDoneEach ==
    /\ At("done")
    /\ \E x \in batch : done' = done \cup {x}
    /\ IF batch \subseteq done' THEN GoTo("viz") ELSE UNCHANGED <<pc, loopVars, missed, used>>
    /\ UNCHANGED <<storeVars, errors, ckptVars>>

\* progress.mark_done_many: one transaction for the whole batch.
MarkDoneMany ==
    /\ At("done") /\ done' = done \cup batch
    /\ GoTo("viz")
    /\ UNCHANGED <<storeVars, errors, ckptVars>>

\* The preview images come after the progress record.
SaveViz ==
    /\ At("viz")
    /\ GoTo("ckCycle")
    /\ UNCHANGED durableVars

----------------------------------------------------------------------------
(* The loop body after commit_unit: _save_checkpoint is two KVStore.set    *)
(* calls, then the unit's error is cleared and the items are counted.      *)

SaveCkptCycle ==
    /\ At("ckCycle") /\ ckCycle' = cycle
    /\ GoTo("ckUnit")
    /\ UNCHANGED <<storeVars, done, errors, ckUnit>>

\* Mutant: the index of the unit, not of the one after it.
SaveCkptUnitItself ==
    /\ At("ckUnit") /\ ckUnit' = idx
    /\ GoTo("clear")
    /\ UNCHANGED <<storeVars, done, errors, ckCycle>>

SaveCkptUnit ==
    /\ At("ckUnit") /\ ckUnit' = idx + 1
    /\ GoTo("clear")
    /\ UNCHANGED <<storeVars, done, errors, ckCycle>>

\* Mutant: every unit's error is cleared.
ClearFailedAll ==
    /\ At("clear") /\ errors' = {}
    /\ GoTo("count")
    /\ UNCHANGED <<storeVars, done, ckptVars>>

ClearFailed ==
    /\ At("clear") /\ errors' = errors \ {idx}
    /\ GoTo("count")
    /\ UNCHANGED <<storeVars, done, ckptVars>>

Count ==
    /\ At("count")
    /\ produced' = Cardinality(done)
    /\ pc' = "next"
    /\ UNCHANGED <<durableVars, cycle, idx, batch, missed, used>>

\* A store write, a preview or the count raises, leaving what came before it.
Fault ==
    /\ pc \in CommitPC
    /\ Spend("fault")
    /\ pc' = "raised"
    /\ UNCHANGED <<durableVars, loopVars, missed>>

CommitStep ==
    \/ Select \/ PutLins \/ PutDpts \/ InsertDefs \/ InsertSharp
    \/ MarkDoneMany \/ SaveViz
    \/ SaveCkptCycle \/ SaveCkptUnit \/ ClearFailed \/ Count

----------------------------------------------------------------------------

\* run() returns or raises: the process, and what it knew, is gone.
Exit ==
    /\ pc' = "down" /\ cycle' = 0 /\ idx' = 0 /\ batch' = {} /\ produced' = 0

\* The process is killed.
Killed ==
    /\ pc # "down"
    /\ Spend("crash")
    /\ Exit
    /\ UNCHANGED <<durableVars, missed>>
----------------------------------------------------------------------------
(* Properties every driver has to keep. *)

\* Whatever is recorded done has its sharpness row, its definition, its depth
\* and its linear patch: later stages load them by id and would raise KeyError
\* (s1_patch_crop.py:412-422 against the loads of s2 to s6).
StoresNested == done \subseteq sharp /\ sharp \subseteq defs /\ defs \subseteq dpts /\ dpts \subseteq lins

\* "until exactly n_patches_total patches are stored" (s1_patch_crop.py:305-306),
\* through retries after a fault, whose count of done items is stale.
NeverOvershoots == Cardinality(done) <= Target

\* The items appear as the abstract production says: one whole unit at a time,
\* cut short only by the target, whatever is interrupted and repeated.
ImplementsProduction == P!ProductionSpec

\* The attempts behind the loop position that neither committed their unit nor
\* raised: their items are never produced.
Passed(c, u) == c < cycle \/ (c = cycle /\ u < idx)
Whole(c, u) == P!ItemsOf(c, u) \subseteq done \/ Cardinality(done) >= Target
Lost == {cu \in Cycles \X UnitIdx :
            Passed(cu[1], cu[2]) /\ ~Whole(cu[1], cu[2]) /\ cu \notin missed}

\* Restart skips only units that completed (node.py:322-325, "the last
\* successfully completed unit ... skips already-completed units").
NoUnitLost == Lost = {}

\* What the two-key checkpoint costs: a crash or a fault between its two writes
\* may lose the rest of one cycle, never more, and never its first unit.
LossIsBounded ==
    /\ Cardinality(Lost) <= (NUnits - 1) * (used["crash"] + used["fault"])
    /\ \A cu \in Lost : cu[2] # 0

\* The produced set does not depend on the schedule (node.py:555-557, :578-581):
\* an item appears after every earlier one, those of failed attempts excepted
\* (and those an interruption loses, LossIsBounded).
Earlier(y, x) ==
    \/ y[1] < x[1]
    \/ y[1] = x[1] /\ (y[2] < x[2] \/ (y[2] = x[2] /\ y[3] < x[3]))

ProducedInOrder ==
    used["crash"] + used["fault"] = 0 =>
        \A x \in done, y \in P!AllItems \ done : Earlier(y, x) => <<y[1], y[2]>> \in missed

\* In one run no unit fails MaxStreak cycles on end without ending the stage
\* (node.py:473-482, "failed {streak} times in a row ... aborting stage"); a
\* store fault may come after the streak was reset, and is left out.
StreakEndsStage ==
    used["run"] = 1 /\ used["fault"] = 0 /\ At("loop") =>
        \A u \in UnitIdx, c \in Cycles :
            \E k \in 0 .. MaxStreak - 1 : <<c - k, u>> \notin missed

\* errors.db lists a unit whose last attempt behind the loop position raised
\* (node.py:469-471, "Record so errors.db / progress.stats()['failed'] reflect
\* the failure"; later attempts that go well take it off the list again).
LastFailureListed ==
    used["run"] = 1 /\ At("loop") =>
        \A cu \in missed :
            \/ \E c \in cu[1] + 1 .. MaxCycle : Passed(c, cu[2])
            \/ cu[2] \in errors

\* With more runs than interruptions the target is reached, and kept.
EventuallyExact == <>[](At("down") /\ Cardinality(done) = Target)
=============================================================================
