------------------------------ MODULE GpuSource ------------------------------
(***************************************************************************)
(* The coordinator of ParallelWhileSourceNode with a GPU pool              *)
(* (_run_gpu_pool, pipeline/node.py), the driver of the production         *)
(* pipeline: batches of attempts that may span cycles are computed in any  *)
(* order, and their results are committed in attempt order.  The pool      *)
(* itself is GpuPool; here every task comes back.                          *)
(***************************************************************************)
EXTENDS UnitCommit

CONSTANT Batch   \* len(devices) * _gpu_batch_mult

ASSUME BatchAssumption == Batch \in Nat \ {0}

VARIABLES
    pending,   \* the attempts of this batch whose output is still to come
    results,   \* the outputs that came, to be committed
    ahead,     \* the first attempt after this batch
    failFast

poolVars == <<pending, results, ahead, failFast>>
vars == <<commitVars, poolVars>>

\* Attempts are numbered through the cycles.
Number(c, u) == c * NUnits + u
Attempts == 0 .. Number(MaxCycle, NUnits) - 1
CycleOf(n) == n \div NUnits
UnitOf(n) == n % NUnits

TypeOK ==
    /\ CommitTypeOK
    /\ pending \subseteq Attempts /\ results \subseteq Attempts
    /\ ahead \in 0 .. Number(MaxCycle, NUnits)
    /\ failFast \in BOOLEAN
    /\ pending # {} => pc \in {"collect", "down"}

Init ==
    /\ CommitInit
    /\ pending = {} /\ results = {} /\ ahead = 0 /\ failFast = FALSE

Launch ==
    /\ Resume
    /\ failFast' \in BOOLEAN
    /\ UNCHANGED <<pending, results, ahead>>

\* pool.close and pool.join: what the pool still computes goes nowhere.
Leave ==
    /\ Exit
    /\ pending' = {} /\ results' = {} /\ ahead' = 0 /\ failFast' = FALSE

\* Mutant: the loop condition is off by one.
TargetPassed ==
    /\ At("loop") /\ produced > Target
    /\ Leave
    /\ UNCHANGED <<durableVars, missed, used>>

TargetReached ==
    /\ At("loop") /\ produced >= Target
    /\ Leave
    /\ UNCHANGED <<durableVars, missed, used>>

----------------------------------------------------------------------------
(* One batch.                                                              *)

\* The next Batch attempts, into the next cycles if need be (bound: MaxCycle).
BuildBatch ==
    /\ At("loop") /\ produced < Target
    /\ LET from == Number(cycle, idx) IN
        /\ from + Batch <= Number(MaxCycle, NUnits)
        /\ pending' = from .. from + Batch - 1
        /\ ahead' = from + Batch
    /\ results' = {}
    /\ pc' = "collect"
    /\ UNCHANGED <<durableVars, loopVars, missed, used, failFast>>

CollectOk(n) ==
    /\ At("collect") /\ n \in pending
    /\ pending' = pending \ {n}
    /\ results' = results \cup {n}
    /\ UNCHANGED <<commitVars, ahead, failFast>>

\* out.err: marked failed at once, and raised with fail_fast only after that.
CollectError(n) ==
    /\ At("collect") /\ n \in pending
    /\ Spend("raise")
    /\ missed' = missed \cup {<<CycleOf(n), UnitOf(n)>>}
    /\ errors' = errors \cup {UnitOf(n)}
    /\ IF failFast THEN Leave
       ELSE pending' = pending \ {n} /\ UNCHANGED <<pc, loopVars, results, ahead, failFast>>
    /\ UNCHANGED <<storeVars, done, ckptVars>>

\* mark_failed raises: nothing catches it.
CollectFault(n) ==
    /\ At("collect") /\ n \in pending
    /\ Spend("fault")
    /\ missed' = missed \cup {<<CycleOf(n), UnitOf(n)>>}
    /\ Leave
    /\ UNCHANGED durableVars

Collected ==
    /\ At("collect") /\ pending = {}
    /\ pc' = "pick"
    /\ UNCHANGED <<durableVars, loopVars, missed, used, poolVars>>

First(n) == n \in results /\ \A k \in results : n <= k

\* Mutant: results are committed as they come.
PickAny(n) ==
    /\ At("pick") /\ produced < Target
    /\ n \in results
    /\ cycle' = CycleOf(n) /\ idx' = UnitOf(n)
    /\ results' = results \ {n}
    /\ pc' = "select"
    /\ UNCHANGED <<durableVars, batch, produced, missed, used, pending, ahead, failFast>>

\* The commit loop passes over the attempts that failed.
Pick(n) ==
    /\ At("pick") /\ produced < Target
    /\ First(n)
    /\ cycle' = CycleOf(n) /\ idx' = UnitOf(n)
    /\ results' = results \ {n}
    /\ pc' = "select"
    /\ UNCHANGED <<durableVars, batch, produced, missed, used, pending, ahead, failFast>>

Commit == CommitStep /\ UNCHANGED poolVars

Committed ==
    /\ At("next")
    /\ pc' = "pick" /\ idx' = idx + 1 /\ batch' = {}
    /\ UNCHANGED <<durableVars, cycle, produced, missed, used, poolVars>>

\* Mutant: the next batch starts one attempt late.
BatchOverLate ==
    /\ At("pick") /\ (produced >= Target \/ results = {})
    /\ cycle' = IF ahead + 1 < Number(MaxCycle, NUnits) THEN CycleOf(ahead + 1) ELSE MaxCycle
    /\ idx' = ahead + 1 - Number(cycle', 0)
    /\ results' = {}
    /\ pc' = "loop"
    /\ UNCHANGED <<durableVars, batch, produced, missed, used, pending, ahead, failFast>>

\* The tasks are used up, or the target is reached; unit_start is past them.
BatchOver ==
    /\ At("pick") /\ (produced >= Target \/ results = {})
    /\ cycle' = IF ahead < Number(MaxCycle, NUnits) THEN CycleOf(ahead) ELSE MaxCycle
    /\ idx' = ahead - Number(cycle', 0)
    /\ results' = {}
    /\ pc' = "loop"
    /\ UNCHANGED <<durableVars, batch, produced, missed, used, pending, ahead, failFast>>

CommitFault == Fault /\ UNCHANGED poolVars

\* No except clause: whatever the commit raises ends the run, fail_fast or not.
Abort ==
    /\ At("raised")
    /\ Leave
    /\ UNCHANGED <<durableVars, missed, used>>

Crash ==
    /\ Killed
    /\ pending' = {} /\ results' = {} /\ ahead' = 0 /\ failFast' = FALSE

\* Nothing is left to do once the bound on runs is spent.
Stopped == At("down") /\ used["run"] = MaxRuns /\ UNCHANGED vars

Next ==
    \/ Launch \/ TargetReached \/ BuildBatch
    \/ \E n \in Attempts : CollectOk(n) \/ CollectError(n) \/ CollectFault(n) \/ Pick(n)
    \/ Collected \/ Commit \/ Committed \/ BatchOver
    \/ CommitFault \/ Abort \/ Crash
    \/ Stopped

Spec == Init /\ [][Next]_vars

Fairness ==
    /\ WF_vars(Launch) /\ WF_vars(TargetReached) /\ WF_vars(BuildBatch)
    /\ \A n \in Attempts : WF_vars(CollectOk(n)) /\ WF_vars(Pick(n))
    /\ WF_vars(Collected) /\ WF_vars(Commit) /\ WF_vars(Committed)
    /\ WF_vars(BatchOver) /\ WF_vars(Abort)

FairSpec == Spec /\ Fairness
=============================================================================
