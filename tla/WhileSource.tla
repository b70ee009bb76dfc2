----------------------------- MODULE WhileSource -----------------------------
(***************************************************************************)
(* The coordinator of ParallelWhileSourceNode without a GPU pool           *)
(* (pipeline/node.py): one unit after the other (n_unit_workers <= 1, the  *)
(* loop of WhileSourceNode.run as well), or a window of compute futures    *)
(* whose results are committed in unit order.  Commits, checkpoint and     *)
(* restart are those of UnitCommit.                                        *)
(***************************************************************************)
EXTENDS UnitCommit

CONSTANT UnitWorkers   \* the values of n_unit_workers the program is started with

ASSUME WindowAssumption == UnitWorkers \subseteq Nat \ {0}

VARIABLES
    futures,   \* the submitted, not yet awaited computations of this cycle
    nextI,     \* the next unit to submit
    streak,    \* _unit_fail_streak, in memory only
    failFast,
    nWorkers   \* _n_unit_workers of this run

windowVars == <<futures, nextI, streak, failFast, nWorkers>>
vars == <<commitVars, windowVars>>

Serial == nWorkers <= 1

TypeOK ==
    /\ CommitTypeOK
    /\ futures \in UNION {[S -> {"running", "ok", "error"}] : S \in SUBSET UnitIdx}
    /\ nextI \in 0 .. NUnits
    /\ streak \in [UnitIdx -> 0 .. MaxStreak]
    /\ failFast \in BOOLEAN
    /\ nWorkers \in UnitWorkers \cup {1}

NoStreak == [u \in UnitIdx |-> 0]

Init ==
    /\ CommitInit
    /\ futures = <<>> /\ nextI = 0
    /\ streak = NoStreak /\ failFast = FALSE /\ nWorkers = 1

----------------------------------------------------------------------------
(* submit_until_full: with `open` still to be awaited and unit n next, the *)
(* pool gets units n, n+1, .. until w of them are open.                    *)

\* Mutant: one future too many.
SubmitEndOneMore(w, open, n) ==
    LET room == n + w + 1 - Cardinality(DOMAIN open)
    IN IF room < NUnits THEN room ELSE NUnits

SubmitEnd(w, open, n) ==
    LET room == n + w - Cardinality(DOMAIN open)
    IN IF room < NUnits THEN room ELSE NUnits

SubmitUntilFull(w, open, n) ==
    [i \in DOMAIN open \cup n .. SubmitEnd(w, open, n) - 1 |->
        IF i \in DOMAIN open THEN open[i] ELSE "running"]

CloseWindow == futures' = <<>> /\ nextI' = 0

\* The window at the start of a cycle; the serial loop submits nothing.
OpenWindow(w, n) ==
    IF w <= 1 THEN CloseWindow
    ELSE futures' = SubmitUntilFull(w, <<>>, n) /\ nextI' = SubmitEnd(w, <<>>, n)

Launch ==
    /\ Resume
    /\ nWorkers' \in UnitWorkers
    /\ OpenWindow(nWorkers', idx')
    /\ streak' = NoStreak
    /\ failFast' \in BOOLEAN

ForgetWindow == CloseWindow /\ streak' = NoStreak /\ failFast' = FALSE /\ nWorkers' = 1

\* run() ends; the executor waits for or cancels what is left, to no effect.
Leave ==
    /\ Exit
    /\ ForgetWindow

\* Mutant: the loop condition is off by one.
TargetPassed ==
    /\ At("loop") /\ produced > Target
    /\ Leave
    /\ UNCHANGED <<durableVars, missed, used>>

TargetReached ==
    /\ At("loop") /\ produced >= Target
    /\ Leave
    /\ UNCHANGED <<durableVars, missed, used>>

NextCycle ==
    /\ At("loop") /\ produced < Target /\ idx = NUnits
    /\ cycle < MaxCycle
    /\ cycle' = cycle + 1 /\ idx' = 0
    /\ OpenWindow(nWorkers, 0)
    /\ UNCHANGED <<durableVars, pc, batch, produced, missed, used, streak, failFast, nWorkers>>

----------------------------------------------------------------------------
(* Computing a unit.                                                       *)

InCycle == At("loop") /\ produced < Target /\ idx < NUnits

\* process_unit computes in place.
ComputeInPlace ==
    /\ Serial /\ InCycle
    /\ \/ pc' = "select" /\ UNCHANGED used
       \/ pc' = "raised" /\ Spend("raise")
    /\ UNCHANGED <<durableVars, loopVars, missed, windowVars>>

\* A pool thread finishes compute_unit, whatever the coordinator is doing.
ComputeAhead(i) ==
    /\ i \in DOMAIN futures /\ futures[i] = "running"
    /\ \/ futures' = [futures EXCEPT ![i] = "ok"] /\ UNCHANGED used
       \/ futures' = [futures EXCEPT ![i] = "error"] /\ Spend("raise")
    /\ UNCHANGED <<durableVars, pc, loopVars, missed, nextI, streak, failFast, nWorkers>>

\* Mutant: take whichever result is there, and commit that unit.
AwaitAny ==
    /\ ~Serial /\ InCycle
    /\ \E i \in DOMAIN futures :
        /\ futures[i] # "running"
        /\ pc' = IF futures[i] = "ok" THEN "select" ELSE "raised"
        /\ futures' = [j \in DOMAIN futures \ {i} |-> futures[j]]
        /\ idx' = i
    /\ UNCHANGED <<durableVars, cycle, batch, produced, missed, used, nextI, streak, failFast, nWorkers>>

\* futures.pop(i), future.result().
Await ==
    /\ ~Serial /\ InCycle
    /\ futures[idx] # "running"
    /\ pc' = IF futures[idx] = "ok" THEN "select" ELSE "raised"
    /\ futures' = [i \in DOMAIN futures \ {idx} |-> futures[i]]
    /\ UNCHANGED <<durableVars, loopVars, missed, used, nextI, streak, failFast, nWorkers>>

----------------------------------------------------------------------------
(* The end of one iteration.                                               *)

\* Submit more if the target is not reached, and go to the next unit.
NextUnit ==
    /\ pc' = "loop" /\ idx' = idx + 1
    /\ IF Serial \/ produced >= Target THEN UNCHANGED <<futures, nextI>>
       ELSE /\ futures' = SubmitUntilFull(nWorkers, futures, nextI)
            /\ nextI' = SubmitEnd(nWorkers, futures, nextI)
    /\ batch' = {}
    /\ UNCHANGED <<cycle, produced, failFast, nWorkers>>

Committed ==
    /\ At("next")
    /\ NextUnit
    /\ UNCHANGED <<durableVars, missed, used, streak>>

\* Mutants: the streak is compared one failure early, or late.
StreakUpEarly(u) == streak[u] + 2 >= MaxStreak
StreakUpLate(u) == streak[u] >= MaxStreak

StreakUp(u) == streak[u] + 1 >= MaxStreak

\* except: with fail_fast the exception goes on; else the unit is marked failed
\* and skipped until the next cycle, unless its streak is up.
UnitFailed ==
    /\ At("raised")
    /\ missed' = missed \cup {<<cycle, idx>>}
    /\ errors' = IF failFast THEN errors ELSE errors \cup {idx}
    /\ IF failFast \/ StreakUp(idx) THEN Leave
       ELSE streak' = [streak EXCEPT ![idx] = @ + 1] /\ NextUnit
    /\ UNCHANGED <<storeVars, done, ckptVars, used>>

\* mark_failed itself raises, in the except clause.
UnitFailedFault ==
    /\ At("raised") /\ ~failFast
    /\ Spend("fault")
    /\ missed' = missed \cup {<<cycle, idx>>}
    /\ Leave
    /\ UNCHANGED durableVars

\* The streak is popped right after the error is cleared.
Commit ==
    /\ CommitStep
    /\ streak' = IF At("clear") THEN [streak EXCEPT ![idx] = 0] ELSE streak
    /\ UNCHANGED <<futures, nextI, failFast, nWorkers>>

CommitFault == Fault /\ UNCHANGED windowVars

Crash == Killed /\ ForgetWindow

\* Nothing is left to do once the bound on runs is spent.
Stopped == At("down") /\ used["run"] = MaxRuns /\ UNCHANGED vars

Next ==
    \/ Launch \/ TargetReached \/ NextCycle
    \/ ComputeInPlace \/ Await \/ Commit
    \/ \E i \in UnitIdx : ComputeAhead(i)
    \/ Committed \/ UnitFailed \/ UnitFailedFault
    \/ CommitFault \/ Crash
    \/ Stopped

Spec == Init /\ [][Next]_vars

Fairness ==
    /\ WF_vars(Launch) /\ WF_vars(TargetReached) /\ WF_vars(NextCycle)
    /\ WF_vars(ComputeInPlace) /\ WF_vars(Await) /\ WF_vars(Commit)
    /\ \A i \in UnitIdx : WF_vars(ComputeAhead(i))
    /\ WF_vars(Committed) /\ WF_vars(UnitFailed)

FairSpec == Spec /\ Fairness

----------------------------------------------------------------------------
(* Properties. *)

\* The awaited unit has been submitted (futures.pop(i) raises KeyError else),
\* and no more than nWorkers are in flight.
WindowFollowsLoop ==
    ~Serial /\ At("loop") /\ produced < Target =>
        /\ DOMAIN futures = idx .. nextI - 1
        /\ idx < NUnits => idx \in DOMAIN futures
        /\ Cardinality(DOMAIN futures) <= nWorkers

\* The stage is given up only when one unit failed in MaxStreak cycles on end
\* (node.py:473-482).
AbortNeedsStreak ==
    [][ At("raised") /\ ~failFast /\ pc' = "down" /\ UNCHANGED used =>
            \A k \in 0 .. MaxStreak - 1 : <<cycle - k, idx>> \in missed' ]_vars
=============================================================================
