--------------------------- MODULE WhileSourceProofs ---------------------------
(***************************************************************************)
(* Theorems about WhileSource for every number of units, cycles, workers   *)
(* and interruptions: the invariant of UnitCommitProofs holds in every     *)
(* reachable state, whatever the coordinator does between two commits.     *)
(***************************************************************************)
EXTENDS WhileSource, UnitCommitProofs

\* Leaving a run writes nothing.
LEMMA LeaveKeeps ==
    ASSUME CommitInv, Exit, UNCHANGED <<storeVars, done, ckptVars>>, errors' \subseteq UnitIdx,
           missed' \subseteq Cycles \X UnitIdx, used' \in [DOMAIN Bounds -> Nat]
    PROVE  CommitInv'
<1>1. CommitTypeOK'
  BY Params DEF CommitInv, CommitTypeOK, Exit, storeVars, ckptVars, PC, CommitPC
<1> QED BY <1>1, KeepsOutside DEF Exit, WritePC

\* Going on to the next unit writes nothing.
LEMMA NextUnitKeeps ==
    ASSUME CommitInv, NextUnit, pc \in {"raised", "next"}, UNCHANGED <<storeVars, done, ckptVars>>,
           errors' \subseteq UnitIdx, missed' \subseteq Cycles \X UnitIdx,
           used' \in [DOMAIN Bounds -> Nat]
    PROVE  CommitInv'
<1>1. idx' \in 0 .. NUnits
  BY Params DEF CommitInv, CommitTypeOK, NextUnit
<1>2. CommitTypeOK'
  BY <1>1 DEF CommitInv, CommitTypeOK, NextUnit, storeVars, ckptVars, PC, CommitPC
<1> QED BY <1>2, KeepsOutside DEF NextUnit, WritePC

LEMMA CommitInvHolds == Spec => []CommitInv
<1>1. Init => CommitInv
  BY CommitInvInit DEF Init
<1>2. CommitInv /\ [Next]_vars => CommitInv'
  <2> SUFFICES ASSUME CommitInv, [Next]_vars PROVE CommitInv'
    OBVIOUS
  <2> USE DEF At, durableVars, storeVars, ckptVars, loopVars, windowVars
  <2>a. CommitTypeOK
    BY DEF CommitInv
  <2>b. ASSUME NEW k \in {"run", "crash", "raise", "fault"}, Spend(k)
        PROVE  used' \in [DOMAIN Bounds -> Nat]
    BY <2>a, <2>b, SpendType, BoundNames DEF CommitTypeOK
  <2>c. ASSUME pc \in {"raised", "next"}
        PROVE  errors \cup {idx} \subseteq UnitIdx /\ missed \cup {<<cycle, idx>>} \subseteq Cycles \X UnitIdx
    <3>1. idx \in UnitIdx /\ cycle \in Cycles
      BY <2>a, <2>c, Params DEF CommitTypeOK
    <3> QED BY <3>1, <2>a DEF CommitTypeOK
  <2>1. CASE Launch
    BY <2>1, ResumeKeeps DEF Launch
  <2>2. CASE TargetReached
    BY <2>2, <2>a, LeaveKeeps DEF TargetReached, Leave, CommitTypeOK
  <2>3. CASE NextCycle
    <3>1. cycle' \in Cycles /\ idx' \in 0 .. NUnits
      BY <2>3, <2>a, Params DEF NextCycle, CommitTypeOK
    <3>2. CommitTypeOK'
      BY <2>3, <3>1, <2>a DEF NextCycle, CommitTypeOK, CommitPC
    <3> QED BY <2>3, <3>2, KeepsOutside DEF NextCycle, WritePC
  <2>4. CASE ComputeInPlace
    <3>1. used' \in [DOMAIN Bounds -> Nat]
      BY <2>4, <2>a, <2>b DEF ComputeInPlace, CommitTypeOK
    <3>2. CommitTypeOK'
      BY <2>4, <3>1, <2>a DEF ComputeInPlace, InCycle, CommitTypeOK, PC, CommitPC
    <3> QED BY <2>4, <3>2, KeepsOutside DEF ComputeInPlace, WritePC
  <2>5. ASSUME NEW i \in UnitIdx, ComputeAhead(i) PROVE CommitInv'
    <3>1. used' \in [DOMAIN Bounds -> Nat]
      BY <2>5, <2>a, <2>b DEF ComputeAhead, CommitTypeOK
    <3> QED
      BY <2>5, <3>1 DEF ComputeAhead, CommitInv, CommitTypeOK, NeverOvershoots, StoresNested,
                        Staged, Selected, ToCommit
  <2>6. CASE Await
    <3>1. CommitTypeOK'
      BY <2>6, <2>a DEF Await, InCycle, CommitTypeOK, PC, CommitPC
    <3> QED BY <2>6, <3>1, KeepsOutside DEF Await, WritePC
  <2>7. CASE Commit
    BY <2>7, CommitStepKeeps DEF Commit
  <2>8. CASE Committed
    BY <2>8, <2>a, NextUnitKeeps DEF Committed, CommitTypeOK
  <2>9. CASE UnitFailed
    <3>1. /\ errors' \subseteq UnitIdx /\ missed' \subseteq Cycles \X UnitIdx
          /\ used' \in [DOMAIN Bounds -> Nat]
      BY <2>9, <2>a, <2>c DEF UnitFailed, CommitTypeOK
    <3>2. CASE Leave
      BY <2>9, <3>1, <3>2, LeaveKeeps DEF UnitFailed, Leave
    <3>3. CASE NextUnit
      BY <2>9, <3>1, <3>3, NextUnitKeeps DEF UnitFailed
    <3> QED BY <2>9, <3>2, <3>3 DEF UnitFailed
  <2>10. CASE UnitFailedFault
    <3>1. /\ errors' \subseteq UnitIdx /\ missed' \subseteq Cycles \X UnitIdx
          /\ used' \in [DOMAIN Bounds -> Nat]
      BY <2>10, <2>a, <2>b, <2>c DEF UnitFailedFault, CommitTypeOK
    <3> QED BY <2>10, <3>1, LeaveKeeps DEF UnitFailedFault, Leave
  <2>11. CASE CommitFault
    BY <2>11, FaultKeeps DEF CommitFault
  <2>12. CASE Crash
    BY <2>12, KilledKeeps DEF Crash
  <2>13. CASE UNCHANGED vars
    BY <2>13 DEF vars, commitVars, CommitInv, CommitTypeOK, NeverOvershoots, StoresNested,
                 Staged, Selected, ToCommit
  <2> QED
    BY <2>1, <2>2, <2>3, <2>4, <2>5, <2>6, <2>7, <2>8, <2>9, <2>10, <2>11, <2>12, <2>13
       DEF Next, Stopped
<1> QED BY <1>1, <1>2, PTL DEF Spec

\* What is recorded done can be loaded by every later stage
\* (PatchCropNode.commit_unit, through crashes, faults and retries).
THEOREM StoresNestedHolds == Spec => []StoresNested
<1>1. CommitInv => StoresNested
  BY DEF CommitInv
<1> QED BY <1>1, CommitInvHolds, PTL

\* The stage never records more than target_count items
\* (the budget of PatchCropNode.commit_unit).
THEOREM NeverOvershootsHolds == Spec => []NeverOvershoots
<1>1. CommitInv => NeverOvershoots
  BY DEF CommitInv
<1> QED BY <1>1, CommitInvHolds, PTL

\* A run that ends because its count reached the target has stored exactly
\* target_count items, although the count may be older than done.db
\* (node.py:435-437, 673; the safety half of EventuallyExact).
THEOREM EndsExactHolds == Spec => []EndsExact
<1>1. Init => CountInv
  BY CountsAtStart DEF Init
<1>2. CommitInv /\ CommitInv' /\ CountInv /\ [Next]_vars => CountInv'
  <2> SUFFICES ASSUME CommitInv, CommitInv', CountInv, [Next]_vars PROVE CountInv'
    OBVIOUS
  <2> USE DEF durableVars, storeVars, loopVars, commitVars, ckptVars, GoTo
  <2>1. CASE CommitStep
    <3>1. done \subseteq done' /\ produced' \in {produced, Cardinality(done)}
      BY <2>1 DEF CommitStep, Select, PutLins, PutDpts, InsertDefs, InsertSharp, MarkDoneMany,
                  SaveViz, SaveCkptCycle, SaveCkptUnit, ClearFailed, Count
    <3> QED BY <3>1, CountKept
  <2>2. CASE Launch \/ TargetReached \/ Crash \/ UnitFailed \/ UnitFailedFault
    BY <2>2, CountKept DEF Launch, Resume, TargetReached, Leave, Exit, Crash, Killed,
                           UnitFailed, UnitFailedFault, NextUnit
  <2>3. CASE NextCycle \/ ComputeInPlace \/ Await \/ Committed \/ CommitFault \/ UNCHANGED vars
    BY <2>3, CountKept DEF NextCycle, ComputeInPlace, Await, Committed, NextUnit, CommitFault, Fault, vars
  <2>4. CASE \E i \in UnitIdx : ComputeAhead(i)
    BY <2>4, CountKept DEF ComputeAhead
  <2> QED BY <2>1, <2>2, <2>3, <2>4 DEF Next, Commit, Stopped
<1> QED BY <1>1, <1>2, CommitInvHolds, ExactFromCount, PTL DEF Spec

\* The loop, its commits and its restarts produce items as UnitProduction says:
\* a whole unit in one step, cut short only by the target, never taken back.
THEOREM ProductionImplemented == Spec => ImplementsProduction
<1>1. Init => P!ProductionInit
  BY DEF Init, CommitInit, P!ProductionInit
<1>2. CommitInv /\ [Next]_vars => [P!ProductionNext]_done
  <2> SUFFICES ASSUME CommitInv, [Next]_vars PROVE P!ProductionNext \/ UNCHANGED done
    OBVIOUS
  <2> USE DEF durableVars
  <2>1. CASE Commit /\ MarkDoneMany
    <3>1. cycle \in P!Cycles /\ idx \in P!UnitIdx
      BY <2>1, Params DEF MarkDoneMany, At, CommitInv, CommitTypeOK, CommitPC, Cycles, UnitIdx
    <3>2. done' = done \cup ToCommit
      BY <2>1 DEF MarkDoneMany, At, CommitInv, Selected, WritePC
    <3>3. P!Produce(cycle, idx)
      BY <3>2, SameCardinality DEF P!Produce, ToCommit
    <3> QED BY <3>1, <3>3 DEF P!ProductionNext
  <2>2. CASE Commit /\ ~MarkDoneMany
    BY <2>2 DEF Commit, CommitStep, Select, PutLins, PutDpts, InsertDefs, InsertSharp, SaveViz,
                SaveCkptCycle, SaveCkptUnit, ClearFailed, Count
  <2>3. CASE ~Commit
    BY <2>3 DEF Next, vars, commitVars, Launch, Resume, TargetReached, NextCycle, ComputeInPlace, ComputeAhead,
                Await, Committed, UnitFailed, UnitFailedFault, CommitFault, Fault, Crash, Killed, Stopped
  <2> QED BY <2>1, <2>2, <2>3
<1> QED BY <1>1, <1>2, CommitInvHolds, PTL DEF Spec, ImplementsProduction, P!ProductionSpec

----------------------------------------------------------------------------
(***************************************************************************)
(* The window.  The invariant says which units are submitted at every      *)
(* point of the loop: those from the loop position on, or from the one     *)
(* after it while the awaited unit is dealt with.                          *)
(***************************************************************************)

FirstOpen == IF pc = "loop" THEN idx ELSE idx + 1

OpenUnits ==
    /\ DOMAIN futures = FirstOpen .. nextI - 1
    /\ FirstOpen <= nextI /\ nextI <= NUnits /\ nextI <= idx + nWorkers
    /\ pc = "loop" /\ produced < Target /\ idx < NUnits => idx < nextI

WindowType ==
    /\ futures \in [DOMAIN futures -> {"running", "ok", "error"}]
    /\ nextI \in 0 .. NUnits
    /\ nWorkers \in UnitWorkers \cup {1}

WindowInv ==
    /\ WindowType
    /\ Serial \/ pc = "down" => futures = <<>> /\ nextI = 0
    /\ ~Serial /\ pc # "down" => OpenUnits

LEMMA EmptyWindow == DOMAIN <<>> = {} /\ <<>> \in [{} -> {"running", "ok", "error"}]
OBVIOUS

LEMMA FutureDomain ==
    ASSUME NEW S, NEW f \in [S -> {"running", "ok", "error"}]
    PROVE  DOMAIN f = S /\ f \in [DOMAIN f -> {"running", "ok", "error"}]
OBVIOUS

LEMMA WorkersPositive == WindowInv => nWorkers \in Nat \ {0}
BY WindowAssumption DEF WindowInv, WindowType

\* Submitting from unit n on, with the units from f to n - 1 still open.
LEMMA SubmitFills ==
    ASSUME NEW w \in Nat \ {0}, NEW open, NEW f \in 0 .. NUnits, NEW n \in f .. NUnits,
           open \in [f .. n - 1 -> {"running", "ok", "error"}], n <= f + w
    PROVE  /\ SubmitEnd(w, open, n) = IF f + w < NUnits THEN f + w ELSE NUnits
           /\ SubmitUntilFull(w, open, n)
                \in [f .. SubmitEnd(w, open, n) - 1 -> {"running", "ok", "error"}]
<1>1. Cardinality(DOMAIN open) = n - f
  <2>1. f \in Int /\ n - 1 \in Int /\ f <= n /\ DOMAIN open = f .. n - 1
    BY Params
  <2>2. Cardinality(f .. n - 1) = IF f > n - 1 THEN 0 ELSE (n - 1) - f + 1
    BY <2>1, FS_Interval
  <2> QED BY <2>1, <2>2
<1>2. SubmitEnd(w, open, n) = IF f + w < NUnits THEN f + w ELSE NUnits
  BY <1>1, Params DEF SubmitEnd
<1>3. DOMAIN open \cup n .. SubmitEnd(w, open, n) - 1 = f .. SubmitEnd(w, open, n) - 1
  BY <1>2, Params
<1> QED BY <1>2, <1>3 DEF SubmitUntilFull

\* A window opened at unit n.
LEMMA OpenFills ==
    ASSUME NEW w \in Nat \ {0}, NEW n \in 0 .. NUnits
    PROVE  /\ SubmitEnd(w, <<>>, n) = IF n + w < NUnits THEN n + w ELSE NUnits
           /\ SubmitUntilFull(w, <<>>, n)
                \in [n .. SubmitEnd(w, <<>>, n) - 1 -> {"running", "ok", "error"}]
<1>1. n .. n - 1 = {}
  BY Params
<1>2. <<>> \in [n .. n - 1 -> {"running", "ok", "error"}]
  BY <1>1, EmptyWindow
<1>3. n \in n .. NUnits /\ n <= n + w
  BY Params
<1> QED BY <1>2, <1>3, SubmitFills

LEMMA FullWindow ==
    ASSUME NEW w \in Nat \ {0}, NEW n \in 0 .. NUnits,
           NEW m, m = IF n + w < NUnits THEN n + w ELSE NUnits
    PROVE  m \in 0 .. NUnits /\ m <= NUnits /\ n <= m /\ m <= n + w /\ (n < NUnits => n < m)
<1>1. n \in Int /\ w \in Int /\ w > 0 /\ NUnits \in Int /\ 0 <= n /\ n <= NUnits
  BY Params
<1>2. CASE n + w < NUnits
  BY <1>1, <1>2
<1>3. CASE ~(n + w < NUnits)
  BY <1>1, <1>3
<1> QED BY <1>2, <1>3

LEMMA LaunchWindow ==
    ASSUME NEW w \in Nat \ {0}, OpenWindow(w, idx'), nWorkers' = w, w \in UnitWorkers \cup {1},
           idx' \in 0 .. NUnits, pc' = "loop"
    PROVE  WindowInv'
<1>1. CASE w <= 1
  <2>1. futures' = <<>> /\ nextI' = 0 /\ Serial'
    BY <1>1 DEF OpenWindow, CloseWindow, Serial
  <2>2. 0 \in 0 .. NUnits /\ futures' \in [DOMAIN futures' -> {"running", "ok", "error"}]
    BY <2>1, EmptyWindow, Params
  <2>3. WindowType'
    BY <2>1, <2>2 DEF WindowType
  <2> QED BY <2>1, <2>3 DEF WindowInv
<1>2. CASE w > 1
  <2> DEFINE full == IF idx' + w < NUnits THEN idx' + w ELSE NUnits
  <2>1. futures' = SubmitUntilFull(w, <<>>, idx') /\ nextI' = SubmitEnd(w, <<>>, idx')
    BY <1>2 DEF OpenWindow
  <2>2. nextI' = full /\ futures' \in [idx' .. nextI' - 1 -> {"running", "ok", "error"}]
    BY <2>1, OpenFills
  <2>3. /\ full \in 0 .. NUnits /\ full <= NUnits /\ idx' <= full /\ full <= idx' + w
        /\ idx' < NUnits => idx' < full
    BY FullWindow
  <2> HIDE DEF full
  <2>4. /\ DOMAIN futures' = idx' .. nextI' - 1
        /\ futures' \in [DOMAIN futures' -> {"running", "ok", "error"}]
    BY <2>2, FutureDomain
  <2>5. FirstOpen' = idx'
    BY DEF FirstOpen
  <2>6. OpenUnits'
    <3>1. DOMAIN futures' = FirstOpen' .. nextI' - 1
      BY <2>4, <2>5
    <3>2. FirstOpen' <= nextI' /\ nextI' <= NUnits /\ nextI' <= idx' + nWorkers'
      BY <2>2, <2>3, <2>5, Zenon
    <3>3. idx' < NUnits => idx' < nextI'
      BY <2>2, <2>3
    <3> QED BY <3>1, <3>2, <3>3 DEF OpenUnits
  <2>7. WindowType'
    BY <2>2, <2>3, <2>4 DEF WindowType
  <2>8. ~Serial'
    BY <1>2 DEF Serial
  <2> QED BY <2>6, <2>7, <2>8 DEF WindowInv
<1> QED BY <1>1, <1>2

LEMMA ForgetsWindow == ForgetWindow /\ pc' = "down" => WindowInv'
BY EmptyWindow, Params DEF ForgetWindow, CloseWindow, WindowInv, WindowType

LEMMA NextUnitWindow ==
    ASSUME WindowInv, CommitInv, NextUnit, pc \in {"raised", "next"}
    PROVE  WindowInv'
<1>a. idx \in 0 .. NUnits /\ idx < NUnits /\ idx \in Nat
  BY Params DEF CommitInv, CommitTypeOK
<1>b. nWorkers \in Nat \ {0}
  BY WorkersPositive
<1>1. CASE Serial
  BY <1>1 DEF NextUnit, WindowInv, WindowType, Serial
<1>2. CASE ~Serial /\ produced >= Target
  BY <1>a, <1>b, <1>2, Params DEF NextUnit, WindowInv, WindowType, Serial, OpenUnits, FirstOpen, CommitInv, CommitTypeOK
<1>3. CASE ~Serial /\ ~(produced >= Target)
  <2>1. /\ futures \in [idx + 1 .. nextI - 1 -> {"running", "ok", "error"}]
        /\ nextI \in idx + 1 .. NUnits /\ nextI <= idx + 1 + nWorkers
        /\ idx + 1 \in 0 .. NUnits
    BY <1>a, <1>b, <1>3, Params DEF WindowInv, WindowType, OpenUnits, FirstOpen
  <2>2. /\ futures' = SubmitUntilFull(nWorkers, futures, nextI)
        /\ nextI' = SubmitEnd(nWorkers, futures, nextI)
        /\ idx' = idx + 1 /\ pc' = "loop" /\ nWorkers' = nWorkers
    BY <1>3 DEF NextUnit
  <2>3. /\ nextI' = IF idx + 1 + nWorkers < NUnits THEN idx + 1 + nWorkers ELSE NUnits
        /\ futures' \in [idx + 1 .. nextI' - 1 -> {"running", "ok", "error"}]
    BY <1>b, <2>1, <2>2, SubmitFills
  <2> QED
    BY <1>a, <1>b, <1>3, <2>2, <2>3, Params DEF WindowInv, WindowType, Serial, OpenUnits, FirstOpen
<1> QED BY <1>1, <1>2, <1>3

LEMMA WindowInvHolds == Spec => []WindowInv
<1>1. Init => WindowInv
  BY EmptyWindow, Params DEF Init, CommitInit, WindowInv, WindowType
<1>2. CommitInv /\ CommitInv' /\ WindowInv /\ [Next]_vars => WindowInv'
  <2> SUFFICES ASSUME CommitInv, CommitInv', WindowInv, [Next]_vars PROVE WindowInv'
    OBVIOUS
  <2> USE DEF At, durableVars, storeVars, ckptVars, loopVars, windowVars
  <2>a. idx' \in 0 .. NUnits
    BY DEF CommitInv, CommitTypeOK
  <2>b. nWorkers \in Nat \ {0}
    BY WorkersPositive
  <2>1. CASE Launch
    <3>1. nWorkers' \in Nat \ {0} /\ nWorkers' \in UnitWorkers \cup {1}
      BY <2>1, WindowAssumption DEF Launch
    <3> QED BY <2>1, <2>a, <3>1, LaunchWindow DEF Launch, Resume
  <2>2. CASE TargetReached
    BY <2>2, ForgetsWindow DEF TargetReached, Leave, Exit
  <2>3. CASE NextCycle
    BY <2>3, <2>a, <2>b, LaunchWindow DEF NextCycle, WindowInv, WindowType
  <2>4. CASE ComputeInPlace
    BY <2>4 DEF ComputeInPlace, WindowInv, WindowType, Serial
  <2>5. ASSUME NEW i \in UnitIdx, ComputeAhead(i) PROVE WindowInv'
    BY <2>5, EmptyWindow DEF ComputeAhead, WindowInv, WindowType, Serial, OpenUnits, FirstOpen
  <2>6. CASE Await
    <3>1. idx \in Nat /\ idx < nextI /\ DOMAIN futures = idx .. nextI - 1
      BY <2>6, Params DEF Await, InCycle, WindowInv, OpenUnits, FirstOpen, CommitInv, CommitTypeOK
    <3>2. DOMAIN futures \ {idx} = idx + 1 .. nextI - 1
      BY <3>1, Params DEF WindowInv, WindowType
    <3>3. futures' \in [idx + 1 .. nextI - 1 -> {"running", "ok", "error"}]
      BY <2>6, <3>2 DEF Await, WindowInv, WindowType
    <3> QED
      BY <2>6, <2>b, <3>1, <3>3, Params DEF Await, InCycle, WindowInv, WindowType, Serial, OpenUnits, FirstOpen
  <2>7. CASE Commit
    BY <2>7 DEF Commit, CommitStep, Select, PutLins, PutDpts, InsertDefs, InsertSharp, MarkDoneMany, SaveViz,
                SaveCkptCycle, SaveCkptUnit, ClearFailed, Count, GoTo,
                WindowInv, WindowType, Serial, OpenUnits, FirstOpen
  <2>8. CASE Committed
    BY <2>8, NextUnitWindow DEF Committed
  <2>9. CASE UnitFailed
    BY <2>9, NextUnitWindow, ForgetsWindow DEF UnitFailed, Leave, Exit
  <2>10. CASE UnitFailedFault
    BY <2>10, ForgetsWindow DEF UnitFailedFault, Leave, Exit
  <2>11. CASE CommitFault
    BY <2>11 DEF CommitFault, Fault, CommitPC, WindowInv, WindowType, Serial, OpenUnits, FirstOpen
  <2>12. CASE Crash
    BY <2>12, ForgetsWindow DEF Crash, Killed, Exit
  <2>13. CASE UNCHANGED vars
    BY <2>13 DEF vars, commitVars, WindowInv, WindowType, Serial, OpenUnits, FirstOpen
  <2> QED
    BY <2>1, <2>2, <2>3, <2>4, <2>5, <2>6, <2>7, <2>8, <2>9, <2>10, <2>11, <2>12, <2>13
       DEF Next, Stopped
<1> QED BY <1>1, <1>2, CommitInvHolds, PTL DEF Spec

\* The awaited unit has been submitted, and no more than n_unit_workers are in
\* flight (submit_until_full and futures.pop of _run_cycle_parallel).
THEOREM WindowFollowsLoopHolds == Spec => []WindowFollowsLoop
<1>1. CommitInv /\ WindowInv => WindowFollowsLoop
  <2> SUFFICES ASSUME CommitInv, WindowInv, ~Serial, At("loop"), produced < Target
               PROVE  /\ DOMAIN futures = idx .. nextI - 1
                      /\ idx < NUnits => idx \in DOMAIN futures
                      /\ Cardinality(DOMAIN futures) <= nWorkers
    BY DEF WindowFollowsLoop
  <2>1. idx \in Nat /\ nextI \in Nat /\ nWorkers \in Nat
    BY Params, WorkersPositive DEF CommitInv, CommitTypeOK, WindowInv, WindowType
  <2>2. /\ DOMAIN futures = idx .. nextI - 1
        /\ idx <= nextI /\ nextI <= idx + nWorkers
        /\ idx < NUnits => idx < nextI
    BY DEF At, WindowInv, OpenUnits, FirstOpen
  <2>3. Cardinality(DOMAIN futures) <= nWorkers
    BY <2>1, <2>2, FS_Interval
  <2> QED BY <2>1, <2>2, <2>3
<1> QED BY <1>1, CommitInvHolds, WindowInvHolds, PTL

----------------------------------------------------------------------------
(***************************************************************************)
(* The failure streaks.  A streak counts the cycles on end, the last one   *)
(* being the last whose attempt at the unit is behind the loop position,   *)
(* in which the unit was missed; a commit clears it before the position    *)
(* moves on.                                                               *)
(***************************************************************************)

LastTry(u) == IF u < idx THEN cycle ELSE cycle - 1

StreakType == streak \in [UnitIdx -> 0 .. MaxStreak - 1] /\ failFast \in BOOLEAN

StreakIsMissed ==
    \A u \in UnitIdx : \A k \in 0 .. streak[u] - 1 : <<LastTry(u) - k, u>> \in missed

StreakCleared == pc \in {"count", "next"} => streak[idx] = 0

StreakInv == StreakType /\ StreakIsMissed /\ StreakCleared

\* Between runs, and at the start of one, there are no streaks.
LEMMA NoStreakKeeps ==
    ASSUME streak' = NoStreak, failFast' \in BOOLEAN, pc' \in {"down", "loop"}
    PROVE  StreakInv'
<1>1. StreakType'
  <2>1. streak' \in [UnitIdx -> 0 .. MaxStreak - 1]
    BY Params DEF NoStreak
  <2> QED BY <2>1 DEF StreakType
<1>2. StreakIsMissed'
  BY DEF NoStreak, StreakIsMissed
<1> QED BY <1>1, <1>2 DEF StreakInv, StreakCleared

\* A step that leaves streaks, loop position and history alone.
LEMMA StreakUntouched ==
    ASSUME StreakInv, UNCHANGED <<streak, failFast, cycle, idx, missed>>, pc' \notin {"count", "next"}
    PROVE  StreakInv'
BY DEF StreakInv, StreakType, StreakIsMissed, StreakCleared, LastTry

LEMMA StreakInvHolds == Spec => []StreakInv
<1>1. Init => StreakInv
  <2> SUFFICES ASSUME Init PROVE StreakInv
    OBVIOUS
  <2>1. StreakType
    <3>1. streak \in [UnitIdx -> 0 .. MaxStreak - 1]
      BY Params DEF Init, NoStreak
    <3> QED BY <3>1 DEF Init, StreakType
  <2> QED BY <2>1 DEF Init, CommitInit, NoStreak, StreakInv, StreakIsMissed, StreakCleared
<1>2. CommitInv /\ StreakInv /\ [Next]_vars => StreakInv'
  <2> SUFFICES ASSUME CommitInv, StreakInv, [Next]_vars PROVE StreakInv'
    OBVIOUS
  <2> USE DEF At, durableVars, loopVars, windowVars
  <2>a. /\ cycle \in Nat /\ idx \in 0 .. NUnits /\ UnitIdx \subseteq Nat
        /\ pc \in CommitPC \cup {"select", "raised", "next"} => idx \in UnitIdx
    BY Params DEF CommitInv, CommitTypeOK
  <2>b. MaxStreak \in Nat \ {0}
    BY Params
  <2>1. CASE Launch
    <3>1. failFast' \in BOOLEAN /\ streak' = NoStreak /\ pc' = "loop"
      BY <2>1 DEF Launch, Resume
    <3> QED BY <3>1, NoStreakKeeps
  <2>2. ASSUME Leave PROVE StreakInv'
    BY <2>2, NoStreakKeeps DEF Leave, Exit, ForgetWindow
  <2>3. CASE NextCycle
    <3>1. \A u \in UnitIdx : LastTry(u)' = LastTry(u)
      BY <2>3, <2>a, Params DEF NextCycle, LastTry
    <3> QED BY <2>3, <3>1 DEF NextCycle, StreakInv, StreakType, StreakIsMissed, StreakCleared
  <2>4. CASE ComputeInPlace
    BY <2>4, StreakUntouched DEF ComputeInPlace
  <2>5. ASSUME NEW i \in UnitIdx, ComputeAhead(i) PROVE StreakInv'
    BY <2>5 DEF ComputeAhead, StreakInv, StreakType, StreakIsMissed, StreakCleared, LastTry
  <2>6. CASE Await
    BY <2>6, StreakUntouched DEF Await
  <2>7. CASE Commit
    <3>1. UNCHANGED <<cycle, idx, missed, failFast>>
      BY <2>7 DEF Commit, CommitStep, Select, PutLins, PutDpts, InsertDefs, InsertSharp, MarkDoneMany, SaveViz,
                  SaveCkptCycle, SaveCkptUnit, ClearFailed, Count, GoTo
    <3>2. CASE pc = "clear"
      <4>1. streak' = [streak EXCEPT ![idx] = 0] /\ idx \in UnitIdx
        BY <2>7, <2>a, <3>2 DEF Commit, CommitPC
      <4>2. streak' \in [UnitIdx -> 0 .. MaxStreak - 1]
        BY <4>1, <2>b DEF StreakInv, StreakType
      <4>3. StreakType'
        BY <3>1, <4>2 DEF StreakInv, StreakType
      <4>4. StreakIsMissed'
        BY <3>1, <4>1 DEF StreakInv, StreakType, StreakIsMissed, LastTry
      <4>5. StreakCleared'
        BY <3>1, <4>1 DEF StreakInv, StreakType, StreakCleared
      <4> QED BY <4>3, <4>4, <4>5 DEF StreakInv
    <3>3. CASE pc # "clear"
      <4>1. streak' = streak /\ (pc' \in {"count", "next"} => pc = "count")
        BY <2>7, <3>3 DEF Commit, CommitStep, Select, PutLins, PutDpts, InsertDefs, InsertSharp, MarkDoneMany,
                          SaveViz, SaveCkptCycle, SaveCkptUnit, ClearFailed, Count, GoTo
      <4> QED BY <3>1, <4>1 DEF StreakInv, StreakType, StreakIsMissed, StreakCleared, LastTry
    <3> QED BY <3>2, <3>3
  <2>8. CASE Committed
    <3>1. /\ idx \in UnitIdx /\ streak[idx] = 0
          /\ idx' = idx + 1 /\ pc' = "loop" /\ UNCHANGED <<cycle, missed, streak, failFast>>
      BY <2>8, <2>a DEF Committed, NextUnit, StreakInv, StreakCleared
    <3>2. \A u \in UnitIdx : u # idx => LastTry(u)' = LastTry(u)
      BY <2>a, <3>1 DEF LastTry
    <3> QED BY <3>1, <3>2 DEF StreakInv, StreakType, StreakIsMissed, StreakCleared
  <2>9. CASE UnitFailed
    <3>1. CASE failFast \/ StreakUp(idx)
      BY <2>9, <2>2, <3>1 DEF UnitFailed
    <3>2. CASE ~(failFast \/ StreakUp(idx))
      <4>1. /\ idx \in UnitIdx /\ streak' = [streak EXCEPT ![idx] = @ + 1]
            /\ missed' = missed \cup {<<cycle, idx>>}
            /\ idx' = idx + 1 /\ pc' = "loop" /\ UNCHANGED <<cycle, failFast>>
            /\ ~StreakUp(idx)
        BY <2>9, <2>a, <3>2 DEF UnitFailed, NextUnit
      <4>2. streak \in [UnitIdx -> 0 .. MaxStreak - 1]
        BY DEF StreakInv, StreakType
      <4>3. streak[idx] \in Nat /\ streak[idx] + 1 <= MaxStreak - 1
        BY <2>b, <4>1, <4>2 DEF StreakUp
      <4>4. streak' \in [UnitIdx -> 0 .. MaxStreak - 1]
        BY <2>b, <4>1, <4>2, <4>3
      <4>5. StreakType'
        BY <4>1, <4>4 DEF StreakInv, StreakType
      <4>6. ASSUME NEW u \in UnitIdx, u # idx, NEW k \in 0 .. streak'[u] - 1
            PROVE  <<LastTry(u)' - k, u>> \in missed'
        <5>1. LastTry(u)' = LastTry(u) /\ streak'[u] = streak[u]
          BY <2>a, <4>1, <4>2, <4>6 DEF LastTry
        <5> QED BY <4>1, <4>6, <5>1 DEF StreakInv, StreakIsMissed
      <4>7. ASSUME NEW k \in 0 .. streak'[idx] - 1
            PROVE  <<cycle - k, idx>> \in missed'
        <5>1. streak'[idx] = streak[idx] + 1
          BY <4>1, <4>2
        <5>2. CASE k = 0
          BY <2>a, <4>1, <5>2
        <5>3. CASE k # 0
          <6>1. k - 1 \in 0 .. streak[idx] - 1
            BY <4>3, <4>7, <5>1, <5>3
          <6>2. LastTry(idx) - (k - 1) = cycle - k
            BY <2>a, <4>3, <5>1 DEF LastTry
          <6>3. <<LastTry(idx) - (k - 1), idx>> \in missed
            BY <4>1, <6>1 DEF StreakInv, StreakIsMissed
          <6> QED BY <4>1, <6>2, <6>3
        <5> QED BY <5>2, <5>3
      <4>8. StreakIsMissed'
        <5> SUFFICES ASSUME NEW u \in UnitIdx, NEW k \in 0 .. streak'[u] - 1
                     PROVE  <<LastTry(u)' - k, u>> \in missed'
          BY DEF StreakIsMissed
        <5>1. CASE u # idx
          BY <4>6, <5>1
        <5>2. CASE u = idx
          <6>1. LastTry(u)' = cycle
            BY <2>a, <4>1, <5>2 DEF LastTry
          <6> QED BY <4>7, <5>2, <6>1
        <5> QED BY <5>1, <5>2
      <4> QED BY <4>1, <4>5, <4>8 DEF StreakInv, StreakCleared
    <3> QED BY <3>1, <3>2
  <2>10. CASE CommitFault
    BY <2>10, StreakUntouched DEF CommitFault, Fault
  <2>11. CASE Crash
    BY <2>11, NoStreakKeeps DEF Crash, Killed, Exit, ForgetWindow
  <2>12. CASE UNCHANGED vars
    BY <2>12 DEF vars, commitVars, StreakInv, StreakType, StreakIsMissed, StreakCleared, LastTry
  <2> QED
    BY <2>1, <2>2, <2>3, <2>4, <2>5, <2>6, <2>7, <2>8, <2>9, <2>10, <2>11, <2>12
       DEF Next, Stopped, TargetReached, UnitFailedFault
<1> QED BY <1>1, <1>2, CommitInvHolds, PTL DEF Spec

\* The stage is given up only when one unit failed in max_consecutive_unit_failures
\* cycles on end (_handle_unit_failure, node.py:473-482).
THEOREM AbortNeedsStreakHolds == Spec => AbortNeedsStreak
<1>1. /\ CommitInv /\ StreakInv /\ [Next]_vars
      /\ At("raised") /\ ~failFast /\ pc' = "down" /\ UNCHANGED used
      => \A k \in 0 .. MaxStreak - 1 : <<cycle - k, idx>> \in missed'
  <2> SUFFICES ASSUME CommitInv, StreakInv, [Next]_vars, At("raised"), ~failFast, pc' = "down", UNCHANGED used,
                      NEW k \in 0 .. MaxStreak - 1
               PROVE  <<cycle - k, idx>> \in missed'
    OBVIOUS
  <2> USE DEF At, durableVars, loopVars, windowVars
  <2>1. cycle \in Nat /\ idx \in UnitIdx /\ MaxStreak \in Nat \ {0} /\ idx \in Nat
    BY Params DEF CommitInv, CommitTypeOK
  <2>2. \A b \in {"run", "crash", "raise", "fault"} : ~Spend(b)
    BY BoundNames DEF Spend, CommitInv, CommitTypeOK
  <2>3. UnitFailed /\ StreakUp(idx)
    BY <2>2 DEF Next, vars, commitVars, Launch, Resume, TargetReached, NextCycle, ComputeInPlace, InCycle,
                ComputeAhead, Await, Commit, CommitStep, Select, PutLins, PutDpts, InsertDefs, InsertSharp,
                MarkDoneMany, SaveViz, SaveCkptCycle, SaveCkptUnit, ClearFailed, Count, Committed, UnitFailed,
                UnitFailedFault, CommitFault, Fault, Crash, Killed, Stopped, NextUnit
  <2>4. missed' = missed \cup {<<cycle, idx>>}
    BY <2>3 DEF UnitFailed
  <2>5. CASE k = 0
    BY <2>1, <2>4, <2>5
  <2>6. CASE k # 0
    <3>1. streak[idx] \in Nat /\ k - 1 \in 0 .. streak[idx] - 1
      BY <2>1, <2>3, <2>6 DEF StreakUp, StreakInv, StreakType
    <3>2. <<LastTry(idx) - (k - 1), idx>> \in missed
      BY <2>1, <3>1 DEF StreakInv, StreakIsMissed
    <3>3. LastTry(idx) - (k - 1) = cycle - k
      BY <2>1 DEF LastTry
    <3> QED BY <2>4, <3>2, <3>3
  <2> QED BY <2>5, <2>6
<1> QED BY <1>1, CommitInvHolds, StreakInvHolds, PTL DEF Spec, AbortNeedsStreak

----------------------------------------------------------------------------
(***************************************************************************)
(* What the first run knows of its failures.  They all lie behind the loop *)
(* position; each is listed in errors.db unless the unit was tried again;  *)
(* and the attempt before a unit's streak went well, so no MaxStreak       *)
(* attempts at a unit fail on end.  A fault in the count comes after the   *)
(* streak was reset, and ends what is known of the streaks.                *)
(***************************************************************************)

FirstRun == used["run"] = 1 /\ pc # "down"

NoneMissed == used["run"] = 0 => pc = "down" /\ missed = {}

MissedPassed == \A cu \in missed : Passed(cu[1], cu[2])

TriedAgain(cu) == \E c \in cu[1] + 1 .. MaxCycle : Passed(c, cu[2])

\* Between clear_failed and the end of the iteration the unit at hand has
\* neither an error nor a later attempt behind the position.
MissedListed ==
    \A cu \in missed :
        \/ TriedAgain(cu)
        \/ cu[2] \in errors
        \/ cu[2] = idx /\ cu[1] < cycle /\ pc \in {"count", "next", "raised"}

StreakStarts ==
    \A u \in UnitIdx :
        <<LastTry(u) - streak[u], u>> \notin missed \/ (u = idx /\ pc \in {"count", "next"})

NoFullStreak ==
    \A u \in UnitIdx, c \in Cycles : \E k \in 0 .. MaxStreak - 1 : <<c - k, u>> \notin missed

FailureInv ==
    /\ NoneMissed
    /\ FirstRun => MissedPassed /\ MissedListed
    /\ FirstRun /\ used["fault"] = 0 => StreakStarts /\ NoFullStreak

\* What was used is never given back, and only a start counts as a run.
LEMMA UsedGrows ==
    ASSUME CommitInv, [Next]_vars
    PROVE  /\ used["run"] \in Nat /\ used["fault"] \in Nat
           /\ used["fault"] <= used'["fault"]
           /\ Launch => used'["run"] = used["run"] + 1 /\ pc = "down"
           /\ ~Launch => used'["run"] = used["run"]
           /\ CommitFault \/ UnitFailedFault => used'["fault"] # 0
<1> USE DEF At, durableVars, loopVars, windowVars
<1>1. used \in [{"run", "crash", "raise", "fault"} -> Nat]
  BY BoundNames DEF CommitInv, CommitTypeOK
<1>2. ASSUME NEW b \in {"run", "crash", "raise", "fault"}, Spend(b)
      PROVE  used' = [used EXCEPT ![b] = @ + 1]
  BY <1>2 DEF Spend
<1>3. CASE Launch
  BY <1>1, <1>2, <1>3 DEF Launch, Resume, CommitFault, Fault, UnitFailedFault
<1>4. CASE CommitFault \/ UnitFailedFault
  BY <1>1, <1>2, <1>4 DEF CommitFault, Fault, UnitFailedFault, Launch, Resume, CommitPC
<1>5. CASE Crash
  <2>1. pc # "down" /\ pc' = "down" /\ used' = [used EXCEPT !["crash"] = @ + 1]
    BY <1>2, <1>5 DEF Crash, Killed, Exit
  <2>2. ~Launch /\ ~CommitFault
    BY <2>1 DEF Launch, Resume, CommitFault, Fault
  <2> QED BY <1>1, <1>4, <2>1, <2>2
<1>6. CASE ComputeInPlace \/ \E i \in UnitIdx : ComputeAhead(i)
  BY <1>1, <1>2, <1>6 DEF ComputeInPlace, ComputeAhead, InCycle, CommitFault, Fault, CommitPC, UnitFailedFault, Launch, Resume
<1>7. CASE ~(Launch \/ CommitFault \/ UnitFailedFault \/ Crash \/ ComputeInPlace \/ \E i \in UnitIdx : ComputeAhead(i))
  <2>1. used' = used
    BY <1>7 DEF Next, vars, commitVars, TargetReached, NextCycle, Await, Commit, CommitStep, Select, PutLins,
                PutDpts, InsertDefs, InsertSharp, MarkDoneMany, SaveViz, SaveCkptCycle, SaveCkptUnit, ClearFailed,
                Count, GoTo, Committed, UnitFailed, Stopped
  <2> QED BY <1>1, <1>7, <2>1
<1> QED BY <1>3, <1>4, <1>5, <1>6, <1>7

\* Between runs nothing is claimed.
LEMMA FailuresForgotten ==
    ASSUME CommitInv, FailureInv, [Next]_vars, ~Launch, pc # "down", pc' = "down"
    PROVE  FailureInv'
<1>1. used["run"] # 0 /\ used'["run"] = used["run"]
  BY UsedGrows DEF FailureInv, NoneMissed
<1> QED BY <1>1 DEF FailureInv, FirstRun, NoneMissed

\* A step inside an iteration that leaves position, history and streaks alone.
LEMMA FailuresUntouched ==
    ASSUME CommitInv, FailureInv, [Next]_vars, ~Launch,
           UNCHANGED <<cycle, idx, missed, errors, streak>>,
           pc' = pc \/ (pc' # "down" /\ pc \notin {"down", "raised", "count", "next"})
                    \/ (pc = "count" /\ pc' = "next")
                    \/ (pc = "count" /\ pc' = "raised" /\ used'["fault"] # 0)
    PROVE  FailureInv'
<1>1. /\ used'["run"] = used["run"] /\ used["fault"] \in Nat
      /\ used'["fault"] = 0 => used["fault"] = 0
  BY UsedGrows
<1> QED
  BY <1>1 DEF FailureInv, FirstRun, NoneMissed, MissedPassed, MissedListed, StreakStarts, NoFullStreak,
              TriedAgain, Passed, LastTry

LEMMA FailureInvHolds == Spec => []FailureInv
<1>1. Init => FailureInv
  <2> SUFFICES ASSUME Init PROVE FailureInv
    OBVIOUS
  <2> QED BY DEF Init, CommitInit, FailureInv, FirstRun, NoneMissed
<1>2. CommitInv /\ StreakInv /\ FailureInv /\ [Next]_vars => FailureInv'
  <2> SUFFICES ASSUME CommitInv, StreakInv, FailureInv, [Next]_vars PROVE FailureInv'
    OBVIOUS
  <2> USE DEF At, durableVars, loopVars, windowVars
  <2>a. /\ cycle \in Nat /\ cycle \in Cycles /\ idx \in 0 .. NUnits /\ UnitIdx \subseteq Nat
        /\ missed \subseteq Cycles \X UnitIdx /\ MaxCycle \in Nat /\ Cycles = 0 .. MaxCycle
        /\ MaxStreak \in Nat \ {0} /\ UnitIdx = 0 .. NUnits - 1
        /\ pc \in CommitPC \cup {"select", "raised", "next"} => idx \in UnitIdx
    BY Params DEF CommitInv, CommitTypeOK
  <2>b. \A cu \in missed : cu[1] \in Nat /\ cu[2] \in UnitIdx /\ cu[2] \in Nat /\ cu = <<cu[1], cu[2]>>
    BY <2>a
  <2>c. \A u \in UnitIdx : streak[u] \in Nat
    BY <2>a DEF StreakInv, StreakType
  <2>d. /\ used["run"] \in Nat /\ used["fault"] \in Nat
        /\ used'["fault"] = 0 => used["fault"] = 0
        /\ Launch => used'["run"] = used["run"] + 1
        /\ ~Launch => used'["run"] = used["run"]
    BY UsedGrows
  <2>1. CASE Launch
    <3>1. streak' = NoStreak /\ missed' = missed /\ pc' = "loop" /\ (used'["run"] = 1 => missed = {})
      BY <2>1, <2>d DEF Launch, Resume, FailureInv, NoneMissed
    <3>2. 0 \in 0 .. MaxStreak - 1
      BY <2>a
    <3> QED
      BY <2>1, <2>d, <3>1, <3>2 DEF FailureInv, FirstRun, NoneMissed, MissedPassed, MissedListed,
                                    StreakStarts, NoFullStreak
  <2>2. ASSUME ~Launch, pc # "down", Exit PROVE FailureInv'
    BY <2>2, FailuresForgotten DEF Exit
  <2>3. CASE NextCycle
    <3>1. /\ cycle' = cycle + 1 /\ idx' = 0 /\ idx = NUnits /\ pc = "loop" /\ ~Launch
          /\ UNCHANGED <<pc, missed, errors, streak, used>>
      BY <2>3 DEF NextCycle, Launch, Resume
    <3>2. \A u \in UnitIdx : LastTry(u)' = LastTry(u)
      BY <2>a, <3>1 DEF LastTry
    <3>3. ASSUME NEW c \in Nat, NEW u \in UnitIdx, Passed(c, u) PROVE Passed(c, u)'
      BY <2>a, <3>1, <3>3 DEF Passed
    <3>4. MissedPassed => MissedPassed'
      BY <2>b, <3>1, <3>3 DEF MissedPassed
    <3>5. ASSUME NEW cu \in missed, TriedAgain(cu) PROVE TriedAgain(cu)'
      BY <2>a, <2>b, <3>3, <3>5 DEF TriedAgain
    <3>6. MissedListed => MissedListed'
      BY <3>1, <3>5 DEF MissedListed
    <3>7. (StreakStarts => StreakStarts') /\ (NoFullStreak => NoFullStreak')
      BY <3>1, <3>2 DEF StreakStarts, NoFullStreak
    <3> QED BY <3>1, <3>4, <3>6, <3>7 DEF FailureInv, FirstRun, NoneMissed
  <2>4. CASE ComputeInPlace
    BY <2>4, FailuresUntouched DEF ComputeInPlace, InCycle, Launch, Resume
  <2>5. ASSUME NEW i \in UnitIdx, ComputeAhead(i) PROVE FailureInv'
    <3>1. CASE Launch
      BY <2>1, <3>1
    <3> QED BY <2>5, <3>1, FailuresUntouched DEF ComputeAhead
  <2>6. CASE Await
    BY <2>6, FailuresUntouched DEF Await, InCycle, Launch, Resume
  <2>7. CASE Commit
    <3>1. /\ UNCHANGED <<cycle, idx, missed, failFast, used>> /\ pc \in CommitPC \cup {"select"} /\ ~Launch
          /\ pc' # "down"
      BY <2>7 DEF Commit, CommitStep, Select, PutLins, PutDpts, InsertDefs, InsertSharp, MarkDoneMany, SaveViz,
                  SaveCkptCycle, SaveCkptUnit, ClearFailed, Count, GoTo, CommitPC, Launch, Resume
    <3>2. CASE pc = "clear"
      <4>1. /\ errors' = errors \ {idx} /\ pc' = "count" /\ idx \in UnitIdx
            /\ streak' = [streak EXCEPT ![idx] = 0]
        BY <2>7, <2>a, <3>2 DEF Commit, CommitStep, Select, PutLins, PutDpts, InsertDefs, InsertSharp,
                                MarkDoneMany, SaveViz, SaveCkptCycle, SaveCkptUnit, ClearFailed, Count, GoTo, CommitPC
      <4>2. MissedPassed /\ MissedListed => MissedPassed' /\ MissedListed'
        <5> SUFFICES ASSUME MissedPassed, MissedListed, NEW cu \in missed
                     PROVE  /\ Passed(cu[1], cu[2])'
                            /\ \/ TriedAgain(cu)'
                               \/ cu[2] \in errors'
                               \/ cu[2] = idx' /\ cu[1] < cycle' /\ pc' \in {"count", "next", "raised"}
          BY <3>1 DEF MissedPassed, MissedListed
        <5>1. Passed(cu[1], cu[2])
          BY DEF MissedPassed
        <5>2. CASE cu[2] = idx
          BY <2>a, <2>b, <3>1, <4>1, <5>1, <5>2 DEF Passed
        <5>3. CASE cu[2] # idx
          <6>1. Passed(cu[1], cu[2])' /\ (TriedAgain(cu) => TriedAgain(cu)')
            BY <3>1, <5>1 DEF TriedAgain, Passed
          <6>2. cu[2] \in errors => cu[2] \in errors'
            BY <4>1, <5>3
          <6>3. TriedAgain(cu) \/ cu[2] \in errors
            BY <5>3 DEF MissedListed
          <6> QED BY <6>1, <6>2, <6>3
        <5> QED BY <5>2, <5>3
      <4>3. ASSUME NEW u \in UnitIdx, u # idx PROVE streak'[u] = streak[u] /\ LastTry(u)' = LastTry(u)
        BY <3>1, <4>1, <4>3 DEF LastTry, StreakInv, StreakType
      <4>4. (StreakStarts => StreakStarts') /\ (NoFullStreak => NoFullStreak')
        BY <3>1, <4>1, <4>3 DEF StreakStarts, NoFullStreak
      <4> QED BY <3>1, <3>2, <4>2, <4>4 DEF FailureInv, FirstRun, NoneMissed
    <3>3. CASE pc # "clear"
      <4>1. /\ streak' = streak /\ errors' = errors
            /\ (pc = "count" /\ pc' = "next") \/ pc \notin {"down", "raised", "count", "next"}
        BY <2>7, <3>3 DEF Commit, CommitStep, Select, PutLins, PutDpts, InsertDefs, InsertSharp, MarkDoneMany,
                          SaveViz, SaveCkptCycle, SaveCkptUnit, ClearFailed, Count, GoTo
      <4> QED BY <3>1, <4>1, FailuresUntouched
    <3> QED BY <3>2, <3>3
  <2>8. ASSUME pc \in {"raised", "next"}, NextUnit, ~Launch
        PROVE  /\ \A c \in Nat, u \in UnitIdx : Passed(c, u) => Passed(c, u)'
               /\ \A cu \in missed : TriedAgain(cu) => TriedAgain(cu)'
               /\ \A c \in Nat, u \in UnitIdx : c = cycle /\ u = idx => Passed(c, u)'
               /\ \A cu \in missed : cu[2] = idx /\ cu[1] < cycle => TriedAgain(cu)'
               /\ \A u \in UnitIdx : IF u = idx THEN LastTry(u) = cycle - 1 /\ LastTry(u)' = cycle
                                               ELSE LastTry(u)' = LastTry(u)
    <3>1. idx \in UnitIdx /\ idx' = idx + 1 /\ cycle' = cycle
      BY <2>8, <2>a DEF NextUnit
    <3>2. \A c \in Nat, u \in UnitIdx : Passed(c, u) => Passed(c, u)'
      BY <2>a, <3>1 DEF Passed
    <3>3. \A c \in Nat, u \in UnitIdx : c = cycle /\ u = idx => Passed(c, u)'
      BY <2>a, <3>1 DEF Passed
    <3>4. ASSUME NEW cu \in missed, TriedAgain(cu) PROVE TriedAgain(cu)'
      BY <2>a, <2>b, <3>2, <3>4 DEF TriedAgain
    <3>5. ASSUME NEW cu \in missed, cu[2] = idx, cu[1] < cycle PROVE TriedAgain(cu)'
      <4>1. cycle \in cu[1] + 1 .. MaxCycle
        BY <2>a, <2>b, <3>5
      <4> QED BY <2>a, <2>b, <3>3, <3>5, <4>1 DEF TriedAgain
    <3>6. \A u \in UnitIdx : IF u = idx THEN LastTry(u) = cycle - 1 /\ LastTry(u)' = cycle
                                      ELSE LastTry(u)' = LastTry(u)
      BY <2>a, <3>1 DEF LastTry
    <3> QED BY <3>2, <3>3, <3>4, <3>5, <3>6
  <2>9. CASE Committed
    <3>1. /\ pc = "next" /\ NextUnit /\ ~Launch /\ pc' = "loop" /\ idx \in UnitIdx
          /\ UNCHANGED <<missed, errors, streak, used>>
      BY <2>9, <2>a DEF Committed, NextUnit, Launch, Resume
    <3>2. MissedPassed => MissedPassed'
      BY <2>8, <2>b, <3>1 DEF MissedPassed
    <3>3. MissedListed => MissedListed'
      BY <2>8, <3>1 DEF MissedListed
    <3>4. MissedPassed /\ StreakStarts => StreakStarts'
      <4> SUFFICES ASSUME MissedPassed, StreakStarts, NEW u \in UnitIdx
                   PROVE  <<LastTry(u)' - streak[u], u>> \notin missed
        BY <3>1 DEF StreakStarts
      <4>1. CASE u = idx
        <5>1. streak[u] = 0 /\ LastTry(u)' - streak[u] = cycle
          BY <2>8, <2>a, <3>1, <4>1 DEF StreakInv, StreakCleared
        <5>2. <<cycle, idx>> \notin missed
          BY <2>a DEF MissedPassed, Passed
        <5> QED BY <4>1, <5>1, <5>2
      <4>2. CASE u # idx
        BY <2>8, <3>1, <4>2 DEF StreakStarts
      <4> QED BY <4>1, <4>2
    <3>5. NoFullStreak => NoFullStreak'
      BY <3>1 DEF NoFullStreak
    <3> QED BY <3>1, <3>2, <3>3, <3>4, <3>5 DEF FailureInv, FirstRun, NoneMissed
  <2>10. CASE UnitFailed
    <3>1. pc = "raised" /\ ~Launch /\ missed' = missed \cup {<<cycle, idx>>} /\ idx \in UnitIdx
      BY <2>10, <2>a DEF UnitFailed, Launch, Resume
    <3>2. CASE failFast \/ StreakUp(idx)
      BY <2>2, <2>10, <3>1, <3>2 DEF UnitFailed, Leave
    <3>3. CASE ~(failFast \/ StreakUp(idx))
      <4>1. /\ NextUnit /\ pc' = "loop" /\ errors' = errors \cup {idx} /\ used' = used /\ ~StreakUp(idx)
            /\ streak' = [streak EXCEPT ![idx] = @ + 1]
        BY <2>10, <3>3 DEF UnitFailed, NextUnit
      <4>2. streak'[idx] = streak[idx] + 1 /\ \A u \in UnitIdx : u # idx => streak'[u] = streak[u]
        BY <3>1, <4>1 DEF StreakInv, StreakType
      <4>3. MissedPassed => MissedPassed'
        <5> SUFFICES ASSUME MissedPassed, NEW cu \in missed' PROVE Passed(cu[1], cu[2])'
          BY DEF MissedPassed
        <5>1. CASE cu \in missed
          BY <2>8, <2>b, <3>1, <4>1, <5>1 DEF MissedPassed
        <5>2. CASE cu = <<cycle, idx>>
          BY <2>8, <2>a, <3>1, <4>1, <5>2
        <5> QED BY <3>1, <5>1, <5>2
      <4>4. MissedListed => MissedListed'
        BY <2>8, <3>1, <4>1 DEF MissedListed
      <4>5. StreakStarts => StreakStarts'
        <5> SUFFICES ASSUME StreakStarts, NEW u \in UnitIdx
                     PROVE  <<LastTry(u)' - streak'[u], u>> \notin missed'
          BY DEF StreakStarts
        <5>1. <<LastTry(u) - streak[u], u>> \notin missed
          BY <3>1 DEF StreakStarts
        <5>2. CASE u = idx
          <6>1. /\ LastTry(u) = cycle - 1 /\ LastTry(u)' = cycle
                /\ streak[u] \in Nat /\ streak'[u] = streak[u] + 1
            BY <2>8, <2>c, <3>1, <4>1, <4>2, <5>2
          <6>2. LastTry(u)' - streak'[u] = LastTry(u) - streak[u] /\ LastTry(u)' - streak'[u] # cycle
            BY <2>a, <6>1
          <6> QED BY <3>1, <5>1, <6>2
        <5>3. CASE u # idx
          BY <2>8, <3>1, <4>1, <4>2, <5>1, <5>3
        <5> QED BY <5>2, <5>3
      <4>6. MissedPassed /\ StreakStarts /\ NoFullStreak => NoFullStreak'
        <5> SUFFICES ASSUME MissedPassed, StreakStarts, NoFullStreak, NEW u \in UnitIdx, NEW c \in Cycles
                     PROVE  \E k \in 0 .. MaxStreak - 1 : <<c - k, u>> \notin missed'
          BY DEF NoFullStreak
        <5>1. CASE u # idx \/ c < cycle
          <6>1. PICK k \in 0 .. MaxStreak - 1 : <<c - k, u>> \notin missed
            BY DEF NoFullStreak
          <6>2. u # idx \/ c - k # cycle
            BY <2>a, <5>1
          <6> QED BY <3>1, <6>1, <6>2
        <5>2. CASE u = idx /\ c > cycle
          <6>1. <<c, u>> \notin missed
            BY <2>a, <5>2 DEF MissedPassed, Passed
          <6>2. 0 \in 0 .. MaxStreak - 1 /\ c - 0 = c /\ c # cycle
            BY <2>a, <5>2
          <6> QED BY <3>1, <6>1, <6>2
        <5>3. CASE u = idx /\ c = cycle
          <6>1. <<LastTry(idx) - streak[idx], idx>> \notin missed
            BY <3>1 DEF StreakStarts
          <6>2. streak[idx] + 1 \in 0 .. MaxStreak - 1
            BY <2>a, <2>c, <3>1, <4>1 DEF StreakUp
          <6>3. LastTry(idx) - streak[idx] = c - (streak[idx] + 1) /\ c - (streak[idx] + 1) # cycle
            BY <2>8, <2>a, <2>c, <3>1, <4>1, <5>3
          <6> QED BY <3>1, <5>3, <6>1, <6>2, <6>3
        <5> QED BY <2>a, <5>1, <5>2, <5>3
      <4> QED BY <3>1, <4>1, <4>3, <4>4, <4>5, <4>6 DEF FailureInv, FirstRun, NoneMissed
    <3> QED BY <3>2, <3>3
  <2>11. CASE UnitFailedFault
    BY <2>2, <2>11 DEF UnitFailedFault, Leave, Launch, Resume
  <2>12. CASE CommitFault
    <3>1. used'["fault"] # 0
      BY <2>12, UsedGrows
    <3> QED BY <2>12, <3>1, FailuresUntouched DEF CommitFault, Fault, CommitPC, Launch, Resume
  <2>13. CASE Crash
    BY <2>2, <2>13 DEF Crash, Killed, Launch, Resume
  <2>14. CASE TargetReached
    BY <2>2, <2>14 DEF TargetReached, Leave, Launch, Resume
  <2>15. CASE UNCHANGED vars
    BY <2>15 DEF vars, commitVars, FailureInv, FirstRun, NoneMissed, MissedPassed, MissedListed, StreakStarts,
                 NoFullStreak, TriedAgain, Passed, LastTry
  <2> QED
    BY <2>1, <2>3, <2>4, <2>5, <2>6, <2>7, <2>9, <2>10, <2>11, <2>12, <2>13, <2>14, <2>15 DEF Next, Stopped
<1> QED BY <1>1, <1>2, CommitInvHolds, StreakInvHolds, PTL DEF Spec

\* No unit fails max_consecutive_unit_failures cycles on end without ending the
\* stage (_handle_unit_failure, node.py:473-482).
THEOREM StreakEndsStageHolds == Spec => []StreakEndsStage
<1>1. FailureInv => StreakEndsStage
  BY DEF FailureInv, FirstRun, NoFullStreak, StreakEndsStage, At
<1> QED BY <1>1, FailureInvHolds, PTL

\* errors.db lists every unit whose last attempt behind the loop position
\* raised (_handle_unit_failure, node.py:469-471).
THEOREM LastFailureListedHolds == Spec => []LastFailureListed
<1>1. FailureInv => LastFailureListed
  BY DEF FailureInv, FirstRun, MissedListed, TriedAgain, LastFailureListed, At
<1> QED BY <1>1, FailureInvHolds, PTL

\* The state of the serial and the threaded driver keeps its type, the position
\* read from the checkpoint and the window's bounds included.
THEOREM TypeCorrect == Spec => []TypeOK
<1>1. CommitInv /\ WindowInv /\ StreakInv => TypeOK
  <2> SUFFICES ASSUME CommitInv, WindowInv, StreakInv PROVE TypeOK
    OBVIOUS
  <2>1. DOMAIN futures \subseteq UnitIdx
    <3>1. CASE Serial \/ pc = "down"
      BY <3>1, EmptyWindow DEF WindowInv
    <3>2. CASE ~(Serial \/ pc = "down")
      BY <3>2, Params DEF WindowInv, WindowType, OpenUnits, FirstOpen, CommitInv, CommitTypeOK
    <3> QED BY <3>1, <3>2
  <2>2. streak \in [UnitIdx -> 0 .. MaxStreak]
    BY Params DEF StreakInv, StreakType
  <2>3. futures \in UNION {[S -> {"running", "ok", "error"}] : S \in SUBSET UnitIdx}
    BY <2>1 DEF WindowInv, WindowType
  <2>4. failFast \in BOOLEAN
    BY DEF StreakInv, StreakType
  <2> QED BY <2>2, <2>3, <2>4 DEF TypeOK, CommitInv, WindowInv, WindowType
<1> QED BY <1>1, CommitInvHolds, WindowInvHolds, StreakInvHolds, PTL

----------------------------------------------------------------------------
(***************************************************************************)
(* What is lost.  Behind the loop position every attempt is whole or       *)
(* missed, but for what torn checkpoints passed over (UnitCommitProofs).   *)
(***************************************************************************)

LossInv == CkptInv /\ Few(LossAt(cycle, idx), Interruptions)

\* The position stays, or goes past what is whole or missed.
LEMMA LossKept ==
    ASSUME CommitInv, LossInv, CommitInv', LossAt(cycle, idx)' \subseteq LossAt(cycle, idx),
           Interruptions' = Interruptions \/ Interruptions' = Interruptions + 1
    PROVE  Few(LossAt(cycle, idx), Interruptions)'
<1>1. LossAt(cycle, idx) \in SUBSET (Cycles \X UnitIdx)
  BY DEF LossAt
<1>2. Interruptions \in Nat
  BY InterruptionsType DEF CommitInv
<1>3. Few(LossAt(cycle, idx)', Interruptions) /\ Few(LossAt(cycle, idx)', Interruptions + 1)
  BY <1>1, <1>2, FewSubset DEF LossInv
<1> QED BY <1>3 DEF Few

LEMMA LossInvHolds == Spec => []LossInv
<1>1. Init => LossInv
  BY CkptInvInit DEF Init, LossInv
<1>2. CommitInv /\ CommitInv' /\ LossInv /\ [Next]_vars => LossInv'
  <2> SUFFICES ASSUME CommitInv, CommitInv', LossInv, [Next]_vars PROVE LossInv'
    OBVIOUS
  <2> USE DEF At, durableVars, storeVars, loopVars, windowVars
  <2>a. CommitTypeOK /\ CkptInv
    BY DEF CommitInv, LossInv
  <2>b. ASSUME NEW k \in {"run", "crash", "raise", "fault"}, Spend(k)
        PROVE  Interruptions' = IF k \in {"crash", "fault"} THEN Interruptions + 1 ELSE Interruptions
    BY <2>a, <2>b, SpendCounts
  <2>c. UNCHANGED used => Interruptions' = Interruptions
    BY DEF Interruptions
  <2>d. ASSUME done \subseteq done', missed \subseteq missed', UNCHANGED <<cycle, idx>>
        PROVE  LossAt(cycle, idx)' \subseteq LossAt(cycle, idx)
    <3>1. LossAt(cycle, idx)' \subseteq LossAt(cycle, idx)
      BY <2>d, LossShrinks DEF LossAt, Whole
    <3> QED BY <3>1
  <2>e. ASSUME done \subseteq done', missed \subseteq missed', cycle' = cycle, idx' = idx + 1,
               pc \in {"raised", "next"}, Whole(cycle, idx) \/ <<cycle, idx>> \in missed'
        PROVE  LossAt(cycle, idx)' \subseteq LossAt(cycle, idx)
    <3>1. cycle \in Cycles /\ idx \in UnitIdx
      BY <2>a, <2>e, Params DEF CommitTypeOK
    <3>2. ASSUME NEW c \in Cycles, NEW i \in UnitIdx, c = cycle, i = idx
          PROVE  LossAt(cycle, idx)' \subseteq LossAt(cycle, idx)
      <4>1. LossAt(c, i + 1)' \subseteq LossAt(c, i)
        BY <2>e, <3>2, LossAdvances
      <4>2. LossAt(cycle, idx)' = LossAt(c, i + 1)'
        BY <2>e, <3>2 DEF LossAt, Whole
      <4> QED BY <3>2, <4>1, <4>2
    <3> QED BY <3>1, <3>2
  <2>1. CASE Launch
    BY <2>1, <2>a, ResumeLoss DEF Launch, LossInv
  <2>2. CASE TargetReached
    BY <2>2, <2>a, <2>c, ExitLoss DEF TargetReached, Leave, LossInv
  <2>3. CASE NextCycle
    <3>1. LossAt(cycle, idx)' \subseteq LossAt(cycle, idx)
      <4>1. cycle \in Cycles
        BY <2>a DEF CommitTypeOK
      <4>2. LossAt(cycle, idx)' = LossAt(cycle + 1, 0)
        BY <2>3 DEF NextCycle, LossAt, Whole
      <4> QED BY <2>3, <4>1, <4>2, LossNextCycle DEF NextCycle
    <3> QED BY <2>3, <2>a, <2>c, <3>1, LossKept, CkptOutside DEF NextCycle, LossInv, AfterDone
  <2>4. CASE ComputeInPlace
    <3>1. Interruptions' = Interruptions
      BY <2>4, <2>b, <2>c DEF ComputeInPlace
    <3> QED BY <2>4, <2>a, <2>d, <3>1, LossKept, CkptOutside DEF ComputeInPlace, InCycle, LossInv, AfterDone
  <2>5. ASSUME NEW i \in UnitIdx, ComputeAhead(i) PROVE LossInv'
    <3>1. Interruptions' = Interruptions
      BY <2>5, <2>b, <2>c DEF ComputeAhead
    <3> QED BY <2>5, <2>a, <2>d, <3>1, LossKept, CkptSame DEF ComputeAhead, LossInv
  <2>6. CASE Await
    BY <2>6, <2>a, <2>c, <2>d, LossKept, CkptOutside DEF Await, InCycle, LossInv, AfterDone
  <2>7. CASE Commit
    <3>1. UNCHANGED <<cycle, idx, used, missed>> /\ done \subseteq done'
      BY <2>7 DEF Commit, CommitStep, Select, PutLins, PutDpts, InsertDefs, InsertSharp, MarkDoneMany, SaveViz,
                  SaveCkptCycle, SaveCkptUnit, ClearFailed, Count, GoTo
    <3> QED BY <2>7, <2>c, <2>d, <3>1, LossKept, CommitStepCkpt DEF Commit, LossInv
  <2>8. CASE Committed
    <3>1. Whole(cycle, idx)
      BY <2>8, <2>a DEF Committed, CkptInv, AfterDone
    <3> QED
      BY <2>8, <2>a, <2>c, <2>e, <3>1, LossKept, CkptOutside DEF Committed, NextUnit, LossInv, AfterDone
  <2>9. CASE UnitFailed
    <3>1. CASE Leave
      BY <2>9, <2>a, <2>c, <3>1, ExitLoss DEF UnitFailed, Leave, LossInv
    <3>2. CASE NextUnit
      BY <2>9, <2>a, <2>c, <2>e, <3>2, LossKept, CkptOutside DEF UnitFailed, NextUnit, LossInv, AfterDone
    <3> QED BY <2>9, <3>1, <3>2 DEF UnitFailed
  <2>10. CASE UnitFailedFault
    BY <2>10, <2>a, <2>b, ExitLoss DEF UnitFailedFault, Leave, LossInv
  <2>11. CASE CommitFault
    BY <2>11, <2>a, <2>b, <2>d, LossKept, CkptOutside DEF CommitFault, Fault, LossInv, AfterDone
  <2>12. CASE Crash
    BY <2>12, <2>a, <2>b, ExitLoss DEF Crash, Killed, LossInv
  <2>13. CASE UNCHANGED vars
    BY <2>13, <2>a, <2>c, <2>d, LossKept, CkptSame DEF vars, commitVars, LossInv
  <2> QED
    BY <2>1, <2>2, <2>3, <2>4, <2>5, <2>6, <2>7, <2>8, <2>9, <2>10, <2>11, <2>12, <2>13
       DEF Next, Stopped
<1> QED BY <1>1, <1>2, CommitInvHolds, PTL DEF Spec

\* Every interruption costs at most the units of one cycle after its first, in
\* the serial loop and with a window (_save_checkpoint and the restart).
THEOREM LossIsBoundedHolds == Spec => []LossIsBounded
<1>1. LossInv => LossIsBounded
  <2>1. Lost = LossAt(cycle, idx)
    BY DEF Lost, LossAt, Passed
  <2> QED BY <2>1 DEF LossInv, Few, LossIsBounded, Interruptions
<1> QED BY <1>1, LossInvHolds, PTL
=============================================================================
