---------------------------- MODULE GpuSourceProofs ----------------------------
(***************************************************************************)
(* Theorems about GpuSource for every number of units and cycles, every    *)
(* batch size and every interruption: the attempts of a batch stay within  *)
(* the cycles, so the position they give the loop is one the commit        *)
(* sequence of UnitCommitProofs can start from.                            *)
(***************************************************************************)
EXTENDS GpuSource, UnitCommitProofs

----------------------------------------------------------------------------
(* The numbering of the attempts.                                          *)

LEMMA ProductType == ASSUME NEW a \in Nat, NEW b \in Nat PROVE a * b \in Nat
OBVIOUS

LEMMA ProductGrows ==
    ASSUME NEW n \in Nat, NEW a \in Nat, NEW b \in Nat, a <= b
    PROVE  n * a <= n * b
<1> DEFINE d == b - a
<1>1. d \in Nat /\ b = a + d
  OBVIOUS
<1> HIDE DEF d
<1>2. n * b = n * a + n * d
  BY <1>1
<1>3. n * d \in Nat /\ n * a \in Nat /\ n * b \in Nat
  BY <1>1, ProductType
<1> QED BY <1>2, <1>3

LEMMA NumberType ==
    ASSUME NEW c \in Nat, NEW u \in Nat
    PROVE  Number(c, u) \in Nat
<1>1. c * NUnits \in Nat
  BY Params, ProductType
<1> QED BY <1>1 DEF Number

LEMMA LastNumber == Number(MaxCycle, NUnits) \in Nat /\ 0 \in 0 .. Number(MaxCycle, NUnits)
<1>1. MaxCycle \in Nat /\ NUnits \in Nat
  BY Params
<1>2. Number(MaxCycle, NUnits) \in Nat
  BY <1>1, NumberType
<1> QED BY <1>2

\* Every attempt is one unit of one cycle.
LEMMA AttemptIsUnit ==
    ASSUME NEW n \in Attempts
    PROVE  /\ CycleOf(n) \in Cycles
           /\ UnitOf(n) \in UnitIdx
           /\ n = Number(CycleOf(n), UnitOf(n))
<1> DEFINE q == n \div NUnits
           r == n % NUnits
<1>1. n \in Nat /\ n < Number(MaxCycle, NUnits)
  BY LastNumber DEF Attempts
<1>2. q \in Nat /\ r \in 0 .. NUnits - 1 /\ n = (NUnits * q) + r
  BY <1>1, Params
<1> HIDE DEF q, r
<1>3. q <= MaxCycle
  <2> SUFFICES ASSUME MaxCycle + 1 <= q PROVE FALSE
    BY <1>2, Params
  <2>1. NUnits * (MaxCycle + 1) <= NUnits * q
    BY <1>2, Params, ProductGrows
  <2>2. NUnits * (MaxCycle + 1) = Number(MaxCycle, NUnits)
    BY Params DEF Number
  <2>3. NUnits * q \in Nat /\ Number(MaxCycle, NUnits) \in Nat
    BY <1>2, Params, ProductType, LastNumber
  <2> QED BY <1>1, <1>2, <2>1, <2>2, <2>3
<1>4. NUnits * q = q * NUnits
  BY <1>2, Params
<1> QED BY <1>2, <1>3, <1>4, Params DEF q, r, CycleOf, UnitOf, Number

\* Where the loop goes on after a batch.
LEMMA AheadIsPosition ==
    ASSUME NEW n \in 0 .. Number(MaxCycle, NUnits)
    PROVE  LET c == IF n < Number(MaxCycle, NUnits) THEN CycleOf(n) ELSE MaxCycle
           IN  c \in Cycles /\ n - Number(c, 0) \in 0 .. NUnits
<1>1. n \in Nat /\ Number(MaxCycle, NUnits) \in Nat /\ MaxCycle * NUnits \in Nat
  BY LastNumber, Params, ProductType
<1>2. CASE n < Number(MaxCycle, NUnits)
  <2>1. n \in Attempts
    BY <1>1, <1>2 DEF Attempts
  <2>2. CycleOf(n) * NUnits \in Nat
    BY <2>1, AttemptIsUnit, Params, ProductType
  <2>3. n = CycleOf(n) * NUnits + UnitOf(n) /\ UnitOf(n) \in 0 .. NUnits - 1
    BY <2>1, AttemptIsUnit, Params DEF Number
  <2>4. n - Number(CycleOf(n), 0) = UnitOf(n)
    BY <2>2, <2>3, Params DEF Number
  <2> QED BY <1>2, <2>1, <2>3, <2>4, AttemptIsUnit, Params
<1>3. CASE ~(n < Number(MaxCycle, NUnits))
  <2>1. n = MaxCycle * NUnits + NUnits
    BY <1>1, <1>3 DEF Number
  <2>2. n - Number(MaxCycle, 0) = NUnits
    BY <1>1, <2>1, Params DEF Number
  <2> QED BY <1>3, <2>2, Params
<1> QED BY <1>2, <1>3

----------------------------------------------------------------------------
(***************************************************************************)
(* The invariant: CommitInv needs the position the loop is given to be one *)
(* of the attempts', which follows from what a batch and its results are.  *)
(***************************************************************************)

BatchInv ==
    /\ pending \subseteq Attempts /\ results \subseteq Attempts
    /\ ahead \in 0 .. Number(MaxCycle, NUnits)
    /\ failFast \in BOOLEAN
    /\ pending # {} => pc = "collect"

SourceInv == CommitInv /\ BatchInv

\* Between runs there is no batch.
LEMMA NoBatch ==
    /\ (pending = {} /\ results = {} /\ ahead = 0 /\ failFast = FALSE) => BatchInv
    /\ (pending' = {} /\ results' = {} /\ ahead' = 0 /\ failFast' = FALSE) => BatchInv'
<1>1. 0 \in 0 .. Number(MaxCycle, NUnits)
  BY LastNumber
<1> QED BY <1>1, Zenon DEF BatchInv

\* Leaving a run writes nothing but an error record and forgets the batch.
LEMMA LeaveKeeps ==
    ASSUME SourceInv, Leave, UNCHANGED <<storeVars, done, ckptVars>>, errors' \subseteq UnitIdx,
           missed' \subseteq Cycles \X UnitIdx, used' \in [DOMAIN Bounds -> Nat]
    PROVE  SourceInv'
<1>1. CommitTypeOK'
  BY Params DEF SourceInv, CommitInv, CommitTypeOK, Leave, Exit, storeVars, ckptVars, PC, CommitPC
<1>2. CommitInv'
  BY <1>1, KeepsOutside DEF SourceInv, Leave, Exit, WritePC
<1>3. BatchInv'
  BY NoBatch DEF Leave
<1> QED BY <1>2, <1>3 DEF SourceInv

LEMMA SourceInvHolds == Spec => []SourceInv
<1>1. Init => SourceInv
  BY CommitInvInit, NoBatch DEF Init, SourceInv
<1>2. SourceInv /\ [Next]_vars => SourceInv'
  <2> SUFFICES ASSUME SourceInv, [Next]_vars PROVE SourceInv'
    OBVIOUS
  <2> USE DEF At, durableVars, storeVars, ckptVars, loopVars, poolVars
  <2>a. CommitInv /\ CommitTypeOK /\ BatchInv
    BY DEF SourceInv, CommitInv
  <2>b. ASSUME NEW k \in {"run", "crash", "raise", "fault"}, Spend(k)
        PROVE  used' \in [DOMAIN Bounds -> Nat]
    BY <2>a, <2>b, SpendType, BoundNames DEF CommitTypeOK
  <2>c. ASSUME NEW n \in Attempts
        PROVE  errors \cup {UnitOf(n)} \subseteq UnitIdx
               /\ missed \cup {<<CycleOf(n), UnitOf(n)>>} \subseteq Cycles \X UnitIdx
    BY <2>a, AttemptIsUnit DEF CommitTypeOK
  <2>1. CASE Launch
    <3>1. CommitInv'
      BY <2>1, <2>a, ResumeKeeps DEF Launch
    <3> QED BY <2>1, <2>a, <3>1 DEF Launch, Resume, SourceInv, BatchInv
  <2>2. CASE TargetReached
    BY <2>2, <2>a, LeaveKeeps DEF TargetReached, CommitTypeOK
  <2>3. CASE BuildBatch
    <3> DEFINE from == Number(cycle, idx)
    <3>0. cycle \in Nat /\ idx \in Nat
      BY <2>a, Params DEF CommitTypeOK
    <3>1. from \in Nat /\ Batch \in Nat \ {0} /\ Number(MaxCycle, NUnits) \in Nat
      BY <3>0, NumberType, LastNumber, BatchAssumption
    <3>2. from + Batch <= Number(MaxCycle, NUnits) /\ pending' = from .. from + Batch - 1 /\ ahead' = from + Batch
      BY <2>3 DEF BuildBatch
    <3> HIDE DEF from
    <3>3. pending' \subseteq Attempts /\ ahead' \in 0 .. Number(MaxCycle, NUnits)
      BY <3>1, <3>2 DEF Attempts
    <3>5. BatchInv'
      BY <2>3, <2>a, <3>3 DEF BuildBatch, BatchInv
    <3>4. CommitTypeOK'
      BY <2>3, <2>a DEF BuildBatch, CommitTypeOK, PC, CommitPC
    <3> QED BY <2>3, <2>a, <3>4, <3>5, KeepsOutside DEF BuildBatch, SourceInv, WritePC
  <2>4. ASSUME NEW n \in Attempts, CollectOk(n) PROVE SourceInv'
    <3>1. CommitTypeOK'
      BY <2>4, <2>a DEF CollectOk, commitVars, CommitTypeOK
    <3>2. CommitInv'
      BY <2>4, <2>a, <3>1, KeepsOutside DEF CollectOk, commitVars, WritePC
    <3> QED BY <2>4, <2>a, <3>2 DEF CollectOk, commitVars, SourceInv, BatchInv
  <2>5. ASSUME NEW n \in Attempts, CollectError(n) PROVE SourceInv'
    <3>1. /\ errors' \subseteq UnitIdx /\ missed' \subseteq Cycles \X UnitIdx
          /\ used' \in [DOMAIN Bounds -> Nat]
      BY <2>5, <2>b, <2>c DEF CollectError
    <3>2. CASE Leave
      BY <2>5, <3>1, <3>2, LeaveKeeps DEF CollectError
    <3>3. CASE pending' = pending \ {n} /\ UNCHANGED <<pc, loopVars, results, ahead, failFast>>
      <4>1. CommitTypeOK'
        BY <2>5, <2>a, <3>1, <3>3 DEF CollectError, CommitTypeOK
      <4>2. CommitInv'
        BY <2>5, <2>a, <3>3, <4>1, KeepsOutside DEF CollectError, WritePC
      <4> QED BY <2>5, <2>a, <3>3, <4>2 DEF SourceInv, BatchInv
    <3> QED BY <2>5, <3>2, <3>3 DEF CollectError
  <2>6. ASSUME NEW n \in Attempts, CollectFault(n) PROVE SourceInv'
    <3>1. /\ errors' \subseteq UnitIdx /\ missed' \subseteq Cycles \X UnitIdx
          /\ used' \in [DOMAIN Bounds -> Nat]
      BY <2>6, <2>a, <2>b, <2>c DEF CollectFault, CommitTypeOK
    <3> QED BY <2>6, <3>1, LeaveKeeps DEF CollectFault
  <2>7. CASE Collected
    <3>1. CommitTypeOK'
      BY <2>7, <2>a DEF Collected, CommitTypeOK, PC, CommitPC
    <3> QED BY <2>7, <2>a, <3>1, KeepsOutside DEF Collected, SourceInv, BatchInv, WritePC
  <2>8. ASSUME NEW n \in Attempts, Pick(n) PROVE SourceInv'
    <3>1. cycle' \in Cycles /\ idx' \in 0 .. NUnits /\ idx' < NUnits
      BY <2>8, AttemptIsUnit, Params DEF Pick
    <3>2. CommitTypeOK'
      BY <2>8, <2>a, <3>1 DEF Pick, CommitTypeOK, PC, CommitPC
    <3> QED BY <2>8, <2>a, <3>2, KeepsOutside DEF Pick, SourceInv, BatchInv, WritePC
  <2>9. CASE Commit
    <3>1. CommitInv'
      BY <2>9, <2>a, CommitStepKeeps DEF Commit
    <3>2. pc # "collect"
      BY <2>9 DEF Commit, CommitStep, Select, PutLins, PutDpts, InsertDefs, InsertSharp, MarkDoneMany,
                  SaveViz, SaveCkptCycle, SaveCkptUnit, ClearFailed, Count
    <3> QED BY <2>9, <2>a, <3>1, <3>2 DEF Commit, SourceInv, BatchInv
  <2>10. CASE Committed
    <3>1. idx' \in 0 .. NUnits
      BY <2>10, <2>a, Params DEF Committed, CommitTypeOK
    <3>2. CommitTypeOK'
      BY <2>10, <2>a, <3>1 DEF Committed, CommitTypeOK, PC, CommitPC
    <3> QED BY <2>10, <2>a, <3>2, KeepsOutside DEF Committed, SourceInv, BatchInv, WritePC
  <2>11. CASE BatchOver
    <3>1. cycle' \in Cycles /\ idx' \in 0 .. NUnits
      BY <2>11, <2>a, AheadIsPosition DEF BatchOver, BatchInv
    <3>2. CommitTypeOK'
      BY <2>11, <2>a, <3>1 DEF BatchOver, CommitTypeOK, PC, CommitPC
    <3> QED BY <2>11, <2>a, <3>2, KeepsOutside DEF BatchOver, SourceInv, BatchInv, WritePC
  <2>12. CASE CommitFault
    <3>1. CommitInv'
      BY <2>12, <2>a, FaultKeeps DEF CommitFault
    <3> QED BY <2>12, <2>a, <3>1 DEF CommitFault, Fault, CommitPC, SourceInv, BatchInv
  <2>13. CASE Abort
    BY <2>13, <2>a, LeaveKeeps DEF Abort, CommitTypeOK
  <2>14. CASE Crash
    <3>1. CommitInv'
      BY <2>14, <2>a, KilledKeeps DEF Crash
    <3> QED BY <2>14, <3>1, NoBatch DEF Crash, SourceInv
  <2>15. CASE UNCHANGED vars
    BY <2>15, <2>a DEF vars, commitVars, SourceInv, BatchInv, CommitInv, CommitTypeOK, NeverOvershoots,
                       StoresNested, Staged, Selected, ToCommit
  <2> QED
    BY <2>1, <2>2, <2>3, <2>4, <2>5, <2>6, <2>7, <2>8, <2>9, <2>10, <2>11, <2>12, <2>13, <2>14, <2>15
       DEF Next, Stopped
<1> QED BY <1>1, <1>2, PTL DEF Spec

\* The state of the GPU driver keeps its type: every batch and every position
\* the loop takes from it are within the units and the cycles.
THEOREM TypeCorrect == Spec => []TypeOK
<1>1. SourceInv => TypeOK
  BY DEF SourceInv, CommitInv, BatchInv, TypeOK
<1> QED BY <1>1, SourceInvHolds, PTL

\* What is recorded done can be loaded by every later stage, for the GPU driver
\* too (PatchCropNode.commit_unit under _run_gpu_pool).
THEOREM StoresNestedHolds == Spec => []StoresNested
<1>1. SourceInv => StoresNested
  BY DEF SourceInv, CommitInv
<1> QED BY <1>1, SourceInvHolds, PTL

\* The GPU driver never records more than target_count items, however far its
\* batches run ahead of the target.
THEOREM NeverOvershootsHolds == Spec => []NeverOvershoots
<1>1. SourceInv => NeverOvershoots
  BY DEF SourceInv, CommitInv
<1> QED BY <1>1, SourceInvHolds, PTL

\* A run that ends because its count reached the target has stored exactly
\* target_count items, although the count may be older than done.db
\* (node.py:594, 623; the safety half of EventuallyExact).
THEOREM EndsExactHolds == Spec => []EndsExact
<1>1. Init => CountInv
  BY CountsAtStart DEF Init
<1>2. CommitInv /\ CommitInv' /\ CountInv /\ [Next]_vars => CountInv'
  <2> SUFFICES ASSUME CommitInv, CommitInv', CountInv, [Next]_vars PROVE CountInv'
    OBVIOUS
  <2> USE DEF durableVars, storeVars, loopVars, commitVars, ckptVars, GoTo
  <2>1. CASE CommitStep
    <3>1. done \subseteq done' /\ produced' \in {produced, Cardinality(done)}
      BY <2>1 DEF CommitStep, Select, PutLins, PutDpts, InsertDefs, InsertSharp, MarkDoneMany,
                  SaveViz, SaveCkptCycle, SaveCkptUnit, ClearFailed, Count
    <3> QED BY <3>1, CountKept
  <2>2. CASE Launch \/ TargetReached \/ Abort \/ Crash
    BY <2>2, CountKept DEF Launch, Resume, TargetReached, Abort, Leave, Exit, Crash, Killed
  <2>3. ASSUME NEW n \in Attempts, CollectOk(n) \/ CollectError(n) \/ CollectFault(n) \/ Pick(n)
        PROVE  CountInv'
    BY <2>3, CountKept DEF CollectOk, CollectError, CollectFault, Pick, Leave, Exit
  <2>4. CASE BuildBatch \/ Collected \/ Committed \/ BatchOver \/ CommitFault \/ UNCHANGED vars
    BY <2>4, CountKept DEF BuildBatch, Collected, Committed, BatchOver, CommitFault, Fault, vars
  <2> QED BY <2>1, <2>2, <2>3, <2>4 DEF Next, Commit, Stopped
<1>3. SourceInv => CommitInv
  BY DEF SourceInv
<1> QED BY <1>1, <1>2, <1>3, SourceInvHolds, ExactFromCount, PTL DEF Spec

\* The GPU driver produces items as UnitProduction says, one attempt at a time.
THEOREM ProductionImplemented == Spec => ImplementsProduction
<1>1. Init => P!ProductionInit
  BY DEF Init, CommitInit, P!ProductionInit
<1>2. CommitInv /\ [Next]_vars => [P!ProductionNext]_done
  <2> SUFFICES ASSUME CommitInv, [Next]_vars PROVE P!ProductionNext \/ UNCHANGED done
    OBVIOUS
  <2> USE DEF durableVars
  <2>1. CASE Commit /\ MarkDoneMany
    <3>1. cycle \in P!Cycles /\ idx \in P!UnitIdx
      BY <2>1, Params DEF MarkDoneMany, At, CommitInv, CommitTypeOK, CommitPC, Cycles, UnitIdx
    <3>2. done' = done \cup ToCommit
      BY <2>1 DEF MarkDoneMany, At, CommitInv, Selected, WritePC
    <3>3. P!Produce(cycle, idx)
      BY <3>2, SameCardinality DEF P!Produce, ToCommit
    <3> QED BY <3>1, <3>3 DEF P!ProductionNext
  <2>2. CASE Commit /\ ~MarkDoneMany
    BY <2>2 DEF Commit, CommitStep, Select, PutLins, PutDpts, InsertDefs, InsertSharp, SaveViz,
                SaveCkptCycle, SaveCkptUnit, ClearFailed, Count
  <2>3. CASE ~Commit
    BY <2>3 DEF Next, vars, commitVars, Launch, Resume, TargetReached, BuildBatch, CollectOk, CollectError,
                CollectFault, Collected, Pick, Committed, BatchOver, CommitFault, Fault, Abort, Crash, Killed,
                Stopped
  <2> QED BY <2>1, <2>2, <2>3
<1>3. SourceInv => CommitInv
  BY DEF SourceInv
<1> QED BY <1>1, <1>2, <1>3, SourceInvHolds, PTL DEF Spec, ImplementsProduction, P!ProductionSpec

----------------------------------------------------------------------------
(***************************************************************************)
(* What is lost.  The attempts below the edge of the batch are whole,      *)
(* missed, or still coming: owed by the pool, waiting in the results, or   *)
(* being committed.  What is none of these a torn checkpoint passed over.  *)
(***************************************************************************)

\* Numbers order the attempts as their cycles and units do.
LEMMA NumberOrder ==
    ASSUME NEW c \in Cycles, NEW u \in UnitIdx, NEW d \in Cycles, NEW i \in 0 .. NUnits
    PROVE  Number(c, u) < Number(d, i) <=> (c < d \/ (c = d /\ u < i))
<1>0. /\ c \in Nat /\ d \in Nat /\ u \in Nat /\ i \in Nat /\ NUnits \in Nat
      /\ u < NUnits /\ i <= NUnits
  BY Params
<1>1. ASSUME NEW a \in Nat, NEW b \in Nat, a < b PROVE a * NUnits + NUnits <= b * NUnits
  <2>1. a + 1 \in Nat /\ a + 1 <= b
    BY <1>1
  <2>2. NUnits * (a + 1) <= NUnits * b
    BY <1>0, <2>1, ProductGrows
  <2>3. NUnits * (a + 1) = a * NUnits + NUnits /\ NUnits * b = b * NUnits
    BY <1>0
  <2> QED BY <2>2, <2>3
<1>2. c * NUnits \in Nat /\ d * NUnits \in Nat
  BY <1>0, ProductType
<1>3. CASE c < d
  <2>1. c * NUnits + NUnits <= d * NUnits
    BY <1>0, <1>1, <1>3
  <2> QED BY <1>0, <1>2, <1>3, <2>1 DEF Number
<1>4. CASE d < c
  <2>1. d * NUnits + NUnits <= c * NUnits
    BY <1>0, <1>1, <1>4
  <2> QED BY <1>0, <1>2, <1>4, <2>1 DEF Number
<1>5. CASE c = d
  BY <1>0, <1>2, <1>5 DEF Number
<1> QED BY <1>0, <1>3, <1>4, <1>5

LEMMA NumberInverse ==
    ASSUME NEW c \in Cycles, NEW u \in UnitIdx
    PROVE  /\ Number(c, u) \in Attempts
           /\ \A n \in Attempts : n = Number(c, u) => CycleOf(n) = c /\ UnitOf(n) = u
<1>0. c \in Nat /\ u \in Nat /\ NUnits \in 0 .. NUnits /\ MaxCycle \in Cycles
      /\ u < NUnits /\ c <= MaxCycle
  BY Params
<1>1. Number(c, u) < Number(MaxCycle, NUnits)
  BY <1>0, NumberOrder
<1>2. Number(c, u) \in Nat
  BY <1>0, NumberType
<1>3. ASSUME NEW n \in Attempts, n = Number(c, u) PROVE CycleOf(n) = c /\ UnitOf(n) = u
  <2>1. CycleOf(n) \in Cycles /\ UnitOf(n) \in UnitIdx /\ n = Number(CycleOf(n), UnitOf(n))
    BY AttemptIsUnit
  <2>2. u \in 0 .. NUnits /\ UnitOf(n) \in 0 .. NUnits
    BY <2>1, Params
  <2>3. n \in Nat
    BY <1>2, <1>3
  <2>4. ~(Number(c, u) < Number(CycleOf(n), UnitOf(n))) /\ ~(Number(CycleOf(n), UnitOf(n)) < Number(c, u))
    BY <1>3, <2>1, <2>3
  <2>5. /\ ~(c < CycleOf(n) \/ (c = CycleOf(n) /\ u < UnitOf(n)))
        /\ ~(CycleOf(n) < c \/ (CycleOf(n) = c /\ UnitOf(n) < u))
    BY <2>1, <2>2, <2>4, NumberOrder
  <2> QED BY <1>0, <2>1, <2>5, Params
<1> QED BY <1>1, <1>2, <1>3, LastNumber DEF Attempts

Here == Number(cycle, idx)

BeforeDone == {"select", "raised"} \cup WritePC

Current == IF pc \in BeforeDone THEN {Here} ELSE {}
Coming == pending \cup results \cup Current
Edge == IF pc = "loop" THEN Here ELSE ahead

Gone ==
    {cu \in Cycles \X UnitIdx :
        /\ Number(cu[1], cu[2]) < Edge /\ Number(cu[1], cu[2]) \notin Coming
        /\ ~Whole(cu[1], cu[2]) /\ cu \notin missed}

\* The loop position stands below the attempts that are still coming.
OrderInv ==
    /\ pc # "collect" => pending = {}
    /\ pc \in {"loop", "down"} => results = {}
    /\ pc # "down" => Here <= Edge
    /\ pc = "down" => cycle = 0 /\ idx = 0
    /\ \A n \in pending \cup results : Here <= n /\ n < ahead
    /\ pc \in CommitPC \cup {"select", "raised", "next"} =>
            Here < Edge /\ \A n \in results : Here < n

LossInv ==
    /\ CkptInv
    /\ produced <= Cardinality(done)
    /\ OrderInv
    /\ pc # "down" => Few(Gone, Interruptions)

LEMMA HereType == CommitTypeOK => Here \in Nat
BY Params, NumberType DEF CommitTypeOK, Here

LEMMA GoneType == Gone \in SUBSET (Cycles \X UnitIdx)
BY DEF Gone

\* Behind the loop position nothing is coming.
LEMMA LossIsGone ==
    ASSUME SourceInv, OrderInv, pc # "down"
    PROVE  LossAt(cycle, idx) \subseteq Gone
<1> SUFFICES ASSUME NEW cu \in LossAt(cycle, idx) PROVE cu \in Gone
  OBVIOUS
<1>1. /\ cu \in Cycles \X UnitIdx /\ cu[1] \in Cycles /\ cu[2] \in UnitIdx
      /\ ~Whole(cu[1], cu[2]) /\ cu \notin missed
      /\ cu[1] < cycle \/ (cu[1] = cycle /\ cu[2] < idx)
  BY DEF LossAt
<1>2. cycle \in Cycles /\ idx \in 0 .. NUnits
  BY DEF SourceInv, CommitInv, CommitTypeOK
<1>3. Number(cu[1], cu[2]) < Here
  BY <1>1, <1>2, NumberOrder DEF Here
<1>4. Here \in Nat /\ Number(cu[1], cu[2]) \in Nat /\ Edge \in Nat
  BY <1>1, NumberInverse, LastNumber, HereType DEF SourceInv, CommitInv, Attempts, Edge, BatchInv
<1>5. Number(cu[1], cu[2]) < Edge
  BY <1>3, <1>4 DEF OrderInv
<1>6. Number(cu[1], cu[2]) \notin Coming
  <2>1. \A n \in pending \cup results : n \in Nat
    BY LastNumber DEF SourceInv, BatchInv, Attempts
  <2>2. \A n \in Coming : n \in Nat /\ Here <= n
    BY <1>4, <2>1 DEF OrderInv, Coming, Current
  <2> QED BY <1>3, <1>4, <2>2
<1> QED BY <1>1, <1>5, <1>6 DEF Gone

\* What comes is committed or recorded, or goes on coming.
LEMMA GoneShrinks ==
    ASSUME CommitInv, CommitInv', done \subseteq done', missed \subseteq missed', Edge' = Edge,
           \A cu \in Cycles \X UnitIdx :
                Number(cu[1], cu[2]) \in Coming =>
                    \/ Number(cu[1], cu[2]) \in Coming' \/ Whole(cu[1], cu[2])' \/ cu \in missed'
    PROVE  Gone' \subseteq Gone
BY WholeStays DEF Gone

LEMMA GoneKept ==
    ASSUME SourceInv, LossInv, pc # "down", Gone' \subseteq Gone,
           Interruptions' = Interruptions \/ Interruptions' = Interruptions + 1
    PROVE  Few(Gone, Interruptions)'
<1>1. Interruptions \in Nat /\ Few(Gone, Interruptions)
  BY InterruptionsType DEF SourceInv, CommitInv, LossInv
<1>2. Few(Gone', Interruptions) /\ Few(Gone', Interruptions + 1)
  BY <1>1, GoneType, FewSubset
<1> QED BY <1>2 DEF Few

\* The end of a run.
LEMMA LeaveLoss ==
    ASSUME SourceInv, SourceInv', LossInv, Exit, UNCHANGED <<done, ckptVars>>, missed \subseteq missed',
           pending' = {}, results' = {},
           \/ Interruptions' = Interruptions /\ pc # "ckUnit"
           \/ Interruptions' = Interruptions + 1
    PROVE  LossInv'
<1>1. CkptInv'
  BY ExitLoss DEF SourceInv, LossInv
<1>2. Cardinality(done') \in Nat
  BY FS_CardinalityType DEF SourceInv, CommitInv
<1> QED BY <1>1, <1>2 DEF Exit, LossInv, OrderInv, CommitPC

LEMMA LossInvHolds == Spec => []LossInv
<1>1. Init => LossInv
  <2> SUFFICES ASSUME Init PROVE LossInv
    OBVIOUS
  <2>1. CkptInv /\ Cardinality(done) = 0
    BY CkptInvInit, FS_EmptySet DEF Init, CommitInit
  <2> QED BY <2>1 DEF Init, CommitInit, LossInv, OrderInv, CommitPC
<1>2. SourceInv /\ SourceInv' /\ LossInv /\ [Next]_vars => LossInv'
  <2> SUFFICES ASSUME SourceInv, SourceInv', LossInv, [Next]_vars PROVE LossInv'
    OBVIOUS
  <2> USE DEF At, durableVars, storeVars, loopVars, poolVars
  <2>a. /\ CommitInv /\ CommitInv' /\ CommitTypeOK /\ CommitTypeOK' /\ BatchInv /\ BatchInv'
        /\ CkptInv /\ OrderInv /\ produced <= Cardinality(done)
    BY DEF SourceInv, CommitInv, LossInv
  <2>b. ASSUME NEW k \in {"run", "crash", "raise", "fault"}, Spend(k)
        PROVE  Interruptions' = IF k \in {"crash", "fault"} THEN Interruptions + 1 ELSE Interruptions
    BY <2>a, <2>b, SpendCounts
  <2>c. UNCHANGED used => Interruptions' = Interruptions
    BY DEF Interruptions
  <2>d. /\ Here \in Nat /\ Here' \in Nat /\ Cardinality(done) \in Nat
        /\ \A n \in Attempts : n \in Nat
        /\ ahead \in Nat /\ ahead' \in Nat
        /\ pending \cup results \subseteq Attempts
    <3>1. Here \in Nat
      BY <2>a, HereType
    <3>2. Here' \in Nat
      <4>1. cycle' \in Nat /\ idx' \in Nat
        BY <2>a, Params DEF CommitTypeOK
      <4> QED BY <4>1, NumberType DEF Here
    <3>3. Cardinality(done) \in Nat
      BY <2>a, FS_CardinalityType DEF CommitInv
    <3> QED BY <2>a, <3>1, <3>2, <3>3, LastNumber DEF BatchInv, Attempts
  <2>e. UNCHANGED <<cycle, idx>> => Here' = Here
    BY DEF Here
  <2>1. CASE Launch
    <3>1. CkptInv' /\ Few(LossAt(cycle, idx), Interruptions)'
      BY <2>1, <2>a, ResumeLoss DEF Launch
    <3>2. pc' = "loop" /\ pending' = {} /\ results' = {}
      BY <2>1, <2>a DEF Launch, Resume, OrderInv
    <3>3. Gone' \in SUBSET (LossAt(cycle, idx)')
      <4>1. ASSUME NEW cu \in Cycles \X UnitIdx, Number(cu[1], cu[2]) < Here'
            PROVE  cu[1] < cycle' \/ (cu[1] = cycle' /\ cu[2] < idx')
        <5>1. cu[1] \in Cycles /\ cu[2] \in UnitIdx /\ cycle' \in Cycles /\ idx' \in 0 .. NUnits
          BY <2>a DEF CommitTypeOK
        <5> QED BY <4>1, <5>1, NumberOrder DEF Here
      <4> QED BY <3>2, <4>1 DEF Gone, Edge, LossAt
    <3>4. Few(Gone', Interruptions')
      <4>1. LossAt(cycle, idx)' \in SUBSET (Cycles \X UnitIdx)
        BY DEF LossAt
      <4>2. Interruptions' \in Nat
        BY <2>1, <2>a, <2>b, InterruptionsType DEF Launch, Resume
      <4>3. Few(LossAt(cycle, idx)', Interruptions')
        BY <3>1 DEF Few
      <4> QED BY <3>3, <4>1, <4>2, <4>3, FewSubset
    <3>5. Few(Gone, Interruptions)'
      BY <3>4 DEF Few
    <3>6. produced' <= Cardinality(done')
      BY <2>1, <2>d DEF Launch, Resume
    <3>7. OrderInv'
      BY <2>d, <3>2 DEF OrderInv, CommitPC, Edge
    <3> QED BY <3>1, <3>5, <3>6, <3>7 DEF LossInv
  <2>2. CASE TargetReached
    BY <2>2, <2>c, LeaveLoss DEF TargetReached, Leave
  <2>3. CASE BuildBatch
    <3>1. /\ pc = "loop" /\ pc' = "collect" /\ Here' = Here /\ results' = {}
          /\ pending' = Here .. Here + Batch - 1 /\ ahead' = Here + Batch
          /\ UNCHANGED <<done, missed, ckptVars, produced>> /\ Interruptions' = Interruptions
      BY <2>3, <2>c DEF BuildBatch, Here
    <3>2. Batch \in Nat \ {0}
      BY BatchAssumption
    <3>3. Gone' \subseteq Gone
      <4> SUFFICES ASSUME NEW cu \in Gone' PROVE cu \in Gone
        OBVIOUS
      <4>1. /\ cu \in Cycles \X UnitIdx /\ cu[1] \in Cycles /\ cu[2] \in UnitIdx
            /\ Number(cu[1], cu[2]) < Edge' /\ Number(cu[1], cu[2]) \notin Coming'
        BY DEF Gone
      <4>2. Number(cu[1], cu[2]) \in Nat
        BY <4>1, <2>d, NumberInverse
      <4>3. Number(cu[1], cu[2]) < Here
        BY <2>d, <3>1, <3>2, <4>1, <4>2 DEF Edge, Coming
      <4>4. \A n \in Coming : Here <= n
        BY <3>1, <2>a DEF Coming, Current, BeforeDone, WritePC, OrderInv
      <4>5. Number(cu[1], cu[2]) \notin Coming
        BY <2>d, <4>2, <4>3, <4>4
      <4> QED BY <3>1, <4>1, <4>3, <4>5 DEF Gone, Edge, Whole
    <3>4. OrderInv'
      BY <2>d, <3>1, <3>2 DEF OrderInv, CommitPC, Edge
    <3>5. CkptInv'
      BY <2>a, <3>1, CkptOutside DEF AfterDone
    <3> QED BY <2>a, <3>1, <3>3, <3>4, <3>5, GoneKept DEF LossInv
  <2>4. ASSUME NEW n \in Attempts, CollectOk(n) PROVE LossInv'
    <3>1. /\ pc = "collect" /\ UNCHANGED <<pc, cycle, idx, done, missed, ckptVars, produced, ahead>>
          /\ Interruptions' = Interruptions /\ pending' \cup results' = pending \cup results
      BY <2>4, <2>c DEF CollectOk, commitVars
    <3>2. Here' = Here /\ Coming' = Coming /\ Edge' = Edge
      BY <2>e, <3>1 DEF Coming, Current, BeforeDone, WritePC, Edge
    <3>3. Gone' \subseteq Gone
      BY <2>a, <3>1, <3>2, GoneShrinks
    <3>4. OrderInv'
      BY <2>a, <3>1, <3>2 DEF OrderInv, CommitPC
    <3>5. CkptInv'
      BY <2>a, <3>1, CkptSame
    <3> QED BY <2>a, <3>1, <3>3, <3>4, <3>5, GoneKept DEF LossInv
  <2>5. ASSUME NEW n \in Attempts, CollectError(n) PROVE LossInv'
    <3>0. /\ pc = "collect" /\ UNCHANGED <<done, ckptVars>> /\ Interruptions' = Interruptions
          /\ missed' = missed \cup {<<CycleOf(n), UnitOf(n)>>}
      BY <2>5, <2>b DEF CollectError
    <3>1. CASE Leave
      BY <3>0, <3>1, LeaveLoss DEF Leave
    <3>2. CASE pending' = pending \ {n} /\ UNCHANGED <<pc, loopVars, results, ahead, failFast>>
      <4>1. Here' = Here /\ Edge' = Edge /\ Coming' = Coming \ ({n} \ results)
        BY <2>e, <3>0, <3>2 DEF Coming, Current, BeforeDone, WritePC, Edge
      <4>2. ASSUME NEW cu \in Cycles \X UnitIdx, Number(cu[1], cu[2]) = n PROVE cu \in missed'
        <5>1. cu[1] \in Cycles /\ cu[2] \in UnitIdx /\ cu = <<cu[1], cu[2]>>
          OBVIOUS
        <5>2. CycleOf(n) = cu[1] /\ UnitOf(n) = cu[2]
          BY <4>2, <5>1, NumberInverse
        <5> QED BY <3>0, <5>1, <5>2
      <4>3. Gone' \subseteq Gone
        BY <2>a, <3>0, <3>2, <4>1, <4>2, GoneShrinks
      <4>4. OrderInv'
        BY <2>a, <3>0, <3>2, <4>1 DEF OrderInv, CommitPC
      <4>5. CkptInv'
        BY <2>a, <3>0, <3>2, CkptOutside DEF AfterDone
      <4> QED BY <2>a, <3>0, <3>2, <4>3, <4>4, <4>5, GoneKept DEF LossInv
    <3> QED BY <2>5, <3>1, <3>2 DEF CollectError
  <2>6. ASSUME NEW n \in Attempts, CollectFault(n) PROVE LossInv'
    BY <2>6, <2>b, LeaveLoss DEF CollectFault, Leave
  <2>7. CASE Collected
    <3>1. /\ pc = "collect" /\ pc' = "pick" /\ pending = {}
          /\ UNCHANGED <<cycle, idx, done, missed, ckptVars, produced, pending, results, ahead>>
          /\ Interruptions' = Interruptions
      BY <2>7, <2>c DEF Collected
    <3>2. Here' = Here /\ Coming' = Coming /\ Edge' = Edge
      BY <2>e, <3>1 DEF Coming, Current, BeforeDone, WritePC, Edge
    <3>3. Gone' \subseteq Gone
      BY <2>a, <3>1, <3>2, GoneShrinks
    <3>4. OrderInv'
      BY <2>a, <3>1, <3>2 DEF OrderInv, CommitPC
    <3>5. CkptInv'
      BY <2>a, <3>1, CkptOutside DEF AfterDone
    <3> QED BY <2>a, <3>1, <3>3, <3>4, <3>5, GoneKept DEF LossInv
  <2>8. ASSUME NEW n \in Attempts, Pick(n) PROVE LossInv'
    <3>1. /\ pc = "pick" /\ pc' = "select" /\ n \in results /\ results' = results \ {n}
          /\ UNCHANGED <<done, missed, ckptVars, produced, pending, ahead>>
          /\ Interruptions' = Interruptions /\ pending = {}
          /\ \A k \in results : n <= k
      BY <2>8, <2>a, <2>c DEF Pick, First, OrderInv
    <3>2. Here' = n
      BY <2>8, AttemptIsUnit DEF Pick, Here
    <3>3. n < ahead
      BY <3>1, <2>a DEF OrderInv
    <3>4. Coming' = Coming /\ Edge' = Edge
      BY <3>1, <3>2 DEF Coming, Current, BeforeDone, WritePC, Edge
    <3>5. Gone' \subseteq Gone
      BY <2>a, <3>1, <3>4, GoneShrinks
    <3>6. OrderInv'
      <4>1. Edge' = ahead' /\ ahead' = ahead
        BY <3>1 DEF Edge
      <4>2. \A k \in results : k \in Nat /\ n <= k /\ k < ahead
        BY <2>a, <2>d, <3>1 DEF OrderInv
      <4>3. \A k \in results' : n < k /\ n <= k /\ k < ahead
        BY <2>d, <3>1, <4>2
      <4>4. Here' < Edge' /\ Here' <= Edge'
        BY <2>d, <3>2, <3>3, <4>1
      <4>5. \A k \in pending' \cup results' : Here' <= k /\ k < ahead' /\ Here' < k
        BY <3>1, <3>2, <4>1, <4>3
      <4>6. pc' = "select" /\ pending' = {}
        BY <3>1
      <4> QED BY <4>4, <4>5, <4>6 DEF OrderInv
    <3>7. CkptInv'
      BY <2>a, <3>1, CkptOutside DEF AfterDone
    <3> QED BY <2>a, <3>1, <3>5, <3>6, <3>7, GoneKept DEF LossInv
  <2>9. CASE Commit
    <3>1. /\ UNCHANGED <<cycle, idx, used, missed, pending, results, ahead>> /\ done \subseteq done'
          /\ pc \in CommitPC \cup {"select"} /\ pc' \in CommitPC \cup {"next"}
          /\ Interruptions' = Interruptions
      BY <2>9, <2>c DEF Commit, CommitStep, Select, PutLins, PutDpts, InsertDefs, InsertSharp, MarkDoneMany,
                        SaveViz, SaveCkptCycle, SaveCkptUnit, ClearFailed, Count, GoTo, CommitPC
    <3>2. Here' = Here /\ Edge' = Edge /\ pending = {} /\ pc # "down"
      BY <2>a, <2>e, <3>1 DEF Edge, OrderInv, CommitPC
    <3>3. LossAt(cycle, idx) \subseteq Gone /\ Interruptions \in Nat
      BY <2>a, <3>2, LossIsGone, InterruptionsType DEF LossInv
    <3>4. Few(LossAt(cycle, idx), Interruptions)
      BY <3>2, <3>3, GoneType, FewSubset DEF LossInv
    <3>5. CkptInv'
      BY <2>9, <2>a, <3>4, CommitStepCkpt DEF Commit
    <3>6. pc' \in BeforeDone \/ Whole(cycle, idx)'
      BY <3>1, <3>5 DEF CkptInv, AfterDone, BeforeDone, WritePC, CommitPC
    <3>7. ASSUME NEW cu \in Cycles \X UnitIdx, Number(cu[1], cu[2]) \in Coming
          PROVE  Number(cu[1], cu[2]) \in Coming' \/ Whole(cu[1], cu[2])'
      <4>1. CASE Number(cu[1], cu[2]) \in results
        BY <3>1, <4>1 DEF Coming
      <4>2. CASE Number(cu[1], cu[2]) = Here
        <5>1. cu[1] \in Cycles /\ cu[2] \in UnitIdx /\ cycle \in Cycles /\ idx \in UnitIdx
          BY <2>a, <3>1, Params DEF CommitTypeOK
        <5>2. cu[1] = cycle /\ cu[2] = idx
          BY <4>2, <5>1, NumberInverse DEF Here
        <5> QED BY <3>1, <3>2, <3>6, <4>2, <5>2 DEF Coming, Current, Whole
      <4> QED BY <3>2, <3>7, <4>1, <4>2 DEF Coming, Current
    <3>8. Gone' \subseteq Gone
      BY <2>a, <3>1, <3>2, <3>7, GoneShrinks
    <3>9. OrderInv'
      BY <2>a, <3>1, <3>2 DEF OrderInv, CommitPC, Edge
    <3>10. produced' <= Cardinality(done')
      <4>1. Cardinality(done') \in Nat /\ Cardinality(done) <= Cardinality(done') /\ produced \in Nat
        BY <2>a, <3>1, FS_Subset, FS_CardinalityType DEF CommitInv, CommitTypeOK
      <4>2. produced' = produced \/ produced' = Cardinality(done')
        BY <2>9 DEF Commit, CommitStep, Select, PutLins, PutDpts, InsertDefs, InsertSharp, MarkDoneMany,
                    SaveViz, SaveCkptCycle, SaveCkptUnit, ClearFailed, Count, GoTo
      <4> QED BY <2>a, <2>d, <4>1, <4>2
    <3> QED BY <3>1, <3>2, <3>5, <3>8, <3>9, <3>10, GoneKept DEF LossInv
  <2>10. CASE Committed
    <3>1. /\ pc = "next" /\ pc' = "pick" /\ cycle' = cycle /\ idx' = idx + 1
          /\ UNCHANGED <<done, missed, ckptVars, produced, pending, results, ahead>>
          /\ Interruptions' = Interruptions
      BY <2>10, <2>c DEF Committed
    <3>2. Here' = Here + 1
      <4>1. cycle * NUnits \in Nat /\ idx \in Nat
        BY <2>a, Params, ProductType DEF CommitTypeOK
      <4> QED BY <3>1, <4>1 DEF Here, Number
    <3>3. Coming' = Coming /\ Edge' = Edge
      BY <3>1 DEF Coming, Current, BeforeDone, WritePC, Edge
    <3>4. Gone' \subseteq Gone
      BY <2>a, <3>1, <3>3, GoneShrinks
    <3>5. OrderInv'
      BY <2>a, <2>d, <3>1, <3>2 DEF OrderInv, CommitPC, Edge
    <3>6. CkptInv'
      BY <2>a, <3>1, CkptOutside DEF AfterDone
    <3> QED BY <2>a, <3>1, <3>4, <3>5, <3>6, GoneKept DEF LossInv
  <2>11. CASE BatchOver
    <3>1. /\ pc = "pick" /\ pc' = "loop" /\ results' = {} /\ pending = {} /\ pending' = {}
          /\ UNCHANGED <<done, missed, ckptVars, produced>>
          /\ Interruptions' = Interruptions
          /\ produced >= Target \/ results = {}
      BY <2>11, <2>a, <2>c DEF BatchOver, OrderInv
    <3>2. Here' = ahead
      <4>1. cycle' * NUnits \in Nat
        <5>1. cycle' \in Nat /\ NUnits \in Nat
          BY <2>a, Params DEF CommitTypeOK
        <5> QED BY <5>1, ProductType
      <4>2. idx' = ahead - (cycle' * NUnits + 0)
        BY <2>11 DEF BatchOver, Number
      <4> QED BY <2>d, <4>1, <4>2 DEF Here, Number
    <3>3. Edge' = Edge
      BY <3>1, <3>2 DEF Edge
    <3>4. Gone' \subseteq Gone
      <4>1. CASE produced >= Target
        <5>1. Cardinality(done) >= Target
          BY <2>a, <2>d, <4>1, Params DEF CommitTypeOK
        <5> QED BY <3>1, <5>1 DEF Gone, Whole
      <4>2. CASE results = {}
        <5>1. Coming = {}
          BY <3>1, <4>2 DEF Coming, Current, BeforeDone, WritePC
        <5> QED BY <2>a, <3>1, <3>3, <5>1, GoneShrinks
      <4> QED BY <3>1, <4>1, <4>2
    <3>5. OrderInv'
      BY <2>d, <3>1 DEF OrderInv, CommitPC, Edge
    <3>6. CkptInv'
      BY <2>a, <3>1, CkptOutside DEF AfterDone
    <3> QED BY <2>a, <3>1, <3>4, <3>5, <3>6, GoneKept DEF LossInv
  <2>12. CASE CommitFault
    <3>1. /\ pc \in CommitPC /\ pc' = "raised"
          /\ UNCHANGED <<cycle, idx, done, missed, ckptVars, produced, pending, results, ahead>>
          /\ Interruptions' = Interruptions + 1
      BY <2>12, <2>b DEF CommitFault, Fault
    <3>2. Here' = Here /\ Edge' = Edge /\ Coming \subseteq Coming'
      BY <2>e, <3>1 DEF Coming, Current, BeforeDone, Edge, CommitPC
    <3>3. Gone' \subseteq Gone
      BY <2>a, <3>1, <3>2, GoneShrinks
    <3>4. OrderInv'
      BY <2>a, <3>1, <3>2 DEF OrderInv, CommitPC, Edge
    <3>5. CkptInv'
      BY <2>a, <3>1, CkptOutside DEF AfterDone
    <3>6. pc # "down"
      BY <3>1 DEF CommitPC
    <3> QED BY <2>a, <3>1, <3>3, <3>4, <3>5, <3>6, GoneKept DEF LossInv
  <2>13. CASE Abort
    BY <2>13, <2>c, LeaveLoss DEF Abort, Leave
  <2>14. CASE Crash
    BY <2>14, <2>b, LeaveLoss DEF Crash, Killed
  <2>15. CASE UNCHANGED vars
    <3>1. /\ UNCHANGED <<pc, cycle, idx, done, missed, ckptVars, produced, pending, results, ahead>>
          /\ Interruptions' = Interruptions
      BY <2>15, <2>c DEF vars, commitVars
    <3>2. Here' = Here /\ Coming' = Coming /\ Edge' = Edge
      BY <2>e, <3>1 DEF Coming, Current, Edge
    <3>3. Gone' \subseteq Gone
      BY <2>a, <3>1, <3>2, GoneShrinks
    <3>4. OrderInv'
      BY <2>a, <3>1, <3>2 DEF OrderInv
    <3>5. CkptInv'
      BY <2>a, <3>1, CkptSame
    <3> QED BY <2>a, <3>1, <3>3, <3>4, <3>5, GoneKept DEF LossInv
  <2> QED
    BY <2>1, <2>2, <2>3, <2>4, <2>5, <2>6, <2>7, <2>8, <2>9, <2>10, <2>11, <2>12, <2>13, <2>14, <2>15
       DEF Next, Stopped
<1> QED BY <1>1, <1>2, SourceInvHolds, PTL DEF Spec

\* With GPU batches too an interruption costs at most the units of one cycle
\* after its first (_save_checkpoint and the restart under _run_gpu_pool).
THEOREM LossIsBoundedHolds == Spec => []LossIsBounded
<1>1. SourceInv /\ LossInv => LossIsBounded
  <2> SUFFICES ASSUME SourceInv, LossInv PROVE LossIsBounded
    OBVIOUS
  <2>1. Interruptions \in Nat
    BY InterruptionsType DEF SourceInv, CommitInv
  <2>2. Few(LossAt(cycle, idx), Interruptions)
    <3>1. CASE pc = "down"
      <4>1. LossAt(cycle, idx) = {}
        BY <3>1, LossAtStart DEF LossInv, OrderInv
      <4> QED BY <2>1, <4>1, FewNone
    <3>2. CASE pc # "down"
      BY <2>1, <3>2, LossIsGone, GoneType, FewSubset DEF LossInv
    <3> QED BY <3>1, <3>2
  <2>3. Lost = LossAt(cycle, idx)
    BY DEF Lost, LossAt, Passed
  <2> QED BY <2>2, <2>3 DEF Few, LossIsBounded, Interruptions
<1> QED BY <1>1, SourceInvHolds, LossInvHolds, PTL

----------------------------------------------------------------------------
(* The order of the items. *)

\* An item belongs to one attempt, and stands at one place in it.
LEMMA ItemPlace ==
    ASSUME NEW x \in P!AllItems
    PROVE  /\ x[1] \in Cycles /\ x[2] \in UnitIdx /\ x[3] \in Nat
           /\ x \in P!ItemsOf(x[1], x[2])
<1>1. PICK cu \in P!Cycles \X P!UnitIdx : x \in P!ItemsOf(cu[1], cu[2])
  BY DEF P!AllItems
<1>2. cu[1] \in Cycles /\ cu[2] \in UnitIdx
  BY <1>1 DEF Cycles, UnitIdx
<1>3. x[1] = cu[1] /\ x[2] = cu[2]
  <2>1. PICK k \in 1 .. Yield[cu[1], cu[2]] : x = <<cu[1], cu[2], k>>
    BY <1>1 DEF P!ItemsOf
  <2> QED BY <2>1
<1> QED BY <1>1, <1>2, <1>3, ItemsFinite

\* What is committed with x was not done, and what comes before x in its unit
\* is committed with it.
LEMMA CommittedInOrder ==
    ASSUME CommitInv, pc = "done", NEW x \in ToCommit
    PROVE  /\ x[1] = cycle /\ x[2] = idx
           /\ Cardinality(done) < Target
           /\ \A y \in P!ItemsOf(cycle, idx) \ done : y[3] < x[3] => y \in ToCommit
<1> DEFINE S == P!ItemsOf(cycle, idx) \ done
           n == Target - Cardinality(done)
<1>1. cycle \in Cycles /\ idx \in UnitIdx
  BY Params DEF CommitInv, CommitTypeOK, CommitPC
<1>2. n \in Nat /\ Cardinality(done) \in Nat
  BY ToCommitFits, Params DEF CommitPC, CommitInv, NeverOvershoots
<1>3. ToCommit = P!FirstOf(S, n)
  BY SameCardinality DEF ToCommit
<1>4. x \in S /\ Cardinality(P!Before(x, S)) < n
  BY <1>3, SameCardinality DEF P!FirstOf
<1>5. IsFiniteSet(S) /\ \A z \in S : z[3] \in Nat
  BY <1>1, ItemsFinite, FS_Subset
<1>6. \A z \in S : P!Before(z, S) \in SUBSET S
  BY DEF P!Before
<1>7. \A z \in S : IsFiniteSet(P!Before(z, S)) /\ Cardinality(P!Before(z, S)) \in Nat
  BY <1>5, <1>6, FS_Subset, FS_CardinalityType
<1>8. Cardinality(done) < Target
  <2>1. ASSUME NEW r \in Nat, r < n PROVE Cardinality(done) < Target
    BY <1>2, <2>1, Params
  <2> QED BY <1>4, <1>7, <2>1
<1>9. ASSUME NEW y \in S, y[3] < x[3] PROVE y \in ToCommit
  <2>1. P!Before(y, S) \in SUBSET P!Before(x, S)
    BY <1>4, <1>5, <1>9 DEF P!Before
  <2>2. Cardinality(P!Before(y, S)) <= Cardinality(P!Before(x, S))
    BY <1>4, <1>7, <2>1, FS_Subset
  <2>3. Cardinality(P!Before(y, S)) < n
    BY <1>2, <1>4, <1>7, <2>2
  <2> QED BY <1>3, <2>3, SameCardinality DEF P!FirstOf
<1>10. x[1] = cycle /\ x[2] = idx
  <2>1. PICK k \in 1 .. Yield[cycle, idx] : x = <<cycle, idx, k>>
    BY <1>4 DEF P!ItemsOf
  <2> QED BY <2>1
<1> QED BY <1>8, <1>9, <1>10

\* Without an interruption nothing is lost, so a commit finds every earlier
\* attempt whole or missed.
LEMMA MarkDoneInOrder ==
    ASSUME SourceInv, LossInv, MarkDoneMany, UNCHANGED missed, Interruptions = 0,
           \A x \in done, y \in P!AllItems \ done : Earlier(y, x) => <<y[1], y[2]>> \in missed,
           NEW x \in done', NEW y \in P!AllItems \ done', Earlier(y, x)
    PROVE  <<y[1], y[2]>> \in missed
<1>0. pc = "done" /\ done' = done \cup ToCommit
  BY DEF MarkDoneMany, At, SourceInv, CommitInv, Selected, WritePC
<1>1. CASE x \in done
  BY <1>0, <1>1
<1>2. CASE x \in ToCommit
  <2>1. /\ x[1] = cycle /\ x[2] = idx /\ Cardinality(done) < Target
        /\ \A z \in P!ItemsOf(cycle, idx) \ done : z[3] < x[3] => z \in ToCommit
    BY <1>0, <1>2, CommittedInOrder DEF SourceInv
  <2>2. y[1] \in Cycles /\ y[2] \in UnitIdx /\ y \in P!ItemsOf(y[1], y[2])
    BY ItemPlace
  <2>3. y[1] < cycle \/ (y[1] = cycle /\ y[2] < idx)
    BY <1>0, <2>1, <2>2 DEF Earlier
  <2>4. LossAt(cycle, idx) = {}
    <3>1. LossAt(cycle, idx) \in SUBSET Gone
      BY <1>0, LossIsGone DEF LossInv
    <3>2. Gone = {}
      BY <1>0, GoneType, FewOfNone DEF LossInv
    <3> QED BY <3>1, <3>2
  <2>5. ~Whole(y[1], y[2])
    <3>1. y \notin done
      BY <1>0
    <3>2. ~(Cardinality(done) >= Target)
      <4>1. Cardinality(done) \in Nat
        BY FS_CardinalityType DEF SourceInv, CommitInv
      <4> QED BY <2>1, <4>1, Params
    <3> QED BY <2>2, <3>1, <3>2 DEF Whole
  <2> QED BY <2>2, <2>3, <2>4, <2>5 DEF LossAt
<1> QED BY <1>0, <1>1, <1>2

\* In a run of the stage without crash or store fault, and through any number
\* of exceptions and restarts, an item appears after every earlier one, except
\* those of attempts that failed: the produced set does not depend on which GPU
\* answers first (_run_gpu_pool, node.py:578-581).
THEOREM ProducedInOrderHolds == Spec => []ProducedInOrder
<1>1. Init => ProducedInOrder
  BY DEF Init, CommitInit, ProducedInOrder
<1>2. SourceInv /\ LossInv /\ ProducedInOrder /\ [Next]_vars => ProducedInOrder'
  <2> SUFFICES ASSUME SourceInv, LossInv, ProducedInOrder, [Next]_vars, Interruptions' = 0
               PROVE  \A x \in done', y \in P!AllItems \ done' :
                        Earlier(y, x) => <<y[1], y[2]>> \in missed'
    BY DEF ProducedInOrder, Interruptions
  <2>1. CommitTypeOK /\ Interruptions \in Nat
    BY InterruptionsType DEF SourceInv, CommitInv
  <2>2. /\ missed \subseteq missed'
        /\ \/ UNCHANGED done
           \/ Commit /\ MarkDoneMany
        /\ UNCHANGED used \/ \E k \in {"run", "crash", "raise", "fault"} : Spend(k)
    BY DEF Next, vars, commitVars, durableVars, loopVars, poolVars, Launch, Resume, TargetReached, Leave, BuildBatch,
           CollectOk, CollectError, CollectFault, Collected, Pick, Commit, Committed, BatchOver, CommitFault,
           Fault, Abort, Crash, Killed, Stopped, CommitStep, Select, PutLins, PutDpts, InsertDefs, InsertSharp,
           MarkDoneMany, SaveViz, SaveCkptCycle, SaveCkptUnit, ClearFailed, Count, GoTo
  <2>3. Interruptions' = Interruptions \/ Interruptions' = Interruptions + 1
    <3>1. CASE UNCHANGED used
      BY <3>1 DEF Interruptions
    <3>2. CASE \E k \in {"run", "crash", "raise", "fault"} : Spend(k)
      BY <2>1, <3>2, SpendCounts
    <3> QED BY <2>2, <3>1, <3>2
  <2>4. Interruptions = 0
    BY <2>1, <2>3
  <2>5. \A x \in done, y \in P!AllItems \ done : Earlier(y, x) => <<y[1], y[2]>> \in missed
    BY <2>4 DEF ProducedInOrder, Interruptions
  <2>6. CASE UNCHANGED done
    BY <2>2, <2>5, <2>6
  <2>7. CASE Commit /\ MarkDoneMany
    <3>1. UNCHANGED missed
      BY <2>7 DEF MarkDoneMany, GoTo
    <3> QED BY <2>4, <2>5, <2>7, <3>1, MarkDoneInOrder
  <2> QED BY <2>2, <2>6, <2>7
<1> QED BY <1>1, <1>2, SourceInvHolds, LossInvHolds, PTL DEF Spec
=============================================================================
