--------------------------- MODULE StageNodeProofs ---------------------------
(***************************************************************************)
(* Theorems about StageNode for every set of stages, items and threads and *)
(* every bound.  Inv is the inductive invariant: the snapshot of ready     *)
(* items and the items the threads hold are undecided, offered by the      *)
(* dependencies and held once, and what a thread knows of its item at each *)
(* point of _run_one.                                                      *)
(***************************************************************************)
EXTENDS StageNode, TLAPS

USE ItemsAssumption, DepsAssumption, OrderAssumption, NoItemAssumption

\* Inside a batch the cursor names a stage of the pipeline.
LEMMA CurrentIsStage == TypeOK /\ phase = "batch" => Current \in Stages
BY DEF TypeOK, Current

\* Type correctness of every reachable state (the state of ItemProgress and of
\* the run of Pipeline.run_batch).
THEOREM TypeCorrect == Spec => []TypeOK
<1>1. Init => TypeOK
  <2>1. Len(Order) \in Nat
    BY OrderAssumption
  <2>2. Init => failFast \in BOOLEAN /\ serial \in BOOLEAN /\ raised \in BOOLEAN
    BY Zenon DEF Init
  <2> QED
    BY <2>1, <2>2 DEF Init, TypeOK, ProgressType, EmptyProgress, AllIdle, NoItems, PC
<1>2. TypeOK /\ [Next]_vars => TypeOK'
  <2> SUFFICES ASSUME TypeOK, [Next]_vars PROVE TypeOK'
    OBVIOUS
  <2> USE DEF TypeOK, ProgressType, progressVars, runVars, operVars, PC
  <2>a. Len(Order) \in Nat
    BY OrderAssumption
  <2>b. ASSUME NEW k \in DOMAIN Bounds, Spend(k) PROVE used' \in [DOMAIN Bounds -> Nat]
    BY <2>b DEF Spend, Bounds
  <2>c. DOMAIN Bounds = {"run", "crash", "raise", "fault", "skipAll"}
    BY DEF Bounds
  <2>0. phase = "batch" => Current \in Stages
    BY CurrentIsStage
  <2>1. CASE Launch
    BY <2>1, <2>a, <2>b, <2>c DEF Launch
  <2>2. CASE RunStage
    BY <2>2 DEF RunStage, ReadyItems, Upstream
  <2>3. CASE Finish
    <3>1. failFast' \in BOOLEAN /\ serial' \in BOOLEAN /\ raised' \in BOOLEAN
      BY <2>3, Zenon DEF Finish
    <3> QED
      BY <3>1, <2>3, <2>a DEF Finish
  <2>4. CASE EndBatch
    <3>1. failFast' \in BOOLEAN /\ serial' \in BOOLEAN /\ raised' \in BOOLEAN
      BY <2>4, Zenon DEF EndBatch
    <3> QED
      BY <3>1, <2>4, <2>a DEF EndBatch, InBatch
  <2>5. CASE Crash
    <3>1. failFast' \in BOOLEAN /\ serial' \in BOOLEAN /\ raised' \in BOOLEAN
      BY <2>5, Zenon DEF Crash
    <3> QED
      BY <3>1, <2>5, <2>a, <2>b, <2>c DEF Crash, AllIdle, NoItems
  <2>6. ASSUME NEW w \in Workers, Work(w) PROVE TypeOK'
    <3> USE DEF UNCHANGED_run, At, InBatch, Done, Release, GoTo, Throw
    <3>1. CASE Take(w)
      BY <3>1 DEF Take
    <3>2. CASE MarkSkipped(w)
      BY <2>0, <3>2 DEF MarkSkipped, SkippedAdd
    <3>3. CASE ProcessReturns(w)
      BY <3>3 DEF ProcessReturns
    <3>4. CASE ProcessRaises(w)
      BY <3>4, <2>b, <2>c DEF ProcessRaises
    <3>5. CASE MarkDoneAdd(w)
      BY <2>0, <3>5 DEF MarkDoneAdd, DoneAdd
    <3>6. CASE MarkDoneClear(w)
      BY <2>0, <3>6 DEF MarkDoneClear, ErrorsDelete
    <3>7. CASE MarkFailed(w)
      BY <2>0, <3>7 DEF MarkFailed, ErrorsSet
    <3>8. CASE StoreFault(w)
      BY <3>8, <2>b, <2>c DEF StoreFault
    <3> QED BY <2>6, <3>1, <3>2, <3>3, <3>4, <3>5, <3>6, <3>7, <3>8 DEF Work
  <2>7. ASSUME NEW s \in Stages, SkipAllFailed(s) PROVE TypeOK'
    BY <2>7, <2>b, <2>c DEF SkipAllFailed
  <2>8. CASE SkipOne
    BY <2>8 DEF SkipOne, SkippedAdd
  <2>9. CASE ClearOne
    BY <2>9 DEF ClearOne, ErrorsDelete
  <2>11. CASE SkipAllStops
    BY <2>11, <2>b, <2>c DEF SkipAllStops
  <2>10. CASE UNCHANGED vars
    BY <2>10 DEF vars
  <2> QED
    BY <2>1, <2>2, <2>3, <2>4, <2>5, <2>6, <2>7, <2>8, <2>9, <2>10, <2>11 DEF Next, Stopped
<1> QED BY <1>1, <1>2, PTL DEF Spec

----------------------------------------------------------------------------
(***************************************************************************)
(* The inductive invariant.  UpstreamFirst alone is not inductive: that a  *)
(* thread marks an item whose dependencies are done follows from when the  *)
(* item was taken, and that it is still undecided from no other thread     *)
(* holding it.                                                             *)
(***************************************************************************)

\* What thread w knows of the item it holds, by its point in _run_one.
ItemFacts(w) ==
    /\ item[w] \in Upstream(Current)
    /\ item[w] \notin queue
    /\ pc[w] = "processing" => item[w] \notin Processable(Current)
    /\ pc[w] = "skipMarked" => item[w] \in skipped[Current]
    /\ pc[w] = "marking" => item[w] \notin Processable(Current)
    /\ pc[w] = "clearing" => item[w] \in done[Current]

HeldOnce ==
    \A w \in Workers, v \in Workers :
        pc[w] # "idle" /\ item[w] = item[v] => w = v

BatchInv ==
    /\ phase = "batch" => queue \subseteq ReadyItems(Current)
    /\ \A w \in Workers : pc[w] # "idle" => phase = "batch" /\ ItemFacts(w)
    /\ HeldOnce

OperatorInv ==
    /\ \A s \in Stages : errors[s] \subseteq Upstream(s)
    /\ \A p \in todo \cup moving : p[2] \in Upstream(p[1])
    /\ todo \cup moving # {} => phase = "down" /\ used["skipAll"] # 0

OutcomeInv == used["skipAll"] = 0 => OneOutcome

Inv == UpstreamFirst /\ OutcomeInv /\ BatchInv /\ OperatorInv

\* What is spent of a bound never goes back to zero.
LEMMA SpentStays ==
    ASSUME TypeOK, [Next]_vars
    PROVE  \A b \in DOMAIN Bounds : used[b] # 0 => used'[b] # 0
<1>0. used \in [DOMAIN Bounds -> Nat]
  BY DEF TypeOK
<1> DEFINE Stays == \A b \in DOMAIN Bounds : used[b] # 0 => used'[b] # 0
<1>1. ASSUME NEW k, Spend(k) PROVE Stays
  BY <1>0, <1>1 DEF Spend
<1>2. ASSUME UNCHANGED used PROVE Stays
  BY <1>2
<1>3. CASE Launch \/ Crash \/ SkipAllStops \/ \E s \in Stages : SkipAllFailed(s)
  BY <1>1, <1>3 DEF Launch, Crash, SkipAllStops, SkipAllFailed
<1>4. CASE RunStage \/ Finish \/ EndBatch \/ SkipOne \/ ClearOne \/ UNCHANGED vars
  BY <1>2, <1>4 DEF RunStage, Finish, EndBatch, SkipOne, ClearOne, vars
<1>5. ASSUME NEW w \in Workers, Work(w) PROVE Stays
  BY <1>1, <1>2, <1>5 DEF Work, Take, MarkSkipped, ProcessReturns, ProcessRaises,
     MarkDoneAdd, MarkDoneClear, MarkFailed, StoreFault
<1> QED BY <1>3, <1>4, <1>5 DEF Next, Stopped

\* Inv holds in every reachable state.
LEMMA InvHolds == Spec => []Inv
<1>1. Init => Inv
  BY DEF Init, Inv, UpstreamFirst, OutcomeInv, OneOutcome, BatchInv, HeldOnce, OperatorInv,
         EmptyProgress, Processable, Upstream, AllIdle
<1>2. TypeOK /\ TypeOK' /\ Inv /\ [Next]_vars => Inv'
  <2> SUFFICES ASSUME TypeOK, TypeOK', Inv, [Next]_vars PROVE Inv'
    OBVIOUS
  <2> USE DEF TypeOK, ProgressType, progressVars, runVars, operVars, Inv,
              UpstreamFirst, OutcomeInv, OneOutcome, BatchInv, HeldOnce, OperatorInv, ItemFacts,
              Processable, Upstream, ReadyItems
  <2>0. phase = "batch" => Current \in Stages
    BY CurrentIsStage
  <2>s. used["skipAll"] # 0 => used'["skipAll"] # 0
    BY SpentStays DEF Bounds
  <2>1. CASE Launch
    BY <2>s, <2>1 DEF Launch, Current
  <2>2. CASE RunStage
    BY <2>s, <2>2 DEF RunStage, Current
  <2>3. CASE Finish
    BY <2>3 DEF Finish, Current
  <2>4. CASE EndBatch
    BY <2>4 DEF EndBatch, InBatch, Current
  <2>5. CASE Crash
    BY <2>s, <2>5 DEF Crash, AllIdle, NoItems, Current
  <2>6. ASSUME NEW w \in Workers, Work(w) PROVE Inv'
    <3> USE DEF UNCHANGED_run, At, InBatch, Done, Release, GoTo, Throw
    <3>0. UNCHANGED Current
      BY <2>6 DEF Work, Take, MarkSkipped, ProcessReturns, ProcessRaises, MarkDoneAdd,
                  MarkDoneClear, MarkFailed, StoreFault, Current
    <3>a. ASSUME UNCHANGED <<progressVars, phase, cursor, queue, operVars>>, Release(w)
          PROVE  Inv'
      BY <2>0, <2>s, <3>0, <3>a
    <3>b. ASSUME NEW to \in {"marking", "failing"}, GoTo(w, to), pc[w] # "idle",
                 to = "marking" => item[w] \notin Processable(Current),
                 UNCHANGED <<progressVars, phase, cursor, queue, operVars>>
          PROVE  Inv'
      BY <2>0, <2>s, <3>0, <3>b
    <3>c. ASSUME Throw(w), pc[w] # "idle",
                 UNCHANGED <<progressVars, phase, cursor, queue, operVars>>
          PROVE  Inv'
      BY <3>a, <3>b, <3>c, Zenon
    <3>1. CASE Take(w)
      BY <2>0, <3>0, <3>1 DEF Take
    <3>2. CASE MarkSkipped(w)
      BY <2>0, <3>0, <3>2 DEF MarkSkipped, SkippedAdd
    <3>3. CASE ProcessReturns(w)
      <4>1. CASE item[w] \in skipped[Current]
        BY <3>a, <3>3, <4>1 DEF ProcessReturns
      <4>2. CASE item[w] \notin skipped[Current]
        <5>1. item[w] \notin done[Current]
          BY <3>3, <4>2 DEF ProcessReturns
        <5> QED BY <3>b, <3>3, <4>2, <5>1 DEF ProcessReturns
      <4> QED BY <4>1, <4>2
    <3>4. CASE ProcessRaises(w)
      BY <3>c, <3>4 DEF ProcessRaises
    <3>5. CASE MarkDoneAdd(w)
      BY <2>0, <3>0, <3>5 DEF MarkDoneAdd, DoneAdd
    <3>6. CASE MarkDoneClear(w)
      BY <2>0, <3>0, <3>6 DEF MarkDoneClear, ErrorsDelete
    <3>7. CASE MarkFailed(w)
      BY <2>0, <3>0, <3>7 DEF MarkFailed, ErrorsSet
    <3>8. CASE StoreFault(w)
      BY <3>a, <3>c, <3>8 DEF StoreFault
    <3> QED BY <2>6, <3>1, <3>2, <3>3, <3>4, <3>5, <3>6, <3>7, <3>8 DEF Work
  <2>7. ASSUME NEW s \in Stages, SkipAllFailed(s) PROVE Inv'
    <3>0. used \in [{"run", "crash", "raise", "fault", "skipAll"} -> Nat]
      BY DEF TypeOK, Bounds
    <3>1. used'["skipAll"] # 0
      BY <2>7, <3>0 DEF SkipAllFailed, Spend
    <3> QED BY <2>7, <3>1 DEF SkipAllFailed, Current
  <2>8. CASE SkipOne
    <3>1. used["skipAll"] # 0 /\ UNCHANGED used
      BY <2>8 DEF SkipOne
    <3>2. UpstreamFirst' /\ BatchInv' /\ OperatorInv'
      BY <2>8 DEF SkipOne, SkippedAdd, Current, BatchInv, OperatorInv, HeldOnce
    <3> QED BY <3>1, <3>2
  <2>9. CASE ClearOne
    BY <2>9 DEF ClearOne, ErrorsDelete, Current
  <2>11. CASE SkipAllStops
    BY <2>s, <2>11 DEF SkipAllStops, Current
  <2>10. CASE UNCHANGED vars
    BY <2>10 DEF vars, Current
  <2> QED
    BY <2>1, <2>2, <2>3, <2>4, <2>5, <2>6, <2>7, <2>8, <2>9, <2>10, <2>11
    DEF Next, Stopped
<1> QED BY <1>1, <1>2, TypeCorrect, PTL DEF Spec

----------------------------------------------------------------------------
\* No stage completes or skips an item before every stage it depends on has
\* completed it (ready_items), whatever the threads, crashes and faults.
THEOREM UpstreamFirstHolds == Spec => []UpstreamFirst
BY InvHolds, PTL DEF Inv

\* A thread that is about to record a failure has not marked its item done,
\* as long as nothing was killed and no SQLite call raised.
Undisturbed == used["skipAll"] = 0 /\ used["crash"] = 0 /\ used["fault"] = 0

FailureInv ==
    Undisturbed =>
        /\ FailuresCleared
        /\ \A w \in Workers : pc[w] = "failing" => item[w] \notin done[Current]

\* A step of thread w that writes nothing, and does not let go before the clear.
LEMMA QuietFailures ==
    ASSUME TypeOK, FailureInv, Undisturbed, NEW w \in Workers,
           UNCHANGED <<progressVars, cursor>>,
           \A v \in Workers \ {w} : pc'[v] = pc[v] /\ item'[v] = item[v],
           pc[w] # "clearing",
           pc'[w] = "failing" => item'[w] \notin done[Current]
    PROVE  FailureInv'
<1>1. UNCHANGED <<done, errors, Current>>
  BY DEF progressVars, Current
<1>2. FailuresCleared'
  BY <1>1 DEF FailureInv, FailuresCleared, BeingCleared
<1>3. \A v \in Workers : pc'[v] = "failing" => item'[v] \notin done'[Current']
  BY <1>1 DEF FailureInv
<1> QED BY <1>2, <1>3 DEF FailureInv

LEMMA WorkFailures ==
    ASSUME TypeOK, Inv, FailureInv, Undisturbed, Undisturbed', NEW w \in Workers, Work(w)
    PROVE  FailureInv'
<1> USE DEF UNCHANGED_run, At, InBatch, Done, Release, GoTo, Throw, progressVars
<1>0. UNCHANGED cursor /\ UNCHANGED Current
  BY DEF Work, Take, MarkSkipped, ProcessReturns, ProcessRaises, MarkDoneAdd, MarkDoneClear,
         MarkFailed, StoreFault, Current
<1>1. pc \in [Workers -> PC] /\ item \in [Workers -> Items \cup {NoItem}]
  BY DEF TypeOK
<1>2. \A v \in Workers \ {w} : pc'[v] = pc[v] /\ item'[v] = item[v]
  BY <1>1 DEF Work, Take, MarkSkipped, ProcessReturns, ProcessRaises, MarkDoneAdd, MarkDoneClear,
              MarkFailed, StoreFault
<1>3. CASE Take(w) \/ ProcessReturns(w)
  BY <1>0, <1>1, <1>2, <1>3, QuietFailures DEF Take, ProcessReturns
<1>4. CASE ProcessRaises(w)
  <2>1. item[w] \notin done[Current]
    <3>1. pc[w] # "idle" /\ phase = "batch" /\ Current \in Stages
      BY <1>4, CurrentIsStage DEF ProcessRaises
    <3>2. item[w] \notin done[Current] \/ item[w] \in skipped[Current]
      BY <1>4, <3>1 DEF ProcessRaises, Inv, BatchInv, ItemFacts, Processable
    <3> QED BY <3>1, <3>2 DEF Inv, OutcomeInv, OneOutcome, Undisturbed
  <2>2. pc[w] # "clearing" /\ UNCHANGED progressVars /\ (pc'[w] = "failing" => item'[w] = item[w])
    BY <1>1, <1>4 DEF ProcessRaises
  <2> QED BY <1>0, <1>2, <2>1, <2>2, QuietFailures
<1>5. CASE MarkSkipped(w)
  <2>1. UNCHANGED <<done, errors, item>> /\ pc[w] = "processing" /\ pc'[w] = "skipMarked"
    BY <1>1, <1>5 DEF MarkSkipped, SkippedAdd
  <2> QED BY <1>0, <1>2, <2>1 DEF FailureInv, FailuresCleared, BeingCleared
<1>6. CASE MarkDoneAdd(w)
  <2>1. /\ UNCHANGED <<errors, item>> /\ pc[w] = "marking" /\ pc'[w] = "clearing"
        /\ done' = [done EXCEPT ![Current] = @ \cup {item[w]}] /\ Current \in Stages
    BY <1>1, <1>6, CurrentIsStage DEF MarkDoneAdd, DoneAdd
  <2>2. \A s \in Stages : done'[s] = IF s = Current THEN done[s] \cup {item[w]} ELSE done[s]
    BY <2>1 DEF TypeOK, ProgressType
  <2>3. FailuresCleared'
    BY <1>0, <1>2, <2>1, <2>2 DEF FailureInv, FailuresCleared, BeingCleared
  <2>4. \A v \in Workers : pc'[v] = "failing" => item'[v] \notin done'[Current]
    <3> SUFFICES ASSUME NEW v \in Workers, pc'[v] = "failing" PROVE item'[v] \notin done'[Current]
      OBVIOUS
    <3>1. v # w /\ pc[v] = "failing" /\ item'[v] = item[v]
      BY <1>2, <2>1
    <3>2. item[v] # item[w] /\ item[v] \notin done[Current]
      BY <2>1, <3>1 DEF Inv, BatchInv, HeldOnce, FailureInv
    <3> QED BY <2>1, <2>2, <3>1, <3>2
  <2> QED BY <1>0, <2>3, <2>4 DEF FailureInv
<1>7. CASE MarkDoneClear(w)
  <2>1. /\ UNCHANGED done /\ pc[w] = "clearing" /\ pc'[w] = "idle"
        /\ errors' = [errors EXCEPT ![Current] = @ \ {item[w]}] /\ Current \in Stages
    BY <1>1, <1>7, CurrentIsStage DEF MarkDoneClear, ErrorsDelete
  <2>2. \A s \in Stages : errors'[s] = IF s = Current THEN errors[s] \ {item[w]} ELSE errors[s]
    BY <2>1 DEF TypeOK, ProgressType
  <2>3. ASSUME NEW s \in Stages, NEW i \in done[s] \cap errors'[s] PROVE BeingCleared(s, i)'
    <3>1. i \in done[s] \cap errors[s] /\ ~(s = Current /\ i = item[w])
      BY <2>2, <2>3
    <3>2. BeingCleared(s, i)
      BY <3>1 DEF FailureInv, FailuresCleared
    <3> QED BY <1>0, <1>2, <3>1, <3>2 DEF BeingCleared
  <2>4. FailuresCleared'
    BY <2>1, <2>3 DEF FailuresCleared
  <2> QED BY <1>0, <1>2, <2>1, <2>4 DEF FailureInv
<1>8. CASE MarkFailed(w)
  <2>1. /\ UNCHANGED done /\ pc[w] = "failing" /\ pc'[w] = "idle"
        /\ errors' = [errors EXCEPT ![Current] = @ \cup {item[w]}] /\ Current \in Stages
    BY <1>1, <1>8, CurrentIsStage DEF MarkFailed, ErrorsSet
  <2>2. \A s \in Stages : errors'[s] = IF s = Current THEN errors[s] \cup {item[w]} ELSE errors[s]
    BY <2>1 DEF TypeOK, ProgressType
  <2>3. item[w] \notin done[Current]
    BY <2>1 DEF FailureInv
  <2>4. FailuresCleared'
    BY <1>0, <1>2, <2>1, <2>2, <2>3 DEF FailureInv, FailuresCleared, BeingCleared
  <2> QED BY <1>0, <1>2, <2>1, <2>4 DEF FailureInv
<1>9. ~StoreFault(w)
  <2>1. used \in [DOMAIN Bounds -> Nat] /\ "fault" \in DOMAIN Bounds
    BY DEF TypeOK, Bounds
  <2> QED BY <2>1 DEF StoreFault, Spend, Undisturbed
<1> QED BY <1>3, <1>4, <1>5, <1>6, <1>7, <1>8, <1>9 DEF Work

\* Before the first call of skip_all_failed no item is both done and skipped, and
\* unless a kill or a fault fell into mark_done none is done with its failure
\* still on record once its thread has gone on.
THEOREM OutcomeIsUniqueHolds == Spec => []OutcomeIsUnique
<1>1. Init => FailureInv
  BY DEF Init, FailureInv, FailuresCleared, EmptyProgress, AllIdle
<1>2. TypeOK /\ TypeOK' /\ Inv /\ FailureInv /\ [Next]_vars => FailureInv'
  <2> SUFFICES ASSUME TypeOK, Inv, FailureInv, [Next]_vars, Undisturbed' PROVE FailureInv'
    BY DEF FailureInv
  <2>0. used \in [DOMAIN Bounds -> Nat] /\ {"skipAll", "crash", "fault"} \subseteq DOMAIN Bounds
    BY DEF TypeOK, Bounds
  <2>1. Undisturbed
    BY <2>0, SpentStays DEF Undisturbed
  <2>2. ~Crash /\ ~SkipAllStops /\ \A s \in Stages : ~SkipAllFailed(s)
    BY <2>0 DEF Crash, SkipAllStops, SkipAllFailed, Spend, Undisturbed
  <2>3. ~SkipOne /\ ~ClearOne
    BY <2>1 DEF SkipOne, ClearOne, Inv, OperatorInv, Undisturbed
  <2>4. CASE Launch \/ RunStage \/ Finish \/ EndBatch
    <3>1. UNCHANGED <<done, errors, pc, item>> /\ \A w \in Workers : pc[w] = "idle"
      BY <2>4 DEF Launch, RunStage, Finish, EndBatch, progressVars, Inv, BatchInv
    <3> QED BY <2>1, <3>1 DEF FailureInv, FailuresCleared, BeingCleared
  <2>5. ASSUME NEW w \in Workers, Work(w) PROVE FailureInv'
    BY <2>1, <2>5, WorkFailures
  <2>6. CASE UNCHANGED vars
    BY <2>1, <2>6 DEF vars, progressVars, runVars, FailureInv, FailuresCleared, BeingCleared, Current
  <2> QED BY <2>2, <2>3, <2>4, <2>5, <2>6 DEF Next, Stopped
<1>3. Inv /\ FailureInv => OutcomeIsUnique
  BY DEF Inv, OutcomeInv, FailureInv, Undisturbed, OutcomeIsUnique
<1> QED BY <1>1, <1>2, <1>3, TypeCorrect, InvHolds, PTL DEF Spec

\* No two threads of a batch work on one item, and none on a decided one.
THEOREM WorkIsExclusiveHolds == Spec => []WorkIsExclusive
<1>1. Inv => WorkIsExclusive
  <2> SUFFICES ASSUME Inv, NEW w \in Workers, pc[w] # "idle"
               PROVE  /\ item[w] \notin queue
                      /\ \A v \in Workers \ {w} : item[v] # item[w]
                      /\ pc[w] = "processing" => item[w] \notin Processable(Current)
    BY DEF WorkIsExclusive
  <2>1. ItemFacts(w) /\ HeldOnce
    BY DEF Inv, BatchInv
  <2> QED
    BY <2>1 DEF ItemFacts, HeldOnce
<1> QED
  BY <1>1, InvHolds, PTL

----------------------------------------------------------------------------
(***************************************************************************)
(* What a run that returns has done.  In a batch, an item that is ready is *)
(* in the queue, held, or failed on record, unless an exception is about   *)
(* to end the run; behind the cursor only the failed ones are left.  This  *)
(* needs the order of the stages to be a topological one, which is what    *)
(* TopologicalSort returns: a stage that ran late would make items of an   *)
(* earlier one ready again.                                                *)
(***************************************************************************)

TopologicalOrder ==
    /\ \A j, k \in DOMAIN Order : Order[j] = Order[k] => j = k
    /\ \A k \in DOMAIN Order : Deps[Order[k]] \subseteq {Order[j] : j \in 1 .. (k - 1)}

OnRecord(s) == ReadyItems(s) \subseteq errors[s]

Held == {item[w] : w \in {v \in Workers : pc[v] # "idle"}}

AccountInv ==
    /\ phase # "down" => \A k \in 1 .. (cursor - 1) : OnRecord(Order[k])
    /\ phase = "batch" =>
         raised \/ ReadyItems(Current) \subseteq queue \cup errors[Current] \cup Held

\* A run_batch that returns has decided every item in every stage, but for
\* those whose error it recorded and those a stage before did not complete.
ReturnSettles ==
    [][Finish => \A k \in DOMAIN Order, i \in Items :
                    Settled(Order[k], i) \/ i \in errors[Order[k]]]_vars

\* The stages before a position, and their dependencies, are other stages.
LEMMA EarlierIsOther ==
    ASSUME TopologicalOrder, NEW c \in DOMAIN Order
    PROVE  /\ Deps[Order[c]] \subseteq Stages \ {Order[c]}
           /\ \A k \in 1 .. (c - 1) :
                /\ Order[k] \in Stages \ {Order[c]}
                /\ Deps[Order[k]] \subseteq Stages \ {Order[c]}
<1>1. c \in 1 .. Len(Order) /\ Len(Order) \in Nat /\ DOMAIN Order = 1 .. Len(Order)
  BY OrderAssumption
<1>2. \A k \in DOMAIN Order : Order[k] \in Stages
  BY OrderAssumption
<1>3. \A k \in 1 .. (c - 1) : Order[k] \in Stages \ {Order[c]}
  BY <1>1, <1>2 DEF TopologicalOrder
<1>4. ASSUME NEW k \in 1 .. c PROVE Deps[Order[k]] \subseteq Stages \ {Order[c]}
  <2>1. k \in DOMAIN Order /\ \A j \in 1 .. (k - 1) : j \in 1 .. (c - 1)
    BY <1>1
  <2> QED BY <1>3, <2>1 DEF TopologicalOrder
<1> QED BY <1>1, <1>3, <1>4

\* Steps that touch the progress of the current stage only keep the record of
\* the stages before it.
LEMMA EarlierKept ==
    ASSUME TopologicalOrder, TypeOK, phase = "batch", AccountInv,
           \A s \in Stages \ {Current} :
                done'[s] = done[s] /\ skipped'[s] = skipped[s] /\ errors'[s] = errors[s]
    PROVE  /\ \A k \in 1 .. (cursor - 1) : OnRecord(Order[k])'
           /\ cursor' = cursor => Upstream(Current)' = Upstream(Current)
<1>1. cursor \in DOMAIN Order
  <2>1. Len(Order) \in Nat /\ DOMAIN Order = 1 .. Len(Order)
    BY OrderAssumption
  <2> QED BY <2>1 DEF TypeOK
<1>2. ASSUME NEW k \in 1 .. (cursor - 1) PROVE OnRecord(Order[k])'
  <2>1. OnRecord(Order[k])
    BY DEF AccountInv
  <2>2. Order[k] \in Stages \ {Current} /\ Deps[Order[k]] \subseteq Stages \ {Current}
    BY <1>1, EarlierIsOther DEF Current
  <2> QED BY <2>1, <2>2 DEF OnRecord, ReadyItems, Upstream, Processable
<1>3. cursor' = cursor => Upstream(Current)' = Upstream(Current)
  BY <1>1, EarlierIsOther DEF Current, Upstream
<1> QED BY <1>2, <1>3

\* A thread lets go of an item only when it is decided or failed on record, or
\* when an exception ends the run.
LEMMA WorkAccounts ==
    ASSUME TypeOK, Inv, NEW w \in Workers, Work(w)
    PROVE  /\ phase = "batch" /\ Current \in Stages /\ UNCHANGED <<phase, cursor>>
           /\ \A v \in Workers \ {w} : pc'[v] = pc[v] /\ item'[v] = item[v]
           /\ \A s \in Stages \ {Current} :
                done'[s] = done[s] /\ skipped'[s] = skipped[s] /\ errors'[s] = errors[s]
           /\ Processable(Current) \subseteq Processable(Current)'
           /\ errors[Current] \subseteq errors'[Current] \cup Processable(Current)'
           /\ \/ raised'
              \/ /\ raised' = raised
                 /\ queue \subseteq queue' \cup {item'[w]}
                 /\ queue # queue' => pc'[w] # "idle"
                 /\ pc[w] # "idle" =>
                      \/ pc'[w] # "idle" /\ item'[w] = item[w]
                      \/ item[w] \in errors'[Current] \cup Processable(Current)'
<1> USE DEF TypeOK, ProgressType, progressVars, UNCHANGED_run, At, InBatch, Done, Release, GoTo,
            PC, Processable
<1>1. phase = "batch" /\ UNCHANGED <<phase, cursor>>
  BY DEF Work, Take, MarkSkipped, ProcessReturns, ProcessRaises, MarkDoneAdd,
         MarkDoneClear, MarkFailed, StoreFault
<1>2. Current \in Stages /\ Current' = Current
  BY <1>1, CurrentIsStage DEF Current
<1>3. CASE Take(w)
  BY <1>1, <1>2, <1>3 DEF Take
<1>4. CASE MarkSkipped(w)
  BY <1>1, <1>2, <1>4 DEF MarkSkipped, SkippedAdd
<1>5. CASE ProcessReturns(w)
  BY <1>1, <1>2, <1>5 DEF ProcessReturns
<1>6. CASE MarkDoneAdd(w)
  BY <1>1, <1>2, <1>6 DEF MarkDoneAdd, DoneAdd
<1>7. CASE MarkDoneClear(w)
  <2>1. item[w] \in done[Current]
    BY <1>7 DEF MarkDoneClear, Inv, BatchInv, ItemFacts
  <2> QED BY <1>1, <1>2, <1>7, <2>1 DEF MarkDoneClear, ErrorsDelete
<1>8. CASE MarkFailed(w)
  BY <1>1, <1>2, <1>8 DEF MarkFailed, ErrorsSet
<1>9. CASE ProcessRaises(w) \/ StoreFault(w)
  <2>1. /\ UNCHANGED <<progressVars, queue>>
        /\ \/ Release(w) /\ raised'
           \/ GoTo(w, "failing")
    BY <1>9, Zenon DEF ProcessRaises, StoreFault, Throw
  <2> QED BY <1>1, <1>2, <2>1
<1> QED BY <1>3, <1>4, <1>5, <1>6, <1>7, <1>8, <1>9 DEF Work

LEMMA WorkKeeps ==
    ASSUME TopologicalOrder, TypeOK, Inv, AccountInv, NEW w \in Workers, Work(w)
    PROVE  AccountInv'
<1>1. /\ phase = "batch" /\ Current \in Stages /\ UNCHANGED <<phase, cursor>>
      /\ \A v \in Workers \ {w} : pc'[v] = pc[v] /\ item'[v] = item[v]
      /\ \A s \in Stages \ {Current} :
            done'[s] = done[s] /\ skipped'[s] = skipped[s] /\ errors'[s] = errors[s]
      /\ Processable(Current) \subseteq Processable(Current)'
      /\ errors[Current] \subseteq errors'[Current] \cup Processable(Current)'
  BY WorkAccounts
<1>2. /\ \A k \in 1 .. (cursor - 1) : OnRecord(Order[k])'
      /\ Upstream(Current)' = Upstream(Current)
  BY <1>1, EarlierKept
<1>3. Current' = Current
  BY <1>1 DEF Current
<1>4. ReadyItems(Current)' \subseteq ReadyItems(Current)
  BY <1>1, <1>2, <1>3 DEF ReadyItems
<1>5. ASSUME ~raised', NEW i \in ReadyItems(Current)'
      PROVE  i \in queue' \cup errors'[Current] \cup Held'
  <2>1. /\ raised' = raised
        /\ queue \subseteq queue' \cup {item'[w]}
        /\ queue # queue' => pc'[w] # "idle"
        /\ pc[w] # "idle" =>
             \/ pc'[w] # "idle" /\ item'[w] = item[w]
             \/ item[w] \in errors'[Current] \cup Processable(Current)'
    BY <1>5, WorkAccounts
  <2>2. i \notin Processable(Current)'
    BY <1>3, <1>5 DEF ReadyItems
  <2>3. i \in queue \cup errors[Current] \cup Held
    BY <1>1, <1>4, <1>5, <2>1 DEF AccountInv
  <2>4. \A v \in Workers : pc'[v] # "idle" => item'[v] \in Held'
    BY DEF Held
  <2>5. CASE i \in queue
    BY <2>1, <2>4, <2>5
  <2>6. CASE i \in errors[Current]
    BY <1>1, <2>2, <2>6
  <2>7. CASE i \in Held
    <3>1. PICK v \in Workers : pc[v] # "idle" /\ i = item[v]
      BY <2>7 DEF Held
    <3> QED BY <1>1, <2>1, <2>2, <2>4, <3>1
  <2> QED BY <2>3, <2>5, <2>6, <2>7
<1> QED BY <1>1, <1>2, <1>3, <1>5 DEF AccountInv

\* The account holds in every reachable state.
LEMMA AccountStep ==
    ASSUME TopologicalOrder, TypeOK, Inv, AccountInv, [Next]_vars
    PROVE  AccountInv'
<1> USE DEF progressVars, runVars, operVars
<1>1. CASE Launch
  <2>1. phase' = "between" /\ cursor' = 1
    BY <1>1 DEF Launch
  <2> QED BY <2>1 DEF AccountInv
<1>2. CASE RunStage
  <2>1. /\ phase = "between" /\ cursor <= Len(Order) /\ queue' = ReadyItems(Current)
        /\ UNCHANGED <<progressVars, pc, item, raised>>
    BY <1>2 DEF RunStage
  <2>2. cursor \in Nat \ {0}
    <3>1. Len(Order) \in Nat
      BY OrderAssumption
    <3> QED BY <3>1 DEF TypeOK
  <2>3. \A s : ReadyItems(s)' = ReadyItems(s) /\ (OnRecord(s) <=> OnRecord(s)')
    BY <2>1 DEF OnRecord, ReadyItems, Upstream, Processable
  <2>4. CASE queue' = {}
    <3>1. cursor' = cursor + 1 /\ phase' = "between"
      BY <1>2, <2>1, <2>4 DEF RunStage
    <3>2. OnRecord(Order[cursor])
      BY <2>1, <2>4 DEF OnRecord, Current
    <3>3. \A k \in 1 .. (cursor' - 1) : k \in 1 .. (cursor - 1) \/ k = cursor
      BY <2>2, <3>1
    <3> QED BY <2>1, <2>3, <3>1, <3>2, <3>3 DEF AccountInv
  <2>5. CASE queue' # {}
    <3>1. cursor' = cursor /\ phase' = "batch"
      BY <1>2, <2>5 DEF RunStage
    <3>2. Current' = Current /\ ReadyItems(Current)' = queue'
      BY <2>1, <2>3, <3>1 DEF Current
    <3> QED BY <2>1, <2>3, <3>1, <3>2 DEF AccountInv
  <2> QED BY <2>4, <2>5
<1>3. CASE EndBatch
  <2>1. phase = "batch" /\ UNCHANGED progressVars /\ \A w \in Workers : pc[w] = "idle"
    BY <1>3 DEF EndBatch, InBatch
  <2>2. CASE raised
    BY <1>3, <2>2 DEF EndBatch, AccountInv
  <2>3. CASE ~raised
    <3>1. phase' = "between" /\ cursor' = cursor + 1 /\ queue = {}
      BY <1>3, <2>3 DEF EndBatch
    <3>2. Held = {}
      BY <2>1 DEF Held
    <3>3. OnRecord(Order[cursor])
      BY <2>1, <2>3, <3>1, <3>2 DEF AccountInv, OnRecord, Current
    <3>4. \A k \in 1 .. (cursor' - 1) : k \in 1 .. (cursor - 1) \/ k = cursor
      <4>1. Len(Order) \in Nat
        BY OrderAssumption
      <4> QED BY <3>1, <4>1 DEF TypeOK
    <3>5. \A s : OnRecord(s) => OnRecord(s)'
      BY <2>1 DEF OnRecord, ReadyItems, Upstream, Processable
    <3> QED BY <2>1, <3>1, <3>3, <3>4, <3>5 DEF AccountInv
  <2> QED BY <2>2, <2>3
<1>4. CASE \/ Finish \/ Crash \/ SkipOne \/ ClearOne \/ SkipAllStops
           \/ \E s \in Stages : SkipAllFailed(s)
  <2>1. phase' = "down"
    BY <1>4 DEF Finish, Crash, SkipOne, ClearOne, SkipAllStops, SkipAllFailed, Inv, OperatorInv
  <2> QED BY <2>1 DEF AccountInv
<1>5. CASE UNCHANGED vars
  <2>1. /\ UNCHANGED <<phase, cursor, raised, queue, errors, Held, Current>>
        /\ \A s : ReadyItems(s)' = ReadyItems(s) /\ (OnRecord(s) <=> OnRecord(s)')
    BY <1>5 DEF vars, Held, Current, OnRecord, ReadyItems, Upstream, Processable
  <2>2. ReadyItems(Current)' = ReadyItems(Current)
    BY <1>5 DEF vars, Current, ReadyItems, Upstream, Processable
  <2> QED BY <2>1, <2>2 DEF AccountInv
<1> QED BY <1>1, <1>2, <1>3, <1>4, <1>5, WorkKeeps DEF Next, Stopped

\* A run_batch that returns lost no item: each is decided in every stage, was
\* not completed by a stage before, or is in that stage's errors.db, to be tried
\* again by the next run (_process_batch and _run_one, node.py:168-206).
THEOREM ReturnSettlesHolds == ASSUME TopologicalOrder PROVE Spec => ReturnSettles
<1>1. Init => AccountInv
  BY DEF Init, AccountInv
<1>2. TypeOK /\ Inv /\ AccountInv /\ [Next]_vars => AccountInv'
  BY AccountStep
<1>3. TypeOK /\ AccountInv /\ [Next]_vars
        => [Finish => \A k \in DOMAIN Order, i \in Items :
                         Settled(Order[k], i) \/ i \in errors[Order[k]]]_vars
  <2> SUFFICES ASSUME TypeOK, AccountInv, Finish, NEW k \in DOMAIN Order, NEW i \in Items,
                      i \notin errors[Order[k]]
               PROVE  Settled(Order[k], i)
    OBVIOUS
  <2>1. k \in 1 .. (cursor - 1)
    <3>1. Len(Order) \in Nat /\ DOMAIN Order = 1 .. Len(Order)
      BY OrderAssumption
    <3> QED BY <3>1 DEF TypeOK, Finish
  <2>2. OnRecord(Order[k])
    BY <2>1 DEF Finish, AccountInv
  <2> QED BY <2>2 DEF OnRecord, ReadyItems, Upstream, Settled
<1> QED BY <1>1, <1>2, <1>3, TypeCorrect, InvHolds, PTL DEF Spec, ReturnSettles

----------------------------------------------------------------------------
(***************************************************************************)
(* Refinement: a step that commits the first of done.db and skipped.db for *)
(* a pair decides it in the ledger; every other step leaves the ledger     *)
(* alone.                                                                  *)
(***************************************************************************)

Status == [s \in Stages |-> [i \in Items |-> Outcome(s, i)]]

\* A step that writes neither done.db nor skipped.db leaves the ledger alone.
LEMMA QuietSteps ==
  ASSUME UNCHANGED <<done, skipped>>
  PROVE  UNCHANGED Status
BY DEF Status, Outcome

\* One new entry in done.db or skipped.db of an undecided, propagated item.
LEMMA CommitDecides ==
  ASSUME TypeOK, NEW s \in Stages, NEW i \in Items, i \in Upstream(s),
         i \notin Processable(s),
         \/ done' = [done EXCEPT ![s] = @ \cup {i}] /\ UNCHANGED skipped
         \/ skipped' = [skipped EXCEPT ![s] = @ \cup {i}] /\ UNCHANGED done
  PROVE  Ledger!Decide(s, i)
<1> DEFINE v == Outcome(s, i)'
<1>1. Status[s][i] = "pending" /\ v \in {"done", "skipped"}
  BY DEF Status, Outcome, Processable, TypeOK, ProgressType
<1>2. \A d \in Deps[s] : Status[d][i] = "done"
  BY DepsAssumption DEF Status, Outcome, Upstream
<1>3. Status' = [Status EXCEPT ![s] = [@ EXCEPT ![i] = v]]
  <2>1. \A t \in Stages, j \in Items : ~(t = s /\ j = i) => Outcome(t, j)' = Outcome(t, j)
    BY DEF Outcome, TypeOK, ProgressType
  <2> QED
    BY <2>1 DEF Status
<1> QED
  BY <1>1, <1>2, <1>3 DEF Ledger!Decide, Ledger!Decided, Ledger!Propagated, Status

\* The stages implement the ledger: each pair is decided at most once, for
\* good, and only after its dependencies completed the item.
THEOREM LedgerImplemented == Spec => ImplementsLedger
<1>1. Init => Ledger!LedgerInit
  BY DEF Init, EmptyProgress, Ledger!LedgerInit, Outcome
<1>2. TypeOK /\ Inv /\ [Next]_vars => [Ledger!LedgerNext]_Status
  <2> SUFFICES ASSUME TypeOK, Inv, [Next]_vars, ~UNCHANGED <<done, skipped>>
               PROVE  Ledger!LedgerNext \/ UNCHANGED Status
    BY QuietSteps
  <2>1. ASSUME NEW w \in Workers, Work(w)
        PROVE  Ledger!LedgerNext
    <3>1. MarkSkipped(w) \/ MarkDoneAdd(w)
      BY <2>1 DEF Work, Take, ProcessReturns, ProcessRaises, MarkDoneClear, ErrorsDelete,
                  MarkFailed, ErrorsSet, StoreFault, progressVars
    <3>2. /\ phase = "batch" /\ Current \in Stages
          /\ pc[w] \in {"processing", "marking"}
      BY <3>1, CurrentIsStage DEF MarkSkipped, MarkDoneAdd, At, InBatch
    <3>3. /\ item[w] \in Items
          /\ item[w] \in Upstream(Current)
          /\ item[w] \notin Processable(Current)
      BY <3>2 DEF Inv, BatchInv, ItemFacts, TypeOK, Upstream
    <3>4. Ledger!Decide(Current, item[w])
      BY <3>1, <3>2, <3>3, CommitDecides DEF MarkSkipped, SkippedAdd, MarkDoneAdd, DoneAdd
    <3> QED
      BY <3>2, <3>3, <3>4 DEF Ledger!LedgerNext
  <2>2. CASE SkipOne
    <3>1. PICK p \in todo : SkippedAdd(p[1], p[2])
      BY <2>2 DEF SkipOne
    <3>2. p[1] \in Stages /\ p[2] \in Items /\ p[2] \in Upstream(p[1])
      BY DEF TypeOK, Inv, OperatorInv
    <3>3. CASE p[2] \in Processable(p[1])
      <4>1. \A s \in Stages, i \in Items : Outcome(s, i)' = Outcome(s, i)
        BY <3>1, <3>2, <3>3 DEF SkippedAdd, Outcome, Processable, TypeOK, ProgressType
      <4> QED BY <4>1 DEF Status
    <3>4. CASE p[2] \notin Processable(p[1])
      BY <3>1, <3>2, <3>4, CommitDecides DEF SkippedAdd, Ledger!LedgerNext
    <3> QED BY <3>3, <3>4
  <2> QED
    BY <2>1, <2>2 DEF Next, Launch, RunStage, Finish, EndBatch, Crash, SkipAllFailed,
                      ClearOne, ErrorsDelete, SkipAllStops, Stopped, vars, progressVars
<1> QED
  BY <1>1, <1>2, TypeCorrect, InvHolds, PTL DEF Spec, ImplementsLedger, Ledger!LedgerSpec, Status
============================================================================
