----------------------- MODULE SharpnessFilterProofs -----------------------
(***************************************************************************)
(* Theorems about SharpnessFilter for every set of items, ranking and      *)
(* bound.  FilterInv carries what a child knows at each of its points,     *)
(* whoever else works on the same files; AloneInv what it knows on top of  *)
(* that while no child was ever left behind.                               *)
(***************************************************************************)
EXTENDS SharpnessFilter, TLAPS

USE ItemsAssumption, FilterAssumption

\* The steps of one child, by its point.
LEMMA ChildCases ==
    ASSUME NEW c \in Children, ChildStep(c) \/ ChildDies(c), NEW P,
           Boot(c) => P, Probe(c) => P, Wipe(c) => P, Unlink(c) => P, Recreate(c) => P,
           Ready(c) => P, Clear(c) => P, Update(c) => P, Mark(c) => P, List(c) => P,
           MarkDoneAdd(c) => P, MarkDoneClear(c) => P, MarkFailed(c) => P,
           BatchDone(c) => P, Raise(c) => P, ChildDies(c) => P
    PROVE  P
BY DEF ChildStep

\* Type correctness of every reachable state (the databases under s2's
\* directory, run_batch in the parent and its children).
THEOREM TypeCorrect == Spec => []TypeOK
<1>1. Init => TypeOK
  <2>1. Init => {marker, tables} \subseteq BOOLEAN
    BY DEF Init
  <2> QED
    BY <2>1 DEF Init, TypeOK, ProgressType, EmptyProgress, Children, Child, Orphan
<1>2. TypeOK /\ [Next]_vars => TypeOK'
  <2> SUFFICES ASSUME TypeOK, [Next]_vars PROVE TypeOK'
    OBVIOUS
  <2> USE DEF TypeOK, ProgressType, Children, Child, Orphan, Points, storeVars,
              childVars, unchangedParent, NoTrouble, Go
  <2>0. ASSUME Trouble PROVE troubles' \in 0 .. MaxTroubles
    BY <2>0 DEF Trouble
  <2>1. CASE Launch
    BY <2>1 DEF Launch, progressVars
  <2>2. CASE CropItem
    BY <2>2 DEF CropItem, DoneAdd
  <2>3. CASE StartFilter
    BY <2>3 DEF StartFilter, progressVars
  <2>4. CASE JoinChild
    BY <2>4 DEF JoinChild, progressVars
  <2>5. CASE Rest
    BY <2>5 DEF Rest, progressVars
  <2>6. CASE Crash
    BY <2>6, <2>0 DEF Crash, Running, progressVars
  <2>7. ASSUME NEW c \in Children, ChildStep(c) \/ ChildDies(c) PROVE TypeOK'
    <3>1. Boot(c) => TypeOK'
      <4>1. Boot(c) => {marker', tables'} \subseteq BOOLEAN
        BY DEF Boot
      <4> QED
        BY <4>1 DEF Boot, progressVars
    <3>2. Probe(c) => TypeOK'
      BY DEF Probe, progressVars
    <3>3. Wipe(c) => TypeOK'
      BY DEF Wipe, progressVars
    <3>4. Unlink(c) => TypeOK'
      <4> SUFFICES ASSUME Unlink(c) PROVE TypeOK'
        OBVIOUS
      <4>1. ProgressType'
        BY DEF Unlink
      <4> QED
        BY <4>1 DEF Unlink
    <3>5. Recreate(c) => TypeOK'
      BY DEF Recreate, progressVars
    <3>6. Ready(c) => TypeOK'
      BY DEF Ready, progressVars
    <3>7. Clear(c) => TypeOK'
      BY DEF Clear, progressVars
    <3>8. Update(c) => TypeOK'
      BY DEF Update, Top, progressVars
    <3>9. Mark(c) => TypeOK'
      BY DEF Mark, progressVars
    <3>10. List(c) => TypeOK'
      <4> SUFFICES ASSUME List(c) PROVE TypeOK'
        OBVIOUS
      <4>1. queue' \in [Children -> SUBSET Items]
        BY DEF List
      <4> QED
        BY <4>1 DEF List, progressVars
    <3>11. MarkDoneAdd(c) => TypeOK'
      <4> SUFFICES ASSUME MarkDoneAdd(c) PROVE TypeOK'
        OBVIOUS
      <4>1. PICK i \in queue[c] : DoneAdd(Filter, i)
        BY DEF MarkDoneAdd, Current
      <4>2. ProgressType'
        BY <4>1 DEF DoneAdd
      <4> QED
        BY <4>1, <4>2 DEF MarkDoneAdd
    <3>12. MarkDoneClear(c) => TypeOK'
      BY DEF MarkDoneClear, ErrorsDelete, Advance, Current
    <3>13. MarkFailed(c) => TypeOK'
      BY DEF MarkFailed, ErrorsSet, Advance, Current
    <3>14. BatchDone(c) => TypeOK'
      BY DEF BatchDone, Exit, progressVars
    <3>15. Raise(c) => TypeOK'
      BY <2>0 DEF Raise, Exit, InItem, Running, progressVars
    <3>16. ChildDies(c) => TypeOK'
      BY <2>0 DEF ChildDies, Running, progressVars
    <3> QED
      BY <2>7, <3>1, <3>2, <3>3, <3>4, <3>5, <3>6, <3>7, <3>8, <3>9, <3>10,
         <3>11, <3>12, <3>13, <3>14, <3>15, <3>16, ChildCases
  <2>8. CASE UNCHANGED vars
    BY <2>8 DEF vars, progressVars
  <2> QED
    BY <2>1, <2>2, <2>3, <2>4, <2>5, <2>6, <2>7, <2>8 DEF Next, Stopped
<1> QED BY <1>1, <1>2, PTL DEF Spec

----------------------------------------------------------------------------
(***************************************************************************)
(* That only ranked items are seen is not inductive: it needs that a child *)
(* exists only when s1 is complete, so that the candidates it read are all *)
(* of the items, and that its batch comes from the selection.              *)
(***************************************************************************)

CropComplete == \A c \in Children : pc[c] # "off" => done[Crop] = Items

RanksAll == \A c \in Children : pc[c] \in {"clear", "update"} => cand[c] = Items

BatchRanked == \A c \in Children : queue[c] \subseteq Ranking

FilterInv == CropComplete /\ RanksAll /\ BatchRanked /\ OnlyRankedItems

\* FilterInv holds in every reachable state of s2 and its children.
THEOREM FilterInductive == Spec => []FilterInv
<1>1. Init => FilterInv
  BY DEF Init, EmptyProgress, FilterInv, CropComplete, RanksAll, BatchRanked, OnlyRankedItems
<1>2. TypeOK /\ FilterInv /\ [Next]_vars => FilterInv'
  <2> SUFFICES ASSUME TypeOK, FilterInv, [Next]_vars PROVE FilterInv'
    OBVIOUS
  <2>t. done \in [Stages -> SUBSET Items] 
        /\ \E S : pc \in [Children -> S]
        /\ cand \in [Children -> SUBSET Items] /\ queue \in [Children -> SUBSET Items]
    BY DEF TypeOK, ProgressType
  <2>s. Crop \in Stages /\ Filter \in Stages /\ Crop # Filter
    OBVIOUS
  <2>r. Ranking' = Ranking
    BY DEF Ranking, Top, Better
  <2> USE <2>t, <2>s, <2>r DEF FilterInv, CropComplete, RanksAll, BatchRanked, OnlyRankedItems, storeVars, childVars,
              unchangedParent, Go
  <2>1. CASE Launch
    BY <2>1 DEF Launch, progressVars
  <2>2. CASE CropItem
    <3>1. PICK i \in Items \ done[Crop] : DoneAdd(Crop, i)
      BY <2>2 DEF CropItem
    <3>2. done'[Filter] = done[Filter]
      BY <3>1 DEF DoneAdd
    <3>3. \A c \in Children : pc[c] = "off"
      BY <3>1
    <3> QED
      BY <2>2, <3>2, <3>3 DEF CropItem
  <2>3. CASE StartFilter
    BY <2>3 DEF StartFilter, progressVars
  <2>4. CASE JoinChild
    BY <2>4 DEF JoinChild, progressVars
  <2>5. CASE Rest
    BY <2>5 DEF Rest, progressVars
  <2>6. CASE Crash
    BY <2>6 DEF Crash, Running, Points, progressVars, Children, Child, Orphan
  <2>7. ASSUME NEW c \in Children, ChildStep(c) \/ ChildDies(c) PROVE FilterInv'
    <3>1. Boot(c) => FilterInv'
      BY DEF Boot, progressVars
    <3>2. Probe(c) => FilterInv'
      BY DEF Probe, progressVars
    <3>3. Wipe(c) => FilterInv'
      BY DEF Wipe, progressVars
    <3>4. Unlink(c) => FilterInv'
      BY DEF Unlink
    <3>5. Recreate(c) => FilterInv'
      BY DEF Recreate, progressVars
    <3>6. Ready(c) => FilterInv'
      BY DEF Ready, progressVars
    <3>7. Clear(c) => FilterInv'
      BY DEF Clear, progressVars
    <3>8. Update(c) => FilterInv'
      <4> SUFFICES ASSUME Update(c) PROVE FilterInv'
        OBVIOUS
      <4>1. Top(cand[c]) = Ranking
        BY DEF Update, Ranking
      <4>2. selection' = Ranking
        BY <4>1 DEF Update
      <4> QED
        BY <4>2 DEF Update, progressVars
    <3>9. Mark(c) => FilterInv'
      BY DEF Mark, progressVars
    <3>10. List(c) => FilterInv'
      <4> SUFFICES ASSUME List(c) PROVE FilterInv'
        OBVIOUS
      <4>1. BatchRanked'
        BY DEF List
      <4> QED
        BY <4>1 DEF List, progressVars
    <3>11. MarkDoneAdd(c) => FilterInv'
      <4> SUFFICES ASSUME MarkDoneAdd(c) PROVE FilterInv'
        OBVIOUS
      <4>1. PICK i \in queue[c] : DoneAdd(Filter, i)
        BY DEF MarkDoneAdd, Current
      <4> QED
        BY <4>1 DEF MarkDoneAdd, DoneAdd
    <3>12. MarkDoneClear(c) => FilterInv'
      BY DEF MarkDoneClear, ErrorsDelete, Advance, Current
    <3>13. MarkFailed(c) => FilterInv'
      BY DEF MarkFailed, ErrorsSet, Advance, Current
    <3>14. BatchDone(c) => FilterInv'
      BY DEF BatchDone, Exit, progressVars
    <3>15. Raise(c) => FilterInv'
      BY DEF Raise, Exit, InItem, Running, Points, progressVars
    <3>16. ChildDies(c) => FilterInv'
      BY DEF ChildDies, Running, Points, progressVars
    <3> QED
      BY <2>7, <3>1, <3>2, <3>3, <3>4, <3>5, <3>6, <3>7, <3>8, <3>9, <3>10,
         <3>11, <3>12, <3>13, <3>14, <3>15, <3>16, ChildCases
  <2>8. CASE UNCHANGED vars
    BY <2>8 DEF vars, progressVars
  <2> QED
    BY <2>1, <2>2, <2>3, <2>4, <2>5, <2>6, <2>7, <2>8 DEF Next, Stopped
<1> QED BY <1>1, <1>2, TypeCorrect, PTL DEF Spec

\* The stages after s2 only see items of the ranking of the complete s1 output,
\* whatever crashes and whichever child works next to another (s2:170-205,
\* subprocess_nodes.py:82-97).
THEOREM OnlyRankedItemsHolds == Spec => []OnlyRankedItems
BY FilterInductive, PTL DEF FilterInv

----------------------------------------------------------------------------
(***************************************************************************)
(* Alone, a child also knows what the files hold: the marker stands only   *)
(* for a complete selection, and an item of the ranking that is not in the *)
(* batch any more is done or failed.                                       *)
(***************************************************************************)

Recovering == {"probe", "wipe", "unlink", "recreate", "clear", "update", "mark"}
InBatch == {"item", "clearing", "fail"}

Accounted == done[Filter] \cup errors[Filter]

AloneFacts ==
    /\ pc[Orphan] = "off"
    /\ skipped[Filter] = {}
    /\ marker => selection = Ranking
    /\ pc[Child] \in Recovering => ~marker
    /\ pc[Child] = "mark" => selection = Ranking
    /\ pc[Child] \in {"list", "ok"} \cup InBatch => marker
    /\ pc[Child] \in InBatch => Ranking \subseteq queue[Child] \cup Accounted
    /\ pc[Child] = "clearing" => Current(Child) \subseteq done[Filter]
    /\ pc[Child] = "ok" => Ranking \subseteq Accounted

AloneInv == orphans = 0 => AloneFacts

\* AloneInv holds in every reachable state: the points of
\* SharpnessFilterNode.__init__, ready_items and _run_one, for a child alone.
THEOREM AloneInductive == Spec => []AloneInv
<1>1. Init => AloneInv
  BY DEF Init, EmptyProgress, AloneInv, AloneFacts, Recovering, InBatch, Children, Child, Orphan
<1>2. TypeOK /\ FilterInv /\ AloneInv /\ [Next]_vars => AloneInv'
  <2> SUFFICES ASSUME TypeOK, FilterInv, AloneInv, [Next]_vars, orphans' = 0
               PROVE  AloneFacts'
    BY DEF AloneInv
  <2>o. orphans = 0
    BY DEF TypeOK, Next, vars, Launch, CropItem, StartFilter, JoinChild, Rest, Crash, ChildStep,
           ChildDies, Boot, Probe, Wipe, Unlink, Recreate, Ready, Clear, Update, Mark, List,
           MarkDoneAdd, MarkDoneClear, MarkFailed, BatchDone, Raise, Stopped, unchangedParent
  <2>a. AloneFacts
    BY <2>o DEF AloneInv
  <2>t. done \in [Stages -> SUBSET Items] /\ skipped \in [Stages -> SUBSET Items]
        /\ errors \in [Stages -> SUBSET Items]
        /\ \E S : pc \in [Children -> S]
        /\ cand \in [Children -> SUBSET Items] /\ queue \in [Children -> SUBSET Items]
    BY DEF TypeOK, ProgressType
  <2>s. Crop \in Stages /\ Filter \in Stages /\ Crop # Filter
    OBVIOUS
  <2>r. Ranking' = Ranking
    BY DEF Ranking, Top, Better
  <2> USE <2>a, <2>t, <2>s, <2>r DEF AloneFacts, Accounted, Recovering, InBatch, Current, storeVars,
          childVars, unchangedParent, Go, Children, Child, Orphan
  <2>1. CASE Launch
    BY <2>1 DEF Launch, progressVars
  <2>2. CASE CropItem
    <3>1. PICK i \in Items \ done[Crop] : DoneAdd(Crop, i)
      BY <2>2 DEF CropItem
    <3>2. done'[Filter] = done[Filter]
      BY <3>1 DEF DoneAdd
    <3> QED
      BY <2>2, <3>1, <3>2 DEF CropItem, DoneAdd
  <2>3. CASE StartFilter
    BY <2>3 DEF StartFilter, progressVars
  <2>4. CASE JoinChild
    BY <2>4 DEF JoinChild, progressVars
  <2>5. CASE Rest
    BY <2>5 DEF Rest, progressVars
  <2>6. CASE Crash
    BY <2>6, <2>o DEF Crash, progressVars, TypeOK
  <2>7. ASSUME NEW c \in Children, ChildStep(c) \/ ChildDies(c) PROVE AloneFacts'
    <3>c. c = Child
      BY <2>7 DEF ChildStep, ChildDies, Boot, Probe, Wipe, Unlink, Recreate, Ready, Clear, Update,
                  Mark, List, MarkDoneAdd, MarkDoneClear, MarkFailed, BatchDone, Raise, Running, Points
    <3> USE <3>c
    <3>1. Boot(c) => AloneFacts'
      BY DEF Boot, progressVars
    <3>2. Probe(c) => AloneFacts'
      BY DEF Probe, progressVars
    <3>3. Wipe(c) => AloneFacts'
      BY DEF Wipe, progressVars
    <3>4. Unlink(c) => AloneFacts'
      BY DEF Unlink
    <3>5. Recreate(c) => AloneFacts'
      BY DEF Recreate, progressVars
    <3>6. Ready(c) => AloneFacts'
      BY DEF Ready, progressVars
    <3>7. Clear(c) => AloneFacts'
      BY DEF Clear, progressVars
    <3>8. Update(c) => AloneFacts'
      <4> SUFFICES ASSUME Update(c) PROVE AloneFacts'
        OBVIOUS
      <4>1. Top(cand[c]) = Ranking
        BY DEF Update, Ranking, FilterInv, RanksAll
      <4>2. selection' = Ranking
        BY <4>1 DEF Update, FilterInv, OnlyRankedItems
      <4> QED
        BY <4>2 DEF Update, progressVars
    <3>9. Mark(c) => AloneFacts'
      BY DEF Mark, progressVars
    <3>10. List(c) => AloneFacts'
      <4> SUFFICES ASSUME List(c) PROVE AloneFacts'
        OBVIOUS
      <4>1. queue'[c] = Ranking \ done[Filter]
        BY DEF List, Processable
      <4>2. pc' = [pc EXCEPT ![c] = "item"]
        BY DEF List
      <4> QED
        BY <4>1, <4>2 DEF List, progressVars
    <3>11. MarkDoneAdd(c) => AloneFacts'
      <4> SUFFICES ASSUME MarkDoneAdd(c) PROVE AloneFacts'
        OBVIOUS
      <4>1. PICK i \in Current(c) : DoneAdd(Filter, i)
        BY DEF MarkDoneAdd
      <4>2. Current(c) \subseteq {i}
        <5> SUFFICES ASSUME NEW j \in Current(c) PROVE j = i
          OBVIOUS
        <5>1. i <= j /\ j <= i
          BY <4>1 DEF Current
        <5>2. i \in Nat /\ j \in Nat
          BY <4>1, <2>t, ItemsAssumption DEF Current
        <5> QED
          BY <5>1, <5>2
      <4>3. i \in done'[Filter] /\ done[Filter] \subseteq done'[Filter]
        BY <4>1 DEF DoneAdd
      <4> QED
        BY <4>1, <4>2, <4>3 DEF MarkDoneAdd, DoneAdd
    <3>12. MarkDoneClear(c) => AloneFacts'
      <4> SUFFICES ASSUME MarkDoneClear(c) PROVE AloneFacts'
        OBVIOUS
      <4>1. PICK i \in Current(c) : ErrorsDelete(Filter, i) /\ Advance(c, i)
        BY DEF MarkDoneClear
      <4>2. i \in done[Filter]
        BY <4>1 DEF MarkDoneClear
      <4>3. Ranking \subseteq queue'[c] \cup done'[Filter] \cup errors'[Filter]
        BY <4>1, <4>2 DEF MarkDoneClear, ErrorsDelete, Advance
      <4> QED
        BY <4>1, <4>3 DEF MarkDoneClear, ErrorsDelete, Advance
    <3>13. MarkFailed(c) => AloneFacts'
      BY DEF MarkFailed, ErrorsSet, Advance
    <3>14. BatchDone(c) => AloneFacts'
      BY DEF BatchDone, Exit, progressVars
    <3>15. Raise(c) => AloneFacts'
      BY DEF Raise, Exit, InItem, progressVars
    <3>16. ChildDies(c) => AloneFacts'
      BY DEF ChildDies, progressVars
    <3> QED
      BY <2>7, <3>1, <3>2, <3>3, <3>4, <3>5, <3>6, <3>7, <3>8, <3>9, <3>10,
         <3>11, <3>12, <3>13, <3>14, <3>15, <3>16, ChildCases
  <2>8. CASE UNCHANGED vars
    BY <2>8 DEF vars, progressVars
  <2> QED
    BY <2>1, <2>2, <2>3, <2>4, <2>5, <2>6, <2>7, <2>8 DEF Next, Stopped
<1> QED BY <1>1, <1>2, TypeCorrect, FilterInductive, PTL DEF Spec

\* Unless a child was left behind, stage s3 starts only when s2 has decided all
\* of the ranking (run_single_subprocess raises for every other child).
THEOREM RestSeesWholeRankingHolds == Spec => RestSeesWholeRanking
<1>1. TypeOK /\ AloneInv /\ [Next]_vars =>
        [phase = "filter" /\ phase' = "rest" /\ orphans = 0 =>
            Ranking \subseteq done[Filter] \cup errors[Filter]]_vars
  <2> SUFFICES ASSUME TypeOK, AloneInv, Next, phase = "filter", phase' = "rest", orphans = 0
               PROVE  Ranking \subseteq done[Filter] \cup errors[Filter]
    OBVIOUS
  <2>1. JoinChild
    BY DEF Next, Launch, CropItem, StartFilter, JoinChild, Rest, Crash, ChildStep,
           ChildDies, Boot, Probe, Wipe, Unlink, Recreate, Ready, Clear, Update, Mark, List,
           MarkDoneAdd, MarkDoneClear, MarkFailed, BatchDone, Raise, Stopped, vars, unchangedParent
  <2>2. pc[Child] = "ok"
    BY <2>1 DEF JoinChild
  <2> QED
    BY <2>2 DEF AloneInv, AloneFacts, Accounted
<1> QED BY <1>1, TypeCorrect, AloneInductive, PTL DEF Spec, RestSeesWholeRanking
=============================================================================
