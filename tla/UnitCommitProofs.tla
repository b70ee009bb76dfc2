--------------------------- MODULE UnitCommitProofs ---------------------------
(***************************************************************************)
(* What commit_unit keeps, for every number of units and cycles, every     *)
(* yield and every target: lemmas about the choice of the items to commit, *)
(* the invariant of the commit sequence, and its steps.  The proofs about  *)
(* the drivers cite them.                                                  *)
(***************************************************************************)
EXTENDS UnitCommit, FiniteSetTheorems, TLAPS

LEMMA Params ==
    /\ NUnits \in Nat \ {0} /\ MaxCycle \in Nat /\ Target \in Nat
    /\ Yield \in [Cycles \X UnitIdx -> Nat]
    /\ MaxStreak \in Nat \ {0} /\ NoCkpt \notin Int
    /\ Cycles = 0 .. MaxCycle /\ UnitIdx = 0 .. NUnits - 1
BY CommitAssumption DEF P!ProductionParams, Cycles, UnitIdx, P!Cycles, P!UnitIdx

----------------------------------------------------------------------------
(* Choosing what to commit. *)

\* The instance's cardinality is the one of this module.
LEMMA SameCardinality == \A S : P!Cardinality(S) = Cardinality(S)
BY DEF P!Cardinality, Cardinality, P!IsFiniteSet, IsFiniteSet

\* A unit yields finitely many items, told apart by their number in the unit.
LEMMA ItemsFinite ==
    ASSUME NEW c \in Cycles, NEW u \in UnitIdx
    PROVE  /\ IsFiniteSet(P!ItemsOf(c, u))
           /\ P!ItemsOf(c, u) \subseteq P!AllItems
           /\ \A x \in P!ItemsOf(c, u) : x[3] \in Nat
           /\ \A x, y \in P!ItemsOf(c, u) : x[3] = y[3] => x = y
<1>1. Yield[c, u] \in Nat
  BY Params
<1>2. \A x \in P!ItemsOf(c, u) : x[3] \in 1 .. Yield[c, u] /\ x = <<c, u, x[3]>>
  <2> TAKE x \in P!ItemsOf(c, u)
  <2>1. PICK k \in 1 .. Yield[c, u] : x = <<c, u, k>>
    BY DEF P!ItemsOf
  <2> QED BY <2>1
<1>3. IsFiniteSet(P!ItemsOf(c, u))
  <2> DEFINE f == [x \in P!ItemsOf(c, u) |-> x[3]]
  <2>1. f \in Injection(P!ItemsOf(c, u), 1 .. Yield[c, u])
    BY <1>2 DEF Injection, IsInjective
  <2>2. ASSUME NEW y \in Nat PROVE IsFiniteSet(1 .. y)
    BY FS_Interval
  <2>3. IsFiniteSet(1 .. Yield[c, u])
    BY <1>1, <2>2
  <2> QED BY <2>1, <2>3, FS_Injection
<1>4. P!ItemsOf(c, u) \subseteq P!AllItems
  <2>1. <<c, u>> \in P!Cycles \X P!UnitIdx
    BY DEF Cycles, UnitIdx
  <2> QED BY <2>1 DEF P!AllItems
<1>5. \A x \in P!ItemsOf(c, u) : x[3] \in Nat
  <2>1. ASSUME NEW y \in Nat, NEW k \in 1 .. y PROVE k \in Nat
    OBVIOUS
  <2> QED BY <1>1, <1>2, <2>1
<1>6. \A x, y \in P!ItemsOf(c, u) : x[3] = y[3] => x = y
  BY <1>2, Zenon
<1> QED BY <1>3, <1>4, <1>5, <1>6

\* The first n items are at most n: each is told apart by how many precede it.
LEMMA FirstOfBound ==
    ASSUME NEW c \in Cycles, NEW u \in UnitIdx, NEW S \in SUBSET P!ItemsOf(c, u), NEW n \in Nat
    PROVE  /\ IsFiniteSet(P!FirstOf(S, n))
           /\ Cardinality(P!FirstOf(S, n)) <= n
<1> DEFINE F == P!FirstOf(S, n)
           rank == [x \in F |-> Cardinality(P!Before(x, S))]
<1>1. IsFiniteSet(S)
  BY ItemsFinite, FS_Subset
<1>2. \A x \in S : /\ P!Before(x, S) \in SUBSET S
                   /\ IsFiniteSet(P!Before(x, S))
                   /\ Cardinality(P!Before(x, S)) \in Nat
  <2> TAKE x \in S
  <2>1. P!Before(x, S) \in SUBSET S
    BY DEF P!Before
  <2> QED BY <2>1, <1>1, FS_Subset, FS_CardinalityType
<1>3. \A x, y \in S : x[3] < y[3] => Cardinality(P!Before(x, S)) < Cardinality(P!Before(y, S))
  <2> SUFFICES ASSUME NEW x \in S, NEW y \in S, x[3] < y[3]
               PROVE  Cardinality(P!Before(x, S)) < Cardinality(P!Before(y, S))
    OBVIOUS
  <2>1. x[3] \in Nat /\ y[3] \in Nat /\ \A z \in S : z[3] \in Nat
    BY ItemsFinite
  <2>2. P!Before(x, S) \in SUBSET P!Before(y, S)
    BY <2>1 DEF P!Before
  <2>3. x \in P!Before(y, S) /\ x \notin P!Before(x, S)
    BY <2>1 DEF P!Before
  <2>4. Cardinality(P!Before(x, S)) <= Cardinality(P!Before(y, S))
    BY <2>2, <1>2, FS_Subset
  <2>5. Cardinality(P!Before(x, S)) # Cardinality(P!Before(y, S))
    BY <2>2, <2>3, <1>2, FS_Subset
  <2> QED BY <2>4, <2>5, <1>2
<1>4. rank \in Injection(F, 0 .. n - 1)
  <2>1. \A x \in F : x \in S /\ rank[x] \in 0 .. n - 1
    BY <1>2, SameCardinality DEF P!FirstOf
  <2>2. \A x, y \in F : rank[x] = rank[y] => x = y
    <3> SUFFICES ASSUME NEW x \in F, NEW y \in F, x # y
                 PROVE  rank[x] # rank[y]
      OBVIOUS
    <3>1. x[3] \in Nat /\ y[3] \in Nat /\ x[3] # y[3]
      BY <2>1, ItemsFinite
    <3>2. CASE x[3] < y[3]
      BY <3>2, <2>1, <1>2, <1>3
    <3>3. CASE y[3] < x[3]
      BY <3>3, <2>1, <1>2, <1>3
    <3> QED BY <3>1, <3>2, <3>3
  <2> HIDE DEF F
  <2>3. rank \in [F -> 0 .. n - 1]
    BY <2>1
  <2> QED BY <2>2, <2>3 DEF Injection, IsInjective
<1>5. IsFiniteSet(0 .. n - 1) /\ Cardinality(0 .. n - 1) = n
  BY FS_Interval
<1> QED BY <1>4, <1>5, FS_Injection

----------------------------------------------------------------------------
(***************************************************************************)
(* The invariant of the commit sequence.  StoresNested alone is not        *)
(* inductive: that mark_done_many keeps it follows from which stores hold  *)
(* the batch at each point; that it keeps the target from the batch still  *)
(* being what Select chose, no other step having touched done.db.          *)
(***************************************************************************)

WritePC == {"lins", "dpts", "defs", "sharp", "done"}

Staged ==
    /\ pc \in {"dpts", "defs", "sharp", "done"} => batch \subseteq lins
    /\ pc \in {"defs", "sharp", "done"} => batch \subseteq dpts
    /\ pc \in {"sharp", "done"} => batch \subseteq defs
    /\ pc = "done" => batch \subseteq sharp

Selected == pc \in WritePC => batch = ToCommit

CommitInv ==
    /\ CommitTypeOK
    /\ IsFiniteSet(done)
    /\ NeverOvershoots
    /\ StoresNested
    /\ Staged
    /\ Selected

LEMMA SpendType ==
    ASSUME used \in [DOMAIN Bounds -> Nat], NEW k \in DOMAIN Bounds, Spend(k)
    PROVE  used' \in [DOMAIN Bounds -> Nat]
BY DEF Spend

LEMMA BoundNames == DOMAIN Bounds = {"run", "crash", "raise", "fault"}
BY DEF Bounds

LEMMA CommitInvInit == CommitInit => CommitInv
<1> SUFFICES ASSUME CommitInit PROVE CommitInv
  OBVIOUS
<1>1. CommitTypeOK
  BY Params DEF CommitInit, CommitTypeOK, PC, CommitPC
<1>2. IsFiniteSet(done) /\ NeverOvershoots
  BY FS_EmptySet, Params DEF CommitInit, NeverOvershoots
<1> QED BY <1>1, <1>2 DEF CommitInit, CommitInv, StoresNested, Staged, Selected, WritePC

\* What is left to commit is a finite part of one unit, within the budget.
LEMMA ToCommitFits ==
    ASSUME CommitInv, pc \in CommitPC \cup {"select"}
    PROVE  /\ ToCommit \subseteq P!AllItems
           /\ IsFiniteSet(ToCommit)
           /\ Cardinality(done) \in Nat /\ Cardinality(ToCommit) \in Nat
           /\ Cardinality(ToCommit) + Cardinality(done) <= Target
<1> DEFINE S == P!ItemsOf(cycle, idx) \ done
           n == Target - Cardinality(done)
<1>1. cycle \in Cycles /\ idx \in UnitIdx
  BY Params DEF CommitInv, CommitTypeOK
<1>2. Cardinality(done) \in Nat /\ n \in Nat
  <2>1. Cardinality(done) \in Nat
    BY FS_CardinalityType DEF CommitInv
  <2> QED BY <2>1, Params DEF CommitInv, NeverOvershoots
<1>3. ToCommit = P!FirstOf(S, n)
  BY SameCardinality DEF ToCommit
<1>4. IsFiniteSet(ToCommit) /\ Cardinality(ToCommit) <= n
  BY <1>1, <1>2, <1>3, FirstOfBound
<1>5. ToCommit \subseteq P!AllItems
  BY <1>1, <1>3, ItemsFinite DEF P!FirstOf
<1>6. Cardinality(ToCommit) \in Nat
  BY <1>4, FS_CardinalityType
<1> QED BY <1>2, <1>4, <1>5, <1>6, Params

\* A step that writes no store and leaves the write sequence.
LEMMA KeepsOutside ==
    ASSUME CommitInv, CommitTypeOK', UNCHANGED <<storeVars, done>>, pc' \notin WritePC
    PROVE  CommitInv'
BY DEF CommitInv, storeVars, NeverOvershoots, StoresNested, Staged, Selected, WritePC

\* Every write of commit_unit and of the loop body after it keeps the invariant.
LEMMA CommitStepKeeps == CommitInv /\ CommitStep => CommitInv'
<1> SUFFICES ASSUME CommitInv, CommitStep PROVE CommitInv'
  OBVIOUS
<1> USE DEF At, GoTo, durableVars, storeVars, ckptVars, loopVars
<1>0. Cardinality(done) \in Nat
  BY FS_CardinalityType DEF CommitInv
<1>1. CASE Select
  <2>1. batch' = ToCommit' /\ batch' \subseteq P!AllItems
    BY <1>1, ToCommitFits DEF Select, ToCommit
  <2>2. CommitTypeOK'
    BY <1>1, <2>1 DEF Select, CommitInv, CommitTypeOK, PC, CommitPC
  <2> QED
    BY <1>1, <2>1, <2>2 DEF Select, CommitInv, NeverOvershoots, StoresNested, Staged, Selected, WritePC
<1>2. CASE PutLins
  BY <1>2 DEF PutLins, CommitInv, CommitTypeOK, PC, CommitPC, NeverOvershoots, StoresNested,
              Staged, Selected, WritePC, ToCommit
<1>3. CASE PutDpts
  BY <1>3 DEF PutDpts, CommitInv, CommitTypeOK, PC, CommitPC, NeverOvershoots, StoresNested,
              Staged, Selected, WritePC, ToCommit
<1>4. CASE InsertDefs
  BY <1>4 DEF InsertDefs, CommitInv, CommitTypeOK, PC, CommitPC, NeverOvershoots, StoresNested,
              Staged, Selected, WritePC, ToCommit
<1>5. CASE InsertSharp
  BY <1>5 DEF InsertSharp, CommitInv, CommitTypeOK, PC, CommitPC, NeverOvershoots, StoresNested,
              Staged, Selected, WritePC, ToCommit
<1>6. CASE MarkDoneMany
  <2>1. batch = ToCommit
    BY <1>6 DEF MarkDoneMany, CommitInv, Selected, WritePC
  <2>2. IsFiniteSet(done') /\ Cardinality(done') <= Target
    <3>1. /\ IsFiniteSet(batch) /\ Cardinality(batch) \in Nat
          /\ Cardinality(batch) + Cardinality(done) <= Target
      BY <1>6, <2>1, ToCommitFits DEF MarkDoneMany, CommitPC
    <3>2. IsFiniteSet(done \cap batch) /\ Cardinality(done \cap batch) \in Nat
      BY <3>1, FS_Subset, FS_CardinalityType
    <3>3. /\ IsFiniteSet(done \cup batch)
          /\ Cardinality(done \cup batch) = Cardinality(done) + Cardinality(batch) - Cardinality(done \cap batch)
      BY <3>1, FS_Union DEF CommitInv
    <3>4. Cardinality(done \cup batch) <= Target
      BY <1>0, <3>1, <3>2, <3>3, Params
    <3> QED BY <1>6, <3>3, <3>4 DEF MarkDoneMany
  <2>3. CommitTypeOK'
    BY <1>6 DEF MarkDoneMany, CommitInv, CommitTypeOK, PC, CommitPC
  <2> QED
    BY <1>6, <2>2, <2>3 DEF MarkDoneMany, CommitInv, NeverOvershoots, StoresNested, Staged, Selected, WritePC
<1>7. CASE SaveViz
  BY <1>7, KeepsOutside DEF SaveViz, CommitInv, CommitTypeOK, PC, CommitPC, WritePC
<1>8. CASE SaveCkptCycle
  BY <1>8, KeepsOutside DEF SaveCkptCycle, CommitInv, CommitTypeOK, PC, CommitPC, WritePC
<1>9. CASE SaveCkptUnit
  <2>1. idx + 1 \in 1 .. NUnits
    BY <1>9, Params DEF SaveCkptUnit, CommitInv, CommitTypeOK, CommitPC
  <2>2. CommitTypeOK'
    BY <1>9, <2>1 DEF SaveCkptUnit, CommitInv, CommitTypeOK, PC, CommitPC
  <2> QED BY <1>9, <2>2, KeepsOutside DEF SaveCkptUnit, WritePC
<1>10. CASE ClearFailed
  BY <1>10, KeepsOutside DEF ClearFailed, CommitInv, CommitTypeOK, PC, CommitPC, WritePC
<1>11. CASE Count
  BY <1>11, <1>0, KeepsOutside DEF Count, CommitInv, CommitTypeOK, PC, CommitPC, WritePC
<1> QED
  BY <1>1, <1>2, <1>3, <1>4, <1>5, <1>6, <1>7, <1>8, <1>9, <1>10, <1>11 DEF CommitStep

LEMMA FaultKeeps == CommitInv /\ Fault => CommitInv'
BY KeepsOutside, SpendType, BoundNames
   DEF Fault, CommitInv, CommitTypeOK, PC, CommitPC, WritePC, durableVars, storeVars, ckptVars, loopVars

LEMMA KilledKeeps == CommitInv /\ Killed => CommitInv'
BY KeepsOutside, SpendType, BoundNames, Params
   DEF Killed, Exit, CommitInv, CommitTypeOK, PC, CommitPC, WritePC, durableVars, storeVars, ckptVars

\* The position taken from the checkpoint is one the loop can be at.
LEMMA ResumeKeeps == CommitInv /\ Resume => CommitInv'
<1> SUFFICES ASSUME CommitInv, Resume PROVE CommitInv'
  OBVIOUS
<1>1. Cardinality(done) \in Nat
  BY FS_CardinalityType DEF CommitInv
<1>2. cycle' \in Cycles /\ idx' \in 0 .. NUnits
  BY Params DEF Resume, HasCkpt, CommitInv, CommitTypeOK
<1>3. used' \in [DOMAIN Bounds -> Nat]
  BY SpendType, BoundNames DEF Resume, CommitInv, CommitTypeOK
<1> QED
  BY <1>1, <1>2, <1>3, KeepsOutside
     DEF Resume, CommitInv, CommitTypeOK, PC, CommitPC, WritePC, durableVars, storeVars, ckptVars

----------------------------------------------------------------------------
(* The loop's own count, which a fault after mark_done_many leaves behind. *)

\* A driver whose count reaches the target, and so leaves its loop, has stored
\* exactly that many items.
EndsExact == pc \in {"loop", "pick"} /\ produced >= Target => Cardinality(done) = Target

CountInv == produced <= Cardinality(done)

LEMMA CountKept ==
    ASSUME CommitInv, CommitInv', CountInv, done \subseteq done',
           produced' \in {produced, 0, Cardinality(done)}
    PROVE  CountInv'
<1>1. IsFiniteSet(done') /\ Cardinality(done) \in Nat /\ Cardinality(done') \in Nat
  BY FS_CardinalityType DEF CommitInv
<1>2. Cardinality(done) <= Cardinality(done')
  BY <1>1, FS_Subset
<1> QED BY <1>1, <1>2 DEF CountInv, CommitInv, CommitTypeOK

LEMMA CountsAtStart == CommitInit => CountInv
<1>1. Cardinality({}) = 0
  BY FS_EmptySet
<1> QED BY <1>1 DEF CommitInit, CountInv

LEMMA ExactFromCount == CommitInv /\ CountInv => EndsExact
<1>1. CommitInv => Cardinality(done) \in Nat
  BY FS_CardinalityType DEF CommitInv
<1> QED BY <1>1, Params DEF CommitInv, CommitTypeOK, CountInv, NeverOvershoots, EndsExact

----------------------------------------------------------------------------
(***************************************************************************)
(* What a commit settles, and what is lost.  A unit that was committed is  *)
(* whole, unless the target is reached; the rest is counting attempts.     *)
(***************************************************************************)

\* When something is left out, the first n are n.
LEMMA FirstOfFills ==
    ASSUME NEW c \in Cycles, NEW u \in UnitIdx, NEW S \in SUBSET P!ItemsOf(c, u), NEW n \in Nat,
           P!FirstOf(S, n) # S
    PROVE  Cardinality(P!FirstOf(S, n)) >= n
<1> DEFINE F == P!FirstOf(S, n)
           Ranks == {P!Before(x, S) : x \in S \ F}
<1>1. IsFiniteSet(S) /\ F \subseteq S
  BY ItemsFinite, FS_Subset DEF P!FirstOf
<1>2. Ranks # {} /\ Ranks \subseteq FiniteSubsetsOf(S)
  <2>1. \A x \in S : P!Before(x, S) \in SUBSET S
    BY DEF P!Before
  <2>2. \A x \in S : IsFiniteSet(P!Before(x, S))
    BY <1>1, <2>1, FS_Subset
  <2> QED BY <1>1, <2>1, <2>2 DEF FiniteSubsetsOf
<1>3. PICK B \in Ranks : \A C \in Ranks : <<C, B>> \notin StrictSubsetOrdering(S)
  <2> HIDE DEF Ranks
  <2> QED BY <1>2, FS_StrictSubsetOrderingWellFounded, WFMin
<1>4. PICK x \in S \ F : B = P!Before(x, S)
  BY <1>3
<1>5. P!Before(x, S) \subseteq F
  <2> SUFFICES ASSUME NEW y \in P!Before(x, S), y \notin F PROVE FALSE
    OBVIOUS
  <2>1. y \in S /\ y[3] < x[3] /\ \A z \in S : z[3] \in Nat
    BY ItemsFinite DEF P!Before
  <2>2. P!Before(y, S) \subseteq P!Before(x, S) /\ y \notin P!Before(y, S)
    BY <1>4, <2>1 DEF P!Before
  <2>3. P!Before(y, S) \in Ranks /\ P!Before(y, S) \in SUBSET S /\ B \in SUBSET S
    BY <1>4, <2>1 DEF P!Before
  <2>4. <<P!Before(y, S), B>> \in StrictSubsetOrdering(S)
    BY <1>4, <2>2, <2>3 DEF StrictSubsetOrdering
  <2> QED BY <1>3, <2>3, <2>4
<1>6. ~(Cardinality(P!Before(x, S)) < n)
  BY <1>4, SameCardinality DEF P!FirstOf
<1>7. IsFiniteSet(F)
  BY <1>1, FS_Subset
<1>8. /\ Cardinality(P!Before(x, S)) <= Cardinality(F)
      /\ Cardinality(F) \in Nat /\ Cardinality(P!Before(x, S)) \in Nat
  BY <1>5, <1>7, FS_Subset, FS_CardinalityType
<1> QED BY <1>6, <1>8

\* What ToCommit leaves out is over the target.
LEMMA ToCommitWhole ==
    ASSUME CommitInv, pc \in CommitPC \cup {"select"}
    PROVE  \/ P!ItemsOf(cycle, idx) \subseteq done \cup ToCommit
           \/ Cardinality(done) + Cardinality(ToCommit) >= Target
<1> DEFINE S == P!ItemsOf(cycle, idx) \ done
           n == Target - Cardinality(done)
<1>1. cycle \in Cycles /\ idx \in UnitIdx
  BY Params DEF CommitInv, CommitTypeOK
<1>2. Cardinality(done) \in Nat /\ Cardinality(ToCommit) \in Nat /\ n \in Nat
  BY ToCommitFits, Params
<1>3. ToCommit = P!FirstOf(S, n)
  BY SameCardinality DEF ToCommit
<1>4. ToCommit = S \/ Cardinality(ToCommit) >= n
  BY <1>1, <1>2, <1>3, FirstOfFills
<1> QED BY <1>2, <1>4, Params

LEMMA NothingToCommit ==
    ASSUME CommitInv, pc \in CommitPC \cup {"select"}, ToCommit = {}
    PROVE  Whole(cycle, idx)
<1>1. Cardinality(ToCommit) = 0 /\ Cardinality(done) \in Nat
  BY FS_EmptySet, ToCommitFits
<1> QED BY <1>1, ToCommitWhole DEF Whole

LEMMA MarkedWhole == ASSUME CommitInv, MarkDoneMany PROVE Whole(cycle, idx)'
<1>1. pc = "done" /\ done' = done \cup ToCommit /\ cycle' = cycle /\ idx' = idx
  BY DEF MarkDoneMany, At, GoTo, loopVars, CommitInv, Selected, WritePC
<1>2. /\ IsFiniteSet(ToCommit) /\ IsFiniteSet(done) /\ done \cap ToCommit = {}
      /\ Cardinality(done) \in Nat /\ Cardinality(ToCommit) \in Nat
  BY <1>1, ToCommitFits DEF CommitPC, ToCommit, P!FirstOf, CommitInv
<1>3. Cardinality(done') = Cardinality(done) + Cardinality(ToCommit)
  BY <1>1, <1>2, FS_Union, FS_EmptySet
<1>4. \/ P!ItemsOf(cycle, idx) \subseteq done'
      \/ Cardinality(done') >= Target
  BY <1>1, <1>3, ToCommitWhole DEF CommitPC
<1> QED BY <1>1, <1>4 DEF Whole

\* The attempts before unit i of cycle c that were neither produced nor missed.
LossAt(c, i) ==
    {cu \in Cycles \X UnitIdx :
        /\ cu[1] < c \/ (cu[1] = c /\ cu[2] < i)
        /\ ~Whole(cu[1], cu[2]) /\ cu \notin missed}

\* The bound of LossIsBounded, for k interruptions.
Few(S, k) == Cardinality(S) <= (NUnits - 1) * k /\ \A cu \in S : cu[2] # 0

LEMMA AttemptsFinite == IsFiniteSet(Cycles \X UnitIdx)
<1>1. 0 \in Int /\ MaxCycle \in Int /\ NUnits - 1 \in Int
  BY Params
<1>2. IsFiniteSet(0 .. MaxCycle) /\ IsFiniteSet(0 .. NUnits - 1)
  BY <1>1, FS_Interval
<1> QED BY <1>2, Params, FS_Product

LEMMA BoundGrows ==
    ASSUME NEW k \in Nat
    PROVE  /\ (NUnits - 1) * k \in Nat
           /\ (NUnits - 1) * (k + 1) = (NUnits - 1) * k + (NUnits - 1)
<1>1. ASSUME NEW n \in Nat PROVE n * k \in Nat /\ n * (k + 1) = n * k + n
  OBVIOUS
<1>2. NUnits - 1 \in Nat
  BY Params
<1> QED BY <1>1, <1>2

LEMMA FewSubset ==
    ASSUME NEW S \in SUBSET (Cycles \X UnitIdx), NEW T \in SUBSET S, NEW k \in Nat, Few(S, k)
    PROVE  Few(T, k) /\ Few(T, k + 1)
<1>1. IsFiniteSet(S)
  BY AttemptsFinite, FS_Subset
<1>2. Cardinality(S) \in Nat /\ Cardinality(T) \in Nat /\ Cardinality(T) <= Cardinality(S)
  BY <1>1, FS_Subset, FS_CardinalityType
<1>3. /\ (NUnits - 1) * k \in Nat /\ NUnits - 1 \in Nat
      /\ (NUnits - 1) * (k + 1) = (NUnits - 1) * k + (NUnits - 1)
  BY BoundGrows, Params
<1>4. Cardinality(T) <= (NUnits - 1) * k /\ Cardinality(T) <= (NUnits - 1) * (k + 1)
  BY <1>2, <1>3 DEF Few
<1> QED BY <1>4 DEF Few

LEMMA FewNone == ASSUME NEW k \in Nat PROVE Few({}, k)
BY FS_EmptySet, BoundGrows DEF Few

LEMMA FewOfNone ==
    ASSUME NEW S \in SUBSET (Cycles \X UnitIdx), Few(S, 0)
    PROVE  S = {}
<1>1. IsFiniteSet(S)
  BY AttemptsFinite, FS_Subset
<1>2. Cardinality(S) \in Nat
  BY <1>1, FS_CardinalityType
<1>3. (NUnits - 1) * 0 = 0
  BY Params
<1> QED BY <1>1, <1>2, <1>3, FS_EmptySet DEF Few

\* A torn checkpoint adds units of one cycle after its first.
LEMMA FewTorn ==
    ASSUME NEW S \in SUBSET (Cycles \X UnitIdx), NEW k \in Nat, Few(S, k),
           NEW c \in Cycles, NEW i \in UnitIdx,
           NEW T, T \subseteq S \cup ({c} \X (i + 1 .. NUnits - 1))
    PROVE  Few(T, k + 1)
<1> DEFINE R == {c} \X (i + 1 .. NUnits - 1)
<1>1. IsFiniteSet(S) /\ Cardinality(S) \in Nat
  BY AttemptsFinite, FS_Subset, FS_CardinalityType
<1>2. IsFiniteSet(R) /\ Cardinality(R) \in Nat /\ Cardinality(R) <= NUnits - 1
  <2>1. i \in Int /\ 0 <= i /\ i + 1 \in Int /\ NUnits - 1 \in Int /\ NUnits - 1 \in Nat
    BY Params
  <2>2. /\ IsFiniteSet(i + 1 .. NUnits - 1)
        /\ Cardinality(i + 1 .. NUnits - 1) = IF i + 1 > NUnits - 1 THEN 0 ELSE (NUnits - 1) - (i + 1) + 1
    BY <2>1, FS_Interval
  <2>3. IsFiniteSet({c}) /\ Cardinality({c}) = 1
    BY FS_Singleton
  <2>4. IsFiniteSet(R) /\ Cardinality(R) = Cardinality({c}) * Cardinality(i + 1 .. NUnits - 1)
    BY <2>2, <2>3, FS_Product
  <2>5. Cardinality(i + 1 .. NUnits - 1) \in Nat /\ Cardinality(i + 1 .. NUnits - 1) <= NUnits - 1
    BY <2>1, <2>2
  <2> HIDE DEF R
  <2> QED BY <2>3, <2>4, <2>5
<1>3. Cardinality(S \cap R) \in Nat
  BY <1>1, FS_Intersection, FS_CardinalityType
<1>4. IsFiniteSet(S \cup R) /\ Cardinality(S \cup R) <= Cardinality(S) + Cardinality(R)
      /\ Cardinality(S \cup R) \in Nat
  <2> HIDE DEF R
  <2>1. /\ IsFiniteSet(S \cup R)
        /\ Cardinality(S \cup R) = Cardinality(S) + Cardinality(R) - Cardinality(S \cap R)
    BY <1>1, <1>2, FS_Union
  <2>2. Cardinality(S \cup R) \in Nat
    BY <2>1, FS_CardinalityType
  <2> QED BY <1>1, <1>2, <1>3, <2>1, <2>2
<1>5. Cardinality(T) <= Cardinality(S \cup R) /\ Cardinality(T) \in Nat
  BY <1>4, FS_Subset, FS_CardinalityType
<1>6. /\ (NUnits - 1) * k \in Nat /\ NUnits - 1 \in Nat
      /\ (NUnits - 1) * (k + 1) = (NUnits - 1) * k + (NUnits - 1)
  BY BoundGrows, Params
<1>7. Cardinality(T) <= (NUnits - 1) * (k + 1)
  <2> HIDE DEF R
  <2> QED BY <1>1, <1>2, <1>4, <1>5, <1>6 DEF Few
<1>8. \A cu \in T : cu[2] # 0
  <2> TAKE cu \in T
  <2>1. CASE cu \in S
    BY <2>1 DEF Few
  <2>2. CASE cu \in R
    <3>1. cu[2] \in i + 1 .. NUnits - 1
      BY <2>2
    <3>2. i \in Nat
      BY Params
    <3> QED BY <3>1, <3>2
  <2> QED BY <2>1, <2>2
<1> QED BY <1>7, <1>8 DEF Few

\* Whatever is produced or missed stays so.
LEMMA WholeStays ==
    ASSUME CommitInv, CommitInv', done \subseteq done', NEW c, NEW u, Whole(c, u)
    PROVE  Whole(c, u)'
<1>1. /\ Cardinality(done) \in Nat /\ Cardinality(done') \in Nat
      /\ Cardinality(done) <= Cardinality(done')
  BY FS_Subset, FS_CardinalityType DEF CommitInv
<1> QED BY <1>1, Params DEF Whole

LEMMA LossShrinks ==
    ASSUME CommitInv, CommitInv', done \subseteq done', missed \subseteq missed', NEW c, NEW i
    PROVE  LossAt(c, i)' \subseteq LossAt(c, i)
BY WholeStays DEF LossAt

\* The loop may pass over a unit that is whole or missed.
LEMMA LossPasses ==
    ASSUME NEW c \in Cycles, NEW i \in UnitIdx, Whole(c, i) \/ <<c, i>> \in missed
    PROVE  LossAt(c, i + 1) = LossAt(c, i)
<1>1. \A cu \in Cycles \X UnitIdx :
        /\ cu[1] \in Nat /\ cu[2] \in Nat
        /\ cu = <<cu[1], cu[2]>>
  BY Params
<1>2. c \in Nat /\ i \in Nat
  BY Params
<1>3. \A cu \in Cycles \X UnitIdx :
        cu[1] = c /\ cu[2] < i + 1 => cu[2] < i \/ cu = <<c, i>>
  BY <1>1, <1>2
<1>4. \A cu \in Cycles \X UnitIdx : cu[2] < i => cu[2] < i + 1
  BY <1>1, <1>2
<1>5. ASSUME NEW cu \in LossAt(c, i + 1) PROVE cu \in LossAt(c, i)
  <2>1. cu # <<c, i>>
    BY <1>5 DEF LossAt
  <2> QED BY <1>3, <1>5, <2>1 DEF LossAt
<1>6. ASSUME NEW cu \in LossAt(c, i) PROVE cu \in LossAt(c, i + 1)
  BY <1>4, <1>6 DEF LossAt
<1> QED BY <1>5, <1>6

LEMMA LossNextCycle ==
    ASSUME NEW c \in Cycles PROVE LossAt(c + 1, 0) \subseteq LossAt(c, NUnits)
<1>1. \A cu \in Cycles \X UnitIdx : cu[1] \in Nat /\ cu[2] \in Nat /\ cu[2] < NUnits
  BY Params
<1>2. c \in Nat
  BY Params
<1> QED BY <1>1, <1>2 DEF LossAt

LEMMA LossAtStart == LossAt(0, 0) = {}
<1>1. \A cu \in Cycles \X UnitIdx : cu[1] \in Nat /\ cu[2] \in Nat
  BY Params
<1> QED BY <1>1 DEF LossAt

----------------------------------------------------------------------------
(***************************************************************************)
(* The checkpoint.  Between its two writes it may stand for a position the *)
(* loop has not reached: that is worth one interruption in advance, which  *)
(* is spent when the interruption comes and given back when the second key *)
(* is written.                                                             *)
(***************************************************************************)

Interruptions == used["crash"] + used["fault"]
InAdvance == IF pc = "ckUnit" THEN 1 ELSE 0

AfterDone == {"viz", "ckCycle", "ckUnit", "clear", "count", "next"}

CkptLost == IF HasCkpt THEN LossAt(ckCycle, ckUnit) ELSE {}

CkptInv ==
    /\ pc \in AfterDone => Whole(cycle, idx)
    /\ pc = "ckUnit" => ckCycle = cycle
    /\ Few(CkptLost, Interruptions + InAdvance)

LEMMA InterruptionsType == CommitTypeOK => Interruptions \in Nat /\ InAdvance \in {0, 1}
BY BoundNames DEF CommitTypeOK, Interruptions, InAdvance

LEMMA SpendCounts ==
    ASSUME CommitTypeOK, NEW k \in {"run", "crash", "raise", "fault"}, Spend(k)
    PROVE  Interruptions' = IF k \in {"crash", "fault"} THEN Interruptions + 1 ELSE Interruptions
BY BoundNames DEF CommitTypeOK, Interruptions, Spend

LEMMA CkptLostType == CkptLost \in SUBSET (Cycles \X UnitIdx)
BY DEF CkptLost, LossAt

\* A step that does not write the checkpoint: either no interruption is owed
\* for it, or the step is one.
LEMMA CkptLossKept ==
    ASSUME CommitInv, CommitInv', done \subseteq done', missed \subseteq missed', UNCHANGED ckptVars,
           CkptInv, pc' # "ckUnit",
           \/ Interruptions' = Interruptions /\ pc # "ckUnit"
           \/ Interruptions' = Interruptions + 1
    PROVE  Few(CkptLost, Interruptions + InAdvance)'
<1>1. Interruptions \in Nat /\ InAdvance \in {0, 1} /\ (pc # "ckUnit" => InAdvance = 0) /\ InAdvance' = 0
  BY InterruptionsType DEF CommitInv, InAdvance
<1>2. CkptLost' \in SUBSET CkptLost
  BY LossShrinks DEF CkptLost, HasCkpt, ckptVars
<1>3. Few(CkptLost, Interruptions + InAdvance)
  BY DEF CkptInv
<1>4. CASE Interruptions' = Interruptions + InAdvance
  <2>1. Few(CkptLost', Interruptions + InAdvance)
    BY <1>1, <1>2, <1>3, CkptLostType, FewSubset
  <2>2. (Interruptions + InAdvance)' = Interruptions + InAdvance
    BY <1>1, <1>4
  <2> QED BY <2>1, <2>2 DEF Few
<1>5. CASE Interruptions' = Interruptions + 1 /\ InAdvance = 0
  <2>1. Few(CkptLost', Interruptions + 1)
    BY <1>1, <1>2, <1>3, <1>5, CkptLostType, FewSubset
  <2>2. (Interruptions + InAdvance)' = Interruptions + 1
    BY <1>1, <1>5
  <2> QED BY <2>1, <2>2 DEF Few
<1> QED BY <1>1, <1>4, <1>5

\* What a checkpoint with the new cycle and the old index leaves out.
LEMMA TornLoss ==
    ASSUME NEW c \in Cycles, NEW i \in UnitIdx, NEW j \in 1 .. NUnits, Whole(c, i)
    PROVE  LossAt(c, j) \subseteq LossAt(c, i) \cup ({c} \X (i + 1 .. NUnits - 1))
<1> SUFFICES ASSUME NEW cu \in LossAt(c, j), cu \notin LossAt(c, i)
             PROVE  cu \in {c} \X (i + 1 .. NUnits - 1)
  OBVIOUS
<1>1. /\ cu \in Cycles \X UnitIdx /\ cu[2] \in 0 .. NUnits - 1
      /\ cu = <<cu[1], cu[2]>> /\ i \in Nat /\ NUnits \in Nat
  BY Params DEF LossAt
<1>2. cu[1] = c /\ ~(cu[2] < i) /\ cu # <<c, i>>
  BY DEF LossAt
<1>3. cu[2] \in i + 1 .. NUnits - 1
  BY <1>1, <1>2
<1> QED BY <1>1, <1>2, <1>3

LEMMA CommitStepCkpt ==
    ASSUME CommitInv, CommitInv', CommitStep, CkptInv, Few(LossAt(cycle, idx), Interruptions)
    PROVE  CkptInv'
<1> USE DEF At, GoTo, durableVars, storeVars, ckptVars, loopVars
<1>a. cycle \in Cycles /\ idx \in UnitIdx /\ Interruptions \in Nat
  BY Params, InterruptionsType
     DEF CommitInv, CommitTypeOK, CommitStep, Select, PutLins, PutDpts, InsertDefs, InsertSharp, MarkDoneMany,
         SaveViz, SaveCkptCycle, SaveCkptUnit, ClearFailed, Count, CommitPC
<1>b. UNCHANGED <<cycle, idx, used, missed>> /\ done \subseteq done'
  BY DEF CommitStep, Select, PutLins, PutDpts, InsertDefs, InsertSharp, MarkDoneMany,
         SaveViz, SaveCkptCycle, SaveCkptUnit, ClearFailed, Count
<1>c. Interruptions' = Interruptions
  BY <1>b DEF Interruptions
<1>d. ASSUME Whole(cycle, idx) PROVE Whole(cycle, idx)'
  BY <1>b, <1>d, WholeStays DEF Whole
<1>e. ASSUME UNCHANGED ckptVars, pc # "ckUnit", pc' # "ckUnit" PROVE Few(CkptLost, Interruptions + InAdvance)'
  BY <1>b, <1>c, <1>e, CkptLossKept
<1>f. LossAt(cycle, idx) \in SUBSET (Cycles \X UnitIdx)
  BY DEF LossAt
<1>1. CASE Select
  <2>1. pc' \in AfterDone => Whole(cycle, idx)
    BY <1>1, NothingToCommit DEF Select, AfterDone
  <2> QED BY <1>1, <1>d, <1>e, <2>1 DEF Select, CkptInv
<1>2. CASE PutLins \/ PutDpts \/ InsertDefs \/ InsertSharp
  BY <1>2, <1>e DEF PutLins, PutDpts, InsertDefs, InsertSharp, CkptInv, AfterDone
<1>3. CASE MarkDoneMany
  BY <1>3, <1>e, MarkedWhole DEF MarkDoneMany, CkptInv
<1>4. CASE SaveViz
  BY <1>4, <1>d, <1>e DEF SaveViz, CkptInv, AfterDone
<1>5. CASE SaveCkptCycle
  <2>1. Whole(cycle, idx)
    BY <1>5 DEF SaveCkptCycle, CkptInv, AfterDone
  <2>2. CkptLost' \subseteq LossAt(cycle, idx) \cup ({cycle} \X (idx + 1 .. NUnits - 1))
    <3>1. CASE ckUnit = NoCkpt
      BY <1>5, <3>1 DEF SaveCkptCycle, CkptLost, HasCkpt
    <3>2. CASE ckUnit # NoCkpt
      <4>1. ckUnit \in 1 .. NUnits
        BY <3>2 DEF CommitInv, CommitTypeOK
      <4>2. CkptLost' = LossAt(cycle, ckUnit)' \/ CkptLost' = {}
        BY <1>5 DEF SaveCkptCycle, CkptLost, LossAt
      <4>3. LossAt(cycle, ckUnit)' \subseteq LossAt(cycle, ckUnit)
        <5>1. \A c, i : LossAt(c, i)' \subseteq LossAt(c, i)
          BY <1>b, LossShrinks
        <5>2. LossAt(cycle, ckUnit)' \subseteq LossAt(cycle, ckUnit)
          BY <1>5, <1>b, <5>1 DEF SaveCkptCycle, LossAt, Whole
        <5> QED BY <5>2
      <4> QED BY <1>a, <2>1, <4>1, <4>2, <4>3, TornLoss
    <3> QED BY <3>1, <3>2
  <2>3. Few(CkptLost', Interruptions + 1)
    BY <1>a, <1>f, <2>2, FewTorn
  <2>4. (Interruptions + InAdvance)' = Interruptions + 1
    BY <1>5, <1>c DEF SaveCkptCycle, InAdvance
  <2>5. Few(CkptLost, Interruptions + InAdvance)'
    BY <2>3, <2>4 DEF Few
  <2> QED BY <1>5, <1>d, <2>1, <2>5 DEF SaveCkptCycle, CkptInv
<1>6. CASE SaveCkptUnit
  <2>1. Whole(cycle, idx) /\ ckCycle = cycle
    BY <1>6 DEF SaveCkptUnit, CkptInv, AfterDone
  <2>2. LossAt(cycle, idx + 1) = LossAt(cycle, idx)
    BY <1>a, <2>1, LossPasses
  <2>3. CkptLost' \in SUBSET LossAt(cycle, idx)
    <3>1. ckCycle' = cycle /\ ckUnit' = idx + 1
      BY <1>6, <2>1 DEF SaveCkptUnit
    <3>2. \A c, i : LossAt(c, i)' \subseteq LossAt(c, i)
      BY <1>b, LossShrinks
    <3>3. CkptLost' \subseteq LossAt(cycle, idx + 1)
      BY <1>6, <3>1, <3>2 DEF SaveCkptUnit, CkptLost, LossAt, Whole
    <3> QED BY <2>2, <3>3
  <2>4. Few(CkptLost', Interruptions)
    BY <1>a, <1>f, <2>3, FewSubset
  <2>5. (Interruptions + InAdvance)' = Interruptions
    BY <1>6, <1>a, <1>c DEF SaveCkptUnit, InAdvance
  <2>6. Few(CkptLost, Interruptions + InAdvance)'
    BY <2>4, <2>5 DEF Few
  <2> QED BY <1>6, <1>d, <2>1, <2>6 DEF SaveCkptUnit, CkptInv
<1>7. CASE ClearFailed
  BY <1>7, <1>d, <1>e DEF ClearFailed, CkptInv, AfterDone
<1>8. CASE Count
  BY <1>8, <1>d, <1>e DEF Count, CkptInv, AfterDone
<1> QED BY <1>1, <1>2, <1>3, <1>4, <1>5, <1>6, <1>7, <1>8 DEF CommitStep

\* Leaving the commit sequence, or not being in it.
LEMMA CkptOutside ==
    ASSUME CommitInv, CommitInv', CkptInv, UNCHANGED <<done, ckptVars>>, missed \subseteq missed',
           pc' \notin AfterDone,
           \/ Interruptions' = Interruptions /\ pc # "ckUnit"
           \/ Interruptions' = Interruptions + 1
    PROVE  CkptInv'
<1>1. Few(CkptLost, Interruptions + InAdvance)'
  BY CkptLossKept DEF AfterDone
<1> QED BY <1>1 DEF CkptInv, AfterDone

LEMMA CkptSame ==
    ASSUME CkptInv, UNCHANGED <<done, ckptVars, pc, cycle, idx, missed>>, Interruptions' = Interruptions
    PROVE  CkptInv'
BY DEF CkptInv, CkptLost, HasCkpt, LossAt, Whole, InAdvance, ckptVars, Few

\* The loop passes over a unit that is whole, or that it has just recorded.
LEMMA LossAdvances ==
    ASSUME CommitInv, CommitInv', done \subseteq done', missed \subseteq missed',
           NEW c \in Cycles, NEW i \in UnitIdx, Whole(c, i) \/ <<c, i>> \in missed'
    PROVE  LossAt(c, i + 1)' \subseteq LossAt(c, i)
<1> SUFFICES ASSUME NEW cu \in LossAt(c, i + 1)' PROVE cu \in LossAt(c, i)
  OBVIOUS
<1>1. cu # <<c, i>>
  BY WholeStays DEF LossAt
<1>2. /\ cu \in Cycles \X UnitIdx /\ ~Whole(cu[1], cu[2]) /\ cu \notin missed
      /\ cu[1] < c \/ (cu[1] = c /\ cu[2] < i + 1)
  BY WholeStays DEF LossAt
<1>3. cu = <<cu[1], cu[2]>> /\ cu[2] \in Nat /\ i \in Nat
  BY <1>2, Params
<1>4. cu[1] = c /\ cu[2] < i + 1 => cu[2] < i
  BY <1>1, <1>3
<1> QED BY <1>2, <1>4 DEF LossAt

LEMMA CkptInvInit == CommitInit => CkptInv /\ Few(LossAt(cycle, idx), Interruptions)
<1> SUFFICES ASSUME CommitInit PROVE CkptInv /\ Few(LossAt(cycle, idx), Interruptions)
  OBVIOUS
<1>1. Interruptions = 0 /\ Interruptions \in Nat /\ InAdvance = 0
  BY BoundNames DEF CommitInit, Interruptions, InAdvance
<1>2. CkptLost = {} /\ LossAt(cycle, idx) = {}
  BY LossAtStart DEF CommitInit, CkptLost, HasCkpt
<1> QED BY <1>1, <1>2, FewNone DEF CommitInit, CkptInv, AfterDone

\* Where a run starts, after what the checkpoint says.
LEMMA ResumeLoss ==
    ASSUME CommitInv, CommitInv', Resume, CkptInv
    PROVE  CkptInv' /\ Few(LossAt(cycle, idx), Interruptions)'
<1>1. pc = "down" /\ pc' = "loop" /\ UNCHANGED <<done, ckptVars, missed>> /\ Interruptions' = Interruptions
  BY SpendCounts DEF Resume, durableVars, CommitInv
<1>2. CkptInv'
  BY <1>1, CkptOutside DEF AfterDone
<1>3. Interruptions \in Nat /\ InAdvance = 0
  BY <1>1, InterruptionsType DEF CommitInv, InAdvance
<1>4. LossAt(cycle, idx)' \in SUBSET CkptLost
  BY <1>1, LossAtStart DEF Resume, CkptLost, HasCkpt, LossAt, Whole, ckptVars
<1>5. Few(CkptLost, Interruptions)
  BY <1>3 DEF CkptInv
<1>6. Few(LossAt(cycle, idx)', Interruptions)
  BY <1>3, <1>4, <1>5, CkptLostType, FewSubset
<1> QED BY <1>1, <1>2, <1>6 DEF Few

\* The end of a run forgets the loop position.
LEMMA ExitLoss ==
    ASSUME CommitInv, CommitInv', Exit, UNCHANGED <<done, ckptVars>>, missed \subseteq missed', CkptInv,
           \/ Interruptions' = Interruptions /\ pc # "ckUnit"
           \/ Interruptions' = Interruptions + 1
    PROVE  CkptInv' /\ Few(LossAt(cycle, idx), Interruptions)'
<1>1. CkptInv'
  BY CkptOutside DEF Exit, AfterDone
<1>2. LossAt(cycle, idx)' = {}
  <2>1. \A cu \in Cycles \X UnitIdx : cu[1] \in Nat /\ cu[2] \in Nat
    BY Params
  <2> QED BY <2>1 DEF Exit, LossAt
<1>3. Interruptions' \in Nat
  BY InterruptionsType DEF CommitInv
<1> QED BY <1>1, <1>2, <1>3, FewNone DEF Few
=============================================================================
