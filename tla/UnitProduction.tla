--------------------------- MODULE UnitProduction ---------------------------
(***************************************************************************)
(* What a while-source promises of the items it produces: they appear one  *)
(* whole work unit at a time, a unit is cut short only by the target, and  *)
(* nothing is ever taken back or produced past the target (the contract of *)
(* WhileSourceNode, node.py:300-340, and of PatchCropNode, s1_patch_crop   *)
(* .py:303-306).  How units are ordered, retried or lost is not said here. *)
(***************************************************************************)
EXTENDS Integers, FiniteSets

CONSTANTS NUnits,    \* len(work_units())
          MaxCycle,  \* bound: the cycles that can be reached
          Yield,     \* how many patches each (cycle, unit) yields
          Target     \* target_count()

Cycles == 0 .. MaxCycle
UnitIdx == 0 .. NUnits - 1

\* What a module that instantiates this one assumes of the constants.
ProductionParams ==
    /\ NUnits \in Nat \ {0}
    /\ MaxCycle \in Nat
    /\ Yield \in [Cycles \X UnitIdx -> Nat]
    /\ Target \in Nat

\* Item ids are c{cycle}__{unit}__{i}: the same on every attempt.
ItemsOf(c, u) == {<<c, u, k>> : k \in 1 .. Yield[c, u]}
AllItems == UNION {ItemsOf(cu[1], cu[2]) : cu \in Cycles \X UnitIdx}

\* The items of a set that come before x in its unit's result.
Before(x, S) == {y \in S : y[3] < x[3]}

\* The first n items of S, all of one unit.
FirstOf(S, n) == {x \in S : Cardinality(Before(x, S)) < n}

VARIABLE produced

ProductionInit == produced = {}

Produce(c, u) ==
    produced' = produced \cup FirstOf(ItemsOf(c, u) \ produced, Target - Cardinality(produced))

ProductionNext == \E c \in Cycles, u \in UnitIdx : Produce(c, u)

ProductionSpec == ProductionInit /\ [][ProductionNext]_produced
=============================================================================
