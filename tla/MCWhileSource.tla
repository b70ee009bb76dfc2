--------------------------- MODULE MCWhileSource ---------------------------
(* Instances of WhileSource for TLC: a few photos whose patch yield changes *)
(* from cycle to cycle, some attempts yielding nothing.                     *)
EXTENDS WhileSource

\* Yields 1 and 2 alternate, and (0, 1) yields nothing.
MixedYield == [cu \in (0 .. MaxCycle) \X (0 .. NUnits - 1) |->
    IF cu = <<0, 1>> THEN 0 ELSE 1 + ((cu[1] + cu[2]) % 2)]

\* Every attempt yields one patch.
OneEach == [cu \in (0 .. MaxCycle) \X (0 .. NUnits - 1) |-> 1]
=============================================================================
