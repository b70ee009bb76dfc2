---------------------------- MODULE MCGpuSource ----------------------------
(* Instances of GpuSource for TLC: batches that end inside a cycle, or span *)
(* two of them.                                                             *)
EXTENDS GpuSource

\* Yields 1 and 2 alternate, and (0, 1) yields nothing.
MixedYield == [cu \in (0 .. MaxCycle) \X (0 .. NUnits - 1) |->
    IF cu = <<0, 1>> THEN 0 ELSE 1 + ((cu[1] + cu[2]) % 2)]

\* Every attempt yields one patch.
OneEach == [cu \in (0 .. MaxCycle) \X (0 .. NUnits - 1) |-> 1]
=============================================================================
