------------------------- MODULE MCSharpnessFilter -------------------------
(* An instance of SharpnessFilter for TLC: three items, two of one score. *)
EXTENDS SharpnessFilter

TwoStages == {Crop, Filter}
Scores == [i \in Items |-> IF i = 2 THEN 1 ELSE 5]
=============================================================================
