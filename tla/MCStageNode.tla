---------------------------- MODULE MCStageNode ----------------------------
(* Instances of StageNode for TLC: a diamond of stages in the shape of      *)
(* s1 -> {s3, s4} -> s5 of the synthesis script, and a two-stage chain.     *)
EXTENDS StageNode

Diamond == [crop |-> {}, camera |-> {"crop"}, layer |-> {"crop"}, psf |-> {"camera", "layer"}]
DiamondOrder == <<"crop", "camera", "layer", "psf">>

Chain == [crop |-> {}, camera |-> {"crop"}]
ChainOrder == <<"crop", "camera">>

DiamondStages == DOMAIN Diamond
ChainStages == DOMAIN Chain
=============================================================================
