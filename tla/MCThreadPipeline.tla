------------------------- MODULE MCThreadPipeline -------------------------
(* Instances of ThreadPipeline for TLC: one stage of one or two threads,   *)
(* with and without a bound on the queues, and two stages of one thread.   *)
EXTENDS ThreadPipeline

Pool(workers, maxsize, ordered) ==
    [workers |-> workers, maxsize |-> maxsize, ordered |-> ordered]

OneStagePools == {Pool(<<w>>, b, o) : w \in 1 .. 2, b \in 0 .. 1, o \in BOOLEAN}

TwoStagePools == {Pool(<<1, 1>>, 0, FALSE)}
=============================================================================
