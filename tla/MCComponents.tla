---------------------------- MODULE MCComponents ----------------------------
(***************************************************************************)
(* The components that share no state with another: stage s2, the thread   *)
(* pipeline, the topological sort, the run directories, the sample grid    *)
(* and the two trainings.  They are checked in one run: the first state    *)
(* picks the component at work, and the others never leave their Init.     *)
(***************************************************************************)
EXTENDS MCSharpnessFilter, MCThreadPipeline, MCTopologicalSort, RunOutput, SampleGrid,
        BasicsrTraining, IniknetTraining

VARIABLE part  \* the component at work

Parts == {"s2", "threads", "sort", "output", "grid", "basicsr", "iniknet"}

componentVars == <<vars, pipelineVars, sortVars, outputVars, gridVars, basicsrVars, iniknetVars>>

PartsTypeOK ==
    /\ part \in Parts
    /\ PipelineType /\ SortType /\ OutputType /\ GridType /\ BasicsrType /\ IniknetType

PartsInit ==
    /\ part \in Parts
    /\ Init /\ PipelineInit /\ SortInit /\ OutputInit /\ GridInit /\ BasicsrInit /\ IniknetInit

\* Every component but s2 may stop for good.
PartStops == part # "s2" /\ UNCHANGED componentVars

PartsNext ==
    /\ UNCHANGED part
    /\ \/ /\ part = "s2" /\ Next
          /\ UNCHANGED <<pipelineVars, sortVars, outputVars, gridVars, basicsrVars, iniknetVars>>
       \/ /\ part = "threads" /\ PipelineNext
          /\ UNCHANGED <<vars, sortVars, outputVars, gridVars, basicsrVars, iniknetVars>>
       \/ /\ part = "sort" /\ SortNext
          /\ UNCHANGED <<vars, pipelineVars, outputVars, gridVars, basicsrVars, iniknetVars>>
       \/ /\ part = "output" /\ OutputNext
          /\ UNCHANGED <<vars, pipelineVars, sortVars, gridVars, basicsrVars, iniknetVars>>
       \/ /\ part = "grid" /\ GridNext
          /\ UNCHANGED <<vars, pipelineVars, sortVars, outputVars, basicsrVars, iniknetVars>>
       \/ /\ part = "basicsr" /\ BasicsrNext
          /\ UNCHANGED <<vars, pipelineVars, sortVars, outputVars, gridVars, iniknetVars>>
       \/ /\ part = "iniknet" /\ IniknetNext
          /\ UNCHANGED <<vars, pipelineVars, sortVars, outputVars, gridVars, basicsrVars>>
       \/ PartStops

\* Fairness of SharpnessFilter and PipelineFairness of ThreadPipeline, of the
\* one that is at work.
PartsFairness ==
    /\ WF_vars(part = "s2" /\ Launch) /\ WF_vars(part = "s2" /\ CropItem)
    /\ WF_vars(part = "s2" /\ StartFilter) /\ WF_vars(part = "s2" /\ JoinChild)
    /\ WF_vars(part = "s2" /\ Rest)
    /\ \A c \in Children : WF_vars(part = "s2" /\ ChildStep(c))
    /\ WF_pipelineVars(part = "threads" /\ Map)
    /\ WF_pipelineVars(part = "threads" /\ FeederRuns)
    /\ WF_pipelineVars(part = "threads" /\ ConsumerRuns)
    /\ \A t \in AllThreads : WF_pipelineVars(part = "threads" /\ ThreadRuns(t))

PartsSpec == PartsInit /\ [][PartsNext]_<<part, componentVars>> /\ PartsFairness

\* Stage s2, started often enough, gets every item of the ranking to the later
\* stages (EventuallyFiltered, SharpnessFilter).
FilterEventually == <>[](part = "s2" => taken = Ranking)

\* A map() of one stage ends, unless an exception or a close leaves it wedged on
\* bounded queues (MapEnds and Wedged, ThreadPipeline).
OneStageMapEnds ==
    <>(part = "threads" =>
        consumer = "ended" \/ (Wedged /\ shape.maxsize > 0 /\ (stop \/ closed)))
=============================================================================
