---------------------------- MODULE IniknetTraining ----------------------------
(***************************************************************************)
(* train_iniknet.py: an update of the weights every ACC micro steps, and   *)
(* every so many updates four files saved one after another: a snapshot    *)
(* with the iteration in its name, then the model, the optimizer and the   *)
(* scheduler under fixed names.  A resumed training loads the last three,  *)
(* which a kill may have left from different saves, and counts its         *)
(* iterations by the scheduler alone.                                      *)
(*                                                                         *)
(* Weights, optimizer and scheduler are the updates they went through.     *)
(***************************************************************************)
EXTENDS Naturals, Sequences

CONSTANTS UpdatesWanted, \* total_iters
          AccStep,       \* acc_step
          SavePeriod,    \* save_period
          MaxKills       \* bound: kills

ASSUME IniknetAssumption ==
    /\ {AccStep, SavePeriod} \subseteq Nat \ {0} /\ {UpdatesWanted, MaxKills} \subseteq Nat

VARIABLES
    mode,      \* "stopped", "training", "saving" or "writing"
    micro,     \* micro_step since the last update
    count,     \* [weights, adam, scheduler]: the updates of each
    saved,     \* by file, the updates of what it holds, or NoFile
    inPart,    \* files a kill, or the save at hand, left in part
    toSave,    \* the files still to be saved
    inikKills  \* kills so far

iniknetVars == <<mode, micro, count, saved, inPart, toSave, inikKills>>

Learned == {"weights", "adam", "scheduler"}
NoFile == 0
Snapshot(i) == <<"snapshot", i>>
Fixed(part) == <<part, 0>>
Snapshots == {Snapshot(i) : i \in 1 .. UpdatesWanted}
AllFiles == Snapshots \cup {Fixed(p) : p \in Learned}

\* Mutant: the scheduler, which counts the iterations, is saved first.
SaveOrderSchedulerFirst(i) ==
    <<Fixed("scheduler"), Snapshot(i), Fixed("weights"), Fixed("adam")>>

\* The order of the four torch.save calls.
SaveOrder(i) == <<Snapshot(i), Fixed("weights"), Fixed("adam"), Fixed("scheduler")>>

IniknetType ==
    /\ mode \in {"stopped", "training", "saving", "writing"} /\ micro \in 0 .. AccStep - 1
    /\ count \in [Learned -> Nat] /\ saved \in [AllFiles -> Nat]
    /\ inPart \subseteq AllFiles /\ toSave \in Seq(AllFiles) /\ inikKills \in 0 .. MaxKills

IniknetInit ==
    /\ mode = "stopped" /\ micro = 0 /\ count = [p \in Learned |-> 0]
    /\ saved = [f \in AllFiles |-> NoFile] /\ inPart = {} /\ toSave = <<>> /\ inikKills = 0

----------------------------------------------------------------------------
(* Starting. *)

IsWhole(file) == saved[file] # NoFile /\ file \notin inPart

\* start_from_trained: false, as long as there is nothing to resume.
StartFromScratch ==
    /\ mode = "stopped" /\ count["scheduler"] < UpdatesWanted
    /\ saved[Fixed("scheduler")] = NoFile
    /\ mode' = "training" /\ micro' = 0 /\ count' = [p \in Learned |-> 0]
    /\ UNCHANGED <<saved, inPart, toSave, inikKills>>

\* weight_path: the model, or, when it is torn, the snapshot with the greatest number.
NewestSnapshot ==
    CHOOSE i \in 1 .. UpdatesWanted :
        /\ saved[Snapshot(i)] # NoFile
        /\ \A j \in i + 1 .. UpdatesWanted : saved[Snapshot(j)] = NoFile

WeightPath == IF IsWhole(Fixed("weights")) THEN Fixed("weights") ELSE Snapshot(NewestSnapshot)

\* start_from_trained: true.  A torn file raises in torch.load.
ResumeTrained ==
    /\ mode = "stopped"
    /\ IsWhole(Fixed("adam")) /\ IsWhole(Fixed("scheduler")) /\ IsWhole(WeightPath)
    /\ saved[Fixed("scheduler")] < UpdatesWanted
    /\ count' = [p \in Learned |-> IF p = "weights" THEN saved[WeightPath] ELSE saved[Fixed(p)]]
    /\ mode' = "training" /\ micro' = 0
    /\ UNCHANGED <<saved, inPart, toSave, inikKills>>

----------------------------------------------------------------------------
(* Training. *)

MicroStep ==
    /\ mode = "training" /\ micro + 1 < AccStep
    /\ micro' = micro + 1
    /\ UNCHANGED <<mode, count, saved, inPart, toSave, inikKills>>

\* global_iter is what the scheduler counts.
UpdateWeights ==
    /\ mode = "training" /\ micro + 1 = AccStep
    /\ micro' = 0 /\ count' = [p \in Learned |-> count[p] + 1]
    /\ LET globalIter == count'["scheduler"]
           due == globalIter % SavePeriod = 0
       IN  /\ toSave' = IF due THEN SaveOrder(globalIter) ELSE <<>>
           /\ mode' = CASE due -> "saving"
                         [] ~due /\ globalIter >= UpdatesWanted -> "stopped"
                         [] OTHER -> "training"
    /\ UNCHANGED <<saved, inPart, inikKills>>

Held(file) == IF file \in Snapshots THEN count["weights"] ELSE count[file[1]]

\* torch.save opens the file, which tears what it held, and closes it whole.
OpenSave ==
    /\ mode = "saving" /\ mode' = "writing"
    /\ saved' = [saved EXCEPT ![Head(toSave)] = Held(Head(toSave))]
    /\ inPart' = inPart \cup {Head(toSave)}
    /\ UNCHANGED <<micro, count, toSave, inikKills>>

CloseSave ==
    /\ mode = "writing"
    /\ inPart' = inPart \ {Head(toSave)} /\ toSave' = Tail(toSave)
    /\ mode' = CASE toSave' # <<>> -> "saving"
                  [] toSave' = <<>> /\ count["scheduler"] >= UpdatesWanted -> "stopped"
                  [] OTHER -> "training"
    /\ UNCHANGED <<micro, count, saved, inikKills>>

KillIniknet ==
    /\ mode # "stopped" /\ inikKills < MaxKills
    /\ inikKills' = inikKills + 1 /\ mode' = "stopped" /\ toSave' = <<>>
    /\ UNCHANGED <<micro, count, saved, inPart>>

IniknetNext ==
    \/ StartFromScratch \/ ResumeTrained \/ MicroStep \/ UpdateWeights
    \/ OpenSave \/ CloseSave \/ KillIniknet

IniknetSpec == IniknetInit /\ [][IniknetNext]_iniknetVars

----------------------------------------------------------------------------
(* Properties. *)

\* A kill between two saves leaves weights, optimizer and scheduler of
\* different saves, and the resumed training repeats iterations on newer
\* weights.  The weights are never behind the iteration count, the optimizer
\* is never ahead of the weights, and every kill costs at most one save period.
DriftIsBounded ==
    /\ count["scheduler"] <= count["adam"] /\ count["adam"] <= count["weights"]
    /\ count["weights"] <= count["scheduler"] + SavePeriod * inikKills
=============================================================================
