---------------------------- MODULE BasicsrTraining ----------------------------
(***************************************************************************)
(* train.py of basicsr: iterations over the batches of epoch after epoch,  *)
(* a network and a training state saved every so many iterations, and the  *)
(* automatic resume from the newest state when the program starts again.   *)
(* The program may be killed anywhere, also inside torch.save, which       *)
(* leaves a torn file.                                                     *)
(*                                                                         *)
(* The weights are what they were trained on: the sequence of batches,     *)
(* each <<epoch, index>>, as an epoch shuffles the data by its number.     *)
(***************************************************************************)
EXTENDS Naturals, Sequences, FiniteSets

CONSTANTS TotalIters,     \* train.total_iter
          EpochBatches,   \* batches of an epoch
          CheckpointFreq, \* logger.save_checkpoint_freq
          MaxTrainings    \* bound: starts of the program

ASSUME TrainingAssumption ==
    /\ {EpochBatches, CheckpointFreq} \subseteq Nat \ {0}
    /\ {TotalIters, MaxTrainings} \subseteq Nat

VARIABLES
    trainer,   \* where the program is
    iter,      \* current_iter
    epoch,     \* epoch
    batch,     \* batches the prefetcher has handed out in this epoch
    trained,   \* what the weights were trained on
    rate,      \* steps of the schedulers
    nets,      \* net_g_<iter>.pth: by iteration, what the saved weights were trained on
    states,    \* <iter>.state: by iteration, the epoch and the schedulers' steps
    torn,      \* files a kill left in part
    trainings  \* starts so far

modelVars == <<iter, epoch, batch, trained, rate>>
checkpointVars == <<nets, states, torn>>
basicsrVars == <<trainer, modelVars, checkpointVars, trainings>>

Looping == {"epochs", "batches"}
Saving == {"saveNet", "closeNet", "saveState", "closeState"}
TrainerPoints == {"down", "over"} \cup Looping \cup Saving

Empty == [i \in {} |-> <<>>]
Set(f, i, value) == [j \in DOMAIN f \cup {i} |-> IF j = i THEN value ELSE f[j]]
Files == {"net", "state"} \X (1 .. TotalIters)

BasicsrType ==
    /\ trainer \in TrainerPoints
    /\ iter \in 0 .. TotalIters + 1 /\ batch \in 0 .. EpochBatches
    /\ {epoch, rate, trainings} \subseteq Nat
    /\ \A w \in {trained} \cup {nets[i] : i \in DOMAIN nets} : w \in Seq(Nat \X (1 .. EpochBatches))
    /\ \A i \in DOMAIN states : states[i] \in [epoch : Nat, rate : Nat]
    /\ torn \subseteq Files

BasicsrInit ==
    /\ trainer = "down" /\ trainings = 0
    /\ iter = 0 /\ epoch = 0 /\ batch = 0 /\ trained = <<>> /\ rate = 0
    /\ nets = Empty /\ states = Empty /\ torn = {}

----------------------------------------------------------------------------
(* Starting. *)

BeginTraining ==
    /\ trainer \in {"down", "over"} /\ trainings < MaxTrainings
    /\ trainings' = trainings + 1
    /\ trainer' = "epochs" /\ batch' = 0

\* No file in training_states: make_exp_dirs archives what there was.
StartFresh ==
    /\ BeginTraining /\ states = Empty
    /\ iter' = 0 /\ epoch' = 0 /\ trained' = <<>> /\ rate' = 0
    /\ nets' = Empty /\ torn' = {} /\ UNCHANGED states

\* The state with the greatest number.
Newest == CHOOSE i \in DOMAIN states : \A j \in DOMAIN states : j <= i

\* Mutant: a saved epoch counts as finished.
EpochAfter(saved) == saved + 1

\* start_epoch: the epoch of the state starts again from its first batch.
StartEpoch(saved) == saved

\* A torn state, or network, raises in torch.load: that start changes nothing.
ResumeTraining ==
    /\ BeginTraining /\ states # Empty
    /\ Newest \in DOMAIN nets
    /\ {<<"net", Newest>>, <<"state", Newest>>} \cap torn = {}
    /\ iter' = Newest /\ epoch' = StartEpoch(states[Newest].epoch)
    /\ rate' = states[Newest].rate /\ trained' = nets[Newest]
    /\ UNCHANGED checkpointVars

----------------------------------------------------------------------------
(* Training. *)

\* The head of the outer loop; past the last iteration, model.save(-1, -1),
\* which writes net_g_latest and no state.
BeginEpoch ==
    /\ trainer = "epochs" /\ iter <= TotalIters
    /\ trainer' = "batches" /\ batch' = 0
    /\ UNCHANGED <<iter, epoch, trained, rate, checkpointVars, trainings>>

FinishTraining ==
    /\ trainer = "epochs" /\ iter > TotalIters
    /\ trainer' = "over"
    /\ UNCHANGED <<modelVars, checkpointVars, trainings>>

\* One batch: the schedulers step from the second iteration on.
TrainBatch ==
    /\ trainer = "batches" /\ batch < EpochBatches /\ iter < TotalIters
    /\ batch' = batch + 1 /\ iter' = iter + 1
    /\ trained' = Append(trained, <<epoch, batch'>>)
    /\ rate' = IF iter' > 1 THEN rate + 1 ELSE rate
    /\ trainer' = IF iter' % CheckpointFreq = 0 THEN "saveNet" ELSE "batches"
    /\ UNCHANGED <<epoch, checkpointVars, trainings>>

\* No batch is left, or the batch at hand is one iteration too many.
EndEpoch ==
    /\ trainer = "batches" /\ (batch = EpochBatches \/ iter = TotalIters)
    /\ iter' = IF batch = EpochBatches THEN iter ELSE iter + 1
    /\ epoch' = epoch + 1 /\ trainer' = "epochs"
    /\ UNCHANGED <<batch, trained, rate, checkpointVars, trainings>>

\* model.save: the network, then the state of the same iteration.  torch.save
\* opens a file, which tears what it held, and closes it whole.
OpenFile(point, file, next) ==
    /\ trainer = point /\ trainer' = next
    /\ torn' = torn \cup {file}
    /\ UNCHANGED <<modelVars, trainings>>

CloseFile(point, file, next) ==
    /\ trainer = point /\ trainer' = next
    /\ torn' = torn \ {file}
    /\ UNCHANGED <<modelVars, nets, states, trainings>>

OpenNet ==
    /\ OpenFile("saveNet", <<"net", iter>>, "closeNet")
    /\ nets' = Set(nets, iter, trained) /\ UNCHANGED states

CloseNet == CloseFile("closeNet", <<"net", iter>>, "saveState")

OpenState ==
    /\ OpenFile("saveState", <<"state", iter>>, "closeState")
    /\ states' = Set(states, iter, [epoch |-> epoch, rate |-> rate]) /\ UNCHANGED nets

CloseState == CloseFile("closeState", <<"state", iter>>, "batches")

KillTraining ==
    /\ trainer \notin {"down", "over"}
    /\ trainer' = "down"
    /\ UNCHANGED <<modelVars, checkpointVars, trainings>>

BasicsrNext ==
    \/ StartFresh \/ ResumeTraining \/ BeginEpoch \/ FinishTraining \/ TrainBatch \/ EndEpoch
    \/ OpenNet \/ CloseNet \/ OpenState \/ CloseState \/ KillTraining

BasicsrSpec == BasicsrInit /\ [][BasicsrNext]_basicsrVars

----------------------------------------------------------------------------
(* Properties. *)

Updates(i) == IF i > TotalIters THEN TotalIters ELSE i

\* However often the program was killed and resumed, a running training has
\* done as many updates of the weights as it counts iterations, its schedulers
\* are one behind, and the weights were trained on every batch of every epoch
\* before the one it is in; and so has, by its number, every saved state that
\* a start can load.
TrainingIsWhole ==
    /\ trainer # "down" =>
        /\ Len(trained) = Updates(iter)
        /\ rate = IF trained = <<>> THEN 0 ELSE Len(trained) - 1
        /\ iter <= TotalIters =>
            \A e \in 0 .. epoch - 1, b \in 1 .. EpochBatches :
                \E n \in DOMAIN trained : trained[n] = <<e, b>>
    /\ \A i \in DOMAIN states :
        <<"state", i>> \notin torn => i \in DOMAIN nets /\ <<"net", i>> \notin torn /\ Len(nets[i]) = i
=============================================================================
