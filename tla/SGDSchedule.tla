---------------------------- MODULE SGDSchedule ----------------------------
(***************************************************************************)
(* What a mini-batch SGD driver promises about its schedule, independent   *)
(* of how a loop implements it: epochs run in order, each trains exactly   *)
(* BatchesPerEpoch batches, each batch advances the global step by one,    *)
(* and the learning rate in effect is a function of the step alone, given  *)
(* as the exponent Schedule(step) of the decay rate.  The run ends after   *)
(* Epochs epochs.                                                          *)
(*                                                                         *)
(* GreedyParser.TrainModel (module TrainLoop) is shown to implement it.    *)
(***************************************************************************)
EXTENDS Naturals

CONSTANTS
    Epochs,            \* number of epochs
    BatchesPerEpoch,   \* batches trained in every epoch
    Schedule(_)        \* decay exponent of the learning rate after s steps

VARIABLES
    phase,   \* "train" or "done"
    epoch,   \* epochs completed
    batch,   \* batches trained in the running epoch
    step,    \* batches trained in all
    lrExp    \* decay exponent of the learning rate in effect

svars == <<phase, epoch, batch, step, lrExp>>

SInit ==
    /\ phase = "train"
    /\ epoch = 0
    /\ batch = 0
    /\ step = 0
    /\ lrExp = Schedule(0)

\* One batch of the running epoch is trained.
TrainStep ==
    /\ phase = "train"
    /\ epoch < Epochs
    /\ batch < BatchesPerEpoch
    /\ batch' = batch + 1
    /\ step' = step + 1
    /\ lrExp' = Schedule(step + 1)
    /\ UNCHANGED <<phase, epoch>>

\* Every batch of the epoch is trained: the next epoch starts.
NextEpoch ==
    /\ phase = "train"
    /\ epoch < Epochs
    /\ batch = BatchesPerEpoch
    /\ epoch' = epoch + 1
    /\ batch' = 0
    /\ UNCHANGED <<phase, step, lrExp>>

\* All epochs are done.
Stop ==
    /\ phase = "train"
    /\ epoch = Epochs
    /\ phase' = "done"
    /\ UNCHANGED <<epoch, batch, step, lrExp>>

SNext == TrainStep \/ NextEpoch \/ Stop

\* The schedule's safety part, and the schedule with the promise that the
\* driver keeps going until it is done.
SafeSpec == SInit /\ [][SNext]_svars
SSpec == SafeSpec /\ WF_svars(SNext)

=============================================================================
