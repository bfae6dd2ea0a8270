---------------------------- MODULE MCTrainLoop ----------------------------
(***************************************************************************)
(* Model-checking instance of TrainLoop.  Five records in batches of two   *)
(* give two full batches and a skipped partial one per epoch; ten epochs   *)
(* reach the checkpoint of iteration 9; decay_steps = 3 makes the decay    *)
(* fire at steps 6, 9, ..., 18 of the twenty steps, and the first multiple *)
(* (step 3) exercises the strict `>` of the decay test.                    *)
(***************************************************************************)
EXTENDS TrainLoop

MCNumRecords == 5
MCBatchSize == 2
MCEpochs == 10
MCDecaySteps == 3
MCNumBlocks == 2

\* A data set smaller than one batch: no batch of an epoch is ever full.
MCTinyNumRecords == 1
=============================================================================
