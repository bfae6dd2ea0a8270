----------------------------- MODULE TrainLoop -----------------------------
(***************************************************************************)
(* GreedyParser.TrainModel of src/mxnet/graph_builder.py: the SGD training *)
(* loop over epochs and fixed-size mini-batches, with the global step      *)
(* counter, the learning-rate decay, the per-epoch accuracy counters, the  *)
(* gradient buffers bound with grad_req='add' and the checkpoint written   *)
(* after iteration 9.                                                      *)
(*                                                                         *)
(* Data is abstracted away: a record is only a position in X_train, the    *)
(* network's prediction is a nondeterministic count of correct labels per  *)
(* batch, and the weights are not state (the gradient clipping that scales *)
(* them is the pure operator of module ClipGrad).  The learning rate is    *)
(* kept as its decay exponent: opt.lr = learning_rate * 0.96^decayExp.     *)
(***************************************************************************)
EXTENDS Naturals

CONSTANTS
    NumRecords,   \* X_train.shape[0], the number of training records
    BatchSize,    \* self._batch_size, set by SetupModel
    Epochs,       \* self._epoch, the number of passes over the data
    DecaySteps,   \* self._decay_steps
    NumBlocks     \* len(param_blocks): the weight and bias arrays

ASSUME NumRecordsAssumption == NumRecords \in Nat
ASSUME BatchSizeAssumption == BatchSize \in Nat \ {0}
ASSUME EpochsAssumption == Epochs \in Nat
ASSUME DecayStepsAssumption == DecaySteps \in Nat \ {0}
ASSUME NumBlocksAssumption == NumBlocks \in Nat \ {0}

\* The checkpoint is written when `iteration == 9` (line 210).
SaveIteration == 9

\* The entries of m.param_blocks, in the order SetupModel appends them.
Blocks == 1..NumBlocks

\* Number of batches of an epoch that are trained: the last, partial batch
\* fails `batchX.shape[0] != self._batch_size` and is skipped.
FullBatches == NumRecords \div BatchSize

\* Mutation (see below): the decay test written with >=, so that the first
\* decay happens at decay_steps.
DecayNowAtFirstMultiple(s) == s >= DecaySteps /\ s % DecaySteps = 0

\* The decay test of line 165, made on the step count before the increment.
DecayNow(s) == s > DecaySteps /\ s % DecaySteps = 0

VARIABLES
    pc,          \* "epoch" (outer loop head), "batch" (inner loop), "done", "crashed"
    iteration,   \* the outer loop variable
    begin,       \* the inner loop variable: offset of the next batch
    step,        \* self._step, never reset
    decayExp,    \* exponent of 0.96 in self._learning_rate (and opt.lr)
    numCorrect,  \* num_correct of the current epoch
    numTotal,    \* num_total of the current epoch
    grad,        \* grad[b]: batch gradients accumulated in arg_grads of block b
    applied,     \* applied[b]: batch gradients in the last update of block b
    saved        \* the greedy-0009.params checkpoint has been written

vars == <<pc, iteration, begin, step, decayExp, numCorrect, numTotal,
          grad, applied, saved>>

TypeOK ==
    /\ pc \in {"epoch", "batch", "done", "crashed"}
    /\ iteration \in 0..Epochs
    /\ begin \in Nat
    /\ step \in Nat
    /\ decayExp \in Nat
    /\ numCorrect \in Nat
    /\ numTotal \in Nat
    /\ grad \in [Blocks -> Nat]
    /\ applied \in [Blocks -> Nat]
    /\ saved \in BOOLEAN

(***************************************************************************)
(* State on entry to TrainModel, right after the constructor (step 0) and  *)
(* SetupModel, which binds the executor with zeroed gradient arrays.       *)
(***************************************************************************)
Init ==
    /\ pc = "epoch"
    /\ iteration = 0
    /\ begin = 0
    /\ step = 0
    /\ decayExp = 0
    /\ numCorrect = 0
    /\ numTotal = 0
    /\ grad = [b \in Blocks |-> 0]
    /\ applied = [b \in Blocks |-> 0]
    /\ saved = FALSE

-----------------------------------------------------------------------------
(***************************************************************************)
(* Mutations: plausible slips in TrainModel, each of which a property of   *)
(* the passing run must catch.                                             *)
(***************************************************************************)

\* The epoch loop without its bound.
StartEpochUnbounded ==
    /\ pc = "epoch"
    /\ pc' = "batch"
    /\ begin' = 0
    /\ numCorrect' = 0
    /\ numTotal' = 0
    /\ UNCHANGED <<iteration, step, decayExp, grad, applied, saved>>

\* `self._step += 1` placed before the partial-batch `continue`.
SkipBatchCountsStep ==
    /\ pc = "batch"
    /\ begin < NumRecords
    /\ NumRecords - begin < BatchSize
    /\ begin' = begin + BatchSize
    /\ step' = step + 1
    /\ UNCHANGED <<pc, iteration, decayExp, numCorrect, numTotal,
                   grad, applied, saved>>

\* The `grad[:] = 0.0` reset dropped: backward keeps adding into the buffers.
TrainBatchNoReset ==
    /\ pc = "batch"
    /\ begin < NumRecords
    /\ NumRecords - begin >= BatchSize
    /\ decayExp' = IF DecayNow(step) THEN decayExp + step \div DecaySteps
                                      ELSE decayExp
    /\ step' = step + 1
    /\ \E correct \in 0..BatchSize : numCorrect' = numCorrect + correct
    /\ numTotal' = numTotal + BatchSize
    /\ applied' = [b \in Blocks |-> grad[b] + 1]
    /\ grad' = [b \in Blocks |-> grad[b] + 1]
    /\ begin' = begin + BatchSize
    /\ UNCHANGED <<pc, iteration, saved>>

\* The checkpoint test compares with the loop bound instead of 9.
EndEpochSavesAtBound ==
    /\ pc = "batch"
    /\ begin >= NumRecords
    /\ IF numTotal = 0
          THEN /\ pc' = "crashed"
               /\ UNCHANGED <<iteration, saved>>
          ELSE /\ pc' = "epoch"
               /\ iteration' = iteration + 1
               /\ saved' = (saved \/ iteration = Epochs)
    /\ UNCHANGED <<begin, step, decayExp, numCorrect, numTotal, grad, applied>>

\* The checkpoint test off by one: `iteration == 8`.
EndEpochSavesEarly ==
    /\ pc = "batch"
    /\ begin >= NumRecords
    /\ IF numTotal = 0
          THEN /\ pc' = "crashed"
               /\ UNCHANGED <<iteration, saved>>
          ELSE /\ pc' = "epoch"
               /\ iteration' = iteration + 1
               /\ saved' = (saved \/ iteration = SaveIteration - 1)
    /\ UNCHANGED <<begin, step, decayExp, numCorrect, numTotal, grad, applied>>

-----------------------------------------------------------------------------
\* Head of `for iteration in range(self._epoch)`: a new epoch resets the
\* accuracy counters and restarts the batch loop.
StartEpoch ==
    /\ pc = "epoch"
    /\ iteration < Epochs
    /\ pc' = "batch"
    /\ begin' = 0
    /\ numCorrect' = 0
    /\ numTotal' = 0
    /\ UNCHANGED <<iteration, step, decayExp, grad, applied, saved>>

\* The outer loop is exhausted: TrainModel returns.
Finish ==
    /\ pc = "epoch"
    /\ iteration = Epochs
    /\ pc' = "done"
    /\ UNCHANGED <<iteration, begin, step, decayExp, numCorrect, numTotal,
                   grad, applied, saved>>

\* A trailing batch shorter than batch_size: `continue` before anything
\* else of the body runs.
SkipBatch ==
    /\ pc = "batch"
    /\ begin < NumRecords
    /\ NumRecords - begin < BatchSize
    /\ begin' = begin + BatchSize
    /\ UNCHANGED <<pc, iteration, step, decayExp, numCorrect, numTotal,
                   grad, applied, saved>>

(***************************************************************************)
(* One full batch: decay the learning rate, count the step, run forward    *)
(* and backward (backward adds one batch gradient into every buffer, since *)
(* the executor is bound with grad_req='add'), count the correct           *)
(* predictions, normalise and clip the gradients, apply them with the      *)
(* updater and reset every buffer to zero.                                 *)
(***************************************************************************)
TrainBatch ==
    /\ pc = "batch"
    /\ begin < NumRecords
    /\ NumRecords - begin >= BatchSize
    /\ decayExp' = IF DecayNow(step) THEN decayExp + step \div DecaySteps
                                      ELSE decayExp
    /\ step' = step + 1
    /\ \E correct \in 0..BatchSize : numCorrect' = numCorrect + correct
    /\ numTotal' = numTotal + BatchSize
    /\ applied' = [b \in Blocks |-> grad[b] + 1]
    /\ grad' = [b \in Blocks |-> 0]
    /\ begin' = begin + BatchSize
    /\ UNCHANGED <<pc, iteration, saved>>

(***************************************************************************)
(* End of an epoch: train_acc divides by num_total, which raises           *)
(* ZeroDivisionError when no batch of the epoch was full; after iteration  *)
(* 9 the symbol and the parameters are saved.                              *)
(***************************************************************************)
EndEpoch ==
    /\ pc = "batch"
    /\ begin >= NumRecords
    /\ IF numTotal = 0
          THEN /\ pc' = "crashed"
               /\ UNCHANGED <<iteration, saved>>
          ELSE /\ pc' = "epoch"
               /\ iteration' = iteration + 1
               /\ saved' = (saved \/ iteration = SaveIteration)
    /\ UNCHANGED <<begin, step, decayExp, numCorrect, numTotal, grad, applied>>

Next ==
    \/ StartEpoch
    \/ Finish
    \/ SkipBatch
    \/ TrainBatch
    \/ EndEpoch

\* TrainModel is a single-threaded loop that never blocks: it runs on
\* until it returns or raises.
Spec == Init /\ [][Next]_vars /\ WF_vars(Next)

-----------------------------------------------------------------------------
(***************************************************************************)
(* Properties.                                                             *)
(***************************************************************************)

\* Full batches trained in the current epoch so far.
BatchesThisEpoch == numTotal \div BatchSize

(***************************************************************************)
(* The global step counts exactly the full batches trained, over all       *)
(* epochs: the partial batch is skipped before `self._step += 1`, and the  *)
(* counter is never reset between epochs.  Inside an epoch num_total is    *)
(* batch_size times the batches trained in it, and is never more than the  *)
(* epoch's full batches.                                                   *)
(***************************************************************************)
StepCount ==
    /\ pc = "batch" =>
         /\ numTotal = BatchSize * BatchesThisEpoch
         /\ BatchesThisEpoch <= FullBatches
         /\ step = iteration * FullBatches + BatchesThisEpoch
    /\ pc \in {"epoch", "done"} => step = iteration * FullBatches

\* The largest k with k * DecaySteps < s, i.e. the last multiple of
\* DecaySteps the step counter has passed through before reaching s.
LastDecayIndex(s) == IF s = 0 THEN 0 ELSE (s - 1) \div DecaySteps

(***************************************************************************)
(* The learning rate in effect after s steps, as the code computes it: a   *)
(* decay happens at every step k * decay_steps with k >= 2 (the test is    *)
(* `>`, so not at k = 1), and multiplies the already decayed rate by       *)
(* 0.96^k, so the exponents add up to 2 + 3 + ... + K.                     *)
(***************************************************************************)
CodeDecayExp(s) ==
    LET K == LastDecayIndex(s)
    IN  IF K <= 1 THEN 0 ELSE (K * (K + 1)) \div 2 - 1

\* The learning rate follows the closed form above at every step.
DecayFollowsCode == decayExp = CodeDecayExp(step)

(***************************************************************************)
(* A staircase exponential decay, learning_rate * 0.96^(s // decay_steps)  *)
(* for the batch trained at step s, which is what a decay_steps parameter  *)
(* with a fixed 0.96 rate stands for.                                      *)
(***************************************************************************)
DecayIsStaircase == decayExp = LastDecayIndex(step)

(***************************************************************************)
(* Every update of every parameter block applies the gradient of exactly   *)
(* one batch: the buffers start at zero and, because backward adds into    *)
(* them, must be zeroed after each update; none is left holding a          *)
(* gradient between batches.                                               *)
(***************************************************************************)
OneBatchPerUpdate ==
    \A b \in Blocks :
        /\ grad[b] = 0
        /\ applied[b] = IF step = 0 THEN 0 ELSE 1

(***************************************************************************)
(* The step that writes greedy-0009.params saves the weights of exactly    *)
(* ten full epochs: it is the end of the epoch with iteration 9, and by    *)
(* then the step counter has counted ten times the full batches of an      *)
(* epoch, however the data divides into batches.                           *)
(***************************************************************************)
CheckpointAfterTenEpochs ==
    [][~saved /\ saved' => step' = (SaveIteration + 1) * FullBatches]_vars

(***************************************************************************)
(* TrainModel implements the SGD schedule of module SGDSchedule: the       *)
(* epoch is the outer loop variable, the batch count of the running epoch  *)
(* is num_total / batch_size inside the batch loop and 0 outside it, every *)
(* epoch trains FullBatches batches, and the learning rate follows the     *)
(* closed form CodeDecayExp of the step.  A crash maps to a stutter in the *)
(* "train" phase; the schedule's fairness then demands the progress the    *)
(* crash prevents.                                                         *)
(***************************************************************************)
Sched == INSTANCE SGDSchedule WITH
    Epochs <- Epochs,
    BatchesPerEpoch <- FullBatches,
    Schedule <- CodeDecayExp,
    phase <- IF pc = "done" THEN "done" ELSE "train",
    epoch <- iteration,
    batch <- IF pc = "batch" THEN BatchesThisEpoch ELSE 0,
    step <- step,
    lrExp <- decayExp

\* The training loop refines the schedule, progress included.
ImplementsSchedule == Sched!SSpec

(***************************************************************************)
(* Training runs to completion and the checkpoint of iteration 9 exists at *)
(* the end exactly when there were at least ten epochs.                    *)
(***************************************************************************)
TrainingCompletes ==
    <>(pc = "done" /\ (saved <=> Epochs > SaveIteration))

=============================================================================
