-------------------------- MODULE TrainLoopProofs --------------------------
(***************************************************************************)
(* Proofs about the training loop of TrainLoop, for every value of the     *)
(* constants that satisfies their assumptions.                             *)
(***************************************************************************)
EXTENDS TrainLoop, TLAPS

USE NumRecordsAssumption, BatchSizeAssumption, EpochsAssumption,
    DecayStepsAssumption, NumBlocksAssumption

(***************************************************************************)
(* TypeOK alone is not inductive: EndEpoch increments iteration, which     *)
(* stays within 0..Epochs only because the batch loop is entered with      *)
(* iteration < Epochs.                                                     *)
(***************************************************************************)
TypeInv ==
    /\ TypeOK
    /\ pc = "batch" => iteration < Epochs

(***************************************************************************)
(* The inductive invariant behind StepCount: inside an epoch, k full       *)
(* batches have been trained, num_total is k * batch_size, the step is     *)
(* the full batches of the finished epochs plus k, and either every batch  *)
(* so far was full (begin = num_total) or the partial batch was skipped    *)
(* and all full batches are done.                                          *)
(***************************************************************************)
BatchInv ==
    pc = "batch" =>
        \E k \in 0..FullBatches :
            /\ numTotal = k * BatchSize
            /\ step = iteration * FullBatches + k
            /\ \/ begin = numTotal
               \/ begin >= NumRecords /\ k = FullBatches

EpochInv == pc \in {"epoch", "done"} => step = iteration * FullBatches

IInv ==
    /\ TypeInv
    /\ BatchInv
    /\ EpochInv
    /\ DecayFollowsCode

LEMMA TypeInvInit == Init => TypeInv
<1> SUFFICES ASSUME Init PROVE TypeInv
  OBVIOUS
<1>1. saved \in BOOLEAN
  BY Zenon DEF Init
<1>2. QED
  BY <1>1 DEF Init, TypeInv, TypeOK, Blocks

LEMMA TypeInvStep == TypeInv /\ [Next]_vars => TypeInv'
<1> SUFFICES ASSUME TypeInv, [Next]_vars PROVE TypeInv'
  OBVIOUS
\* The Boolean conjunct is Zenon's; the arithmetic ones are SMT's.
<1>0. saved' \in BOOLEAN
  BY Zenon DEF TypeInv, TypeOK, Next, vars, StartEpoch, Finish, SkipBatch,
               TrainBatch, EndEpoch
<1>1. CASE StartEpoch
  BY <1>0, <1>1 DEF StartEpoch, TypeInv, TypeOK
<1>2. CASE Finish
  BY <1>0, <1>2 DEF Finish, TypeInv, TypeOK
<1>3. CASE SkipBatch
  BY <1>0, <1>3 DEF SkipBatch, TypeInv, TypeOK
<1>4. CASE TrainBatch
  BY <1>0, <1>4 DEF TrainBatch, DecayNow, TypeInv, TypeOK
<1>5. CASE EndEpoch
  BY <1>0, <1>5 DEF EndEpoch, TypeInv, TypeOK
<1>6. CASE UNCHANGED vars
  BY <1>0, <1>6 DEF vars, TypeInv, TypeOK
<1>7. QED
  BY <1>1, <1>2, <1>3, <1>4, <1>5, <1>6 DEF Next

(***************************************************************************)
(* Type correctness: every variable of the training loop keeps the type    *)
(* TypeOK gives it, whatever the loop does.                                *)
(***************************************************************************)
THEOREM TypeCorrect == Spec => []TypeOK
<1>1. TypeInv => TypeOK
  BY DEF TypeInv
<1>2. QED
  BY TypeInvInit, TypeInvStep, <1>1, PTL DEF Spec
-----------------------------------------------------------------------------
(***************************************************************************)
(* Arithmetic facts on integer division by a positive divisor.             *)
(***************************************************************************)
LEMMA MulDiv == ASSUME NEW k \in Nat, NEW b \in Nat \ {0}
                PROVE  (k * b) \div b = k
  OBVIOUS

LEMMA DivLowerBound == ASSUME NEW k \in Nat, NEW n \in Nat, NEW b \in Nat \ {0},
                              k * b <= n
                       PROVE  k <= n \div b
  OBVIOUS

LEMMA DivBounds == ASSUME NEW n \in Nat, NEW b \in Nat \ {0}
                   PROVE  /\ (n \div b) * b <= n
                          /\ n < (n \div b) * b + b
  OBVIOUS

(***************************************************************************)
(* One step of the code's decay: from s to s + 1 steps the exponent of the *)
(* closed form grows by s \div decay_steps exactly when the test of line   *)
(* 165 fires at s, and stays put otherwise.                                *)
(***************************************************************************)
LEMMA DecayStep == ASSUME NEW s \in Nat
                   PROVE  CodeDecayExp(s + 1) =
                            IF DecayNow(s) THEN CodeDecayExp(s) + s \div DecaySteps
                                           ELSE CodeDecayExp(s)
<1> DEFINE D == DecaySteps
<1>1. LastDecayIndex(s + 1) = s \div D
  BY DEF LastDecayIndex
<1>2. CASE DecayNow(s)
  <2> DEFINE m == s \div D
  <2>1. LastDecayIndex(s) = m - 1 /\ m >= 2
    BY <1>2 DEF DecayNow, LastDecayIndex
  <2>2. CASE m = 2
    BY <1>1, <1>2, <2>1, <2>2 DEF CodeDecayExp
  <2>3. CASE m >= 3
    <3>1. ((m - 1) * m) \div 2 - 1 + m = (m * (m + 1)) \div 2 - 1
      BY <2>3
    <3>2. QED
      BY <1>1, <1>2, <2>1, <2>3, <3>1 DEF CodeDecayExp
  <2>4. QED
    BY <2>1, <2>2, <2>3
<1>3. CASE ~DecayNow(s)
  <2>1. CASE s % D # 0
    <3>1. s >= 1 /\ s \div D = (s - 1) \div D
      BY <2>1
    <3>2. QED
      BY <1>1, <1>3, <3>1 DEF CodeDecayExp, LastDecayIndex
  <2>2. CASE s % D = 0
    <3>1. s = 0 \/ s = D
      BY <1>3, <2>2 DEF DecayNow
    <3>2. QED
      BY <1>1, <1>3, <3>1 DEF CodeDecayExp, LastDecayIndex
  <2>3. QED
    BY <2>1, <2>2
<1>4. QED
  BY <1>2, <1>3
-----------------------------------------------------------------------------
LEMMA IInvInit == Init => IInv
<1> SUFFICES ASSUME Init PROVE IInv
  OBVIOUS
<1>1. TypeInv
  BY TypeInvInit
<1>2. CodeDecayExp(0) = 0
  BY DEF CodeDecayExp, LastDecayIndex
<1>3. FullBatches \in Nat
  BY DEF FullBatches
<1>4. QED
  BY <1>1, <1>2, <1>3 DEF Init, IInv, BatchInv, EpochInv, DecayFollowsCode

LEMMA IInvStep == IInv /\ [Next]_vars => IInv'
<1> SUFFICES ASSUME IInv, [Next]_vars PROVE IInv'
  OBVIOUS
<1> DEFINE FB == FullBatches
<1>0. /\ TypeInv'
      /\ TypeOK
      /\ FB \in Nat
      /\ FB * BatchSize <= NumRecords
      /\ NumRecords < FB * BatchSize + BatchSize
  <2>1. TypeInv' /\ TypeOK
    BY TypeInvStep DEF IInv, TypeInv
  <2>2. FB \in Nat
    BY DEF FullBatches
  <2>3. QED
    BY <2>1, <2>2, DivBounds DEF FullBatches
<1>1. CASE StartEpoch
  <2>1. BatchInv'
    <3>1. step = iteration * FB
      BY <1>1 DEF StartEpoch, IInv, EpochInv
    <3>2. QED
      BY <1>0, <1>1, <3>1 DEF StartEpoch, BatchInv, TypeOK
  <2>2. QED
    BY <1>0, <1>1, <2>1 DEF StartEpoch, IInv, EpochInv, DecayFollowsCode
<1>2. CASE Finish
  BY <1>0, <1>2 DEF Finish, IInv, BatchInv, EpochInv, DecayFollowsCode
<1>3. CASE SkipBatch
  <2>1. PICK k \in 0..FB :
            /\ numTotal = k * BatchSize
            /\ step = iteration * FB + k
            /\ \/ begin = numTotal
               \/ begin >= NumRecords /\ k = FB
    BY <1>3 DEF SkipBatch, IInv, BatchInv
  <2>2. k = FB
    <3>1. SUFFICES ASSUME k + 1 <= FB PROVE FALSE
      BY <1>0, <2>1
    <3>2. (k + 1) * BatchSize <= FB * BatchSize
      BY <1>0, <3>1
    <3>3. QED
      BY <1>0, <1>3, <2>1, <3>2 DEF SkipBatch
  <2>3. BatchInv'
    BY <1>0, <1>3, <2>1, <2>2 DEF SkipBatch, BatchInv, TypeOK
  <2>4. QED
    BY <1>3, <1>0, <2>3 DEF SkipBatch, IInv, EpochInv, DecayFollowsCode
<1>4. CASE TrainBatch
  <2>1. PICK k \in 0..FB :
            /\ numTotal = k * BatchSize
            /\ step = iteration * FB + k
            /\ \/ begin = numTotal
               \/ begin >= NumRecords /\ k = FB
    BY <1>4 DEF TrainBatch, IInv, BatchInv
  <2>2. begin = k * BatchSize
    <3>1. begin < NumRecords
      BY <1>4 DEF TrainBatch
    <3>2. QED
      BY <1>0, <2>1, <3>1 DEF TypeOK
  <2>3. k + 1 <= FB
    <3>1. (k + 1) * BatchSize <= NumRecords
      BY <1>0, <1>4, <2>2 DEF TrainBatch, TypeOK
    <3>2. QED
      BY <3>1, DivLowerBound DEF FullBatches
  <2>4. BatchInv'
    BY <1>0, <1>4, <2>1, <2>2, <2>3 DEF TrainBatch, BatchInv, TypeOK
  <2>5. DecayFollowsCode'
    <3>1. CodeDecayExp(step + 1) =
            IF DecayNow(step) THEN CodeDecayExp(step) + step \div DecaySteps
                              ELSE CodeDecayExp(step)
      BY <1>0, DecayStep DEF TypeOK
    <3>2. QED
      BY <1>4, <3>1 DEF TrainBatch, IInv, DecayFollowsCode
  <2>6. QED
    BY <1>0, <1>4, <2>4, <2>5 DEF TrainBatch, IInv, EpochInv
<1>5. CASE EndEpoch
  <2>1. PICK k \in 0..FB :
            /\ numTotal = k * BatchSize
            /\ step = iteration * FB + k
            /\ \/ begin = numTotal
               \/ begin >= NumRecords /\ k = FB
    BY <1>5 DEF EndEpoch, IInv, BatchInv
  <2>2. CASE numTotal = 0
    BY <1>0, <1>5, <2>2 DEF EndEpoch, IInv, BatchInv, EpochInv, DecayFollowsCode
  <2>3. CASE numTotal # 0
    <3>1. k = FB
      <4>1. SUFFICES ASSUME k + 1 <= FB, begin = numTotal PROVE FALSE
        BY <1>0, <2>1
      <4>2. (k + 1) * BatchSize <= FB * BatchSize
        BY <1>0, <4>1
      <4>3. QED
        BY <1>0, <1>5, <2>1, <4>1, <4>2 DEF EndEpoch
    <3>2. step = (iteration + 1) * FB
      BY <1>0, <2>1, <3>1 DEF TypeOK
    <3>3. QED
      BY <1>0, <1>5, <2>3, <3>2 DEF EndEpoch, IInv, BatchInv, EpochInv,
                                   DecayFollowsCode
  <2>4. QED
    BY <2>2, <2>3
<1>6. CASE UNCHANGED vars
  BY <1>0, <1>6 DEF vars, IInv, BatchInv, EpochInv, DecayFollowsCode
<1>7. QED
  BY <1>1, <1>2, <1>3, <1>4, <1>5, <1>6 DEF Next

LEMMA IInvImpliesStepCount == IInv => StepCount
<1> SUFFICES ASSUME IInv PROVE StepCount
  OBVIOUS
<1>1. ASSUME pc = "batch"
      PROVE  /\ numTotal = BatchSize * BatchesThisEpoch
             /\ BatchesThisEpoch <= FullBatches
             /\ step = iteration * FullBatches + BatchesThisEpoch
  <2>1. PICK k \in 0..FullBatches :
            /\ numTotal = k * BatchSize
            /\ step = iteration * FullBatches + k
    BY <1>1 DEF IInv, BatchInv
  <2>2. BatchesThisEpoch = k
    BY <2>1, MulDiv DEF BatchesThisEpoch, FullBatches
  <2>3. QED
    BY <2>1, <2>2 DEF FullBatches
<1>2. QED
  BY <1>1 DEF IInv, EpochInv, StepCount

(***************************************************************************)
(* The global step counts exactly the full batches trained over all        *)
(* epochs (the partial batch is skipped before the step is counted), for   *)
(* every number of records, batch size and number of epochs.               *)
(***************************************************************************)
THEOREM StepCountCorrect == Spec => []StepCount
BY IInvInit, IInvStep, IInvImpliesStepCount, PTL DEF Spec

(***************************************************************************)
(* The learning rate in effect after s steps is learning_rate times 0.96   *)
(* to the power 2 + 3 + ... + K, K the last multiple of decay_steps passed *)
(* through: the code compounds its decays instead of following a staircase.*)
(***************************************************************************)
THEOREM DecayFollowsCodeCorrect == Spec => []DecayFollowsCode
<1>1. IInv => DecayFollowsCode
  BY DEF IInv
<1>2. QED
  BY IInvInit, IInvStep, <1>1, PTL DEF Spec
-----------------------------------------------------------------------------
(***************************************************************************)
(* Refinement of the SGD schedule.  Inside an epoch the schedule's batch   *)
(* count is k, the full batches BatchInv names; outside it is 0.           *)
(***************************************************************************)
LEMMA BatchCount == ASSUME IInv, pc = "batch"
                    PROVE  \E k \in 0..FullBatches :
                               /\ BatchesThisEpoch = k
                               /\ numTotal = k * BatchSize
                               /\ \/ begin = numTotal
                                  \/ begin >= NumRecords /\ k = FullBatches
<1>1. PICK k \in 0..FullBatches :
          /\ numTotal = k * BatchSize
          /\ \/ begin = numTotal
             \/ begin >= NumRecords /\ k = FullBatches
  BY DEF IInv, BatchInv
<1>2. BatchesThisEpoch = k
  BY <1>1, MulDiv DEF BatchesThisEpoch, FullBatches
<1>3. QED
  BY <1>1, <1>2

LEMMA ScheduleInit == Init => Sched!SInit
<1> SUFFICES ASSUME Init PROVE Sched!SInit
  OBVIOUS
<1>1. CodeDecayExp(0) = 0
  BY DEF CodeDecayExp, LastDecayIndex
<1>2. QED
  BY <1>1 DEF Init, Sched!SInit

LEMMA ScheduleStep == IInv /\ IInv' /\ [Next]_vars => [Sched!SNext]_Sched!svars
<1> SUFFICES ASSUME IInv, IInv', [Next]_vars PROVE [Sched!SNext]_Sched!svars
  OBVIOUS
<1> DEFINE FB == FullBatches
<1>0. /\ TypeOK /\ TypeOK'
      /\ FB \in Nat
      /\ FB * BatchSize <= NumRecords
      /\ NumRecords < FB * BatchSize + BatchSize
  BY DivBounds DEF IInv, TypeInv, FullBatches
<1>1. CASE StartEpoch
  <2>1. BatchesThisEpoch' = 0
    BY <1>1 DEF StartEpoch, BatchesThisEpoch
  <2>2. QED
    BY <1>1, <2>1 DEF StartEpoch, Sched!svars
<1>2. CASE Finish
  BY <1>2 DEF Finish, IInv, TypeInv, TypeOK, Sched!SNext, Sched!Stop
<1>3. CASE SkipBatch
  BY <1>3 DEF SkipBatch, Sched!svars, BatchesThisEpoch
<1>4. CASE TrainBatch
  <2>1. PICK k \in 0..FB :
            /\ BatchesThisEpoch = k
            /\ numTotal = k * BatchSize
            /\ \/ begin = numTotal
               \/ begin >= NumRecords /\ k = FB
    BY <1>4, BatchCount DEF TrainBatch
  <2>2. k + 1 <= FB
    <3>0. begin < NumRecords
      BY <1>4 DEF TrainBatch
    <3>1. begin = k * BatchSize
      BY <1>0, <2>1, <3>0 DEF TypeOK
    <3>2. (k + 1) * BatchSize <= NumRecords
      BY <1>0, <1>4, <3>1 DEF TrainBatch, TypeOK
    <3>3. QED
      BY <3>2, DivLowerBound DEF FullBatches
  <2>3. BatchesThisEpoch' = k + 1
    <3>1. numTotal' = (k + 1) * BatchSize
      BY <1>4, <2>1 DEF TrainBatch
    <3>2. QED
      BY <3>1, MulDiv DEF BatchesThisEpoch
  <2>4. iteration < Epochs
    BY <1>4 DEF TrainBatch, IInv, TypeInv
  <2>5. decayExp' = CodeDecayExp(step + 1)
    BY <1>4 DEF TrainBatch, IInv, DecayFollowsCode
  <2>6. pc = "batch" /\ pc' = "batch" /\ iteration' = iteration /\ step' = step + 1
    BY <1>4 DEF TrainBatch
  <2>7. Sched!TrainStep
    <3>1. /\ (IF pc = "done" THEN "done" ELSE "train") = "train"
          /\ (IF pc' = "done" THEN "done" ELSE "train") = "train"
      BY <2>6
    <3>2. /\ (IF pc = "batch" THEN BatchesThisEpoch ELSE 0) = k
          /\ (IF pc' = "batch" THEN BatchesThisEpoch' ELSE 0) = k + 1
      BY <2>1, <2>3, <2>6
    <3>3. QED
      BY <1>0, <2>1, <2>2, <2>4, <2>5, <2>6, <3>1, <3>2 DEF Sched!TrainStep
  <2>8. QED
    BY <2>7 DEF Sched!SNext
<1>5. CASE EndEpoch
  <2>1. PICK k \in 0..FB :
            /\ BatchesThisEpoch = k
            /\ numTotal = k * BatchSize
            /\ \/ begin = numTotal
               \/ begin >= NumRecords /\ k = FB
    BY <1>5, BatchCount DEF EndEpoch
  <2>2. CASE numTotal = 0
    <3>1. k = 0
      BY <1>0, <2>1, <2>2
    <3>2. QED
      BY <1>5, <2>1, <2>2, <3>1 DEF EndEpoch, Sched!svars
  <2>3. CASE numTotal # 0
    <3>1. k = FB
      <4>1. SUFFICES ASSUME k + 1 <= FB, begin = numTotal PROVE FALSE
        BY <1>0, <2>1
      <4>2. (k + 1) * BatchSize <= FB * BatchSize
        BY <1>0, <4>1
      <4>3. QED
        BY <1>0, <1>5, <2>1, <4>1, <4>2 DEF EndEpoch
    <3>2. iteration < Epochs
      BY <1>5 DEF EndEpoch, IInv, TypeInv
    <3>3. Sched!NextEpoch
      BY <1>5, <2>1, <2>3, <3>1, <3>2 DEF EndEpoch, Sched!NextEpoch
    <3>4. QED
      BY <3>3 DEF Sched!SNext
  <2>4. QED
    BY <2>2, <2>3
<1>6. CASE UNCHANGED vars
  BY <1>6 DEF vars, Sched!svars, BatchesThisEpoch
<1>7. QED
  BY <1>1, <1>2, <1>3, <1>4, <1>5, <1>6 DEF Next

(***************************************************************************)
(* TrainModel implements the SGD schedule, for every value of the          *)
(* constants: epochs in order, FullBatches batches each, one step per      *)
(* batch and a learning rate that is a function of the step.  Only the     *)
(* safety part is proved; the progress the schedule's fairness asks for is *)
(* checked by TLC (run train_loop_schedule) and fails on tiny data sets.   *)
(***************************************************************************)
THEOREM RefinesSchedule == Spec => Sched!SafeSpec
BY IInvInit, IInvStep, ScheduleInit, ScheduleStep, PTL DEF Spec, Sched!SafeSpec
-----------------------------------------------------------------------------
(***************************************************************************)
(* The gradient buffers.  OneBatchPerUpdate is inductive together with the *)
(* type invariant: only TrainBatch touches the buffers, it applies what    *)
(* they hold (zero, by the invariant) plus the batch's own gradient and    *)
(* then zeroes them, and it counts the step, so the step is positive.      *)
(***************************************************************************)
LEMMA GradInit == Init => OneBatchPerUpdate
BY DEF Init, OneBatchPerUpdate

LEMMA GradStep == TypeInv /\ OneBatchPerUpdate /\ [Next]_vars
                  => OneBatchPerUpdate'
<1> SUFFICES ASSUME TypeInv, OneBatchPerUpdate, [Next]_vars
             PROVE  OneBatchPerUpdate'
  OBVIOUS
<1>1. CASE TrainBatch
  <2>1. step' # 0
    BY <1>1 DEF TrainBatch, TypeInv, TypeOK
  <2>2. ASSUME NEW b \in Blocks
        PROVE  grad'[b] = 0 /\ applied'[b] = 1
    BY <1>1 DEF TrainBatch, OneBatchPerUpdate
  <2>3. QED
    BY <2>1, <2>2 DEF OneBatchPerUpdate
<1>2. CASE UNCHANGED <<grad, applied, step>>
  BY <1>2 DEF OneBatchPerUpdate
<1>3. QED
  BY <1>1, <1>2 DEF Next, vars, StartEpoch, Finish, SkipBatch, EndEpoch

(***************************************************************************)
(* Every update of every parameter block applies the gradient of exactly   *)
(* one batch, and no buffer holds a gradient between batches: the          *)
(* `grad[:] = 0.0` reset after updater(...) in TrainModel keeps the        *)
(* grad_req='add' buffers from carrying earlier batches into later         *)
(* updates, for every number of blocks, records and epochs.                *)
(***************************************************************************)
THEOREM OneBatchPerUpdateCorrect == Spec => []OneBatchPerUpdate
BY TypeInvInit, TypeInvStep, GradInit, GradStep, PTL DEF Spec
-----------------------------------------------------------------------------
(***************************************************************************)
(* The checkpoint.  Only the non-crashing EndEpoch writes `saved`, and it  *)
(* first does so at the end of iteration 9; EpochInv, in the state the     *)
(* step reaches, then fixes the step count at ten epochs' worth.           *)
(***************************************************************************)
LEMMA CheckpointStep ==
    ASSUME IInv, IInv', [Next]_vars, ~saved, saved'
    PROVE  step' = (SaveIteration + 1) * FullBatches
<1>1. /\ pc' = "epoch"
      /\ iteration = SaveIteration
      /\ iteration' = iteration + 1
  BY Zenon DEF Next, vars, StartEpoch, Finish, SkipBatch, TrainBatch, EndEpoch
<1>2. step' = iteration' * FullBatches
  BY <1>1 DEF IInv, EpochInv
<1>3. QED
  BY <1>1, <1>2 DEF SaveIteration

(***************************************************************************)
(* The step that writes greedy-0009.params saves the weights of exactly    *)
(* ten epochs of full batches, for every data set and batch size.          *)
(***************************************************************************)
THEOREM CheckpointCorrect == Spec => CheckpointAfterTenEpochs
<1>1. IInv /\ IInv' /\ [Next]_vars
      => [~saved /\ saved' => step' = (SaveIteration + 1) * FullBatches]_vars
  BY CheckpointStep
<1>2. QED
  BY IInvInit, IInvStep, <1>1, PTL DEF Spec, CheckpointAfterTenEpochs
=============================================================================
