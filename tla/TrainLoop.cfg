CONSTANTS
    NumRecords <- MCNumRecords
    BatchSize <- MCBatchSize
    Epochs <- MCEpochs
    DecaySteps <- MCDecaySteps
    NumBlocks <- MCNumBlocks

SPECIFICATION Spec

INVARIANT TypeOK
INVARIANT StepCount
INVARIANT DecayFollowsCode
INVARIANT OneBatchPerUpdate

PROPERTY TrainingCompletes
PROPERTY CheckpointAfterTenEpochs

\* TrainModel returns after the last epoch: the program really stops.
CHECK_DEADLOCK FALSE
