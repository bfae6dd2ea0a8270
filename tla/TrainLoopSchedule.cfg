CONSTANTS
    NumRecords <- MCNumRecords
    BatchSize <- MCBatchSize
    Epochs <- MCEpochs
    DecaySteps <- MCDecaySteps
    NumBlocks <- MCNumBlocks

SPECIFICATION Spec

PROPERTY ImplementsSchedule

\* TrainModel returns after the last epoch: the program really stops.
CHECK_DEADLOCK FALSE
