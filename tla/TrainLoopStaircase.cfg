CONSTANTS
    NumRecords <- MCNumRecords
    BatchSize <- MCBatchSize
    Epochs <- MCEpochs
    DecaySteps <- MCDecaySteps
    NumBlocks <- MCNumBlocks

SPECIFICATION Spec

INVARIANT DecayIsStaircase

CHECK_DEADLOCK FALSE
