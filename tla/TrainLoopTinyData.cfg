CONSTANTS
    NumRecords <- MCTinyNumRecords
    BatchSize <- MCBatchSize
    Epochs <- MCEpochs
    DecaySteps <- MCDecaySteps
    NumBlocks <- MCNumBlocks

SPECIFICATION Spec

PROPERTY TrainingCompletes

CHECK_DEADLOCK FALSE
