CONSTANTS
    FeatureCounts <- MCFeatureCounts
    EmbeddingDims <- MCEmbeddingDims
    HiddenWidths <- MCHiddenWidths
    MaxGroups = 2
    MaxLayers = 2
    VocabSize = 3
    NumActions = 2
    BatchSize = 2

SPECIFICATION Spec

INVARIANT ParamsAreTrained
INVARIANT ColumnsPartitionRecord

\* SetupModel runs once; the object is then handed to TrainModel.
CHECK_DEADLOCK FALSE
