CONSTANTS
    NumBlocks <- MCNumBlocks
    BatchSize <- MCBatchSize
    MaxNorm2 <- MCMaxNorm2
    GradNorms <- MCGradNorms
SPECIFICATION Spec
INVARIANTS ClipKeepsDirection ClipNormIsMin
\* One batch's update ends once every block has been applied.
CHECK_DEADLOCK FALSE
