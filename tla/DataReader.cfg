CONSTANTS
    l1 = l1
    l2 = l2
    v1 = v1
    v2 = v2
    BadLine = BadLine
    BadFeat = BadFeat
    Blank = Blank
    NoId = NoId
    Labels <- MCLabels
    Values <- MCValues
    RawFiles <- MCRawFiles
    IdFiles <- MCIdFiles
    MaxCalls <- MCMaxCalls
SPECIFICATION Spec
INVARIANTS IdsDenseInjective ReturnedIdsStable
\* The readers stop once MaxCalls calls have been made.
CHECK_DEADLOCK FALSE
