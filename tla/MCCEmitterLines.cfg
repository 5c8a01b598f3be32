CONSTANTS
    fa = fa
    fb = fb
    out = out
    Files <- MCFiles
    KnownFiles <- MCKnownFiles
    MaxLine <- MCMaxLine
    MaxItems <- MCMaxItems
    MaxExprs <- MCMaxExprs
    MaxLocals <- MCMaxLocals
    Debug = TRUE
    OutFile <- out
SPECIFICATION Spec
INVARIANT TypeOK
INVARIANT FunctionSpansAttributed
CHECK_DEADLOCK FALSE
