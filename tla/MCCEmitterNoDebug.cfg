CONSTANTS
    fa = fa
    fb = fb
    out = out
    Files <- MCFiles
    KnownFiles <- MCKnownFiles
    MaxLine <- MCMaxLine
    MaxItems <- MCMaxItems
    MaxExprs <- MCMaxExprs
    MaxLocals <- MCMaxLocals
    Debug = FALSE
    OutFile <- out
SPECIFICATION Spec
INVARIANT NoLineDirectivesWithoutDebug
CHECK_DEADLOCK FALSE
