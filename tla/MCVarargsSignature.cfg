CONSTANTS
    MaxParams <- MCMaxParams
SPECIFICATION Spec
INVARIANT SignatureWellFormed
CHECK_DEADLOCK FALSE
