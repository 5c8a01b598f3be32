\* Built-in macro invocations: no built-in arm may panic.
CONSTANTS
    MaxParams <- MCMaxParams
    MaxArgs <- MCMaxArgs
    MaxElems <- MCMaxElems
    Positions <- ListPositions
    Nested = FALSE
SPECIFICATION Spec
INVARIANT BuiltinsNeverPanic
CHECK_DEADLOCK FALSE
