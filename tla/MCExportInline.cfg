CONSTANTS
    MaxParams <- MCMaxParams
SPECIFICATION Spec
INVARIANT ExportedBodiesExternal
CHECK_DEADLOCK FALSE
