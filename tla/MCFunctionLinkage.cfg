CONSTANTS
    MaxParams <- MCMaxParams
SPECIFICATION Spec
INVARIANT ArityAgrees
INVARIANT PrivateDefinitionsHidden
CHECK_DEADLOCK FALSE
