CONSTANTS
    MaxParams <- MCMaxParams
SPECIFICATION Spec
INVARIANT DefinitionLinkageAgrees
CHECK_DEADLOCK FALSE
