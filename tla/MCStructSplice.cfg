\* Splices in every list position spec section 9 names, struct initializers
\* included.
CONSTANTS
    MaxParams <- MCMaxParams
    MaxArgs <- MCMaxArgs
    MaxElems <- MCMaxElems
    Positions <- AllPositions
    Nested = FALSE
SPECIFICATION Spec
INVARIANT ExpansionMatchesSpec
CHECK_DEADLOCK FALSE
