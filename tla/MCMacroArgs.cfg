\* Splices in argument lists and block statements; no nested splices.
CONSTANTS
    MaxParams <- MCMaxParams
    MaxArgs <- MCMaxArgs
    MaxElems <- MCMaxElems
    Positions <- ListPositions
    Nested = FALSE
SPECIFICATION Spec
INVARIANT TypeOK
INVARIANT BindingFollowsTable
INVARIANT ExpansionMatchesSpec
INVARIANT ReduceIsLeftFold
INVARIANT FormatArgsMatchesSpec
\* An expansion ends in "ok" or an error.
CHECK_DEADLOCK FALSE
