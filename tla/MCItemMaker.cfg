\* The item maker over every file of up to four nodes whose impl blocks
\* accompany a type.
CONSTANTS
    Shapes <- MCShapes
    MaxNodes = 4
    ImplsWithoutType = FALSE
SPECIFICATION Spec
INVARIANT TypeOK
INVARIANT PlaceholdersFollowScopes
INVARIANT MadeItemsComplete
\* make returns once every group is made or an error is returned.
CHECK_DEADLOCK FALSE
