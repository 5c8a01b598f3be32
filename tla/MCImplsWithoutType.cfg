\* Files of up to four nodes in which a name may hold impl blocks and no
\* type: spec 4.1 says impls must accompany a type.
CONSTANTS
    Shapes <- MCShapes
    MaxNodes = 4
    ImplsWithoutType = TRUE
SPECIFICATION Spec
INVARIANT MadeItemsComplete
CHECK_DEADLOCK FALSE
