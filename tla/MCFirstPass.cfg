\* The first pass over every file of up to three nodes.
CONSTANTS
    Names <- MCNames
    MaxNodes <- MCMaxNodes
    MainModule = TRUE
SPECIFICATION Spec
INVARIANT ItemsInDeclaringScope
INVARIANT MainDetected
\* The visit of a file ends, with its items recorded or with an error.
CHECK_DEADLOCK FALSE
