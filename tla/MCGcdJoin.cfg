CONSTANTS
    Builtins <- MCBuiltins
    Cells <- MCCells
    None = None
    MaxId <- MCMaxId
    MaxArena = 3
    InternTys <- MCInternTys
    QueryTys <- MCQueryTys
    Items <- MCItems
SPECIFICATION Spec
INVARIANT GcdIsUpperBound
CHECK_DEADLOCK FALSE
