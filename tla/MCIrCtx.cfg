CONSTANTS
    Builtins <- MCBuiltins
    Cells <- MCCells
    None = None
    MaxId <- MCMaxId
    MaxArena = 3
    InternTys <- MCInternTys
    QueryTys <- MCQueryTys
    Items <- MCItems
SPECIFICATION Spec
INVARIANT ZeroSizedMatchesLayout
INVARIANT ZeroSizedStable
PROPERTY InternRefinesTable
CHECK_DEADLOCK FALSE
