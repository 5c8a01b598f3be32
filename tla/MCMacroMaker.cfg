CONSTANTS
    m1 = m1
    m2 = m2
    m3 = m3
    f1 = f1
    Macros <- MCMacros
    Fns <- MCFns
    MaxRefs <- MCMaxRefs
    ItemOrders <- MCItemOrders
SPECIFICATION Spec
INVARIANT TypeOK
INVARIANT CompletedMacrosSound
INVARIANT ExpansionSafe
PROPERTY OutcomeCorrect
CHECK_DEADLOCK FALSE
