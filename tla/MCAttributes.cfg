CONSTANTS
    Names <- MCNames
    Values <- MCValues
    CfgConds <- MCCfgConds
    MaxItems <- MCMaxItems
SPECIFICATION Spec
INVARIANT TypeOK
INVARIANT CfgConditionsHonoured
INVARIANT AlignPackedExclusive
\* Parsing ends in "ok" or an error.
CHECK_DEADLOCK FALSE
