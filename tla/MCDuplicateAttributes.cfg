CONSTANTS
    Names <- MCNames
    Values <- MCValues
    CfgConds <- MCCfgConds
    MaxItems <- MCMaxItems
SPECIFICATION Spec
\* Parsing ends in "ok" or an error.
CHECK_DEADLOCK FALSE
INVARIANT NoDuplicateAttributes
