CONSTANTS
    Values <- MCValues
    Pages <- MCPages
    RuleSets <- MCRuleSets
    Keys <- MCKeys
    Rest <- MCRest
    Lengths = {0, 1, 100}
    MaxMatches = 7
SPECIFICATION Spec
INVARIANTS
    DocumentedPathsResolve
    RootSubscriptsAreLost
    ASixthIsAccepted
    OneMoreFieldCostsLittle
    IndInv
\* One page is processed, and the program returns.
CHECK_DEADLOCK FALSE
