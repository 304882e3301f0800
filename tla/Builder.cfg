CONSTANTS
    Params <- MCParams
    MaxExprCalls = 1
    MaxQueryCalls = 3
    Atoms <- MCAtoms
    Few <- MCFew
    Receivers <- MCReceivers
    Texts <- MCTexts
    SqlExprs <- MCSqlExprs
    Statements <- MCStatements
    Storages <- MCStorages
SPECIFICATION Spec
INVARIANTS
    TwinBuildersAgree
    BuilderSaysSql
    TextKept
    PlanPassesSeeAll
CHECK_DEADLOCK FALSE
