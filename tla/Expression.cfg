CONSTANTS
    Bits <- MCBits
    DecimalMax <- MCDecimalMax
    OverflowChecks = TRUE
    FirstYear <- MCFirstYear
    LastYear = 5
    Families <- MCFamilies
    Operands <- MCOperands
    Nodes <- MCNodes
    Columns <- MCColumns
    MaxDepth <- MCMaxDepth
SPECIFICATION ExprSpec
CHECK_DEADLOCK FALSE
INVARIANTS
    NumbersExact
    EqualityAgrees
    
    StoredReadsBack
    DateArithmetic
    
    KeyOrderPreserved
