SPECIFICATION Spec
CONSTANTS
    Null = Null
    Cases <- MCCases
INVARIANTS
    
    AnswerGroups
    AnswerPage
\* A query that is answered takes no further step.
CHECK_DEADLOCK FALSE
