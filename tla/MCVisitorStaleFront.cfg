SPECIFICATION Spec
CONSTANTS
    Type <- MCType
    Class <- MCClass
    Function <- MCFunction
    Name <- MCName
    NoClass = NoClass
    NoFunction = NoFunction
    NoAST = NoAST
    ASTs <- Graphs
    StaleFront = {FALSE, TRUE}
INVARIANTS
    VerdictsBounded
    CausesBounded
PROPERTIES
    EveryStepAdvances
