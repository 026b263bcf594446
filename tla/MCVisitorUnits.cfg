SPECIFICATION FairSpec
CONSTANTS
    Type <- MCType
    Class <- MCClass
    Function <- MCFunction
    Name <- MCName
    NoClass = NoClass
    NoFunction = NoFunction
    NoAST = NoAST
    ASTs <- MCASTs
    StaleFront = {FALSE}
\* a base class that cannot be resolved stops the program
CHECK_DEADLOCK FALSE
INVARIANTS
    TypeOK
    TreeConsistent
    EnumerationComplete
    BlacklistSound
    BlacklistComplete
    NamesAccounted
    VerdictsSound
    CausesExact
PROPERTIES
    ImplementsAbiFilter
