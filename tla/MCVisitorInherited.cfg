SPECIFICATION Spec
CONSTANTS
    Type <- MCType
    Class <- MCClass
    Function <- MCFunction
    Name <- MCName
    NoClass = NoClass
    NoFunction = NoFunction
    NoAST = NoAST
    ASTs <- Inherited
    StaleFront = {FALSE}
INVARIANT
    AllBaseClassesCollected
