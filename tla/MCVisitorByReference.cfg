SPECIFICATION Spec
CONSTANTS
    Type <- MCTypeReference
    Class <- MCClass
    Function <- MCFunction
    Name <- MCName
    NoClass = NoClass
    NoFunction = NoFunction
    NoAST = NoAST
    ASTs <- ByReference
    StaleFront = {FALSE}
INVARIANT
    ReferentsEnumerated
