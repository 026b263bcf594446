SPECIFICATION FairSpec
CONSTANTS
    Header <- MCHeader
    Directive <- MCDirective
    directives <- MCDirectives
    folders <- MCFolders
    OutOfMemory = TRUE
    Type <- MCType
    Class <- MCClass
    Function <- MCFunction
    Name <- MCName
    NoClass = NoClass
    ASTs <- MCASTs
    NoAST = NoAST
    NoFunction = NoFunction
    StaleFront = {FALSE}
    Unmanglable <- MCUnmanglable
    ast <- MCAst
    Identifier <- MCName
    NoLibrary = NoLibrary
\* the command returns
CHECK_DEADLOCK FALSE
INVARIANTS
    LibraryExact
PROPERTIES
    ImplementsAbiGenerator
    ImplementsGenerateCommand
