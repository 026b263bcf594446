SPECIFICATION FairSpec
CONSTANTS
    Header <- MCHeader
    Directive <- MCDirective
    directives <- MCDirectives
    folders <- MCFolders
    OutOfMemory = FALSE
    MangleErrors = TRUE
    good <- MCGood
    needs <- MCNeeds
\* the command returns
CHECK_DEADLOCK FALSE
INVARIANTS
    TypeOK
    ActiveCompiles
    PassRefused
    NoHeaderLeftOut
    EveryHeaderOnce
    FinalCompilationRepeats
    OutputAfterCompilation
    IncludedExact
PROPERTIES
    EveryStepAdvances
    Terminates
