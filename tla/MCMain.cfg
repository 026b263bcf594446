SPECIFICATION Spec
CONSTANTS
    File <- MCFile
    ProfileName <- MCName
    Malformed = Malformed
    content <- MCContent
    Disks <- MCDisks
    Folder <- MCFolder
    Definition <- MCDefinition
    CommandLines <- MCCommandLines
\* the program exits
CHECK_DEADLOCK FALSE
INVARIANTS
    TypeOK
    ProfilesExact
    OptionsStayValid
    CompileOutcome
    
PROPERTIES
    FirstProfileKept
