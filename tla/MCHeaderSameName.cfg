SPECIFICATION Spec
CONSTANTS
    FileName <- MCFileName
    HeaderName <- MCHeaderName
    files <- MCFiles
    profile_folders <- MCProfileFolders
    header_folders <- MCHeaderFolders
    output <- MCOutput
\* the command returns
CHECK_DEADLOCK FALSE
INVARIANTS
    HeadersImported
