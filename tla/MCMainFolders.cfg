SPECIFICATION Spec
CONSTANTS
    File <- MCFile
    ProfileName <- MCName
    Malformed = Malformed
    content <- MCContent
    Disks <- OneDisk
    Folder <- MCFolder
    Definition <- MCDefinition
    CommandLines <- WithFolders
\* the program exits
CHECK_DEADLOCK FALSE
INVARIANT
    AdditionalFoldersSearched
