SPECIFICATION Spec
CONSTANTS
    Paths <- MCPaths
    Ignored <- MCIgnored
    Folders <- MCFolders
    Trees <- MCTrees
    Length <- MCLength
    MaxOps = 3
    New = New
    None = None
    Absent = Absent
VIEW View
INVARIANTS
    TypeOK
PROPERTIES
    RollbackSound
CHECK_DEADLOCK FALSE
