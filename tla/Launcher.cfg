SPECIFICATION Spec
CONSTANTS
    MaxProcs = 3
    MaxDeaths = 1
INVARIANTS
    OneInstance
    FilesKept

    
CHECK_DEADLOCK FALSE
