SPECIFICATION Spec
CONSTANTS
    MaxMinor = 4
    RenameMinor = 2
    MaxLimit = 2
    MaxRows = 5
    Programmes <- MCProgrammes
CHECK_DEADLOCK FALSE
INVARIANTS   WalkComplete VersionsServe
