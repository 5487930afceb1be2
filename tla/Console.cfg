SPECIFICATION Spec
CONSTANTS
    MaxThreads = 4
    MaxTyped = 3
    MaxPrinted = 3
    Mixes <- MCMixes
CHECK_DEADLOCK FALSE
INVARIANTS SessionsLead StreamKept 
PROPERTY ConsoleEnds
