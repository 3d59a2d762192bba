SPECIFICATION FairSpec
CONSTANTS
    Capacity = 2
    MaxOutput = 4
INVARIANTS
    TypeOK
    WholeOutput
    NoDeadlock
PROPERTIES
    Terminates
    ChildExits
CHECK_DEADLOCK FALSE
