SPECIFICATION FairSpec
CONSTANTS
    DirectoryCount = 3
INVARIANTS
    TypeOK
    FirstStableIsFound
    MissedOnlyIfAbsent
    ServesFullyEquipped
PROPERTIES
    StartupEnds
