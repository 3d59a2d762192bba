SPECIFICATION FairSpec
CONSTANTS
    N = 5
INVARIANTS
    TypeOK
    OneResultEach
    InputIsResultOfParent
    NothingLeftBehind
    SiblingsInOrder
PROPERTIES
    Returns
CHECK_DEADLOCK FALSE
