SPECIFICATION Spec
CONSTANTS
    Program = "graph"
    MaxRev = 2
    Clients = {c1, c2}
SYMMETRY ClientSymmetry
INVARIANTS
    TypeOK
    ObserverSlotFree
    IoThreadExclusive
    StagesFindTheirInputs
    NoLostNotification
    FlagTruthful
    ResultBelongsToLastBuild
    SessionSeesOwnBuild
