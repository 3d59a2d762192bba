SPECIFICATION Spec
CONSTANTS
    Program = "build_on_push"
    MaxRev = 2
    Clients = {c1, c2}
SYMMETRY ClientSymmetry
INVARIANTS
    StagesFindTheirInputs
    FlagTruthful
