SPECIFICATION Spec
CONSTANTS
    Keys <- TwoKeys
    Modules <- FewModules
    MaxDepth = 30
    MaxHeight = 10
    MaxPrints = 1
INVARIANTS
    RecursionIsReported
CHECK_DEADLOCK FALSE
