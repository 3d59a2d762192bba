SPECIFICATION Spec
CONSTANTS
    Keys <- ThreeKeys
    Modules <- SmallModules
    MaxDepth = 20
    MaxHeight = 10
    MaxPrints = 2
INVARIANTS
    MarksAreReleased
    CacheIsTransparent
    TypeFitsValue
PROPERTIES
    KnownTypesAreKept
CHECK_DEADLOCK FALSE
