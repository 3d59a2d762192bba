SPECIFICATION Spec
CONSTANTS
    Radix = 4
    Numbers = {1, 130, 255}
    MaxEntries = 3
INVARIANTS
    TypeOK
    TypesAreTrue
    MismatchIsCallersFault
    SumIsEncodedExactly
