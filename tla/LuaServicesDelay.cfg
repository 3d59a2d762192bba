SPECIFICATION Spec
CONSTANTS
    N = 3
INVARIANTS
    DelayPassesOutputOn
CHECK_DEADLOCK FALSE
