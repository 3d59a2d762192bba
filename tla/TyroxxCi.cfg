SPECIFICATION HangingSpec
CONSTANTS
    Program = "tyroxx-ci"
    MaxRev = 2
    Clients = {c1}
INVARIANTS
    ResultBelongsToLastBuild
PROPERTIES
    FirstNotifyLeadsToBuild
    NotifyIsAnswered
