SPECIFICATION FairSpec
CONSTANTS
    Program = "graph"
    MaxRev = 2
    Clients = {c1}
PROPERTIES
    NotifyLeadsToBuild
    BuildEnds
    ImplementsTrigger
