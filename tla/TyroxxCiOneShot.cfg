SPECIFICATION FairSpec
CONSTANTS
    Program = "tyroxx-ci"
    MaxRev = 2
    Clients = {c1}
PROPERTIES
    NotifyLeadsToBuild
