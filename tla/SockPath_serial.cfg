SPECIFICATION SpSpec
CONSTANTS
    s1 = s1
    s2 = s2
    s3 = s3
    s4 = s4
    NoFile = NoFile
    Servers <- FourServers
    Serial = TRUE
INVARIANTS
    Reachable
    BindSucceeds
CHECK_DEADLOCK FALSE
