CONSTANTS
    Proc = {a, b, c}
    a = a
    b = b
    Deployments <- AllDeployments
    MaxFaults = 3
    Nil = Nil

SPECIFICATION FairSpec

INVARIANTS
    MigrateInv
    RecordedMeansBuilt
    DowngradeLands
    NoFailureWithoutFault
PROPERTY Upgraded
CHECK_DEADLOCK FALSE
