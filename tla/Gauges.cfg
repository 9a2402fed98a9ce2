CONSTANTS
    Server = {a, b}
    a = a
    b = b
    Deployments <- BothModes

SPECIFICATION GaugesFairSpec

INVARIANTS
    GaugesInv
    NetworkGaugeExact
PROPERTY Converges
CHECK_DEADLOCK FALSE
