CONSTANTS
    Process = {a}
    Call = {r1, r2}
    ProcessOf <- OneServer
    TTL = 2
    Timeout = 1
    Modes = {"static", "discovery"}
    MaxKid = 1
    Horizon = 4
    Absent = Absent
    a = a

SPECIFICATION JwksSpec
SYMMETRY Symmetry

INVARIANT JwksInv
PROPERTIES
    StalenessBounded
    CurrentKeyAccepted
