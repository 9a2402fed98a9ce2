CONSTANTS
    W = 2
    Dialect = "sqlite"
    Req = {r1, r2}
    Net = {n1, n2}
    Subnet = {s1, s2, s3}
    Name = {"", "a", "b", "c"}
    Text = {"x", "y"}
    Nil = Nil
    n1 = n1
    Requests <- SubnetRequests
    Seed <- OneSeeded

SPECIFICATION Spec
SYMMETRY Symmetry

INVARIANTS
    AddressesSound
    OrphanedOnlyByRace

PROPERTIES
    SubnetIdentityFixed
    TenancyKept
    CascadedOnlyByRace
