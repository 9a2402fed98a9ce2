CONSTANTS
    Req = {r1, r2}
    Pool = {p1, p2}
    Provider = {v1, v2, v3}
    Machine = {m1, m2}
    Key = {k1, k2}
    Name = {"", "a", "b", "c"}
    Issuer = {"iss"}
    Constraint = {"any", "sub", "other"}
    Anything = "any"
    Nil = Nil
    p1 = p1
    p2 = p2
    v1 = v1
    v2 = v2
    m1 = m1
    m2 = m2
    k1 = k1
    Accepts <- AcceptsExactly
    Seeds <- ScenarioSeeds
    Requests <- ScenarioRequests

SPECIFICATION MCSpec
SYMMETRY Symmetry

INVARIANTS
    MachineInv
    NothingOutlivesItsPool
    ProviderOfSamePool

PROPERTIES
    AuthenticatedWithRights
    RevocationIsFinal
