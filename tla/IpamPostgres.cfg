CONSTANTS
    W = 2
    Dialect = "postgres"
    Req = {r1, r2}
    Net = {n1, n2}
    Subnet = {s1, s2}
    Name = {"", "a", "b", "c"}
    Text = {"x", "y"}
    Nil = Nil
    n1 = n1
    Requests <- MixedRequests
    Seed <- OneSeeded

SPECIFICATION FairSpec

INVARIANTS
    NamesUnique
    IndInv

PROPERTIES
    ImplementsPlan
    EveryRequestAnswered
