CONSTANTS
    Dialect = "sqlite"
    Req = {r1, r2}
    User = {u1, u2, u3}
    Session = {s1, s2, s3, s4}
    Pool = {p1, p2, p3}
    State = {t1, t2}
    Name = {"", "a", "b", "B", "c", "none"}
    Password = {"old", "new"}
    Nil = Nil
    u1 = u1
    u2 = u2
    s1 = s1
    s2 = s2
    p1 = p1
    Configured = FALSE
    Fold <- FoldCase
    Scenarios = {"admins"}
    Seeds <- ScenarioSeeds
    Requests <- ScenarioRequests

SPECIFICATION MCSpec
SYMMETRY Symmetry

PROPERTIES
    AdminKept
