CONSTANTS
    Dialects = {"sqlite", "postgres"}
    Req = {r1, r2}
    Uuid = {n1, s1}
    Desc = {d1, d2}
    Tag = {t1, t2}
    Parent <- OneFamily
    Nil = Nil
    n1 = n1

SPECIFICATION Spec
SYMMETRY Symmetric

INVARIANT TagWritesInv
PROPERTY ImplementsResources
CHECK_DEADLOCK FALSE
