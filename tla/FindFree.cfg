CONSTANTS
    W = 4
    Parents <- AllParents

SPECIFICATION Spec

INVARIANTS
    FindFreeInv
    FirstFit

PROPERTY
    EndsUnlessWrapped
