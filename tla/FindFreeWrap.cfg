CONSTANTS
    W = 3
    Parents <- TopParents

SPECIFICATION Spec

PROPERTY
    AlwaysEnds
