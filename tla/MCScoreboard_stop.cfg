CONSTANTS
    Link = {"wifi", "fiber"}
    Kind <- MCKind
    Measured <- MCMeasured
    Rows <- MCRows
    Base <- MCBase
    Diverted = {}
    MaxPoints = 1
    MinPoints = 1
    Recent = 1
    Client = {"c1", "c2"}
    Threshold = 700
    Suppression = 1

SPECIFICATION Spec

INVARIANT
    BroadcastGoesOn
