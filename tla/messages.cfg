\* The messages of one channel and the events about them.
CONSTANTS
    User = {"a", "b"}
    Manager = {"a"}
    MaxMessage = 2
    MaxEdit = 1
    RowId = {i1, i2}
    None = None
    Req = {r1, r2}
    Mix <- AllMixes
SPECIFICATION Spec
INVARIANTS Inv
PROPERTIES LoneRequestsTellAll ReadMarksGoForward KeepsContract
SYMMETRY Symmetry
CHECK_DEADLOCK FALSE
