\* Single requests, requests that overlap and requests that are cut off.
CONSTANTS
    User = {"a", "b"}
    Password = {"p", "q"}
    Workspace = {"w"}
    NoWorkspace = "no workspace"
    MaxSession = 3
    MaxReset = 1
    Req = {r1, r2}
    Mix <- AllMixes
SPECIFICATION Spec
INVARIANTS Inv SessionsKnowThePassword
PROPERTIES EndedByTheirOwner KeepsContract
SYMMETRY Symmetry
CHECK_DEADLOCK FALSE
