\* Two owners leave at the same time.
CONSTANTS
    User = {"o", "a"}
    Creator = "o"
    Onboarded = {"a"}
    Req = {r1, r2}
    Enabled = {"accept", "leave"}
    Batches <- FounderToo
    InviteRoles = {"OWNER"}
    UpdateRoles = {}
    Leavers = {"o", "a"}
    FreeLimit = 2
    PlanLimits = {3}
    MaxToken = 2
    CanFail = FALSE
SPECIFICATION Spec
INVARIANTS SomeOwner
SYMMETRY ReqSymmetry
CHECK_DEADLOCK FALSE
