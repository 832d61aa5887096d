\* Two overlapping requests that may fail; no invite offers ownership, anybody may leave.
CONSTANTS
    User = {"o", "a"}
    Creator = "o"
    Onboarded = {"a"}
    Req = {r1, r2}
    Enabled = {"invite", "accept", "update", "remove", "leave", "purge"}
    Batches <- FounderToo
    InviteRoles = {"ADMIN"}
    UpdateRoles = {"OWNER", "MEMBER"}
    Leavers = {"o", "a"}
    FreeLimit = 2
    PlanLimits = {3}
    MaxToken = 2
    CanFail = TRUE
SPECIFICATION Spec
INVARIANTS Inv FounderKeepsOwnership OwnersAreFounderOrInvited
SYMMETRY ReqSymmetry
CHECK_DEADLOCK FALSE
