\* One request at a time, each of which may fail at any statement.
CONSTANTS
    User = {"o", "a"}
    Creator = "o"
    Onboarded = {"a"}
    Req = {r1}
    Enabled = {"invite", "resend", "accept", "decline", "revoke", "update", "remove", "leave", "delete", "plan"}
    Batches <- FounderToo
    InviteRoles = {"OWNER", "MEMBER"}
    UpdateRoles = {"OWNER", "ADMIN", "MEMBER"}
    Leavers = {"o", "a"}
    FreeLimit = 2
    PlanLimits = {1, 2}
    MaxToken = 2
    CanFail = TRUE
SPECIFICATION Spec
INVARIANTS SomeOwner
PROPERTIES SeatsWithinLimit JoinsByOpenInvite ClosedInviteStaysClosed
CHECK_DEADLOCK FALSE
