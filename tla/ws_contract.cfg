\* One request at a time, none of which fails and each of which is given
\* its next step: the handlers implement the contract and come to their end.
CONSTANTS
    User = {"o", "a", "b"}
    Creator = "o"
    Onboarded = {"a"}
    Req = {r1}
    Enabled <- AllButPurge
    Batches <- ShortLists
    InviteRoles = {"OWNER", "MEMBER"}
    UpdateRoles = {"ADMIN", "MEMBER"}
    Leavers = {"o", "a", "b"}
    FreeLimit = 2
    PlanLimits = {3}
    MaxToken = 2
    CanFail = FALSE
SPECIFICATION FairSpec
PROPERTIES RoleChangedByHigherRank KeepsContract MembersReachGeneral RequestsEnd
CHECK_DEADLOCK FALSE
