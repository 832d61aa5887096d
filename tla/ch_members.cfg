\* Two requests about channels and their members overlap, and may die.
CONSTANTS
    User = {"o", "a"}
    Founder = "o"
    Staff = {"o"}
    Chan = {gen, c, d}
    General = gen
    Name = {"general", "x"}
    GeneralName = "general"
    RowId = {i1, i2}
    None = None
    Req = {r1, r2}
    Enabled = {"create", "add", "kick", "join", "leave",
               "rename", "delete", "admit", "depart"}
    MaxLength = 0
    CanFail = TRUE
SPECIFICATION SpecWithName
INVARIANTS Inv
PROPERTIES PrivateByInvitation EndsTheMembershipFound
SYMMETRY Symmetry
