\* One request at a time, none of which fails; names of up to five characters.
CONSTANTS
    User = {"o", "a"}
    Founder = "o"
    Staff = {"o"}
    Chan = {gen, c, d}
    General = gen
    Name = {"general", "x"}
    GeneralName = "general"
    RowId = {i1, i2}
    None = None
    Req = {r1}
    Enabled = {"create","rename","delete","archive","add","role","kick","join","leave","mute","admit","depart"}
    MaxLength = 5
    CanFail = FALSE
SPECIFICATION SpecWithName
INVARIANTS GeneralStays ChannelsFollowWorkspace NamesNormalize
PROPERTIES KeepsContract
SYMMETRY Symmetry
