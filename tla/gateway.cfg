\* Sockets, rooms and typing in one channel.
CONSTANTS
    User = {"a", "b"}
    NoUser = "nobody"
    Socket = {"one", "two", "watch"}
    Owner <- TwoAndOne
    MaxTimer = 2
    Req = {r1, r2}
    Mix <- AllMixes
SPECIFICATION FairSpec
INVARIANTS Inv
PROPERTIES TypingEnds
