\* Registration, verification and sign-in by a provider.
CONSTANTS
    Email = {"x", "y"}
    NoEmail = "no address"
    Base = {"n"}
    BaseOf <- SameBase
    MaxSuffix = 1
    Phone = {"p"}
    NoPhone = "no phone"
    Provider = {"google", "github"}
    Configured = {"google"}
    Insists = {"github"}
    Subject = {"s"}
    MaxAccount = 3
    MaxToken = 3
    MaxState = 2
    Req = {r1, r2}
    Mix <- AllMixes
SPECIFICATION Spec
INVARIANTS Inv SearchesAreShort
PROPERTIES VerificationIsEarned KeepsContract
SYMMETRY Symmetry
CHECK_DEADLOCK FALSE
