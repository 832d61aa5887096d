\* Requests one by one, overlapping, and cut off between two commands of Redis.
CONSTANTS
    Req = {r1, r2}
    Policy = {"login", "refresh"}
    Ip = {"ip"}
    Value = {"a"}
    NoValue = None
    Limit <- SmallLimit
    Window <- SmallWindow
    MaxCount = 3
    Mix <- AllMixes
SPECIFICATION FairSpec
INVARIANTS Inv OverLimitOnlyAtEnd
PROPERTIES RetryAfterSuffices WindowsEnd
