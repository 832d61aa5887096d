\* Secrets and backup codes of one account.
CONSTANTS
    Slot = {c1, c2}
    MaxSecret = 2
    MaxSet = 2
    Req = {r1, r2}
    Mix <- AllMixes
SPECIFICATION Spec
INVARIANTS Inv BackupCodesOpenOnce
PROPERTIES SecondFactorStays KeepsContract
SYMMETRY Symmetry
CHECK_DEADLOCK FALSE
