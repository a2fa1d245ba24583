CONSTANTS
    MaxFailed = 2
    LockLife = 2
    AccessLife = 1
    RefreshLife = 2
    ResetLife = 1
    MaxSessions = 3
    MaxPasswords = 2
    MaxResets = 1
SPECIFICATION Spec
INVARIANTS
    CurrentPasswordProved
    RotatedOnce
PROPERTIES
    LockEnds
CHECK_DEADLOCK FALSE
