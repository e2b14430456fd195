CONSTANTS
    Key <- Key3
    Val = {v1, v2, v3, v4, v5, v6}
    Buckets = 3
    Ways = 2
    MaxKicks = 3
    Bucket1 <- First3
    Bucket2 <- Second3
    Fingerprint <- Finger3
SPECIFICATION Spec
SYMMETRY Perms
INVARIANTS
    IndexAgrees
    FailsOnlyWhenFull
PROPERTIES
    IsEntryTable
