CONSTANTS
    Sessions = {s1, s2}
    Keys = {k1, k2}
    SessionKeys = 1
    RouterKeys = 1
    MaxRunning = 3
    Values = {v0, v1}
    Default = v0
    Modes = {"global", "exclusive", "private", "read_only"}
    PolicyKey = k1
    Classic = TRUE
    Direct = {k2}
    MaxPolicies = 1
SPECIFICATION DatastoreSpec
SYMMETRY Symmetry
INVARIANTS
    ConflictDetectionExact
PROPERTIES
    RunningValuesLocked
    DirtySharedCandidateKept
    RunningLockedByExclusive
