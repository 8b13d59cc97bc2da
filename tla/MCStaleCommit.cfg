CONSTANTS
    Sessions = {s1, s2}
    Keys = {k1, k2}
    SessionKeys = 2
    RouterKeys = 2
    MaxRunning = 4
    Values = {v0, v1}
    Default = v0
    Modes = {"private"}
    PolicyKey = k1
    Classic = FALSE
    Direct = {}
    MaxPolicies = 0
SPECIFICATION DatastoreSpec
PROPERTY CommitInstallsOnlyEdits
