SPECIFICATION Spec
CONSTANTS
    p = p  m = m  f = f  None = None
    UUIDs = {p, m, f, n1}
    SSIDs = {"home", "cafe"}
    Entered = {"home"}
    StandaloneSSID = "ap"
    InitialStores <- AnyDevice
    Kinds = {"standalone"}
    Requirement = "local"
    MaxAttempts = 1
PROPERTIES StartupRemovesCandidate
CHECK_DEADLOCK FALSE
