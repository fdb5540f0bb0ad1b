SPECIFICATION Spec
CONSTANTS
    p = p  m = m  f = f  None = None
    UUIDs = {p, m, f, n1}
    SSIDs = {"home", "cafe"}
    Entered = {"home"}
    StandaloneSSID = "ap"
    InitialStores <- SetUpDevice
    Kinds = {"new"}
    Requirement = "local"
    MaxAttempts = 1
PROPERTIES FailureStaysBootable
CHECK_DEADLOCK FALSE
