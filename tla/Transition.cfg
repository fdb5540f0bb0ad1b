SPECIFICATION Spec
CONSTANTS
    p = p  m = m  f = f  None = None
    UUIDs = {p, m, f, n1}
    SSIDs = {"home", "cafe"}
    Entered = {"home"}
    StandaloneSSID = "ap"
    InitialStores <- AnyDevice
    Kinds = {"new", "saved", "standalone"}
    Requirement = "internet"
    MaxAttempts = 2
INVARIANTS PendingIsInert
PROPERTIES OnlyRejectionDisables SuccessIsDurable RejectionChangesNothing ForeignUntouched RestorationReported
CHECK_DEADLOCK FALSE
