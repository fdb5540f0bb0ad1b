SPECIFICATION FairSpec
CONSTANTS
    Requests = {r1, r2, r3}
    Profiles = {p1, p2}
    NoProfile = NoProfile
    Capabilities = {"network", "standalone"}
    HistoryLimit = 2
INVARIANTS SingleFlight HistoryConsistent QuietAfterShutdown JoinedProfileStays
PROPERTIES FinishedIsFinal SlotSpec SlotIsReleased ShutdownCompletes
CHECK_DEADLOCK FALSE
