SPECIFICATION FairSpec
CONSTANTS
    Managed = {p}
    None = None
    HistoryLimit = 1
    MaxOps = 2
    MaxRestarts = 1
INVARIANTS CompletionConfirmed
PROPERTIES ForgetSparesActive SlotSpec OutcomeShown LinkAppears
CHECK_DEADLOCK FALSE
