SPECIFICATION Spec
CONSTANTS
    Networks <- FewSituations
    Requirement = "internet"
    TransitionBuffer = 2
    ErrorBuffer = 1
    MaxChanges = 2
    MaxRestarts = 0
    MaxRequests = 1
PROPERTIES RecoveryNotUndone
CHECK_DEADLOCK FALSE
