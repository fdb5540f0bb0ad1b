SPECIFICATION FairSpec
CONSTANTS
    Networks <- LiveSituations
    Requirement = "internet"
    TransitionBuffer = 1
    ErrorBuffer = 1
    MaxChanges = 1
    MaxRestarts = 1
    MaxRequests = 1
 
PROPERTIES RequestAnswered ControllerReturns Decides
CHECK_DEADLOCK FALSE
