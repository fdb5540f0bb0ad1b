SPECIFICATION Spec
CONSTANTS
    Networks <- Situations
    Requirement = "internet"
    TransitionBuffer = 1
    ErrorBuffer = 1
    MaxChanges = 2
    MaxRestarts = 1
    MaxRequests = 1
INVARIANTS WaitingIsTimed ReflectsNetwork Converges NoLostRequest
PROPERTIES RequestHonoured
CHECK_DEADLOCK FALSE
