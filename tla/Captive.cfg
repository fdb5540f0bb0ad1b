SPECIFICATION Spec
CONSTANTS
    UUIDs = {u1, u2, u3}
    None = None
SYMMETRY UUIDSymmetry
INVARIANTS NothingLeaks ActiveIsComplete
PROPERTIES DNSPrecedesAP RecoveryIsComplete ModeSpec
CHECK_DEADLOCK FALSE
