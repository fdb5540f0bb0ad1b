SPECIFICATION FairSpec
CONSTANTS
    Width = 5
    MaxRestarts = 1
    Observed <- StageKinds
    Configurations <- Sources
INVARIANTS StatusDelivered ReadyMeansRunning ExitLeavesNothing TruthfulExit AcceptedIsServable AcceptedAddressUsable
PROPERTIES ExitCompletes
CHECK_DEADLOCK FALSE
