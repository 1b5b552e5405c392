SPECIFICATION Spec
CONSTANTS
    FileLen = 3
    SenderModes = {"SenderDrive", "ReceiverDrive"}
    ReceiverModes = {"SenderDrive", "ReceiverDrive"}
    MaxSkip = 1
    MaxFaults = 1
    MaxTransfers = 2
INVARIANTS SessionsAgree ImageFaithful SuccessMeansWhole
PROPERTIES UndisturbedSucceeds EveryoneIsTold
CHECK_DEADLOCK FALSE
