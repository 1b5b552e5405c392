SPECIFICATION Spec
CONSTANTS
    FileLen = 1
    SenderModes = {"SenderDrive"}
    ReceiverModes = {"SenderDrive"}
    MaxSkip = 0
    MaxFaults = 1
    MaxTransfers = 1
PROPERTIES FailureIsReported
CHECK_DEADLOCK FALSE
