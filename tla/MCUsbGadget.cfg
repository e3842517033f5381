SPECIFICATION GadgetFairSpec
CONSTANTS
    NumFunctions = 3
    Ffs = {1, 3}
    Requests <- MCRequests
    Supported <- MCSupported
    MaxGadgetCalls = 4
    MaxOwnerSteps = 5
    MaxGadgetFaults = 2
INVARIANTS UpIsRequested SuccessIsReal
PROPERTIES CallReturns PullsUp
CHECK_DEADLOCK FALSE
