SPECIFICATION GadgetFairSpec
CONSTANTS
    NumFunctions = 3
    Ffs = {1, 3}
    Requests <- MCRequests
    Supported <- MCSupported
    MaxGadgetCalls = 1
    MaxOwnerSteps = 3
    MaxGadgetFaults = 0
PROPERTIES RestartsGadget
CHECK_DEADLOCK FALSE
