SPECIFICATION FairSpec
CONSTANTS
  NumNodes = 1
  MaxIndex = 2
  Default <- MCDefault
  Kind <- MCKind
  ResetOnInit = {}
  Clash = {}
  Hints = {"launch", "audio"}
  Actions <- MCActions
  Overrides = {}
  MaxTimeout = 1
  Retry = 1
  MaxFailures = 1
  MaxSlow = 1
PROPERTY StopTerminates
