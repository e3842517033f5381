SPECIFICATION FairSpec
CONSTANTS
  NumNodes = 3
  MaxIndex = 2
  Default <- MCDefault
  Kind <- MCKind
  ResetOnInit = {2}
  Clash <- MCClash
  Hints = {"launch", "interaction"}
  Actions <- MCActions
  Overrides = {2}
  MaxTimeout = 2
  Retry = 1
  MaxFailures = 1
  MaxSlow = 1
INVARIANTS SleepsSettled TwoPassesSuffice
PROPERTY FileNodesCatchUp
