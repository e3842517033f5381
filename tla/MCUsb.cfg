SPECIFICATION FairSpec
CONSTANTS
  Modes = {"ufp"}
  MaxPlugs = 4
  MaxCalls = 4
  MaxFaults = 2
INVARIANTS SignalNotLost RoleHeld ToldIsCurrent
PROPERTY SwitchReturns
CHECK_DEADLOCK FALSE
