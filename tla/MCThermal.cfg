SPECIFICATION FairSpec
CONSTANTS
    NumSensors = 2
    Callbacks = {"client"}
    Wants <- MCWants
    Info <- MCInfo
    Temps = {1, 2, 4}
    MaxChanges = 2
    MaxFaults = 1
    MaxCalls = 2
INVARIANTS PollsFast ToldMatches
PROPERTIES SeverityFollows Settles
