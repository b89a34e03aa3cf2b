CONSTANTS
    Clients = {ai}
    Callers = {cli}
    CallerTools = {"apply"}
    Keys = {k}
    NotifCap = 1
    WireCap = 1
    MaxBoxes = 2
    MaxTasks = 2
    MaxInputs = 2
SPECIFICATION FairSpec
INVARIANTS  WorkingHasTask
PROPERTIES TaskSettles PushedFresh
CHECK_DEADLOCK FALSE
