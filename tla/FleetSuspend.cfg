CONSTANTS
    Boxes = {x1}
    Conns = {c1}
    None = None
    Persistent = TRUE
    Grace = 1
    IdleTimeout = 1
    IdleOverride = {2}
    KeepTicks = 1
    Sessions = {s1}
    MaxOpen = 1
    Guests = {g1}
    Operators = {}
    CanSuspend = TRUE
    Boxd = TRUE
    StableRef = TRUE
    MaxGen = 1
    MaxRestarts = 1
SPECIFICATION Spec
INVARIANTS FleetInv RunningMeansAgentSeen
