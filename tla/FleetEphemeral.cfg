CONSTANTS
    Boxes = {x1}
    Conns = {c1}
    None = None
    Persistent = FALSE
    Grace = 1
    IdleTimeout = 0
    IdleOverride = {}
    KeepTicks = 0
    Sessions = {s1, s2}
    MaxOpen = 1
    Guests = {}
    Operators = {}
    CanSuspend = FALSE
    Boxd = TRUE
    StableRef = FALSE
    MaxGen = 1
    MaxRestarts = 0
SPECIFICATION LoopSpec
PROPERTIES NoResurrection DetachedLeavesRunning DestroyingLeaves
