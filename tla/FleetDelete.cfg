CONSTANTS
    Boxes = {x1}
    Conns = {c1}
    None = None
    Persistent = TRUE
    Grace = 1
    IdleTimeout = 0
    IdleOverride = {}
    KeepTicks = 0
    Sessions = {s1, s2}
    MaxOpen = 1
    Guests = {}
    Operators = {o1}
    CanSuspend = TRUE
    Boxd = FALSE
    StableRef = TRUE
    MaxGen = 1
    MaxRestarts = 1
SYMMETRY Symmetry
SPECIFICATION Spec
INVARIANTS PersistentKept ReadyHasHandle
