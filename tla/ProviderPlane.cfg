SPECIFICATION FairSpec
CONSTANTS
    Callers = {"c1", "c2"}
    Limit = 1
    MaxEmits = 3
    MaxBreaks = 2
    MaxFaults = 1
    MaxRestarts = 1
    MaxRefs = 2
    MaxCopies = 1
CHECK_DEADLOCK FALSE
INVARIANTS HeardTrue OrphanIsUnheard
PROPERTIES HealsOnlyDead DestroyCompletes DeadIsHealed
