CONSTANTS
    Kinds = {"exec", "shell", "proxy", "ssh", "pty", "forward", "tunnel"}
    MaxChunks = 1
    MaxDrops = 1
SPECIFICATION FairSpec
INVARIANTS OutputComplete ExitIsLast ExitReported InputComplete
PROPERTIES HandlerReturns SessionEnds InputEnds
CHECK_DEADLOCK FALSE
