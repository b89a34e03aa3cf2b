CONSTANTS
    Boxes = {x1}
    Octets = {2}
    Procs = {p1}
    MaxSkipped = 0
    None = None
SPECIFICATION Spec
INVARIANT MemoryMatchesDisk
