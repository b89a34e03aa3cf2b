CONSTANTS
    Boxes = {x1, x2}
    Octets = {2, 3}
    Procs = {p1, p2, p3}
    MaxSkipped = 1
    None = None
SYMMETRY Symmetry
SPECIFICATION Spec
INVARIANTS UniqueAddress GoneIsReported VMInv
PROPERTIES ImplementsInstance
