CONSTANTS
    Boxes = {x1, x2}
    Conns = {c1, c2, c3}
    None = None
SPECIFICATION HubLiveSpec
INVARIANTS HubInv OneLiveAgent
PROPERTIES NoDisplacement ImplementsSlot DeadSlotFreed
