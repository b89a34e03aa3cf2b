CONSTANTS
    Ids = {w1}
    Ingress = {app}
    QueueCap = 1
    MaxDeletes = 1
    MaxMeta = 1
    MaxFaults = 1
    MaxRestarts = 1
SPECIFICATION FairSpec
INVARIANTS HomeFormatted DeadRoutes
PROPERTIES HomeKept DeletedStays EndpointsConverge
CHECK_DEADLOCK FALSE
