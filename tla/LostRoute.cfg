CONSTANTS
    Ids = {w1}
    Ingress = {app}
    QueueCap = 1
    MaxDeletes = 0
    MaxMeta = 0
    MaxFaults = 0
    MaxRestarts = 1
SPECIFICATION FairSpec
PROPERTY EndpointsServed
CHECK_DEADLOCK FALSE
