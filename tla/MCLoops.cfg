SPECIFICATION Spec
CONSTANTS
    ann = ann
    bob = bob
    r1 = r1
    None = None
    Processes = {ann, bob}
    Records = {r1}
    Last = 1
    Batch = 1
    Attempts = 2
    Deliveries = 2
    QueueFaults = 2
    GroupFaults = 1
PROPERTIES
    StopEnds
    EveryRecordEnds
    EveryMessageIsHandled
