SPECIFICATION Safety
CONSTANTS
    ann = ann
    bob = bob
    None = None
    Members = {ann, bob}
    Last = 2
    Batch = 2
    Deliveries = 2
    Faults = 1
SYMMETRY Alike
INVARIANTS
    TypeOK
    StopIsPrompt
PROPERTIES
    WorkIsAtLeastOnce
    InOrder
