SPECIFICATION Safety
CONSTANTS
    ann = ann
    bob = bob
    r1 = r1
    r2 = r2
    None = None
    Workers = {ann, bob}
    Records = {r1, r2}
    Batch = 2
    Attempts = 2
    Births = 1
    Faults = 2
SYMMETRY Alike
INVARIANTS
    TypeOK
    OneCallPerAttempt
    StopHandsBack
    StopIsPrompt
PROPERTIES
    WorkIsAtLeastOnce
    ReleaseEndsItsOwnHold
