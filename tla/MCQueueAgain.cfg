SPECIFICATION Safety
CONSTANTS
    ann = ann
    bob = bob
    r1 = r1
    r2 = r2
    None = None
    Workers = {ann, bob}
    Records = {r1}
    Batch = 1
    Attempts = 2
    Births = 2
    Faults = 0
PROPERTY WorkIsAtLeastOnce
