SPECIFICATION Spec
CONSTANTS
    ann = ann
    bob = bob
    old = old
    new = new
    None = None
    Handles = {ann, bob}
    Attempts = 2
    Passwords = {old, new}
    Contents = {red}
    Batches = {b1}
    Slots = 1
    Chunks = 2
    Calls = 3
    Changes = 1
SYMMETRY Alike
INVARIANTS
    TypeOK
    RefusedForCause
PROPERTIES
    FilesAreRegular
    NothingTwice
