SPECIFICATION Spec
CONSTANTS
    None = None
    Free = Free
    Callers = {ann, bob}
    Made = {old, new}
    Names = {cleaner}
    Locks = 2
    Faults = 1
INVARIANTS
    TypeOK
    LeaseUnbroken
PROPERTIES
    AnswersAreCurrent
    LeaseEndsOfItself
    LockComesFree
