SPECIFICATION Spec
CONSTANTS
    Calls = 3
    Changes = 2
    Minors = {1, 6, 7}
    Oddities = 1
    Reused = {"refusal", "malformed", "too_old", "not_sent", "unknown_frame"}
    None = None
CHECK_DEADLOCK FALSE
INVARIANT RepliesBelong
