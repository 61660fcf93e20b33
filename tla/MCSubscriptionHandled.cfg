SPECIFICATION Spec
CONSTANTS
    None = None
    Records = {r1, r2}
    Commits = 2
    Breaks = 2
    Places = {"commit_handled"}
CHECK_DEADLOCK FALSE
INVARIANT MirrorIsTheTable
