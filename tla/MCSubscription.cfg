SPECIFICATION Spec
CONSTANTS
    None = None
    Records = {r1, r2}
    Commits = 2
    Breaks = 2
    Places = {"commits_whole", "cursor"}
CHECK_DEADLOCK FALSE
INVARIANTS
    TypeOK
    MirrorIsTheTable
PROPERTY MirrorCatchesUp
