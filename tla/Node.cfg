SPECIFICATION Spec
CONSTANTS
    None = None
    Staging = staging
    Handlers = {r1, r2}
    Targets = {t1, t2}
    Environments <- Mixed
INVARIANTS TypeOK SetShowsVolume ClearIsUnmounted
PROPERTIES ClearCompletes
