SPECIFICATION Spec
CONSTANTS
    u1 = u1
    u2 = u2
    Updaters = {u1}
    Versions = {1, 2}
    Good = {1, 2}
    Installed = 1
    Platforms = {"linux"}
    SpareLimit = 0
    MaxSessions = 1
    None = None
    Stale = Stale
INVARIANTS RecoveryRetained
