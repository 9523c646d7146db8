SPECIFICATION Spec
CONSTANTS
    u1 = u1
    u2 = u2
    Updaters = {u1, u2}
    Versions = {1, 2, 3}
    Good = {1, 2}
    Installed = 1
    Platforms = {"linux", "darwin", "win32"}
    SpareLimit = 0
    MaxSessions = 1
    None = None
    Stale = Stale
SYMMETRY UpdaterSymmetry
INVARIANTS PointersSound
PROPERTIES DoubtHeld
