SPECIFICATION MCSpec
CONSTANTS
    p1 = p1
    p2 = p2
    None = None
    Procs = {p1, p2}
    Codes = {1}
    Killed = 9
    MaxOpens = 3
    MaxOutside = 1
    Nil = Nil
    MaxGens = 2
    MaxUpsets = 3
    Unset = Unset
    Setters = {s1, s2}
    Calls = {c1}
CHECK_DEADLOCK FALSE
INVARIANTS JournalTrue OwnOnly HandshakeSound BothStood OffBlocks SwitchWhole
PROPERTIES HandshakeEnds
