SPECIFICATION Spec
CONSTANTS
    w1 = w1
    w2 = w2
    owner = owner
    none = none
    Workers <- MCWorkers
    Owner <- owner
    None <- none
    Cases <- MCCases
CHECK_DEADLOCK FALSE
INVARIANTS LeaseSound
PROPERTIES LeaseEndsRight
