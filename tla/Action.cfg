SPECIFICATION FairSpec
CONSTANTS
    a1 = a1
    a2 = a2
    a3 = a3
    a4 = a4
    a5 = a5
    n1 = n1
    n2 = n2
    i1 = i1
    i2 = i2
    None = None
    Classes <- MCClasses
    Granted <- MCClasses
    Consulted <- MCConsulted
    Read = "read"
    Calls = {a1, a2, a3, a4, a5}
    RequestIds = {i1, i2}
    Narrows = {n1, n2}
    Id <- MCIds
    Actions <- MCActions
    Keep <- MCKeep
    Batches = {a1, a2}
    Captures = {a1, a2}
    RequestLimit = 2
    MaxPauses = 1
    Mixes <- MCMixes
CHECK_DEADLOCK FALSE
INVARIANTS PreparationsHeld ReceiptsExact
PROPERTIES DispatchExact ActionsSettle
