SPECIFICATION FairSpec
CONSTANTS
    c1 = c1
    c2 = c2
    None = None
    Conversations = {c1, c2}
    Services = {own, rival}
    Own = own
    MaxEpoch = 2
    MaxPending <- MCMaxPending
    Capacity = 2
CHECK_DEADLOCK FALSE
INVARIANTS StoreSound RootFenced
PROPERTIES SwitchKept RequestsAnswered
