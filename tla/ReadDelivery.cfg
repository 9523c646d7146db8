SPECIFICATION DeliverySpec
CONSTANTS
    Nil = Nil
    Reads = {r1, r2}
    Enrolls = {e1, e2}
    Bindings = {b1}
    Channels = {x, y, z}
    Static = {x, y}
    Instances <- MCInstances
    ConversationIds = {"talk"}
    Conversation <- MCConversation
    Caller <- MCCaller
    Owner <- MCOwner
    Approves <- MCApproves
    LastEpoch = 3
    MaxUpsets = 2
    Scratch = 1
    Retained = 1
    Copy = 1
    DeviceBytes = 3
    ViewBytes = 3
    MaxEntriesPerView = 2
    MaxViews = 2
    MaxViewsPerConversation = 2
    Chunks = 2
SYMMETRY Alike
CHECK_DEADLOCK FALSE
INVARIANTS EnrolledOnce AccountsHeld
PROPERTIES DeliveryConsented
