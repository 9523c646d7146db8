SPECIFICATION IpcSpec
CONSTANTS
    None = None
    c1 = c1
    c2 = c2
    z1 = z1
    sub = sub
    t1 = t1
    t2 = t2
    p1 = p1
    p2 = p2
    p3 = p3
    a1 = a1
    s1 = s1
    s2 = s2
    s3 = s3
    n1 = n1
    d1 = d1
    m1 = m1
    h1 = h1
    u1 = u1
    l1 = l1
    l2 = l2
    i1 = i1
    i2 = i2
    x1 = x1
    x2 = x2
    f1 = f1
    Clients = {c1, c2, sub}
    StateClients = {z1}
    Requests = {t1, t2, p1, p2, p3, a1, s1, s2, s3, n1, d1, m1, h1, u1}
    Asked <- MCAsked
    Instances <- MCInstances
    Polling = TRUE
    MaxReaders = 1
    MaxQueue = 1
    MaxPending = 2
    MaxBuffered = 2
    MaxNotes = 2
    MaxPolls = 2
    MaxStrays = 1
    Links = {l1, l2}
    Peers = {"peer", "other"}
    Frames = {i1, i2, x1, x2, f1}
    FrameSets <- MCFrameSets
    Framed <- MCFramed
    Submitter = sub
    SubmitHello = h1
    SubmitTurn = u1
CHECK_DEADLOCK FALSE
INVARIANTS NotesBelong AnsweredOnce TextOnce
