SPECIFICATION MCSpec
CONSTANTS
    r1 = r1
    r2 = r2
    r3 = r3
    o1 = o1
    o2 = o2
    o3 = o3
    alice = alice
    bob = bob
    app = app
    k1 = k1
    k2 = k2
    p1 = p1
    p2 = p2
    u1 = u1
    u2 = u2
    w0 = w0
    w1 = w1
    w2 = w2
    none = none
    None = None
    CallerOf <- MCCallerOf
    AppOf <- MCAppOf
    KeyOf <- MCKeyOf
    Wants <- MCWants
    Workspaces <- MCWorkspaces
    Creates = {r1, r2, r3}
    Opens = {o1, o2, o3}
    Callers = {alice, bob}
    Apps = {app}
    Profiles = {p1, p2}
    ProfileOf <- MCProfileOf
    OpenKeys = {k1, k2}
    Updaters = {u1, u2}
    Limit = 3
    MaxWaits <- MCMaxWaits
    Mixes <- MCMixes
    Wins <- MCWins
    OldWin = w0
    Nil = none
    Target = 2
    Selections <- MCSelections
    Cases <- MCCases
CHECK_DEADLOCK FALSE
INVARIANTS AdmissionExact OpeningsApart NothingSlipsIn AskedOnce OnlyOurs
PROPERTIES BrokerSettles
