SPECIFICATION MCSpec
CONSTANTS
    p1 = p1
    p2 = p2
    none = none
    Procs <- MCProcs
    Builds <- MCBuilds
    Abi <- MCAbi
    None = none
    MaxPreps = 3
    MaxEpochs = 2
    MaxOps = 5
    Kept = 2
    Cases <- MCCases
    t1 = t1
    t2 = t2
    Tokens <- MCTokens
    Refs <- MCRefs
    Null <- none
    MaxLive = 1
    SemanticCases <- MCSemanticCases
SYMMETRY MCSymmetry
CHECK_DEADLOCK FALSE
INVARIANTS CommandsRecorded PluginSound SendSound ShownIsMeant HelperAlone
