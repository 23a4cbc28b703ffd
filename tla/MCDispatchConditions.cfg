CONSTANTS
    m1 = m1
    m2 = m2
    k1 = k1
    k2 = k2
    k3 = k3
    x1 = x1
    d1 = d1
    d2 = d2
    d3 = d3
    d4 = d4
    d5 = d5
    d6 = d6
    r2 = r2
    S1 = S1
    S2 = S2
    a4_2 = a4_2
    a5_2 = a5_2
    a8_d = a8_d
    hbad = hbad
    p2 = p2
    Sources <- MCSources
    Patterns <- MCPatterns
    NOTFOUND = NOTFOUND
    Fail = Fail
    Crash = Crash
    NoChange = NoChange
    Values <- MCValues
    DBs <- MCDBs
    Replies <- MCReplies
    RuleLines <- MCRulesConditions
    Conns <- MCConns
    Xform <- MCXformChained
    SpecXform <- MCSpecXformChained
    SpecAnswer <- MCSpecAnswerConditions
    Answer <- MCAnswerConditions
    OpenOK <- MCOpenOK
    Requests <- MCRequests
    MaxRequests = 3
    MaxSessions = 2
    AddrBytes = 2
    ByteBits = 2
SPECIFICATION Spec
PROPERTY DispatchRefinement
