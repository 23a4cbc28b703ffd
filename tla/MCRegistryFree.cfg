CONSTANTS
    m1 = m1
    m2 = m2
    mx = mx
    d1 = d1
    d2 = d2
    d3 = d3
    dz = dz
    k1 = k1
    h1 = h1
    hbad = hbad
    u1 = u1
    ulong = ulong
    p1 = p1
    p2 = p2
    AddrBytes = 2
    ByteBits = 2
    Sources <- MCSources
    Patterns <- MCPatterns
    Vocabulary <- MCVocabulary
    StatementWords = 5
    NoLib = NoLib
    NULL = NULL
    Configs <- MCConfigs
    Tables <- MCTables
    Passwd <- MCPasswd
    GroupDb <- MCGroupDb
    Members <- MCMembers
    Numeric <- MCNumeric
    StartCreds <- MCStartCreds
    DbOverrun <- MCDbOverrun
    NoId = NoId
    NoGroup = NoGroup
SPECIFICATION Spec
INVARIANT NoInvalidWrite
