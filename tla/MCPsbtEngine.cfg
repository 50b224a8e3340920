SPECIFICATION Spec
CONSTANTS
    a = a
    b = b
    NoKey = NoKey
    NoPsbt = NoPsbt
    NoScript = NoScript
    BadPath = BadPath
    Paths <- MCPaths
    Scripts <- MCScripts
    Masters <- MCMasters
    Files <- MCFiles
INVARIANTS
    TypeOK
    VerifiedIsEarned
    TotalsFollowLabels
    SummaryIsCurrent
PROPERTY
    ImplementsDevice
