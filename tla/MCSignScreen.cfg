SPECIFICATION ScreenSpec
CONSTANTS
    a = a
    b = b
    seed = seed
    other = other
    p1 = p1
    p2 = p2
    Empty = Empty
    NoKey = NoKey
    NoPsbt = NoPsbt
    NoScript = NoScript
    BadPath = BadPath
    Paths <- MCPaths
    Scripts <- MCScripts
    PhysicalKeyboard = TRUE
    Masters <- MCMasters
    Files <- MCFiles
    Texts <- MCTexts
    Passphrases <- MCPassphrases
    MasterOf <- MCMasterOf
INVARIANTS
    CheckedKeyIsTyped
    NothingLeftBehind
PROPERTIES
    SignedAsShown
