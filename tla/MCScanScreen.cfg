SPECIFICATION Spec
CONSTANTS
    NoVolume = NoVolume
    NoName = NoName
    ForeignNames <- MCForeignNames
    Texts <- MCTexts
    Candidates <- MCCandidates
    Rank <- MCRank
    Times = {1, 2}
    MaxFiles = 2
INVARIANTS
    TypeOK
    SelectionIsKept
    SavedIsListed
PROPERTIES
    ListCatchesUp
