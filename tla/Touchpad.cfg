SPECIFICATION PadSpec
CONSTANTS
    Slots = {1, 2}
    Positions = {0, 1, 5}
    Slop = 1
    JumpReject = 4
    TapTime = 1
    MaxQueue = 2
PROPERTIES
    TapIsRecognised
    PointerFollowsFinger
CHECK_DEADLOCK FALSE
