SPECIFICATION FairSpec
CONSTANTS
    Keys = {"LSHIFT", "RCONTROL", "UP", "F9"}
    MaxHeld = 2
    Packets <- SomePackets
    Answers = {250}
    has_wheel = FALSE
    POSITIONS = 1024
    deviceWidth = 4
    MaxPackets = 2
    KbdRoom = 2
    MouseRoom = 3
INVARIANTS
    TypeOK
    AsTyped
    ButtonsTold
    PointerFollows
PROPERTIES
    PacketsWhole
    Intended
    Settles
