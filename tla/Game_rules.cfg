SPECIFICATION Spec
CONSTANTS
    START_CARD_NUMBER = 2
    EQUALITY_CARD_NUMBER = 3
    TIE_CARD_NUMBER = 4
    ALL_CARDS = 8
    MOVE_TIMEOUT = 1
    MaxCombination = 1
    Lines = {"/concede", "/tie", "/r", "/b", "/m"}
    SameId = TRUE
    MaxQueue = 1
    Prompt = FALSE
INVARIANT TypeOK
INVARIANT AtMostOneStrayFinish
INVARIANT DeckSuffices
INVARIANT UndecidedWhilePlaying
PROPERTY ImplementsMatch
CHECK_DEADLOCK FALSE
