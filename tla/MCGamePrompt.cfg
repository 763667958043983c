SPECIFICATION ClockSpec
CONSTANTS
    START_CARD_NUMBER = 2
    EQUALITY_CARD_NUMBER = 3
    TIE_CARD_NUMBER = 3
    ALL_CARDS = 8
    MOVE_TIMEOUT = 2
    MaxCombination = 2
    Lines = {"/r", "/m"}
    SameId = FALSE
    MaxQueue = 2
    Prompt = TRUE
INVARIANT FullMoveTime
INVARIANT LastMoveAttributed
CHECK_DEADLOCK FALSE
