SPECIFICATION FairSpec
CONSTANTS
    START_CARD_NUMBER = 2
    EQUALITY_CARD_NUMBER = 3
    TIE_CARD_NUMBER = 4
    ALL_CARDS = 8
    MOVE_TIMEOUT = 1
    MaxCombination = 1
    Lines = {"/r", "/b", "/m", "/lastmove", "chat"}
    SameId = FALSE
    MaxQueue = 1
    Prompt = FALSE
PROPERTY RoundEnds
PROPERTY GameEndsUnlessTied
PROPERTY DepartureEndsGame
CHECK_DEADLOCK FALSE
