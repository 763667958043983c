SPECIFICATION Spec
CONSTANTS
    RANKS = 7
    SUITS = 4
    MaxDealt = 6
    DealtSuits = {0, 1}
    DealtRanks = 5
INVARIANT BlockRecognisesTwoPairs
CHECK_DEADLOCK FALSE
