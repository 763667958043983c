SPECIFICATION FairSpec
CONSTANTS
    Client = {c1, c2}
    Nickname = {m, n}
    Duel = {g1}
    None = None
PROPERTY CleanupEnds
PROPERTY SearchersMeet
CHECK_DEADLOCK FALSE
