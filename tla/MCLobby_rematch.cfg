SPECIFICATION Spec
CONSTANTS
    Client = {c1, c2}
    Nickname = {m, n}
    Duel = {g1, g2}
    None = None
INVARIANT TypeOK
INVARIANT FoundClientsExist
INVARIANT OneDuelAtATime
INVARIANT PlayersAreInTheirDuel
SYMMETRY Symmetry
CHECK_DEADLOCK FALSE
