SPECIFICATION Spec
CONSTANTS
    Client = {c1, c2, c3, c4}
    Row = {r1, r2, r3}
    Duel = {g1, g2}
    None = None
    RATING_K = 1
    DEFAULT_RATING = 10
INVARIANT TypeOK
INVARIANT ToldAsStored
PROPERTY ImplementsTransfer
CHECK_DEADLOCK FALSE
SYMMETRY Symmetry
