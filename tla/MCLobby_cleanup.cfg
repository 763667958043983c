SPECIFICATION Spec
CONSTANTS
    Client = {c1, c2, c3}
    Nickname = {m, n}
    Duel = {g1}
    None = None
INVARIANT GameThreadIsAwaited
SYMMETRY Symmetry
CHECK_DEADLOCK FALSE
