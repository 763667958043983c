SPECIFICATION FairSpec
CONSTANTS
    Client = {c1, c2}
    None = None
    Greeting = 2
    MaxStrings = 4
INVARIANT WokenWhenConnected
PROPERTY ImplementsDelivery
PROPERTY StringsSettle
PROPERTY ReturnIsGreeted
CHECK_DEADLOCK FALSE
