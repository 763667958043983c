SPECIFICATION FairSpec
CONSTANTS
    Terminal = {t}
    Web = {w}
    Nickname = {n}
    Password = {p, q}
    None = None
    MaxConnections = 2
INVARIANT TypeOK
INVARIANT ExpectedOnly
INVARIANT AuthorizedByServer
INVARIANT AuthorizedByPassword
PROPERTY Answered
CHECK_DEADLOCK FALSE
