CONSTANTS
    c1 = c1
    c2 = c2
    Callers <- MCCallers
    SOCKETNUM = 2
    WORKERS = 2
    Files <- MCCallers
    Asks <- MCAsks
    MaxDeaths = 1
    None = None
SPECIFICATION FairSpec
INVARIANTS SocketPrivate ReplyIsForRequest
PROPERTIES SocketsComeFree
CHECK_DEADLOCK FALSE
