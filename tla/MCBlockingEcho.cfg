CONSTANTS
    c1 = c1
    c2 = c2
    None = None
    Clients <- TwoClients
    Lines <- ShortAndLong
    MaxLines = 2
    SocketBuffer = 3
    BuffSize = 2
SPECIFICATION FairSpec
CHECK_DEADLOCK FALSE
INVARIANT
    BytesAccounted
    ServerOutlivesClients
PROPERTIES
    LinesComeBack
