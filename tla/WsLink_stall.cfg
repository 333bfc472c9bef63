CONSTANTS
    ticker = ticker
    depth = depth
    Streams <- MCStreams
    MaxRestarts = 2
    PeerCloses <- MCPeerBreaks
SPECIFICATION FairSpec
PROPERTY StallForcesReconnect
CHECK_DEADLOCK FALSE
