CONSTANTS
    ticker = ticker
    depth = depth
    Streams <- MCStreams
    MaxRestarts = 2
    PeerCloses <- MCPeerBreaks
SPECIFICATION Spec
INVARIANT RestartsPerHourLimited
CHECK_DEADLOCK FALSE
