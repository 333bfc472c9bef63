CONSTANTS
    ticker = ticker
    depth = depth
    Streams <- MCStreams
    MaxRestarts = 2
    PeerCloses <- MCPeerCloses
SPECIFICATION LinksSpec
INVARIANTS
    LinksTypeOK
    ServedMatchesSubscriptions
    OpenLinkIsWatched
    NoSecondLink
    StopReleasesLink
    VenueServesRecorded
    HaltReleasesSockets
PROPERTIES
    LostLinkRecovers
    LostSocketRecovers
    LoopsKeepPromise
CHECK_DEADLOCK FALSE
