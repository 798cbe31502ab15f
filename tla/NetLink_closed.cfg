\* A connection closed at the far end.
CONSTANTS
    h0 = h0
    h1 = h1
    p0 = p0
    empty = empty
    zero = zero
    kept = kept
    Hosts <- MCHosts
    Ports <- MCPorts
    NoHost = empty
    NoPort = zero
    DefaultHost = h0
    DefaultPort = p0
    Kept = kept
    Updates <- NoUpdates
    TimeMod = 5
    Backoff = 2
    MaxInbox = 2
SPECIFICATION FairSpec
PROPERTIES
    ClosedConnectionGivenUp
