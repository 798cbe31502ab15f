\* The answer to a SYNC_CONFIG that is accepted.
CONSTANTS
    h0 = h0
    h1 = h1
    p0 = p0
    empty = empty
    zero = zero
    kept = kept
    Hosts <- MCHosts
    Ports <- MCPorts
    NoHost = empty
    NoPort = zero
    DefaultHost = h0
    DefaultPort = p0
    Kept = kept
    Updates <- MCUpdates
    TimeMod = 5
    Backoff = 2
    MaxInbox = 2
SPECIFICATION Spec
INVARIANTS
    EveryCommandAnswered
