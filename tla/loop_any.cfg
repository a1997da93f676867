SPECIFICATION FairSpec
CONSTANTS
    Clients = {c1, c2}
    Threads = {main, w}
    Loop = main
    Servers <- MCServers
    Backlog = 0
    MaxSends = 1
    MaxDeaths = 1
    Values = {1}
    Limit = 1
    MaxWritten = 2
INVARIANTS
    LoopTypeOK
    ConnectionsInStep
    NoConnectionLost
    EventsKept
    Restartable
PROPERTIES
    ClientsServed
    SignalStops
