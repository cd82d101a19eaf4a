SPECIFICATION HubSpec
CONSTANTS
    Streams = {s1, s2}
    Main = main
    Hubs = {main}
    v = v
    p = p
    Devices = {v}
    Sessions = {p}
    None = none
    Clients <- PlainClients
    MaxStreams <- OnePlace
    MaxPerDevice = 1
INVARIANT EvictedIsTold
CHECK_DEADLOCK FALSE
