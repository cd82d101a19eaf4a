SPECIFICATION EndsSpec
CONSTANTS
    None = none
    s1 = s1
    s2 = s2
    s3 = s3
    f = f
    w = w
    Devices = {d1, d2, f}
    Sessions = {w}
    Streams = {s1, s2, s3}
    Main = main
    Hubs = {main, fwd}
    Clients <- Mixed
    MaxStreams <- TwoAndOne
    MaxPerDevice = 1
    Password = password
    Endpoints = {e}
    Codes = {c}
    Routines = {g1, g2}
    Limits = {0, 2}
    MaxTime = 2
    SaveFails = TRUE
SYMMETRY Symm
INVARIANTS NoStreamOutlivesItsOwner ListIsWhatRuns HubBounded ShutdownIsFinal
    LimitsHold OnlyStraysStay NoCodeOutlivesItsMaker
PROPERTIES ViewEvictsOwnOnly
CHECK_DEADLOCK FALSE
