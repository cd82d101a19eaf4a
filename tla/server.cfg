SPECIFICATION ServerSpec
CONSTANTS
    None = none
    main = main
    fwd = fwd
    s1 = s1
    s2 = s2
    f = f
    p = p
    a = a
    b = b
    pw1 = pw1
    pw2 = pw2
    c1 = c1
    r1 = r1
    r2 = r2
    Procs = {a, b}
    Gen <- OwnGen
    Devices = {d1, d2}
    Sessions = {}
    Home <- NoHome
    Password = password
    MaxDevices = 2
    MaxWrites = 2
PROPERTIES OthersKept HubsSettle WritesSettle CodesSettle
CHECK_DEADLOCK FALSE
