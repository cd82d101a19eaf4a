SPECIFICATION FairSpec
CONSTANTS
    a = a
    b = b
    s = s
    g = g
    Procs = {a, b}
    Gen <- SameGen
    Devices = {d1}
    Sessions = {}
    Home <- HomeA
    Password = password
    None = none
    MaxDevices = 2
    MaxWrites = 2
PROPERTIES RevokeIsSeen
CHECK_DEADLOCK FALSE
