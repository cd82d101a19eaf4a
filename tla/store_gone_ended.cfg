SPECIFICATION Spec
CONSTANTS
    a = a
    b = b
    s = s
    g = g
    Procs = {a, b}
    Gen <- SameGen
    Devices = {d1, d2}
    Sessions = {s}
    Home <- HomeA
    Password = password
    None = none
    MaxDevices = 2
    MaxWrites = 3
SYMMETRY Symm
INVARIANTS GoneIsEnded
CHECK_DEADLOCK FALSE
