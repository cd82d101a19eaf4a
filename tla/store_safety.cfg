SPECIFICATION Spec
CONSTANTS
    a = a
    b = b
    s = s
    g = g
    Procs = {a, b}
    Gen <- SameGen
    Devices = {d1, d2, d3}
    Sessions = {s}
    Home <- HomeA
    Password = password
    None = none
    MaxDevices = 2
    MaxWrites = 3
SYMMETRY Symm
INVARIANTS SweptPairNothing GoneStaysGone
PROPERTIES Implements
CHECK_DEADLOCK FALSE
