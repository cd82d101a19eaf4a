SPECIFICATION FairSpec
CONSTANTS
    Devices = {d1}
    Sessions = {}
    Password = password
    Endpoints = {e}
    Codes = {c}
    Routines = {g1, g2}
    None = none
    Limits = {1}
    MaxTime = 1
    SaveFails = FALSE
PROPERTIES ExpiredIsEnded
