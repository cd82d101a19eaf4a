SPECIFICATION PageSpec
CONSTANTS
    None = none
    Connects = {c1, c2}
    Panes = {p, q}
    p = p
    q = q
    KeyOf <- OwnKeys
    Tabs = {a1, a2, b1}
    a1 = a1
    a2 = a2
    b1 = b1
    A = A
    B = B
    GroupOf <- GroupOfTab
    GroupSeq <- TwoGroups
    MaxReads = 2
    MaxPicks = 2
    MaxEvents = 2
    MaxLag = 1
    Repos = {R, S}
    Diffs <- TwoFiles
    a = a
    b = b
    MaxChanges = 3
    Picked = {f, g}
    NameOf <- SameName
    RootOf <- SameRoot
    Guarded = {g}
    Other = other
    MaxSuffix = 1
    MaxWaits = 1
INVARIANTS OneStreamOfThePane VisibleTold DeadOnlyIfAway LeftAreAsked
PROPERTIES EvictedStays SocketSettles SessionsSettle NothingLost AnswersFit
    ChangesSettle UploadsSettle
CHECK_DEADLOCK FALSE
