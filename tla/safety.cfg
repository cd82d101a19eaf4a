SPECIFICATION PartsSpec
CONSTANTS
    None = none
    d1 = d1
    d2 = d2
    s1 = s1
    Tokens = {t1, t2, t3}
    Devices = {d1, d2}
    Sessions = {s1}
    Grants <- StreamGrants
    MaxTokens = 2
    PerDevice = 1
    SingleUse = TRUE
    Calls = {c1, c2}
    MaxFrames = 2
    Tabs = {a1, a2, b1}
    a1 = a1
    a2 = a2
    b1 = b1
    A = A
    B = B
    GroupOf <- GroupOfTab
    GroupSeq <- TwoGroups
    MaxReads = 2
    MaxPicks = 2
    MaxEvents = 3
    Roots = {R, S}
    Paths = {a, b}
    Place = P
    PlaceRoot = S
    Ids = {1, 2, 3, 4}
    MaxTabs = 1
    MaxOpen = 3
    MaxTreeReads = 2
    MaxTrail = 1
    MaxDone = 4
    Pages = {m1, m2}
    Files = {f, g}
    Secret = {g}
    Texts = {x, y}
    Hidden = hidden
    MaxOuts = 1
    MaxLag = 1
    MaxUnread = 1
    Picked = {f, g}
    NameOf <- SameName
    RootOf <- OwnRoot
    Guarded = {g}
    Other = other
    MaxSuffix = 2
    MaxWaits = 1
SYMMETRY Symm
INVARIANTS ViewsTyped WithinCaps FramesWhole NoOrphan NothingWaits OneRoot
    LeavingLosesNothing ToldIsTrue CancelIsExact
PROPERTIES PushedOutFairly Promised RepliesUndoNothing NothingDropped
    StoredAsPromised
CHECK_DEADLOCK FALSE
