SPECIFICATION MCSpec
CONSTANTS
    None = None
    Registry <- TwoProviders
    GlobalPref = None
    Shows <- OneShow
    Tracks = {"sub"}
    KeyedOn <- AllKeyed
    Narrow = FALSE
    MaySpawnFail = FALSE
    MaxNavigate = 1
    MaxEnter = 1
    MaxReroute = 3
    MaxPlays = 1
    MaxDeletes = 0
    MaxExpiries = 0
    MaxInflight = 2
    Warm = FALSE
PROPERTIES NoGhostPlay
CHECK_DEADLOCK FALSE
