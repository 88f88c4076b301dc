SPECIFICATION MCFairSpec
CONSTANTS
    None = None
    Registry <- TwoProviders
    GlobalPref = None
    Shows <- TwoShows
    Tracks = {"sub"}
    KeyedOn <- FirstKeyed
    Narrow = FALSE
    MaySpawnFail = FALSE
    RingSlots = 1
    ProbesRefused = TRUE
    MaxNavigate = 2
    MaxEnter = 1
    MaxPlays = 1
    MaxPlans = 1
    MaxAccidents = 2
    MaxInflight = 2
INVARIANTS
    WarmTypeOK
PROPERTIES
    WarmSafe WarmEnds
CHECK_DEADLOCK FALSE
