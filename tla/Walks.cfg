SPECIFICATION MCFairSpec
CONSTANTS
    None = None
    Registry <- ThreeProviders
    GlobalPref = None
    Shows <- OneShow
    Tracks = {"sub"}
    KeyedOn <- EndsKeyed
    Narrow = TRUE
    MaySpawnFail = FALSE
    MaxNavigate = 1
    MaxEnter = 2
    MaxReroute = 2
    MaxPlays = 1
    MaxDeletes = 1
    MaxExpiries = 1
    MaxInflight = 2
    Warm = TRUE
INVARIANTS
    TypeOK
PROPERTIES
    WalkSpeaks BindingsHonoured PlayHonest KeepsPromise ComesToRest
CHECK_DEADLOCK FALSE
