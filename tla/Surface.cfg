SPECIFICATION MCSpec
CONSTANTS
    None = None
    Registry <- TwoProviders
    GlobalPref = "senshi"
    Shows <- TwoShows
    Tracks = {"sub", "dub"}
    KeyedOn <- FirstKeyed
    Narrow = FALSE
    MaySpawnFail = TRUE
    MaxNavigate = 2
    MaxEnter = 2
    MaxReroute = 1
    MaxPlays = 1
    MaxDeletes = 1
    MaxExpiries = 1
    MaxInflight = 2
    Warm = FALSE
INVARIANTS
    SpinnerHonest GridTrue ServingRemembered
CHECK_DEADLOCK FALSE
