SPECIFICATION ThreadsSpec
CONSTANTS
    Threads = {1, 2, 3}
    PassBudget = 1
    MaxQueue = 1
    AppLogins = {1, 2}
    CliLogins = {3}
    Queries = {"", "a", "b"}
    LastPage <- SomePages
    MaxSearches = 2
    MaxEps = 3
    MaxHosts = 3
    HostTries = 2
    SideTries = 3
    MaxAttempts = 3
    ConnectTries = 2
    MaxPos = 2
    MaxHandlers = 1
    Titles = {"a", "b"}
    CatalogAnswers <- SomeSays
    EnrichTtl <- SomeTtl
    LastHour = 1
    MaxPages = 2
    MaxFetches = 1
    Posters <- SomePosters
    MaxDraws = 2
    MaxRetries = 1
    Releases <- SomeReleases
    CheckTtl = 1
    LastTick = 2
    MaxChecks = 2
    Urls <- SomeUrls
    Webs <- SomeWebs
    Masters <- SomeMasters
    MaxRedirects = 2
    FetchTicks = 2
    MaxScan = 3
    Stride = 2
    Decoys <- SomeDecoys
    MaxPackets = 4
    MaxAsks = 3
    Media = {1, 2}
    MaxWatched = 1
    Foreigns <- SomeForeigns
    DeadlineAt = 1
    MaxPosts = 2
    MaxForeign = 1
    SkipRows <- SomeSkips
    MaxRows = 2
    LastPos = 15
    MaxSeeks = 2
    Ttl = 3
    FlashTicks = 1
    Stall = 2
    LastMoment = 4
    MaxSaid = 4
    Registry <- SomeProviders
    Tried = {"path", "translation", "covers"}
    Stored <- SomeStored
    TabHeight = {1, 5, 12, 40}
    MaxEdits = 2
    MaxLaunches = 2
INVARIANTS
    ThreadsTypeOK DrainsSound OnlyVerified RelayHonest
PROPERTIES
    ScreenSpeaks CallsHonest PlaySound EnrichHonest PosterHonest UpdateSound CatalogHonest
    WaitsEnd
CHECK_DEADLOCK FALSE
