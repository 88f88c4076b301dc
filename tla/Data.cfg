SPECIFICATION DataSpec
CONSTANTS
    Openers = {1, 2}
    RetryLimit = 1
    Episodes = 2
    Translations = {"sub"}
    MaxClock = 3
    MaxLegacyId = 2
    Sources = {"p", "unbound"}
    ZigRows <- SomeZigRows
    MaxZigRows = 2
    MaxAnswers = 1
    MaxStarts = 2
    Axes = {"t", "s"}
    FeedPages <- SomeFeeds
    PageSize = 1
    MaxFeedRows = 2
    Cols = 1
    Rows = 1
    CoverCap = 2
    PoolCap = 2
    Drawers = {1, 2}
    ArtUrls = {"u", "v"}
    ArtSize <- SomeSizes
    TierCap <- SomeCaps
    MaxLoads = 3
    Anime = {1, 2}
    Listed = {2}
    MaxSteps = 5
    Ids = {1, 2}
    Statuses = {"watching", "completed"}
    MaxEpisode = 1
    MaxUpdatedAt = 1
    MaxCopies = 3
    None = None
    MaxProgress = 2
    Devices = {1, 2}
    MaxEdits = 3
    Words = {"x"}
    MaxArgs = 3
    Keyed = {1, 2}
    PickTries = 2
    Offers <- SomeOffers
    Shows <- SomeShows
    Works <- SomeWorks
    MaxWorks = 2
    MaxProbe = 1
    Heights = {480, 1080}
    Caps = {720}
    MaxLines = 5
    FirstDays <- SomeDays
    Span = 800
    Length = 3
    HintLimit = 2
    Listings <- SomeListings
    MaxNumber = 50
    ServerLists <- SomeServers
    Captions <- SomeCaptions
    HintCap = 2
    TermWidths = {16, 43, 60, 90, 140}
    TermHeights = {3, 4, 14, 23, 40}
    CellSizes <- SomePixels
    Headers = {2, 5}
    Synopses = {1, 9}
    GridLengths = {0, 1, 60}
    SeasonLengths = {0, 1, 12}
    Frames <- SomeFrames
    CellKinds <- SomePixels
    MaxListed <- SomeListed
    MaxChanges = 2
INVARIANTS
    DataTypeOK QuerySound
PROPERTIES
    OpensWhole ResumeHonest ImportHonest DiscoverSound CacheSound
    ScreenHonest ReplicasAgree MergeSound PicksHonest
CHECK_DEADLOCK FALSE
