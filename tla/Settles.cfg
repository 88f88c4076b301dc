SPECIFICATION MCFairSpec
CONSTANTS
    None = None
    Tui = Tui
    Cli = Cli
    Runs = {Tui, Cli}
    MaxProgress = 2
    Shows <- TwoShows
    Seeded <- TwoShows
    ImportCap = 1
    RemotePairs <- FewPairs
    StatusKeys <- Keys
    MediaSeen <- OneMedia
    Budget <- SettlesBudget
PROPERTY SettlesClean
CHECK_DEADLOCK FALSE
