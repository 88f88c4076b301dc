SPECIFICATION MCSpec
CONSTANTS
    None = None
    Tui = Tui
    Cli = Cli
    Runs = {Tui, Cli}
    MaxProgress = 2
    Shows <- OneShow
    Seeded <- OneShow
    ImportCap = 1
    RemotePairs <- FewPairs
    StatusKeys <- Keys
    MediaSeen <- OneMedia
    Budget <- TwoRunsBudget
PROPERTIES PullKeepsLocalEdits NoBlindUpsert
CHECK_DEADLOCK FALSE
