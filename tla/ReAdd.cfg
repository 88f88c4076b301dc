SPECIFICATION MCSpec
CONSTANTS
    None = None
    Tui = Tui
    Cli = Cli
    Runs = {Tui, Cli}
    MaxProgress = 2
    Shows <- OneShow
    Seeded <- OneShow
    ImportCap = 1
    RemotePairs <- FewPairs
    StatusKeys <- Keys
    MediaSeen <- OneMedia
    Budget <- ReAddBudget
PROPERTY NoBlindUpsert
CHECK_DEADLOCK FALSE
