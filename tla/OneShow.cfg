SPECIFICATION MCSpec
CONSTANTS
    None = None
    Tui = Tui
    Cli = Cli
    Runs = {Tui, Cli}
    MaxProgress = 2
    Shows <- OneShow
    Seeded <- OneShow
    ImportCap = 1
    RemotePairs <- FewPairs
    StatusKeys <- Keys
    MediaSeen <- OneMedia
    Budget <- OneShowBudget
INVARIANTS TypeOK SnapshotHonest
CHECK_DEADLOCK FALSE
