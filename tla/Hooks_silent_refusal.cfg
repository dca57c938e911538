SPECIFICATION MachineSpec
CONSTANTS
    Command = {a, b}
    File = {plugin_json, code}
    PluginJson = plugin_json
    Version = {1, 2}
    MaxCommands = 0
    MaxReleases = 0
    Session = {a, b}
    Hook = {h1}
    MaxStarts = 3
    MaxEdits = 2
    Worktree = {1, 2, 3, 4}
    DirName <- Dirs
    RepoOf <- Repos
    BranchOf <- Branches
    SlotVersion = {1}
    MaxSlotEvents = 0
    Checkout = {"main", "m07"}
    ParentOf <- Parents
    PoolsOf <- Pools
    TTL = 1
    MaxDay = 3
    MaxLeaseEvents = 0
    DaemonCmd = {a, b}
    Pid = {p1, p2, p3}
    MaxDaemonEvents = 0
    Writer = {a, b}
    Subject = {1, 2, 3}
    SlugOf <- Slugs
    ExtOf <- Exts
    PassNumber = {1}
    MaxContent = 1
    MaxCalls = 0
    Entry = {n1}
    Thirty = 2
    LastDay = 4
    MaxMoves = 0
    Coder = {a, b}
    WikiPage = {g1}
    Source = {f1}
    LedgerCap = 2
    MaxCommits = 0
    MaxWikiWrites = 0
CONSTRAINT Claims
SYMMETRY Symmetry
CHECK_DEADLOCK FALSE
PROPERTY ToldBeforeRewrite
