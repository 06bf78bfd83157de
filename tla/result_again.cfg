SPECIFICATION ServicesSpec
CONSTANTS
    k1 = k1
    k2 = k2
    k3 = k3
    v1 = v1
    v2 = v2
    CacheKey = {k1, k2, k3}
    CacheValue = {v1, v2}
    NoValue = none
    CacheSize <- MCSize
    CachePlaces = 2
    CacheTotal = 2
    CacheLongest = 2
    CacheTtl = {1}
    CacheGroup <- MCGroup
    CacheUser = {"agent"}
    CacheEnd = 1
    SkillTask = {"agent", "subagent"}
    SkillFile = {"skill"}
    OtherFile = {"memory"}
    MaxWrites = 3
    SessionChat = {"chat"}
    MaxMsgs = 3
    HistoryHolds = 6
    LineSize = {1, 3}
    MaxPieces = 1
    LegacyLines <- MCLegacy
    MaxTurns = 3
    SubIters = 2
    SubTool = {"read_file", "gpio_write"}
    SubAllowed = {"read_file"}
    MaxSpawns = 2
    Ask <- MCAsk
    ReplyTools <- MCReplyTools
    Registered = {"mesh_send_command", "gpio_write", "web_search"}
    MaxToolCalls = 2
    MaxIter = 2
    MaxAsks = 2
    MaxSent = 2
    MaxSwitches = 1
    FsSender = {"dispatch", "console"}
    FsApp = {"p", "q"}
    NoApp = "-"
    TextParts = {1, 2}
    MaxTexts = 2
    MaxCreds = 2
    SetText = {"x", "long", "longer"}
    TooLong <- MCTooLong
    NotShown <- MCNotShown
    OverLine <- MCOverLine
    Build <- MCBuild
    DefaultModel = "default"
    MaxCommands = 2
    MaxResets = 1
    Contact <- MCContact
    Noter = {"agent", "console"}
    Checker = {"proactive"}
    MaxNotes = 2
    MaxBeats = 1
    MaxNoteBoots = 1
INVARIANT ResultNotSentAgain
CHECK_DEADLOCK FALSE
