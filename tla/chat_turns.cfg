SPECIFICATION FairSpec
CONSTANTS
    Fd = {}
    ChatId = {"ws_1", "ws_2", "room", "oc", "heartbeat", "ws_unknown"}
    AutoId <- MCAutoId
    EntryId <- MCEntryId
    MaxClients = 1
    UnknownChat = "ws_unknown"
    NamedChat = {}
    FeishuId = {1, 2}
    FeishuChat = "oc"
    OtherAsk <- MCOtherAsk
    InDepth = 1
    OutDepth = 1
    SeenDepth = 1
    MaxRounds = 2
    MaxAsks = 2
    MaxOpens = 0
    MaxFed = 3
    MaxReboots = 1
INVARIANTS TypeOK TextIsOwned ToldIsSaved FeishuOnce
PROPERTY Settles
CHECK_DEADLOCK FALSE
