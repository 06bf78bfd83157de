SPECIFICATION Spec
CONSTANTS
    Fd = {1, 2}
    ChatId = {"ws_1", "ws_2", "room", "room_long", "oc", "heartbeat", "ws_unknown"}
    AutoId <- MCAutoId
    EntryId <- MCEntryId
    MaxClients = 2
    UnknownChat = "ws_unknown"
    NamedChat = {"room", "room_long"}
    FeishuId = {}
    FeishuChat = "oc"
    OtherAsk <- NoOtherAsk
    InDepth = 1
    OutDepth = 2
    SeenDepth = 1
    MaxRounds = 1
    MaxAsks = 2
    MaxOpens = 3
    MaxFed = 0
    MaxReboots = 0
VIEW SocketView
INVARIANTS AnswersInOrder AnswerToSocket
CHECK_DEADLOCK FALSE
