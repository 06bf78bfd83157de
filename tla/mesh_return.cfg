SPECIFICATION FairSpec
CONSTANTS
    co = co
    gu = gu
    ct = ct
    se = se
    Node = {co, gu, ct, se}
    NoNode = none
    RoleOf <- MCRoleOf
    CapsOf <- MCCapsOf
    Id = {"a", "b", "c", "long"}
    LongId = {"long"}
    ControlAction = {"set_status_light", "ws2812_set"}
    SensorAction = {"read_temperature_humidity"}
    Coord = co
    Caller = {c1}
    CallSet <- TargetCalls
    PubDepth = 8
    PolicyDepth = 2
    OutputDepth = 3
    MaxCalls = 1
    MaxBreaks = 1
    MaxReboots = 1
PROPERTY CallsReturn
