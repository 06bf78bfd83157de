SPECIFICATION Spec
CONSTANTS
    co = co
    gu = gu
    ct = ct
    se = se
    Node = {co, gu, se}
    NoNode = none
    RoleOf <- MCRoleOf
    CapsOf <- MCCapsOf
    Id = {"a", "b", "c", "long"}
    LongId = {"long"}
    ControlAction = {"set_status_light", "ws2812_set"}
    SensorAction = {"read_temperature_humidity"}
    Coord = co
    Caller = {c1}
    CallSet <- ReuseCalls
    PubDepth = 8
    PolicyDepth = 8
    OutputDepth = 8
    MaxCalls = 2
    MaxBreaks = 0
    MaxReboots = 0
INVARIANT DeniedNeverActed
