SPECIFICATION Spec
CONSTANTS
    co = co
    gu = gu
    ct = ct
    se = se
    Node = {co, gu, ct}
    NoNode = none
    RoleOf <- MCRoleOf
    CapsOf <- MCCapsOf
    Id = {"a", "b", "c", "long"}
    LongId = {"long"}
    ControlAction = {"set_status_light", "ws2812_set"}
    SensorAction = {"read_temperature_humidity"}
    Coord = co
    Caller = {c1}
    CallSet <- FaultCalls
    PubDepth = 8
    PolicyDepth = 2
    OutputDepth = 3
    MaxCalls = 2
    MaxBreaks = 1
    MaxReboots = 0
INVARIANT ResultIsOwn
PROPERTY KeepsGate
