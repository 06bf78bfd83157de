SPECIFICATION LinksSpec
CONSTANTS
    FsMsg = {"x", "y"}
    NoMsg = "-"
    FsParts = 2
    MaxCuts = 2
    MaxFsBoots = 1
    MaxRetry = 2
    MaxAirCuts = 2
    MaxScans = 1
    MaxPortals = 1
    Reader = {"monitor"}
    SensorPlaces <- MCPlaces
    MaxEnvCalls = 2
    MaxOutages = 1
    CronPlaces = 2
    CronRequests <- MCRequests
    Day = 2
    FileHolds = 1
    MaxTime = 2
    MaxAdds = 2
    MaxCronBoots = 1
INVARIANT NoJobVanishes
CHECK_DEADLOCK FALSE
