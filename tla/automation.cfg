SPECIFICATION FairSpec
CONSTANTS
    MaxRules = 2
    MaxWorkflows = 2
    MaxSteps = 2
    Value <- MCValue
    Threshold = 2
    Hysteresis = 2
    Interval = 1
    Cooldown = 2
    MaxCreates = 2
    MaxReboots = 1
INVARIANTS TypeOK RemovedIsGone SavedIsActive OneLateAction MemoryIsTrue SlotIsTask
PROPERTIES BandIsKept EveryRuleIsChecked
