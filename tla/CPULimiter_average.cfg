SPECIFICATION Spec
CHECK_DEADLOCK FALSE
CONSTANTS
    Ratios = {0, 20, 50}
    Works = {10, 20}
    Others = {0, 30}
    Rates = {1, 2}
    Uptime = 1000
    millisecond = 10
    Horizon = 600
INVARIANT
    UsageAveraged
