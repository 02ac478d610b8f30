SPECIFICATION MCSpec
CONSTANTS
    UserIds = {"x"}
    Statics = {"", "s"}
    Servers = {"s1"}
    Objects <- MCObjects
    MaxId = 2
    MaxStatic = 1
    MaxRetry = 1
    MaxBuffer = 1
    MaxAlerts = 2
INVARIANTS AlertsBounded  
