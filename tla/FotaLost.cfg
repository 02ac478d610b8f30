SPECIFICATION Spec
CONSTANTS
    Servers = {"s1", "s2"}
    Names = {"n"}
    Predefined <- TwoPredefined
    MaxId = 2

PROPERTY MarkedWasSent
CHECK_DEADLOCK FALSE
