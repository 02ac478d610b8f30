SPECIFICATION FairSpec
CONSTANTS
    Servers = {"s1", "s2"}
    Names = {"n"}
    Predefined <- TwoPredefined
    MaxId = 2
  
PROPERTY ResultReported
CHECK_DEADLOCK FALSE
