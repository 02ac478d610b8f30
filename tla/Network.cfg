SPECIFICATION Spec
CONSTANTS
    PlayerLeaves <- LeavesST
    PlayerObjects <- ObjectsST
    PlayerPoints = {1}
    PlayerPorts <- PortsST
INVARIANTS  NoStrayAnswer  PortsApart
CHECK_DEADLOCK FALSE
