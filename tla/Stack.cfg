SPECIFICATION Spec
CONSTANTS
    NRuns = 2
    DirOf <- MCDirOf
    DevicesOf <- MCDevicesOf
    Simulated = {1}
    Slow = {"arco"}
    Serve = TRUE
    ByHand = {2}
    MaxKills = 1
    Accidents = {"reuse", "denied", "again"}
 
PROPERTY SweepsSpareOthers
PROPERTY NothingPlaysOn
CHECK_DEADLOCK FALSE
