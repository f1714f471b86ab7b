CONSTANTS
    Paths = {1, 2, 3, 4}
    Parts <- MCParts
    Devices <- MCDevices
    DiskNames = {1, 2}
    Rates = {"r", "w"}
    Dests = {1, 2, 3, 4, 5}
    AUTO = AUTO
    NoDisk = NoDisk
    Nil = Nil
    MaxInt = 12
    RoundedDown <- MCRoundedDown
    RoundedUp <- MCRoundedUp
    MaxDeployCount = 3
    NewCapacities <- MCNewCapacities
    DeployRequests <- MCSoftDeploys
    ReallocRequests <- MCGrow
    MaxWorkloads = 1
    MaxOps = 2
SPECIFICATION Spec
INVARIANT LimitsCover
CHECK_DEADLOCK FALSE
