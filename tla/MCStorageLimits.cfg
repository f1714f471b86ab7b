CONSTANTS
    Paths = {1, 2, 3, 4}
    Parts <- MCParts
    Devices <- MCDevices
    DiskNames = {1, 2}
    Rates = {"r", "w"}
    Dests = {1, 2, 3, 4, 5}
    AUTO = AUTO
    NoDisk = NoDisk
    Nil = Nil
    MaxInt = 12
    RoundedDown <- MCRoundedDown
    RoundedUp <- MCRoundedUp
    MaxDeployCount = 3
    NewCapacities <- MCNewCapacities
    DeployRequests <- MCDeployRequests
    ReallocRequests <- MCReallocRequests
    MaxWorkloads = 2
    MaxOps = 4
SPECIFICATION Spec
INVARIANTS
    LimitsTypeOK
    LimitsCover
    RunsOnItsPlan
    NothingAskedLimitsKept
CHECK_DEADLOCK FALSE
