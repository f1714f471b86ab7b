CONSTANTS
    Paths = {1, 2, 3, 4}
    Parts <- MCParts
    Devices <- MCDevices
    DiskNames = {1, 2}
    Rates = {"r", "w"}
    Dests = {1, 2, 3, 4, 5}
    AUTO = AUTO
    NoDisk = NoDisk
    Nil = Nil
    MaxInt = 12
    RoundedDown <- MCRoundedDown
    RoundedUp <- MCRoundedUp
    MaxDeployCount = 3
    NewCapacities <- MCNewCapacities
    DeployRequests <- MCRoomyDeploys
    ReallocRequests <- MCGiveBack
    MaxWorkloads = 1
    MaxOps = 2
SPECIFICATION Spec
INVARIANT StorageAdds
CHECK_DEADLOCK FALSE
