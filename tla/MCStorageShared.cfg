CONSTANTS
    Paths = {1, 2, 3, 4, 5}
    Parts <- MCParts
    Devices <- MCDevices
    DiskNames = {1, 2}
    Rates = {"r", "w"}
    Dests = {1, 2, 3, 4, 5, 6}
    AUTO = AUTO
    NoDisk = NoDisk
    Nil = Nil
    Unset = Unset
    MaxInt = 12
    RoundedDown <- MCRoundedDown
    RoundedUp <- MCRoundedUp
    MaxDeployCount = 3
    NewCapacities <- SharedNodes
    DeployRequests <- SharedDeploys
    ReallocRequests <- SharedReallocs
    MaxWorkloads = 2
    MaxOps = 3
SPECIFICATION Spec
INVARIANT MonopolyIsAlone
CHECK_DEADLOCK FALSE
