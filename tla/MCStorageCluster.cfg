CONSTANTS
    Paths = {1, 2, 3, 4}
    Parts <- MCParts
    Devices <- MCDevices
    DiskNames = {1, 2}
    Rates = {"r", "w"}
    Dests = {1, 2, 3}
    AUTO = AUTO
    NoDisk = NoDisk
    Nil = Nil
    Unset = Unset
    Absent = Absent
    MaxInt = 12
    RoundedDown = {}
    RoundedUp = {}
    MaxDeployCount = 3
    EngineStorage = 10
    NewNodes <- MCNewNodes
    CapacityEdits <- MCCapacityEdits
    DeployRequests <- MCDeployRequests
    ReallocRequests <- MCReallocRequests
    MaxWorkloads = 2
    MaxOps = 5
    MaxFaults = 1
SPECIFICATION FairSpec
INVARIANTS
    ClusterTypeOK
    RollbackIsExact
    ReturnsFit
PROPERTIES ImplementsLedger RepairEnds
CHECK_DEADLOCK FALSE
