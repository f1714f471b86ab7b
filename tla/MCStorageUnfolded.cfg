CONSTANTS
    Paths = {1, 2, 3, 4}
    Parts <- MCParts
    Devices <- MCDevices
    DiskNames = {1, 2}
    Rates = {"r", "w"}
    Dests = {1, 2, 3}
    AUTO = AUTO
    NoDisk = NoDisk
    Nil = Nil
    Unset = Unset
    Absent = Absent
    MaxInt = 12
    RoundedDown = {}
    RoundedUp = {}
    MaxDeployCount = 3
    EngineStorage = 10
    NewNodes <- MCNewNodes
    CapacityEdits <- MCSetBudget
    DeployRequests = {}
    ReallocRequests = {}
    MaxWorkloads = 1
    MaxOps = 2
    MaxFaults = 1
SPECIFICATION Spec
INVARIANT CapacityCoversVolumes
CHECK_DEADLOCK FALSE
