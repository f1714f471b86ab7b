CONSTANTS
    a = a
    b = b
    Nil = Nil
    Keyless = Keyless
    Absent = Absent
    NoEntry = NoEntry
    Products <- MCProducts
    Blank = {}
    MaxCapacity = 3
    Nodes = {n1, n2}
    Callers = {c1, c2}
    MaxFaults = 2
    MaxWorkloads = 1
    CapacityEdits <- MCOneEdit
    NewCapacities <- MCNewCapacities
    DeployRequests <- MCOneRequest
    ReallocRequests <- MCOneRequest
    MaxDeploy = 1
    MaxCount = 2
SPECIFICATION FairSpec
PROPERTIES NoResurrection RepairEnds LocksAreReleased
