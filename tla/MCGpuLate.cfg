CONSTANTS
    a = a
    b = b
    Nil = Nil
    Keyless = Keyless
    Absent = Absent
    NoEntry = NoEntry
    Products <- MCProducts
    Blank = {}
    MaxCapacity = 3
    Nodes = {n1}
    Callers = {c1}
    MaxFaults = 1
    MaxWorkloads = 2
    CapacityEdits <- MCOneEdit
    NewCapacities <- MCNewCapacities
    DeployRequests <- MCOneRequest
    ReallocRequests <- MCOneRequest
    MaxDeploy = 2
    MaxCount = 2
SPECIFICATION LateSpec
INVARIANT NoUpdateIsLost
