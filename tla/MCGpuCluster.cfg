CONSTANTS
    a = a
    b = b
    Nil = Nil
    Keyless = Keyless
    Absent = Absent
    NoEntry = NoEntry
    Products <- MCProducts
    Blank = {}
    MaxCapacity = 3
    Nodes = {n1}
    Callers = {c1, c2}
    MaxFaults = 2
    MaxWorkloads = 2
    CapacityEdits <- MCCapacityEdits
    NewCapacities <- MCNewCapacities
    DeployRequests <- MCDeployRequests
    ReallocRequests <- MCReallocRequests
    MaxDeploy = 2
    MaxCount = 2
SPECIFICATION Spec
SYMMETRY CallerSymmetry
INVARIANT ClusterTypeOK
INVARIANT UsageIsHeld
INVARIANT WriteIsFresh
INVARIANT RollbackIsExact
PROPERTIES NeverOverbooked ImplementsLedger
