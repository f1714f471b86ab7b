CONSTANTS
    Paths = {1, 2, 3}
    Parts <- MCParts
    Devices <- MCDevices
    DiskNames = {1, 2}
    Rates = {"r", "w"}
    Dests = {1}
    AUTO = AUTO
    NoDisk = NoDisk
    Nil = Nil
    Unset = Unset
    Absent = Absent
    MaxInt = 12
    RoundedDown = {}
    RoundedUp = {}
    MaxDeployCount = 1
    EngineStorage = 10
    NewNodes <- MCNewNodes
    Edits <- MCEdits
    Bookings <- MCBookings
    UsageRequests <- MCUsageRequests
    NewInfos <- MCNewInfos
    MaxCalls = 4
SPECIFICATION Spec
INVARIANTS
    StoredValid
    SnapshotsRestore
    RetryIsHarmless
    DeltaIsUndone
CHECK_DEADLOCK FALSE
