CONSTANTS
    a = a
    b = b
    blank = blank
    n1 = n1
    n2 = n2
    Nil = Nil
    Keyless = Keyless
    Absent = Absent
    NoEntry = NoEntry
    Products <- MCProducts
    Blank <- MCBlank
    Nodes <- MCNodes
    Inputs <- MCInputs
    MaxCapacity = 3
    Callers = {c1, c2}
    MaxFaults = 1
    MaxCalls = 2
SPECIFICATION Spec
SYMMETRY CallerSymmetry
INVARIANT TypeOK
INVARIANT StoredValid
INVARIANT CapacityIsExact
INVARIANT ReallocKeepsBooks
INVARIANT RestoreIsVerbatim
INVARIANT DiffsAreComplete
CHECK_DEADLOCK FALSE
