SPECIFICATION Spec
CONSTANTS
    m1 = m1
    m2 = m2
    a = a
    b = b
    Sessions = {m1, m2}
    Owners = {a, b}
    SessionOf <- TwoOwners
    Program <- Programs
    Barriers = {m1}
    Closing = {m1}
    Crashing = {m2}
    MaxByte = 2
    LeaseTicks = 2
    MaxAttempts = 2
    MaxGeneration = 2
    Mounting = {1}
    MaxFaults = 1
INVARIANTS
    TypeOK
    HeldIsRecorded
    NoLostWakeup
    RecordsOfThisGeneration
PROPERTIES
    WritesAreFenced
    BarrierDrains
    ImplementsLockTable
    WaiterOutlivesHolders
