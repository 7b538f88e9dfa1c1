\* Three calls of every kind race on one entry.  Every call ends, so the system stops.
CONSTANTS
    o1 = o1  o2 = o2  o3 = o3  f = f
    NoRev = NoRev  NoKey = NoKey
    Ops = {o1, o2, o3}
    Native = {}
    Names = {f}
    Kinds = {"write", "delta", "update", "delete"}
    Sizes = {0, 1}
    Base <- OneFile
    BaseTop = 2
    MaxInode = 5
    MaxEpoch = 1
    MaxSends = 1
    Stalls = {"staged", "sent", "leaked"}
SPECIFICATION Spec
CHECK_DEADLOCK FALSE
SYMMETRY OpsSymmetry
INVARIANTS TypeOK TreeSound Accounting DeltaPatchesExpected JournalExplainsTree
