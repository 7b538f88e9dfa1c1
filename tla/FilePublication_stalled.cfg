\* A delta upload stalls for an hour between copying and patching its stage.
CONSTANTS
    o1 = o1  o2 = o2  o3 = o3  f = f
    NoRev = NoRev  NoKey = NoKey
    Ops = {o1, o2}
    Native = {}
    Names = {f}
    Kinds = {"delta", "write"}
    Sizes = {1}
    Base <- OneFile
    BaseTop = 2
    MaxInode = 4
    MaxEpoch = 1
    MaxSends = 1
    Stalls = {"copied"}
SPECIFICATION Spec
CHECK_DEADLOCK FALSE
INVARIANT DeltaPatchesExpected
