\* Two calls of native sessions, each sent up to twice over a network that loses and
\* delays, across a restore of the checkpoint.
CONSTANTS
    o1 = o1  o2 = o2  o3 = o3  f = f
    NoRev = NoRev  NoKey = NoKey
    Ops = {o1, o2}
    Native = {o1, o2}
    Names = {f}
    Kinds = {"write", "delta", "update", "delete"}
    Sizes = {1}
    Base <- OneFile
    BaseTop = 2
    MaxInode = 4
    MaxEpoch = 2
    MaxSends = 2
    Stalls = {"staged", "sent"}
SPECIFICATION Spec
CHECK_DEADLOCK FALSE
SYMMETRY OpsSymmetry
INVARIANTS OwnGeneration CommitOnce AnswersAreTrue
PROPERTIES NothingAfterReturn ImplementsStore
