\* Any two requests but deletions, beside publishing clients.  Every call ends.
CONSTANTS
    c1 = c1  c2 = c2  c3 = c3  root = root  a = a  b = b  v1 = v1  v2 = v2
    Base = Base  Nobody = Nobody  Absent = Absent
    Calls = {c1, c2}
    Offered = {"restore", "create", "save", "force", "upload"}
    Paths = {root, a, b}
    Root = root
    BasePaths = {root, a}
    Versions = {v1, v2}
    First = v1
    Openings = {TRUE, FALSE}
    MaxChanges = 2
CHECK_DEADLOCK FALSE
SPECIFICATION Spec
SYMMETRY CallSymmetry
INVARIANTS TypeOK ServesPublished CleanMeansSaved SafeToDestroy
PROPERTY ImplementsPublishedTree
