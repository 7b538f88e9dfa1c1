\* A deletion and a restore.
CONSTANTS
    c1 = c1  c2 = c2  c3 = c3  root = root  a = a  b = b  v1 = v1  v2 = v2
    Base = Base  Nobody = Nobody  Absent = Absent
    Calls = {c1, c2}
    Offered = {"restore", "delete"}
    Paths = {root, a, b}
    Root = root
    BasePaths = {root, a}
    Versions = {v1}
    First = v1
    Openings = {TRUE}
    MaxChanges = 0
CHECK_DEADLOCK FALSE
SPECIFICATION Spec
PROPERTY CapturesPublished
