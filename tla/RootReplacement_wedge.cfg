\* A creation and two restores, each of which may crash.
CONSTANTS
    c1 = c1  c2 = c2  c3 = c3  root = root  a = a  b = b  v1 = v1  v2 = v2
    Base = Base  Nobody = Nobody  Absent = Absent
    Calls = {c1, c2, c3}
    Offered = {"restore", "create"}
    Paths = {root, a}
    Root = root
    BasePaths = {root}
    Versions = {v1}
    First = v1
    Openings = {FALSE}
    MaxChanges = 0
CHECK_DEADLOCK FALSE
SPECIFICATION Spec
INVARIANT RestoreNeedsNoRoot
