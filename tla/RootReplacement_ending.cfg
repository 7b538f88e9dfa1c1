\* Any two requests, run to their end.  Then the system stops.
CONSTANTS
    c1 = c1  c2 = c2  c3 = c3  root = root  a = a  b = b  v1 = v1  v2 = v2
    Base = Base  Nobody = Nobody  Absent = Absent
    Calls = {c1, c2}
    Offered = {"restore", "create", "save", "upload", "delete"}
    Paths = {root, a}
    Root = root
    BasePaths = {root, a}
    Versions = {v1}
    First = v1
    Openings = {TRUE, FALSE}
    MaxChanges = 1
CHECK_DEADLOCK FALSE
SPECIFICATION FairSpec
PROPERTIES DeletionIsFinal LockFreed CallsEnd
