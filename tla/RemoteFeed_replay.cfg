\* A daemon with or without a cursor in its state file.  Changes are few, so the system stops.
CONSTANTS
    a = a  b = b
    Everything = Everything
    Paths = {a, b}
    Earlier <- OneEarlier
    Cursor = 1
    QueueSize = 1
    BatchSize = 2
    Retained = 1
    Faults = {"link", "read", "range", "scan", "stat", "tombstone", "crash"}
    MaxChanges = 3
    MaxFaults = 2
SPECIFICATION FairSpec
CHECK_DEADLOCK FALSE
INVARIANTS TypeOK NothingForgotten
PROPERTY Noticed
