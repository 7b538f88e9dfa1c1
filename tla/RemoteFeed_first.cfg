\* A daemon started for the first time.
CONSTANTS
    a = a  b = b
    Everything = Everything
    Paths = {a, b}
    Earlier <- OneEarlier
    Cursor = 0
    QueueSize = 8
    BatchSize = 2
    Retained = 1
    Faults = {"link"}
    MaxChanges = 3
    MaxFaults = 1
SPECIFICATION FairSpec
CHECK_DEADLOCK FALSE
PROPERTY CaughtUp
