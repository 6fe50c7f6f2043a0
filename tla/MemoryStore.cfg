SPECIFICATION Spec
CONSTANTS
    Slices = {a}
    Snapshots = {s, t}
    Processes = {p, q}
    MaxFailures = 3
    MaxTries = 2
    MaxFaults = 1
INVARIANTS SnapshotKept InHistoryOnce UpdateKept
CHECK_DEADLOCK FALSE
