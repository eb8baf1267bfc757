SPECIFICATION Spec
CONSTANTS
    None = None
    Platforms = {p1, p2}
    Executors = {e1, e2}
    Workers = {w1, w2}
    MaxJobs = 1
PROPERTIES
    ScheduledUntilDue
CHECK_DEADLOCK FALSE
