SPECIFICATION Spec
CONSTANTS
    a = a
    b = b
    c = c
    d = d
    Targets = {a, b, c, d}
    Unknown = x
    Goal = a
    Graphs <- MCGraphs
    MaxCommands = 1
    MaxJobs = 2
INVARIANTS
    WellFormed
PROPERTIES
    ImplementsBuild
    Returns
CHECK_DEADLOCK FALSE
