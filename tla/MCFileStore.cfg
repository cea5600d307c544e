\* Three requests in two processes, one change of the settings, two restarts, one
\* failing call.
CONSTANTS
    Processes = {p1, p2}
    Requests = {q1, q2, q3}
    MaxSwitches = 1
    MaxRestarts = 2
    MaxFaults = 1
    None = None
SPECIFICATION Spec
SYMMETRY Symmetry
CHECK_DEADLOCK FALSE
INVARIANTS
    RowHasObject
    FilesWorkUntilSwitched
