\* Two requests and two workers over a table of two rows, one fault, one deletion.
CONSTANTS
    slashed = slashed
    bare = bare
    name = name
    date = date
    address = address
    None = None
    Malformed = Malformed
    Rows <- MCRows
    Columns <- MCColumns
    Table <- MCTable
    Alias <- MCAlias
    Mappings <- MCMappings
    MaxRows = 2
    Requests = {q1, q2}
    Workers = {w1, w2}
    MaxFaults = 1
    MaxDeleted = 1
SPECIFICATION FairSpec
CHECK_DEADLOCK FALSE
INVARIANTS
    
    CountsAddUp
    FinishedBatchIsComplete
PROPERTIES
    BatchEnds
