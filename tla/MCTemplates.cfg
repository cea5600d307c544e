\* Five requests for one template, one of which may die.
CONSTANTS
    Requests = {q1, q2, q3, q4, q5}
    MaxCrashes = 1
SPECIFICATION Spec
SYMMETRY Symmetry
CHECK_DEADLOCK FALSE
INVARIANTS
    ReferencesHold
    CurrentIsLatestAlone
