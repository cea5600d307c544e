\* Three requests of any kind, one of which may die half-way.
CONSTANTS
    None = None
    Handlers = {q1, q2, q3}
    MaxDeaths = 1
SPECIFICATION LifeSpec
SYMMETRY Symmetry
CHECK_DEADLOCK FALSE
INVARIANTS
    RevokedOnce
    RevokedIsShown
    TrailInOrder
    CountersExactAlone
PROPERTY
    RevocationUndoneOnlyByEdit
