\* Three requests for three people, with names of every width; a team limit of two and
\* one crash.
CONSTANTS
    None = None
    Requests = {q1, q2, q3}
    People = {p1, p2, p3}
    Limit = 2
    FreeLimit = 1
    LongNames = {"slug_full", "slug_over", "sender_over"}
    MaxCrashes = 1
SPECIFICATION Spec
SYMMETRY Symmetry
CHECK_DEADLOCK FALSE
INVARIANTS
    MembersWithinLimit
    OwnerRemains
    RegistrationIsWhole
