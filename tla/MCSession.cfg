\* Two accounts, two organizations, one tab beside others and two calls at a time.
CONSTANTS
    None = None
    Tabs = {t1}
    Users = {u1, u2}
    Orgs = {o1, o2}
    Calls = {c1, c2}
SPECIFICATION Spec
SYMMETRY Symmetry
CHECK_DEADLOCK FALSE
INVARIANTS
    ShownOrganizationIsMine
    QuietTabShowsCookie
    PageFollowsOrganization
