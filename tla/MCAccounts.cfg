\* Three requests, all of which may be under way at once, and one may die.
SPECIFICATION Spec
CONSTANTS
    None = None
    Users = {u1, u2}
    Names = {n1, n2}
    Displays = {d1, d2}
    MaxTag = 2
    Keys = {k1, k2}
    Attempts = 2
    Migrated = {u1}
    Requests = {r1, r2, r3}
    MaxRequests = 3
    MaxAborts = 1
SYMMETRY Symmetry
CHECK_DEADLOCK FALSE
INVARIANTS
    AvatarsAreStored
PROPERTIES
    UsernamesRest
