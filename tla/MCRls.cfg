\* Two requests; a user who can be in both clans and an
\* admin who is in neither.
SPECIFICATION Spec
CONSTANTS
    q1 = q1
    q2 = q2
    c1 = c1
    c2 = c2
    u1 = u1
    u2 = u2
    m1 = m1
    m2 = m2
    r1 = r1
    r2 = r2
    None = None
    Clans = {c1, c2}
    Users = {u1, u2}
    Members = {m1, m2}
    Roles = {r1, r2}
    UserOf <- Rows
    Admins = {u2}
    Requests = {q1, q2}
    MaxRequests = 2
SYMMETRY Symmetry
CHECK_DEADLOCK FALSE
INVARIANTS
    ReadsStayInside
PROPERTIES
    WritesStayInside
