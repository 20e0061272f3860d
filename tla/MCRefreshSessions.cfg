\* Two requests in flight, one of which may die; two accounts, three tokens: a
\* login and two rotations of it, or two logins.
SPECIFICATION Spec
CONSTANTS
    None = None
    Users = {u1, u2}
    Tokens = {t1, t2, t3}
    Links = {l1}
    Passwords = {p1}
    Requests = {r1, r2}
    MaxAborts = 1
SYMMETRY Symmetry
INVARIANTS
    OneUsableTokenPerLogin
    RotationIsAllOrNothing
PROPERTIES
    ImplementsContract
    EndingIsFinal
