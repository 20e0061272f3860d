\* Two requests, three tokens: what the answer to a replay promises.
SPECIFICATION Spec
CONSTANTS
    None = None
    Users = {u1}
    Tokens = {t1, t2, t3}
    Links = {l1}
    Passwords = {p1}
    Requests = {r1, r2}
    MaxAborts = 0
PROPERTIES
    AllSessionsEnded
