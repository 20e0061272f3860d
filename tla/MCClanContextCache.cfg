\* Two requests of one user in one process, everything that can go wrong.
SPECIFICATION FairSpec
CONSTANTS
    u1 = u1
    p1 = p1
    r1 = r1
    r2 = r2
    None = None
    NotFound = NotFound
    Users = {u1}
    Procs = {p1}
    Requests = {r1, r2}
    ProcOf <- SameProc
    UserOf <- SameUser
    HandlerWrites = 2
    SystemWriters = TRUE
    MaxWrites = 2
    MaxFaults = 1
INVARIANTS
    ContextsSeeBumpedWrites
    UncoveredWritesAreBeingBumped
PROPERTIES
    EntriesBecomeFresh
