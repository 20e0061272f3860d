\* Two requests, one of which may die, and two invites.
SPECIFICATION Spec
CONSTANTS
    None = None
    Users = {u1, u2}
    Invites = {i1, i2}
    Requests = {r1, r2}
    Limits = {1}
    MaxUpsets = 1
SYMMETRY Symmetry
INVARIANTS
    OverrunIsBounded
    EntriesAreCounted
    OneOpenInvitePerUser
PROPERTIES
    EntriesAreWarranted
    OffersAreAccepted
