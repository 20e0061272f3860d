\* Two requests at a time, three in all; one event, one invite.
SPECIFICATION Spec
CONSTANTS
    r1 = r1
    r2 = r2
    ann = ann
    ben = ben
    eve = eve
    a = a
    b = b
    org = org
    None = None
    System = System
    Users = {ann, ben, eve}
    Admins = {eve}
    Clans = {a, b}
    Owner <- OwnerOf
    Crew <- CrewOf
    Granted <- GrantedOf
    Orgs = {org}
    OrgOwner <- OrgOwnerOf
    Events = {e1}
    Invites = {i1}
    Requests = {r1, r2}
    Settings <- SomeSettings
    Changes <- SomeChanges
    Limits = {1}
    MaxRequests = 3
    MaxUpsets = 1
SYMMETRY Spare

CHECK_DEADLOCK FALSE
INVARIANTS
    ChangesAreShown
PROPERTIES
    OthersKeepOut
    EntriesAreWarranted
    CancellationsReachEveryone
    OffersAreAccepted
