\* One request at a time, under a context of any age; one of them may die.
SPECIFICATION Spec
CONSTANTS
    r1 = r1
    owner = owner
    ann = ann
    ben = ben
    top = top
    lead = lead
    base = base
    new = new
    None = None
    Users = {owner, ann, ben}
    Owner = owner
    Admins = {ben}
    Roles = {top, lead, base, new}
    OwnerRole = top
    MemberRoles = {base}
    SeedPosition <- Seats
    Defaults <- Seeds
    Crew <- SmallCrew
    Rights <- SomeRights
    GrantChoices <- SomeChoices
    Requests = {r1}
    StaleContexts = TRUE
    MaxRoles = 3
    MaxRequests = 3
    MaxAborts = 1
INVARIANTS
    RightsComeFromTheTop
    RolesAreOrdered
    FormerMembersHoldNothing
    ClientAgreesWithServer
PROPERTIES
    HierarchyRespected
    DeletingLeavesNobodyRoleless
    OffersAreAccepted
