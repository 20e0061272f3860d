\* Two mutations at once; two items, one of them new on most pages.
SPECIFICATION Spec
CONSTANTS
    None = None
    Ids = {a, b}
    Mutations = {m1, m2}
    MaxActs = 3
    MaxFaults = 1
SYMMETRY Symmetry
INVARIANTS
    SwitchesTellTheTruth
    ListsTellTheTruth
PROPERTIES
    EmissionsFollowTheSwitch
CHECK_DEADLOCK FALSE
