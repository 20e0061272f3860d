SPECIFICATION EditSpec
CONSTANTS
    None = None
    Values = {v1, v2, v3}
    Mutations = {m1, m2}
    MaxActs = 6
    MaxFaults = 1
SYMMETRY Symmetry
INVARIANTS
    PreviewsTellTheTruth
    HintBelongsToTheName
PROPERTIES
    SavesUndoNothingKnown
CHECK_DEADLOCK FALSE
