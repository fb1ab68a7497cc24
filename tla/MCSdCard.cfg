CONSTANTS
    Contents = {c1, c2, c3}
    Absent = Absent
    Unreadable = Unreadable
    None = None
    MaxCrashes = 2
    MaxFailures = 2
SYMMETRY MCSymmetry
SPECIFICATION Spec
INVARIANTS
    ClearLeavesNothing
    AlwaysACopy
    SavedIsThere
PROPERTY LoadIsCurrent
