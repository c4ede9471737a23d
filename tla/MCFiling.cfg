SPECIFICATION Spec
CONSTANTS
    Values <- MCValues
    Depth = 2
    n1 = n1
    n2 = n2
    Leaves = {n1, n2}
    MaxNodes = 4
    MaxEdits = 3
SYMMETRY MCSymmetry
CONSTRAINT FewAtOnce
INVARIANTS
    NoTwins
    FiledAgainIsFound
PROPERTIES
    FiledWhereItSays
CHECK_DEADLOCK FALSE
