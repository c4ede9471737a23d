SPECIFICATION Spec
CONSTANTS
    d1 = d1
    d2 = d2
    r1 = r1
    r2 = r2
    Docs = {d1, d2}
    Readers = {r1, r2}
    Absent = Absent
    Nothing = Nothing
    First = {d1}
    Budget = 2
    MaxWrites = 2
    Freedoms = {}
INVARIANTS BudgetIsHonest OwnWritesAreSeen
PROPERTY RetryLands
CHECK_DEADLOCK FALSE
