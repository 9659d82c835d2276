CONSTANTS
    Requests = {r1, r2}
    People = {p1}
    Phones = {f1, f2}
    Grid = {2}
    Typed = {2, 3}
    Offset = 2
    LeadTime = 1
    Before = 2
    LastNow = 3
    MaxRows = 2
    DBErrors = TRUE
    AckLoss = TRUE
    MaxFaults = 1
    Nobody = Nobody
SYMMETRY Symmetry
SPECIFICATION Spec
CONSTRAINT Focus
INVARIANTS RemindedOnce  HourGivenOnce LeadHasHour
CHECK_DEADLOCK FALSE
