CONSTANTS
    Requests = {r1}
    People = {p1}
    Phones = {f1}
    Grid = {2}
    Typed = {4}
    Offset = 2
    LeadTime = 1
    Before = 0
    LastNow = 2
    MaxRows = 1
    DBErrors = FALSE
    AckLoss = FALSE
    MaxFaults = 0
    Nobody = Nobody
SPECIFICATION Spec
INVARIANTS StaffHourLeavesPicker
CHECK_DEADLOCK FALSE
