SPECIFICATION Spec
CONSTANTS
    d1 = d1
    d2 = d2
    Donors = {d1, d2}
    Runs = {r1, r2}
    Rows = {1, 2}
    DonorOf <- DonorOfRow
    RightsOf <- Rights
    Count = 1
    Chunk = 2
    Slots = 2
    DBErrors = TRUE
    MaxFaults = 1
SYMMETRY Symmetry
INVARIANTS LinksAccounted StopsAtCount
CHECK_DEADLOCK FALSE
