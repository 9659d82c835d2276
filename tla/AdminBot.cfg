SPECIFICATION Spec
CONSTANTS
    Staff = {s1}
    Guests = {g1}
    Clients = {c1, c2}
    Advocates = {v1, v2}
    MaxQueue = 2
    MaxDialogues = 2
    MaxCrashes = 1
    MaxLost = 1
    MaxUnsent = 1
    NoClient = NoClient
    NoAdvocate = NoAdvocate
SYMMETRY Symmetry
INVARIANTS ActsOnce ActsAsShown StaffOnly
CHECK_DEADLOCK FALSE
