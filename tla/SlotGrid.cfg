CONSTANTS
    LastDay = 4
    ClosedDays <- MCClosed
    Zones <- MCZones
    ChangeDay = 2
    Open = 10
    Close = 15
    Slot = 2
    LeadTime = 3
    Horizon = 50
    LastNow = 50
SPECIFICATION PickerSpec
INVARIANTS PickerExact
CHECK_DEADLOCK FALSE
