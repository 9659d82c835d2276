SPECIFICATION Spec
CONSTANTS
    adv = adv
    cl = cl
    Advocates = {adv}
    Clients = {cl}
    DaysPerMonth = 2
    LastDay = 3
    Fee = 400
    Price = 100
    Amounts = {0, 300}
    Percents = {20}
    StartPercent = 50
    Froms = {1}
    Picked = {"ads", "advocates"}
    MaxEdits = 2
    FirstLead <- Leads
    SheetLines <- Lines
    SheetTotals <- Totals
    Recorded <- CompanyTotals
    ImportEdits = 1
    MaxStops = 1
INVARIANTS ReportsTie BooksTie PayoutCoversMonth
PROPERTIES RemovedStaysRemoved DueChargesArrive
CHECK_DEADLOCK FALSE
