SPECIFICATION Spec
CONSTANTS
    phoneA = phoneA
    phoneB = phoneB
    asked = asked
    Phones = {phoneA, phoneB}
    NoPhone = NoPhone
    LastDay = 2
    Price = 300
    Fee = 400
    Labels = {"VIP", "debtor"}
    Seeded = {"VIP"}
    MaxEdits = 2
    Mails = {1, 2}
    Requests = {asked}
    IdOfLead <- MailIds
    PhoneOf <- MailPhones
    Areas = {"debts"}
    Poller = "poller"
    MaxFaults = 1
    Tabs55k <- Tabs
    CaseTabs <- CaseVersions
    NoDate = NoDate
    Sessions <- Visits
    Ranges <- MCRanges
INVARIANTS ReferencesHold LeadsAccounted ImportsSafe StatsTie
PROPERTIES EveryMailArrives
CHECK_DEADLOCK FALSE
