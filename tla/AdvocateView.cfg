SPECIFICATION ViewSpec
CONSTANTS
    ann = ann
    bea = bea
    cli = cli
    dan = dan
    boss = boss
    owner = owner
    fst = fst
    snd = snd
    Advocates = {ann, bea}
    Clients = {cli, dan}
    DaysPerMonth = 1
    LastDay = 2
    Fee = 400
    Price = 100
    Amounts = {50}
    Percents = {20}
    StartPercent = 35
    Froms = {1}
    Picked = {"advocates"}
    MaxEdits = 2
    FirstLead <- Leads
    Logins = {boss, owner}
    Keys = {k}
    Chats = {x}
    Requests = {fst, snd}
    Meanwhile = 0
SYMMETRY Alike
INVARIANTS IdentityOK ViewTies
PROPERTIES WritesOnlyOwn
CHECK_DEADLOCK FALSE
