----------------------------- MODULE LedgerRuns -----------------------------
(***************************************************************************)
(* The passes that write to the ledger by themselves, one statement after  *)
(* the other, beside the staff: the generator of recurring charges and     *)
(* payout drafts, which a ticker starts and staff start too, and the two   *)
(* operator commands that bring in the years before: importexpenses, which *)
(* books the lines of a reconciled sheet, and incometopup, which books     *)
(* what the company's own monthly totals hold beyond the tables. Any of    *)
(* them may stop at any statement; references make running again safe.     *)
(***************************************************************************)
EXTENDS LedgerReports

CONSTANTS
    SheetLines,  \* of the bundled spreadsheet: [tab, line, day, amount]
    SheetTotals, \* what the sheet itself states for each tab, in its two places
    Recorded,    \* month -> the income the company recorded
    ImportEdits, \* bounds what staff do beside importexpenses
    MaxStops     \* bounds statements that fail and processes that die

\* parseAmount rejects what is not positive.
ASSUME LedgerRunsAssumption ==
    /\ SheetLines \subseteq [tab: Nat, line: Nat, day: Days, amount: Nat \ {0}]
    /\ DOMAIN Recorded \subseteq Nat /\ Recorded \in [DOMAIN Recorded -> Nat]
    /\ ImportEdits \in Nat /\ MaxStops \in Nat

VARIABLES
    gen,    \* per generator, "cron" and "page": its pass
    imp,    \* importexpenses
    topup,  \* incometopup
    beside, \* what runs beside the staff, see Beside
    stops

Generators == {"cron", "page"}

ledgerVars == <<day, tables, edits, gen, imp, topup, beside, stops>>

\* The passes of the server and the two commands read nothing the others write
\* and write under references of their own, so a behaviour has one of the three
\* beside the staff.
Beside == {"server", "importexpenses", "incometopup"}

IdleRun == [pc |-> "idle", month |-> 0, now |-> 0, last |-> TRUE, todo |-> {}]

\* A command holds what it still has to write, nothing while it does not run.
Idle == {}

RunsInit ==
    /\ gen = [g \in Generators |-> IdleRun]
    /\ imp = Idle /\ topup = Idle
    /\ beside \in Beside
    /\ stops = 0

TypeOK ==
    /\ LedgerTypeOK
    /\ \A g \in Generators :
          /\ gen[g].pc \in {"idle", "charges", "payouts"}
          /\ \A p \in gen[g].todo : p.amount > 0 /\ p.day <= gen[g].now
    /\ imp \subseteq SheetLines /\ \A t \in topup : t.amount > 0
    /\ beside \in Beside
    /\ stops \in 0 .. MaxStops

-----------------------------------------------------------------------------
(* Planning, over what a statement read. *)

DueDate(r, month) == StartOfMonth(month) + r.dom - 1

Due(r, month, now) ==
    /\ r.active
    /\ DueDate(r, month) >= r.from
    /\ DueDate(r, month) <= r.to
    /\ DueDate(r, month) <= now

ActiveRules == {k \in DOMAIN rules : rules[k].active}

PlanRecurring(month, now) ==
    {Expense(DueDate(rules[i], month), rules[i].amount, rules[i].cat,
             IF rules[i].auto THEN "posted" ELSE "draft",
             RecurringRef(i, month), i, 0) :
        i \in {k \in ActiveRules : Due(rules[k], month, now)}}

\* Mutant: a month is paid out while it lasts.
Begun(month, now) == StartOfMonth(month) <= now

Ended(month, now) == EndOfMonth(month) < now

PlanAdvocatePayouts(collections, month, now) ==
    IF ~Ended(month, now) THEN {}
    ELSE {Expense(EndOfMonth(month), RoundedPercent(c.collected, c.percent), "advocates",
                  "draft", AdvocatePayoutRef(c.advocate, month), 0, c.collected) :
             c \in {k \in collections : RoundedPercent(k.collected, k.percent) > 0}}

\* Mutant: the insert without its conflict clause.
AlwaysInserted(e) == InsertExpense(e)

\* A row whose reference is taken is skipped, that is no error.
InsertGenerated(e) ==
    IF RefTaken(rows, e.ref) THEN UNCHANGED <<rows, ids>> ELSE InsertExpense(e)

-----------------------------------------------------------------------------
(* RunAutoExpenses, from the ticker and from the page.                     *)

RestUnchanged == UNCHANGED <<day, cats, rules, income, cases, payments, consults, rates, edits,
                             imp, topup>>

NoRows == UNCHANGED <<rows, ids>>

\* The clock and the rules are read one right after the other.
Pass(month, last) ==
    [pc |-> "charges", month |-> month, now |-> day, last |-> last,
     todo |-> PlanRecurring(month, day)]

\* The ticker's pass over the current month, which the previous one follows.
StartCron ==
    /\ gen["cron"].pc = "idle"
    /\ gen' = [gen EXCEPT !["cron"] = Pass(MonthOf(day), FALSE)]
    /\ NoRows /\ RestUnchanged /\ UNCHANGED stops

\* Staff may ask for any month, the current one if they name none.
StartPage ==
    /\ StaffStep
    /\ gen["page"].pc = "idle"
    /\ \E m \in 1 .. MonthOf(LastDay) : gen' = [gen EXCEPT !["page"] = Pass(m, TRUE)]
    /\ NoRows /\ UNCHANGED <<cats, rules, income, cases, payments, consults, rates, imp, topup, stops>>

Insert(g) ==
    /\ gen[g].pc \in {"charges", "payouts"}
    /\ \E e \in gen[g].todo :
          InsertGenerated(e) /\ gen' = [gen EXCEPT ![g].todo = @ \ {e}]
    /\ RestUnchanged /\ UNCHANGED stops

\* The rule of a planned charge was deleted since it was listed: the foreign key
\* refuses the row, and the whole pass with it.
Refused(g) ==
    /\ gen[g].pc = "charges"
    /\ \E e \in gen[g].todo : ~Storable(e) /\ ~RefTaken(rows, e.ref)
    /\ gen' = [gen EXCEPT ![g] = IdleRun]
    /\ NoRows /\ RestUnchanged /\ UNCHANGED stops

\* The charges are in: the collections are read, and the payouts planned.
Collect(g) ==
    /\ gen[g].pc = "charges" /\ gen[g].todo = {}
    /\ LET m == gen[g].month
           c == AdvocateCollections(StartOfMonth(m), EndOfMonth(m))
       IN  gen' = [gen EXCEPT ![g].pc = "payouts",
                              ![g].todo = PlanAdvocatePayouts(c, m, gen[g].now)]
    /\ NoRows /\ RestUnchanged /\ UNCHANGED stops

\* Mutant: the month that ended is nobody's.
CurrentOnly(g) == IdleRun

\* GenerateDueExpenses goes on to the month before.
AfterPass(g) ==
    IF gen[g].last THEN IdleRun ELSE Pass(MonthOf(gen[g].now) - 1, TRUE)

PayoutsDone(g) ==
    /\ gen[g].pc = "payouts" /\ gen[g].todo = {}
    /\ gen' = [gen EXCEPT ![g] = AfterPass(g)]
    /\ NoRows /\ RestUnchanged /\ UNCHANGED stops

\* A statement fails: the pass ends there, the ticker's other month with it.
Fail(g) ==
    /\ gen[g].pc # "idle" /\ stops < MaxStops
    /\ gen' = [gen EXCEPT ![g] = IdleRun]
    /\ stops' = stops + 1
    /\ NoRows /\ RestUnchanged

-----------------------------------------------------------------------------
(* The operator's commands.                                                *)

OthersUnchanged == UNCHANGED <<day, cats, rules, cases, payments, consults, rates, edits, gen>>

Tabs == {l.tab : l \in SheetLines}

Parsed(tab) == Total(LAMBDA l : l.amount, {l \in SheetLines : l.tab = tab})

\* Reconcile: the months whose lines add up to neither of the sheet's own totals.
Failed == {t \in Tabs : Parsed(t) \notin SheetTotals[t]}

\* importexpenses --commit stops before it writes if a month fails, unless forced.
StartImport(force) ==
    /\ imp = Idle
    /\ Failed # {} => force
    /\ imp' = {l \in SheetLines : force \/ l.tab \notin Failed}
    /\ NoRows /\ OthersUnchanged /\ UNCHANGED <<income, topup, stops>>

SheetRow(l) == Expense(l.day, l.amount, "rent", "posted", ImportRef(l.tab, l.line), 0, 0)

BookLine ==
    /\ \E l \in imp : InsertGenerated(SheetRow(l)) /\ imp' = imp \ {l}
    /\ OthersUnchanged /\ UNCHANGED <<income, topup, stops>>

CrmTotal(m) == LET f == FactsOf(m) IN f.consult + f.cases + f.other

\* Only ever money the tables are missing; a month they hold more of is reported.
PlanIncomeTopUps ==
    {[month |-> m, amount |-> Recorded[m] - CrmTotal(m)] :
        m \in {k \in DOMAIN Recorded : Recorded[k] > CrmTotal(k)}}

StartTopUp ==
    /\ topup = Idle
    /\ topup' = PlanIncomeTopUps
    /\ NoRows /\ OthersUnchanged /\ UNCHANGED <<income, imp, stops>>

TopUpRow(t) == Income(EndOfMonth(t.month), t.amount, IncomeTopUpRef(t.month))

\* Mutant: booked again by the next run.
AlwaysBooked(e) == InsertIncome(e)

InsertOtherIncomeGenerated(e) ==
    IF RefTaken(income, e.ref) THEN UNCHANGED <<income, ids>>
    ELSE InsertIncome(e)

BookTopUp ==
    /\ \E t \in topup : InsertOtherIncomeGenerated(TopUpRow(t)) /\ topup' = topup \ {t}
    /\ OthersUnchanged /\ UNCHANGED <<rows, imp, stops>>

\* A command dies between two rows; what it wrote stays.
CommandDies ==
    /\ stops < MaxStops /\ stops' = stops + 1
    /\ \/ imp # Idle /\ imp' = Idle /\ UNCHANGED topup
       \/ topup # Idle /\ topup' = Idle /\ UNCHANGED imp
    /\ NoRows /\ OthersUnchanged /\ UNCHANGED income

-----------------------------------------------------------------------------
Tick ==
    /\ day < LastDay
    /\ day' = day + 1
    /\ UNCHANGED <<tables, edits, gen, imp, topup, stops>>

PassStep(g) ==
    Insert(g) \/ Refused(g) \/ Collect(g) \/ PayoutsDone(g)

Cron == StartCron \/ PassStep("cron")

ImportExpenses == (\E force \in BOOLEAN : StartImport(force)) \/ BookLine

IncomeTopUp == StartTopUp \/ BookTopUp

Server == StartPage \/ Cron \/ PassStep("page") \/ \E g \in Generators : Fail(g)

LedgerNext ==
    /\ \/ Tick
       \/ /\ beside = "importexpenses" => edits < ImportEdits
          /\ Staff /\ UNCHANGED <<gen, imp, topup, stops>>
       \/ beside = "server" /\ Server
       \/ beside = "importexpenses" /\ ImportExpenses
       \/ beside = "incometopup" /\ IncomeTopUp
       \/ CommandDies
    /\ UNCHANGED beside

LedgerInit == Init /\ RunsInit

\* The ticker's loop calls the pass again and again (root/cron.go).
Spec == LedgerInit /\ [][LedgerNext]_ledgerVars /\ WF_ledgerVars(beside = "server" /\ Cron /\ UNCHANGED beside)

-----------------------------------------------------------------------------
(* Properties. *)

\* The pages agree with the ledger and with one another, whatever was posted,
\* edited, removed, back-dated or switched off before (Report, ListExpenses,
\* Settlement).
ReportsTie == RunningTotal /\ NothingLeftOut /\ ListsTie /\ SettlementTies

ToppedUp(m) == {i \in DOMAIN income : income[i].ref = IncomeTopUpRef(m)}

TopUpsBounded ==
    \A m \in DOMAIN Recorded :
        Cardinality(ToppedUp(m)) <= 1
        /\ Total(IncomeAmount, ToppedUp(m)) <= Recorded[m]

\* The tables are well formed and agree with one another: no consultation's money
\* is lost sight of (DataGaps), a case's total is its payments (AddPayment), a
\* company's month is topped up once and at most to what was recorded (incometopup).
BooksTie == TypeOK /\ ConsultMoneyExplained /\ CaseBooksTie /\ TopUpsBounded

\* A reference is for life: a charge a pass or a command wrote is never written a
\* second time, by an overlapping pass, a repeated command or the pass after staff
\* removed it, and what staff removed never comes back (DeleteExpense voids it,
\* InsertGenerated skips it).
RemovedStaysRemoved ==
    [][\A i \in DOMAIN rows : rows[i].ref # NoRef =>
          /\ i \in DOMAIN rows' /\ rows'[i].ref = rows[i].ref
          /\ rows[i].status = "void" => rows'[i].status = "void"
          /\ \A j \in DOMAIN rows' : rows'[j].ref = rows[i].ref => j = i]_ledgerVars

\* The payments of a month an advocate's cases took, by when they were recorded.
TakenIn(a, m, by) ==
    Total(AmountOf, {p \in CollectedBy(a, StartOfMonth(m), EndOfMonth(m)) : p.made <= by})

\* A payout names what was collected in the whole month: every payment recorded
\* before the month was over is in it, at the earliest look and at the latest, and
\* none is counted that is not of that month (PlanAdvocatePayouts waits for the end).
PayoutCoversMonth ==
    \A i \in DOMAIN rows : Attributed(i) /\ rows[i].base # 0 =>
        LET a == rows[i].ref[2]
            m == rows[i].ref[3]
        IN  rows[i].base \in TakenIn(a, m, EndOfMonth(m)) .. TakenIn(a, m, LastDay)

Charged(ref) == RefTaken(rows, ref)

AllDueCharged ==
    \A m \in {MonthOf(day) - 1, MonthOf(day)} :
        /\ \A r \in DOMAIN rules : Due(rules[r], m, day) => Charged(RecurringRef(r, m))
        /\ \A c \in AdvocateCollections(StartOfMonth(m), EndOfMonth(m)) :
              Ended(m, day) /\ RoundedPercent(c.collected, c.percent) > 0
                  => Charged(AdvocatePayoutRef(c.advocate, m))

\* Whatever overlapped, failed or was cut short, once staff and days stand still
\* the ticker brings every charge that came due in this month or the last, and
\* every payout of the last, into the ledger (GenerateDueExpenses).
DueChargesArrive == beside = "server" => <>[]AllDueCharged

-----------------------------------------------------------------------------
(* The inductive invariant behind RemovedStaysRemoved, BooksTie and        *)
(* PayoutCoversMonth.                                                      *)

Refs == {NoRef} \cup ({"rule"} \X Nat \X Int) \cup ({"advocate"} \X Advocates \X Int)
        \cup ({"sheet"} \X Nat \X Nat)

Codes == {"advocates", "ads", "rent", "tools"}

ExpenseRow == [day: Int, amount: Nat \ {0}, cat: Codes, status: Statuses, ref: Refs,
               rule: Nat, base: Nat]

RuleRow == [from: Int, to: Int, dom: 1 .. DaysPerMonth, amount: Nat \ {0}, auto: BOOLEAN,
            cat: Codes, active: BOOLEAN]

IncomeRow == [day: Int, amount: Nat \ {0}, ref: {NoRef} \cup ({"topup"} \X Nat)]

CaseRow == [client: Clients, advocate: Advocates \cup {None}, name: Advocates, fee: Nat,
            paid: Nat, status: {"in_progress", "completed"}, consult: Nat]

PaymentRow == [id: Nat, case: Nat, amount: Nat \ {0}, paidAt: Days, made: Days]

ConsultRow == [client: Clients, day: Days, price: Nat \ {0},
               status: {"scheduled", "completed", "cancelled", "no_show"},
               paid: {"unasked", "yes", "no"}, paidAt: 0 .. LastDay]

RunRecord == [pc: {"idle", "charges", "payouts"}, month: Int, now: 0 .. LastDay, last: BOOLEAN,
              todo: SUBSET ExpenseRow]

\* A reference stands in one row.
RefsUnique(table) ==
    \A i, j \in DOMAIN table : table[i].ref # NoRef /\ table[i].ref = table[j].ref => i = j

TableOK(table, n, Row) ==
    table \in [DOMAIN table -> Row] /\ DOMAIN table \subseteq 1 .. n /\ RefsUnique(table)

ScalarsOK ==
    /\ day \in Days /\ ids \in Nat /\ edits \in 0 .. MaxEdits
    /\ cats \in [DOMAIN cats -> [kind: Kinds, active: BOOLEAN]] /\ DOMAIN cats \subseteq Codes
    /\ rates \in [Advocates -> 0 .. 100]

RowsOK == TableOK(rows, ids, ExpenseRow) /\ \A i \in DOMAIN rows : rows[i].cat \in DOMAIN cats

RulesOK ==
    /\ rules \in [DOMAIN rules -> RuleRow] /\ DOMAIN rules \subseteq 1 .. ids
    /\ \A i \in DOMAIN rules : rules[i].cat \in DOMAIN cats

\* A month that was topped up was topped up to what was recorded at most.
IncomeOK ==
    /\ TableOK(income, ids, IncomeRow)
    /\ \A i \in DOMAIN income, m \in DOMAIN Recorded :
          income[i].ref = IncomeTopUpRef(m) => income[i].amount <= Recorded[m]

RecordsOK ==
    /\ cases \in [DOMAIN cases -> CaseRow] /\ DOMAIN cases \subseteq 0 .. ids
    /\ consults \in [DOMAIN consults -> ConsultRow] /\ DOMAIN consults \subseteq 1 .. ids
    /\ payments \subseteq PaymentRow /\ IsFiniteSet(payments)
    /\ \A p \in payments : p.id <= ids /\ p.case \in DOMAIN cases

\* What a pass or a command has still to write is written under a reference, and
\* its clock was read before.
PassOK(r) == r.now <= day /\ \A e \in r.todo : e.ref # NoRef /\ e.day <= r.now

RunsOK ==
    /\ gen \in [Generators -> RunRecord]
    /\ \A g \in Generators : PassOK(gen[g])
    /\ imp \subseteq SheetLines
    /\ topup \subseteq [month: DOMAIN Recorded, amount: Nat \ {0}]
    /\ \A t \in topup : t.amount <= Recorded[t.month]
    /\ beside \in Beside /\ stops \in 0 .. MaxStops

PaidIsLedger ==
    \A c \in DOMAIN cases : cases[c].paid = Total(AmountOf, {p \in payments : p.case = c})

\* The month of a payout was over when its payments were added up, so what has
\* been recorded since is no longer of the earliest look.
CoversMonth(e) ==
    e.ref # NoRef /\ e.ref[1] = "advocate" /\ e.base # 0 =>
        LET a == e.ref[2]
            m == e.ref[3]
        IN  /\ EndOfMonth(m) < day
            /\ e.base \in TakenIn(a, m, EndOfMonth(m)) .. TakenIn(a, m, LastDay)

\* The rows there are, and those a pass has still to write.
Noted == {rows[i] : i \in DOMAIN rows} \cup UNION {gen[g].todo : g \in Generators}

PayoutsCover == \A e \in Noted : CoversMonth(e)

LedgerInv ==
    /\ ScalarsOK /\ RowsOK /\ RulesOK /\ IncomeOK /\ RecordsOK /\ RunsOK
    /\ PaidIsLedger /\ PayoutsCover
=============================================================================
