--------------------------- MODULE LedgerReports ---------------------------
(***************************************************************************)
(* What the finance pages read out of the ledger's tables: the monthly     *)
(* report with its running total, the advocates' settlement, the money the *)
(* report cannot account for, and the span of the data. Every read is an   *)
(* operator over one state; the code reads the tables in several           *)
(* statements, so what holds here holds of a page no write falls into.     *)
(***************************************************************************)
EXTENDS Ledger, Sequences, Functions

CONSTANT FirstLead  \* the day of each client's first lead

ASSUME FirstLeadAssumption == FirstLead \in [Clients -> Days]

Total(value(_), S) == SumFunction([x \in S |-> value(x)])

-----------------------------------------------------------------------------
(* MonthlyFacts. *)

\* Revenue counts on the day the money came, the consultation's own if unknown.
ConsultDay(c) == IF c.paidAt # 0 THEN c.paidAt ELSE c.day

\* Mutant: held is earned, whatever the answer about the money.
Held == {i \in DOMAIN consults : consults[i].price > 0 /\ consults[i].status = "completed"}

Earned == {i \in Held : consults[i].paid # "no"}

PriceOf(i) == consults[i].price

AmountOf(p) == p.amount

RowAmount(i) == rows[i].amount

IncomeAmount(i) == income[i].amount

Posted == {i \in DOMAIN rows : rows[i].status = "posted"}

SpentOn(cat, m) == {i \in Posted : rows[i].cat = cat /\ MonthOf(rows[i].day) = m}

\* Everything a client has ever paid, as the query has it.
Lifetime(c) ==
    Total(PriceOf, {i \in Held : consults[i].client = c})
    + Total(AmountOf, {p \in payments : cases[p.case].client = c})

Arrived(m) == {c \in Clients : MonthOf(FirstLead[c]) = m}

\* Those with a consultation held or a payment made in the month.
Paying(m) ==
    {consults[i].client : i \in {k \in Held : MonthOf(consults[k].day) = m}}
    \cup {cases[p.case].client : p \in {q \in payments : MonthOf(q.paidAt) = m}}

\* What a month took, who came in it and what they were worth since, and what it
\* spent, by category.
FactsOf(m) ==
    [consult |-> Total(PriceOf, {i \in Earned : MonthOf(ConsultDay(consults[i])) = m}),
     cases   |-> Total(AmountOf, {p \in payments : MonthOf(p.paidAt) = m}),
     other   |-> Total(IncomeAmount, {i \in DOMAIN income : MonthOf(income[i].day) = m}),
     arrived |-> Arrived(m),
     cohort  |-> Total(Lifetime, Arrived(m)),
     paying  |-> Paying(m),
     byCat   |-> [c \in DOMAIN cats |-> Total(RowAmount, SpentOn(c, m))]]

\* Whole months, whatever days the window begins and ends on.
MonthlyFacts(from, to) ==
    [k \in 1 .. MonthOf(to) - MonthOf(from) + 1 |-> FactsOf(MonthOf(from) + k - 1)]

\* Everything strictly before a day, by the same definitions.
BalanceBefore(d) ==
    Total(PriceOf, {i \in Earned : ConsultDay(consults[i]) < d})
    + Total(AmountOf, {p \in payments : p.paidAt < d})
    + Total(IncomeAmount, {i \in DOMAIN income : income[i].day < d})
    - Total(RowAmount, {i \in Posted : rows[i].day < d})

\* What clients still owe on their cases.
Owed(c) == IF cases[c].fee > cases[c].paid THEN cases[c].fee - cases[c].paid ELSE 0

Receivable == Total(Owed, {c \in DOMAIN cases : cases[c].status # "cancelled"})

-----------------------------------------------------------------------------
(* BuildReport. *)

ByKind(byCat, kindOf, kind) ==
    Total(LAMBDA c : byCat[c], {c \in DOMAIN byCat : c \in DOMAIN kindOf /\ kindOf[c] = kind})

SpentIn(f) == Total(LAMBDA c : f.byCat[c], DOMAIN f.byCat)

Earnings(f) == f.consult + f.cases + f.other

Balance(f) == Earnings(f) - SpentIn(f)

\* What the loop has in a variable that begins with start, after each of the months.
Carried(start, terms) ==
    LET after[k \in 0 .. Len(terms)] == IF k = 0 THEN start ELSE after[k - 1] + terms[k]
    IN  after

OfMonths(facts, value(_)) == [k \in 1 .. Len(facts) |-> value(facts[k])]

\* The running total after each month, and the column of totals. Figures past the
\* balance (CAC, margins, growth) are ratios of these sums.
BuildReport(facts, kindOf, opening) ==
    LET total(terms) == Carried(0, terms)[Len(facts)]
        spent == total(OfMonths(facts, SpentIn))
    IN  [running |-> Carried(opening, OfMonths(facts, Balance)),
         byKind  |-> [kind \in Kinds |-> total(OfMonths(facts, LAMBDA f : ByKind(f.byCat, kindOf, kind)))],
         expense |-> spent,
         balance |-> total(OfMonths(facts, Earnings)) - spent]

(* The service's reads and the pages made of them; a page refuses a window *)
(* that ends before it begins.                                             *)

KindsOf(codes) == [c \in codes |-> cats[c].kind]

\* Mutant: the list the forms offer, without what was switched off.
ActiveCategories == {c \in DOMAIN cats : cats[c].active}

ReportCategories == DOMAIN cats

\* Mutant: the opening balance is cut on the day asked for.
AsAsked(from) == from

ReportStart(from) == StartOfMonth(MonthOf(from))

Report(from, to) ==
    BuildReport(MonthlyFacts(from, to), KindsOf(ReportCategories), BalanceBefore(ReportStart(from)))

Refusal == [error |-> "to is before from"]

ReportPage(from, to) ==
    IF to < from THEN Refusal
    ELSE [report |-> Report(from, to), receivable |-> Receivable]

\* Mutant: the sum of everything listed.
AllListed(list) == list

\* Drafts and voided rows are listed and not summed.
Summed(list) == list \cap Posted

FilteredExpenses(from, to, cat) ==
    {i \in DOMAIN rows : rows[i].day \in from .. to /\ rows[i].cat = cat}

ListExpenses(from, to, cat) ==
    LET list == FilteredExpenses(from, to, cat)
    IN  [items |-> list, sum |-> Total(RowAmount, Summed(list))]

IncomeWithin(from, to) == {i \in DOMAIN income : income[i].day \in from .. to}

ListOtherIncome(from, to) == Total(IncomeAmount, IncomeWithin(from, to))

-----------------------------------------------------------------------------
(* The advocates. *)

\* The link if there is one, else the advocate of that very name.
AdvocateOf(c) ==
    IF cases[c].advocate # None THEN cases[c].advocate
    ELSE IF cases[c].name \in Advocates THEN cases[c].name ELSE None

CollectedBy(a, from, to) ==
    {p \in payments : AdvocateOf(p.case) = a /\ p.paidAt \in from .. to}

AdvocateCollections(from, to) ==
    {[advocate |-> a, collected |-> Total(AmountOf, CollectedBy(a, from, to)),
      percent |-> rates[a]] : a \in {b \in Advocates : CollectedBy(b, from, to) # {}}}

PeopleRows(from, to) == {i \in Posted : rows[i].cat = "advocates" /\ rows[i].day \in from .. to}

Attributed(i) == rows[i].ref # NoRef /\ rows[i].ref[1] = "advocate"

PaidTo(a, from, to) ==
    Total(RowAmount, {i \in PeopleRows(from, to) : Attributed(i) /\ rows[i].ref[2] = a})

UnattributedPaid(from, to) ==
    Total(RowAmount, {i \in PeopleRows(from, to) : ~Attributed(i)})

AdvocateSettlement(c, paid) ==
    LET accrued == RoundedPercent(c.collected, c.percent)
    IN  [advocate |-> c.advocate, accrued |-> accrued, paid |-> paid, outstanding |-> accrued - paid]

\* Mutant: only those whose cases collected something.
NobodyElse(from, to) == {}

\* Paid in the window, though their cases collected nothing in it.
PaidOnly(from, to) ==
    {a \in Advocates : CollectedBy(a, from, to) = {} /\ PaidTo(a, from, to) # 0}

SettlementRows(from, to) ==
    {AdvocateSettlement(c, PaidTo(c.advocate, from, to)) : c \in AdvocateCollections(from, to)}
    \cup {[advocate |-> a, accrued |-> 0, paid |-> PaidTo(a, from, to),
           outstanding |-> -PaidTo(a, from, to)] : a \in PaidOnly(from, to)}

Settlement(from, to) ==
    IF to < from THEN Refusal
    ELSE [advocates |-> SettlementRows(from, to), unattributed |-> UnattributedPaid(from, to)]

-----------------------------------------------------------------------------
(* DataGaps, the part about consultations, and DataRange.                  *)

Within(from, to) == {i \in DOMAIN consults : consults[i].price > 0 /\ consults[i].day \in from .. to}

BehindACase(i) == \E c \in DOMAIN cases : cases[c].consult = i

\* Agreed and then dropped: by status, if no case stands behind it.
Dropped(status, from, to) ==
    {i \in Within(from, to) : consults[i].status = status /\ ~BehindACase(i)}

UnpaidCompleted(from, to) ==
    {i \in Within(from, to) : consults[i].status = "completed" /\ consults[i].paid = "no"}

GapsPage(from, to) ==
    IF to < from THEN Refusal
    ELSE [unresolved |-> Dropped("scheduled", from, to), cancelled |-> Dropped("cancelled", from, to),
          noShow |-> Dropped("no_show", from, to), unpaid |-> UnpaidCompleted(from, to)]

MoneyDays ==
    {rows[i].day : i \in Posted} \cup {ConsultDay(consults[i]) : i \in Earned}
    \cup {p.paidAt : p \in payments} \cup {income[i].day : i \in DOMAIN income}

\* The months the page offers; none before the first money.
Period ==
    IF MoneyDays = {} THEN <<>> ELSE <<MonthOf(Min(MoneyDays)), MonthOf(Max(MoneyDays))>>

-----------------------------------------------------------------------------
(* Properties of what is read. *)

\* The running total of a report that starts in the middle of the history is
\* the balance of everything up to its end: no row is in both the opening
\* balance and a month, and none is in neither (Report cuts the opening at the
\* month MonthlyFacts starts with).
RunningTotal ==
    \A from \in Days :
        LET r == ReportPage(from, LastDay).report.running
        IN  \A k \in DOMAIN r : r[k] = BalanceBefore(StartOfMonth(MonthOf(from) + k))

\* What was spent is the sum of what was spent on each kind, in the total too,
\* with a category since switched off (Report lists them all), and a report over
\* the page's own period leaves no money out.
NothingLeftOut ==
    Period # <<>> =>
        LET r == Report(StartOfMonth(Period[1]), EndOfMonth(Period[2]))
        IN  /\ Total(LAMBDA k : r.byKind[k], Kinds) = r.expense
            /\ r.running[Period[2] - Period[1] + 1] = r.balance

\* The lists of a month sum to what the report has for it, category by category:
\* neither counts what nobody confirmed or what was removed (ListExpenses' Sum,
\* MonthlyFacts' second query).
ListsTie ==
    \A m \in {MonthOf(d) : d \in Days} :
        LET f == FactsOf(m)
        IN  /\ \A c \in DOMAIN cats :
                  ListExpenses(StartOfMonth(m), EndOfMonth(m), c).sum = f.byCat[c]
            /\ ListOtherIncome(StartOfMonth(m), EndOfMonth(m)) = f.other

\* What the settlement says was paid out is what the ledger has under that
\* category: an advocate whose cases collected nothing appears all the same
\* (Settlement's second loop).
SettlementTies ==
    \A from, to \in Days :
        LET s == Settlement(from, to)
        IN  s # Refusal =>
              Total(LAMBDA a : a.paid, s.advocates) + s.unattributed
                  = Total(RowAmount, PeopleRows(from, to))

\* A priced consultation is earned, or one of the gaps says why it is not, or a
\* case stands behind it; never two of these, whatever statuses staff tapped over
\* one another (handleStatusCallback, MonthlyFacts and DataGaps).
ConsultMoneyExplained ==
    LET g == GapsPage(1, LastDay)
        gaps == <<g.unresolved, g.cancelled, g.noShow, g.unpaid>>
    IN  \A i \in Within(1, LastDay) :
          /\ i \in Earned => \A k \in 1 .. 4 : i \notin gaps[k]
          /\ i \notin Earned => BehindACase(i) \/ \E k \in 1 .. 4 : i \in gaps[k]
          /\ \A k, l \in 1 .. 4 : i \in gaps[k] /\ i \in gaps[l] => k = l

\* The running total of a case is what its payments add up to, so what clients
\* owe (Receivable) and what they paid (MonthlyFacts) come to the fees agreed, an
\* overpaid case apart (AddPayment's transaction).
CaseBooksTie ==
    /\ \A c \in DOMAIN cases :
          cases[c].paid = Total(AmountOf, {p \in payments : p.case = c})
    /\ (\A c \in DOMAIN cases : cases[c].paid <= cases[c].fee) =>
          ReportPage(1, LastDay).receivable + Total(AmountOf, payments) = Total(LAMBDA c : cases[c].fee, DOMAIN cases)
=============================================================================
