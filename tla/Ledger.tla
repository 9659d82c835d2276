------------------------------- MODULE Ledger -------------------------------
(***************************************************************************)
(* The money the firm keeps books of: expenses with their categories and   *)
(* recurring rules, other income, cases with the payments made on them,    *)
(* consultations, the advocates' percentages, and what the finance pages   *)
(* read out of them (application/finance, domain/finance, domain/cases).   *)
(* A day is a number, a month DaysPerMonth of them, an amount a number of  *)
(* kopiykas. LedgerRuns adds the passes that write charges by themselves.  *)
(***************************************************************************)
EXTENDS Integers, FiniteSets, FiniteSetsExt

CONSTANTS
    Advocates, Clients,
    DaysPerMonth, LastDay,  \* the days the model lives through
    Fee, Price,             \* of a case, of a consultation
    Amounts, Percents,      \* what staff type
    Froms,                  \* the days a rule is said to hold from
    Picked,                 \* the categories they pick from the list
    StartPercent,           \* the advocates' share as the books begin
    MaxEdits                \* bounds what staff do

None == "none"

Days == 1 .. LastDay

Kinds == {"marketing", "direct", "payroll", "development", "infra", "admin"}

ASSUME LedgerAssumption ==
    /\ DaysPerMonth \in Nat \ {0} /\ LastDay \in Nat \ {0}
    /\ Fee \in Nat /\ Price \in Nat \ {0}
    /\ Amounts \subseteq Int /\ Percents \subseteq Int /\ StartPercent \in 0 .. 100
    /\ Froms \subseteq Days /\ Picked \subseteq {"advocates", "ads", "rent"}
    /\ IsFiniteSet(Advocates) /\ None \notin Advocates /\ MaxEdits \in Nat

VARIABLES
    day,
    cats,      \* expense_categories: code -> [kind, active]
    rows,      \* expenses: id -> a row
    rules,     \* expense_rules: id -> a rule
    income,    \* other_income: id -> [day, amount, ref]
    cases,     \* cases: id -> [client, advocate, name, fee, paid, status]
    payments,  \* case_payments: a set of [id, case, amount, paidAt, made]
    consults,  \* consultations: id -> a record
    rates,     \* advocates.commission_percent
    ids,       \* the ids given out so far
    edits      \* what staff have done, at most MaxEdits

tables == <<cats, rows, rules, income, cases, payments, consults, rates, ids>>

-----------------------------------------------------------------------------
(* The calendar. *)

MonthOf(d) == (d - 1) \div DaysPerMonth + 1

StartOfMonth(m) == (m - 1) * DaysPerMonth + 1

EndOfMonth(m) == m * DaysPerMonth

\* roundMoney of x / 100: half away from zero, and no amount is negative here.
RoundedPercent(amount, percent) == (2 * amount * percent + 100) \div 200

-----------------------------------------------------------------------------
(* Rows. A reference names what a row was written for; the column is       *)
(* NULL, which is <<>> here, for a row a person typed.                     *)

NoRef == <<>>

RecurringRef(rule, month) == <<"rule", rule, month>>

AdvocatePayoutRef(advocate, month) == <<"advocate", advocate, month>>

ImportRef(tab, line) == <<"sheet", tab, line>>

IncomeTopUpRef(month) == <<"topup", month>>

Statuses == {"draft", "posted", "void"}

\* base: the collected sum a payout's description names, 0 for other texts;
\* rule: the rule of a charge, 0 once it is gone and for other rows.
Expense(d, amount, cat, status, ref, rule, base) ==
    [day |-> d, amount |-> amount, cat |-> cat, status |-> status,
     ref |-> ref, rule |-> rule, base |-> base]

Put(table, key, value) ==
    [k \in DOMAIN table \cup {key} |-> IF k = key THEN value ELSE table[k]]

Drop(table, key) == [k \in DOMAIN table \ {key} |-> table[k]]

RefTaken(table, ref) == ref # NoRef /\ \E i \in DOMAIN table : table[i].ref = ref

\* expenses.category_code and rule_id are foreign keys.
Storable(e) ==
    /\ e.cat \in DOMAIN cats
    /\ e.rule # 0 => e.rule \in DOMAIN rules

-----------------------------------------------------------------------------
LedgerTypeOK ==
    /\ day \in Days
    /\ \A c \in DOMAIN cats : cats[c].kind \in Kinds /\ cats[c].active \in BOOLEAN
    /\ DOMAIN rows \subseteq 1 .. ids
    /\ \A i \in DOMAIN rows :
          rows[i].status \in Statuses /\ rows[i].amount > 0 /\ rows[i].cat \in DOMAIN cats
    /\ DOMAIN rules \subseteq 1 .. ids /\ DOMAIN income \subseteq 1 .. ids
    /\ \A i \in DOMAIN rules : rules[i].amount > 0 /\ rules[i].cat \in DOMAIN cats
    /\ \A i \in DOMAIN income : income[i].amount > 0
    /\ \A p \in payments : p.case \in DOMAIN cases
    /\ rates \in [Advocates -> 0 .. 100]
    /\ ids \in Nat /\ edits \in 0 .. MaxEdits

NoTable == [k \in {} |-> k]

\* A firm at work: one category of each kind, one open case of the
\* time when a case had an advocate's name and no link, no books yet.
Init ==
    /\ day = 1
    /\ cats = [c \in {"advocates", "ads", "rent"} |->
                  [kind |-> CASE c = "advocates" -> "direct"
                              [] c = "ads" -> "marketing"
                              [] OTHER -> "admin",
                   active |-> TRUE]]
    /\ rows = NoTable /\ rules = NoTable /\ income = NoTable
    /\ \E c \in Clients, a \in Advocates :
          cases = [k \in {0} |-> [client |-> c, advocate |-> None, name |-> a, fee |-> Fee,
                                  paid |-> 0, status |-> "in_progress", consult |-> 0]]
    /\ payments = {} /\ consults = NoTable
    /\ rates = [a \in Advocates |-> StartPercent]
    /\ ids = 0 /\ edits = 0

-----------------------------------------------------------------------------
(* What staff do. Each is one request or tap; a value the code refuses (a  *)
(* kind or method it does not know, an amount of zero) changes nothing and *)
(* is no step.                                                             *)

StaffStep == edits < MaxEdits /\ edits' = edits + 1 /\ UNCHANGED day

FreshId == ids + 1

TakeId == ids' = ids + 1

ValidCategory(kind) == kind \in Kinds

InsertCategory(code, kind) ==
    /\ code \notin DOMAIN cats
    /\ cats' = Put(cats, code, [kind |-> kind, active |-> TRUE])

CreateCategory ==
    /\ StaffStep
    /\ \E kind \in {"infra"} : ValidCategory(kind) /\ InsertCategory("tools", kind)
    /\ UNCHANGED <<rows, rules, income, cases, payments, consults, rates, ids>>

StoreCategory(code, kind, active) ==
    /\ code \in DOMAIN cats
    /\ cats' = [cats EXCEPT ![code] = [kind |-> kind, active |-> active]]

UpdateCategory ==
    /\ StaffStep
    /\ \E code \in Picked, active \in BOOLEAN : \E kind \in {cats[code].kind, "direct"} :
          ValidCategory(kind) /\ StoreCategory(code, kind, active)
    /\ UNCHANGED <<rows, rules, income, cases, payments, consults, rates, ids>>

\* Mutant: an amount of zero passes.
AnyAmount(amount, cat) == cat # ""

ValidExpense(amount, cat) == amount > 0 /\ cat # ""

\* A row a person types is posted at once and carries no reference.
Manual(d, amount, cat) == Expense(d, amount, cat, "posted", NoRef, 0, 0)

InsertExpense(e) == Storable(e) /\ TakeId /\ rows' = Put(rows, FreshId, e)

CreateExpense ==
    /\ StaffStep
    /\ \E d \in Days, amount \in Amounts, cat \in Picked :
          ValidExpense(amount, cat) /\ InsertExpense(Manual(d, amount, cat))
    /\ UNCHANGED <<cats, rules, income, cases, payments, consults, rates>>

\* Status, rule and reference stay; the description becomes the person's.
EditedRow(e, d, amount, cat) ==
    [e EXCEPT !.day = d, !.amount = amount, !.cat = cat, !.base = 0]

StoreExpense(i, e) == i \in DOMAIN rows /\ Storable(e) /\ rows' = [rows EXCEPT ![i] = e]

UpdateExpense ==
    /\ StaffStep
    /\ \E i \in DOMAIN rows, d \in Days, amount \in Amounts :
          /\ ValidExpense(amount, rows[i].cat)
          /\ StoreExpense(i, EditedRow(rows[i], d, amount, rows[i].cat))
    /\ UNCHANGED <<cats, rules, income, cases, payments, consults, rates, ids>>

ConfirmRow(i) == rows[i].status = "draft" /\ rows' = [rows EXCEPT ![i].status = "posted"]

ConfirmExpense ==
    /\ StaffStep
    /\ \E i \in DOMAIN rows : ConfirmRow(i)
    /\ UNCHANGED <<cats, rules, income, cases, payments, consults, rates, ids>>

VoidRow(i) == [rows EXCEPT ![i].status = "void"]

DeleteRow(i) == Drop(rows, i)

\* Mutant: a generated row goes like any other.
AlwaysDeleted(i) == DeleteRow(i)

\* What deleting leaves of the table; a row's reference never changes, so the
\* read before the write decides nothing that could have gone stale.
WithoutExpense(i) == IF rows[i].ref # NoRef THEN VoidRow(i) ELSE DeleteRow(i)

DeleteExpense ==
    /\ StaffStep
    /\ \E i \in DOMAIN rows : rows' = WithoutExpense(i)
    /\ UNCHANGED <<cats, rules, income, cases, payments, consults, rates, ids>>

-----------------------------------------------------------------------------
ValidRule(r) == r.cat # "" /\ r.amount > 0 /\ r.dom \in 1 .. DaysPerMonth

Rule(from, to, dom, amount, auto, cat, active) ==
    [from |-> from, to |-> to, dom |-> dom, amount |-> amount, auto |-> auto,
     cat |-> cat, active |-> active]

InsertRule(r) == r.cat \in DOMAIN cats /\ TakeId /\ rules' = Put(rules, FreshId, r)

\* The form leaves active_from to the server, which says today, and active_to open.
CreateRule ==
    /\ StaffStep
    /\ \E dom \in 1 .. DaysPerMonth, amount \in Amounts, auto \in BOOLEAN, from \in Froms :
          LET r == Rule(from, LastDay, dom, amount, auto, "rent", TRUE)
          IN  ValidRule(r) /\ InsertRule(r)
    /\ UNCHANGED <<cats, rows, income, cases, payments, consults, rates>>

StoreRule(i, r) == i \in DOMAIN rules /\ rules' = [rules EXCEPT ![i] = r]

UpdateRule ==
    /\ StaffStep
    /\ \E i \in DOMAIN rules : \E active \in BOOLEAN, to \in {day, rules[i].to} :
          LET r == [rules[i] EXCEPT !.active = active, !.to = to]
          IN  ValidRule(r) /\ StoreRule(i, r)
    /\ UNCHANGED <<cats, rows, income, cases, payments, consults, rates, ids>>

\* ON DELETE SET NULL: the rows of a rule outlive it, and keep their reference.
DropRule(i) ==
    /\ rules' = Drop(rules, i)
    /\ rows' = [k \in DOMAIN rows |->
                   IF rows[k].rule = i THEN [rows[k] EXCEPT !.rule = 0] ELSE rows[k]]

DeleteRule ==
    /\ StaffStep
    /\ \E i \in DOMAIN rules : DropRule(i)
    /\ UNCHANGED <<cats, income, cases, payments, consults, rates, ids>>

-----------------------------------------------------------------------------
Income(d, amount, ref) == [day |-> d, amount |-> amount, ref |-> ref]

ValidIncome(amount) == amount > 0

InsertIncome(e) == TakeId /\ income' = Put(income, FreshId, e)

CreateOtherIncome ==
    /\ StaffStep
    /\ \E amount \in Amounts : ValidIncome(amount) /\ InsertIncome(Income(day, amount, NoRef))
    /\ UNCHANGED <<cats, rows, rules, cases, payments, consults, rates>>

\* Unlike an expense, an income goes with its reference.
DropIncome(i) == income' = Drop(income, i)

DeleteOtherIncome ==
    /\ StaffStep
    /\ \E i \in DOMAIN income : DropIncome(i)
    /\ UNCHANGED <<cats, rows, rules, cases, payments, consults, rates, ids>>

ValidRate(percent) == percent \in 0 .. 100

StoreRate(a, percent) == rates' = [rates EXCEPT ![a] = percent]

SetAdvocateRate ==
    /\ StaffStep
    /\ \E a \in Advocates, percent \in Percents :
          ValidRate(percent) /\ StoreRate(a, percent)
    /\ UNCHANGED <<cats, rows, rules, income, cases, payments, consults, ids>>

-----------------------------------------------------------------------------
(* The bot's dialogues about cases and consultations, once they commit.    *)

LatestConsult(c) ==
    LET own == {i \in DOMAIN consults : consults[i].client = c}
    IN  IF own = {} THEN 0 ELSE CHOOSE i \in own : \A j \in own : j <= i

InsertCase(k) == TakeId /\ cases' = Put(cases, FreshId, k)

SaveCase ==
    /\ StaffStep
    /\ \E c \in Clients, a \in Advocates :
          InsertCase([client |-> c, advocate |-> a, name |-> a, fee |-> Fee, paid |-> 0,
                      status |-> "in_progress", consult |-> LatestConsult(c)])
    /\ UNCHANGED <<cats, rows, rules, income, payments, consults, rates>>

\* Mutant: the two statements without their transaction, the second lost.
OnlyLedgerRow(c, p) == payments' = payments \cup {p} /\ UNCHANGED cases

\* One transaction: the payment's row and the case's running total.
AddPayment(c, p) ==
    /\ payments' = payments \cup {p}
    /\ cases' = [cases EXCEPT ![c].paid = @ + p.amount]

\* /pay and the payment dialogue: today, or a date typed, which may be any.
Pay ==
    /\ StaffStep /\ TakeId
    /\ \E c \in DOMAIN cases, amount \in Amounts, paidAt \in Days :
          /\ amount > 0
          /\ AddPayment(c, [id |-> FreshId, case |-> c, amount |-> amount,
                            paidAt |-> paidAt, made |-> day])
    /\ UNCHANGED <<cats, rows, rules, income, consults, rates>>

StoreCaseStatus(c, status) == cases' = [cases EXCEPT ![c].status = status]

CloseCase ==
    /\ StaffStep
    /\ \E c \in DOMAIN cases : StoreCaseStatus(c, "completed")
    /\ UNCHANGED <<cats, rows, rules, income, payments, consults, rates, ids>>

SaveConsultation ==
    /\ StaffStep /\ TakeId
    /\ \E c \in Clients, d \in Days :
          consults' = Put(consults, FreshId,
                          [client |-> c, day |-> d, price |-> Price, status |-> "scheduled",
                           paid |-> "unasked", paidAt |-> 0])
    /\ UNCHANGED <<cats, rows, rules, income, cases, payments, rates>>

MarkCompleted(c, paid) ==
    [c EXCEPT !.status = "completed",
              !.paid = IF paid THEN "yes" ELSE "no",
              !.paidAt = IF paid THEN day ELSE 0]

\* The buttons under a booking stay, so a status may be tapped over another.
TapStatus ==
    /\ StaffStep
    /\ \E i \in DOMAIN consults :
          consults' = [consults EXCEPT ![i] = MarkCompleted(@, TRUE)]
          \/ consults' = [consults EXCEPT ![i] = MarkCompleted(@, FALSE)]
          \/ \E s \in {"cancelled", "no_show"} : consults' = [consults EXCEPT ![i].status = s]
    /\ UNCHANGED <<cats, rows, rules, income, cases, payments, rates, ids>>

Staff ==
    \/ CreateCategory \/ UpdateCategory
    \/ CreateExpense \/ UpdateExpense \/ ConfirmExpense \/ DeleteExpense
    \/ CreateRule \/ UpdateRule \/ DeleteRule
    \/ CreateOtherIncome \/ DeleteOtherIncome \/ SetAdvocateRate
    \/ SaveCase \/ Pay \/ CloseCase \/ SaveConsultation \/ TapStatus
=============================================================================
