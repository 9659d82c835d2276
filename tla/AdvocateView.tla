---------------------------- MODULE AdvocateView ----------------------------
(***************************************************************************)
(* Requests to the HTTP API under the identities of Identity, step by      *)
(* step: the credential is verified, its row looked up, the handler does   *)
(* its one statement; in between staff, the bot and other requests go on.  *)
(* The advocate's own section (application/advocateview) is modelled in    *)
(* full, with what it reads of the Ledger's cases, payments and payouts;   *)
(* of the other sections the operations on keys, rates and chats.          *)
(***************************************************************************)
EXTENDS Identity

CONSTANTS
    Requests,
    Meanwhile  \* bound on the edits of staff while requests overlap

ASSUME ViewAssumption ==
    DaysPerMonth < LastDay /\ "advocates" \in Picked /\ Meanwhile \in 0 .. MaxEdits

VARIABLES
    notes,  \* client_notes: a set of [client, by]
    reqs,   \* what each request has come to
    stood,  \* history: what a request's credential said and the rows say of it
    scene   \* bounds the behaviours: what goes on beside the requests

view == <<notes, reqs, stood, scene>>

vars == <<day, tables, edits, identity, view>>

NoRequest == [at |-> "idle"]

-----------------------------------------------------------------------------
(* What an advocate is shown: by a query, by the page built on it.         *)

\* MyHandler.advocate: a login without a roster row, an admin's too.
Forbidden == [error |-> "not linked to an advocate"]

\* Mutant: a case opened before the roster is nobody's.
LinkedCase(a, c) == cases[c].advocate = a

\* The roster link, or the very name on a case that has no link at all.
OwnedCase(a, c) ==
    cases[c].advocate = a \/ (cases[c].advocate = None /\ cases[c].name = a)

ListCases(a) == {c \in DOMAIN cases : OwnedCase(a, c)}

PaymentsOf(own) == {p \in payments : p.case \in own}

CollectionsByMonth(a) ==
    LET own == PaymentsOf(ListCases(a))
        months == {MonthOf(p.paidAt) : p \in own}
    IN  [m \in months |-> Total(AmountOf, {p \in own : MonthOf(p.paidAt) = m})]

\* Mutant: drafts count as paid.
PlannedOut(a) ==
    Total(RowAmount, {i \in DOMAIN rows : Attributed(i) /\ rows[i].ref[2] = a})

PaidOut(a) ==
    Total(RowAmount, {i \in Posted : /\ rows[i].cat = "advocates"
                                     /\ Attributed(i) /\ rows[i].ref[2] = a})

\* Each month priced by itself, at the percentage of today.
AccrueMonths(months, percent) ==
    [m \in DOMAIN months |-> [collected |-> months[m], accrued |-> RoundedPercent(months[m], percent)]]

NewSettlement(a, months, paid) ==
    LET accrued == AccrueMonths(months, rates[a])
        collectedIn(m) == accrued[m].collected
        accruedIn(m) == accrued[m].accrued
        sum == Total(accruedIn, DOMAIN accrued)
    IN  [collected |-> Total(collectedIn, DOMAIN accrued), accrued |-> sum, paid |-> paid,
         outstanding |-> sum - paid, months |-> accrued]

OwnSettlement(a) == NewSettlement(a, CollectionsByMonth(a), PaidOut(a))

GetMySettlement(p) == IF p.advocate = None THEN Forbidden ELSE OwnSettlement(p.advocate)

FeeOf(c) == cases[c].fee

PaidOn(c) == cases[c].paid

ListMyCases(p) ==
    IF p.advocate = None THEN Forbidden
    ELSE LET own == ListCases(p.advocate)
         IN  [items |-> own, fee |-> Total(FeeOf, own), paid |-> Total(PaidOn, own), owed |-> Total(Owed, own)]

NewStats(own, months) ==
    LET statuses == {cases[c].status : c \in own}
    IN  [cases |-> Cardinality(own), clients |-> Cardinality({cases[c].client : c \in own}),
         fee |-> Total(FeeOf, own), paid |-> Total(PaidOn, own), debt |-> Total(Owed, own),
         byStatus |-> [s \in statuses |-> Cardinality({c \in own : cases[c].status = s})],
         months |-> months]

OwnStats(a) == NewStats(ListCases(a), AccrueMonths(CollectionsByMonth(a), rates[a]))

GetMyStats(p) == IF p.advocate = None THEN Forbidden ELSE OwnStats(p.advocate)

ListClients(a) ==
    LET own == ListCases(a)
        card(c) == LET his == {k \in own : cases[k].client = c}
                   IN  [client |-> c, cases |-> Cardinality(his),
                        fee |-> Total(FeeOf, his), paid |-> Total(PaidOn, his)]
    IN  {card(cases[k].client) : k \in own}

\* On the page a client owes nothing who paid too much on another case.
CardOf(l) == [client |-> l.client, owed |-> IF l.fee > l.paid THEN l.fee - l.paid ELSE 0]

ListMyClients(p) ==
    IF p.advocate = None THEN Forbidden ELSE {CardOf(l) : l \in ListClients(p.advocate)}

NotFound == [error |-> "not found"]

\* A client of colleagues only is answered like one that does not exist.
GetClient(a, c) ==
    LET own == {k \in ListCases(a) : cases[k].client = c}
    IN  IF own = {} THEN NotFound
        ELSE [cases |-> own, payments |-> PaymentsOf(own),
              consults |-> {i \in DOMAIN consults : consults[i].client = c},
              notes |-> {n \in notes : n.client = c}]

GetMyClient(p, c) == IF p.advocate = None THEN Forbidden ELSE GetClient(p.advocate, c)

-----------------------------------------------------------------------------
(* The operations, and the roles their paths name. *)

MyOps == {[op |-> "status", case |-> c, to |-> s] :
             c \in DOMAIN cases, s \in {"in_progress", "completed", "cancelled"}}
         \cup {[op |-> "note", client |-> c, text |-> t] : c \in Clients, t \in {"", "a text"}}

AdminOps == {[op |-> "createKey", key |-> k] : k \in Keys \ DOMAIN keys}
            \cup {[op |-> "revokeKey", key |-> k] : k \in DOMAIN keys}
            \cup {[op |-> "rate", advocate |-> a, percent |-> p] : a \in Advocates, p \in Percents}

ClientOps == {[op |-> "submit", client |-> c] : c \in Clients}

Scopes(ask) ==
    CASE ask.op \in {"status", "note"} -> {"advocate", "admin"}
      [] ask.op = "submit" -> {"client", "guest"}
      [] OTHER -> {"admin"}

\* Mutant: any status there is.
AnyStatus(status) == status \in {"in_progress", "completed", "cancelled"}

AllowedStatus(status) == status \in {"in_progress", "completed"}

-----------------------------------------------------------------------------
(* A request. *)

End(r) == reqs' = [reqs EXCEPT ![r] = NoRequest]

\* Authenticate's first half: no verified credential, no request.
Present(r) ==
    /\ reqs[r].at = "idle"
    /\ \E cred \in Issued, ask \in MyOps \cup AdminOps \cup ClientOps :
          /\ Verified(cred) # None
          /\ reqs' = [reqs EXCEPT ![r] = [at |-> "verified", cred |-> cred, who |-> Verified(cred), ask |-> ask]]
    /\ UNCHANGED <<day, tables, edits, identity, notes>>

\* Its second half: the row is read now, and its role measured by the scopes.
Identify(r) ==
    /\ reqs[r].at = "verified"
    /\ LET q == reqs[r]
           p == IF q.cred.kind = "launch" THEN FromLaunch(q.who) ELSE FromToken(q.who)
       IN  IF AllowedByScopes(p.role, Scopes(q.ask))
           THEN reqs' = [reqs EXCEPT ![r] = [at |-> "known", cred |-> q.cred, caller |-> p, ask |-> q.ask]]
           ELSE End(r)
    /\ UNCHANGED <<day, tables, edits, identity, notes>>

\* The statement has the owner in its WHERE.
UpdateCaseStatus(a, c, status) ==
    /\ OwnedCase(a, c) /\ StoreCaseStatus(c, status)
    /\ UNCHANGED <<cats, rows, rules, income, payments, consults, rates, ids, identity, notes>>

\* Checked before the roster is asked; its row is never renamed, so the name
\* read here is the name at the statement.
SetCaseStatus(a, c, status) == AllowedStatus(status) /\ UpdateCaseStatus(a, c, status)

SetMyCaseStatus(r) ==
    LET p == reqs[r].caller
        ask == reqs[r].ask
    IN  ask.op = "status" /\ p.advocate # None /\ SetCaseStatus(p.advocate, ask.case, ask.to)

InsertNote(a, c, by) ==
    /\ \E k \in DOMAIN cases : cases[k].client = c /\ OwnedCase(a, k)
    /\ notes' = notes \cup {[client |-> c, by |-> by]}
    /\ UNCHANGED <<tables, identity>>

AddNote(a, c, text, by) == text # "" /\ InsertNote(a, c, by)

AddMyClientNote(r) ==
    LET p == reqs[r].caller
        ask == reqs[r].ask
    IN  ask.op = "note" /\ p.advocate # None /\ AddNote(p.advocate, ask.client, ask.text, Subject(p))

CreateApiToken(r) ==
    LET p == reqs[r].caller
        ask == reqs[r].ask
    IN  /\ ask.op = "createKey" /\ p.user # None /\ ask.key \notin DOMAIN keys
        /\ InsertKey(ask.key, p.user)
        /\ UNCHANGED <<tables, users, active, advChat, cliChat, stale, notes>>

DeleteApiToken(r) ==
    LET p == reqs[r].caller
        ask == reqs[r].ask
    IN  /\ ask.op = "revokeKey" /\ p.user # None
        /\ RevokeKey(ask.key, p.user)
        /\ UNCHANGED <<tables, users, active, advChat, cliChat, stale, notes>>

PutAdvocateRate(r) ==
    LET ask == reqs[r].ask
    IN  /\ ask.op = "rate" /\ ValidRate(ask.percent)
        /\ StoreRate(ask.advocate, ask.percent)
        /\ UNCHANGED <<cats, rows, rules, income, cases, payments, consults, ids, identity, notes>>

\* Submit finds the client's row by the number typed; the chat is the launch's.
SubmitClientRequest(r) ==
    LET p == reqs[r].caller
        ask == reqs[r].ask
    IN  /\ ask.op = "submit"
        /\ SetClientTelegram(ask.client, p.chat)
        /\ UNCHANGED <<tables, notes>>

Handled(r) ==
    \/ SetMyCaseStatus(r) \/ AddMyClientNote(r) \/ CreateApiToken(r) \/ DeleteApiToken(r)
    \/ PutAdvocateRate(r) \/ SubmitClientRequest(r)

Perform(r) ==
    /\ reqs[r].at = "known"
    /\ Handled(r) /\ End(r)
    /\ UNCHANGED <<day, edits>>

\* Refused by the handler, found nothing, or the caller hung up.
Answer(r) ==
    /\ reqs[r].at = "known"
    /\ End(r)
    /\ UNCHANGED <<day, tables, edits, identity, notes>>

-----------------------------------------------------------------------------
(* What goes on beside the requests. *)

People ==
    /\ scene # "money" /\ StaffStep
    /\ \/ \E u \in Logins, a \in Advocates \cup {None}, role \in {"admin", "advocate"} :
             CreateUser(u, role, a) \/ ChangeRole(u, role, a)
       \/ \E a \in Advocates : DeactivateAdvocate(a)
       \/ \E a \in Advocates, x \in Chats : SetAdvocateTelegram(a, x)
       \/ \E c \in Clients, x \in Chats : SetClientTelegram(c, x)
       \/ GrowStale
    /\ UNCHANGED <<tables, notes, reqs>>

Money ==
    /\ scene # "people"
    /\ SaveCase \/ Pay \/ SetAdvocateRate \/ CreateExpense \/ ConfirmExpense \/ DeleteExpense
    /\ UNCHANGED <<identity, notes, reqs>>

\* A credential counts as it is when the request comes, the rows as they are when
\* they are looked up; what is known of an earlier request, or before the lookup,
\* counts for nothing.
Remember ==
    stood' = [r \in Requests |->
        LET was == reqs[r].at
            now == reqs'[r].at
        IN  CASE now = "idle"                       -> {}
              [] now = "verified" /\ was = "idle"   -> Bears(reqs'[r].cred)
              [] now = "known" /\ was = "verified"  -> stood[r] \cup StandsFor(reqs[r].cred, stood[r])
              [] OTHER                              -> stood[r]]

\* The books of a second month: a case of the time before the roster, paid for
\* in the first, and the payout drafted for that since. One admin, beside whom
\* others come and go; in "overlap" every login is one, requests are under way
\* together, and the staff have few edits left.
ViewInit ==
    /\ scene \in {"people", "overlap", "money"}
    /\ day = LastDay
    /\ cats = [c \in Picked |-> [kind |-> "direct", active |-> TRUE]]
    /\ \E c \in Clients, a \in Advocates, amount \in Amounts :
          /\ amount > 0 /\ RoundedPercent(amount, StartPercent) > 0
          /\ cases = [k \in {0} |-> [client |-> c, advocate |-> None, name |-> a, fee |-> Fee,
                                    paid |-> amount, status |-> "in_progress", consult |-> 0]]
          /\ payments = {[id |-> 1, case |-> 0, amount |-> amount, paidAt |-> 1, made |-> 1]}
          /\ rows = [i \in {2} |-> Expense(EndOfMonth(1), RoundedPercent(amount, StartPercent), "advocates",
                                           "draft", AdvocatePayoutRef(a, 1), 0, amount)]
    /\ rules = NoTable /\ income = NoTable /\ consults = NoTable
    /\ rates = [a \in Advocates |-> StartPercent]
    /\ ids = 2 /\ edits = IF scene = "overlap" THEN MaxEdits - Meanwhile ELSE 0
    /\ \E u \in Logins :
          users = [v \in IF scene = "overlap" THEN Logins ELSE {u} |-> [role |-> "admin", advocate |-> None]]
    /\ keys = NoTable
    /\ active = [a \in Advocates |-> TRUE]
    /\ advChat = [a \in Advocates |-> None] /\ cliChat = [c \in Clients |-> None]
    /\ stale = {} /\ notes = {}
    /\ reqs = [r \in Requests |-> NoRequest] /\ stood = [r \in Requests |-> {}]

\* Except in "overlap" one request ends before the next begins.
Alone(r) == \A q \in Requests \ {r} : reqs[q].at = "idle"

Next ==
    /\ \/ /\ scene # "money"
          /\ \E r \in Requests :
                /\ scene = "overlap" \/ Alone(r)
                /\ \/ Present(r) \/ Identify(r) \/ Perform(r) \/ Answer(r)
       \/ People
       \/ Money
    /\ Remember /\ UNCHANGED scene

ViewSpec == ViewInit /\ [][Next]_vars

-----------------------------------------------------------------------------
Apart(x, y) == IF x < y THEN y - x ELSE x - y

Caller(a) == Principal(None, "advocate", a, None, None)

\* What an advocate sees of their money is what the firm's settlement has for
\* them over all time: the same collected, the same paid out, and an accrual that
\* the rounding of each month moves by half a kopiyka a month at most ("if the two
\* drifted apart", advocateview_repository.go:28; NewSettlement beside
\* NewAdvocateSettlement).
SettlementsAgree ==
    \A a \in Advocates :
        LET own == GetMySettlement(Caller(a))
            firm == {s \in SettlementRows(1, LastDay) : s.advocate = a}
        IN  /\ own.collected = Total(AmountOf, CollectedBy(a, 1, LastDay))
            /\ own.paid = PaidTo(a, 1, LastDay)
            /\ own.collected + own.paid > 0 => firm # {}
            /\ \A s \in firm :
                  2 * Apart(own.accrued, s.accrued) <= Cardinality(DOMAIN own.months) + 1

\* The section's pages tell one story: the clients' totals are the cases' totals,
\* a client's card never shows more owed than the cases do, what is paid on the
\* cases is what the months collected, every client listed opens and no other,
\* and no case is on two advocates' lists (ListCases, ListClients, GetClient and
\* NewStats, each a query of its own).
SectionTies ==
    \A a \in Advocates :
        LET p == Caller(a)
            stats == GetMyStats(p)
            page == ListMyCases(p)
            list == ListClients(a)
            cards == ListMyClients(p)
        IN  /\ <<page.fee, page.paid, page.owed>> = <<stats.fee, stats.paid, stats.debt>>
            /\ Total(LAMBDA l : l.fee, list) = page.fee /\ Total(LAMBDA l : l.paid, list) = page.paid
            /\ Total(LAMBDA l : l.owed, cards) <= page.owed
            /\ stats.paid = GetMySettlement(p).collected
            /\ Total(LAMBDA s : stats.byStatus[s], DOMAIN stats.byStatus) = stats.cases
            /\ \A c \in Clients : GetMyClient(p, c) = NotFound <=> c \notin {l.client : l \in cards}
            /\ \A b \in Advocates \ {a} : page.items \cap ListCases(b) = {}

\* An advocate's pages agree with each other and with finance.
ViewTies == SettlementsAgree /\ SectionTies

\* What a request writes, it writes as someone it stood for.
WritesAs(r) ==
    /\ <<notes, keys, rates>>' # <<notes, keys, rates>> => Fresh \in stood[r]
    /\ \A c \in DOMAIN cases :
          cases'[c].status # cases[c].status =>
              cases'[c].status # "cancelled" /\ <<"advocate", AdvocateOf(c)>> \in stood[r]
    /\ \A n \in notes' \ notes :
          /\ n.by \in stood[r]
          /\ \E c \in DOMAIN cases :
                cases[c].client = n.client /\ <<"advocate", AdvocateOf(c)>> \in stood[r]
    /\ \A k \in DOMAIN keys' :
          k \notin DOMAIN keys \/ keys'[k] # keys[k] => <<"admin", keys'[k].user>> \in stood[r]
    /\ rates' # rates => \E u \in DOMAIN users : <<"admin", u>> \in stood[r]

\* A request writes only as what its credential says when it comes and the rows
\* say when they are looked up for it: an advocate on the cases that finance counts
\* as theirs at the write and never to write one off, a note under their own name
\* on their own client, their own keys and the rates as an admin. A key revoked, a session or a
\* launch run out by the time the request comes has no writes; a role, a roster
\* row, a chat or a leaver changed by the time of the lookup takes hold, "a role
\* change takes effect immediately". What changes after that leaves the request
\* under way as it is (Authenticate, UpdateCaseStatus, AddNote).
WritesOnlyOwn ==
    [][\A r \in Requests : reqs[r].at = "known" /\ reqs'[r].at = "idle" => WritesAs(r)]_vars

-----------------------------------------------------------------------------
(* The inductive invariant behind IdentityOK and WritesOnlyOwn. *)

CaseFields(k) ==
    [client |-> k.client, advocate |-> k.advocate, name |-> k.name, fee |-> k.fee,
     paid |-> k.paid, status |-> k.status, consult |-> k.consult]

CasesOK ==
    /\ cases = [c \in DOMAIN cases |-> CaseFields(cases[c])]
    /\ \A c \in DOMAIN cases :
          cases[c].advocate \in Advocates \cup {None} /\ cases[c].name \in Advocates

\* s: what stood for the request. A verified credential names a chat, or a login
\* that it bears.
VerifiedOK(cred, who, s) ==
    IF cred.kind = "launch" THEN cred = Launch(who) /\ who \in Chats
    ELSE who \in DOMAIN users /\ <<"user", who>> \in s

\* Every identity a caller carries is one that stood for it.
CallerOK(p, s) ==
    /\ p.user # None => p.user \in DOMAIN users /\ <<"user", p.user>> \in s
    /\ p.role = "admin" => p.user # None /\ <<"admin", p.user>> \in s
    /\ p.advocate # None => <<"advocate", p.advocate>> \in s
    /\ p.client # None => <<"client", p.client>> \in s
    /\ p.chat \in Chats \cup {None}

RequestOK(q, s) ==
    \/ q.at = "idle"
    \/ q.at = "verified" /\ Fresh \in s /\ VerifiedOK(q.cred, q.who, s)
    \/ /\ q.at = "known" /\ Fresh \in s /\ CallerOK(q.caller, s)
       /\ AllowedByScopes(q.caller.role, Scopes(q.ask))

ViewInv ==
    /\ IdentityInv /\ CasesOK
    /\ reqs = [r \in Requests |-> reqs[r]]
    /\ \A r \in Requests : RequestOK(reqs[r], stood[r])
=============================================================================
