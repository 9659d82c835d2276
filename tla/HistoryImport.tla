---------------------------- MODULE HistoryImport ----------------------------
(***************************************************************************)
(* The operator's commands that bring in the years before: import55k, the  *)
(* tab of leads and their consultations, and importcases, the tab of       *)
(* cases. Each run reads its tab, works through it in one transaction and  *)
(* commits or leaves nothing; what is there already is recognised: a lead  *)
(* by its row's number, a consultation by client and time, a case by       *)
(* client and day. A run may be repeated over the same tab; over one whose *)
(* rows have moved, the numbers name other rows (see ImportedOnce).        *)
(***************************************************************************)
EXTENDS LeadIntake, ClientStats

CONSTANTS
    Tabs55k,   \* the versions of the tab: sequences of rows
    CaseTabs,  \* those of the other: sequences of cases, each its rows by date
    NoDate

\* What the cells of a row come down to.
TabRow == [date: Days \cup {NoDate}, phone: Phones \cup {NoPhone}, status: STRING,
           at: Days \cup {NoDate}, amount: Nat]
CaseTabRow == [date: Days, phone: Phones \cup {NoPhone}, status: STRING, fee: Nat]

ASSUME HistoryImportAssumption ==
    /\ NoDate \notin Days
    /\ Tabs55k \in Seq(Seq(TabRow)) \ {<<>>}
    /\ CaseTabs \in Seq(Seq(Seq(CaseTabRow) \ {<<>>})) \ {<<>>}

VARIABLES
    version,  \* of each tab
    ran,     \* history: the command that ran last, if nothing happened since
    scene    \* what runs beside the staff

history == <<version, ran, scene>>
staff == <<day, notes, deleting, edits>>
vars == <<staff, tables, intake, history>>

\* The operator's commands write no announcement and leads under ids of their
\* own: a behaviour has them beside the staff, or the arriving leads beside one
\* tap or deletion of theirs within a day.
Scenes == {"mail", "imports"}

HistoryInit ==
    /\ scene \in Scenes
    /\ version = [leads |-> 1, cases |-> 1] /\ ran = Blank
    /\ edits = IF scene = "mail" THEN MaxEdits - 1 ELSE 0

Tab55k == Tabs55k[version.leads]

\* What a transaction reads and writes.
Base == [clients |-> clients, leads |-> leads, consults |-> consults, cases |-> cases]

-----------------------------------------------------------------------------
\* A client of the years before: seen from the first to the last of the dates.
Spanning(x, d) == [x EXCEPT !.first = Min({@, d}), !.last = Max({@, d})]

Anchored(t, p, d) ==
    IF With(t, p) = {} THEN Append(t, Client(p, d)) ELSE [t EXCEPT ![IdOf(t, p)] = Spanning(@, d)]

\* mapConsultationStatus: what is none of these words stays scheduled.
StatusOf(raw) == IF raw \in {"cancelled", "completed", "no_show"} THEN raw ELSE "scheduled"

\* The row's own time, or its date.
ConsultationTime(r) == IF r.at = NoDate THEN r.date ELSE r.at

\* A row without a date never leaves fetchRows, one without a phone is skipped.
Readable(r) == r.date # NoDate /\ r.phone # NoPhone

WithLead(b, n, r) ==
    IF <<"55k", n>> \in DOMAIN b.leads THEN b.leads
    ELSE WithRow(b.leads, <<"55k", n>>,
                 [Lead(IdOf(b.clients, r.phone), r.date) EXCEPT !.synced = TRUE])

\* Mutant: every run inserts.
NeverThere(b, c, at) == {}

There(b, c, at) == {i \in DOMAIN b.consults : b.consults[i].client = c /\ b.consults[i].at = at}

\* The query that looks for the consultation returns any of those there are; only
\* its status is brought up to date.
WithConsultation(b, r) ==
    LET c == IdOf(b.clients, r.phone)
        at == ConsultationTime(r)
        new == Consultation(c, at, r.amount, StatusOf(r.status), r.date, "import")
    IN  IF r.status = Blank THEN {b}
        ELSE IF There(b, c, at) = {} THEN {[b EXCEPT !.consults = Append(@, new)]}
        ELSE {[b EXCEPT !.consults[i].status = new.status] : i \in There(b, c, at)}

ImportRow(b, n) ==
    LET r == Tab55k[n] IN
    IF ~Readable(r) THEN {b}
    ELSE LET known == [b EXCEPT !.clients = Anchored(@, r.phone, r.date)]
         IN  WithConsultation([known EXCEPT !.leads = WithLead(known, n, r)], r)

ImportedRow(bs, n) == UNION {ImportRow(b, n) : b \in bs}

\* What the tables may be after the first n rows.
Results55k(b) ==
    LET after[n \in 0 .. Len(Tab55k)] == IF n = 0 THEN {b} ELSE ImportedRow(after[n - 1], n)
    IN  after[Len(Tab55k)]

-----------------------------------------------------------------------------
\* Mutant: the total without its ledger row.
NoLedgerRow(paid) == 0

LedgerOf(paid) == IF paid > 0 THEN paid ELSE 0

\* Fee and status are the last row's, the rest the first's; a fee counts as paid
\* when the work is done. The consultation the case is tied to by guess is left
\* out: nothing here reads it.
ImportCase(b, rows) ==
    LET r == rows[1]
        last == rows[Len(rows)]
        done == last.status = "completed"
        paid == IF done THEN last.fee ELSE 0
        known == [b EXCEPT !.clients = Anchored(@, r.phone, r.date)]
        c == IdOf(known.clients, r.phone)
        new == CaseRow(c, r.date, last.fee, paid, LedgerOf(paid),
                       IF done THEN "completed" ELSE "in_progress")
    IN  IF r.phone = NoPhone THEN b
        ELSE IF \E i \in DOMAIN b.cases : b.cases[i].client = c /\ b.cases[i].created = r.date
        THEN known
        ELSE [known EXCEPT !.cases = Append(@, new)]

CaseTab == CaseTabs[version.cases]

ResultOfCases(b) ==
    LET after[n \in 0 .. Len(CaseTab)] ==
            IF n = 0 THEN b ELSE ImportCase(after[n - 1], CaseTab[n])
    IN  after[Len(CaseTab)]

-----------------------------------------------------------------------------
Commit(b, command) ==
    /\ clients' = b.clients /\ leads' = b.leads /\ consults' = b.consults /\ cases' = b.cases
    /\ ran' = command
    /\ UNCHANGED <<labels, tags, version>>

Import55k == \E b \in Results55k(Base) : Commit(b, "import55k")

ImportCases == Commit(ResultOfCases(Base), "importcases")

\* The operator corrects a tab between two runs.
EditTab ==
    /\ \/ version.leads < Len(Tabs55k) /\ version' = [version EXCEPT !.leads = @ + 1]
       \/ version.cases < Len(CaseTabs) /\ version' = [version EXCEPT !.cases = @ + 1]
    /\ ran' = Blank /\ UNCHANGED tables

-----------------------------------------------------------------------------
(* The whole. *)

Start == Init /\ IntakeInit /\ HistoryInit

Arrival ==
    \/ IntakeNext /\ UNCHANGED staff
    \/ SetPracticeArea

Next ==
    \/ scene = "mail" /\ Arrival /\ UNCHANGED history
    \/ /\ scene = "imports" /\ (Import55k \/ ImportCases \/ EditTab)
       /\ UNCHANGED <<staff, intake, scene>>
    \/ /\ IF scene = "mail" THEN Deletion ELSE StaffNext \/ Tick
       /\ ran' = Blank /\ UNCHANGED <<intake, version, scene>>

\* The ticker polls again and again.
Spec == Start /\ [][Next]_vars /\ WF_vars(PollStep /\ UNCHANGED <<staff, history>>)

-----------------------------------------------------------------------------
\* "Safe re-run": run again at once, a command finds all it would write; where
\* staff have booked the very time of an imported consultation, either of the two
\* may take the status (import55k, importcases).
RerunAddsNothing ==
    /\ ran = "import55k" => \A b \in Results55k(Base) :
          /\ b.clients = clients /\ b.leads = leads /\ Len(b.consults) = Len(consults)
          /\ \A i \in DOMAIN consults :
                There(Base, consults[i].client, consults[i].at) = {i} => b.consults[i] = consults[i]
    /\ ran = "importcases" => ResultOfCases(Base) = Base

ConsultationsOnce ==
    \A i, j \in DOMAIN consults :
       /\ i # j /\ consults[i].by = "import" /\ consults[j].by = "import"
       /\ consults[i].client = consults[j].client
       => consults[i].at # consults[j].at

\* The row of this number, as one of the first k versions has it.
FromTab(l, m, k) ==
    \E v \in 1 .. k : \E n \in DOMAIN Tabs55k[v] :
       m = <<"55k", n>> /\ Readable(Tabs55k[v][n]) /\ l[m].day = Tabs55k[v][n].date

LeadsByNumber ==
    \A m \in DOMAIN leads :
       leads[m].tg = 0 /\ m \notin Range(IdOfLead) => FromTab(leads, m, version.leads)

\* However often the commands run, whatever their tabs say and whatever staff do
\* in between, one client has one imported consultation at one time; a lead is a
\* row that a tab so far had under the lead's number, and later rows of that
\* number leave it as it is. It does not say that a row has one lead: after a row is put
\* in above it, its lead is stored once more, under its new number.
ImportedOnce == ConsultationsOnce /\ LeadsByNumber

\* A case's running total is what its payments add up to, whoever wrote it.
TotalIsLedger == \A i \in DOMAIN cases : cases[i].paid = cases[i].ledger

\* A client was first seen no later than any lead that came with him from the tab,
\* and last no earlier.
SeenSpan ==
    /\ \A c \in Live(clients) : clients[c].first <= clients[c].last
    /\ \A m \in DOMAIN leads :
          leads[m].client # 0 /\ leads[m].tg = 0 =>
              /\ clients[leads[m].client].first <= leads[m].day
              /\ leads[m].day <= clients[leads[m].client].last

\* The importers, over any versions of their tabs: a run repeated at once adds
\* nothing, no client has two imported consultations at one time, every imported
\* lead is a row of its number, no payment is without its entry, and a client's
\* dates span the imported rows (import55k, importcases).
ImportsSafe == RerunAddsNothing /\ ImportedOnce /\ TotalIsLedger /\ SeenSpan

-----------------------------------------------------------------------------
(* The inductive invariant. *)
HistoryTypeOK ==
    /\ version \in [leads: DOMAIN Tabs55k, cases: DOMAIN CaseTabs]
    /\ scene \in Scenes

ClientsInv == BaseTypeOK /\ HistoryTypeOK /\ IntakeInv /\ ReferencesHold

-----------------------------------------------------------------------------
(* What a run of an importer leaves for the next to find.                  *)

FoundClient(b, p, d) ==
    /\ With(b.clients, p) # {}
    /\ LET x == b.clients[IdOf(b.clients, p)] IN x.first <= d /\ d <= x.last

FoundRow(b, n, r) ==
    Readable(r) =>
       /\ FoundClient(b, r.phone, r.date) /\ <<"55k", n>> \in DOMAIN b.leads
       /\ r.status # Blank => There(b, IdOf(b.clients, r.phone), ConsultationTime(r)) # {}

FoundCase(b, rows) ==
    LET r == rows[1] IN
    r.phone # NoPhone =>
       /\ FoundClient(b, r.phone, r.date)
       /\ \E i \in DOMAIN b.cases :
             b.cases[i].client = IdOf(b.clients, r.phone) /\ b.cases[i].created = r.date

Speaks(b, r, i) ==
    /\ Readable(r) /\ r.status # Blank
    /\ b.consults[i].client = IdOf(b.clients, r.phone) /\ b.consults[i].at = ConsultationTime(r)

Alone55k(b, i) == There(b, b.consults[i].client, b.consults[i].at) = {i}

\* The last of the first n rows to speak of a consultation has its status in it.
LastSaid(b, tab, n) ==
    \A i \in DOMAIN b.consults, k \in 1 .. n :
       /\ Alone55k(b, i) /\ Speaks(b, tab[k], i)
       /\ \A j \in (k + 1) .. n : ~Speaks(b, tab[j], i)
       => b.consults[i].status = StatusOf(tab[k].status)

Settled ==
    /\ ran = "import55k" => /\ \A n \in DOMAIN Tab55k : FoundRow(Base, n, Tab55k[n])
                            /\ LastSaid(Base, Tab55k, Len(Tab55k))
    /\ ran = "importcases" => \A n \in DOMAIN CaseTab : FoundCase(Base, CaseTab[n])

\* An announced lead is known by its message, an imported one by its row's number.
LeadsTold ==
    IF scene = "mail" THEN ran = Blank /\ \A m \in DOMAIN leads : leads[m].tg # 0
    ELSE \A m \in DOMAIN leads : FromTab(leads, m, version.leads)

ImportInv == Settled /\ LeadsTold /\ ConsultationsOnce /\ TotalIsLedger

\* The tabs are of the years before and up to the day of the first run; SeenSpan
\* needs it, since a client who comes by is seen last on that day, whatever a tab
\* says of later ones.
PastTabs ==
    /\ \A v \in DOMAIN Tabs55k : \A n \in DOMAIN Tabs55k[v] :
          Tabs55k[v][n].date # NoDate => Tabs55k[v][n].date <= 1
    /\ \A v \in DOMAIN CaseTabs : \A n \in DOMAIN CaseTabs[v] : CaseTabs[v][n][1].date <= 1

SpanInv ==
    /\ 1 <= day
    /\ \A c \in DOMAIN clients : clients[c].first <= clients[c].last /\ clients[c].last <= day
    /\ \A m \in DOMAIN leads :
          leads[m].client # 0 /\ leads[m].tg = 0 =>
              /\ clients[leads[m].client].first <= leads[m].day
              /\ leads[m].day <= clients[leads[m].client].last
=============================================================================
