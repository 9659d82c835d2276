----------------------------- MODULE ClientBase -----------------------------
(***************************************************************************)
(* The tables the firm knows its clients by: clients, who are identified   *)
(* by their phone, the leads, consultations and cases that name them, and  *)
(* the tags and segment pins staff put on them. This module is the tables  *)
(* and the staff's operations on them (client card, segments page, bot);   *)
(* LeadIntake adds what arrives by itself, HistoryImport the spreadsheets  *)
(* of the years before, ClientStats what the dashboards read.              *)
(***************************************************************************)
EXTENDS Integers, Sequences, FiniteSets, FiniteSetsExt, Functions

CONSTANTS
    Phones, NoPhone,
    LastDay,         \* bounds the days
    Price, Fee,      \* of what staff book and agree
    Labels, Seeded,  \* of the tag vocabulary, and those it starts with
    MaxEdits         \* bounds what staff do

ASSUME ClientBaseAssumption ==
    /\ NoPhone \notin Phones
    /\ Seeded \subseteq Labels
    /\ LastDay \in Nat \ {0} /\ MaxEdits \in Nat
    /\ Price \in Nat \ {0} /\ Fee \in Nat \ {0}

VARIABLES
    day,
    clients,   \* a row each, in the order they were made; a deleted one is gone
    leads,     \* leads: message_id -> a record
    consults,  \* consultations, in the order they were made
    cases,     \* cases, in the order they were made, with what case_payments holds
    labels,    \* client_tag_defs
    tags,      \* client_tags: pairs of a client and a label
    notes,     \* the clients client_notes has a row of
    deleting,  \* deletions under way: a client and how far it is
    edits

tables == <<clients, leads, consults, cases, labels, tags>>

\* Day 0 is before the server went live.
Days == 0 .. LastDay
Statuses == {"requested", "scheduled", "completed", "cancelled", "no_show"}
Segments == {"lead", "booked", "consulted", "client", "repeat", "lost"}

\* What staff, a statement or a cell leave empty.
Blank == ""

\* A table with one more row, or another in its place.
WithRow(table, i, row) == [j \in DOMAIN table \cup {i} |-> IF j = i THEN row ELSE table[j]]

ClientRow == [phone: Phones \cup {NoPhone}, first: Days, last: Days,
              pin: Segments \cup {Blank}, gone: BOOLEAN]
ConsultationRow == [client: Nat, at: Days, price: Nat, status: Statuses,
                    paid: {"unasked", "yes", "no"}, created: Days, by: {"staff", "import"}]
CaseRecord == [client: Nat, created: Days, fee: Nat, paid: Nat, ledger: Nat,
               status: {"in_progress", "completed"}]

BaseTypeOK ==
    /\ day \in Days
    /\ clients \in Seq(ClientRow) /\ consults \in Seq(ConsultationRow) /\ cases \in Seq(CaseRecord)

Init ==
    /\ day = 1
    /\ clients = <<>> /\ leads = [m \in {} |-> 0] /\ consults = <<>> /\ cases = <<>>
    /\ labels = Seeded /\ tags = {}
    /\ notes = {} /\ deleting = {} /\ edits \in 0 .. MaxEdits

-----------------------------------------------------------------------------
(* Clients, over a table t of them.                                        *)

Client(p, d) == [phone |-> p, first |-> d, last |-> d, pin |-> Blank, gone |-> FALSE]

Live(t) == {c \in DOMAIN t : ~t[c].gone}

\* The index on the phone is partial: any number of clients have none.
With(t, p) == {c \in Live(t) : t[c].phone = p}
Known(t, p) == p # NoPhone /\ With(t, p) # {}
IdOf(t, p) == CHOOSE c \in With(t, p) : TRUE

\* A lead, or staff who type the phone: the client was seen now.
Resolved(t, p) ==
    IF Known(t, p) THEN [t EXCEPT ![IdOf(t, p)].last = day] ELSE Append(t, Client(p, day))

ResolvedId(t, p) == IF Known(t, p) THEN IdOf(t, p) ELSE Len(t) + 1

Lead(c, d) == [client |-> c, day |-> d, area |-> Blank, tg |-> 0, synced |-> FALSE]

Consultation(c, at, price, status, d, by) ==
    [client |-> c, at |-> at, price |-> price, status |-> status, paid |-> "unasked",
     created |-> d, by |-> by]

\* paid is cases.paid_amount, ledger the sum of the case's rows of case_payments.
CaseRow(c, d, fee, paid, ledger, status) ==
    [client |-> c, created |-> d, fee |-> fee, paid |-> paid, ledger |-> ledger,
     status |-> status]

HasHistory(c) ==
    \/ \E m \in DOMAIN leads : leads[m].client = c
    \/ \E i \in DOMAIN consults : consults[i].client = c
    \/ \E i \in DOMAIN cases : cases[i].client = c

-----------------------------------------------------------------------------
(* Staff.                                                                  *)

Edit == edits < MaxEdits /\ edits' = edits + 1

StaffStep == Edit /\ UNCHANGED <<day, notes, deleting>>

CreateClient ==
    /\ StaffStep
    /\ \E p \in Phones : clients' = Resolved(clients, p)
       \/ clients' = Append(clients, Client(NoPhone, day))
    /\ UNCHANGED <<leads, consults, cases, labels, tags>>

\* Of the client card only the phone is anybody else's business; the index
\* refuses another client's.
CardSaved(c, p) ==
    /\ p # NoPhone => With(clients, p) \subseteq {c}
    /\ clients' = [clients EXCEPT ![c].phone = p]

\* What staff type comes down to one of Phones or to none.
UpdateClient ==
    /\ StaffStep
    /\ \E c \in Live(clients), p \in Phones \cup {NoPhone} : CardSaved(c, p)
    /\ UNCHANGED <<leads, consults, cases, labels, tags>>

NoteWritten(c) == c \in Live(clients) /\ notes' = notes \cup {c}

AddNote(c, text) == text # Blank /\ NoteWritten(c)

AddClientNote ==
    /\ Edit
    /\ \E c \in DOMAIN clients, text \in {Blank, "called"} : AddNote(c, text)
    /\ UNCHANGED <<day, tables, deleting>>

\* Three statements: the history is counted, the notes go, the client goes.
CountHistory ==
    /\ Edit
    /\ \E c \in Live(clients) :
          /\ ~HasHistory(c) /\ \A d \in deleting : d[1] # c
          /\ deleting' = deleting \cup {<<c, "counted">>}
    /\ UNCHANGED <<day, tables, notes>>

DropNotes(c) ==
    /\ <<c, "counted">> \in deleting
    /\ deleting' = (deleting \ {<<c, "counted">>}) \cup {<<c, "cleared">>}
    /\ notes' = notes \ {c}
    /\ UNCHANGED <<day, tables, edits>>

\* Mutant: the tables without their foreign keys.
NeverReferenced(c) == FALSE

Referenced(c) == HasHistory(c) \/ c \in notes

\* The row goes and its tags with it, unless a row refers to it by now.
DropClient(c) ==
    /\ <<c, "cleared">> \in deleting /\ deleting' = deleting \ {<<c, "cleared">>}
    /\ IF Referenced(c) \/ clients[c].gone THEN UNCHANGED <<clients, tags>>
       ELSE /\ clients' = [clients EXCEPT ![c].gone = TRUE]
            /\ tags' = {t \in tags : t[1] # c}
    /\ UNCHANGED <<day, leads, consults, cases, labels, notes, edits>>

SaveConsultation ==
    /\ StaffStep
    /\ \E c \in Live(clients), at \in day .. LastDay, s \in {"requested", "scheduled"} :
          consults' = Append(consults, Consultation(c, at, Price, s, day, "staff"))
    /\ UNCHANGED <<clients, leads, cases, labels, tags>>

MarkCompleted(k, paid) == [k EXCEPT !.status = "completed", !.paid = IF paid THEN "yes" ELSE "no"]

TapStatus ==
    /\ StaffStep
    /\ \E i \in DOMAIN consults :
          \/ \E paid \in BOOLEAN : consults' = [consults EXCEPT ![i] = MarkCompleted(@, paid)]
          \/ \E s \in {"cancelled", "no_show"} : consults' = [consults EXCEPT ![i].status = s]
    /\ UNCHANGED <<clients, leads, cases, labels, tags>>

SaveCase ==
    /\ StaffStep
    /\ \E c \in Live(clients) :
          cases' = Append(cases, CaseRow(c, day, Fee, 0, 0, "in_progress"))
    /\ UNCHANGED <<clients, leads, consults, labels, tags>>

\* Total and payment in one transaction.
AddPayment ==
    /\ StaffStep
    /\ \E i \in DOMAIN cases :
          cases' = [cases EXCEPT ![i].paid = @ + Price, ![i].ledger = @ + Price]
    /\ UNCHANGED <<clients, leads, consults, labels, tags>>

CloseCase ==
    /\ StaffStep
    /\ \E i \in DOMAIN cases : cases' = [cases EXCEPT ![i].status = "completed"]
    /\ UNCHANGED <<clients, leads, consults, labels, tags>>

-----------------------------------------------------------------------------
(* The segments page: what the statement does, what the service lets       *)
(* through, and the request of a page that may be older than the tables.   *)

PinSet(c, s) == clients' = [clients EXCEPT ![c].pin = s]

\* "" clears the pin.
SetOverride(c, s) == s \in Segments \cup {Blank} /\ PinSet(c, s)

SetClientSegmentOverride ==
    /\ StaffStep
    /\ \E c \in Live(clients), s \in {Blank, "lost", "someday"} : SetOverride(c, s)
    /\ UNCHANGED <<leads, consults, cases, labels, tags>>

\* Both keys are checked, and a tag given twice is one.
TagGiven(c, l) == c \in Live(clients) /\ l \in labels /\ tags' = tags \cup {<<c, l>>}

AddTag(c, l) == l # Blank /\ TagGiven(c, l)

AddClientTag ==
    /\ StaffStep
    /\ \E c \in DOMAIN clients, l \in Labels \cup {Blank} : AddTag(c, l)
    /\ UNCHANGED <<clients, leads, consults, cases, labels>>

\* Of a tag that is not there, nothing.
TagTaken(c, l) == tags' = tags \ {<<c, l>>}

RemoveTag(c, l) == TagTaken(c, l)

RemoveClientTag ==
    /\ StaffStep
    /\ \E c \in DOMAIN clients, l \in Labels : RemoveTag(c, l)
    /\ UNCHANGED <<clients, leads, consults, cases, labels>>

LabelAdded(l) == l \notin labels /\ labels' = labels \cup {l}

CreateTagDef(l) == l # Blank /\ LabelAdded(l)

CreateClientTagDef ==
    /\ StaffStep
    /\ \E l \in Labels \cup {Blank} : CreateTagDef(l)
    /\ UNCHANGED <<clients, leads, consults, cases, tags>>

\* Mutant: the tags keep the label they were given.
TagsStay(old, new) == tags

Renamed(old, new) == {IF t[2] = old THEN <<t[1], new>> ELSE t : t \in tags}

\* The clients' tags follow; a label that is in use already is refused, and an
\* update that leaves the label touches the category alone.
LabelChanged(l, n) ==
    /\ l \in labels /\ n \notin labels \ {l}
    /\ labels' = (labels \ {l}) \cup {n} /\ tags' = Renamed(l, n)

UpdateTagDef(l, n) == n # Blank /\ LabelChanged(l, n)

UpdateClientTagDef ==
    /\ StaffStep
    /\ \E l \in Labels, n \in Labels \cup {Blank} : UpdateTagDef(l, n)
    /\ UNCHANGED <<clients, leads, consults, cases>>

\* And the clients' tags with it.
LabelDropped(l) == labels' = labels \ {l} /\ tags' = {t \in tags : t[2] # l}

DeleteTagDef(l) == LabelDropped(l)

DeleteClientTagDef ==
    /\ StaffStep
    /\ \E l \in Labels : DeleteTagDef(l)
    /\ UNCHANGED <<clients, leads, consults, cases>>

\* Only a client without history is deleted.
Deletion == CountHistory \/ \E d \in deleting : DropNotes(d[1]) \/ DropClient(d[1])

StaffNext ==
    \/ CreateClient \/ UpdateClient \/ AddClientNote \/ Deletion
    \/ SaveConsultation \/ TapStatus \/ SaveCase \/ AddPayment \/ CloseCase
    \/ SetClientSegmentOverride \/ AddClientTag \/ RemoveClientTag
    \/ CreateClientTagDef \/ UpdateClientTagDef \/ DeleteClientTagDef

Tick ==
    /\ day < LastDay /\ day' = day + 1
    /\ UNCHANGED <<tables, notes, deleting, edits>>

-----------------------------------------------------------------------------
\* No row names a client that is gone or a label that is not in the vocabulary:
\* a deletion counts the history in one statement and deletes in another, and a
\* lead, a note or an import may come between (ClientDetailRepository.Delete).
ReferencesHold ==
    /\ \A m \in DOMAIN leads : leads[m].client \in Live(clients) \cup {0}
    /\ \A i \in DOMAIN consults : consults[i].client \in Live(clients)
    /\ \A i \in DOMAIN cases : cases[i].client \in Live(clients)
    /\ \A t \in tags : t[1] \in Live(clients) /\ t[2] \in labels
    /\ notes \subseteq Live(clients)
=============================================================================
