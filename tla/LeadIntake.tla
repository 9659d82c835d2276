----------------------------- MODULE LeadIntake -----------------------------
(***************************************************************************)
(* How a lead arrives (application/webleads): a ticker polls the mailbox   *)
(* and submits every unseen mail, the bot's form and the Mini App submit   *)
(* theirs; each is announced in the staff's group, stored, written to the  *)
(* sheet. Every call may fail, be carried out with its answer lost, or be  *)
(* the last before the process dies; only the mailbox is asked again. What *)
(* marks a lead or a mail is only logged when it fails, so a lost answer   *)
(* there is as good as none. Staff tap what a lead is about on its         *)
(* announcement.                                                           *)
(***************************************************************************)
EXTENDS ClientBase

CONSTANTS
    Mails,       \* by UID, the order in which a poll works through them
    Requests,    \* of clients in the bot or the Mini App
    IdOfLead,    \* Mails and Requests -> message_id; mails may share one
    PhoneOf,     \* Mails and Requests -> the phone they give, or none
    Areas,       \* PracticeAreas
    Poller,
    MaxFaults    \* bounds calls that fail, answers lost and crashes

ASSUME LeadIntakeAssumption ==
    /\ Mails \subseteq Nat /\ IsFiniteSet(Mails) /\ IsFiniteSet(Requests) /\ Mails \cap Requests = {}
    /\ PhoneOf \in [Mails \cup Requests -> Phones \cup {NoPhone}]
    /\ DOMAIN IdOfLead = Mails \cup Requests
    /\ Poller \notin Requests
    /\ \A r \in Requests, s \in Mails \cup Requests : IdOfLead[r] = IdOfLead[s] => r = s

VARIABLES
    inbox, seen, \* mails that have come, and those with \Seen
    group,       \* the announcements, a telegram_message_id being the place
    sheet,       \* rows written per submission
    batch,       \* mails the poll has fetched and not dealt with
    sub,         \* the submissions under way
    again,       \* history, per submission: announcements nothing came of
    unsaved,     \* history: submissions whose row was not stored
    taps,        \* history, per announcement: the area staff were told is saved
    faults

intake == <<inbox, seen, group, sheet, batch, sub, again, unsaved, taps, faults>>

Sources == Mails \cup Requests
Submitters == Requests \cup {Poller}

\* A submission in the hands of a goroutine.
Doing(pc, m, c, tg) == [pc |-> pc, msg |-> m, client |-> c, tg |-> tg]
Waiting == Doing("idle", 0, 0, 0)

IntakeInit ==
    /\ inbox = {} /\ seen = {}
    /\ group = <<>> /\ sheet = [m \in Sources |-> 0]
    /\ batch = {} /\ sub = [s \in Submitters |-> Waiting]
    /\ again = [m \in Sources |-> 0] /\ unsaved = {}
    /\ taps = <<>> /\ faults = 0

Fault == faults < MaxFaults /\ faults' = faults + 1

-----------------------------------------------------------------------------
(* ProcessNewLeads.                                                        *)

Arrive ==
    /\ \E m \in Mails \ inbox : inbox' = inbox \cup {m}
    /\ UNCHANGED <<seen, group, sheet, batch, sub, again, unsaved, taps, faults, tables>>

\* Only with \Seen unset, and without setting it.
FetchUnseen ==
    /\ sub[Poller].pc = "idle" /\ batch = {} /\ inbox \ seen # {}
    /\ batch' = inbox \ seen
    /\ UNCHANGED <<inbox, seen, group, sheet, sub, again, unsaved, taps, faults, tables>>

TakeMail ==
    /\ sub[Poller].pc = "idle" /\ batch # {}
    /\ sub' = [sub EXCEPT ![Poller] = Doing("resolve", Min(batch), 0, 0)]
    /\ batch' = batch \ {Min(batch)}
    /\ UNCHANGED <<inbox, seen, group, sheet, again, unsaved, taps, faults, tables>>

\* A request comes once, under an id of its own.
Submit ==
    /\ \E r \in Requests :
          /\ sub[r] = Waiting
          /\ sub' = [sub EXCEPT ![r] = Doing("resolve", r, 0, 0)]
    /\ UNCHANGED <<inbox, seen, group, sheet, batch, again, unsaved, taps, faults, tables>>

-----------------------------------------------------------------------------
(* SubmitLead. *)

Go(s, pc) == sub' = [sub EXCEPT ![s].pc = pc]

\* Without a client the lead goes on, also when the client was made and the
\* answer lost.
ResolveClient(s) ==
    LET p == PhoneOf[sub[s].msg] IN
    /\ sub[s].pc = "resolve"
    /\ \/ /\ p # NoPhone
          /\ clients' = Resolved(clients, p)
          /\ sub' = [sub EXCEPT ![s].pc = "send", ![s].client = ResolvedId(clients, p)]
          /\ UNCHANGED faults
       \/ /\ p = NoPhone \/ faults < MaxFaults
          /\ faults' = IF p = NoPhone THEN faults ELSE faults + 1
          /\ Go(s, "send")
          /\ \/ UNCHANGED clients
             \/ p # NoPhone /\ clients' = Resolved(clients, p)
    /\ UNCHANGED <<inbox, seen, group, sheet, batch, again, unsaved, taps,
                   leads, consults, cases, labels, tags>>

\* What a submission ends with: the poller turns to the next mail, a client has
\* an answer.
Ended(s, answer) == IF s = Poller THEN Waiting ELSE Doing(answer, s, 0, 0)

Announce(m) == group' = Append(group, m) /\ taps' = Append(taps, Blank)

\* Mutant: a mail that could not be announced is marked, too.
MarkedAnyway(s) == IF s = Poller THEN [sub[s] EXCEPT !.pc = "seen"] ELSE Ended(s, "refused")

AfterRefusal(s) == Ended(s, "refused")

SendMessage(s) ==
    LET m == sub[s].msg IN
    /\ sub[s].pc = "send"
    /\ \/ /\ Announce(m)
          /\ sub' = [sub EXCEPT ![s].pc = "save", ![s].tg = Len(group) + 1]
          /\ UNCHANGED <<again, faults>>
       \/ /\ Fault /\ sub' = [sub EXCEPT ![s] = AfterRefusal(s)]
          /\ \/ UNCHANGED <<group, taps, again>>
             \/ Announce(m) /\ again' = [again EXCEPT ![m] = @ + 1]
    /\ UNCHANGED <<inbox, seen, sheet, batch, unsaved, tables>>

\* The poller still has its mail to mark.
Submitted(s) == IF s = Poller THEN [sub[s] EXCEPT !.pc = "seen"] ELSE Ended(s, "accepted")

\* Mutant: the insert without its conflict clause, as an update.
AlwaysStored(i, row) == WithRow(leads, i, row)

\* A second mail of the same id, or the same mail again, stores nothing.
Stored(i, row) == IF i \in DOMAIN leads THEN leads ELSE WithRow(leads, i, row)

\* The client may be gone by now: the row is refused. After an error, even of a
\* row that is stored, the sheet is left out.
Save(s) ==
    LET i == IdOfLead[sub[s].msg]
        refused == sub[s].client \notin Live(clients) \cup {0} /\ i \notin DOMAIN leads
    IN
    /\ sub[s].pc = "save"
    /\ \/ /\ ~refused
          /\ leads' = Stored(i, [Lead(sub[s].client, day) EXCEPT !.tg = sub[s].tg])
          /\ Go(s, "append") /\ UNCHANGED <<unsaved, faults>>
       \/ /\ \/ Fault
             \/ refused /\ UNCHANGED faults
          /\ sub' = [sub EXCEPT ![s] = Submitted(s)]
          /\ unsaved' = unsaved \cup {sub[s].msg} /\ UNCHANGED leads
       \/ /\ ~refused /\ Fault
          /\ leads' = Stored(i, [Lead(sub[s].client, day) EXCEPT !.tg = sub[s].tg])
          /\ sub' = [sub EXCEPT ![s] = Submitted(s)] /\ UNCHANGED unsaved
    /\ UNCHANGED <<inbox, seen, group, sheet, batch, again, taps,
                   clients, consults, cases, labels, tags>>

AppendRow(s) ==
    LET m == sub[s].msg IN
    /\ sub[s].pc = "append"
    /\ \/ sheet' = [sheet EXCEPT ![m] = @ + 1] /\ Go(s, "sync") /\ UNCHANGED faults
       \/ /\ Fault /\ sub' = [sub EXCEPT ![s] = Submitted(s)]
          /\ sheet' \in {sheet, [sheet EXCEPT ![m] = @ + 1]}
    /\ UNCHANGED <<inbox, seen, group, batch, again, unsaved, taps, tables>>

MarkSheetSynced(s) ==
    /\ sub[s].pc = "sync" /\ sub' = [sub EXCEPT ![s] = Submitted(s)]
    /\ \/ leads' = [leads EXCEPT ![IdOfLead[sub[s].msg]].synced = TRUE] /\ UNCHANGED faults
       \/ Fault /\ UNCHANGED leads
    /\ UNCHANGED <<inbox, seen, group, sheet, batch, again, unsaved, taps,
                   clients, consults, cases, labels, tags>>

\* If it fails the mail is announced once more at the next poll.
MarkSeen ==
    LET m == sub[Poller].msg IN
    /\ sub[Poller].pc = "seen" /\ sub' = [sub EXCEPT ![Poller] = Waiting]
    /\ \/ seen' = seen \cup {m} /\ UNCHANGED <<again, faults>>
       \/ Fault /\ again' = [again EXCEPT ![m] = @ + 1] /\ UNCHANGED seen
    /\ UNCHANGED <<inbox, group, sheet, batch, unsaved, taps, tables>>

-----------------------------------------------------------------------------
Told(s) == sub[s].pc \in {"save", "append", "sync", "seen"}

\* The process dies: what was under way is forgotten.
Crash ==
    /\ Fault
    /\ batch' = {}
    /\ sub' = [s \in Submitters |->
                  IF sub[s].pc \in {"idle", "accepted", "refused"} THEN sub[s]
                  ELSE Ended(s, "refused")]
    /\ again' = [m \in Sources |->
                    again[m] + Cardinality({s \in Submitters : Told(s) /\ sub[s].msg = m})]
    /\ UNCHANGED <<inbox, seen, group, sheet, unsaved, taps, tables>>

\* Mutant: the lead is looked for by the mail behind the announcement.
BySameMail(tg) == {i \in DOMAIN leads : \E m \in Sources : IdOfLead[m] = i /\ group[tg] = m}

AnnouncedAs(tg) == {i \in DOMAIN leads : leads[i].tg = tg}

\* No lead is known by the tapped message before it is stored, and none ever by
\* a second announcement: staff see that nothing was saved.
SetPracticeArea ==
    /\ StaffStep
    /\ \E tg \in DOMAIN group, a \in Areas :
          IF AnnouncedAs(tg) = {} THEN UNCHANGED <<leads, taps>>
          ELSE /\ leads' = [i \in DOMAIN leads |->
                               IF i \in AnnouncedAs(tg) THEN [leads[i] EXCEPT !.area = a]
                               ELSE leads[i]]
               /\ taps' = [taps EXCEPT ![tg] = a]
    /\ UNCHANGED <<inbox, seen, group, sheet, batch, sub, again, unsaved, faults,
                   clients, consults, cases, labels, tags>>

PollStep ==
    \/ FetchUnseen \/ TakeMail \/ MarkSeen
    \/ ResolveClient(Poller) \/ SendMessage(Poller) \/ Save(Poller)
    \/ AppendRow(Poller) \/ MarkSheetSynced(Poller)

IntakeNext ==
    \/ Arrive \/ Submit
    \/ PollStep
    \/ \E r \in Requests : \/ ResolveClient(r) \/ SendMessage(r) \/ Save(r)
                           \/ AppendRow(r) \/ MarkSheetSynced(r)
    \/ Crash

-----------------------------------------------------------------------------
Announced(m) == Cardinality({t \in DOMAIN group : group[t] = m})

\* It came through, or is on its way with the announcement out.
Through(m) ==
    IF \/ m \in seen \/ (m \in Requests /\ sub[m].pc = "accepted")
       \/ \E s \in Submitters : Told(s) /\ sub[s].msg = m
    THEN 1 ELSE 0

Dealt(m) == m \in seen \/ (m \in Requests /\ sub[m].pc = "accepted")

\* A mail is marked seen and a client told "accepted" only after the group has
\* the announcement, and the group has one more for every call or process that
\* failed after it (ProcessNewLeads).
AnnouncedAsCounted == \A m \in Sources : Announced(m) = again[m] + Through(m)

\* A submission that is dealt with is in the table under its id, unless its own
\* insert was refused: nothing stores it later (SubmitLead).
StoredOrRefused ==
    \A m \in Sources : Dealt(m) => IdOfLead[m] \in DOMAIN leads \/ m \in unsaved

\* The sheet has rows of stored leads alone, at most one per announcement, and
\* a lead that was announced and counts as synced has one.
SheetFollows ==
    /\ \A m \in Sources : sheet[m] > 0 => IdOfLead[m] \in DOMAIN leads
    /\ \A m \in Sources : sheet[m] <= Announced(m)
    /\ \A i \in DOMAIN leads :
          leads[i].synced /\ leads[i].tg # 0 => \E m \in Sources : IdOfLead[m] = i /\ sheet[m] > 0

\* A lead's announcement is its own, and its area is what staff were last told
\* is saved under that announcement (SetPracticeArea).
AreaAsTapped ==
    /\ \A i \in DOMAIN leads :
          leads[i].tg # 0 => IdOfLead[group[leads[i].tg]] = i /\ leads[i].area = taps[leads[i].tg]
    /\ \A t \in DOMAIN taps : taps[t] # Blank => \E i \in DOMAIN leads : leads[i].tg = t

\* Staff, the sheet and the table tell of the same leads, whatever failed between
\* announcing a lead, storing it and marking its mail (handleLead, ProcessNewLeads).
LeadsAccounted == AnnouncedAsCounted /\ StoredOrRefused /\ SheetFollows /\ AreaAsTapped

\* Every mail that came is announced and marked in the end, whatever failed on
\* the way (ProcessNewLeads retries at the next poll).
EveryMailArrives == \A m \in Mails : m \in inbox ~> m \in seen /\ Announced(m) > 0

-----------------------------------------------------------------------------
(* The inductive invariant behind LeadsAccounted. *)

LeadRow == [client: Nat, day: Days, area: Areas \cup {Blank}, tg: Nat, synced: BOOLEAN]

Work == [pc: {"idle", "resolve", "send", "save", "append", "sync", "seen", "accepted", "refused"},
         msg: Sources \cup {0}, client: Nat, tg: Nat]

IntakeTypeOK ==
    /\ leads \in [DOMAIN leads -> LeadRow] /\ IsFiniteSet(DOMAIN leads)
    /\ inbox \subseteq Mails /\ seen \subseteq Mails /\ batch \subseteq inbox
    /\ IsFiniteSet(inbox)
    /\ group \in Seq(Sources) /\ taps \in Seq(Areas \cup {Blank}) /\ Len(taps) = Len(group)
    /\ sheet \in [Sources -> Nat] /\ again \in [Sources -> Nat]
    /\ sub \in [Submitters -> Work] /\ unsaved \subseteq Sources /\ faults \in Nat

\* Nobody else works on the message of a submission.
OwnMessage(s) ==
    /\ s = Poller => /\ sub[s].pc \notin {"accepted", "refused"}
                     /\ sub[s].pc # "idle" => sub[s].msg \in Mails \ (seen \cup batch)
    /\ s # Poller => /\ sub[s].pc # "seen"
                     /\ sub[s].pc # "idle" => sub[s].msg = s

\* What a submission has done is there.
StepOK(s) ==
    LET w == sub[s] IN
    /\ w.pc = "save" => /\ w.tg \in DOMAIN group /\ group[w.tg] = w.msg
                        /\ \A i \in DOMAIN leads : leads[i].tg # w.tg
    /\ w.pc \in {"append", "sync"} => IdOfLead[w.msg] \in DOMAIN leads
    /\ w.pc = "sync" => sheet[w.msg] > 0
    /\ w.pc = "seen" => IdOfLead[w.msg] \in DOMAIN leads \/ w.msg \in unsaved

\* The announcement that counts has its row in the sheet or has done without.
Written(m) ==
    Dealt(m) \/ \E s \in Submitters : sub[s].pc \in {"sync", "seen"} /\ sub[s].msg = m

CountInv ==
    /\ AnnouncedAsCounted
    /\ \A m \in Sources : sheet[m] <= again[m] + (IF Written(m) THEN 1 ELSE 0)

TableInv ==
    /\ StoredOrRefused
    /\ \A m \in Sources : sheet[m] > 0 => IdOfLead[m] \in DOMAIN leads
    /\ \A i \in DOMAIN leads :
          leads[i].synced /\ leads[i].tg # 0 => \E m \in Sources : IdOfLead[m] = i /\ sheet[m] > 0

TapInv ==
    /\ \A i \in DOMAIN leads : leads[i].tg # 0 => leads[i].tg \in DOMAIN group
    /\ AreaAsTapped

IntakeInv ==
    /\ IntakeTypeOK
    /\ batch \cap seen = {}
    /\ \A s \in Submitters : OwnMessage(s) /\ StepOK(s)
    /\ CountInv /\ TableInv /\ TapInv
=============================================================================
