------------------------------ MODULE Booking ------------------------------
(***************************************************************************)
(* Consultations: clients hold an hour from the Mini App                   *)
(* (internal/application/clientportal), staff book one in the Telegram bot *)
(* and close it by the buttons under the confirmation, and a ticker sends  *)
(* reminders.  They share the consultations and clients tables, one        *)
(* statement at a time, and the process may die between two of them.       *)
(*                                                                         *)
(* Instants are hours UTC; the grid of the picker is a set of instants     *)
(* (SlotGrid shows which).  Staff type what their wall clock shows.        *)
(***************************************************************************)
EXTENDS Integers, Sequences

CONSTANTS
    Requests,   \* submissions of the Mini App under way at a time
    People,     \* Telegram users
    Phones,     \* phone numbers; a client is the row of a phone
    Grid,       \* the hours of the schedule within the horizon
    Typed,      \* the hours staff type in /book
    Offset,     \* of the firm's wall clock, in hours
    LeadTime,   \* the notice a client has to give
    Before,     \* how long before a consultation its reminders are due
    LastNow,    \* bound on the clock
    MaxRows,    \* bound on the consultations
    DBErrors,   \* may a statement fail?
    AckLoss,    \* may it be applied and yet reported as failed?
    MaxFaults,  \* bound on crashes and failed marks
    Nobody

ASSUME BookingAssumption ==
    /\ Grid \subseteq Int /\ Typed \subseteq Int /\ Offset \in Int
    /\ LeadTime \in Nat /\ Before \in Nat
    /\ LastNow \in Nat /\ MaxRows \in Nat /\ MaxFaults \in Nat
    /\ DBErrors \in BOOLEAN /\ AckLoss \in BOOLEAN
    /\ Nobody \notin People \cup Phones

VARIABLES
    now,     \* the clock
    rows,    \* the consultations table, in order of insertion
    chat,    \* clients.telegram_chat_id
    leads,   \* the hours staff were told of: client and hour
    req,     \* the submissions
    rem,     \* the pass of the reminders
    sends,   \* history: reminders sent per row and recipient
    faults   \* crashes and failed marks so far

vars == <<now, rows, chat, leads, req, rem, sends, faults>>

-----------------------------------------------------------------------------
Statuses == {"requested", "scheduled", "completed", "cancelled", "no_show"}
Kinds == {"client", "advocate"}

\* "meant" is the hour that whoever booked had in mind, "snap" how many rows the
\* insert's condition saw (both history); "keyboard": a confirmation with
\* buttons is in the chat of staff; "told": reminders marked as sent.
Row == [client: Phones, at: Int, meant: Int, status: Statuses, snap: Nat,
        keyboard: BOOLEAN, told: SUBSET Kinds]

Req == [pc: {"idle", "check", "bind", "look", "insert", "lead"},
        person: People \cup {Nobody}, phone: Phones \cup {Nobody}, slot: Int,
        snap: Nat, free: BOOLEAN]

Rem == [pc: {"rest", "send", "mark"}, kind: Kinds, todo: SUBSET (1..MaxRows),
        cur: 0..MaxRows]

Resting == [pc |-> "rest", kind |-> "client", todo |-> {}, cur |-> 0]

TypeOK ==
    /\ now \in Nat
    /\ rows \in Seq(Row) /\ Len(rows) <= MaxRows
    /\ chat \in [Phones -> People \cup {Nobody}]
    /\ leads \subseteq [client: Phones, at: Int]
    /\ req \in [Requests -> Req]
    /\ rem \in Rem
    /\ sends \in [1..MaxRows -> [Kinds -> Nat]]
    /\ faults \in Nat

NoRequest == [pc |-> "idle", person |-> Nobody, phone |-> Nobody,
              slot |-> 0, snap |-> 0, free |-> FALSE]

At(r, pc) == req[r].pc = pc
Goto(r, pc) == req' = [req EXCEPT ![r] = IF pc = "idle" THEN NoRequest
                                                      ELSE [@ EXCEPT !.pc = pc]]

Init ==
    /\ now = 0
    /\ rows = <<>>
    /\ chat = [f \in Phones |-> Nobody]
    /\ leads = {}
    /\ req = [r \in Requests |-> NoRequest]
    /\ rem = Resting
    /\ sends = [i \in 1..MaxRows |-> [k \in Kinds |-> 0]]
    /\ faults = 0

-----------------------------------------------------------------------------
(* The picker and a client's submission.                                   *)

\* Mutant: only what the firm has confirmed takes an hour.
ConfirmedHolds(status) == status = "scheduled"

\* StatusesHoldingSlot.
HoldsSlot(status) == status \in {"requested", "scheduled"}

HeldSlots ==
    {rows[i].at : i \in {j \in 1..Len(rows) :
                            HoldsSlot(rows[j].status) /\ rows[j].at >= now}}

FreeSlots == {s \in Grid : s >= now + LeadTime} \ HeldSlots

\* POST of the form: the hour may come from a picker drawn long ago.
Submit(r, p, f, s) ==
    /\ At(r, "idle")
    /\ req' = [req EXCEPT ![r] = [pc |-> "check", person |-> p, phone |-> f,
                                  slot |-> s, snap |-> 0, free |-> FALSE]]
    /\ UNCHANGED <<now, rows, chat, leads, rem, sends, faults>>

CheckSlot(r) ==
    /\ At(r, "check")
    /\ \/ Goto(r, IF req[r].slot \in FreeSlots THEN "bind" ELSE "idle")
       \/ DBErrors /\ Goto(r, "idle")
    /\ UNCHANGED <<now, rows, chat, leads, rem, sends, faults>>

\* CreateClient finds or creates the row of the phone; SetClientTelegram takes
\* the chat from any other row and binds it, in one transaction.
Bound(f, p) ==
    [g \in Phones |-> IF g = f THEN p ELSE IF chat[g] = p THEN Nobody ELSE chat[g]]

BindClient(r) ==
    /\ At(r, "bind")
    /\ \/ chat' = Bound(req[r].phone, req[r].person) /\ Goto(r, "look")
       \/ DBErrors /\ UNCHANGED chat /\ Goto(r, "idle")
       \/ AckLoss /\ chat' = Bound(req[r].phone, req[r].person) /\ Goto(r, "idle")
    /\ UNCHANGED <<now, rows, leads, rem, sends, faults>>

SlotEmpty(s) == \A i \in 1..Len(rows) : rows[i].at = s => ~HoldsSlot(rows[i].status)

\* HoldSlot is one statement, but its condition reads a snapshot (READ
\* COMMITTED): others may insert before it does.
HoldLooks(r) ==
    /\ At(r, "look")
    /\ req' = [req EXCEPT ![r] = [@ EXCEPT !.pc = "insert", !.snap = Len(rows),
                                           !.free = SlotEmpty(req[r].slot)]]
    /\ UNCHANGED <<now, rows, chat, leads, rem, sends, faults>>

Requested(r) ==
    [client |-> req[r].phone, at |-> req[r].slot, meant |-> req[r].slot,
     status |-> "requested", snap |-> req[r].snap, keyboard |-> FALSE, told |-> {}]

\* Mutant: the row goes in whatever was found.
NextAnyway(r) == "lead"

AfterHold(r) == IF req[r].free THEN "lead" ELSE "idle"

HoldSlot(r) ==
    /\ At(r, "insert") /\ Len(rows) < MaxRows
    /\ IF req[r].free THEN rows' = Append(rows, Requested(r)) ELSE UNCHANGED rows
    /\ Goto(r, AfterHold(r))
    /\ UNCHANGED <<now, chat, leads, rem, sends, faults>>

\* The client sees an error, whether the hour is theirs or not.
HoldSlotFails(r) ==
    /\ At(r, "insert") /\ Len(rows) < MaxRows
    /\ \/ DBErrors /\ UNCHANGED rows
       \/ AckLoss /\ req[r].free /\ rows' = Append(rows, Requested(r))
    /\ Goto(r, "idle")
    /\ UNCHANGED <<now, chat, leads, rem, sends, faults>>

\* A lead that fails is logged: the hour is held all the same.
SubmitLead(r) ==
    /\ At(r, "lead")
    /\ \/ leads' = leads \cup {[client |-> req[r].phone, at |-> req[r].slot]}
       \/ DBErrors /\ UNCHANGED leads
    /\ Goto(r, "idle")
    /\ UNCHANGED <<now, rows, chat, rem, sends, faults>>

-----------------------------------------------------------------------------
(* Staff.                                                                  *)

\* finishBooking: the typed hour is parsed as UTC. Nothing is asked of the
\* table first: the firm may put two clients into one hour.
Book(f, w, status) ==
    /\ Len(rows) < MaxRows
    /\ rows' = Append(rows,
                 [client |-> f, at |-> w, meant |-> w - Offset, status |-> status,
                  snap |-> Len(rows), keyboard |-> status = "scheduled", told |-> {}])
    /\ UNCHANGED <<now, chat, leads, req, rem, sends, faults>>

\* "paid" and "unpaid" both mean completed.
Buttons == {"completed", "cancelled", "no_show"}

\* A tap on one of the buttons, which stay under the message for ever.
TapStatus(i, status) ==
    /\ i \in 1..Len(rows) /\ rows[i].keyboard
    /\ rows' = [rows EXCEPT ![i].status = status]
    /\ UNCHANGED <<now, chat, leads, req, rem, sends, faults>>

\* A client opens their personal link: the chat is bound to their row.
OpenLink(f, p) ==
    /\ chat' = Bound(f, p)
    /\ UNCHANGED <<now, rows, leads, req, rem, sends, faults>>

-----------------------------------------------------------------------------
(* The reminders: one pass after the other.                                *)

Due(kind) ==
    {i \in 1..Len(rows) :
        /\ kind \notin rows[i].told
        /\ rows[i].at > now /\ rows[i].at <= now + Before
        /\ kind = "client" => chat[rows[i].client] # Nobody}

ReadDue(kind) ==
    \/ rem' = [pc |-> "send", kind |-> kind, todo |-> Due(kind), cur |-> 0]
    \/ DBErrors /\ rem' = [pc |-> "send", kind |-> kind, todo |-> {}, cur |-> 0]

SendReminders ==
    /\ rem.pc = "rest"
    /\ ReadDue("client")
    /\ UNCHANGED <<now, rows, chat, leads, req, sends, faults>>

\* The reminder goes out; an error of Telegram is logged and forgotten.
SendReminder(i) ==
    /\ rem.pc = "send" /\ i \in rem.todo
    /\ sends' = [sends EXCEPT ![i][rem.kind] = @ + 1]
    /\ rem' = [rem EXCEPT !.pc = "mark", !.cur = i]
    /\ UNCHANGED <<now, rows, chat, leads, req, faults>>

\* Mutant: the mark of the client's reminder is looked up for both.
MarkedAs(kind) == "client"

Mark(kind) == kind

MarkSent ==
    /\ rem.pc = "mark"
    /\ rem' = [rem EXCEPT !.pc = "send", !.todo = @ \ {rem.cur}, !.cur = 0]
    /\ \/ /\ rows' = [rows EXCEPT ![rem.cur].told = @ \cup {Mark(rem.kind)}]
          /\ UNCHANGED faults
       \/ /\ DBErrors /\ faults < MaxFaults
          /\ faults' = faults + 1
          /\ UNCHANGED rows
    /\ UNCHANGED <<now, chat, leads, req, sends>>

\* Then the advocate's reminders, if an advocate has opened the bot.
RemindersNext ==
    /\ rem.pc = "send" /\ rem.todo = {}
    /\ \/ rem.kind = "client" /\ ReadDue("advocate")
       \/ rem' = Resting
    /\ UNCHANGED <<now, rows, chat, leads, req, sends, faults>>

-----------------------------------------------------------------------------
\* The process dies and is started again.
Crash ==
    /\ faults < MaxFaults
    /\ faults' = faults + 1
    /\ req' = [r \in Requests |-> NoRequest]
    /\ rem' = Resting
    /\ UNCHANGED <<now, rows, chat, leads, sends>>

Tick ==
    /\ now < LastNow
    /\ now' = now + 1
    /\ UNCHANGED <<rows, chat, leads, req, rem, sends, faults>>

Submission(r) ==
    \/ CheckSlot(r) \/ BindClient(r) \/ HoldLooks(r)
    \/ HoldSlot(r) \/ HoldSlotFails(r) \/ SubmitLead(r)

Reminders ==
    \/ SendReminders
    \/ \E i \in 1..MaxRows : SendReminder(i)
    \/ MarkSent \/ RemindersNext

Staff ==
    \/ \E f \in Phones, w \in Typed, s \in {"scheduled", "completed"} : Book(f, w, s)
    \/ \E i \in 1..MaxRows, s \in Buttons : TapStatus(i, s)

Next ==
    \/ \E r \in Requests, p \in People, f \in Phones, s \in Grid : Submit(r, p, f, s)
    \/ \E r \in Requests : Submission(r)
    \/ Staff
    \/ \E f \in Phones, p \in People : OpenLink(f, p)
    \/ Reminders
    \/ Crash
    \/ Tick

Spec == Init /\ [][Next]_vars

-----------------------------------------------------------------------------
(* Safety.                                                                 *)

Holding(i) == rows[i].status \in {"requested", "scheduled"}

\* A client is given an hour that somebody else holds only if the two inserts
\* overlapped: the row of the other was not there yet when the condition of
\* HoldSlot was evaluated. No later tap brings a row back that had given its
\* hour up (HoldSlot's NOT EXISTS, UpdateStatus, MarkCompleted).
HourGivenOnce ==
    \A i, j \in 1..Len(rows) :
        /\ i < j /\ rows[i].at = rows[j].at
        /\ Holding(i) /\ rows[j].status = "requested"
        => rows[j].snap < i

\* Staff are never told of an hour that its client does not have: the slot is
\* held before the lead is filed, and a lost race files none (Submit).
LeadHasHour ==
    \A l \in leads :
        \E i \in 1..Len(rows) : rows[i].client = l.client /\ rows[i].at = l.at

\* An hour that staff have put a client into, as they read it off their clock, is
\* off the picker until the consultation is closed: a status that holds an hour
\* takes it off the picker (StatusesHoldingSlot, finishBooking, HeldSlots). It does
\* not hold where that clock is ahead of UTC, in which finishBooking reads what is
\* typed: a run shows the hour on offer.
StaffHourLeavesPicker ==
    \A i \in 1..Len(rows) : rows[i].status = "scheduled" => rows[i].meant \notin FreeSlots

\* Nobody is reminded twice of one consultation, unless a crash or a failed mark
\* came between a reminder and its mark (SendReminders).
RemindedOnce ==
    \A i \in 1..MaxRows, k \in Kinds : sends[i][k] <= 1 + faults

\* What is marked as sent was sent (SendReminders, MarkReminderSent).
MarkedWasSent ==
    \A i \in 1..Len(rows) : \A k \in rows[i].told : sends[i][k] >= 1

-----------------------------------------------------------------------------
(* The inductive invariants behind the safety properties.                  *)

\* What a statement of HoldSlot saw of the rows before it is still so.
SnapshotOK(r) ==
    /\ req[r].pc # "idle" => req[r].phone \in Phones
    /\ req[r].pc = "insert" =>
         /\ req[r].snap <= Len(rows)
         /\ req[r].free => \A i \in 1..req[r].snap :
                               rows[i].at = req[r].slot => ~Holding(i)

\* A submission that files a lead has its row.
RowBehind(f, s) ==
    \E i \in 1..Len(rows) : rows[i].client = f /\ rows[i].at = s

HourInv ==
    /\ \A r \in Requests : SnapshotOK(r)
    /\ \A r \in Requests : req[r].pc = "lead" => RowBehind(req[r].phone, req[r].slot)
    /\ \A i \in 1..Len(rows) : rows[i].keyboard => rows[i].status # "requested"
    /\ HourGivenOnce /\ LeadHasHour

\* The reminder that was sent and not yet marked.
Unmarked(i, k) == rem.pc = "mark" /\ rem.cur = i /\ rem.kind = k

Told(i, k) == i \in 1..Len(rows) /\ k \in rows[i].told

RemindInv ==
    /\ rem.todo \subseteq 1..Len(rows)
    /\ \A i \in rem.todo : ~Told(i, rem.kind)
    /\ rem.pc = "mark" => rem.cur \in rem.todo /\ sends[rem.cur][rem.kind] >= 1
    /\ \A i \in 1..MaxRows, k \in Kinds :
          sends[i][k] <= faults + IF Told(i, k) \/ Unmarked(i, k) THEN 1 ELSE 0
    /\ MarkedWasSent

BookingInv == TypeOK /\ HourInv /\ RemindInv

\* A consultation that is waited for stands at the hour the clock of staff showed.
ScheduledAsTyped ==
    \A i \in 1..Len(rows) : rows[i].status = "scheduled" => rows[i].meant = rows[i].at - Offset
=============================================================================
