--------------------------- MODULE Booking_proofs ---------------------------
(***************************************************************************)
(* That an hour is given once, that staff hear only of hours that are held,*)
(* and that a reminder is repeated only after a fault, for any number of   *)
(* submissions, people, hours and consultations.  The inductive invariant  *)
(* is BookingInv: what HoldSlot's condition saw of the rows before it is   *)
(* still so, and every reminder beyond the marked ones is one being marked *)
(* or cost a fault.                                                        *)
(***************************************************************************)
EXTENDS Booking, SequenceTheorems, TLAPS

-----------------------------------------------------------------------------
(* What a step does to the consultations: nothing, one more, or one closed *)
(* or marked.                                                              *)

Added(x) ==
  /\ Len(rows) < MaxRows
  /\ rows' = Append(rows, x)
  /\ x.told = {}
  /\ x.keyboard => x.status # "requested"
  /\ x.status = "scheduled" => x.meant = x.at - Offset
  /\ x.status = "requested" =>
        \E r \in Requests : req[r].pc = "insert" /\ req[r].free /\ x = Requested(r)

Changed(i, x) ==
  /\ rows' = [rows EXCEPT ![i] = x]
  /\ x.client = rows[i].client /\ x.at = rows[i].at /\ x.meant = rows[i].meant
  /\ x.snap = rows[i].snap /\ x.keyboard = rows[i].keyboard
  /\ \/ x.told = rows[i].told
     \/ MarkSent /\ i = rem.cur /\ x.told = rows[i].told \cup {rem.kind}
  /\ \/ x.status = rows[i].status
     \/ rows[i].keyboard /\ x.status \in Buttons

LEMMA RequestedIsRow ==
  ASSUME BookingInv, NEW r \in Requests, req[r].pc = "insert"
  PROVE  Requested(r) \in Row
<1>1. req[r] \in Req /\ req[r].phone \in Phones
  BY DEF BookingInv, TypeOK, HourInv, SnapshotOK
<1>2. QED
  BY <1>1 DEF Requested, Row, Req, Statuses

LEMMA BookAdds ==
  ASSUME BookingInv, NEW f \in Phones, NEW w \in Typed,
         NEW s \in {"scheduled", "completed"}, Book(f, w, s)
  PROVE  \E x \in Row : Added(x)
<1> DEFINE x == [client |-> f, at |-> w, meant |-> w - Offset, status |-> s,
                 snap |-> Len(rows), keyboard |-> s = "scheduled", told |-> {}]
<1>1. w \in Int /\ w - Offset \in Int /\ Len(rows) \in Nat
  BY BookingAssumption DEF BookingInv, TypeOK
<1>2. x \in Row
  BY <1>1 DEF Row, Statuses
<1>3. Added(x)
  BY DEF Book, Added
<1>4. QED
  BY <1>2, <1>3

LEMMA HoldAdds ==
  ASSUME BookingInv, NEW r \in Requests, req[r].pc = "insert", req[r].free,
         Len(rows) < MaxRows, rows' = Append(rows, Requested(r))
  PROVE  \E x \in Row : Added(x)
<1>1. Requested(r) \in Row
  BY RequestedIsRow
<1>2. Added(Requested(r))
  BY DEF Added, Requested
<1>3. QED
  BY <1>1, <1>2

LEMMA TapChanges ==
  ASSUME BookingInv, NEW i \in 1..MaxRows, NEW s \in Buttons, TapStatus(i, s)
  PROVE  \E j \in 1..Len(rows) : \E x \in Row : Changed(j, x)
<1> DEFINE x == [rows[i] EXCEPT !.status = s]
<1>1. i \in 1..Len(rows) /\ rows[i] \in Row /\ rows[i].keyboard
  BY DEF TapStatus, BookingInv, TypeOK
<1>2. x \in Row
  BY <1>1 DEF Row, Statuses, Buttons
<1>3. rows' = [rows EXCEPT ![i] = x]
  BY DEF TapStatus
<1>4. Changed(i, x)
  BY <1>1, <1>3 DEF Changed, Row
<1>5. QED
  BY <1>1, <1>2, <1>4

LEMMA MarkChanges ==
  ASSUME BookingInv, MarkSent,
         rows' = [rows EXCEPT ![rem.cur].told = @ \cup {Mark(rem.kind)}]
  PROVE  /\ rem.cur \in 1..Len(rows)
         /\ [rows[rem.cur] EXCEPT !.told = @ \cup {rem.kind}] \in Row
         /\ Changed(rem.cur, [rows[rem.cur] EXCEPT !.told = @ \cup {rem.kind}])
<1> DEFINE x == [rows[rem.cur] EXCEPT !.told = @ \cup {rem.kind}]
<1>1. rem.cur \in 1..Len(rows) /\ rem.kind \in Kinds
  BY DEF BookingInv, RemindInv, TypeOK, Rem, MarkSent
<1>2. rows[rem.cur] \in Row
  BY <1>1 DEF BookingInv, TypeOK
<1>3. x \in Row
  BY <1>1, <1>2 DEF Row
<1>4. rows' = [rows EXCEPT ![rem.cur] = x]
  BY DEF Mark
<1>5. Changed(rem.cur, x)
  BY <1>2, <1>4 DEF Changed, Row
<1>6. QED
  BY <1>1, <1>3, <1>5

LEMMA RowsStep ==
  ASSUME BookingInv, [Next]_vars
  PROVE  \/ UNCHANGED rows
         \/ \E x \in Row : Added(x)
         \/ \E i \in 1..Len(rows) : \E x \in Row : Changed(i, x)
<1>1. CASE UNCHANGED vars
  BY <1>1 DEF vars
<1>2. CASE \E r \in Requests, p \in People, f \in Phones, s \in Grid : Submit(r, p, f, s)
  BY <1>2 DEF Submit
<1>3. ASSUME NEW r \in Requests, Submission(r)
      PROVE  UNCHANGED rows \/ \E x \in Row : Added(x)
  <2>1. CASE CheckSlot(r) \/ BindClient(r) \/ HoldLooks(r) \/ SubmitLead(r)
    BY <2>1 DEF CheckSlot, BindClient, HoldLooks, SubmitLead
  <2>2. CASE HoldSlot(r)
    BY <2>2, HoldAdds DEF HoldSlot, At
  <2>3. CASE HoldSlotFails(r)
    BY <2>3, HoldAdds DEF HoldSlotFails, At
  <2>4. QED
    BY <1>3, <2>1, <2>2, <2>3 DEF Submission
<1>4. CASE Staff
  BY <1>4, BookAdds, TapChanges DEF Staff
<1>5. CASE \E f \in Phones, p \in People : OpenLink(f, p)
  BY <1>5 DEF OpenLink
<1>6. CASE Reminders
  <2>1. CASE SendReminders \/ RemindersNext \/ \E i \in 1..MaxRows : SendReminder(i)
    BY <2>1 DEF SendReminders, RemindersNext, SendReminder
  <2>2. CASE MarkSent
    BY <2>2, MarkChanges DEF MarkSent
  <2>3. QED
    BY <1>6, <2>1, <2>2 DEF Reminders
<1>7. CASE Crash \/ Tick
  BY <1>7 DEF Crash, Tick
<1>8. QED
  BY <1>1, <1>2, <1>3, <1>4, <1>5, <1>6, <1>7 DEF Next

\* What every step leaves of the rows there were.
LEMMA RowsKept ==
  ASSUME BookingInv, [Next]_vars
  PROVE  /\ rows' \in Seq(Row) /\ Len(rows') <= MaxRows
         /\ Len(rows) <= Len(rows')
         /\ \A i \in 1..Len(rows) :
              /\ rows'[i].client = rows[i].client /\ rows'[i].at = rows[i].at
              /\ rows'[i].snap = rows[i].snap /\ rows'[i].keyboard = rows[i].keyboard
              /\ \/ rows'[i].told = rows[i].told
                 \/ MarkSent /\ i = rem.cur /\ rows'[i].told = rows[i].told \cup {rem.kind}
              /\ \/ rows'[i].status = rows[i].status
                 \/ rows[i].keyboard /\ rows'[i].status \in Buttons
         /\ \A i \in 1..Len(rows') \ 1..Len(rows) :
              /\ i = Len(rows) + 1 /\ Added(rows'[i])
<1>0. rows \in Seq(Row) /\ Len(rows) \in Nat /\ Len(rows) <= MaxRows /\ MaxRows \in Nat
  BY BookingAssumption DEF BookingInv, TypeOK
<1>1. CASE UNCHANGED rows
  BY <1>0, <1>1
<1>2. ASSUME NEW x \in Row, Added(x)
      PROVE  /\ rows' \in Seq(Row) /\ Len(rows') = Len(rows) + 1 /\ Len(rows') <= MaxRows
             /\ \A i \in 1..Len(rows) : rows'[i] = rows[i]
             /\ rows'[Len(rows) + 1] = x
  <2>1. rows' = Append(rows, x) /\ Len(rows) < MaxRows
    BY <1>2 DEF Added
  <2>2. QED
    BY <1>0, <2>1, AppendProperties
<1>3. CASE \E x \in Row : Added(x)
  BY <1>0, <1>2, <1>3
<1>4. ASSUME NEW k \in 1..Len(rows), NEW x \in Row, Changed(k, x)
      PROVE  /\ rows' \in Seq(Row) /\ Len(rows') = Len(rows)
             /\ \A j \in 1..Len(rows) : rows'[j] = IF j = k THEN x ELSE rows[j]
  <2>1. rows' = [rows EXCEPT ![k] = x]
    BY <1>4 DEF Changed
  <2>2. QED
    BY <1>0, <2>1, ExceptSeq
<1>5. CASE \E k \in 1..Len(rows) : \E x \in Row : Changed(k, x)
  <2>1. PICK k \in 1..Len(rows) : \E x \in Row : Changed(k, x)
    BY <1>5
  <2>2. PICK x \in Row : Changed(k, x)
    BY <2>1
  <2>3. /\ rows' \in Seq(Row) /\ Len(rows') = Len(rows)
        /\ \A j \in 1..Len(rows) : rows'[j] = IF j = k THEN x ELSE rows[j]
    BY <2>2, <1>4
  <2>4. QED
    BY <1>0, <2>2, <2>3 DEF Changed
<1>6. QED
  BY <1>1, <1>3, <1>5, RowsStep

-----------------------------------------------------------------------------
(* Types.                                                                  *)

LEMMA TypesInit == Init => TypeOK
<1> SUFFICES ASSUME Init PROVE TypeOK
  OBVIOUS
<1>1. Resting \in Rem
  BY BookingAssumption DEF Resting, Rem, Kinds
<1>2. NoRequest \in Req
  BY DEF NoRequest, Req
<1>3. rows \in Seq(Row) /\ Len(rows) <= MaxRows
  BY BookingAssumption DEF Init
<1>4. QED
  BY <1>1, <1>2, <1>3 DEF Init, TypeOK

LEMMA GotoType ==
  ASSUME req \in [Requests -> Req], NEW r \in Requests, NEW pc,
         pc \in {"idle", "check", "bind", "look", "insert", "lead"}, Goto(r, pc)
  PROVE  req' \in [Requests -> Req]
<1>1. NoRequest \in Req
  BY DEF NoRequest, Req
<1>2. [req[r] EXCEPT !.pc = pc] \in Req
  BY DEF Req
<1>3. QED
  BY <1>1, <1>2 DEF Goto

LEMMA ChatType ==
  ASSUME chat \in [Phones -> People \cup {Nobody}], NEW f,
         NEW p \in People \cup {Nobody}
  PROVE  Bound(f, p) \in [Phones -> People \cup {Nobody}]
BY DEF Bound

LEMMA SubmissionType ==
  ASSUME BookingInv, NEW r \in Requests, Submission(r)
  PROVE  /\ req' \in [Requests -> Req]
         /\ chat' \in [Phones -> People \cup {Nobody}]
         /\ leads' \subseteq [client: Phones, at: Int]
         /\ UNCHANGED <<now, rem, sends, faults>>
<1>0. /\ req \in [Requests -> Req] /\ req[r] \in Req
      /\ chat \in [Phones -> People \cup {Nobody}]
      /\ leads \subseteq [client: Phones, at: Int]
  BY DEF BookingInv, TypeOK
<1>1. CASE CheckSlot(r)
  BY <1>0, <1>1, GotoType DEF CheckSlot
<1>2. CASE BindClient(r)
  <2>1. Bound(req[r].phone, req[r].person) \in [Phones -> People \cup {Nobody}]
    BY <1>0, ChatType DEF Req
  <2>2. QED
    BY <1>0, <1>2, <2>1, GotoType DEF BindClient
<1>3. CASE HoldLooks(r)
  <2>1. SlotEmpty(req[r].slot) \in BOOLEAN
    BY DEF SlotEmpty
  <2>2. Len(rows) \in Nat
    BY DEF BookingInv, TypeOK
  <2>3. [req[r] EXCEPT !.pc = "insert", !.snap = Len(rows),
                       !.free = SlotEmpty(req[r].slot)] \in Req
    BY <1>0, <2>1, <2>2 DEF Req
  <2>4. QED
    BY <1>0, <1>3, <2>3 DEF HoldLooks
<1>4. CASE HoldSlot(r)
  <2>1. AfterHold(r) \in {"lead", "idle"}
    BY DEF AfterHold
  <2>2. QED
    BY <1>0, <1>4, <2>1, GotoType DEF HoldSlot
<1>5. CASE HoldSlotFails(r)
  BY <1>0, <1>5, GotoType DEF HoldSlotFails
<1>6. CASE SubmitLead(r)
  <2>1. req[r].pc = "lead"
    BY <1>6 DEF SubmitLead, At
  <2>2. req[r].phone \in Phones /\ req[r].slot \in Int
    BY <1>0, <2>1 DEF BookingInv, HourInv, SnapshotOK, Req
  <2>3. QED
    BY <1>0, <1>6, <2>2, GotoType DEF SubmitLead
<1>7. QED
  BY <1>1, <1>2, <1>3, <1>4, <1>5, <1>6 DEF Submission

LEMMA RemindersType ==
  ASSUME BookingInv, Reminders
  PROVE  /\ rem' \in Rem
         /\ sends' \in [1..MaxRows -> [Kinds -> Nat]]
         /\ faults' \in Nat
         /\ UNCHANGED <<now, chat, leads, req>>
<1>0. /\ rem \in Rem /\ sends \in [1..MaxRows -> [Kinds -> Nat]] /\ faults \in Nat
      /\ Len(rows) \in Nat /\ Len(rows) <= MaxRows /\ MaxRows \in Nat
  BY BookingAssumption DEF BookingInv, TypeOK
<1>1. UNCHANGED <<now, chat, leads, req>>
  BY DEF Reminders, SendReminders, RemindersNext, SendReminder, MarkSent
<1>2. faults' \in Nat
  <2>1. faults' = faults \/ faults' = faults + 1
    BY DEF Reminders, SendReminders, RemindersNext, SendReminder, MarkSent
  <2>2. QED
    BY <1>0, <2>1
<1>3. ASSUME NEW kind \in Kinds, ReadDue(kind)
      PROVE  rem' \in Rem
  BY <1>0, <1>3 DEF ReadDue, Rem, Due
<1>4. Resting \in Rem
  BY <1>0 DEF Resting, Rem, Kinds
<1>5. CASE SendReminders
  BY <1>0, <1>3, <1>5 DEF SendReminders, Kinds
<1>6. CASE RemindersNext
  BY <1>0, <1>3, <1>4, <1>6 DEF RemindersNext, Kinds
<1>7. ASSUME NEW i \in 1..MaxRows, SendReminder(i)
      PROVE  rem' \in Rem /\ sends' \in [1..MaxRows -> [Kinds -> Nat]]
  <2>1. rem' = [rem EXCEPT !.pc = "mark", !.cur = i]
    BY <1>7 DEF SendReminder
  <2>2. /\ rem' = [pc |-> "mark", kind |-> rem.kind, todo |-> rem.todo, cur |-> i]
        /\ rem.kind \in Kinds
    BY <1>0, <2>1 DEF Rem
  <2>3. rem' \in Rem
    BY <1>0, <2>2 DEF Rem
  <2>4. sends' = [sends EXCEPT ![i][rem.kind] = sends[i][rem.kind] + 1]
    BY <1>7 DEF SendReminder
  <2>5. QED
    BY <1>0, <2>2, <2>3, <2>4
<1>8. CASE MarkSent
  <2>1. rem' = [rem EXCEPT !.pc = "send", !.todo = rem.todo \ {rem.cur}, !.cur = 0]
    BY <1>8 DEF MarkSent
  <2>2. rem' = [pc |-> "send", kind |-> rem.kind, todo |-> rem.todo \ {rem.cur}, cur |-> 0]
    BY <1>0, <2>1 DEF Rem
  <2>3. rem' \in Rem
    BY <1>0, <2>2 DEF Rem
  <2>4. sends' = sends
    BY <1>8 DEF MarkSent
  <2>5. QED
    BY <1>0, <1>1, <1>2, <2>3, <2>4
<1>9. CASE \E i \in 1..MaxRows : SendReminder(i)
  BY <1>7, <1>9, <1>1, <1>2
<1>10. UNCHANGED sends \/ \E i \in 1..MaxRows : SendReminder(i)
  BY DEF Reminders, SendReminders, RemindersNext, MarkSent
<1>11. rem' \in Rem
  BY <1>5, <1>6, <1>7, <1>8, <1>9 DEF Reminders
<1>12. QED
  BY <1>0, <1>7, <1>1, <1>2, <1>10, <1>11

LEMMA TypesStep ==
  ASSUME BookingInv, [Next]_vars
  PROVE  TypeOK'
<1>0. TypeOK /\ NoRequest \in Req /\ Resting \in Rem
  BY BookingAssumption DEF BookingInv, NoRequest, Req, Resting, Rem, Kinds
<1>1. rows' \in Seq(Row) /\ Len(rows') <= MaxRows
  BY RowsKept
<1>2. CASE UNCHANGED vars
  BY <1>0, <1>1, <1>2 DEF vars, TypeOK
<1>3. ASSUME NEW r \in Requests, NEW p \in People, NEW f \in Phones, NEW s \in Grid,
             Submit(r, p, f, s)
      PROVE  TypeOK'
  <2>1. [pc |-> "check", person |-> p, phone |-> f,
         slot |-> s, snap |-> 0, free |-> FALSE] \in Req
    BY BookingAssumption DEF Req
  <2>2. QED
    BY <1>0, <1>1, <1>3, <2>1 DEF Submit, TypeOK
<1>4. ASSUME NEW r \in Requests, Submission(r)
      PROVE  TypeOK'
  BY <1>0, <1>1, <1>4, SubmissionType DEF TypeOK
<1>5. CASE Staff
  BY <1>0, <1>1, <1>5 DEF Staff, Book, TapStatus, TypeOK
<1>6. ASSUME NEW f \in Phones, NEW p \in People, OpenLink(f, p)
      PROVE  TypeOK'
  BY <1>0, <1>1, <1>6, ChatType DEF OpenLink, TypeOK
<1>7. CASE Reminders
  BY <1>0, <1>1, <1>7, RemindersType DEF TypeOK
<1>8. CASE Crash
  BY <1>0, <1>1, <1>8 DEF Crash, TypeOK
<1>9. CASE Tick
  BY <1>0, <1>1, <1>9 DEF Tick, TypeOK
<1>10. QED
  BY <1>2, <1>3, <1>4, <1>5, <1>6, <1>7, <1>8, <1>9 DEF Next

-----------------------------------------------------------------------------
(* The hours.                                                              *)

\* What a step makes of one submission.
LEMMA RequestStep ==
  ASSUME BookingInv, [Next]_vars, NEW q \in Requests
  PROVE  \/ req'[q] = req[q]
         \/ req'[q].pc = "idle"
         \/ req'[q].pc = "check" /\ req'[q].phone \in Phones
         \/ /\ req'[q].pc \in {"bind", "look"}
            /\ req[q].pc # "idle" /\ req'[q].phone = req[q].phone
         \/ HoldLooks(q)
         \/ HoldSlot(q) /\ req[q].free
<1>0. req \in [Requests -> Req] /\ NoRequest.pc = "idle"
  BY DEF BookingInv, TypeOK, NoRequest
<1>1. CASE UNCHANGED req
  BY <1>1
<1>2. ASSUME NEW r \in Requests, NEW p \in People, NEW f \in Phones, NEW s \in Grid,
             Submit(r, p, f, s)
      PROVE  req'[q] = req[q] \/ (req'[q].pc = "check" /\ req'[q].phone \in Phones)
  BY <1>0, <1>2 DEF Submit
<1>3. ASSUME NEW r \in Requests, Submission(r), r # q
      PROVE  req'[q] = req[q]
  BY <1>0, <1>3
  DEF Submission, CheckSlot, BindClient, HoldLooks, HoldSlot, HoldSlotFails,
      SubmitLead, Goto
<1>4. ASSUME NEW pc \in {"bind", "look"}, Goto(q, pc)
      PROVE  req'[q].pc = pc /\ req'[q].phone = req[q].phone
  BY <1>0, <1>4 DEF Goto, Req
<1>5. ASSUME Goto(q, "idle")
      PROVE  req'[q].pc = "idle"
  BY <1>0, <1>5 DEF Goto
<1>6. CASE Submission(q)
  <2>1. CASE CheckSlot(q)
    BY <1>4, <1>5, <2>1 DEF CheckSlot, At
  <2>2. CASE BindClient(q)
    BY <1>4, <1>5, <2>2 DEF BindClient, At
  <2>3. CASE HoldSlot(q)
    BY <1>5, <2>3 DEF HoldSlot, AfterHold
  <2>4. CASE HoldSlotFails(q) \/ SubmitLead(q)
    BY <1>5, <2>4 DEF HoldSlotFails, SubmitLead
  <2>5. QED
    BY <1>6, <2>1, <2>2, <2>3, <2>4 DEF Submission
<1>7. CASE Crash
  BY <1>0, <1>7 DEF Crash
<1>8. CASE Staff \/ Tick
  BY <1>1, <1>8 DEF Staff, Book, TapStatus, Tick
<1>9. CASE Reminders
  BY <1>1, <1>9 DEF Reminders, SendReminders, SendReminder, MarkSent, RemindersNext
<1>10. CASE \E f \in Phones, p \in People : OpenLink(f, p)
  BY <1>1, <1>10 DEF OpenLink
<1>11. QED
  BY <1>1, <1>2, <1>3, <1>6, <1>7, <1>8, <1>9, <1>10 DEF Next, vars

\* Nothing comes to hold an hour that did not: a tap only gives one up.
LEMMA HoldingKept ==
  ASSUME BookingInv, [Next]_vars, NEW i \in 1..Len(rows),
         rows'[i].status \in {"requested", "scheduled"}
  PROVE  rows'[i].status = rows[i].status
BY RowsKept DEF Buttons

LEMMA SnapshotsStep ==
  ASSUME BookingInv, [Next]_vars, NEW q \in Requests
  PROVE  SnapshotOK(q)'
<1>0. /\ Len(rows) \in Nat /\ Len(rows') \in Nat /\ Len(rows) <= Len(rows')
      /\ req \in [Requests -> Req] /\ SnapshotOK(q)
  BY RowsKept DEF BookingInv, TypeOK, HourInv
<1>1. ASSUME NEW i \in 1..Len(rows), rows[i].at = req[q].slot => ~Holding(i)
      PROVE  rows'[i].at = req[q].slot => ~Holding(i)'
  <2>1. rows'[i].at = rows[i].at
    BY RowsKept
  <2>2. rows'[i].status \in {"requested", "scheduled"} => rows'[i].status = rows[i].status
    BY HoldingKept
  <2>3. QED
    BY <1>1, <2>1, <2>2 DEF Holding
<1>2. CASE req'[q] = req[q]
  <2>1. req[q].pc # "idle" => req[q].phone \in Phones
    BY <1>0 DEF SnapshotOK
  <2>2. ASSUME req[q].pc = "insert"
        PROVE  /\ req[q].snap <= Len(rows')
               /\ req[q].free => \A i \in 1..req[q].snap :
                                    rows'[i].at = req[q].slot => ~Holding(i)'
    <3>1. req[q].snap \in Nat /\ req[q].snap <= Len(rows)
      BY <1>0, <2>2 DEF SnapshotOK, Req
    <3>2. ASSUME req[q].free, NEW i \in 1..req[q].snap
          PROVE  rows'[i].at = req[q].slot => ~Holding(i)'
      <4>1. i \in 1..Len(rows)
        BY <1>0, <3>1
      <4>2. rows[i].at = req[q].slot => ~Holding(i)
        BY <1>0, <2>2, <3>2 DEF SnapshotOK
      <4>3. QED
        BY <1>1, <4>1, <4>2
    <3>3. req[q].snap <= Len(rows')
      BY <1>0, <3>1
    <3>4. QED
      BY <3>2, <3>3
  <2>3. QED
    BY <1>2, <2>1, <2>2 DEF SnapshotOK
<1>3. CASE HoldLooks(q)
  <2>1. /\ req'[q] = [req[q] EXCEPT !.pc = "insert", !.snap = Len(rows),
                                    !.free = SlotEmpty(req[q].slot)]
        /\ rows' = rows /\ req[q].pc = "look"
    BY <1>0, <1>3 DEF HoldLooks, At
  <2>2. /\ req'[q].snap = Len(rows) /\ req'[q].free = SlotEmpty(req[q].slot)
        /\ req'[q].slot = req[q].slot /\ req'[q].phone = req[q].phone
    BY <1>0, <2>1 DEF Req
  <2>3. req[q].phone \in Phones
    BY <1>0, <2>1 DEF SnapshotOK
  <2>4. SlotEmpty(req[q].slot) =>
          \A i \in 1..Len(rows) : rows'[i].at = req[q].slot => ~Holding(i)'
    BY <2>1 DEF SlotEmpty, HoldsSlot, Holding
  <2>5. QED
    BY <1>0, <2>1, <2>2, <2>3, <2>4 DEF SnapshotOK
<1>4. CASE HoldSlot(q) /\ req[q].free
  <2>1. req'[q].pc = "lead" /\ req'[q].phone = req[q].phone /\ req[q].pc = "insert"
    BY <1>0, <1>4 DEF HoldSlot, Goto, AfterHold, At, Req
  <2>2. QED
    BY <1>0, <2>1 DEF SnapshotOK
<1>5. CASE \/ req'[q].pc = "idle"
           \/ req'[q].pc = "check" /\ req'[q].phone \in Phones
           \/ /\ req'[q].pc \in {"bind", "look"}
              /\ req[q].pc # "idle" /\ req'[q].phone = req[q].phone
  BY <1>0, <1>5 DEF SnapshotOK
<1>6. QED
  BY <1>2, <1>3, <1>4, <1>5, RequestStep

\* A row that is there keeps its client and its hour.
LEMMA RowBehindKept ==
  ASSUME BookingInv, [Next]_vars, NEW f, NEW s, RowBehind(f, s)
  PROVE  RowBehind(f, s)'
<1>1. PICK i \in 1..Len(rows) : rows[i].client = f /\ rows[i].at = s
  BY DEF RowBehind
<1>2. rows'[i].client = f /\ rows'[i].at = s
  BY <1>1, RowsKept
<1>3. i \in 1..Len(rows')
  BY RowsKept DEF BookingInv, TypeOK
<1>4. QED
  BY <1>2, <1>3 DEF RowBehind

LEMMA LeadsStep ==
  ASSUME BookingInv, [Next]_vars
  PROVE  /\ \A q \in Requests : req'[q].pc = "lead" => RowBehind(req[q].phone, req[q].slot)'
                                                       /\ req'[q].phone = req[q].phone
                                                       /\ req'[q].slot = req[q].slot
         /\ LeadHasHour'
<1>0. /\ req \in [Requests -> Req] /\ rows \in Seq(Row) /\ Len(rows) \in Nat
      /\ \A q \in Requests : req[q].pc = "lead" => RowBehind(req[q].phone, req[q].slot)
      /\ LeadHasHour
  BY DEF BookingInv, TypeOK, HourInv
<1>1. ASSUME NEW q \in Requests, req'[q].pc = "lead"
      PROVE  /\ RowBehind(req[q].phone, req[q].slot)'
             /\ req'[q].phone = req[q].phone /\ req'[q].slot = req[q].slot
  <2>1. CASE req'[q] = req[q]
    BY <1>0, <1>1, <2>1, RowBehindKept
  <2>2. CASE HoldSlot(q) /\ req[q].free
    <3>1. rows' = Append(rows, Requested(q)) /\ req[q].pc = "insert"
      BY <2>2 DEF HoldSlot, At
    <3>2. Requested(q) \in Row
      BY <3>1, RequestedIsRow
    <3>3. Len(rows') = Len(rows) + 1 /\ rows'[Len(rows) + 1] = Requested(q)
      BY <1>0, <3>1, <3>2, AppendProperties
    <3>4. /\ rows'[Len(rows) + 1].client = req[q].phone
          /\ rows'[Len(rows) + 1].at = req[q].slot
      BY <3>3 DEF Requested
    <3>5. req'[q].phone = req[q].phone /\ req'[q].slot = req[q].slot
      BY <1>0, <2>2 DEF HoldSlot, Goto, AfterHold, Req
    <3>6. Len(rows) + 1 \in 1..Len(rows')
      BY <1>0, <3>3
    <3>7. QED
      BY <3>4, <3>5, <3>6 DEF RowBehind
  <2>3. CASE HoldLooks(q)
    BY <1>0, <1>1, <2>3 DEF HoldLooks, Req
  <2>4. QED
    BY <1>1, <2>1, <2>2, <2>3, RequestStep
<1>2. ASSUME NEW l \in leads'
      PROVE  \E i \in 1..Len(rows') : rows'[i].client = l.client /\ rows'[i].at = l.at
  <2>1. \/ l \in leads
        \/ \E q \in Requests : /\ req[q].pc = "lead"
                               /\ l.client = req[q].phone /\ l.at = req[q].slot
    <3>1. CASE leads' = leads
      BY <1>2, <3>1
    <3>2. CASE \E q \in Requests : SubmitLead(q)
      BY <1>2, <3>2 DEF SubmitLead, At
    <3>3. leads' = leads \/ \E q \in Requests : SubmitLead(q)
      BY DEF Next, vars, Submit, Submission, CheckSlot, BindClient, HoldLooks, HoldSlot,
             HoldSlotFails, Staff, Book, TapStatus, OpenLink, Reminders, SendReminders,
             SendReminder, MarkSent, RemindersNext, Crash, Tick
    <3>4. QED
      BY <3>1, <3>2, <3>3
  <2>2. RowBehind(l.client, l.at)
    BY <1>0, <2>1 DEF LeadHasHour, RowBehind
  <2>3. QED
    BY <2>2, RowBehindKept DEF RowBehind
<1>3. QED
  BY <1>1, <1>2 DEF LeadHasHour
LEMMA HourGivenOnceStep ==
  ASSUME BookingInv, [Next]_vars
  PROVE  HourGivenOnce'
<1>1. SUFFICES ASSUME NEW i \in 1..Len(rows'), NEW j \in 1..Len(rows'), i < j,
                      rows'[i].at = rows'[j].at,
                      rows'[i].status \in {"requested", "scheduled"},
                      rows'[j].status = "requested"
               PROVE  rows'[j].snap < i
  BY DEF HourGivenOnce, Holding
<1>2. /\ Len(rows) \in Nat /\ Len(rows') \in Nat
      /\ req \in [Requests -> Req]
  BY RowsKept DEF BookingInv, TypeOK
<1>3. i \in 1..Len(rows)
  BY <1>2, <1>1, RowsKept
<1>4. rows[i].status \in {"requested", "scheduled"} /\ rows[i].at = rows'[i].at
  BY <1>1, <1>3, RowsKept, HoldingKept
<1>5. CASE j \in 1..Len(rows)
  <2>1. /\ rows[j].status = "requested" /\ rows[j].at = rows'[j].at
        /\ rows[j].snap = rows'[j].snap
    BY <1>1, <1>5, RowsKept, HoldingKept
  <2>2. HourGivenOnce
    BY DEF BookingInv, HourInv
  <2>3. QED
    BY <1>1, <1>3, <1>4, <1>5, <2>1, <2>2 DEF HourGivenOnce, Holding
<1>6. CASE j \notin 1..Len(rows)
  <2>1. Added(rows'[j])
    BY <1>6, RowsKept
  <2>2. PICK r \in Requests : /\ req[r].pc = "insert" /\ req[r].free
                              /\ rows'[j] = Requested(r)
    BY <1>1, <2>1 DEF Added
  <2>3. rows'[j].at = req[r].slot /\ rows'[j].snap = req[r].snap /\ req[r].snap \in Nat
    BY <1>2, <2>2 DEF Requested, Req
  <2>4. SnapshotOK(r)
    BY DEF BookingInv, HourInv
  <2>5. \A m \in 1..req[r].snap : rows[m].at = req[r].slot => ~Holding(m)
    BY <2>2, <2>4 DEF SnapshotOK
  <2>6. i \notin 1..req[r].snap
    BY <1>1, <1>4, <2>3, <2>5 DEF Holding
  <2>7. QED
    BY <1>2, <1>3, <2>3, <2>6
<1>7. QED
  BY <1>5, <1>6

LEMMA HoursStep ==
  ASSUME BookingInv, [Next]_vars
  PROVE  HourInv'
<1>1. ASSUME NEW r \in Requests
      PROVE  /\ SnapshotOK(r)'
             /\ req'[r].pc = "lead" => RowBehind(req[r].phone, req[r].slot)'
                                       /\ req'[r].phone = req[r].phone
                                       /\ req'[r].slot = req[r].slot
  BY SnapshotsStep, LeadsStep
<1>2. ASSUME NEW r \in Requests, req'[r].pc = "lead"
      PROVE  RowBehind(req[r].phone, req[r].slot)'
  BY <1>1, <1>2 DEF RowBehind
<1>3. ASSUME NEW i \in 1..Len(rows'), rows'[i].keyboard
      PROVE  rows'[i].status # "requested"
  <2>1. CASE i \in 1..Len(rows)
    <3>1. rows[i].keyboard /\ rows[i].status # "requested"
      BY <1>3, <2>1, RowsKept DEF BookingInv, HourInv
    <3>2. rows'[i].status = rows[i].status \/ rows'[i].status \in Buttons
      BY <2>1, RowsKept
    <3>3. QED
      BY <3>1, <3>2 DEF Buttons
  <2>2. CASE i \notin 1..Len(rows)
    BY <1>3, <2>2, RowsKept DEF Added
  <2>3. QED
    BY <2>1, <2>2
<1>4. HourGivenOnce' /\ LeadHasHour'
  BY HourGivenOnceStep, LeadsStep
<1>5. \A r \in Requests : req'[r].pc = "lead" => RowBehind(req[r].phone, req[r].slot)'
  BY <1>2
<1>6. QED
  BY <1>1, <1>3, <1>4 DEF HourInv, RowBehind

-----------------------------------------------------------------------------
(* The reminders.                                                          *)

LEMMA ToldStep ==
  ASSUME BookingInv, [Next]_vars, NEW i \in 1..MaxRows, NEW k \in Kinds
  PROVE  \/ Told(i, k)' <=> Told(i, k)
         \/ MarkSent /\ i = rem.cur /\ k = rem.kind
<1>1. Len(rows) \in Nat /\ Len(rows') \in Nat /\ Len(rows) <= Len(rows')
  BY RowsKept DEF BookingInv, TypeOK
<1>2. CASE i \in 1..Len(rows)
  <2>1. i \in 1..Len(rows')
    BY <1>1, <1>2
  <2>2. \/ rows'[i].told = rows[i].told
        \/ MarkSent /\ i = rem.cur /\ rows'[i].told = rows[i].told \cup {rem.kind}
    BY <1>2, RowsKept
  <2>3. QED
    BY <1>2, <2>1, <2>2 DEF Told
<1>3. CASE i \notin 1..Len(rows)
  <2>1. i \in 1..Len(rows') => rows'[i].told = {}
    BY <1>3, RowsKept DEF Added
  <2>2. QED
    BY <1>3, <2>1 DEF Told
<1>4. QED
  BY <1>2, <1>3

\* MarkedWasSent in terms of Told, before and after a step.
LEMMA ToldWasSent ==
  ASSUME MarkedWasSent, NEW i \in 1..MaxRows, NEW k \in Kinds, Told(i, k)
  PROVE  sends[i][k] >= 1
BY DEF MarkedWasSent, Told

LEMMA MarkedNext ==
  ASSUME TypeOK',
         \A i \in 1..MaxRows, k \in Kinds : Told(i, k)' => sends'[i][k] >= 1
  PROVE  MarkedWasSent'
<1>1. ASSUME NEW i \in 1..Len(rows'), NEW k \in rows'[i].told
      PROVE  sends'[i][k] >= 1
  <2>1. rows'[i] \in Row /\ Len(rows') \in Nat /\ Len(rows') <= MaxRows /\ MaxRows \in Nat
    BY BookingAssumption DEF TypeOK
  <2>2. i \in 1..MaxRows /\ k \in Kinds
    BY <2>1 DEF Row
  <2>3. QED
    BY <2>2 DEF Told
<1>2. QED
  BY <1>1 DEF MarkedWasSent

LEMMA QuietReminders ==
  ASSUME BookingInv, [Next]_vars, UNCHANGED <<rem, sends, faults>>
  PROVE  RemindInv'
<1>0. rem \in Rem
  BY DEF BookingInv, TypeOK
<1>1. ~MarkSent
  <2>1. SUFFICES ASSUME MarkSent PROVE FALSE
    OBVIOUS
  <2>2. rem' = [rem EXCEPT !.pc = "send", !.todo = rem.todo \ {rem.cur}, !.cur = 0]
    BY <2>1 DEF MarkSent
  <2>3. rem'.pc = "send"
    BY <1>0, <2>2 DEF Rem
  <2>4. rem'.pc = "mark"
    BY <2>1 DEF MarkSent
  <2>5. QED
    BY <2>3, <2>4
<1>2. \A i \in 1..MaxRows, k \in Kinds : Told(i, k)' <=> Told(i, k)
  BY <1>1, ToldStep
<1>3. /\ Len(rows) \in Nat /\ Len(rows') \in Nat /\ Len(rows) <= Len(rows')
      /\ MaxRows \in Nat /\ Len(rows) <= MaxRows /\ rem \in Rem
  BY RowsKept, BookingAssumption DEF BookingInv, TypeOK
<1>4. rem.todo \subseteq 1..Len(rows) /\ \A i \in rem.todo : ~Told(i, rem.kind)
  BY DEF BookingInv, RemindInv
<1>5. rem'.todo \subseteq 1..Len(rows') /\ rem'.todo \subseteq 1..MaxRows /\ rem'.kind \in Kinds
  BY <1>3, <1>4 DEF Rem
<1>6. \A i \in rem'.todo : ~Told(i, rem.kind)'
  BY <1>2, <1>4, <1>5
<1>7. rem'.pc = "mark" => rem'.cur \in rem'.todo /\ sends'[rem'.cur][rem'.kind] >= 1
  BY DEF BookingInv, RemindInv
<1>8. \A i \in 1..MaxRows, k \in Kinds :
        sends'[i][k] <= faults' + IF Told(i, k)' \/ Unmarked(i, k)' THEN 1 ELSE 0
  <2>1. \A i \in 1..MaxRows, k \in Kinds :
          sends[i][k] <= faults + IF Told(i, k) \/ Unmarked(i, k) THEN 1 ELSE 0
    BY DEF BookingInv, RemindInv
  <2>2. \A i \in 1..MaxRows, k \in Kinds : Unmarked(i, k)' <=> Unmarked(i, k)
    BY DEF Unmarked
  <2>3. QED
    BY <1>2, <2>1, <2>2
<1>9. MarkedWasSent'
  <2>1. \A i \in 1..MaxRows, k \in Kinds : Told(i, k) => sends[i][k] >= 1
    BY ToldWasSent DEF BookingInv, RemindInv
  <2>2. QED
    BY <1>2, <2>1, MarkedNext, TypesStep
<1>10. QED
  BY <1>5, <1>6, <1>7, <1>8, <1>9 DEF RemindInv, Told

\* A reminder beyond the faults is one that is marked or about to be.
LEMMA SendsBounded ==
  ASSUME BookingInv, NEW i \in 1..MaxRows, NEW k \in Kinds
  PROVE  /\ sends[i][k] \in Nat /\ faults \in Nat
         /\ sends[i][k] <= faults + 1
         /\ ~Told(i, k) /\ ~Unmarked(i, k) => sends[i][k] <= faults
<1>1. sends[i][k] \in Nat /\ faults \in Nat
  BY DEF BookingInv, TypeOK
<1>2. sends[i][k] <= faults + IF Told(i, k) \/ Unmarked(i, k) THEN 1 ELSE 0
  BY DEF BookingInv, RemindInv
<1>3. QED
  BY <1>1, <1>2

\* A pass begins, or goes on to the advocate's reminders, or ends, perhaps by a
\* crash.
LEMMA PassReminders ==
  ASSUME BookingInv, [Next]_vars, UNCHANGED <<rows, sends>>,
         rem'.pc # "mark", rem'.todo = {} \/ rem'.todo = Due(rem'.kind),
         \/ rem.pc # "mark" /\ faults' = faults
         \/ faults' = faults + 1
  PROVE  RemindInv'
<1>1. (rem.todo \subseteq 1..Len(rows) /\ \A i \in rem.todo : ~Told(i, rem.kind))'
  BY DEF Due, Told
<1>2. ASSUME NEW i \in 1..MaxRows, NEW k \in Kinds
      PROVE  sends'[i][k] <= faults' + IF Told(i, k)' \/ Unmarked(i, k)' THEN 1 ELSE 0
  <2>1. Told(i, k)' <=> Told(i, k)
    BY DEF Told
  <2>2. ~Unmarked(i, k)'
    BY DEF Unmarked
  <2>3. CASE rem.pc # "mark" /\ faults' = faults
    <3>1. ~Unmarked(i, k)
      BY <2>3 DEF Unmarked
    <3>2. QED
      BY <2>1, <2>3, <3>1, SendsBounded
  <2>4. CASE faults' = faults + 1
    BY <2>4, SendsBounded
  <2>5. QED
    BY <2>3, <2>4
<1>3. MarkedWasSent'
  BY DEF BookingInv, RemindInv, MarkedWasSent
<1>4. QED
  BY <1>1, <1>2, <1>3 DEF RemindInv, Told

LEMMA SendStep ==
  ASSUME BookingInv, [Next]_vars, NEW n \in 1..MaxRows, SendReminder(n)
  PROVE  RemindInv'
<1>0. /\ rem \in Rem /\ sends \in [1..MaxRows -> [Kinds -> Nat]] /\ rem.kind \in Kinds
      /\ rem.pc = "send" /\ n \in rem.todo /\ faults' = faults /\ rows' = rows
  BY DEF BookingInv, TypeOK, SendReminder, Rem
<1>1. rem' = [rem EXCEPT !.pc = "mark", !.cur = n]
  BY DEF SendReminder
<1>2. /\ rem'.pc = "mark" /\ rem'.cur = n /\ rem'.todo = rem.todo
      /\ rem'.kind = rem.kind
  BY <1>0, <1>1 DEF Rem
<1>3. sends' = [sends EXCEPT ![n][rem.kind] = sends[n][rem.kind] + 1]
  BY DEF SendReminder
<1>4. \A i \in 1..MaxRows, k \in Kinds :
        sends'[i][k] = IF i = n /\ k = rem.kind THEN sends[i][k] + 1 ELSE sends[i][k]
  BY <1>0, <1>3
<1>5. ~Told(n, rem.kind) /\ ~Unmarked(n, rem.kind)
  BY <1>0 DEF BookingInv, RemindInv, Unmarked
<1>6. ASSUME NEW i \in 1..MaxRows, NEW k \in Kinds
      PROVE  sends'[i][k] <= faults' + IF Told(i, k)' \/ Unmarked(i, k)' THEN 1 ELSE 0
  <2>1. Told(i, k)' <=> Told(i, k)
    BY <1>0 DEF Told
  <2>2. CASE i = n /\ k = rem.kind
    <3>1. Unmarked(i, k)'
      BY <1>2, <2>2 DEF Unmarked
    <3>2. QED
      BY <1>0, <1>4, <1>5, <2>2, <3>1, SendsBounded
  <2>3. CASE ~(i = n /\ k = rem.kind)
    <3>1. ~Unmarked(i, k)
      BY <1>0 DEF Unmarked
    <3>2. QED
      BY <1>0, <1>4, <2>1, <2>3, <3>1, SendsBounded
  <2>4. QED
    BY <2>2, <2>3
<1>7. \A i \in 1..MaxRows, k \in Kinds : Told(i, k)' => sends'[i][k] >= 1
  <2>1. ASSUME NEW i \in 1..MaxRows, NEW k \in Kinds, Told(i, k)
        PROVE  sends'[i][k] >= 1
    BY <1>4, <2>1, SendsBounded, ToldWasSent DEF BookingInv, RemindInv
  <2>2. QED
    BY <1>0, <2>1 DEF Told
<1>8. MarkedWasSent'
  BY <1>7, MarkedNext, TypesStep
<1>9. (rem.todo \subseteq 1..Len(rows) /\ \A i \in rem.todo : ~Told(i, rem.kind))'
  BY <1>0, <1>2 DEF BookingInv, RemindInv, Told
<1>10. rem'.cur \in rem'.todo /\ sends'[rem'.cur][rem'.kind] >= 1
  BY <1>0, <1>2, <1>4, SendsBounded
<1>11. QED
  BY <1>6, <1>8, <1>9, <1>10 DEF RemindInv

LEMMA MarkStep ==
  ASSUME BookingInv, [Next]_vars, MarkSent
  PROVE  RemindInv'
<1>0. /\ rem \in Rem /\ rem.kind \in Kinds /\ rem.pc = "mark" /\ sends' = sends
      /\ rem.cur \in rem.todo /\ sends[rem.cur][rem.kind] >= 1
      /\ rem.todo \subseteq 1..Len(rows)
  BY DEF BookingInv, TypeOK, RemindInv, MarkSent, Rem
<1>1. rem' = [rem EXCEPT !.pc = "send", !.todo = rem.todo \ {rem.cur}, !.cur = 0]
  BY DEF MarkSent
<1>2. rem'.pc = "send" /\ rem'.todo = rem.todo \ {rem.cur} /\ rem'.kind = rem.kind
  BY <1>0, <1>1 DEF Rem
<1>3. /\ Len(rows) \in Nat /\ Len(rows') \in Nat /\ Len(rows) <= Len(rows')
      /\ Len(rows) <= MaxRows /\ MaxRows \in Nat
  BY RowsKept, BookingAssumption DEF BookingInv, TypeOK
<1>4. rem'.todo \subseteq 1..Len(rows') /\ rem'.todo \subseteq 1..MaxRows
  BY <1>0, <1>2, <1>3
<1>5. (\A i \in rem.todo : ~Told(i, rem.kind))'
  <2>1. PICK k \in Kinds : k = rem.kind
    BY <1>0
  <2>2. ASSUME NEW i \in rem'.todo
        PROVE  ~Told(i, k)'
    <3>1. i \in 1..MaxRows /\ i \in rem.todo /\ i # rem.cur
      BY <1>2, <1>4
    <3>2. ~Told(i, k)
      BY <2>1, <3>1 DEF BookingInv, RemindInv
    <3>3. QED
      BY <3>1, <3>2, ToldStep
  <2>3. QED
    BY <1>2, <2>1, <2>2 DEF Told
<1>6. ASSUME NEW i \in 1..MaxRows, NEW k \in Kinds
      PROVE  /\ sends'[i][k] <= faults' + IF Told(i, k)' \/ Unmarked(i, k)' THEN 1 ELSE 0
             /\ Told(i, k)' => sends'[i][k] >= 1
  <2>1. CASE i = rem.cur /\ k = rem.kind
    <3>1. CASE faults' = faults + 1
      BY <1>0, <2>1, <3>1, SendsBounded
    <3>2. CASE rows' = [rows EXCEPT ![rem.cur].told = @ \cup {Mark(rem.kind)}]
               /\ faults' = faults
      <4>1. rows'[i] = [rows[i] EXCEPT !.told = rows[i].told \cup {k}]
        <5>1. /\ rows \in Seq(Row) /\ i \in 1..Len(rows)
              /\ rows' = [rows EXCEPT ![i] = [rows[i] EXCEPT !.told = rows[i].told \cup {k}]]
          BY <1>0, <2>1, <3>2 DEF BookingInv, TypeOK, Mark
        <5>2. PICK x : x = [rows[i] EXCEPT !.told = rows[i].told \cup {k}]
          OBVIOUS
        <5>3. rows' = [rows EXCEPT ![i] = x] /\ i \in DOMAIN rows
          BY <5>1, <5>2
        <5>4. rows'[i] = x
          BY <5>3
        <5>5. QED
          BY <5>2, <5>4
      <4>2. rows[i] \in Row /\ i \in 1..Len(rows')
        BY <1>0, <1>3, <2>1 DEF BookingInv, TypeOK
      <4>3. k \in rows'[i].told
        BY <4>1, <4>2 DEF Row
      <4>4. Told(i, k)'
        BY <4>2, <4>3 DEF Told
      <4>5. QED
        BY <1>0, <2>1, <3>2, <4>4, SendsBounded
    <3>3. QED
      BY <3>1, <3>2 DEF MarkSent
  <2>2. CASE ~(i = rem.cur /\ k = rem.kind)
    <3>1. Told(i, k)' <=> Told(i, k)
      BY <2>2, ToldStep
    <3>2. ~Unmarked(i, k)
      BY <2>2 DEF Unmarked
    <3>3. faults' = faults \/ faults' = faults + 1
      BY DEF MarkSent
    <3>4. Told(i, k) => sends[i][k] >= 1
      BY ToldWasSent DEF BookingInv, RemindInv
    <3>5. QED
      BY <1>0, <3>1, <3>2, <3>3, <3>4, SendsBounded
  <2>3. QED
    BY <2>1, <2>2
<1>7. MarkedWasSent'
  BY <1>6, MarkedNext, TypesStep
<1>8. QED
  BY <1>2, <1>4, <1>5, <1>6, <1>7 DEF RemindInv

LEMMA RemindersStep ==
  ASSUME BookingInv, [Next]_vars
  PROVE  RemindInv'
<1>1. CASE \/ UNCHANGED vars \/ Tick \/ Staff
           \/ \E r \in Requests, p \in People, f \in Phones, s \in Grid : Submit(r, p, f, s)
           \/ \E f \in Phones, p \in People : OpenLink(f, p)
  BY <1>1, QuietReminders DEF vars, Tick, Staff, Book, TapStatus, Submit, OpenLink
<1>2. CASE \E r \in Requests : Submission(r)
  BY <1>2, SubmissionType, QuietReminders
<1>3. ASSUME NEW kind \in Kinds, ReadDue(kind)
      PROVE  rem'.pc # "mark" /\ (rem'.todo = {} \/ rem'.todo = Due(rem'.kind))
  BY <1>3 DEF ReadDue
<1>4. CASE SendReminders \/ RemindersNext
  <2>1. rem.pc # "mark" /\ faults' = faults /\ UNCHANGED <<rows, sends>>
    BY <1>4 DEF SendReminders, RemindersNext
  <2>2. rem'.pc # "mark" /\ (rem'.todo = {} \/ rem'.todo = Due(rem'.kind))
    BY <1>3, <1>4 DEF SendReminders, RemindersNext, Resting, Kinds
  <2>3. QED
    BY <2>1, <2>2, PassReminders
<1>5. CASE Crash
  BY <1>5, PassReminders DEF Crash, Resting
<1>6. CASE Reminders
  BY <1>4, <1>6, SendStep, MarkStep DEF Reminders
<1>7. QED
  BY <1>1, <1>2, <1>5, <1>6 DEF Next

-----------------------------------------------------------------------------
LEMMA BookingStarts == Init => BookingInv
<1> SUFFICES ASSUME Init PROVE BookingInv
  OBVIOUS
<1>1. TypeOK
  BY TypesInit
<1>2. HourInv
  BY BookingAssumption DEF Init, HourInv, SnapshotOK, NoRequest, HourGivenOnce, LeadHasHour
<1>3. \A i \in 1..MaxRows, k \in Kinds : sends[i][k] = 0
  BY DEF Init
<1>4. RemindInv
  BY <1>3 DEF Init, RemindInv, Resting, MarkedWasSent
<1>5. QED
  BY <1>1, <1>2, <1>4 DEF BookingInv

\* The invariants of bookings and reminders, for any number of submissions,
\* people, hours and consultations.
THEOREM BookingCorrect == Spec => []BookingInv
<1>1. BookingInv /\ [Next]_vars => BookingInv'
  BY TypesStep, HoursStep, RemindersStep DEF BookingInv
<1>2. QED
  BY BookingStarts, <1>1, PTL DEF Spec

\* Rows, submissions and reminders have their types whatever is interleaved.
THEOREM BookingTypes == Spec => []TypeOK
<1>1. BookingInv => TypeOK
  BY DEF BookingInv
<1>2. QED
  BY BookingCorrect, <1>1, PTL

\* HoldSlot gives an hour that is held only to inserts that overlap (the
\* NOT EXISTS of ConsultationRepository.HoldSlot).
THEOREM HoursGivenOnce == Spec => []HourGivenOnce
<1>1. BookingInv => HourGivenOnce
  BY DEF BookingInv, HourInv
<1>2. QED
  BY BookingCorrect, <1>1, PTL

\* Submit holds the hour before it files the lead, and files none if it lost it.
THEOREM LeadsHaveHours == Spec => []LeadHasHour
<1>1. BookingInv => LeadHasHour
  BY DEF BookingInv, HourInv
<1>2. QED
  BY BookingCorrect, <1>1, PTL

\* Only a crash or a failed mark makes SendReminders repeat a reminder.
THEOREM RemindersOnce == Spec => []RemindedOnce
<1>1. BookingInv => RemindedOnce
  <2>1. SUFFICES ASSUME BookingInv, NEW i \in 1..MaxRows, NEW k \in Kinds
                 PROVE  sends[i][k] <= 1 + faults
    BY DEF RemindedOnce
  <2>2. QED
    BY <2>1, SendsBounded
<1>2. QED
  BY BookingCorrect, <1>1, PTL

\* MarkClientReminderSent and MarkAdvocateReminderSent follow the reminder.
THEOREM MarksWereSent == Spec => []MarkedWasSent
<1>1. BookingInv => MarkedWasSent
  BY DEF BookingInv, RemindInv
<1>2. QED
  BY BookingCorrect, <1>1, PTL

-----------------------------------------------------------------------------
(* What staff typed.                                                       *)

LEMMA TypedStep ==
  ASSUME BookingInv, ScheduledAsTyped, [Next]_vars
  PROVE  ScheduledAsTyped'
<1> rows \in Seq(Row)
  BY DEF BookingInv, TypeOK
<1>1. CASE UNCHANGED rows
  BY <1>1 DEF ScheduledAsTyped
<1>2. ASSUME NEW x \in Row, Added(x)
      PROVE  ScheduledAsTyped'
  <2> SUFFICES ASSUME NEW i \in 1..Len(rows'), rows'[i].status = "scheduled"
               PROVE  rows'[i].meant = rows'[i].at - Offset
    BY DEF ScheduledAsTyped
  <2>1. /\ Len(rows') = Len(rows) + 1
        /\ rows'[Len(rows) + 1] = x
        /\ \A j \in 1..Len(rows) : rows'[j] = rows[j]
    BY <1>2 DEF Added
  <2>2. CASE i \in 1..Len(rows)
    BY <2>1, <2>2 DEF ScheduledAsTyped
  <2>3. CASE i = Len(rows) + 1
    BY <1>2, <2>1, <2>3 DEF Added
  <2>4. QED
    BY <2>1, <2>2, <2>3
<1>3. ASSUME NEW k \in 1..Len(rows), NEW x \in Row, Changed(k, x)
      PROVE  ScheduledAsTyped'
  <2> SUFFICES ASSUME NEW i \in 1..Len(rows'), rows'[i].status = "scheduled"
               PROVE  rows'[i].meant = rows'[i].at - Offset
    BY DEF ScheduledAsTyped
  <2>1. /\ Len(rows') = Len(rows)
        /\ rows'[k] = x
        /\ \A j \in 1..Len(rows) : j # k => rows'[j] = rows[j]
    BY <1>3 DEF Changed
  <2>2. CASE i # k
    BY <2>1, <2>2 DEF ScheduledAsTyped
  <2>3. CASE i = k
    <3>1. x.status = "scheduled" /\ x.meant = rows[k].meant /\ x.at = rows[k].at
      BY <1>3, <2>1, <2>3 DEF Changed
    <3>2. rows[k].status = "scheduled"
      BY <1>3, <3>1 DEF Changed, Buttons
    <3>3. QED
      BY <2>1, <2>3, <3>1, <3>2 DEF ScheduledAsTyped
  <2>4. QED
    BY <2>2, <2>3
<1>4. QED
  BY <1>1, <1>2, <1>3, RowsStep

\* Whatever zone the firm's clock shows, a consultation that waits stands exactly
\* that far from the hour staff had in mind, and no tap, mark, submission or crash
\* changes it (finishBooking parses what was typed as UTC).
THEOREM HoursAsTyped == Spec => []ScheduledAsTyped
<1>1. Init => ScheduledAsTyped
  BY DEF Init, ScheduledAsTyped
<1>2. BookingInv /\ ScheduledAsTyped /\ [Next]_vars => ScheduledAsTyped'
  BY TypedStep
<1>3. QED
  BY <1>1, <1>2, BookingCorrect, PTL DEF Spec
=============================================================================
