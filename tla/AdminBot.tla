------------------------------ MODULE AdminBot ------------------------------
(***************************************************************************)
(* The Telegram bot (telegram/adminbot.go): one goroutine polls updates    *)
(* and handles them one after the other.  A dialogue in progress is a      *)
(* `flow' in memory, one per user; a button carries at most one id and     *)
(* takes the rest from the flow, whatever message it stands under.  The    *)
(* offset of the poll is in memory too, so a process that dies forgets its *)
(* flows and is given its last batch again.                                *)
(*                                                                         *)
(* What an update says is chosen when it is handled, and anew when it is   *)
(* handled again: nothing below depends on its being the same.  Any button *)
(* may be tapped at any time, since keyboards sent earlier, before the     *)
(* last restart too, stay where they are.                                  *)
(***************************************************************************)
EXTENDS Naturals, Sequences, FiniteSets

CONSTANTS
    Staff, Guests,      \* who writes to the bot: allowedUsers, anybody else
    Clients,            \* ids of the firm's clients
    Advocates,          \* ids of the roster
    MaxQueue,           \* bound: updates Telegram holds for the bot
    MaxDialogues,       \* bound on dialogues begun
    MaxCrashes,         \* bound on deaths of the process
    MaxLost,            \* bound on writes reported as failed although applied
    MaxUnsent,          \* bound on questions that Telegram did not deliver
    NoClient, NoAdvocate

ASSUME BotAssumption ==
    /\ Staff \cap Guests = {}
    /\ NoClient \notin Clients /\ NoAdvocate \notin Advocates
    /\ {MaxQueue, MaxDialogues, MaxCrashes, MaxLost, MaxUnsent} \subseteq Nat

Users == Staff \cup Guests
Dialogues == 1..MaxDialogues
Pairs == Clients \X (Advocates \cup {NoAdvocate})

VARIABLES
    flow,       \* flows: the dialogue each user is in
    queue,      \* updates not yet confirmed: how often each of them acted
    batch,      \* [taken, done]: the updates of the last poll, those handled
    up,         \* the process runs
    clients,    \* rows of clients
    roster,     \* rows of advocates
    active,     \* those not deactivated
    began,      \* history: dialogues begun so far
    deeds,      \* history: what each dialogue wrote at its end
    created,    \* history: clients each dialogue created
    shown,      \* history: groups the bot asked to confirm, <<client, advocate>>,
                \* and tag menus it put together, <<client, NoAdvocate>>
    made,       \* history: groups it made, clients whose tags it changed
    faults      \* [crashes, lost, unsent] so far

vars == <<flow, queue, batch, up, clients, roster, active, began, deeds,
          created, shown, made, faults>>

history == <<deeds, created, shown, made, faults>>
tables == <<clients, roster, active>>

-----------------------------------------------------------------------------
(* Dialogues.                                                              *)

Modes == {"book", "case"}

\* The first question of each command that came without its argument.
FirstSteps ==
    {"invoice_amount", "consult_name", "book_client_id", "advocate_name",
     "caseclose_id", "case_client_id", "pay_case_id", "creategroup_query",
     "client_query", "edit_client_query", "tags_client_query"}

\* Steps whose answer is kept and followed by the next question.
Following ==
    [consult_name |-> "consult_date", consult_date |-> "consult_time",
     consult_time |-> "consult_amount",
     pay_case_id |-> "pay_amount", pay_amount |-> "pay_date",
     book_date |-> "book_time", book_time |-> "book_price",
     book_price |-> "book_case", book_case |-> "book_status",
     case_fee |-> "case_category"]

\* Mutant: a step that no case of the switch knows.
ReqFollowingMisspelt ==
    [req_name |-> {"req_phone"}, req_phone |-> {"req_date", "req_mail"},
     req_date |-> {"req_time"}, req_time |-> {"req_mail"},
     req_email |-> {"req_category"}, req_category |-> {"req_question"},
     req_question |-> {}]

\* The same for a client's request; an intake skips the date and the time.
ReqFollowing ==
    [req_name |-> {"req_phone"}, req_phone |-> {"req_date", "req_email"},
     req_date |-> {"req_time"}, req_time |-> {"req_email"},
     req_email |-> {"req_category"}, req_category |-> {"req_question"},
     req_question |-> {}]

ReqSteps == DOMAIN ReqFollowing

\* Steps whose answer ends the dialogue with nothing written, or with a write.
ReadOnlyEnds == {"invoice_amount", "consult_amount"}
WritingEnds == {"advocate_name", "caseclose_id", "pay_custom_date", "case_description"}

NewClientSteps == {"new_client_phone", "new_client_email", "new_client_telegram",
                   "new_client_name_known_phone"}

StepOf == [book |-> "book_date", case |-> "case_fee"]

StaffSteps ==
    FirstSteps \cup DOMAIN Following \cup ReadOnlyEnds \cup WritingEnds \cup NewClientSteps
        \cup {"pay_date", "book_status", "case_category", "case_advocate_pick",
              "edit_field_value", "new_client_contact", "creategroup_advocate", "tags_menu"}

NoFlow == [step |-> "none", d |-> 0, client |-> NoClient,
           adv |-> NoAdvocate, mode |-> "none"]

Flow == [step : StaffSteps \cup ReqSteps, d : Dialogues,
         client : Clients \cup {NoClient}, adv : Advocates \cup {NoAdvocate},
         mode : Modes \cup {"none"}]

TypeOK ==
    /\ flow \in [Users -> Flow \cup {NoFlow}]
    /\ queue \in Seq(Nat) /\ Len(queue) <= MaxQueue
    /\ batch \in [taken : 0..MaxQueue, done : 0..MaxQueue]
    /\ batch.done <= batch.taken /\ batch.taken <= Len(queue)
    /\ up \in BOOLEAN
    /\ clients \subseteq Clients /\ active \subseteq roster /\ roster \subseteq Advocates
    /\ began \in 0..MaxDialogues
    /\ deeds \in [Dialogues -> Nat] /\ created \in [Dialogues -> Nat]
    /\ shown \subseteq Pairs /\ made \subseteq Pairs
    /\ faults \in [crashes : 0..MaxCrashes, lost : 0..MaxLost, unsent : 0..MaxUnsent]

Init ==
    /\ flow = [u \in Users |-> NoFlow]
    /\ queue = <<>> /\ batch = [taken |-> 0, done |-> 0] /\ up = TRUE
    /\ clients \in SUBSET Clients /\ roster \in SUBSET Advocates /\ active = roster
    /\ began = 0
    /\ deeds = [d \in Dialogues |-> 0] /\ created = [d \in Dialogues |-> 0]
    /\ shown = {} /\ made = {}
    /\ faults = [crashes |-> 0, lost |-> 0, unsent |-> 0]

InRequest(u) == flow[u].step \in ReqSteps
IsStaff(u) == u \in Staff

\* What a user types reaches the commands and the staff's dialogues.
Typed(u) == IsStaff(u) /\ ~InRequest(u)

\* Mutant: the sender of a tap is not checked.
AnybodyTaps(u) == u \in Users

\* A tap is handled whatever the user is being asked.
Tapped(u) == IsStaff(u)

Begin(u, step, client, mode) ==
    /\ began < MaxDialogues
    /\ began' = began + 1
    /\ flow' = [flow EXCEPT ![u] = [step |-> step, d |-> began + 1, client |-> client,
                                    adv |-> NoAdvocate, mode |-> mode]]

GoTo(u, step) == flow' = [flow EXCEPT ![u].step = step] /\ UNCHANGED began

\* Mutant: the flow outlives its last answer.
StayThere(u) == UNCHANGED <<flow, began>>

End(u) == flow' = [flow EXCEPT ![u] = NoFlow] /\ UNCHANGED began

-----------------------------------------------------------------------------
(* The poll.                                                               *)

UserSends ==
    /\ Len(queue) < MaxQueue
    /\ queue' = Append(queue, 0)
    /\ UNCHANGED <<flow, batch, up, began, tables, history>>

\* Mutant: the offset names the last update, not the one after it.
LastHandled == IF batch.done = 0 THEN 0 ELSE batch.done - 1

\* The updates below the offset, which the next poll confirms.
Confirmed == batch.done

GetUpdates ==
    /\ up /\ batch.done = batch.taken
    /\ queue # <<>>
    /\ queue' = SubSeq(queue, Confirmed + 1, Len(queue))
    /\ batch' = [taken |-> Len(queue) - Confirmed, done |-> 0]
    /\ UNCHANGED <<flow, up, began, tables, history>>

\* The next update of the batch is handled, and acts or not.
Handle(acts) ==
    /\ up /\ batch.done < batch.taken
    /\ batch' = [batch EXCEPT !.done = @ + 1]
    /\ queue' = [queue EXCEPT ![batch.done + 1] = @ + acts]
    /\ UNCHANGED up

Crash ==
    /\ up /\ faults.crashes < MaxCrashes
    /\ up' = FALSE
    /\ faults' = [faults EXCEPT !.crashes = @ + 1]
    /\ flow' = [u \in Users |-> NoFlow]
    /\ batch' = [taken |-> 0, done |-> 0]
    /\ UNCHANGED <<queue, began, tables, deeds, created, shown, made>>

Boot ==
    /\ ~up /\ up' = TRUE
    /\ UNCHANGED <<flow, queue, batch, began, tables, history>>

-----------------------------------------------------------------------------
(* What changes nothing here: menus, help, lists, cards, pickers; an answer *)
(* that is not a number or a date; a button whose step is over or whose     *)
(* message is gone; a failed search or write.                               *)

Ignored ==
    /\ Handle(0)
    /\ UNCHANGED <<flow, began, tables, history>>

-----------------------------------------------------------------------------
(* Writes.  A reported failure is taken for one, applied or not, and the   *)
(* dialogue is over either way; only CreateClient leaves it where it was.  *)

Deed(u) == deeds' = [deeds EXCEPT ![flow[u].d] = @ + 1]

\* A write at the end of a dialogue, or its failure.
Finish(u) ==
    /\ End(u)
    /\ \/ Handle(1) /\ Deed(u)
       \/ Handle(0) /\ UNCHANGED deeds
    /\ UNCHANGED <<clients, created, shown, made, faults>>

\* /pay and /caseclose with their argument, a status button, a practice area,
\* a link that binds a chat: written at once, in no dialogue.
WriteAtOnce ==
    /\ Handle(1)
    /\ UNCHANGED <<flow, began, tables, history>>

RegisterAdvocate ==
    \E v \in Advocates \ roster :
        roster' = roster \cup {v} /\ active' = active \cup {v}

\* /advocate <name>
RegisterAtOnce(u) ==
    /\ Typed(u) /\ Handle(1) /\ RegisterAdvocate
    /\ UNCHANGED <<flow, began, clients, history>>

DeactivateAdvocate(u, v) ==
    /\ Tapped(u) /\ Handle(1)
    /\ active' = active \ {v}
    /\ UNCHANGED <<flow, began, clients, roster, history>>

-----------------------------------------------------------------------------
(* Questions and answers.                                                  *)

Command(u) ==
    /\ Typed(u) /\ Handle(0)
    /\ \E s \in FirstSteps : Begin(u, s, NoClient, "none")
    /\ UNCHANGED <<tables, history>>

Answer(u) ==
    /\ Typed(u) /\ flow[u].step \in DOMAIN Following
    /\ Handle(0) /\ GoTo(u, Following[flow[u].step])
    /\ UNCHANGED <<tables, history>>

ReadOnlyAnswer(u) ==
    /\ Typed(u) /\ flow[u].step \in ReadOnlyEnds
    /\ Handle(0) /\ End(u)
    /\ UNCHANGED <<tables, history>>

FinishText(u) ==
    /\ Typed(u) /\ flow[u].step \in WritingEnds
    /\ Finish(u)
    /\ IF flow[u].step = "advocate_name" /\ deeds' # deeds
       THEN RegisterAdvocate ELSE UNCHANGED <<roster, active>>

\* /request and its button, an intake link: open to anybody, at any time.
StartRequestFlow(u) ==
    /\ Handle(0)
    /\ Begin(u, "req_name", NoClient, "none")
    /\ UNCHANGED <<tables, history>>

ContinueRequestFlow(u) ==
    /\ InRequest(u) /\ Handle(0)
    /\ \E s \in ReqFollowing[flow[u].step] : GoTo(u, s)
    /\ UNCHANGED <<tables, history>>

SubmitRequest(u) ==
    /\ flow[u].step = "req_question"
    /\ Finish(u) /\ UNCHANGED <<roster, active>>

-----------------------------------------------------------------------------
(* /pay: the date picker.                                                  *)

PickPaymentDate(u) ==
    /\ Tapped(u) /\ flow[u].step = "pay_date"
    /\ \/ Finish(u) /\ UNCHANGED <<roster, active>>
       \/ Handle(0) /\ GoTo(u, "pay_custom_date") /\ UNCHANGED <<tables, history>>

-----------------------------------------------------------------------------
(* /book and /case: whose, an existing client's or a new one's.            *)

ContinueWithClient(u, c, m) == Begin(u, StepOf[m], c, m)

\* The query names one client, or nobody; otherwise a picker is sent, and a
\* dialogue that asked for the client goes on asking.
ResolveClientOrCreate(u, m) ==
    /\ Typed(u)
    /\ Handle(0)
    /\ \/ \E c \in clients : ContinueWithClient(u, c, m)
       \/ \E s \in {"new_client_contact", "new_client_name_known_phone"} :
             Begin(u, s, NoClient, m)
    /\ UNCHANGED <<tables, history>>

\* "/book <query>" at any step, or the answer to "whose?" (startBooking, startCase).
ClientQuery(u) ==
    \E m \in Modes : ResolveClientOrCreate(u, m)

PickClientForFlow(u, c) ==
    /\ Tapped(u) /\ c \in clients
    /\ Handle(0)
    /\ \E m \in Modes : ContinueWithClient(u, c, m)
    /\ UNCHANGED <<tables, history>>

\* The contact is asked for; "nothing" creates the client at once.
PickNewClientContact(u) ==
    /\ Tapped(u) /\ flow[u].step = "new_client_contact"
    /\ Handle(0)
    /\ \E s \in NewClientSteps \ {"new_client_name_known_phone"} : GoTo(u, s)
    /\ UNCHANGED <<tables, history>>

CreateClient(u, c) ==
    /\ c \in Clients \ clients
    /\ clients' = clients \cup {c}
    /\ created' = [created EXCEPT ![flow[u].d] = @ + 1]
    /\ Handle(1)

\* The new client's dialogue goes on as the one it was begun for; where the
\* write is reported as failed the same question is answered again.
FinishNewClient(u) ==
    /\ \/ Typed(u) /\ flow[u].step \in NewClientSteps
       \/ Tapped(u) /\ flow[u].step = "new_client_contact"
    /\ \E c \in Clients \ clients :
          /\ CreateClient(u, c)
          /\ \/ /\ flow' = [flow EXCEPT ![u].step = StepOf[flow[u].mode], ![u].client = c]
                /\ UNCHANGED faults
             \/ /\ faults.lost < MaxLost
                /\ faults' = [faults EXCEPT !.lost = @ + 1]
                /\ UNCHANGED flow
    /\ UNCHANGED <<began, roster, active, deeds, shown, made>>

\* /book: scheduled or held already; a date that cannot be read ends it.
PickBookingStatus(u) ==
    /\ Tapped(u) /\ flow[u].step = "book_status"
    /\ Finish(u) /\ UNCHANGED <<roster, active>>

\* /case: the category is kept and the advocate asked for, if there is one.
AnswerCategory(u) ==
    /\ Typed(u) /\ flow[u].step = "case_category"
    /\ Handle(0)
    /\ IF active = {} THEN End(u) ELSE GoTo(u, "case_advocate_pick")
    /\ UNCHANGED <<tables, history>>

\* The roster is searched, deactivated advocates too (findAdvocate).
PickCaseAdvocate(u, v) ==
    /\ Tapped(u) /\ flow[u].step = "case_advocate_pick" /\ v \in roster
    /\ Handle(0)
    /\ flow' = [flow EXCEPT ![u].step = "case_description", ![u].adv = v]
    /\ UNCHANGED <<began, tables, history>>

-----------------------------------------------------------------------------
(* /client, /edit, /tags and /creategroup look a client up, by the command's *)
(* own query or by the answer to "whose?".                                  *)

\* Nobody is found, or several are and a keyboard names them: the dialogue
\* that asked is over, any other goes on under the command's answer.
LookedUp(u, step) ==
    /\ Typed(u) /\ Handle(0)
    /\ \/ flow[u].step = step /\ End(u)
       \/ UNCHANGED <<flow, began>>
    /\ UNCHANGED <<tables, history>>

\* The card of a client, or what to change of it: only the keyboard keeps whose.
SearchClientInfo(u) == LookedUp(u, "client_query")
SearchClientForEdit(u) == LookedUp(u, "edit_client_query")

-----------------------------------------------------------------------------
(* /creategroup.                                                           *)

\* Mutant: the advocate picked for the client before stays in the flow.
KeepAdvocate(u, c) ==
    /\ began < MaxDialogues /\ began' = began + 1
    /\ flow' = [flow EXCEPT ![u].step = "creategroup_advocate", ![u].client = c,
                            ![u].d = began + 1]

NewGroupFlow(u, c) == Begin(u, "creategroup_advocate", c, "none")

SendGroupAdvocatePicker(u, c) ==
    /\ active # {}
    /\ Handle(0) /\ NewGroupFlow(u, c)
    /\ UNCHANGED <<tables, history>>

\* The query is a client's id, or it is searched for.
SearchForGroup(u) ==
    \/ Typed(u) /\ \E c \in clients : SendGroupAdvocatePicker(u, c)
    \/ LookedUp(u, "creategroup_query")

PickAdvocateForGroup(u, c) ==
    /\ Tapped(u) /\ c \in clients
    /\ SendGroupAdvocatePicker(u, c)

\* A message that Telegram may not deliver.
Show(c, v) ==
    \/ shown' = shown \cup {<<c, v>>} /\ UNCHANGED faults
    \/ /\ faults.unsent < MaxUnsent
       /\ faults' = [faults EXCEPT !.unsent = @ + 1]
       /\ UNCHANGED shown

\* The flow takes the advocate, then the message is edited into the question.
ConfirmCreateGroup(u, v) ==
    /\ Tapped(u) /\ flow[u].step = "creategroup_advocate"
    /\ flow[u].client \in clients /\ v \in roster
    /\ Handle(0)
    /\ flow' = [flow EXCEPT ![u].adv = v]
    /\ Show(flow[u].client, v)
    /\ UNCHANGED <<began, tables, deeds, created, made>>

\* The group is made, or not: no user name, or the personal account refuses.
DoCreateGroup(u) ==
    /\ Tapped(u) /\ flow[u].step = "creategroup_advocate" /\ flow[u].adv # NoAdvocate
    /\ End(u)
    /\ \/ /\ Handle(1) /\ Deed(u)
          /\ made' = made \cup {<<flow[u].client, flow[u].adv>>}
       \/ Handle(0) /\ UNCHANGED <<deeds, made>>
    /\ UNCHANGED <<tables, created, shown, faults>>

\* Cancels whatever dialogue there is.
CancelCreateGroup(u) ==
    /\ Tapped(u) /\ Handle(0) /\ End(u)
    /\ UNCHANGED <<tables, history>>

-----------------------------------------------------------------------------
(* /edit: the button names the field and the client, the flow keeps them.   *)

StartEditField(u, c) ==
    /\ Tapped(u) /\ c \in clients
    /\ Handle(0) /\ Begin(u, "edit_field_value", c, "none")
    /\ UNCHANGED <<tables, history>>

ApplyClientFieldEdit(u) ==
    /\ Typed(u) /\ flow[u].step = "edit_field_value"
    /\ Finish(u) /\ UNCHANGED <<roster, active>>

-----------------------------------------------------------------------------
(* /tags: the buttons of a menu name a tag, the flow whose tag it is.       *)

TagsMenu(u, c) == Begin(u, "tags_menu", c, "none")

\* Mutant: the flow takes the client before the tags are listed, or not.
FlowFirst(u, c) ==
    /\ Handle(0) /\ TagsMenu(u, c)
    /\ Show(c, NoAdvocate) \/ UNCHANGED <<shown, faults>>
    /\ UNCHANGED <<tables, deeds, created, made>>

\* The client's tags are listed, the flow takes the client, the menu is sent.
SendTagsMenu(u, c) ==
    /\ Handle(0) /\ TagsMenu(u, c)
    /\ Show(c, NoAdvocate)
    /\ UNCHANGED <<tables, deeds, created, made>>

SearchClientForTags(u) ==
    \/ Typed(u) /\ \E c \in clients : SendTagsMenu(u, c)
    \/ LookedUp(u, "tags_client_query")

PickClientForTags(u, c) ==
    /\ Tapped(u) /\ c \in clients
    /\ SendTagsMenu(u, c)

\* A tag of the flow's client is written; the message becomes this client's
\* menu again, and the dialogue stays.
TagWritten(u) ==
    /\ Tapped(u) /\ flow[u].step = "tags_menu"
    /\ Handle(1)
    /\ made' = made \cup {<<flow[u].client, NoAdvocate>>}
    /\ UNCHANGED <<flow, began, tables, deeds, created, shown, faults>>

SetTag(u) == TagWritten(u)
RemoveTag(u) == TagWritten(u)

-----------------------------------------------------------------------------

TypedStep(u) ==
    \/ RegisterAtOnce(u) \/ Command(u) \/ Answer(u) \/ ReadOnlyAnswer(u) \/ FinishText(u)
    \/ StartRequestFlow(u) \/ ContinueRequestFlow(u) \/ SubmitRequest(u)
    \/ ClientQuery(u) \/ AnswerCategory(u) \/ ApplyClientFieldEdit(u)
    \/ SearchClientInfo(u) \/ SearchClientForEdit(u)
    \/ SearchForGroup(u) \/ SearchClientForTags(u)

TappedStep(u) ==
    \/ PickPaymentDate(u) \/ PickNewClientContact(u) \/ FinishNewClient(u)
    \/ PickBookingStatus(u) \/ DoCreateGroup(u) \/ CancelCreateGroup(u)
    \/ SetTag(u) \/ RemoveTag(u)
    \/ \E v \in Advocates :
          DeactivateAdvocate(u, v) \/ PickCaseAdvocate(u, v) \/ ConfirmCreateGroup(u, v)
    \/ \E c \in Clients :
          \/ PickClientForFlow(u, c) \/ PickAdvocateForGroup(u, c)
          \/ StartEditField(u, c) \/ PickClientForTags(u, c)

Next ==
    \/ UserSends \/ GetUpdates \/ Crash \/ Boot
    \/ Ignored \/ WriteAtOnce
    \/ \E u \in Users : TypedStep(u) \/ TappedStep(u)

Spec == Init /\ [][Next]_vars

-----------------------------------------------------------------------------
(* Safety.                                                                 *)

DialogueActsOnce ==
    \A d \in Dialogues : deeds[d] <= 1 /\ created[d] <= 1 + faults.lost

OncePerLife == \A i \in 1..Len(queue) : queue[i] <= 1 + faults.crashes

\* A dialogue writes at its end once, however often its last button is tapped
\* or its last answer sent, and creates its client once unless the write was
\* reported as failed (the flow is deleted before the write: pickPaymentDate,
\* finishBooking, finishCase, doCreateGroup, continueRequestFlow); and an update
\* acts once as long as the process lives, which is given its last batch again
\* only when it died (Run).
ActsOnce == DialogueActsOnce /\ OncePerLife

\* A group is made for nobody but a client and an advocate the staff member was
\* asked about, even by the button of an older question, and tags are changed of
\* nobody but a client whose menu was sent, even by the button of another
\* client's menu, unless Telegram did not deliver the question or the menu
\* (confirmCreateGroup, doCreateGroup, sendTagsMenu, pickSetTag).
ActsAsShown == Cardinality(made \ shown) <= faults.unsent

\* Everybody is in a dialogue made for them: staff in any, the others in none but
\* a request, whatever is typed to the bot or tapped (handle, handleCallback).
StaffOnly ==
    /\ TypeOK
    /\ \A g \in Guests : flow[g].step \in ReqSteps \cup {"none"}

-----------------------------------------------------------------------------
(* Inductive invariants behind them.                                       *)

ClientSteps == NewClientSteps \cup {"new_client_contact"}
MenuSteps == {"creategroup_advocate", "tags_menu"}

InDialogue(u) == flow[u].step # "none"

\* A dialogue that goes on has written nothing at its end, and created no client
\* that it knows of; what its buttons act on is in it.
FlowOK(u) ==
    LET f == flow[u] IN
    /\ f.d <= began
    /\ InDialogue(u) => deeds[f.d] = 0
    /\ f.step \in ClientSteps => f.mode \in Modes /\ created[f.d] <= faults.lost
    /\ f.step \in MenuSteps => f.client \in Clients
    /\ f.step = "tags_menu" => f.adv = NoAdvocate

DialogueInv ==
    /\ \A u \in Users : FlowOK(u)
    /\ \A u, x \in Users : InDialogue(u) /\ InDialogue(x) /\ flow[u].d = flow[x].d => u = x
    /\ \A d \in Dialogues : d > began => deeds[d] = 0 /\ created[d] = 0
    /\ DialogueActsOnce

\* An update of the batch that is not handled yet has acted in earlier lives only.
PollInv ==
    \A i \in 1..Len(queue) :
        queue[i] <= faults.crashes + (IF i <= batch.done THEN 1 ELSE 0)

\* What the next tap may act on.
Held ==
    {<<flow[u].client, flow[u].adv>> :
        u \in {x \in Users : \/ flow[x].step = "tags_menu"
                             \/ flow[x].step = "creategroup_advocate" /\ flow[x].adv # NoAdvocate}}

\* What was or may be acted on unseen: each piece cost a message.
Unseen == (made \cup Held) \ shown
ShownInv == IsFiniteSet(Unseen) /\ Cardinality(Unseen) <= faults.unsent

BotInv == StaffOnly /\ DialogueInv /\ PollInv /\ ShownInv
=============================================================================
