-------------------------- MODULE Telegram_proofs --------------------------
(***************************************************************************)
(* What the firm's two faces in Telegram promise.                          *)
(*                                                                         *)
(* The bot: its dialogues, for any number of users, clients, advocates,    *)
(* updates and crashes.                                                    *)
(*                                                                         *)
(* The picker of the Mini App: it offers exactly the hours of the grid,    *)
(* for any schedule, any wall clock that changes by an hour, and any hours *)
(* taken.                                                                  *)
(***************************************************************************)
EXTENDS AdminBot, SlotGrid, FiniteSetTheorems, SequenceTheorems, TLAPS

Steps == StaffSteps \cup ReqSteps

-----------------------------------------------------------------------------
(* The tables of questions.                                                *)

LEMMA FollowingAsks ==
  ASSUME NEW s \in DOMAIN Following
  PROVE  Following[s] \in Steps \ (ClientSteps \cup MenuSteps \cup {"none"})
<1>1. s \in {"consult_name", "consult_date", "consult_time", "pay_case_id", "pay_amount",
             "book_date", "book_time", "book_price", "book_case", "case_fee"}
  BY DEF Following
<1>2. Following[s] \in {"consult_date", "consult_time", "consult_amount", "pay_amount", "pay_date",
                        "book_time", "book_price", "book_case", "book_status", "case_category"}
  BY <1>1 DEF Following
<1>3. {"consult_date", "consult_time", "consult_amount", "pay_amount", "pay_date",
       "book_time", "book_price", "book_case", "book_status", "case_category"} \subseteq Steps
  BY DEF Steps, StaffSteps, Following, ReadOnlyEnds
<1>4. QED
  BY <1>2, <1>3 DEF ClientSteps, NewClientSteps, MenuSteps

LEMMA ReqFollowingAsks ==
  ASSUME NEW s \in ReqSteps, NEW t \in ReqFollowing[s]
  PROVE  t \in ReqSteps
<1>1. s \in {"req_name", "req_phone", "req_date", "req_time", "req_email", "req_category",
             "req_question"}
  BY DEF ReqSteps, ReqFollowing
<1>2. t \in {"req_name", "req_phone", "req_date", "req_time", "req_email", "req_category",
             "req_question"}
  BY <1>1 DEF ReqFollowing
<1>3. QED
  BY <1>2 DEF ReqSteps, ReqFollowing

LEMMA ReqStepsAre ==
  /\ ReqSteps = {"req_name", "req_phone", "req_date", "req_time", "req_email", "req_category",
                 "req_question"}
  /\ ReqSteps \cap (ClientSteps \cup MenuSteps \cup {"none"}) = {}
<1>1. ReqSteps = {"req_name", "req_phone", "req_date", "req_time", "req_email", "req_category",
                  "req_question"}
  BY DEF ReqSteps, ReqFollowing
<1>2. QED
  BY <1>1 DEF ClientSteps, NewClientSteps, MenuSteps

LEMMA StepsAre ==
  /\ FirstSteps \cup ClientSteps \cup MenuSteps \cup {"edit_field_value", "book_date", "case_fee",
       "pay_custom_date", "case_advocate_pick", "case_description"} \subseteq Steps
  /\ ReqSteps \subseteq Steps /\ "none" \notin Steps
  BY ReqStepsAre DEF Steps, StaffSteps, ClientSteps, MenuSteps, FirstSteps, Following, WritingEnds,
                     ReadOnlyEnds, NewClientSteps

-----------------------------------------------------------------------------
(* The poll.                                                               *)

QueueOK ==
    /\ queue \in Seq(Nat) /\ Len(queue) <= MaxQueue
    /\ batch \in [taken : 0..MaxQueue, done : 0..MaxQueue]
    /\ batch.done <= batch.taken /\ batch.taken <= Len(queue)
    /\ up \in BOOLEAN
    /\ faults.crashes \in Nat
    /\ PollInv

\* An update that is handled acts for the first time in this life.
LEMMA HandlePoll ==
  ASSUME QueueOK, NEW n \in {0, 1}, Handle(n), faults'.crashes = faults.crashes
  PROVE  QueueOK'
<1>0. MaxQueue \in Nat
  BY BotAssumption
<1> DEFINE k == batch.done + 1
<1>1. k \in 1..Len(queue) /\ k \in Nat /\ batch.done \in 0..MaxQueue /\ batch.taken \in 0..MaxQueue
  BY <1>0 DEF QueueOK, Handle
<1>2. queue' = [queue EXCEPT ![k] = @ + n] /\ queue[k] + n \in Nat
  BY <1>1 DEF QueueOK, Handle
<1>3. /\ queue' \in Seq(Nat) /\ Len(queue') = Len(queue)
      /\ queue'[k] = queue[k] + n
      /\ \A i \in 1..Len(queue) : i # k => queue'[i] = queue[i]
  BY <1>1, <1>2 DEF QueueOK
<1>4. /\ batch' \in [taken : 0..MaxQueue, done : 0..MaxQueue]
      /\ batch'.done = k /\ batch'.taken = batch.taken /\ k <= batch.taken /\ up' = up
  BY <1>0, <1>1 DEF QueueOK, Handle
<1>5. ASSUME NEW i \in 1..Len(queue)
      PROVE  queue'[i] <= faults.crashes + (IF i <= k THEN 1 ELSE 0)
  <2>1. queue[i] <= faults.crashes + (IF i <= batch.done THEN 1 ELSE 0)
    BY DEF QueueOK, PollInv
  <2>2. queue[i] \in Nat /\ faults.crashes \in Nat
    BY DEF QueueOK
  <2>3. CASE i = k
    BY <1>1, <1>3, <2>1, <2>2, <2>3
  <2>4. CASE i # k
    BY <1>1, <1>3, <2>1, <2>2, <2>4
  <2>5. QED
    BY <2>3, <2>4
<1>6. PollInv'
  BY <1>3, <1>4, <1>5 DEF PollInv
<1>7. QED
  BY <1>1, <1>3, <1>4, <1>6 DEF QueueOK

LEMMA SendPoll == ASSUME QueueOK, UserSends PROVE QueueOK'
<1>1. queue' = Append(queue, 0) /\ Len(queue) < MaxQueue /\ UNCHANGED <<batch, up, faults>>
  BY DEF UserSends, history
<1>2. /\ queue' \in Seq(Nat) /\ Len(queue') = Len(queue) + 1 /\ Len(queue) \in Nat
      /\ \A i \in 1..Len(queue) : queue'[i] = queue[i]
      /\ queue'[Len(queue) + 1] = 0
  BY <1>1 DEF QueueOK
<1>3. Len(queue') <= MaxQueue /\ batch.taken <= Len(queue')
  BY <1>1, <1>2, BotAssumption DEF QueueOK
<1>4. ASSUME NEW i \in 1..Len(queue')
      PROVE  queue'[i] <= faults.crashes + (IF i <= batch.done THEN 1 ELSE 0)
  <2>1. CASE i \in 1..Len(queue)
    BY <1>2, <2>1 DEF QueueOK, PollInv
  <2>2. CASE i = Len(queue) + 1
    BY <1>2, <2>2 DEF QueueOK
  <2>3. QED
    BY <1>2, <2>1, <2>2
<1>5. QED
  BY <1>1, <1>2, <1>3, <1>4 DEF QueueOK, PollInv

\* What is confirmed leaves; the rest has acted in earlier lives only.
LEMMA FetchPoll == ASSUME QueueOK, GetUpdates PROVE QueueOK'
<1>0. MaxQueue \in Nat
  BY BotAssumption
<1> DEFINE k == batch.done
           n == Len(queue)
<1>1. k \in 0..n /\ n \in 0..MaxQueue /\ k \in Nat /\ n \in Nat
  BY <1>0 DEF QueueOK
<1>2. /\ queue' = SubSeq(queue, k + 1, n) /\ batch' = [taken |-> n - k, done |-> 0]
      /\ UNCHANGED <<up, faults>>
  BY DEF GetUpdates, Confirmed, history
<1>3. /\ queue' \in Seq(Nat) /\ Len(queue') = n - k
      /\ \A i \in 1..(n - k) : queue'[i] = queue[k + i]
  <2>1. \A i \in (k + 1)..n : queue[i] \in Nat
    BY <1>1 DEF QueueOK
  <2>2. /\ queue' \in Seq(Nat)
        /\ Len(queue') = IF k + 1 <= n THEN n - (k + 1) + 1 ELSE 0
        /\ \A i \in 1..(n - (k + 1) + 1) : queue'[i] = queue[k + 1 + i - 1]
    BY <1>1, <1>2, <2>1, SubSeqProperties, SMTT(30)
  <2>3. n - (k + 1) + 1 = n - k /\ \A i \in 1..(n - k) : k + 1 + i - 1 = k + i
    BY <1>1
  <2>4. QED
    BY <1>1, <2>2, <2>3, SMTT(30)
<1>4. ASSUME NEW i \in 1..(n - k) PROVE queue'[i] <= faults.crashes
  <2>1. k + i \in 1..n /\ ~(k + i <= k)
    BY <1>1
  <2>2. queue[k + i] <= faults.crashes + 0
    BY <2>1 DEF QueueOK, PollInv
  <2>3. faults.crashes + 0 = faults.crashes
    BY DEF QueueOK
  <2>4. QED
    BY <1>3, <2>2, <2>3
<1>5. ASSUME NEW i \in 1..(n - k)
      PROVE  queue'[i] <= faults'.crashes + (IF i <= batch'.done THEN 1 ELSE 0)
  BY <1>1, <1>2, <1>4, SMTT(30) DEF QueueOK
<1>6. PollInv'
  BY <1>3, <1>5 DEF PollInv
<1>7. batch' \in [taken : 0..MaxQueue, done : 0..MaxQueue]
  BY <1>0, <1>1, <1>2
<1>8. QED
  BY <1>0, <1>1, <1>2, <1>3, <1>6, <1>7 DEF QueueOK

LEMMA CrashPoll == ASSUME TypeOK, QueueOK, Crash PROVE QueueOK'
<1>1. queue' = queue /\ batch' = [taken |-> 0, done |-> 0] /\ up' = FALSE
  BY DEF Crash
<1>2. faults'.crashes = faults.crashes + 1
  BY DEF Crash, TypeOK
<1>3. batch' \in [taken : 0..MaxQueue, done : 0..MaxQueue] /\ batch'.done = 0 /\ batch'.taken = 0
  BY <1>1, BotAssumption
<1>4. ASSUME NEW i \in 1..Len(queue)
      PROVE  queue[i] <= faults.crashes + 1 + (IF i <= 0 THEN 1 ELSE 0)
  BY DEF QueueOK, PollInv
<1>5. PollInv'
  BY <1>1, <1>2, <1>3, <1>4 DEF PollInv
<1>6. Len(queue) \in Nat /\ 0 <= Len(queue) /\ faults.crashes + 1 \in Nat
  BY DEF QueueOK
<1>7. queue' \in Seq(Nat) /\ Len(queue') <= MaxQueue /\ 0 <= Len(queue') /\ faults'.crashes \in Nat
  BY <1>1, <1>2, <1>6 DEF QueueOK
<1>8. up' \in BOOLEAN
  BY <1>1
<1>9. QED
  BY <1>3, <1>5, <1>7, <1>8 DEF QueueOK

-----------------------------------------------------------------------------
(* Who is in which dialogue.                                               *)

FlowType == flow \in [Users -> Flow \cup {NoFlow}] /\ began \in 0..MaxDialogues

Others(u) == \A x \in Users \ {u} : flow'[x] = flow[x]

\* A new dialogue of u.
Fresh(u) ==
    \E s \in Steps, c \in Clients \cup {NoClient}, m \in Modes \cup {"none"} :
        /\ Begin(u, s, c, m)
        /\ s \in ClientSteps => m \in Modes
        /\ s \in MenuSteps => c \in Clients
        /\ u \in Guests => s \in ReqSteps

\* The dialogue of u goes on, with a question whose answer acts on nothing.
Goes(u) ==
    /\ InDialogue(u) /\ began' = began /\ FlowType'
    /\ Others(u)
    /\ InDialogue(u)' /\ flow'[u].d = flow[u].d /\ flow'[u].mode = flow[u].mode
    /\ flow'[u].step \notin MenuSteps
    /\ flow'[u].step \in ClientSteps => flow[u].step \in ClientSteps
    /\ u \in Guests => flow'[u].step \in ReqSteps

Stays == UNCHANGED <<flow, began>>

Moves(u) == Stays \/ End(u) \/ Goes(u) \/ Fresh(u)

LEMMA FlowOf ==
  ASSUME TypeOK, NEW u \in Users
  PROVE  /\ flow[u] \in Flow \cup {NoFlow} /\ flow \in [Users -> Flow \cup {NoFlow}]
         /\ began \in 0..MaxDialogues /\ MaxDialogues \in Nat
         /\ InDialogue(u) => flow[u] \in Flow
         /\ ~InDialogue(u) => flow[u] = NoFlow
         /\ flow[u].step \in Steps \cup {"none"}
<1>1. flow[u] \in Flow \cup {NoFlow} /\ MaxDialogues \in Nat
  BY BotAssumption DEF TypeOK
<1>2. flow[u] \in Flow => flow[u].step \in Steps
  BY DEF Flow, Steps
<1>3. NoFlow.step = "none" /\ "none" \notin Steps
  BY StepsAre DEF NoFlow
<1>4. QED
  BY <1>1, <1>2, <1>3 DEF TypeOK, InDialogue

LEMMA FreshFlow ==
  ASSUME TypeOK, NEW u \in Users, NEW s \in Steps, NEW c \in Clients \cup {NoClient},
         NEW m \in Modes \cup {"none"}, Begin(u, s, c, m)
  PROVE  /\ FlowType' /\ Others(u) /\ began' = began + 1 /\ began + 1 \in Dialogues
         /\ flow'[u].step = s /\ flow'[u].d = began + 1 /\ flow'[u].client = c
         /\ flow'[u].mode = m /\ flow'[u].adv = NoAdvocate /\ InDialogue(u)'
<1> DEFINE f == [step |-> s, d |-> began + 1, client |-> c, adv |-> NoAdvocate, mode |-> m]
<1>1. began < MaxDialogues /\ began' = began + 1 /\ flow' = [flow EXCEPT ![u] = f]
  BY DEF Begin
<1>2. began + 1 \in Dialogues /\ began + 1 \in 0..MaxDialogues
  BY <1>1, FlowOf DEF Dialogues
<1>3. f \in Flow
  BY <1>2 DEF Flow, Steps
<1>4. f.step # "none" /\ f.step = s /\ f.d = began + 1 /\ f.client = c /\ f.mode = m
      /\ f.adv = NoAdvocate
  BY StepsAre
<1> HIDE DEF f
<1>5. flow'[u] = f /\ Others(u) /\ flow' \in [Users -> Flow \cup {NoFlow}]
  BY <1>1, <1>3, FlowOf DEF Others
<1>6. QED
  BY <1>1, <1>2, <1>4, <1>5 DEF FlowType, InDialogue

LEMMA EndFlow ==
  ASSUME TypeOK, NEW u \in Users, End(u)
  PROVE  FlowType' /\ Others(u) /\ began' = began /\ flow'[u] = NoFlow /\ ~(InDialogue(u)')
<1>1. flow'[u] = NoFlow /\ Others(u) /\ flow' \in [Users -> Flow \cup {NoFlow}] /\ began' = began
  BY FlowOf DEF End, Others
<1>2. QED
  BY <1>1, FlowOf DEF FlowType, InDialogue, NoFlow

LEMMA GoToGoes ==
  ASSUME TypeOK, NEW u \in Users, NEW s \in Steps \ MenuSteps, InDialogue(u), GoTo(u, s),
         s \in ClientSteps => flow[u].step \in ClientSteps,
         u \in Guests => s \in ReqSteps
  PROVE  Goes(u)
<1>1. flow[u] \in Flow /\ flow' = [flow EXCEPT ![u].step = s] /\ began' = began
  BY FlowOf DEF GoTo
<1>2. [flow[u] EXCEPT !.step = s] \in Flow
  BY <1>1 DEF Flow, Steps
<1>3. flow'[u] = [flow[u] EXCEPT !.step = s] /\ Others(u)
  BY <1>1, FlowOf DEF Others
<1>4. flow' \in [Users -> Flow \cup {NoFlow}]
  BY <1>1, <1>2, FlowOf
<1>5. flow'[u].step = s /\ flow'[u].d = flow[u].d /\ flow'[u].mode = flow[u].mode
  BY <1>1, <1>3 DEF Flow
<1>6. QED
  BY <1>1, <1>3, <1>4, <1>5, FlowOf, StepsAre DEF Goes, FlowType, InDialogue

\* A step of one user, who is in a dialogue of their own after it.
LEMMA DialogueStep ==
  ASSUME TypeOK, DialogueInv, NEW u \in Users, Others(u), FlowOK(u)', DialogueActsOnce',
         began' \in {began, began + 1}, faults.lost <= faults'.lost,
         faults'.lost \in Nat,
         InDialogue(u)' => \/ began' = began + 1 /\ flow'[u].d = began + 1
                           \/ InDialogue(u) /\ flow'[u].d = flow[u].d,
         \A d \in Dialogues : \/ InDialogue(u) /\ d = flow[u].d
                              \/ deeds'[d] = deeds[d] /\ created'[d] = created[d]
  PROVE  DialogueInv'
<1>0. /\ began \in Nat /\ faults.lost \in Nat /\ deeds \in [Dialogues -> Nat]
      /\ created \in [Dialogues -> Nat]
  BY FlowOf, BotAssumption DEF TypeOK
<1>1. ASSUME NEW x \in Users, InDialogue(x) PROVE flow[x].d \in Dialogues /\ flow[x].d <= began
  BY <1>1, FlowOf DEF DialogueInv, FlowOK, Flow
<1>2. ASSUME NEW x \in Users \ {u} PROVE FlowOK(x)'
  <2>1. flow'[x] = flow[x] /\ FlowOK(x)
    BY DEF Others, DialogueInv
  <2>2. flow[x].d \in Nat
    BY FlowOf DEF Flow, NoFlow, Dialogues
  <2>3. flow'[x].d <= began'
    BY <1>0, <2>1, <2>2 DEF FlowOK
  <2>4. CASE InDialogue(x)
    <3>1. InDialogue(u) => flow[x].d # flow[u].d
      BY <2>4 DEF DialogueInv
    <3>2. deeds'[flow[x].d] = deeds[flow[x].d] /\ created'[flow[x].d] = created[flow[x].d]
      BY <1>1, <2>4, <3>1
    <3>3. created[flow[x].d] \in Nat
      BY <1>0, <1>1, <2>4
    <3>4. created[flow[x].d] <= faults.lost => created'[flow[x].d] <= faults'.lost
      BY <1>0, <3>2, <3>3
    <3>5. QED
      BY <2>1, <2>3, <2>4, <3>2, <3>4 DEF FlowOK, InDialogue
  <2>5. CASE ~InDialogue(x)
    BY <2>1, <2>3, <2>5 DEF FlowOK, InDialogue, ClientSteps, NewClientSteps, MenuSteps
  <2>6. QED
    BY <2>4, <2>5
<1>3. ASSUME NEW x \in Users, NEW y \in Users, InDialogue(x)', InDialogue(y)',
             flow'[x].d = flow'[y].d
      PROVE  x = y
  <2>1. ASSUME NEW z \in Users \ {u}, InDialogue(z)' PROVE flow'[u].d # flow'[z].d \/ ~(InDialogue(u)')
    <3>1. flow'[z] = flow[z] /\ InDialogue(z)
      BY <2>1 DEF Others, InDialogue
    <3>2. flow[z].d \in Nat /\ flow[z].d <= began
      BY <1>1, <3>1 DEF Dialogues
    <3>3. InDialogue(u) => flow[z].d # flow[u].d
      BY <3>1 DEF DialogueInv
    <3>4. flow[z].d # began + 1
      BY <1>0, <3>2
    <3>5. QED
      BY <3>1, <3>3, <3>4
  <2>2. CASE x = u \/ y = u
    BY <1>3, <2>1, <2>2
  <2>3. CASE x # u /\ y # u
    BY <1>3, <2>3 DEF Others, DialogueInv, InDialogue
  <2>4. QED
    BY <2>2, <2>3
<1>4. ASSUME NEW d \in Dialogues, d > began' PROVE deeds'[d] = 0 /\ created'[d] = 0
  <2>1. d > began /\ d \in Nat
    BY <1>0, <1>4 DEF Dialogues
  <2>2. InDialogue(u) => d # flow[u].d
    BY <1>0, <1>1, <2>1 DEF Dialogues
  <2>3. QED
    BY <2>1, <2>2 DEF DialogueInv
<1>5. QED
  BY <1>2, <1>3, <1>4 DEF DialogueInv

\* A step that neither writes nor shows anything.
LEMMA MovesDialogue ==
  ASSUME TypeOK, DialogueInv, NEW u \in Users, Moves(u), UNCHANGED <<deeds, created, faults>>
  PROVE  DialogueInv' /\ FlowType'
<1>0. DialogueActsOnce'
  BY DEF DialogueInv, DialogueActsOnce
<1>a. faults.lost \in Nat /\ faults.lost <= faults'.lost /\ faults'.lost \in Nat
  BY BotAssumption DEF TypeOK
<1>b. began \in Nat
  BY FlowOf
<1>1. CASE Stays
  <2>1. flow' = flow /\ began' = began
    BY <1>1 DEF Stays
  <2>2. DialogueInv'
    BY <1>0, <2>1 DEF DialogueInv, FlowOK, InDialogue
  <2>3. QED
    BY <2>1, <2>2, FlowOf DEF FlowType
<1>2. CASE End(u)
  <2>1. FlowType' /\ Others(u) /\ began' = began /\ flow'[u] = NoFlow /\ ~(InDialogue(u)')
    BY <1>2, EndFlow
  <2>2. FlowOK(u)'
    BY <1>b, <2>1 DEF FlowOK, NoFlow, ClientSteps, NewClientSteps, MenuSteps
  <2>3. QED
    BY <1>0, <1>a, <2>1, <2>2, DialogueStep
<1>3. CASE Goes(u)
  <2>1. FlowOK(u)
    BY DEF DialogueInv
  <2>2. FlowOK(u)'
    BY <1>3, <2>1 DEF Goes, FlowOK, MenuSteps
  <2>3. QED
    BY <1>0, <1>3, <1>a, <2>2, DialogueStep DEF Goes
<1>4. CASE Fresh(u)
  <2>1. PICK s \in Steps, c \in Clients \cup {NoClient}, m \in Modes \cup {"none"} :
          /\ Begin(u, s, c, m)
          /\ s \in ClientSteps => m \in Modes
          /\ s \in MenuSteps => c \in Clients
    BY <1>4 DEF Fresh
  <2>2. /\ FlowType' /\ Others(u) /\ began' = began + 1 /\ began + 1 \in Dialogues
        /\ flow'[u].step = s /\ flow'[u].d = began + 1 /\ flow'[u].client = c
        /\ flow'[u].mode = m /\ flow'[u].adv = NoAdvocate
    BY <2>1, FreshFlow
  <2>3. deeds[began + 1] = 0 /\ created[began + 1] = 0
    BY <1>b, <2>2 DEF DialogueInv
  <2>4. FlowOK(u)'
    BY <1>a, <1>b, <2>1, <2>2, <2>3 DEF FlowOK
  <2>5. QED
    BY <1>0, <1>a, <2>2, <2>4, DialogueStep
<1>5. QED
  BY <1>1, <1>2, <1>3, <1>4 DEF Moves

LEMMA MovesGuests ==
  ASSUME StaffOnly, NEW u \in Users, Moves(u)
  PROVE  \A g \in Guests : flow'[g].step \in ReqSteps \cup {"none"}
<1>0. TypeOK /\ Guests \subseteq Users
  BY DEF StaffOnly, Users
<1>1. CASE Stays
  BY <1>1 DEF Stays, StaffOnly
<1>2. CASE End(u)
  BY <1>0, <1>2, EndFlow DEF Others, StaffOnly, NoFlow
<1>3. CASE Goes(u)
  BY <1>0, <1>3 DEF Goes, Others, StaffOnly
<1>4. CASE Fresh(u)
  BY <1>0, <1>4, FreshFlow DEF Fresh, Others, StaffOnly
<1>5. QED
  BY <1>1, <1>2, <1>3, <1>4 DEF Moves

\* Nothing new to act on, unless tags are shown.
LEMMA MovesHeld ==
  ASSUME TypeOK, NEW u \in Users, Moves(u),
         flow'[u].step = "tags_menu" => flow' = flow
  PROVE  Held' \subseteq Held
<1> SUFFICES ASSUME NEW x \in Users,
                    \/ flow'[x].step = "tags_menu"
                    \/ flow'[x].step = "creategroup_advocate" /\ flow'[x].adv # NoAdvocate
             PROVE  <<flow'[x].client, flow'[x].adv>> \in Held
  BY DEF Held
<1>1. CASE flow'[x] = flow[x]
  BY <1>1 DEF Held
<1>2. CASE flow'[x] # flow[x]
  <2>1. x = u /\ flow' # flow
    BY <1>2, EndFlow, FreshFlow DEF Moves, Stays, Goes, Fresh, Others
  <2>2. flow'[u].step = "creategroup_advocate" /\ flow'[u].adv # NoAdvocate
    BY <2>1
  <2>3. ~Stays /\ ~End(u) /\ ~Goes(u) /\ ~Fresh(u)
    BY <2>1, <2>2, EndFlow, FreshFlow DEF Stays, NoFlow, Goes, MenuSteps, Fresh
  <2>4. QED
    BY <2>3 DEF Moves
<1>3. QED
  BY <1>1, <1>2

-----------------------------------------------------------------------------
(* What was acted on, and what the next tap may act on, was shown.         *)

LEMMA ShownStep ==
  ASSUME TypeOK, ShownInv, shown \subseteq shown', NEW p,
         made' \cup Held' \subseteq made \cup Held \cup {p},
         faults'.unsent \in Nat,
         \/ p \in shown' \cup made \cup Held /\ faults'.unsent >= faults.unsent
         \/ faults'.unsent = faults.unsent + 1
  PROVE  ShownInv'
<1>0. faults.unsent \in Nat /\ IsFiniteSet(Unseen) /\ Cardinality(Unseen) \in Nat
      /\ Cardinality(Unseen) <= faults.unsent
  BY FS_CardinalityType, BotAssumption DEF TypeOK, ShownInv
<1>1. CASE p \in shown' \cup made \cup Held /\ faults'.unsent >= faults.unsent
  <2>1. Unseen' \subseteq Unseen
    BY <1>1 DEF Unseen
  <2>2. IsFiniteSet(Unseen') /\ Cardinality(Unseen') <= Cardinality(Unseen)
    BY <1>0, <2>1, FS_Subset
  <2>3. Cardinality(Unseen') \in Nat
    BY <2>2, FS_CardinalityType
  <2>4. QED
    BY <1>0, <1>1, <2>2, <2>3 DEF ShownInv
<1>2. CASE faults'.unsent = faults.unsent + 1
  <2>1. Unseen' \subseteq Unseen \cup {p}
    BY DEF Unseen
  <2>2. /\ IsFiniteSet(Unseen \cup {p})
        /\ Cardinality(Unseen \cup {p}) \in {Cardinality(Unseen), Cardinality(Unseen) + 1}
    BY <1>0, FS_AddElement
  <2>3. IsFiniteSet(Unseen') /\ Cardinality(Unseen') <= Cardinality(Unseen \cup {p})
    BY <2>1, <2>2, FS_Subset
  <2>4. Cardinality(Unseen') \in Nat
    BY <2>3, FS_CardinalityType
  <2>5. QED
    BY <1>0, <1>2, <2>2, <2>3, <2>4 DEF ShownInv
<1>3. QED
  BY <1>1, <1>2

LEMMA ShownKept ==
  ASSUME TypeOK, ShownInv, UNCHANGED <<shown, faults>>, made' \cup Held' \subseteq made \cup Held
  PROVE  ShownInv'
<1>0. faults.unsent \in Nat /\ IsFiniteSet(Unseen) /\ Cardinality(Unseen) \in Nat
  BY FS_CardinalityType, BotAssumption DEF TypeOK, ShownInv
<1>1. Unseen' \subseteq Unseen
  BY DEF Unseen
<1>2. IsFiniteSet(Unseen') /\ Cardinality(Unseen') <= Cardinality(Unseen)
  BY <1>0, <1>1, FS_Subset
<1>3. Cardinality(Unseen') \in Nat
  BY <1>2, FS_CardinalityType
<1>4. QED
  BY <1>0, <1>2, <1>3 DEF ShownInv

-----------------------------------------------------------------------------
(* The steps, by what they do to the dialogues.                            *)

TablesOK == clients \subseteq Clients /\ active \subseteq roster /\ roster \subseteq Advocates

HistoryType ==
    /\ deeds \in [Dialogues -> Nat] /\ created \in [Dialogues -> Nat]
    /\ shown \subseteq Pairs /\ made \subseteq Pairs
    /\ faults \in [crashes : 0..MaxCrashes, lost : 0..MaxLost, unsent : 0..MaxUnsent]

Handled == \E n \in {0, 1} : Handle(n)

\* Questions, answers that are kept, commands that only look.
Quiet(u) ==
    /\ Moves(u) /\ UNCHANGED history
    /\ flow'[u].step = "tags_menu" => flow' = flow

\* The write at the end of a dialogue.
Ends(u) ==
    /\ InDialogue(u) /\ End(u)
    /\ Deed(u) \/ UNCHANGED deeds
    /\ UNCHANGED <<created, shown, faults>>
    /\ made' \cup Held' \subseteq made \cup Held /\ made' \subseteq Pairs

\* A button's message, asked for under a new or an old dialogue.
Asks(u) ==
    /\ u \notin Guests
    /\ \E c \in Clients, v \in Advocates \cup {NoAdvocate} :
           /\ \/ flow[u].step = "creategroup_advocate" /\ flow[u].client = c
                 /\ flow' = [flow EXCEPT ![u].adv = v] /\ UNCHANGED began
              \/ v = NoAdvocate /\ TagsMenu(u, c)
           /\ Show(c, v)
           /\ UNCHANGED <<deeds, created, made>>

StepOK(u) ==
    /\ Handled /\ TablesOK'
    /\ Quiet(u) \/ Ends(u) \/ Asks(u) \/ FinishNewClient(u) \/ TagWritten(u)

\* A staff member may be asked anything.
LEMMA StaffAsked ==
  ASSUME NEW u \in Users, Typed(u) \/ Tapped(u) PROVE u \notin Guests /\ u \in Staff
  BY BotAssumption DEF Typed, Tapped, IsStaff

LEMMA BeginFresh ==
  ASSUME NEW u \in Users, NEW s \in Steps, NEW c \in Clients \cup {NoClient},
         NEW m \in Modes \cup {"none"}, Begin(u, s, c, m),
         s \in ClientSteps => m \in Modes, s \in MenuSteps => c \in Clients,
         u \in Guests => s \in ReqSteps
  PROVE  Fresh(u)
  BY DEF Fresh

LEMMA FreshQuiet ==
  ASSUME TypeOK, NEW u \in Users, NEW s \in Steps, NEW c \in Clients \cup {NoClient},
         NEW m \in Modes \cup {"none"}, Begin(u, s, c, m),
         s \in ClientSteps => m \in Modes, s \in MenuSteps => c \in Clients,
         u \in Guests => s \in ReqSteps, s # "tags_menu", UNCHANGED history
  PROVE  Quiet(u)
<1>1. Fresh(u)
  BY BeginFresh
<1>2. flow'[u].step = s
  BY FreshFlow
<1>3. QED
  BY <1>1, <1>2 DEF Quiet, Moves

LEMMA GoToQuiet ==
  ASSUME TypeOK, NEW u \in Users, NEW s \in Steps \ MenuSteps, InDialogue(u), GoTo(u, s),
         s \in ClientSteps => flow[u].step \in ClientSteps,
         u \in Guests => s \in ReqSteps, UNCHANGED history
  PROVE  Quiet(u)
<1>1. Goes(u)
  BY GoToGoes
<1>2. QED
  BY <1>1 DEF Quiet, Moves, Goes, MenuSteps

LEMMA EndQuiet ==
  ASSUME TypeOK, NEW u \in Users, End(u), UNCHANGED history PROVE Quiet(u)
  BY EndFlow DEF Quiet, Moves, NoFlow

LEMMA StaysQuiet ==
  ASSUME NEW u \in Users, UNCHANGED <<flow, began>>, UNCHANGED history PROVE Quiet(u)
  BY DEF Quiet, Moves, Stays

\* No answer, no button and no end of a dialogue in no dialogue.
LEMMA EndIsFinish ==
  ASSUME TypeOK, NEW u \in Users, InDialogue(u), End(u), Deed(u) \/ UNCHANGED deeds,
         UNCHANGED <<created, shown, made, faults>>
  PROVE  Ends(u)
<1>1. flow'[u].step # "tags_menu"
  BY EndFlow DEF NoFlow
<1>2. Held' \subseteq Held
  BY <1>1, MovesHeld DEF Moves
<1>3. QED
  BY <1>2 DEF Ends, TypeOK

LEMMA HandledIs == ASSUME NEW n \in {0, 1}, Handle(n) PROVE Handled
  BY DEF Handled

LEMMA FinishIs ==
  ASSUME NEW u \in Users, Finish(u)
  PROVE  /\ Handled /\ End(u) /\ (Deed(u) \/ UNCHANGED deeds)
         /\ UNCHANGED <<clients, created, shown, made, faults>>
  BY HandledIs DEF Finish

\* The commands and the answers that are typed.
LEMMA CommandOK ==
  ASSUME TypeOK, NEW u \in Users, Command(u) PROVE StepOK(u)
<1>1. u \notin Guests /\ Handled
  BY StaffAsked, HandledIs DEF Command
<1>2. PICK s \in FirstSteps : Begin(u, s, NoClient, "none")
  BY DEF Command
<1>3. s \in Steps /\ s \notin ClientSteps \cup MenuSteps
  BY StepsAre DEF FirstSteps, ClientSteps, NewClientSteps, MenuSteps
<1>4. Quiet(u)
  BY <1>1, <1>2, <1>3, FreshQuiet DEF Command, MenuSteps
<1>5. QED
  BY <1>1, <1>4 DEF StepOK, Command, TablesOK, tables, TypeOK

LEMMA AnswerOK ==
  ASSUME TypeOK, NEW u \in Users, Answer(u) \/ ReadOnlyAnswer(u) \/ AnswerCategory(u)
  PROVE  StepOK(u)
<1>1. u \notin Guests /\ Handled /\ TablesOK'
  BY StaffAsked, HandledIs DEF Answer, ReadOnlyAnswer, AnswerCategory, TablesOK, tables, TypeOK
<1>2. CASE Answer(u)
  <2>1. /\ Following[flow[u].step] \in Steps \ MenuSteps
        /\ Following[flow[u].step] \notin ClientSteps /\ GoTo(u, Following[flow[u].step])
        /\ UNCHANGED history
    BY <1>2, FollowingAsks DEF Answer
  <2>2. InDialogue(u)
    BY <1>2 DEF Answer, Following, InDialogue
  <2>3. Quiet(u)
    BY <1>1, <2>1, <2>2, GoToQuiet
  <2>4. QED
    BY <1>1, <2>3 DEF StepOK
<1>3. CASE ReadOnlyAnswer(u)
  BY <1>1, <1>3, EndQuiet DEF ReadOnlyAnswer, StepOK
<1>4. CASE AnswerCategory(u)
  <2>1. InDialogue(u) /\ UNCHANGED history /\ (End(u) \/ GoTo(u, "case_advocate_pick"))
    BY <1>4 DEF AnswerCategory, InDialogue
  <2>2. "case_advocate_pick" \in Steps \ (MenuSteps \cup ClientSteps)
    BY StepsAre DEF MenuSteps, ClientSteps, NewClientSteps
  <2>3. Quiet(u)
    BY <1>1, <2>1, <2>2, EndQuiet, GoToQuiet
  <2>4. QED
    BY <1>1, <2>3 DEF StepOK
<1>5. QED
  BY <1>2, <1>3, <1>4

\* A request, which anybody makes.
LEMMA RequestOK ==
  ASSUME TypeOK, NEW u \in Users,
         StartRequestFlow(u) \/ ContinueRequestFlow(u) \/ SubmitRequest(u)
  PROVE  StepOK(u)
<1>1. CASE StartRequestFlow(u)
  <2>1. "req_name" \in ReqSteps /\ "req_name" \in Steps
        /\ "req_name" \notin ClientSteps \cup MenuSteps \cup {"tags_menu"}
    BY ReqStepsAre, StepsAre DEF MenuSteps, ClientSteps, NewClientSteps
  <2>2. Begin(u, "req_name", NoClient, "none") /\ UNCHANGED history /\ Handled
    BY <1>1, HandledIs DEF StartRequestFlow
  <2>3. Quiet(u)
    BY <2>1, <2>2, FreshQuiet
  <2>4. QED
    BY <1>1, <2>2, <2>3 DEF StepOK, StartRequestFlow, TablesOK, tables, TypeOK
<1>2. CASE ContinueRequestFlow(u)
  <2>1. flow[u].step \in ReqSteps /\ UNCHANGED history /\ Handled
    BY <1>2, HandledIs DEF ContinueRequestFlow, InRequest
  <2>2. PICK s \in ReqFollowing[flow[u].step] : GoTo(u, s)
    BY <1>2 DEF ContinueRequestFlow
  <2>3. s \in ReqSteps /\ s \in Steps \ (MenuSteps \cup ClientSteps)
    BY <2>1, ReqFollowingAsks, ReqStepsAre, StepsAre
  <2>4. InDialogue(u)
    BY <2>1, ReqStepsAre DEF InDialogue
  <2>5. Quiet(u)
    BY <2>1, <2>2, <2>3, <2>4, GoToQuiet
  <2>6. QED
    BY <1>2, <2>1, <2>5 DEF StepOK, ContinueRequestFlow, TablesOK, tables, TypeOK
<1>3. CASE SubmitRequest(u)
  <2>1. Finish(u) /\ InDialogue(u) /\ UNCHANGED <<roster, active>>
    BY <1>3 DEF SubmitRequest, InDialogue
  <2>2. Ends(u)
    BY <2>1, FinishIs, EndIsFinish
  <2>3. QED
    BY <2>1, <2>2, FinishIs DEF StepOK, TablesOK, TypeOK
<1>4. QED
  BY <1>1, <1>2, <1>3

\* A button of a payment's, a booking's or a field's last question, and the last
\* texts.
LEMMA FinishOK ==
  ASSUME TypeOK, NEW u \in Users,
         FinishText(u) \/ PickPaymentDate(u) \/ PickBookingStatus(u) \/ ApplyClientFieldEdit(u)
  PROVE  StepOK(u)
<1>0. u \notin Guests
  BY StaffAsked DEF FinishText, PickPaymentDate, PickBookingStatus, ApplyClientFieldEdit
<1>1. InDialogue(u)
  BY DEF FinishText, PickPaymentDate, PickBookingStatus, ApplyClientFieldEdit, InDialogue,
         WritingEnds
<1>2. ASSUME Finish(u), TablesOK' PROVE StepOK(u)
  <2>1. Ends(u)
    BY <1>1, <1>2, FinishIs, EndIsFinish
  <2>2. QED
    BY <1>2, <2>1, FinishIs DEF StepOK
<1>3. CASE FinishText(u)
  <2>1. Finish(u) /\ (RegisterAdvocate \/ UNCHANGED <<roster, active>>) /\ clients' = clients
    BY <1>3, FinishIs DEF FinishText
  <2>2. TablesOK'
    BY <2>1 DEF TablesOK, TypeOK, RegisterAdvocate
  <2>3. QED
    BY <1>2, <2>1, <2>2
<1>4. CASE PickBookingStatus(u) \/ ApplyClientFieldEdit(u)
  <2>1. Finish(u) /\ UNCHANGED <<roster, active>> /\ clients' = clients
    BY <1>4, FinishIs DEF PickBookingStatus, ApplyClientFieldEdit
  <2>2. QED
    BY <1>2, <2>1 DEF TablesOK, TypeOK
<1>5. CASE PickPaymentDate(u)
  <2>1. CASE Finish(u) /\ UNCHANGED <<roster, active>>
    BY <1>2, <2>1, FinishIs DEF TablesOK, TypeOK
  <2>2. CASE Handle(0) /\ GoTo(u, "pay_custom_date") /\ UNCHANGED <<tables, history>>
    <3>1. "pay_custom_date" \in Steps \ (MenuSteps \cup ClientSteps)
      BY StepsAre DEF MenuSteps, ClientSteps, NewClientSteps
    <3>2. Quiet(u)
      BY <1>0, <1>1, <2>2, <3>1, GoToQuiet
    <3>3. QED
      BY <2>2, <3>2, HandledIs DEF StepOK, TablesOK, tables, TypeOK
  <2>3. QED
    BY <1>5, <2>1, <2>2 DEF PickPaymentDate
<1>6. QED
  BY <1>3, <1>4, <1>5

\* Whose booking, whose case: an existing client's or a new one's.
LEMMA ClientOK ==
  ASSUME TypeOK, NEW u \in Users,
         \/ ClientQuery(u) \/ PickNewClientContact(u) \/ FinishNewClient(u)
         \/ \E c \in Clients : PickClientForFlow(u, c)
  PROVE  StepOK(u)
<1>0. u \notin Guests /\ clients \subseteq Clients
  BY StaffAsked DEF ClientQuery, ResolveClientOrCreate, PickNewClientContact, FinishNewClient,
                    PickClientForFlow, TypeOK
<1>1. ASSUME NEW c \in clients, NEW m \in Modes, ContinueWithClient(u, c, m), UNCHANGED history
      PROVE  Quiet(u)
  <2>1. StepOf[m] \in {"book_date", "case_fee"}
    BY DEF StepOf, Modes
  <2>2. StepOf[m] \in Steps /\ StepOf[m] \notin ClientSteps \cup MenuSteps \cup {"tags_menu"}
    BY <2>1, StepsAre DEF MenuSteps, ClientSteps, NewClientSteps
  <2>3. QED
    BY <1>0, <1>1, <2>2, FreshQuiet DEF ContinueWithClient
<1>2. CASE ClientQuery(u)
  <2>1. PICK m \in Modes : ResolveClientOrCreate(u, m)
    BY <1>2 DEF ClientQuery
  <2>2. UNCHANGED <<tables, history>> /\ Handled
    BY <2>1, HandledIs DEF ResolveClientOrCreate
  <2>3. ASSUME NEW s \in {"new_client_contact", "new_client_name_known_phone"},
               Begin(u, s, NoClient, m)
        PROVE  Quiet(u)
    <3>1. s \in Steps /\ s \notin MenuSteps \cup {"tags_menu"}
      BY StepsAre DEF MenuSteps, ClientSteps, NewClientSteps
    <3>2. QED
      BY <1>0, <2>2, <2>3, <3>1, FreshQuiet
  <2>4. Quiet(u)
    BY <1>1, <2>1, <2>2, <2>3 DEF ResolveClientOrCreate
  <2>5. QED
    BY <2>2, <2>4 DEF StepOK, TablesOK, tables, TypeOK
<1>3. CASE PickNewClientContact(u)
  <2>1. InDialogue(u) /\ UNCHANGED <<tables, history>> /\ Handled
    BY <1>3, HandledIs DEF PickNewClientContact, InDialogue
  <2>2. PICK s \in NewClientSteps : GoTo(u, s)
    BY <1>3 DEF PickNewClientContact
  <2>3. s \in Steps \ MenuSteps /\ flow[u].step \in ClientSteps
    BY <1>3, StepsAre DEF MenuSteps, ClientSteps, NewClientSteps, PickNewClientContact
  <2>4. Quiet(u)
    BY <1>0, <2>1, <2>2, <2>3, GoToQuiet
  <2>5. QED
    BY <2>1, <2>4 DEF StepOK, TablesOK, tables, TypeOK
<1>4. CASE FinishNewClient(u)
  <2>1. Handled /\ TablesOK'
    BY <1>4, HandledIs DEF FinishNewClient, CreateClient, TablesOK, TypeOK
  <2>2. QED
    BY <1>4, <2>1 DEF StepOK
<1>5. ASSUME NEW c \in Clients, PickClientForFlow(u, c) PROVE StepOK(u)
  <2>1. UNCHANGED <<tables, history>> /\ Handled /\ c \in clients
    BY <1>5, HandledIs DEF PickClientForFlow
  <2>2. Quiet(u)
    BY <1>1, <1>5, <2>1 DEF PickClientForFlow
  <2>3. QED
    BY <2>1, <2>2 DEF StepOK, TablesOK, tables, TypeOK
<1>6. QED
  BY <1>2, <1>3, <1>4, <1>5

\* The roster, and what is picked from it.
LEMMA RosterOK ==
  ASSUME TypeOK, NEW u \in Users,
         \/ RegisterAtOnce(u)
         \/ \E v \in Advocates : DeactivateAdvocate(u, v) \/ PickCaseAdvocate(u, v)
  PROVE  StepOK(u)
<1>1. CASE RegisterAtOnce(u)
  <2>1. Handled /\ TablesOK' /\ UNCHANGED <<flow, began>> /\ UNCHANGED history
    BY <1>1, HandledIs DEF RegisterAtOnce, RegisterAdvocate, TablesOK, TypeOK
  <2>2. QED
    BY <2>1, StaysQuiet DEF StepOK
<1>2. ASSUME NEW v \in Advocates, DeactivateAdvocate(u, v) PROVE StepOK(u)
  <2>1. Handled /\ TablesOK' /\ UNCHANGED <<flow, began>> /\ UNCHANGED history
    BY <1>2, HandledIs DEF DeactivateAdvocate, TablesOK, TypeOK
  <2>2. QED
    BY <2>1, StaysQuiet DEF StepOK
<1>3. ASSUME NEW v \in Advocates, PickCaseAdvocate(u, v) PROVE StepOK(u)
  <2>1. Handled /\ UNCHANGED <<began, tables, history>> /\ u \notin Guests
    BY <1>3, StaffAsked, HandledIs DEF PickCaseAdvocate
  <2>2. flow[u] \in Flow /\ InDialogue(u)
    BY <1>3, FlowOf DEF PickCaseAdvocate, InDialogue
  <2> DEFINE f == [flow[u] EXCEPT !.step = "case_description", !.adv = v]
  <2>3. "case_description" \in StaffSteps
    BY DEF StaffSteps, WritingEnds
  <2>4. /\ f \in Flow /\ f.step = "case_description" /\ f.d = flow[u].d
        /\ f.mode = flow[u].mode
    BY <2>2, <2>3 DEF Flow
  <2>5. flow' = [flow EXCEPT ![u] = f]
    BY <1>3 DEF PickCaseAdvocate
  <2> HIDE DEF f
  <2>6. flow'[u] = f /\ Others(u) /\ flow' \in [Users -> Flow \cup {NoFlow}]
    BY <2>4, <2>5, FlowOf DEF Others
  <2>7. Goes(u)
    BY <2>1, <2>2, <2>4, <2>6, FlowOf
    DEF Goes, FlowType, InDialogue, MenuSteps, ClientSteps, NewClientSteps
  <2>8. Quiet(u)
    BY <2>1, <2>7 DEF Quiet, Moves, Goes, MenuSteps
  <2>9. QED
    BY <2>1, <2>8 DEF StepOK, TablesOK, tables, TypeOK
<1>4. QED
  BY <1>1, <1>2, <1>3

\* Looking a client up ends the dialogue that asked, or none.
LEMMA LookedUpOK ==
  ASSUME TypeOK, NEW u \in Users, NEW step, LookedUp(u, step) PROVE StepOK(u)
<1>1. UNCHANGED <<tables, history>> /\ Handled
  BY HandledIs DEF LookedUp
<1>2. Quiet(u)
  BY <1>1, EndQuiet, StaysQuiet DEF LookedUp
<1>3. QED
  BY <1>1, <1>2 DEF StepOK, TablesOK, tables, TypeOK

LEMMA PickerOK ==
  ASSUME TypeOK, NEW u \in Users, u \notin Guests, NEW c \in Clients,
         SendGroupAdvocatePicker(u, c)
  PROVE  StepOK(u)
<1>1. UNCHANGED <<tables, history>> /\ Handled /\ Begin(u, "creategroup_advocate", c, "none")
  BY HandledIs DEF SendGroupAdvocatePicker, NewGroupFlow
<1>2. "creategroup_advocate" \in Steps /\ "creategroup_advocate" \notin ClientSteps
  BY StepsAre DEF MenuSteps, ClientSteps, NewClientSteps
<1>3. Quiet(u)
  BY <1>1, <1>2, FreshQuiet
<1>4. QED
  BY <1>1, <1>3 DEF StepOK, TablesOK, tables, TypeOK

\* /client, /edit and /creategroup.
LEMMA SearchOK ==
  ASSUME TypeOK, NEW u \in Users,
         \/ SearchClientInfo(u) \/ SearchClientForEdit(u) \/ SearchForGroup(u)
         \/ \E c \in Clients : PickAdvocateForGroup(u, c) \/ StartEditField(u, c)
  PROVE  StepOK(u)
<1>1. CASE SearchClientInfo(u) \/ SearchClientForEdit(u) \/ LookedUp(u, "creategroup_query")
  BY <1>1, LookedUpOK DEF SearchClientInfo, SearchClientForEdit
<1>2. ASSUME NEW c \in clients, Typed(u) \/ Tapped(u), SendGroupAdvocatePicker(u, c)
      PROVE  StepOK(u)
  <2>1. c \in Clients /\ u \notin Guests
    BY <1>2, StaffAsked DEF TypeOK
  <2>2. QED
    BY <1>2, <2>1, PickerOK
<1>3. ASSUME NEW c \in Clients, StartEditField(u, c) PROVE StepOK(u)
  <2>1. UNCHANGED <<tables, history>> /\ Handled /\ Begin(u, "edit_field_value", c, "none")
        /\ u \notin Guests
    BY <1>3, StaffAsked, HandledIs DEF StartEditField
  <2>2. "edit_field_value" \in Steps /\ "edit_field_value" \notin ClientSteps \cup MenuSteps
    BY StepsAre DEF MenuSteps, ClientSteps, NewClientSteps
  <2>3. Quiet(u)
    BY <2>1, <2>2, FreshQuiet DEF MenuSteps
  <2>4. QED
    BY <2>1, <2>3 DEF StepOK, TablesOK, tables, TypeOK
<1>4. QED
  BY <1>1, <1>2, <1>3 DEF SearchForGroup, PickAdvocateForGroup

\* The group: the question, the answer, and a question that is dropped.
LEMMA GroupOK ==
  ASSUME TypeOK, DialogueInv, NEW u \in Users,
         \/ DoCreateGroup(u) \/ CancelCreateGroup(u)
         \/ \E v \in Advocates : ConfirmCreateGroup(u, v)
  PROVE  StepOK(u)
<1>1. CASE CancelCreateGroup(u)
  BY <1>1, EndQuiet, HandledIs DEF CancelCreateGroup, StepOK, TablesOK, tables, TypeOK
<1>2. CASE DoCreateGroup(u)
  <2>1. /\ InDialogue(u) /\ End(u) /\ Handled /\ UNCHANGED <<created, shown, faults>>
        /\ Deed(u) \/ UNCHANGED deeds
        /\ flow[u].step = "creategroup_advocate" /\ flow[u].adv # NoAdvocate
        /\ made' \subseteq made \cup {<<flow[u].client, flow[u].adv>>} /\ UNCHANGED tables
    BY <1>2, HandledIs DEF DoCreateGroup, InDialogue
  <2>2. <<flow[u].client, flow[u].adv>> \in Held
    BY <2>1 DEF Held
  <2>3. flow[u].client \in Clients /\ flow[u].adv \in Advocates \cup {NoAdvocate}
    BY <2>1, FlowOf DEF DialogueInv, FlowOK, MenuSteps, Flow
  <2>4. Held' \subseteq Held
    BY <2>1, EndFlow, MovesHeld DEF Moves, NoFlow
  <2>5. made' \subseteq Pairs
    BY <2>1, <2>3 DEF Pairs, TypeOK
  <2>6. made' \cup Held' \subseteq made \cup Held
    BY <2>1, <2>2, <2>4
  <2>7. Ends(u)
    BY <2>1, <2>5, <2>6 DEF Ends
  <2>8. QED
    BY <2>1, <2>7 DEF StepOK, TablesOK, tables, TypeOK
<1>3. ASSUME NEW v \in Advocates, ConfirmCreateGroup(u, v) PROVE StepOK(u)
  <2>1. Handled /\ UNCHANGED <<began, tables, deeds, created, made>>
        /\ flow[u].step = "creategroup_advocate" /\ flow[u].client \in Clients
        /\ flow' = [flow EXCEPT ![u].adv = v] /\ Show(flow[u].client, v) /\ u \notin Guests
    BY <1>3, StaffAsked, HandledIs DEF ConfirmCreateGroup, TypeOK
  <2>2. Asks(u)
    BY <2>1 DEF Asks
  <2>3. QED
    BY <2>1, <2>2 DEF StepOK, TablesOK, tables, TypeOK
<1>4. QED
  BY <1>1, <1>2, <1>3

\* The menu of a client's tags.
LEMMA TagsOK ==
  ASSUME TypeOK, NEW u \in Users,
         \/ SearchClientForTags(u) \/ SetTag(u) \/ RemoveTag(u)
         \/ \E c \in Clients : PickClientForTags(u, c)
  PROVE  StepOK(u)
<1>1. ASSUME NEW c \in clients, Typed(u) \/ Tapped(u), SendTagsMenu(u, c) PROVE StepOK(u)
  <2>1. Handled /\ TagsMenu(u, c) /\ Show(c, NoAdvocate) /\ c \in Clients
        /\ UNCHANGED <<tables, deeds, created, made>> /\ u \notin Guests
    BY <1>1, StaffAsked, HandledIs DEF SendTagsMenu, TypeOK
  <2>2. Asks(u)
    BY <2>1 DEF Asks
  <2>3. QED
    BY <2>1, <2>2 DEF StepOK, TablesOK, tables, TypeOK
<1>2. CASE TagWritten(u)
  BY <1>2, HandledIs DEF TagWritten, StepOK, TablesOK, tables, TypeOK
<1>3. QED
  BY <1>1, <1>2, LookedUpOK DEF SearchClientForTags, PickClientForTags, SetTag, RemoveTag

LEMMA UserStepOK ==
  ASSUME TypeOK, DialogueInv, NEW u \in Users, TypedStep(u) \/ TappedStep(u) PROVE StepOK(u)
  BY CommandOK, AnswerOK, RequestOK, FinishOK, ClientOK, RosterOK, SearchOK, GroupOK, TagsOK
  DEF TypedStep, TappedStep

-----------------------------------------------------------------------------
(* Every step keeps the invariant.                                         *)

GuestsOK == \A g \in Guests : flow[g].step \in ReqSteps \cup {"none"}

\* All but the queue.
FlowsOK == FlowType /\ HistoryType /\ GuestsOK /\ DialogueInv /\ ShownInv

LEMMA QuietKeeps ==
  ASSUME BotInv, NEW u \in Users, Quiet(u)
  PROVE  FlowsOK' /\ faults'.crashes = faults.crashes
<1>1. TypeOK /\ StaffOnly /\ DialogueInv /\ ShownInv /\ Moves(u)
      /\ UNCHANGED <<deeds, created, shown, made, faults>>
  BY DEF BotInv, StaffOnly, Quiet, history
<1>2. DialogueInv' /\ FlowType'
  BY <1>1, MovesDialogue
<1>3. GuestsOK'
  BY <1>1, MovesGuests DEF GuestsOK
<1>4. Held' \subseteq Held
  BY <1>1, MovesHeld DEF Quiet
<1>5. ShownInv'
  BY <1>1, <1>4, ShownKept
<1>6. HistoryType'
  BY <1>1 DEF HistoryType, TypeOK
<1>7. QED
  BY <1>1, <1>2, <1>3, <1>5, <1>6 DEF FlowsOK

\* The dialogue that writes is over.
LEMMA EndsKeeps ==
  ASSUME BotInv, NEW u \in Users, Ends(u)
  PROVE  FlowsOK' /\ faults'.crashes = faults.crashes
<1>1. TypeOK /\ StaffOnly /\ DialogueInv /\ ShownInv /\ DialogueActsOnce
      /\ InDialogue(u) /\ End(u) /\ UNCHANGED <<created, shown, faults>>
  BY DEF BotInv, StaffOnly, Ends, DialogueInv
<1>2. FlowType' /\ Others(u) /\ began' = began /\ flow'[u] = NoFlow /\ ~(InDialogue(u)')
  BY <1>1, EndFlow
<1>3. GuestsOK'
  BY <1>1, MovesGuests DEF GuestsOK, Moves
<1>4. ShownInv'
  BY <1>1, ShownKept DEF Ends
<1>5. /\ deeds[flow[u].d] = 0 /\ flow[u].d \in Dialogues /\ deeds \in [Dialogues -> Nat]
      /\ faults.lost \in Nat /\ began \in Nat
  <2>1. flow[u] \in Flow /\ began \in Nat
    BY <1>1, FlowOf
  <2>2. deeds[flow[u].d] = 0
    BY <1>1 DEF DialogueInv, FlowOK
  <2>3. flow[u].d \in Dialogues
    BY <2>1 DEF Flow
  <2>4. faults.lost \in Nat /\ deeds \in [Dialogues -> Nat]
    BY <1>1, BotAssumption DEF TypeOK
  <2>5. QED
    BY <2>1, <2>2, <2>3, <2>4
<1>6. /\ deeds' \in [Dialogues -> Nat] /\ deeds'[flow[u].d] \in {0, 1}
      /\ \A d \in Dialogues : d # flow[u].d => deeds'[d] = deeds[d]
  BY <1>5 DEF Ends, Deed
<1>7. DialogueActsOnce'
  BY <1>1, <1>6 DEF DialogueActsOnce
<1>8. FlowOK(u)'
  BY <1>2, <1>5 DEF FlowOK, NoFlow, ClientSteps, NewClientSteps, MenuSteps
<1>9. DialogueInv'
  BY <1>1, <1>2, <1>5, <1>6, <1>7, <1>8, DialogueStep
<1>10. HistoryType'
  BY <1>1, <1>6 DEF HistoryType, Ends, TypeOK
<1>11. QED
  BY <1>1, <1>2, <1>3, <1>4, <1>9, <1>10 DEF FlowsOK

\* What a message asks about is shown, or was not delivered.
LEMMA AsksKeeps ==
  ASSUME BotInv, NEW u \in Users, Asks(u)
  PROVE  FlowsOK' /\ faults'.crashes = faults.crashes
<1>0. TypeOK /\ StaffOnly /\ DialogueInv /\ ShownInv /\ DialogueActsOnce /\ u \notin Guests
  BY DEF BotInv, StaffOnly, DialogueInv, Asks
<1>1. PICK c \in Clients, v \in Advocates \cup {NoAdvocate} :
        /\ \/ flow[u].step = "creategroup_advocate" /\ flow[u].client = c
              /\ flow' = [flow EXCEPT ![u].adv = v] /\ UNCHANGED began
           \/ v = NoAdvocate /\ TagsMenu(u, c)
        /\ Show(c, v)
        /\ UNCHANGED <<deeds, created, made>>
  BY DEF Asks
<1> DEFINE p == <<c, v>>
<1>2. p \in Pairs
  BY DEF Pairs
<1>3. /\ faults \in [crashes : 0..MaxCrashes, lost : 0..MaxLost, unsent : 0..MaxUnsent]
      /\ MaxUnsent \in Nat /\ MaxLost \in Nat
  BY <1>0, BotAssumption DEF TypeOK
<1>4. /\ faults'.crashes = faults.crashes /\ faults'.lost = faults.lost
      /\ faults' \in [crashes : 0..MaxCrashes, lost : 0..MaxLost, unsent : 0..MaxUnsent]
      /\ shown \subseteq shown' /\ shown' \subseteq shown \cup {p}
      /\ faults'.unsent \in Nat /\ faults.unsent \in Nat
      /\ \/ p \in shown' /\ faults'.unsent = faults.unsent
         \/ faults'.unsent = faults.unsent + 1
  <2>1. CASE shown' = shown \cup {p} /\ UNCHANGED faults
    BY <1>3, <2>1
  <2>2. CASE /\ faults.unsent < MaxUnsent
             /\ faults' = [faults EXCEPT !.unsent = @ + 1]
             /\ UNCHANGED shown
    <3>1. faults.unsent + 1 \in 0..MaxUnsent
      BY <1>3, <2>2
    <3>2. QED
      BY <1>3, <2>2, <3>1
  <2>3. QED
    BY <1>1, <2>1, <2>2 DEF Show
<1>5. /\ FlowType' /\ Others(u) /\ flow'[u].client = c /\ flow'[u].adv = v
      /\ flow'[u].step \in MenuSteps /\ (flow'[u].step = "tags_menu" => v = NoAdvocate)
      /\ InDialogue(u)' /\ began' \in {began, began + 1} /\ flow'[u].d <= began'
      /\ \/ began' = began + 1 /\ flow'[u].d = began + 1 /\ began + 1 \in Dialogues
         \/ InDialogue(u) /\ flow'[u].d = flow[u].d
  <2>1. CASE /\ flow[u].step = "creategroup_advocate" /\ flow[u].client = c
             /\ flow' = [flow EXCEPT ![u].adv = v] /\ UNCHANGED began
    <3>1. InDialogue(u) /\ flow[u] \in Flow /\ flow[u].d <= began
      BY <1>0, <2>1, FlowOf DEF InDialogue, DialogueInv, FlowOK
    <3> DEFINE f == [flow[u] EXCEPT !.adv = v]
    <3>2. f \in Flow /\ f.adv = v /\ f.client = c /\ f.step = flow[u].step /\ f.d = flow[u].d
      BY <2>1, <3>1 DEF Flow
    <3>3. flow' = [flow EXCEPT ![u] = f]
      BY <2>1
    <3> HIDE DEF f
    <3>4. flow'[u] = f /\ Others(u) /\ flow' \in [Users -> Flow \cup {NoFlow}]
      BY <1>0, <3>2, <3>3, FlowOf DEF Others
    <3>5. QED
      BY <1>0, <2>1, <3>1, <3>2, <3>4, FlowOf DEF FlowType, InDialogue, MenuSteps
  <2>2. CASE v = NoAdvocate /\ TagsMenu(u, c)
    <3>1. "tags_menu" \in Steps
      BY StepsAre DEF MenuSteps
    <3>2. began \in Nat /\ (began' = began + 1 => began + 1 <= began')
      BY <1>0, FlowOf
    <3>3. QED
      BY <1>0, <2>2, <3>1, <3>2, FreshFlow DEF TagsMenu, MenuSteps
  <2>3. QED
    BY <1>1, <2>1, <2>2
<1>6. GuestsOK'
  BY <1>0, <1>5 DEF GuestsOK, Others, StaffOnly, Users
<1>7. Held' \subseteq Held \cup {p}
  <2> SUFFICES ASSUME NEW x \in Users,
                      \/ flow'[x].step = "tags_menu"
                      \/ flow'[x].step = "creategroup_advocate" /\ flow'[x].adv # NoAdvocate
               PROVE  <<flow'[x].client, flow'[x].adv>> \in Held \cup {p}
    BY DEF Held
  <2>1. CASE x = u
    BY <1>5, <2>1
  <2>2. CASE x # u
    BY <1>5, <2>2 DEF Others, Held
  <2>3. QED
    BY <2>1, <2>2
<1>8. ShownInv'
  <2>1. made' \cup Held' \subseteq made \cup Held \cup {p}
    BY <1>1, <1>7
  <2>2. \/ p \in shown' \cup made \cup Held /\ faults'.unsent >= faults.unsent
        \/ faults'.unsent = faults.unsent + 1
    BY <1>4
  <2> HIDE DEF p
  <2>3. QED
    BY <1>0, <1>4, <2>1, <2>2, ShownStep
<1>9. FlowOK(u)'
  <2>1. deeds[flow'[u].d] = 0
    BY <1>0, <1>5, FlowOf DEF DialogueInv, FlowOK
  <2>2. flow'[u].step \notin ClientSteps
    BY <1>5 DEF MenuSteps, ClientSteps, NewClientSteps
  <2>3. QED
    BY <1>1, <1>5, <2>1, <2>2 DEF FlowOK
<1>10. DialogueInv'
  <2>1. DialogueActsOnce'
    BY <1>0, <1>1, <1>4 DEF DialogueActsOnce
  <2>2. faults.lost \in Nat /\ faults.lost <= faults'.lost /\ faults'.lost \in Nat
    BY <1>3, <1>4
  <2>3. QED
    BY <1>0, <1>1, <1>5, <1>9, <2>1, <2>2, DialogueStep
<1>11. HistoryType'
  BY <1>0, <1>1, <1>2, <1>4 DEF HistoryType, TypeOK
<1>12. QED
  BY <1>4, <1>5, <1>6, <1>8, <1>10, <1>11 DEF FlowsOK

\* The client is created in the dialogue that asked for it; a write reported as
\* failed leaves the question where it was.
LEMMA NewClientKeeps ==
  ASSUME BotInv, NEW u \in Users, FinishNewClient(u)
  PROVE  FlowsOK' /\ faults'.crashes = faults.crashes
<1>0. TypeOK /\ StaffOnly /\ DialogueInv /\ ShownInv /\ DialogueActsOnce /\ u \notin Guests
  BY StaffAsked DEF BotInv, StaffOnly, DialogueInv, FinishNewClient
<1>1. flow[u].step \in ClientSteps /\ InDialogue(u) /\ UNCHANGED <<began, deeds, shown, made>>
  BY DEF FinishNewClient, ClientSteps, NewClientSteps, InDialogue
<1>2. /\ flow[u] \in Flow /\ flow[u].mode \in Modes /\ flow[u].d <= began
      /\ deeds[flow[u].d] = 0 /\ created[flow[u].d] <= faults.lost
  BY <1>0, <1>1, FlowOf DEF DialogueInv, FlowOK
<1>3. flow[u].d \in Dialogues /\ flow[u].d \in Nat
  BY <1>2 DEF Flow, Dialogues
<1>4. /\ faults \in [crashes : 0..MaxCrashes, lost : 0..MaxLost, unsent : 0..MaxUnsent]
      /\ MaxLost \in Nat /\ created \in [Dialogues -> Nat] /\ faults.lost \in Nat
  BY <1>0, BotAssumption DEF TypeOK
<1>5. /\ created' = [created EXCEPT ![flow[u].d] = @ + 1]
      /\ created' \in [Dialogues -> Nat] /\ created'[flow[u].d] = created[flow[u].d] + 1
      /\ \A d \in Dialogues : d # flow[u].d => created'[d] = created[d]
  <2>1. created' = [created EXCEPT ![flow[u].d] = @ + 1]
    BY DEF FinishNewClient, CreateClient
  <2>2. QED
    BY <1>3, <1>4, <2>1
<1>6. PICK c \in Clients :
        \/ /\ flow' = [flow EXCEPT ![u].step = StepOf[flow[u].mode], ![u].client = c]
           /\ UNCHANGED faults
        \/ /\ faults.lost < MaxLost
           /\ faults' = [faults EXCEPT !.lost = @ + 1]
           /\ UNCHANGED flow
  BY DEF FinishNewClient
<1>7. /\ faults' \in [crashes : 0..MaxCrashes, lost : 0..MaxLost, unsent : 0..MaxUnsent]
      /\ faults'.crashes = faults.crashes /\ faults'.unsent = faults.unsent
      /\ faults'.lost \in Nat /\ faults.lost <= faults'.lost
      /\ faults' = faults \/ faults'.lost = faults.lost + 1
  <2>1. CASE faults' = faults
    BY <1>4, <2>1
  <2>2. CASE faults.lost < MaxLost /\ faults' = [faults EXCEPT !.lost = @ + 1]
    <3>1. faults.lost + 1 \in 0..MaxLost
      BY <1>4, <2>2
    <3>2. QED
      BY <1>4, <2>2, <3>1
  <2>3. QED
    BY <1>6, <2>1, <2>2
<1>8. DialogueActsOnce'
  <2>1. ASSUME NEW d \in Dialogues PROVE created'[d] <= 1 + faults'.lost /\ deeds'[d] <= 1
    <3>1. created[d] <= 1 + faults.lost /\ deeds[d] <= 1
      BY <1>0 DEF DialogueActsOnce
    <3>2. created[d] \in Nat /\ created[flow[u].d] \in Nat
      BY <1>3, <1>4
    <3>3. QED
      BY <1>1, <1>2, <1>4, <1>5, <1>7, <3>1, <3>2
  <2>2. QED
    BY <2>1 DEF DialogueActsOnce
<1>9. /\ FlowType' /\ Others(u) /\ flow'[u] \in Flow /\ flow'[u].d = flow[u].d /\ InDialogue(u)'
      /\ \/ flow' = flow /\ faults'.lost = faults.lost + 1
         \/ flow'[u].step \in {"book_date", "case_fee"}
  <2>1. CASE flow' = [flow EXCEPT ![u].step = StepOf[flow[u].mode], ![u].client = c]
    <3> DEFINE f == [flow[u] EXCEPT !.step = StepOf[flow[u].mode], !.client = c]
    <3>1. StepOf[flow[u].mode] \in {"book_date", "case_fee"}
      BY <1>2 DEF StepOf, Modes
    <3>2. StepOf[flow[u].mode] \in StaffSteps \cup ReqSteps
      BY <3>1, StepsAre DEF Steps
    <3>3. f \in Flow /\ f.step \in {"book_date", "case_fee"} /\ f.d = flow[u].d
      BY <1>2, <3>1, <3>2 DEF Flow
    <3>4. flow' = [flow EXCEPT ![u] = f]
      BY <2>1
    <3> HIDE DEF f
    <3>5. flow'[u] = f /\ Others(u) /\ flow' \in [Users -> Flow \cup {NoFlow}]
      BY <1>0, <3>3, <3>4, FlowOf DEF Others
    <3>6. QED
      BY <1>0, <1>1, <3>3, <3>5, FlowOf DEF FlowType, InDialogue
  <2>2. CASE flow' = flow /\ faults.lost < MaxLost /\ faults' = [faults EXCEPT !.lost = @ + 1]
    BY <1>0, <1>1, <1>2, <1>4, <2>2, FlowOf DEF FlowType, Others, InDialogue
  <2>3. QED
    BY <1>6, <2>1, <2>2
<1>10. GuestsOK'
  BY <1>0, <1>9 DEF GuestsOK, Others, StaffOnly, Users
<1>11. FlowOK(u)'
  <2>1. CASE flow' = flow /\ faults'.lost = faults.lost + 1
    <3>1. created'[flow[u].d] <= faults'.lost
      BY <1>2, <1>3, <1>4, <1>5, <2>1
    <3>2. QED
      BY <1>0, <1>1, <1>2, <2>1, <3>1 DEF FlowOK, DialogueInv
  <2>2. CASE flow'[u].step \in {"book_date", "case_fee"}
    BY <1>1, <1>2, <1>9, <2>2 DEF FlowOK, MenuSteps, ClientSteps, NewClientSteps
  <2>3. QED
    BY <1>9, <2>1, <2>2
<1>12. DialogueInv'
  BY <1>0, <1>1, <1>5, <1>7, <1>8, <1>9, <1>11, DialogueStep
<1>13. Held' \subseteq Held
  BY <1>9 DEF Held, Others
<1>14. ShownInv'
  <2>1. Unseen' \subseteq Unseen
    BY <1>1, <1>13 DEF Unseen
  <2>2. IsFiniteSet(Unseen) /\ Cardinality(Unseen) \in Nat /\ faults.unsent \in Nat
    BY <1>0, FS_CardinalityType, BotAssumption DEF ShownInv, TypeOK
  <2>3. IsFiniteSet(Unseen') /\ Cardinality(Unseen') <= Cardinality(Unseen)
    BY <2>1, <2>2, FS_Subset
  <2>4. Cardinality(Unseen') \in Nat
    BY <2>3, FS_CardinalityType
  <2>5. QED
    BY <1>0, <1>7, <2>2, <2>3, <2>4 DEF ShownInv
<1>15. HistoryType'
  BY <1>0, <1>1, <1>5, <1>7 DEF HistoryType, TypeOK
<1>16. QED
  BY <1>7, <1>9, <1>10, <1>12, <1>14, <1>15 DEF FlowsOK

\* A tag is written of the client whose menu the dialogue holds.
LEMMA TagKeeps ==
  ASSUME BotInv, NEW u \in Users, TagWritten(u)
  PROVE  FlowsOK' /\ faults'.crashes = faults.crashes
<1>0. TypeOK /\ StaffOnly /\ DialogueInv /\ ShownInv
  BY DEF BotInv, StaffOnly
<1>1. /\ flow[u].step = "tags_menu" /\ UNCHANGED <<flow, began, deeds, created, shown, faults>>
      /\ made' = made \cup {<<flow[u].client, NoAdvocate>>}
  BY DEF TagWritten
<1>2. flow[u].client \in Clients /\ flow[u].adv = NoAdvocate
  BY <1>0, <1>1 DEF DialogueInv, FlowOK, MenuSteps
<1>3. <<flow[u].client, NoAdvocate>> \in Held /\ <<flow[u].client, NoAdvocate>> \in Pairs
  BY <1>1, <1>2 DEF Held, Pairs
<1>4. Held' = Held
  BY <1>1 DEF Held
<1>5. ShownInv'
  BY <1>0, <1>1, <1>3, <1>4, ShownKept
<1>6. DialogueInv'
  BY <1>0, <1>1 DEF DialogueInv, DialogueActsOnce, FlowOK, InDialogue
<1>7. FlowType' /\ GuestsOK'
  BY <1>0, <1>1 DEF TypeOK, FlowType, GuestsOK, StaffOnly
<1>8. HistoryType'
  BY <1>0, <1>1, <1>3 DEF HistoryType, TypeOK
<1>9. QED
  BY <1>1, <1>5, <1>6, <1>7, <1>8 DEF FlowsOK

LEMMA BotInvIs ==
  /\ BotInv => QueueOK /\ FlowsOK /\ TablesOK
  /\ QueueOK /\ FlowsOK /\ TablesOK => BotInv
<1>1. BotInv => faults.crashes \in Nat
  BY BotAssumption DEF BotInv, StaffOnly, TypeOK
<1>2. BotInv => QueueOK /\ FlowsOK /\ TablesOK
  BY <1>1 DEF BotInv, StaffOnly, TypeOK, QueueOK, FlowsOK, TablesOK, FlowType, HistoryType, GuestsOK
<1>3. QueueOK /\ FlowsOK /\ TablesOK => BotInv
  BY DEF BotInv, StaffOnly, TypeOK, QueueOK, FlowsOK, TablesOK, FlowType, HistoryType, GuestsOK
<1>4. QED
  BY <1>2, <1>3

LEMMA BotInvNext == QueueOK' /\ FlowsOK' /\ TablesOK' => BotInv'
  BY DEF BotInv, StaffOnly, TypeOK, QueueOK, FlowsOK, TablesOK, FlowType, HistoryType, GuestsOK

\* What handles an update acts on it once more.
LEMMA UserKeeps ==
  ASSUME BotInv, NEW u \in Users, TypedStep(u) \/ TappedStep(u) PROVE BotInv'
<1>1. StepOK(u)
  BY UserStepOK DEF BotInv, StaffOnly
<1>2. FlowsOK' /\ faults'.crashes = faults.crashes
  BY <1>1, QuietKeeps, EndsKeeps, AsksKeeps, NewClientKeeps, TagKeeps DEF StepOK
<1>3. QueueOK'
  BY <1>1, <1>2, BotInvIs, HandlePoll DEF StepOK, Handled
<1>4. QED
  BY <1>1, <1>2, <1>3, BotInvNext DEF StepOK

\* Steps outside of any dialogue.
LEMMA FlowsKept ==
  ASSUME BotInv, UNCHANGED <<flow, began, history>> PROVE FlowsOK'
<1>1. FlowsOK
  BY BotInvIs
<1>2. Held' = Held
  BY DEF Held
<1>3. ShownInv'
  BY <1>1, <1>2 DEF FlowsOK, ShownInv, Unseen, history
<1>4. DialogueInv'
  BY <1>1 DEF FlowsOK, DialogueInv, DialogueActsOnce, FlowOK, InDialogue, history
<1>5. QED
  BY <1>1, <1>3, <1>4 DEF FlowsOK, FlowType, HistoryType, GuestsOK, history

LEMMA CrashKeeps == ASSUME BotInv, Crash PROVE BotInv'
<1>0. TypeOK /\ DialogueInv /\ ShownInv /\ TablesOK /\ QueueOK
  BY BotInvIs DEF FlowsOK, BotInv, StaffOnly
<1>1. /\ flow' = [u \in Users |-> NoFlow] /\ UNCHANGED <<began, tables, deeds, created, shown, made>>
      /\ faults.crashes < MaxCrashes /\ faults' = [faults EXCEPT !.crashes = @ + 1]
  BY DEF Crash
<1>2. /\ faults \in [crashes : 0..MaxCrashes, lost : 0..MaxLost, unsent : 0..MaxUnsent]
      /\ MaxCrashes \in Nat /\ faults.crashes + 1 \in 0..MaxCrashes
  BY <1>0, <1>1, BotAssumption DEF TypeOK
<1>3. /\ faults' \in [crashes : 0..MaxCrashes, lost : 0..MaxLost, unsent : 0..MaxUnsent]
      /\ faults'.lost = faults.lost /\ faults'.unsent = faults.unsent
  BY <1>1, <1>2
<1>4. \A u \in Users : flow'[u] = NoFlow /\ ~(InDialogue(u)')
  BY <1>1 DEF InDialogue, NoFlow
<1>5. FlowType' /\ GuestsOK'
  BY <1>0, <1>1, <1>4 DEF FlowType, GuestsOK, TypeOK, NoFlow, Users
<1>6. Held' = {}
  BY <1>4 DEF Held, NoFlow
<1>7. ShownInv'
  <2>1. Unseen' \subseteq Unseen
    BY <1>1, <1>6 DEF Unseen
  <2>2. IsFiniteSet(Unseen) /\ Cardinality(Unseen) \in Nat /\ faults.unsent \in Nat
    BY <1>0, FS_CardinalityType, BotAssumption DEF ShownInv, TypeOK
  <2>3. IsFiniteSet(Unseen') /\ Cardinality(Unseen') <= Cardinality(Unseen)
    BY <2>1, <2>2, FS_Subset
  <2>4. Cardinality(Unseen') \in Nat
    BY <2>3, FS_CardinalityType
  <2>5. QED
    BY <1>0, <1>3, <2>2, <2>3, <2>4 DEF ShownInv
<1>8. DialogueInv'
  <2>1. began \in Nat
    BY <1>0, BotAssumption DEF TypeOK
  <2>2. \A u \in Users : FlowOK(u)'
    BY <1>1, <1>4, <2>1 DEF FlowOK, NoFlow, ClientSteps, NewClientSteps, MenuSteps
  <2>3. QED
    BY <1>0, <1>1, <1>3, <1>4, <2>2 DEF DialogueInv, DialogueActsOnce
<1>9. HistoryType' /\ TablesOK'
  BY <1>0, <1>1, <1>3 DEF HistoryType, TypeOK, TablesOK, tables
<1>10. QueueOK'
  BY <1>0, CrashPoll
<1>11. QED
  BY <1>5, <1>7, <1>8, <1>9, <1>10, BotInvNext DEF FlowsOK

LEMMA InitBot == Init => BotInv
<1> SUFFICES ASSUME Init PROVE BotInv
  OBVIOUS
<1>0. {MaxQueue, MaxDialogues, MaxCrashes, MaxLost, MaxUnsent} \subseteq Nat
  BY BotAssumption
<1>1. QueueOK
  <2>1. queue = <<>> /\ batch = [taken |-> 0, done |-> 0] /\ up = TRUE /\ faults.crashes = 0
    BY DEF Init
  <2>2. queue \in Seq(Nat) /\ Len(queue) = 0
    BY <2>1
  <2>3. batch \in [taken : 0..MaxQueue, done : 0..MaxQueue] /\ batch.done = 0 /\ batch.taken = 0
    BY <1>0, <2>1
  <2>4. PollInv
    BY <2>2 DEF PollInv
  <2>5. up \in BOOLEAN
    BY <2>1
  <2>6. QED
    BY <1>0, <2>1, <2>2, <2>3, <2>4, <2>5 DEF QueueOK
<1>2. \A u \in Users : flow[u] = NoFlow /\ ~InDialogue(u)
  BY DEF Init, InDialogue, NoFlow
<1>3. FlowType /\ GuestsOK /\ TablesOK
  BY <1>0, <1>2 DEF Init, FlowType, GuestsOK, TablesOK, NoFlow, Users
<1>4. HistoryType
  BY <1>0 DEF Init, HistoryType
<1>5. Held = {}
  BY <1>2 DEF Held, NoFlow
<1>6. ShownInv
  BY <1>0, <1>5, FS_EmptySet DEF Init, ShownInv, Unseen
<1>7. DialogueInv
  <2>1. \A u \in Users : FlowOK(u)
    BY <1>2 DEF Init, FlowOK, NoFlow, ClientSteps, NewClientSteps, MenuSteps
  <2>2. QED
    BY <1>2, <2>1 DEF Init, DialogueInv, DialogueActsOnce
<1>8. QED
  BY <1>1, <1>3, <1>4, <1>6, <1>7, BotInvIs DEF FlowsOK

LEMMA NextBot == BotInv /\ [Next]_vars => BotInv'
<1> SUFFICES ASSUME BotInv, [Next]_vars PROVE BotInv'
  OBVIOUS
<1>0. QueueOK /\ FlowsOK /\ TablesOK
  BY BotInvIs
<1>1. ASSUME UNCHANGED <<flow, began, tables, history>>, QueueOK' PROVE BotInv'
  BY <1>0, <1>1, FlowsKept, BotInvNext DEF TablesOK, tables
<1>2. CASE UserSends
  BY <1>0, <1>1, <1>2, SendPoll DEF UserSends
<1>3. CASE GetUpdates
  BY <1>0, <1>1, <1>3, FetchPoll DEF GetUpdates
<1>4. CASE Crash
  BY <1>4, CrashKeeps
<1>5. CASE Boot
  <2>1. QueueOK'
    BY <1>0, <1>5 DEF QueueOK, PollInv, Boot, history
  <2>2. QED
    BY <1>1, <1>5, <2>1 DEF Boot
<1>6. CASE Ignored \/ WriteAtOnce
  BY <1>0, <1>1, <1>6, HandlePoll DEF Ignored, WriteAtOnce, history
<1>7. ASSUME NEW u \in Users, TypedStep(u) \/ TappedStep(u) PROVE BotInv'
  BY <1>7, UserKeeps
<1>8. CASE UNCHANGED vars
  <2>1. QueueOK'
    BY <1>0, <1>8 DEF QueueOK, PollInv, vars
  <2>2. QED
    BY <1>1, <1>8, <2>1 DEF vars, tables, history
<1>9. QED
  BY <1>2, <1>3, <1>4, <1>5, <1>6, <1>7, <1>8 DEF Next

\* The dialogues, the poll and the groups keep their invariant, for any number of
\* users, clients, advocates, dialogues, updates, crashes and lost answers.
THEOREM BotCorrect == Spec => []BotInv
  BY InitBot, NextBot, PTL DEF Spec

\* A dialogue writes at its end once, and an update acts once in a life of the
\* process (the flow is deleted before the write; Run confirms a whole batch).
THEOREM BotActsOnce == Spec => []ActsOnce
<1>1. BotInv => ActsOnce
  <2> SUFFICES ASSUME BotInv PROVE ActsOnce
    OBVIOUS
  <2>1. ASSUME NEW i \in 1..Len(queue) PROVE queue[i] <= 1 + faults.crashes
    <3>1. queue[i] <= faults.crashes + (IF i <= batch.done THEN 1 ELSE 0)
      BY DEF BotInv, PollInv
    <3>2. queue[i] \in Nat /\ faults.crashes \in Nat
      BY BotInvIs DEF QueueOK
    <3>3. QED
      BY <3>1, <3>2
  <2>2. QED
    BY <2>1 DEF BotInv, DialogueInv, ActsOnce, OncePerLife
<1>2. QED
  BY <1>1, BotCorrect, PTL

\* No group is made and no tag changed for whom the staff member was not asked about,
\* but for questions Telegram did not deliver (confirmCreateGroup, sendTagsMenu).
THEOREM BotActsAsShown == Spec => []ActsAsShown
<1>1. BotInv => ActsAsShown
  <2> SUFFICES ASSUME BotInv PROVE ActsAsShown
    OBVIOUS
  <2>1. made \ shown \subseteq Unseen
    BY DEF Unseen
  <2>2. IsFiniteSet(Unseen) /\ Cardinality(Unseen) <= faults.unsent /\ faults.unsent \in Nat
    BY BotAssumption DEF BotInv, ShownInv, StaffOnly, TypeOK
  <2>3. IsFiniteSet(made \ shown) /\ Cardinality(made \ shown) <= Cardinality(Unseen)
    BY <2>1, <2>2, FS_Subset
  <2>4. Cardinality(made \ shown) \in Nat /\ Cardinality(Unseen) \in Nat
    BY <2>2, <2>3, FS_CardinalityType
  <2>5. QED
    BY <2>2, <2>3, <2>4 DEF ActsAsShown
<1>2. QED
  BY <1>1, BotCorrect, PTL

\* Who is not staff is in no dialogue but a request (handle, handleCallback).
THEOREM BotIsStaffOnly == Spec => []StaffOnly
  BY BotCorrect, PTL DEF BotInv

-----------------------------------------------------------------------------
(* The picker: the clock on the firm's wall.                               *)

\* The wall clock is one of the firm's, and the time a number of hours.
GridInv == zone \in Zones /\ now \in Nat

LEMMA GridInit == PickerInit => GridInv
  BY DEF PickerInit, GridInv

LEMMA GridStep == GridInv /\ [PickerNext]_pickerVars => GridInv'
  BY DEF GridInv, PickerNext, pickerVars, Hold, Release, Tick

LEMMA ZoneHours ==
  ASSUME GridInv
  PROVE  /\ zone[1] \in 0..3 /\ zone[2] \in 0..3
         /\ zone[1] - zone[2] \in (-1)..1
         /\ ChangeDay \in Nat
<1>1. zone \in (0..3) \X (0..3)
  BY ScheduleAssumption DEF GridInv
<1>2. zone[1] - zone[2] \in (-1)..1
  BY ChangeAssumption DEF GridInv
<1>3. QED
  BY <1>1, <1>2, ScheduleAssumption

LEMMA DayAndHour ==
  ASSUME NEW d \in Int, NEW h \in 0..23
  PROVE  (24 * d + h) \div 24 = d /\ (24 * d + h) % 24 = h
  OBVIOUS

LEMMA InIsInt ==
  ASSUME GridInv, NEW t \in Int
  PROVE  /\ In(t) \in Int /\ LocalDay(t) \in Int /\ LocalHour(t) \in 0..23
         /\ In(t) = 24 * LocalDay(t) + LocalHour(t)
<1>1. In(t) \in Int
  BY ZoneHours DEF In
<1>2. PICK i \in Int : i = In(t)
  BY <1>1
<1>3. /\ i \div 24 \in Int /\ i % 24 \in 0..23
      /\ i = 24 * (i \div 24) + (i % 24)
  OBVIOUS
<1>4. QED
  BY <1>2, <1>3 DEF LocalDay, LocalHour

\* An opening hour is read back as it was set.
LEMMA ReadsBack ==
  ASSUME GridInv, NEW d \in Int, NEW h \in 4..23
  PROVE  /\ Date(d, h) \in Int
         /\ LocalDay(Date(d, h)) = d /\ LocalHour(Date(d, h)) = h
<1>1. Date(d, h) \in Int /\ In(Date(d, h)) = 24 * d + h
  BY ZoneHours DEF Date, In
<1>2. (24 * d + h) \div 24 = d /\ (24 * d + h) % 24 = h
  BY DayAndHour
<1>3. QED
  BY <1>1, <1>2 DEF LocalDay, LocalHour

\* An instant that reads as an opening hour is the one that hour names.
LEMMA SetsBack ==
  ASSUME GridInv, NEW s \in Int, LocalHour(s) >= 4
  PROVE  Date(LocalDay(s), LocalHour(s)) = s
<1>1. PICK d \in Int, h \in 0..23 : d = LocalDay(s) /\ h = LocalHour(s) /\ In(s) = 24 * d + h
  BY InIsInt
<1>2. h >= 4
  BY <1>1
<1>3. Date(d, h) = s
  BY <1>1, <1>2, ZoneHours DEF Date, In
<1>4. QED
  BY <1>1, <1>3

\* Opening hours follow one another in time as they do on the wall.
LEMMA DatesFollow ==
  ASSUME GridInv, NEW d \in Int, NEW e \in Int, NEW g \in 4..23, NEW h \in 4..23,
         d < e \/ (d = e /\ g < h)
  PROVE  Date(d, g) < Date(e, h)
  BY ZoneHours DEF Date

\* The loop enters a day no later than the opening hours of it and of later days.
LEMMA MidnightsBefore ==
  ASSUME GridInv, NEW d \in Int, NEW e \in Int, NEW h \in 4..23, d <= e
  PROVE  Date(d, 0) <= Date(e, h)
  BY ZoneHours DEF Date

\* The days of the window are those the loop can reach, whichever way the clock goes.
LEMMA DaysFollow ==
  ASSUME GridInv, NEW t \in Int, NEW s \in Int, t <= s, s <= t + Horizon
  PROVE  LocalDay(s) - LocalDay(t) \in 0..LastDay
<1>1. PICK d \in Int, g \in 0..23 : d = LocalDay(t) /\ In(t) = 24 * d + g
  BY InIsInt
<1>2. PICK e \in Int, h \in 0..23 : e = LocalDay(s) /\ In(s) = 24 * e + h
  BY InIsInt
<1>3. In(t) <= In(s) /\ In(s) <= In(t) + Horizon + 1
  BY ZoneHours, ScheduleAssumption DEF In
<1>4. e - d \in 0..LastDay
  BY <1>1, <1>2, <1>3, DaysAssumption, ScheduleAssumption
<1>5. QED
  BY <1>1, <1>2, <1>4

-----------------------------------------------------------------------------
(* The picker: its loop.                                                   *)

LEMMA RoundsAre ==
  ASSUME NEW first \in Int, NEW latest \in Int, NEW p \in Rounds(first, latest)
  PROVE  /\ p[1] \in 0..LastDay /\ p[2] \in Offsets
         /\ DayAfter(first, p[1]) \notin ClosedDays
         /\ EndsInHours(p[2])
  BY DEF Rounds

LEMMA RoundsHave ==
  ASSUME NEW first \in Int, NEW latest \in Int, NEW n \in 0..LastDay, NEW h \in Offsets,
         \A m \in 0..n : Date(DayAfter(first, m), 0) <= latest,
         DayAfter(first, n) \notin ClosedDays,
         EndsInHours(h)
  PROVE  <<n, h>> \in Rounds(first, latest)
  BY DEF Rounds

LEMMA OffsetsOpen ==
  ASSUME NEW h \in Offsets
  PROVE  h \in Int /\ h >= Open
<1>1. PICK k \in 0..24 : h = Open + k * Slot
  BY DEF Offsets
<1>2. PICK m \in Int : m = k * Slot
  BY <1>1, ScheduleAssumption
<1>3. k * Slot >= 0
  BY <1>1, ScheduleAssumption
<1>4. QED
  BY <1>1, <1>2, <1>3, ScheduleAssumption

LEMMA HoursOpen ==
  ASSUME NEW h \in Offsets, EndsInHours(h)
  PROVE  h \in 4..23 /\ h >= Open /\ h + Slot <= Close
  BY OffsetsOpen, ScheduleAssumption DEF EndsInHours

-----------------------------------------------------------------------------
(* The picker: what it lists and what the grid has.                        *)

LEMMA ListedIs ==
  ASSUME GridInv, NEW t \in Nat, NEW taken, NEW p \in Listed(t, taken)
  PROVE  /\ p = <<p[1], p[2]>>
         /\ p[1] \in 0..LastDay /\ p[2] \in Offsets /\ p[2] \in 4..23
         /\ DayAfter(LocalDay(t), p[1]) \in Int
         /\ DayAfter(LocalDay(t), p[1]) \notin ClosedDays
         /\ EndsInHours(p[2])
         /\ Start(t, p) \in (t + LeadTime)..(t + Horizon)
         /\ Start(t, p) \notin taken
<1>1. PICK first \in Int : first = LocalDay(t)
  BY InIsInt
<1>2. PICK latest \in Int : latest = t + Horizon
  BY ScheduleAssumption
<1>3. p \in Rounds(first, latest) /\ Start(t, p) >= t + LeadTime /\ Start(t, p) \notin taken
      /\ (Before(p, p) => Start(t, p) <= t + Horizon)
  BY <1>1, <1>2 DEF Listed
<1>4. p \in (0..LastDay) \X Offsets
  BY <1>3 DEF Rounds
<1>5. /\ p[1] \in 0..LastDay /\ p[2] \in Offsets
      /\ DayAfter(first, p[1]) \notin ClosedDays
      /\ EndsInHours(p[2])
  BY <1>3, RoundsAre
<1>6. p[2] \in 4..23
  BY <1>5, HoursOpen
<1>7. DayAfter(first, p[1]) \in Int
  BY <1>5, ScheduleAssumption DEF DayAfter
<1>8. Start(t, p) \in Int
  BY <1>1, <1>6, <1>7, ReadsBack DEF Start
<1>9. Before(p, p)
  BY <1>5, <1>6 DEF Before
<1>10. Start(t, p) \in (t + LeadTime)..(t + Horizon)
  BY <1>3, <1>8, <1>9, ScheduleAssumption
<1>11. QED
  BY <1>1, <1>3, <1>4, <1>5, <1>6, <1>7, <1>10

\* What the picker lists reads as an opening hour of an open day.
LEMMA ListedOnGrid ==
  ASSUME GridInv, NEW t \in Nat, NEW taken, NEW p \in Listed(t, taken)
  PROVE  Start(t, p) \in GridHours(t)
<1>1. PICK d : d = DayAfter(LocalDay(t), p[1])
  OBVIOUS
<1>2. d \in Int /\ p[2] \in 4..23 /\ d \notin ClosedDays /\ EndsInHours(p[2]) /\ p[2] \in Offsets
  BY <1>1, ListedIs
<1>3. PICK s : s = Date(d, p[2])
  OBVIOUS
<1>4. s = Start(t, p)
  BY <1>1, <1>3 DEF Start
<1>5. LocalDay(s) = d /\ LocalHour(s) = p[2]
  BY <1>2, <1>3, ReadsBack
<1>6. p[2] >= Open /\ p[2] + Slot <= Close
  BY <1>2, HoursOpen
<1>7. s \in (t + LeadTime)..(t + Horizon)
  BY <1>4, ListedIs
<1>8. QED
  BY <1>2, <1>4, <1>5, <1>6, <1>7 DEF GridHours

\* Every instant that reads so, and is not taken, is listed.
LEMMA GridIsListed ==
  ASSUME GridInv, NEW t \in Nat, NEW taken, NEW s \in GridHours(t), s \notin taken
  PROVE  s \in FreeSlots(t, taken)
<1>1. /\ s \in (t + LeadTime)..(t + Horizon)
      /\ LocalDay(s) \notin ClosedDays
      /\ LocalHour(s) \in Offsets
      /\ LocalHour(s) + Slot <= Close
  BY DEF GridHours
<1>2. s \in Int /\ t <= s /\ s <= t + Horizon /\ s >= t + LeadTime
  BY <1>1, ScheduleAssumption
<1>3. PICK first \in Int : first = LocalDay(t)
  BY InIsInt
<1>4. PICK day \in Int : day = LocalDay(s)
  BY <1>2, InIsInt
<1>5. PICK h \in Offsets : h = LocalHour(s)
  BY <1>1
<1>6. PICK latest \in Int : latest = t + Horizon
  BY ScheduleAssumption
<1>7. EndsInHours(h)
  BY <1>1, <1>5 DEF EndsInHours
<1>8. h \in 4..23
  BY <1>7, HoursOpen
<1>9. Date(day, h) = s
  BY <1>2, <1>4, <1>5, <1>8, SetsBack
<1>10. PICK n \in 0..LastDay : n = day - first
  BY <1>2, <1>3, <1>4, DaysFollow
<1>11. DayAfter(first, n) = day
  BY <1>10 DEF DayAfter
<1>12. DayAfter(first, n) \notin ClosedDays
  BY <1>1, <1>4, <1>11
<1>13. ASSUME NEW m \in 0..n PROVE Date(DayAfter(first, m), 0) <= latest
  <2>1. DayAfter(first, m) \in Int /\ DayAfter(first, m) <= day
    BY <1>10, ScheduleAssumption DEF DayAfter
  <2>2. Date(DayAfter(first, m), 0) <= Date(day, h)
    BY <1>8, <2>1, MidnightsBefore
  <2>3. PICK mid \in Int : mid = Date(DayAfter(first, m), 0)
    BY <2>1, ZoneHours DEF Date
  <2>4. QED
    BY <1>2, <1>6, <1>9, <2>2, <2>3
<1>14. <<n, h>> \in Rounds(first, latest)
  BY <1>7, <1>12, <1>13, RoundsHave
<1>15. Start(t, <<n, h>>) = s
  BY <1>3, <1>9, <1>11 DEF Start
<1>16. ASSUME NEW o \in Rounds(first, latest), Before(o, <<n, h>>)
       PROVE  Start(t, o) <= t + Horizon
  <2>1. o[1] \in 0..LastDay /\ o[2] \in Offsets /\ EndsInHours(o[2])
    BY <1>16, RoundsAre
  <2>2. o[2] \in 4..23
    BY <2>1, HoursOpen
  <2>3. PICK e \in Int : e = DayAfter(first, o[1])
    BY <2>1, ScheduleAssumption DEF DayAfter
  <2>4. e < day \/ (e = day /\ o[2] <= h)
    BY <1>10, <1>16, <2>1, <2>3, ScheduleAssumption DEF Before, DayAfter
  <2>5. Date(e, o[2]) \in Int
    BY <2>2, <2>3, ReadsBack
  <2>6. Date(e, o[2]) <= s
    <3>1. CASE e = day /\ o[2] = h
      BY <1>2, <1>9, <3>1
    <3>2. CASE e < day \/ (e = day /\ o[2] < h)
      <4>1. Date(e, o[2]) < Date(day, h)
        BY <1>8, <2>2, <3>2, DatesFollow
      <4>2. QED
        BY <1>2, <1>9, <2>5, <4>1
    <3>3. QED
      BY <1>8, <2>2, <2>4, <3>1, <3>2
  <2>7. Start(t, o) = Date(e, o[2])
    BY <1>3, <2>3 DEF Start
  <2>8. QED
    BY <1>2, <1>6, <2>5, <2>6, <2>7
<1>17. <<n, h>> \in Listed(t, taken)
  BY <1>2, <1>3, <1>6, <1>14, <1>15, <1>16 DEF Listed
<1>18. QED
  BY <1>15, <1>17 DEF FreeSlots

\* HeldSlots leaves out what is held at the horizon itself, and nothing else of the window.
LEMMA OffersFree == GridInv => OffersFreeHours
<1> SUFFICES ASSUME GridInv PROVE OffersFreeHours
  OBVIOUS
<1>1. PICK t \in Nat : t = now
  BY DEF GridInv
<1>2. PICK taken : taken = HeldSlots(t)
  OBVIOUS
<1>3. PICK free : free = FreeSlots(t, taken)
  OBVIOUS
<1>4. PICK last \in Int : last = t + Horizon
  BY ScheduleAssumption
<1>5. PICK grid : grid = GridHours(t)
  OBVIOUS
<1>6. free = Offered(now)
  BY <1>1, <1>2, <1>3 DEF Offered
<1>7. ASSUME NEW s \in free
      PROVE  /\ s \in grid
             /\ s # last => s \notin held
  <2>1. PICK p \in Listed(t, taken) : s = Start(t, p)
    BY <1>3 DEF FreeSlots
  <2>2. s \in grid
    BY <1>5, <2>1, ListedOnGrid
  <2>3. s \in (t + LeadTime)..(t + Horizon) /\ s \notin taken
    BY <2>1, ListedIs
  <2>4. ASSUME s # last, s \in held PROVE FALSE
    <3>1. s >= t /\ s < t + Horizon
      BY <1>4, <2>3, <2>4, ScheduleAssumption
    <3>2. s \in HeldSlots(t)
      BY <2>4, <3>1 DEF HeldSlots
    <3>3. QED
      BY <1>2, <2>3, <3>2
  <2>5. QED
    BY <2>2, <2>4
<1>8. ASSUME NEW s \in grid, s \notin held PROVE s \in free
  <2>1. s \notin taken
    BY <1>2, <1>8 DEF HeldSlots
  <2>2. s \in FreeSlots(t, taken)
    BY <1>5, <1>8, <2>1, GridIsListed
  <2>3. QED
    BY <1>3, <2>2
<1>9. free \ {last} = grid \ (held \cup {last})
  BY <1>7, <1>8
<1>10. free \subseteq grid
  BY <1>7
<1>11. grid = GridHours(now) /\ last = now + Horizon
  BY <1>1, <1>4, <1>5
<1>12. QED
  BY <1>6, <1>9, <1>10, <1>11 DEF OffersFreeHours

LEMMA ListsInOrder == GridInv => InOrder
<1> SUFFICES ASSUME GridInv PROVE InOrder
  OBVIOUS
<1>1. PICK t \in Nat : t = now
  BY DEF GridInv
<1>2. PICK taken : taken = HeldSlots(t)
  OBVIOUS
<1>3. ASSUME NEW p \in Listed(t, taken), NEW q \in Listed(t, taken), Before(p, q), p # q
      PROVE  Start(t, p) < Start(t, q)
  <2>1. PICK first \in Int : first = LocalDay(t)
    BY InIsInt
  <2>2. p = <<p[1], p[2]>> /\ p[1] \in 0..LastDay /\ p[2] \in 4..23
    BY ListedIs
  <2>3. q = <<q[1], q[2]>> /\ q[1] \in 0..LastDay /\ q[2] \in 4..23
    BY ListedIs
  <2>4. p[1] < q[1] \/ (p[1] = q[1] /\ p[2] < q[2])
    <3>1. p[1] # q[1] \/ p[2] # q[2]
      BY <1>3, <2>2, <2>3
    <3>2. p[1] < q[1] \/ (p[1] = q[1] /\ p[2] <= q[2])
      BY <1>3 DEF Before
    <3>3. QED
      BY <2>2, <2>3, <3>1, <3>2
  <2>5. PICK d \in Int : d = DayAfter(first, p[1])
    BY <2>2, ScheduleAssumption DEF DayAfter
  <2>6. PICK e \in Int : e = DayAfter(first, q[1])
    BY <2>3, ScheduleAssumption DEF DayAfter
  <2>7. d < e \/ (d = e /\ p[2] < q[2])
    BY <2>2, <2>3, <2>4, <2>5, <2>6, ScheduleAssumption DEF DayAfter
  <2>8. Date(d, p[2]) < Date(e, q[2])
    BY <2>2, <2>3, <2>7, DatesFollow
  <2>9. QED
    BY <2>1, <2>5, <2>6, <2>8 DEF Start
<1>4. QED
  BY <1>1, <1>2, <1>3 DEF InOrder

\* The picker offers exactly the hours of the window that the firm's clock shows as
\* slots of its open days and nobody holds, in order and each once, but for the
\* instant of the horizon, where HeldSlots does not look (FreeSlots, Offers).
THEOREM PickerOffersGrid == PickerSpec => []PickerExact
<1>1. GridInv => PickerExact
  BY OffersFree, ListsInOrder DEF PickerExact
<1>2. QED
  BY <1>1, GridInit, GridStep, PTL DEF PickerSpec
=============================================================================
