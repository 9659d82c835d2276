--------------------------- MODULE Clients_proofs ---------------------------
(***************************************************************************)
(* The client base for any number of phones, mails, requests, tabs and     *)
(* edits: no row names a client that is gone (ReferencesHold), staff, the  *)
(* sheet and the table tell of the same leads (LeadsAccounted), what the   *)
(* dashboards read of it adds up (StatsTie), and what the importers add is *)
(* what their tabs held (ImportsSafe).                                     *)
(***************************************************************************)
EXTENDS HistoryImport, Sums

-----------------------------------------------------------------------------
(* A table of clients. *)

ClientTable == Seq(ClientRow)

\* Nobody is gone that was not.
Keeps(t, u) == u \in ClientTable /\ Live(t) \subseteq Live(u)

LEMMA RowFields ==
  ASSUME NEW x \in ClientRow
  PROVE  /\ x.phone \in Phones \cup {NoPhone} /\ x.first \in Days /\ x.last \in Days
         /\ x.pin \in Segments \cup {Blank} /\ x.gone \in BOOLEAN
BY DEF ClientRow

LEMMA NewRow ==
  ASSUME NEW p \in Phones \cup {NoPhone}, NEW d \in Days
  PROVE  Client(p, d) \in ClientRow /\ ~Client(p, d).gone
BY DEF Client, ClientRow

LEMMA OneMore ==
  ASSUME NEW t \in ClientTable, NEW x \in ClientRow
  PROVE  /\ Keeps(t, Append(t, x))
         /\ ~x.gone => Len(t) + 1 \in Live(Append(t, x))
<1>1. PICK u : u = Append(t, x)
  OBVIOUS
<1>2. /\ u \in Seq(ClientRow) /\ Len(u) = Len(t) + 1 /\ u[Len(t) + 1] = x
      /\ \A i \in 1..Len(t) : u[i] = t[i]
      /\ Len(t) \in Nat /\ DOMAIN t = 1..Len(t) /\ DOMAIN u = 1..Len(u)
  BY <1>1 DEF ClientTable
<1>3. Keeps(t, u)
  BY <1>2 DEF Keeps, ClientTable, Live
<1>4. ~x.gone => Len(t) + 1 \in Live(u)
  BY <1>2 DEF Live
<1>5. QED
  BY <1>1, <1>3, <1>4

LEMMA OneChanged ==
  ASSUME NEW t \in ClientTable, NEW c, NEW x \in ClientRow, c \in DOMAIN t => x.gone = t[c].gone
  PROVE  Keeps(t, [t EXCEPT ![c] = x])
<1>1. PICK u : u = [t EXCEPT ![c] = x]
  OBVIOUS
<1>2. /\ u \in Seq(ClientRow) /\ DOMAIN u = DOMAIN t
      /\ \A i \in DOMAIN t : u[i] = IF i = c THEN x ELSE t[i]
  <2>1. CASE c \in DOMAIN t
    BY <1>1, <2>1 DEF ClientTable
  <2>2. CASE c \notin DOMAIN t
    <3>1. u = [i \in DOMAIN t |-> IF i = c THEN x ELSE t[i]]
      BY <1>1
    <3>2. t = [i \in DOMAIN t |-> t[i]]
      BY DEF ClientTable
    <3>3. u = t
      BY <2>2, <3>1, <3>2
    <3>4. QED
      BY <2>2, <3>3 DEF ClientTable
  <2>3. QED
    BY <2>1, <2>2
<1>3. Keeps(t, u)
  BY <1>2 DEF Keeps, ClientTable, Live
<1>4. QED
  BY <1>1, <1>3

LEMMA IdOfIn ==
  ASSUME NEW t, NEW p, With(t, p) # {}
  PROVE  IdOf(t, p) \in With(t, p)
BY DEF IdOf

LEMMA FoundLive ==
  ASSUME NEW t, NEW p, With(t, p) # {}
  PROVE  IdOf(t, p) \in Live(t) /\ t[IdOf(t, p)].phone = p
BY IdOfIn DEF With

LEMMA ResolvedKeeps ==
  ASSUME NEW t \in ClientTable, NEW p \in Phones \cup {NoPhone}, day \in Days
  PROVE  /\ Keeps(t, Resolved(t, p))
         /\ ResolvedId(t, p) \in Live(Resolved(t, p)) /\ ResolvedId(t, p) \in Nat
<1>1. CASE Known(t, p)
  <2>1. PICK c : c = IdOf(t, p)
    OBVIOUS
  <2>2. c \in Live(t)
    BY <1>1, <2>1, FoundLive DEF Known
  <2>3. c \in DOMAIN t /\ c \in Nat /\ t[c] \in ClientRow
    BY <2>2 DEF Live, ClientTable
  <2>4. PICK x : x = [t[c] EXCEPT !.last = day]
    OBVIOUS
  <2>5. x \in ClientRow /\ x.gone = t[c].gone
    BY <2>3, <2>4 DEF ClientRow
  <2>6. Keeps(t, [t EXCEPT ![c] = x])
    BY <2>5, OneChanged
  <2>7. Resolved(t, p) = [t EXCEPT ![c] = x] /\ ResolvedId(t, p) = c
    BY <1>1, <2>1, <2>4 DEF Resolved, ResolvedId
  <2>8. QED
    BY <2>2, <2>3, <2>6, <2>7 DEF Keeps
<1>2. CASE ~Known(t, p)
  <2>1. PICK x : x = Client(p, day)
    OBVIOUS
  <2>2. x \in ClientRow /\ ~x.gone
    BY <2>1, NewRow
  <2>3. Resolved(t, p) = Append(t, x) /\ ResolvedId(t, p) = Len(t) + 1
    BY <1>2, <2>1 DEF Resolved, ResolvedId
  <2>4. Len(t) + 1 \in Nat
    BY DEF ClientTable
  <2>5. QED
    BY <2>2, <2>3, <2>4, OneMore
<1>3. QED
  BY <1>1, <1>2

-----------------------------------------------------------------------------
(* What staff do: no row is left with a client that is gone. *)

LEMMA LiveIsNat ==
  ASSUME BaseTypeOK, NEW c \in Live(clients)
  PROVE  c \in Nat /\ c \in DOMAIN clients /\ clients[c] \in ClientRow
BY DEF BaseTypeOK, Live

\* Rows that refer to clients stay right when clients are only added or edited.
LEMMA StillNamed ==
  ASSUME ReferencesHold, Keeps(clients, clients'), UNCHANGED <<leads, consults, cases, labels, tags, notes>>
  PROVE  ReferencesHold'
<1>1. Live(clients) \subseteq Live(clients') /\ Live(clients)' = Live(clients')
  BY DEF Keeps, Live
<1>2. QED
  BY <1>1 DEF ReferencesHold

LEMMA CreatedClient ==
  ASSUME BaseTypeOK, ReferencesHold, CreateClient
  PROVE  BaseTypeOK' /\ ReferencesHold'
<1>1. Keeps(clients, clients')
  <2>1. CASE \E p \in Phones : clients' = Resolved(clients, p)
    BY <2>1, ResolvedKeeps DEF BaseTypeOK, ClientTable
  <2>2. CASE clients' = Append(clients, Client(NoPhone, day))
    BY <2>2, NewRow, OneMore DEF BaseTypeOK, ClientTable
  <2>3. QED
    BY <2>1, <2>2 DEF CreateClient
<1>2. QED
  BY <1>1, StillNamed DEF CreateClient, StaffStep, BaseTypeOK, Keeps, ClientTable

LEMMA EditedClient ==
  ASSUME BaseTypeOK, ReferencesHold, UpdateClient \/ SetClientSegmentOverride
  PROVE  BaseTypeOK' /\ ReferencesHold'
<1>1. \E c \in Live(clients) : \E x \in ClientRow :
         x.gone = clients[c].gone /\ clients' = [clients EXCEPT ![c] = x]
  <2>1. CASE UpdateClient
    <3>1. PICK c \in Live(clients), p \in Phones \cup {NoPhone} : CardSaved(c, p)
      BY <2>1 DEF UpdateClient
    <3>2. PICK x : x = [clients[c] EXCEPT !.phone = p]
      OBVIOUS
    <3>3. x \in ClientRow /\ x.gone = clients[c].gone
      BY <3>2, LiveIsNat DEF ClientRow
    <3>4. clients' = [clients EXCEPT ![c] = x]
      BY <3>1, <3>2 DEF CardSaved
    <3>5. QED
      BY <3>3, <3>4
  <2>2. CASE SetClientSegmentOverride
    <3>1. PICK c \in Live(clients) : \E s \in Segments \cup {Blank} : PinSet(c, s)
      BY <2>2 DEF SetClientSegmentOverride, SetOverride
    <3>2. PICK s \in Segments \cup {Blank} : PinSet(c, s)
      BY <3>1
    <3>3. PICK x : x = [clients[c] EXCEPT !.pin = s]
      OBVIOUS
    <3>4. x \in ClientRow /\ x.gone = clients[c].gone
      BY <3>3, LiveIsNat DEF ClientRow
    <3>5. clients' = [clients EXCEPT ![c] = x]
      BY <3>2, <3>3 DEF PinSet
    <3>6. QED
      BY <3>4, <3>5
  <2>3. QED
    BY <2>1, <2>2
<1>2. Keeps(clients, clients')
  <2>1. PICK c \in Live(clients), x \in ClientRow :
           x.gone = clients[c].gone /\ clients' = [clients EXCEPT ![c] = x]
    BY <1>1
  <2>2. clients \in ClientTable
    BY DEF BaseTypeOK, ClientTable
  <2>3. Keeps(clients, [clients EXCEPT ![c] = x])
    BY <2>1, <2>2, OneChanged
  <2>4. QED
    BY <2>1, <2>3
<1>3. UNCHANGED <<day, leads, consults, cases, labels, tags, notes>>
  BY DEF UpdateClient, SetClientSegmentOverride, StaffStep
<1>4. QED
  BY <1>2, <1>3, StillNamed DEF BaseTypeOK, Keeps, ClientTable

LEMMA Noted ==
  ASSUME BaseTypeOK, ReferencesHold,
         AddClientNote \/ CountHistory \/ \E c : DropNotes(c)
  PROVE  BaseTypeOK' /\ ReferencesHold'
<1>1. UNCHANGED <<day, clients, leads, consults, cases, labels, tags>>
  BY DEF AddClientNote, CountHistory, DropNotes, tables
<1>2. notes' \subseteq Live(clients)
  BY DEF AddClientNote, AddNote, NoteWritten, CountHistory, DropNotes, ReferencesHold
<1>3. Live(clients)' = Live(clients)
  BY <1>1 DEF Live
<1>4. QED
  BY <1>1, <1>2, <1>3 DEF BaseTypeOK, ReferencesHold

LEMMA DroppedClient ==
  ASSUME BaseTypeOK, ReferencesHold, NEW c, DropClient(c)
  PROVE  BaseTypeOK' /\ ReferencesHold'
<1>1. CASE Referenced(c) \/ clients[c].gone
  <2>1. UNCHANGED <<day, clients, leads, consults, cases, labels, tags, notes>>
    BY <1>1 DEF DropClient
  <2>2. QED
    BY <2>1 DEF BaseTypeOK, ReferencesHold, Live
<1>2. CASE ~(Referenced(c) \/ clients[c].gone)
  <2>1. /\ clients' = [clients EXCEPT ![c].gone = TRUE]
        /\ tags' = {t \in tags : t[1] # c}
        /\ UNCHANGED <<day, leads, consults, cases, labels, notes>>
    BY <1>2 DEF DropClient
  <2>2. clients' \in Seq(ClientRow) /\ Live(clients') = Live(clients) \ {c}
    <3>1. CASE c \in DOMAIN clients
      <4>1. PICK x : x = [clients[c] EXCEPT !.gone = TRUE]
        OBVIOUS
      <4>2. x \in ClientRow /\ x.gone = TRUE
        <5>1. clients[c] \in ClientRow
          BY <3>1 DEF BaseTypeOK
        <5>2. QED
          BY <4>1, <5>1 DEF ClientRow
      <4>3. clients' = [clients EXCEPT ![c] = x]
        BY <2>1, <4>1
      <4>4. /\ clients' \in Seq(ClientRow) /\ DOMAIN clients' = DOMAIN clients
            /\ clients'[c] = x /\ \A i \in DOMAIN clients \ {c} : clients'[i] = clients[i]
        BY <3>1, <4>2, <4>3 DEF BaseTypeOK
      <4>5. QED
        BY <4>2, <4>4 DEF Live
    <3>2. CASE c \notin DOMAIN clients
      <4>1. clients' = clients
        <5>1. clients = [i \in DOMAIN clients |-> clients[i]]
          BY DEF BaseTypeOK
        <5>2. clients' = [i \in DOMAIN clients |-> clients[i]]
          BY <2>1, <3>2
        <5>3. QED
          BY <5>1, <5>2
      <4>2. QED
        BY <3>2, <4>1 DEF Live, BaseTypeOK
    <3>3. QED
      BY <3>1, <3>2
  <2>3. /\ \A m \in DOMAIN leads : leads[m].client # c
        /\ \A i \in DOMAIN consults : consults[i].client # c
        /\ \A i \in DOMAIN cases : cases[i].client # c
        /\ c \notin notes
    BY <1>2 DEF Referenced, HasHistory
  <2>4. Live(clients)' = Live(clients) \ {c}
    BY <2>2 DEF Live
  <2>5. BaseTypeOK'
    BY <2>1, <2>2 DEF BaseTypeOK
  <2>6. ReferencesHold'
    BY <2>1, <2>3, <2>4 DEF ReferencesHold
  <2>7. QED
    BY <2>5, <2>6
<1>3. QED
  BY <1>1, <1>2

\* Rows that staff add name a client that is there; those they change keep theirs.
LEMMA BookedOrAgreed ==
  ASSUME BaseTypeOK, ReferencesHold, ClientBaseAssumption,
         SaveConsultation \/ TapStatus \/ SaveCase \/ AddPayment \/ CloseCase
  PROVE  BaseTypeOK' /\ ReferencesHold'
<1>1. UNCHANGED <<day, clients, leads, labels, tags, notes>>
  BY DEF SaveConsultation, TapStatus, SaveCase, AddPayment, CloseCase, StaffStep
<1>2. Live(clients)' = Live(clients)
  BY <1>1 DEF Live
<1>3. SUFFICES /\ consults' \in Seq(ConsultationRow) /\ cases' \in Seq(CaseRecord)
               /\ \A i \in DOMAIN consults' : consults'[i].client \in Live(clients)
               /\ \A i \in DOMAIN cases' : cases'[i].client \in Live(clients)
  BY <1>1, <1>2 DEF BaseTypeOK, ReferencesHold
<1>4. /\ consults \in Seq(ConsultationRow) /\ cases \in Seq(CaseRecord) /\ day \in Days
      /\ \A i \in DOMAIN consults : consults[i].client \in Live(clients)
      /\ \A i \in DOMAIN cases : cases[i].client \in Live(clients)
      /\ Price \in Nat /\ Fee \in Nat /\ Days \subseteq Nat
  BY DEF BaseTypeOK, ReferencesHold, ClientBaseAssumption, Days
<1>5. CASE SaveConsultation
  <2>1. PICK c \in Live(clients), at \in day .. LastDay, s \in {"requested", "scheduled"} :
           consults' = Append(consults, Consultation(c, at, Price, s, day, "staff"))
    BY <1>5 DEF SaveConsultation
  <2>2. PICK x : x = Consultation(c, at, Price, s, day, "staff")
    OBVIOUS
  <2>3. c \in Nat /\ at \in Days /\ s \in Statuses
    BY <1>4, LiveIsNat DEF Days, Statuses, ClientBaseAssumption
  <2>4. x \in ConsultationRow /\ x.client = c
    BY <1>4, <2>2, <2>3 DEF Consultation, ConsultationRow
  <2>5. UNCHANGED cases
    BY <1>5 DEF SaveConsultation
  <2>6. QED
    BY <1>4, <2>1, <2>2, <2>4, <2>5
<1>6. CASE TapStatus
  <2>1. PICK i \in DOMAIN consults :
          \/ \E paid \in BOOLEAN : consults' = [consults EXCEPT ![i] = MarkCompleted(@, paid)]
          \/ \E s \in {"cancelled", "no_show"} : consults' = [consults EXCEPT ![i].status = s]
    BY <1>6 DEF TapStatus
  <2>2. consults[i] \in ConsultationRow
    BY <1>4
  <2>3. \E x \in ConsultationRow : x.client = consults[i].client /\ consults' = [consults EXCEPT ![i] = x]
    <3>1. CASE \E paid \in BOOLEAN : consults' = [consults EXCEPT ![i] = MarkCompleted(@, paid)]
      <4>1. PICK paid \in BOOLEAN : consults' = [consults EXCEPT ![i] = MarkCompleted(@, paid)]
        BY <3>1
      <4>2. PICK x : x = MarkCompleted(consults[i], paid)
        OBVIOUS
      <4>3. x \in ConsultationRow /\ x.client = consults[i].client
        BY <2>2, <4>2 DEF MarkCompleted, ConsultationRow, Statuses
      <4>4. QED
        BY <4>1, <4>2, <4>3
    <3>2. CASE \E s \in {"cancelled", "no_show"} : consults' = [consults EXCEPT ![i].status = s]
      <4>1. PICK s \in {"cancelled", "no_show"} : consults' = [consults EXCEPT ![i].status = s]
        BY <3>2
      <4>2. PICK x : x = [consults[i] EXCEPT !.status = s]
        OBVIOUS
      <4>3. x \in ConsultationRow /\ x.client = consults[i].client
        BY <2>2, <4>2 DEF ConsultationRow, Statuses
      <4>4. QED
        BY <4>1, <4>2, <4>3
    <3>3. QED
      BY <2>1, <3>1, <3>2
  <2>4. PICK x \in ConsultationRow :
           x.client = consults[i].client /\ consults' = [consults EXCEPT ![i] = x]
    BY <2>3
  <2>5. UNCHANGED cases
    BY <1>6 DEF TapStatus
  <2>6. QED
    BY <1>4, <2>4, <2>5
<1>7. CASE SaveCase
  <2>1. PICK c \in Live(clients) :
           cases' = Append(cases, CaseRow(c, day, Fee, 0, 0, "in_progress"))
    BY <1>7 DEF SaveCase
  <2>2. PICK x : x = CaseRow(c, day, Fee, 0, 0, "in_progress")
    OBVIOUS
  <2>3. x \in CaseRecord /\ x.client = c
    BY <1>4, <2>2, LiveIsNat DEF CaseRow, CaseRecord
  <2>4. UNCHANGED consults
    BY <1>7 DEF SaveCase
  <2>5. QED
    BY <1>4, <2>1, <2>2, <2>3, <2>4
<1>8. CASE AddPayment \/ CloseCase
  <2>1. \E i \in DOMAIN cases : \E x \in CaseRecord :
           x.client = cases[i].client /\ cases' = [cases EXCEPT ![i] = x]
    <3>1. CASE AddPayment
      <4>1. PICK i \in DOMAIN cases :
               cases' = [cases EXCEPT ![i].paid = @ + Price, ![i].ledger = @ + Price]
        BY <3>1 DEF AddPayment
      <4>2. PICK x : x = [cases[i] EXCEPT !.paid = @ + Price, !.ledger = @ + Price]
        OBVIOUS
      <4>3. cases[i] \in CaseRecord
        BY <1>4
      <4>4. x \in CaseRecord /\ x.client = cases[i].client
        <5>1. PICK k \in CaseRecord : k = cases[i]
          BY <4>3
        <5>2. k.paid + Price \in Nat /\ k.ledger + Price \in Nat
          <6>1. k.paid \in Nat /\ k.ledger \in Nat
            BY DEF CaseRecord
          <6>2. Price \in Nat
            BY <1>4
          <6>3. QED
            BY <6>1, <6>2
        <5>3. x = [k EXCEPT !.paid = k.paid + Price, !.ledger = k.ledger + Price]
          BY <4>2, <5>1
        <5>4. PICK y : y = [k EXCEPT !.paid = k.paid + Price]
          OBVIOUS
        <5>5. y \in CaseRecord /\ y.client = k.client
          BY <5>2, <5>4 DEF CaseRecord
        <5>6. x = [y EXCEPT !.ledger = k.ledger + Price]
          BY <5>3, <5>4 DEF CaseRecord
        <5>7. QED
          BY <5>1, <5>2, <5>5, <5>6 DEF CaseRecord
      <4>5. cases' = [cases EXCEPT ![i] = x]
        BY <1>4, <4>1, <4>2
      <4>6. QED
        BY <4>4, <4>5
    <3>2. CASE CloseCase
      <4>1. PICK i \in DOMAIN cases : cases' = [cases EXCEPT ![i].status = "completed"]
        BY <3>2 DEF CloseCase
      <4>2. PICK x : x = [cases[i] EXCEPT !.status = "completed"]
        OBVIOUS
      <4>3. cases[i] \in CaseRecord
        BY <1>4
      <4>4. x \in CaseRecord /\ x.client = cases[i].client
        BY <4>2, <4>3 DEF CaseRecord
      <4>5. QED
        BY <4>1, <4>2, <4>4
    <3>3. QED
      BY <1>8, <3>1, <3>2
  <2>2. PICK i \in DOMAIN cases, x \in CaseRecord :
           x.client = cases[i].client /\ cases' = [cases EXCEPT ![i] = x]
    BY <2>1
  <2>3. UNCHANGED consults
    BY <1>8 DEF AddPayment, CloseCase
  <2>4. QED
    BY <1>4, <2>2, <2>3
<1>9. QED
  BY <1>5, <1>6, <1>7, <1>8

\* A tag names a label of the vocabulary, whatever becomes of the vocabulary.
LEMMA Tagged ==
  ASSUME BaseTypeOK, ReferencesHold,
         AddClientTag \/ RemoveClientTag \/ CreateClientTagDef \/ UpdateClientTagDef \/ DeleteClientTagDef
  PROVE  BaseTypeOK' /\ ReferencesHold'
<1>1. UNCHANGED <<day, clients, leads, consults, cases, notes>>
  BY DEF AddClientTag, RemoveClientTag, CreateClientTagDef, UpdateClientTagDef,
         DeleteClientTagDef, StaffStep
<1>2. Live(clients)' = Live(clients)
  BY <1>1 DEF Live
<1>3. \A t \in tags : t[1] \in Live(clients) /\ t[2] \in labels
  BY DEF ReferencesHold
<1>4. \A t \in tags' : t[1] \in Live(clients) /\ t[2] \in labels'
  <2>1. CASE AddClientTag
    BY <1>3, <2>1 DEF AddClientTag, AddTag, TagGiven
  <2>2. CASE RemoveClientTag
    BY <1>3, <2>2 DEF RemoveClientTag, RemoveTag, TagTaken
  <2>3. CASE CreateClientTagDef
    BY <1>3, <2>3 DEF CreateClientTagDef, CreateTagDef, LabelAdded
  <2>4. CASE UpdateClientTagDef
    <3>1. PICK l \in Labels, n \in Labels \cup {Blank} : LabelChanged(l, n)
      BY <2>4 DEF UpdateClientTagDef, UpdateTagDef
    <3>2. labels' = (labels \ {l}) \cup {n} /\ tags' = Renamed(l, n)
      BY <3>1 DEF LabelChanged
    <3>3. ASSUME NEW t \in tags'
          PROVE  t[1] \in Live(clients) /\ t[2] \in labels'
      <4>1. PICK u \in tags : t = IF u[2] = l THEN <<u[1], n>> ELSE u
        BY <3>2 DEF Renamed
      <4>2. CASE u[2] = l
        BY <1>3, <3>2, <4>1, <4>2
      <4>3. CASE u[2] # l
        BY <1>3, <3>2, <4>1, <4>3
      <4>4. QED
        BY <4>2, <4>3
    <3>4. QED
      BY <3>3
  <2>5. CASE DeleteClientTagDef
    BY <1>3, <2>5 DEF DeleteClientTagDef, DeleteTagDef, LabelDropped
  <2>6. QED
    BY <2>1, <2>2, <2>3, <2>4, <2>5
<1>5. QED
  BY <1>1, <1>2, <1>4 DEF BaseTypeOK, ReferencesHold

LEMMA Ticked ==
  ASSUME BaseTypeOK, ReferencesHold, ClientBaseAssumption, Tick
  PROVE  BaseTypeOK' /\ ReferencesHold'
<1>1. day' \in Days /\ UNCHANGED <<clients, leads, consults, cases, labels, tags, notes>>
  BY DEF Tick, tables, BaseTypeOK, Days, ClientBaseAssumption
<1>2. Live(clients)' = Live(clients)
  BY <1>1 DEF Live
<1>3. QED
  BY <1>1, <1>2 DEF BaseTypeOK, ReferencesHold

LEMMA DeletionRefers ==
  ASSUME BaseTypeOK, ReferencesHold, Deletion
  PROVE  BaseTypeOK' /\ ReferencesHold'
BY Noted, DroppedClient DEF Deletion

LEMMA StaffRefers ==
  ASSUME BaseTypeOK, ReferencesHold, ClientBaseAssumption, StaffNext \/ Tick
  PROVE  BaseTypeOK' /\ ReferencesHold'
<1>1. CASE Tick
  BY <1>1, Ticked
<1>2. CASE StaffNext
  <2>1. CASE CreateClient
    BY <2>1, CreatedClient
  <2>2. CASE UpdateClient \/ SetClientSegmentOverride
    BY <2>2, EditedClient
  <2>3. CASE AddClientNote
    BY <2>3, Noted
  <2>4. CASE Deletion
    BY <2>4, DeletionRefers
  <2>5. CASE SaveConsultation \/ TapStatus \/ SaveCase \/ AddPayment \/ CloseCase
    BY <2>5, BookedOrAgreed
  <2>6. CASE AddClientTag \/ RemoveClientTag \/ CreateClientTagDef \/ UpdateClientTagDef
             \/ DeleteClientTagDef
    BY <2>6, Tagged
  <2>7. QED
    BY <1>2, <2>1, <2>2, <2>3, <2>4, <2>5, <2>6 DEF StaffNext
<1>3. QED
  BY <1>1, <1>2

-----------------------------------------------------------------------------
(* Arriving leads: the types, and whose message a submission has. *)

SubType ==
    /\ IntakeTypeOK
    /\ batch \cap seen = {}
    /\ \A s \in Submitters : OwnMessage(s)

LEMMA LeastIn ==
  ASSUME NEW S, IsFiniteSet(S), S \subseteq Nat, S # {}
  PROVE  Min(S) \in S /\ \A y \in S : Min(S) <= y
<1> DEFINE G == {T \in SUBSET S : T = {} \/ \E x \in T : \A y \in T : x <= y}
<1>1. ASSUME NEW T \in SUBSET S, \A U \in SUBSET T : U # T => U \in G
      PROVE  T \in G
  <2>1. SUFFICES ASSUME T # {} PROVE \E x \in T : \A y \in T : x <= y
    OBVIOUS
  <2>2. PICK z \in T : TRUE
    BY <2>1
  <2>3. T \ {z} \in G
    BY <1>1
  <2>4. CASE T \ {z} = {}
    BY <2>4
  <2>5. CASE T \ {z} # {}
    <3>1. PICK x \in T \ {z} : \A y \in T \ {z} : x <= y
      BY <2>3, <2>5
    <3>2. x \in Nat /\ z \in Nat /\ \A y \in T : y \in Nat
      OBVIOUS
    <3>3. CASE x <= z
      BY <3>1, <3>2, <3>3
    <3>4. CASE ~(x <= z)
      BY <3>1, <3>2, <3>4
    <3>5. QED
      BY <3>3, <3>4
  <2>6. QED
    BY <2>4, <2>5
<1>2. \A T \in SUBSET S : T \in G
  <2> HIDE DEF G
  <2>1. QED
    BY <1>1, FiniteInduct
<1>3. \E x \in S : \A y \in S : x <= y
  BY <1>2
<1>4. QED
  BY <1>3 DEF Min

Busy == {"resolve", "send", "save", "append", "sync"}
Answers == {"accepted", "refused"}

LEMMA SentFrom ==
  ASSUME SubType, LeadIntakeAssumption, NEW s \in Submitters, sub[s].pc \in Busy \cup {"seen"}
  PROVE  /\ sub[s] \in Work /\ sub[s].msg \in Sources
         /\ s = Poller => sub[s].msg \in Mails \ (seen \cup batch)
         /\ s # Poller => s \in Requests /\ sub[s].msg = s
BY DEF SubType, IntakeTypeOK, OwnMessage, Busy, Submitters, Sources

\* A submission that goes on with its message, or ends.
Onward(s, w) ==
    /\ w \in Work
    /\ \/ /\ w.msg = sub[s].msg /\ sub[s].pc \in Busy
          /\ w.pc \in Busy \/ (s = Poller /\ w.pc = "seen")
       \/ s = Poller /\ w.pc = "idle"
       \/ s # Poller /\ w.pc \in Answers /\ w.msg = s

LEMMA OneMoves ==
  ASSUME SubType, LeadIntakeAssumption, NEW s \in Submitters, NEW w, Onward(s, w),
         sub' = [sub EXCEPT ![s] = w], UNCHANGED <<seen, batch>>
  PROVE  sub' \in [Submitters -> Work] /\ \A t \in Submitters : OwnMessage(t)'
<1>1. sub \in [Submitters -> Work] /\ \A t \in Submitters : OwnMessage(t)
  BY DEF SubType, IntakeTypeOK
<1>2. w \in Work
  BY DEF Onward
<1>3. sub' \in [Submitters -> Work] /\ sub'[s] = w
  BY <1>1, <1>2
<1>4. ASSUME NEW t \in Submitters PROVE OwnMessage(t)'
  <2>1. CASE t # s
    <3>1. sub'[t] = sub[t]
      BY <1>1, <2>1
    <3>2. QED
      BY <1>1, <3>1 DEF OwnMessage
  <2>2. CASE t = s /\ s = Poller
    <3>1. sub[s].pc \in Busy => sub[s].msg \in Mails \ (seen \cup batch)
      BY <2>2, SentFrom DEF Busy
    <3>2. QED
      BY <1>3, <2>2, <3>1 DEF OwnMessage, Onward, Busy
  <2>3. CASE t = s /\ s # Poller
    <3>1. sub[s].pc \in Busy => sub[s].msg = s
      BY <2>3, SentFrom DEF Busy
    <3>2. QED
      BY <1>3, <2>3, <3>1 DEF OwnMessage, Onward, Busy, Answers
  <2>4. QED
    BY <2>1, <2>2, <2>3
<1>5. QED
  BY <1>3, <1>4

LEMMA EndedOnward ==
  ASSUME LeadIntakeAssumption, NEW s \in Submitters, NEW answer \in Answers
  PROVE  Onward(s, Ended(s, answer))
<1>1. CASE s = Poller
  <2>1. PICK w : w = Waiting
    OBVIOUS
  <2>2. w \in Work /\ w.pc = "idle"
    BY <2>1 DEF Waiting, Doing, Work
  <2>3. QED
    BY <1>1, <2>1, <2>2 DEF Onward, Ended
<1>2. CASE s # Poller
  <2>1. PICK w : w = Doing(answer, s, 0, 0)
    OBVIOUS
  <2>2. s \in Sources
    BY <1>2 DEF Submitters, Sources
  <2>3. w \in Work /\ w.pc = answer /\ w.msg = s
    BY <2>1, <2>2 DEF Doing, Work, Answers
  <2>4. QED
    BY <1>2, <2>1, <2>3 DEF Onward, Ended
<1>3. QED
  BY <1>1, <1>2

LEMMA GoesOnward ==
  ASSUME SubType, NEW s \in Submitters, sub[s].pc \in Busy, NEW pc,
         pc \in Busy \/ (s = Poller /\ pc = "seen"), NEW w, w = [sub[s] EXCEPT !.pc = pc]
  PROVE  Onward(s, w)
<1>1. PICK v \in Work : v = sub[s]
  BY DEF SubType, IntakeTypeOK
<1>2. w = [v EXCEPT !.pc = pc]
  BY <1>1
<1>3. w \in Work /\ w.pc = pc /\ w.msg = v.msg
  BY <1>2 DEF Work, Busy
<1>4. QED
  BY <1>1, <1>3 DEF Onward

LEMMA SubmittedOnward ==
  ASSUME SubType, LeadIntakeAssumption, NEW s \in Submitters, sub[s].pc \in Busy
  PROVE  Onward(s, Submitted(s))
<1>1. CASE s = Poller
  <2>1. PICK w : w = [sub[s] EXCEPT !.pc = "seen"]
    OBVIOUS
  <2>2. Onward(s, w)
    BY <1>1, <2>1, GoesOnward
  <2>3. QED
    BY <1>1, <2>1, <2>2 DEF Submitted
<1>2. CASE s # Poller
  BY <1>2, EndedOnward DEF Submitted, Answers
<1>3. QED
  BY <1>1, <1>2

\* The steps of a submission, by what becomes of it.
Becomes(s, w) == Onward(s, w) /\ sub' = [sub EXCEPT ![s] = w]

LEMMA AtWork ==
  ASSUME SubType, LeadIntakeAssumption, NEW s \in Submitters, sub[s].pc \in Busy
  PROVE  sub[s] \in Work /\ sub[s].msg \in Sources /\ sub \in [Submitters -> Work]
BY SentFrom DEF Busy, SubType, IntakeTypeOK

LEMMA GoesOn ==
  ASSUME SubType, LeadIntakeAssumption, NEW s \in Submitters, sub[s].pc \in Busy,
         NEW pc \in Busy, Go(s, pc)
  PROVE  \E w : Becomes(s, w) /\ w.pc = pc /\ w.msg = sub[s].msg
<1>1. PICK v \in Work : v = sub[s]
  BY AtWork
<1>2. PICK w : w = [v EXCEPT !.pc = pc]
  OBVIOUS
<1>3. w \in Work /\ w.pc = pc /\ w.msg = v.msg
  BY <1>2 DEF Work, Busy
<1>4. sub' = [sub EXCEPT ![s] = w]
  BY <1>1, <1>2 DEF Go
<1>5. QED
  BY <1>1, <1>3, <1>4 DEF Becomes, Onward

LEMMA IsSubmitted ==
  ASSUME SubType, LeadIntakeAssumption, NEW s \in Submitters, sub[s].pc \in Busy,
         sub' = [sub EXCEPT ![s] = Submitted(s)]
  PROVE  \E w : /\ Becomes(s, w) /\ w.pc \in {"seen", "accepted"}
                /\ w.pc = "seen" => w.msg = sub[s].msg
<1>1. PICK w : w = Submitted(s)
  OBVIOUS
<1>2. Becomes(s, w)
  BY <1>1, SubmittedOnward DEF Becomes
<1>3. CASE s = Poller
  BY <1>1, <1>2, <1>3, AtWork DEF Submitted, Work
<1>4. CASE s # Poller
  BY <1>1, <1>2, <1>4 DEF Submitted, Ended, Doing
<1>5. QED
  BY <1>3, <1>4

LEMMA ResolveMove ==
  ASSUME SubType, BaseTypeOK, LeadIntakeAssumption, NEW s \in Submitters, ResolveClient(s)
  PROVE  /\ Keeps(clients, clients') /\ faults' \in Nat
         /\ \E w : Becomes(s, w) /\ w.pc = "send"
<1> DEFINE p == PhoneOf[sub[s].msg]
<1>1. sub[s].pc = "resolve" /\ sub[s].pc \in Busy
  BY DEF ResolveClient, Busy
<1>2. sub[s] \in Work /\ sub[s].msg \in Sources /\ sub \in [Submitters -> Work]
  BY <1>1, AtWork
<1>3. p \in Phones \cup {NoPhone}
  BY <1>2 DEF LeadIntakeAssumption, Sources
<1>4. faults \in Nat /\ clients \in ClientTable /\ day \in Days
  BY DEF SubType, IntakeTypeOK, BaseTypeOK, ClientTable
<1>5. CASE clients' = Resolved(clients, p)
           /\ sub' = [sub EXCEPT ![s].pc = "send", ![s].client = ResolvedId(clients, p)]
           /\ UNCHANGED faults
  <2>1. PICK c : c = ResolvedId(clients, p)
    OBVIOUS
  <2>2. Keeps(clients, clients') /\ c \in Nat
    BY <1>3, <1>4, <1>5, <2>1, ResolvedKeeps
  <2>3. PICK v : v = [sub[s] EXCEPT !.pc = "send"]
    OBVIOUS
  <2>4. v \in Work /\ v.msg = sub[s].msg /\ v.pc = "send"
    BY <1>2, <2>3 DEF Work
  <2>5. PICK w : w = [v EXCEPT !.client = c]
    OBVIOUS
  <2>6. w \in Work /\ w.msg = sub[s].msg /\ w.pc = "send"
    BY <2>2, <2>4, <2>5 DEF Work
  <2>7. sub' = [sub EXCEPT ![s] = w]
    <3>1. sub' = [sub EXCEPT ![s] = [sub[s] EXCEPT !.pc = "send", !.client = c]]
      BY <1>2, <1>5, <2>1
    <3>2. w = [sub[s] EXCEPT !.pc = "send", !.client = c]
      BY <1>2, <2>3, <2>5 DEF Work
    <3>3. QED
      BY <3>1, <3>2
  <2>8. Becomes(s, w)
    BY <1>1, <2>6, <2>7 DEF Becomes, Onward, Busy
  <2>9. QED
    BY <1>4, <1>5, <2>2, <2>6, <2>8
<1>6. CASE /\ faults' = IF p = NoPhone THEN faults ELSE faults + 1
           /\ Go(s, "send")
           /\ UNCHANGED clients \/ clients' = Resolved(clients, p)
  <2>1. \E w : Becomes(s, w) /\ w.pc = "send"
    BY <1>1, <1>6, GoesOn DEF Busy
  <2>2. Keeps(clients, clients')
    <3>1. CASE UNCHANGED clients
      BY <1>4, <3>1 DEF Keeps
    <3>2. CASE clients' = Resolved(clients, p)
      BY <1>3, <1>4, <3>2, ResolvedKeeps
    <3>3. QED
      BY <1>6, <3>1, <3>2
  <2>3. QED
    BY <1>4, <1>6, <2>1, <2>2
<1>7. QED
  BY <1>5, <1>6 DEF ResolveClient

LEMMA SendMove ==
  ASSUME SubType, LeadIntakeAssumption, NEW s \in Submitters, SendMessage(s), NEW m, m = sub[s].msg
  PROVE  \E w : /\ Becomes(s, w)
                /\ \/ /\ Announce(m) /\ UNCHANGED <<again, faults>>
                      /\ w.pc = "save" /\ w.msg = m /\ w.tg = Len(group) + 1
                   \/ /\ Fault /\ w.pc \in {"idle", "refused"}
                      /\ \/ UNCHANGED <<group, taps, again>>
                         \/ Announce(m) /\ again' = [again EXCEPT ![m] = @ + 1]
<1>1. sub[s].pc = "send" /\ sub[s].pc \in Busy
  BY DEF SendMessage, Busy
<1>2. sub[s] \in Work /\ sub[s].msg \in Sources /\ sub \in [Submitters -> Work]
  BY <1>1, AtWork
<1>3. CASE /\ Announce(m)
           /\ sub' = [sub EXCEPT ![s].pc = "save", ![s].tg = Len(group) + 1]
           /\ UNCHANGED <<again, faults>>
  <2>1. PICK v : v = [sub[s] EXCEPT !.pc = "save"]
    OBVIOUS
  <2>2. v \in Work /\ v.msg = m /\ v.pc = "save"
    BY <1>2, <2>1 DEF Work
  <2>3. PICK n \in Nat : n = Len(group) + 1
    BY DEF SubType, IntakeTypeOK
  <2>4. PICK w : w = [v EXCEPT !.tg = n]
    OBVIOUS
  <2>5. w \in Work /\ w.msg = m /\ w.pc = "save" /\ w.tg = n
    BY <2>2, <2>4 DEF Work
  <2>6. sub' = [sub EXCEPT ![s] = w]
    <3>1. sub' = [sub EXCEPT ![s] = [sub[s] EXCEPT !.pc = "save", !.tg = n]]
      BY <1>2, <1>3, <2>3
    <3>2. w = [sub[s] EXCEPT !.pc = "save", !.tg = n]
      BY <1>2, <2>1, <2>4 DEF Work
    <3>3. QED
      BY <3>1, <3>2
  <2>7. Becomes(s, w)
    BY <1>1, <2>5, <2>6 DEF Becomes, Onward, Busy
  <2>8. QED
    BY <1>3, <2>3, <2>5, <2>7
<1>4. CASE /\ Fault /\ sub' = [sub EXCEPT ![s] = AfterRefusal(s)]
           /\ \/ UNCHANGED <<group, taps, again>>
              \/ Announce(m) /\ again' = [again EXCEPT ![m] = @ + 1]
  <2>1. PICK w : w = AfterRefusal(s)
    OBVIOUS
  <2>2. Becomes(s, w)
    BY <1>4, <2>1, EndedOnward DEF AfterRefusal, Answers, Becomes
  <2>3. w.pc \in {"idle", "refused"}
    BY <2>1 DEF AfterRefusal, Ended, Waiting, Doing
  <2>4. QED
    BY <1>4, <2>2, <2>3
<1>5. QED
  BY <1>3, <1>4 DEF SendMessage

Incoming(s) == [Lead(sub[s].client, day) EXCEPT !.tg = sub[s].tg]

LEMMA SaveMove ==
  ASSUME SubType, LeadIntakeAssumption, NEW s \in Submitters, Save(s),
         NEW i, i = IdOfLead[sub[s].msg]
  PROVE  \E w : /\ Becomes(s, w)
                /\ \/ /\ w.pc = "append" /\ w.msg = sub[s].msg
                      /\ sub[s].client \in Live(clients) \cup {0} \/ i \in DOMAIN leads
                      /\ leads' = Stored(i, Incoming(s)) /\ UNCHANGED <<unsaved, faults>>
                   \/ /\ w.pc \in {"seen", "accepted"} /\ (w.pc = "seen" => w.msg = sub[s].msg)
                      /\ unsaved' = unsaved \cup {sub[s].msg} /\ UNCHANGED leads
                      /\ Fault \/ UNCHANGED faults
                   \/ /\ w.pc \in {"seen", "accepted"} /\ (w.pc = "seen" => w.msg = sub[s].msg)
                      /\ sub[s].client \in Live(clients) \cup {0} \/ i \in DOMAIN leads
                      /\ leads' = Stored(i, Incoming(s)) /\ UNCHANGED unsaved /\ Fault
<1>1. sub[s].pc = "save" /\ sub[s].pc \in Busy
  BY DEF Save, Busy
<1>2. CASE Go(s, "append")
           /\ (sub[s].client \in Live(clients) \cup {0} \/ i \in DOMAIN leads)
           /\ leads' = Stored(i, Incoming(s)) /\ UNCHANGED <<unsaved, faults>>
  <2>1. PICK w : Becomes(s, w) /\ w.pc = "append" /\ w.msg = sub[s].msg
    BY <1>1, <1>2, GoesOn DEF Busy
  <2>2. QED
    BY <1>2, <2>1
<1>3. CASE /\ sub' = [sub EXCEPT ![s] = Submitted(s)]
           /\ unsaved' = unsaved \cup {sub[s].msg} /\ UNCHANGED leads
           /\ Fault \/ UNCHANGED faults
  <2>1. PICK w : /\ Becomes(s, w) /\ w.pc \in {"seen", "accepted"}
                 /\ w.pc = "seen" => w.msg = sub[s].msg
    BY <1>1, <1>3, IsSubmitted
  <2>2. QED
    BY <1>3, <2>1
<1>4. CASE /\ sub' = [sub EXCEPT ![s] = Submitted(s)]
           /\ (sub[s].client \in Live(clients) \cup {0} \/ i \in DOMAIN leads)
           /\ leads' = Stored(i, Incoming(s)) /\ UNCHANGED unsaved /\ Fault
  <2>1. PICK w : /\ Becomes(s, w) /\ w.pc \in {"seen", "accepted"}
                 /\ w.pc = "seen" => w.msg = sub[s].msg
    BY <1>1, <1>4, IsSubmitted
  <2>2. QED
    BY <1>4, <2>1
<1>5. QED
  BY <1>2, <1>3, <1>4 DEF Save, Incoming

LEMMA AppendMove ==
  ASSUME SubType, LeadIntakeAssumption, NEW s \in Submitters, AppendRow(s), NEW m, m = sub[s].msg
  PROVE  \E w : /\ Becomes(s, w)
                /\ \/ /\ w.pc = "sync" /\ w.msg = m /\ UNCHANGED faults
                      /\ sheet' = [sheet EXCEPT ![m] = @ + 1]
                   \/ /\ w.pc \in {"seen", "accepted"} /\ (w.pc = "seen" => w.msg = m) /\ Fault
                      /\ sheet' \in {sheet, [sheet EXCEPT ![m] = @ + 1]}
<1>1. sub[s].pc = "append" /\ sub[s].pc \in Busy
  BY DEF AppendRow, Busy
<1>2. CASE Go(s, "sync") /\ sheet' = [sheet EXCEPT ![m] = @ + 1] /\ UNCHANGED faults
  <2>1. PICK w : Becomes(s, w) /\ w.pc = "sync" /\ w.msg = sub[s].msg
    BY <1>1, <1>2, GoesOn DEF Busy
  <2>2. QED
    BY <1>2, <2>1
<1>3. CASE /\ sub' = [sub EXCEPT ![s] = Submitted(s)] /\ Fault
           /\ sheet' \in {sheet, [sheet EXCEPT ![m] = @ + 1]}
  <2>1. PICK w : /\ Becomes(s, w) /\ w.pc \in {"seen", "accepted"}
                 /\ w.pc = "seen" => w.msg = sub[s].msg
    BY <1>1, <1>3, IsSubmitted
  <2>2. QED
    BY <1>3, <2>1
<1>4. QED
  BY <1>2, <1>3 DEF AppendRow

LEMMA SyncMove ==
  ASSUME SubType, LeadIntakeAssumption, NEW s \in Submitters, MarkSheetSynced(s)
  PROVE  \E w : /\ Becomes(s, w) /\ w.pc \in {"seen", "accepted"}
                /\ w.pc = "seen" => w.msg = sub[s].msg
BY IsSubmitted DEF MarkSheetSynced, Busy

LeadTable(l) == l \in [DOMAIN l -> LeadRow] /\ IsFiniteSet(DOMAIN l)

LEMMA RowStored ==
  ASSUME NEW l, LeadTable(l), NEW i, NEW row \in LeadRow
  PROVE  /\ LeadTable(WithRow(l, i, row)) /\ DOMAIN WithRow(l, i, row) = DOMAIN l \cup {i}
         /\ \A j \in DOMAIN l \ {i} : WithRow(l, i, row)[j] = l[j]
         /\ WithRow(l, i, row)[i] = row
BY FS_AddElement DEF LeadTable, WithRow

LEMMA NewLead ==
  ASSUME NEW c \in Nat, NEW d \in Days, NEW tg \in Nat, NEW b \in BOOLEAN, NEW row,
         row = [Lead(c, d) EXCEPT !.tg = tg, !.synced = b]
  PROVE  row \in LeadRow /\ row.client = c /\ row.tg = tg /\ row.day = d /\ row.synced = b /\ row.area = Blank
<1>1. PICK x : x = Lead(c, d)
  OBVIOUS
<1>2. x \in LeadRow /\ x.client = c /\ x.day = d /\ x.area = Blank
  BY <1>1 DEF Lead, LeadRow
<1>3. PICK y : y = [x EXCEPT !.tg = tg]
  OBVIOUS
<1>4. y \in LeadRow /\ y.client = c /\ y.day = d /\ y.tg = tg /\ y.area = Blank
  BY <1>2, <1>3 DEF LeadRow
<1>5. row = [y EXCEPT !.synced = b]
  BY <1>1, <1>2, <1>3 DEF LeadRow
<1>6. QED
  BY <1>4, <1>5 DEF LeadRow

\* Leads may come and change: they name who is there.
LEMMA LeadsNamed ==
  ASSUME ReferencesHold, Keeps(clients, clients'), UNCHANGED <<consults, cases, labels, tags, notes>>,
         \A m \in DOMAIN leads' : leads'[m].client \in Live(clients) \cup {0}
  PROVE  ReferencesHold'
<1>1. Live(clients) \subseteq Live(clients') /\ Live(clients)' = Live(clients')
  BY DEF Keeps, Live
<1>2. QED
  BY <1>1 DEF ReferencesHold

LEMMA SameClients ==
  ASSUME BaseTypeOK, UNCHANGED clients
  PROVE  Keeps(clients, clients')
BY DEF BaseTypeOK, Keeps, ClientTable

\* What every step of the leads keeps.
MailType == BaseTypeOK /\ SubType /\ ReferencesHold

LEMMA MailAssumed ==
  ASSUME LeadIntakeAssumption, SubType
  PROVE  /\ Poller \in Submitters /\ Poller \notin Requests /\ Requests \subseteq Submitters
         /\ Mails \subseteq Sources /\ Requests \subseteq Sources /\ Mails \subseteq Nat
         /\ sub \in [Submitters -> Work] /\ inbox \subseteq Mails /\ batch \subseteq inbox
         /\ seen \subseteq Mails /\ LeadTable(leads)
BY DEF LeadIntakeAssumption, Submitters, Sources, SubType, IntakeTypeOK, LeadTable

LEMMA ArriveType ==
  ASSUME MailType, LeadIntakeAssumption, Arrive \/ FetchUnseen, UNCHANGED staff
  PROVE  MailType'
<1>1. /\ UNCHANGED <<seen, group, sheet, sub, again, unsaved, taps, faults, tables, day, notes>>
      /\ inbox \subseteq inbox' /\ inbox' \subseteq Mails
  BY MailAssumed DEF Arrive, FetchUnseen, MailType, staff
<1>2. IsFiniteSet(inbox')
  BY FS_Subset, <1>1 DEF LeadIntakeAssumption
<1>3. batch' \subseteq inbox' /\ batch' \cap seen = {}
  BY <1>1 DEF Arrive, FetchUnseen, MailType, SubType, IntakeTypeOK
<1>4. IntakeTypeOK'
  BY <1>1, <1>2, <1>3 DEF MailType, SubType, IntakeTypeOK, tables
<1>5. \A s \in Submitters : OwnMessage(s)'
  <2>1. FetchUnseen => sub[Poller].pc = "idle"
    BY DEF FetchUnseen
  <2>2. CASE Arrive
    BY <1>1, <2>2 DEF MailType, SubType, OwnMessage, Arrive
  <2>3. CASE FetchUnseen
    BY <1>1, <2>1, <2>3 DEF MailType, SubType, OwnMessage
  <2>4. QED
    BY <2>2, <2>3
<1>6. BaseTypeOK' /\ ReferencesHold'
  BY <1>1 DEF MailType, BaseTypeOK, ReferencesHold, Live, tables
<1>7. QED
  BY <1>1, <1>3, <1>4, <1>5, <1>6 DEF MailType, SubType

LEMMA SubmitType ==
  ASSUME MailType, LeadIntakeAssumption, TakeMail \/ Submit, UNCHANGED staff
  PROVE  MailType'
<1>1. /\ UNCHANGED <<inbox, seen, group, sheet, again, unsaved, taps, faults, tables, day, notes>>
      /\ batch' \subseteq batch
  BY DEF TakeMail, Submit, staff
<1>2. sub' \in [Submitters -> Work] /\ \A t \in Submitters : OwnMessage(t)'
  <2>1. CASE TakeMail
    <3>1. PICK m : m = Min(batch)
      OBVIOUS
    <3>2. m \in batch /\ m \in Mails \ seen
      <4>1. IsFiniteSet(batch)
        BY FS_Subset DEF MailType, SubType, IntakeTypeOK
      <4>2. batch \subseteq Nat /\ batch # {}
        BY <2>1, MailAssumed DEF TakeMail, MailType
      <4>3. QED
        BY <3>1, <4>1, <4>2, LeastIn, MailAssumed DEF MailType, SubType
    <3>3. PICK w : w = Doing("resolve", m, 0, 0)
      OBVIOUS
    <3>4. w \in Work /\ w.msg = m /\ w.pc = "resolve"
      BY <3>2, <3>3 DEF Doing, Work, Sources, LeadIntakeAssumption
    <3>5. sub' = [sub EXCEPT ![Poller] = w] /\ batch' = batch \ {m}
      BY <2>1, <3>1, <3>3 DEF TakeMail
    <3>6. sub' \in [Submitters -> Work] /\ sub'[Poller] = w
      BY <3>4, <3>5, MailAssumed DEF MailType
    <3>7. \A t \in Submitters \ {Poller} : sub'[t] = sub[t]
      BY <3>5, MailAssumed DEF MailType
    <3>8. QED
      BY <1>1, <3>2, <3>4, <3>5, <3>6, <3>7 DEF MailType, SubType, OwnMessage
  <2>2. CASE Submit
    <3>1. PICK r \in Requests :
             sub[r] = Waiting /\ sub' = [sub EXCEPT ![r] = Doing("resolve", r, 0, 0)]
      BY <2>2 DEF Submit
    <3>2. PICK w : w = Doing("resolve", r, 0, 0)
      OBVIOUS
    <3>3. w \in Work /\ w.msg = r /\ w.pc = "resolve"
      BY <3>2 DEF Doing, Work, Sources
    <3>4. sub' = [sub EXCEPT ![r] = w] /\ r \in Submitters /\ r # Poller
      BY <3>1, <3>2, MailAssumed DEF MailType
    <3>5. sub' \in [Submitters -> Work] /\ sub'[r] = w
      BY <3>3, <3>4, MailAssumed DEF MailType
    <3>6. \A t \in Submitters \ {r} : sub'[t] = sub[t]
      BY <3>4, MailAssumed DEF MailType
    <3>7. UNCHANGED <<seen, batch>>
      BY <2>2 DEF Submit
    <3>8. QED
      BY <3>3, <3>4, <3>5, <3>6, <3>7 DEF MailType, SubType, OwnMessage
  <2>3. QED
    BY <2>1, <2>2
<1>3. IntakeTypeOK' /\ batch' \cap seen' = {}
  BY <1>1, <1>2 DEF MailType, SubType, IntakeTypeOK, tables
<1>4. BaseTypeOK' /\ ReferencesHold'
  BY <1>1 DEF MailType, BaseTypeOK, ReferencesHold, Live, tables
<1>5. QED
  BY <1>2, <1>3, <1>4 DEF MailType, SubType

LEMMA ResolveType ==
  ASSUME MailType, LeadIntakeAssumption, NEW s \in Submitters, ResolveClient(s), UNCHANGED staff
  PROVE  MailType'
<1>1. UNCHANGED <<inbox, seen, group, sheet, batch, again, unsaved, taps,
                  leads, consults, cases, labels, tags, day, notes>>
  BY DEF ResolveClient, staff
<1>2. Keeps(clients, clients') /\ faults' \in Nat
  BY ResolveMove DEF MailType
<1>3. PICK w : Becomes(s, w)
  BY ResolveMove DEF MailType
<1>4. sub' \in [Submitters -> Work] /\ \A t \in Submitters : OwnMessage(t)'
  BY <1>1, <1>3, OneMoves DEF MailType, Becomes
<1>5. ReferencesHold' /\ BaseTypeOK'
  <2>1. \A m \in DOMAIN leads' : leads'[m].client \in Live(clients) \cup {0}
    BY <1>1 DEF MailType, ReferencesHold
  <2>2. QED
    BY <1>1, <1>2, <2>1, LeadsNamed DEF MailType, BaseTypeOK, Keeps, ClientTable
<1>6. SubType'
  BY <1>1, <1>2, <1>4 DEF MailType, SubType, IntakeTypeOK
<1>7. QED
  BY <1>5, <1>6 DEF MailType

\* A step that leaves the clients: what it must keep.
LEMMA MailStep ==
  ASSUME MailType, LeadIntakeAssumption, NEW s \in Submitters, NEW w, Becomes(s, w),
         UNCHANGED <<inbox, seen, batch, clients, consults, cases, labels, tags, day, notes>>,
         LeadTable(leads'), \A m \in DOMAIN leads' : leads'[m].client \in Live(clients) \cup {0},
         group' \in Seq(Sources), taps' \in Seq(Areas \cup {Blank}), Len(taps') = Len(group'),
         sheet' \in [Sources -> Nat], again' \in [Sources -> Nat], unsaved' \subseteq Sources,
         faults' \in Nat
  PROVE  MailType'
<1>1. sub' \in [Submitters -> Work] /\ \A t \in Submitters : OwnMessage(t)'
  BY OneMoves DEF MailType, Becomes
<1>2. ReferencesHold'
  BY SameClients, LeadsNamed DEF MailType
<1>3. BaseTypeOK'
  BY DEF MailType, BaseTypeOK
<1>4. inbox \subseteq Mails /\ seen \subseteq Mails /\ batch \subseteq inbox /\ IsFiniteSet(inbox)
      /\ batch \cap seen = {}
  BY DEF MailType, SubType, IntakeTypeOK
<1>5. SubType'
  BY <1>1, <1>4 DEF SubType, IntakeTypeOK, LeadTable
<1>6. QED
  BY <1>2, <1>3, <1>5 DEF MailType

LEMMA MailIs ==
  ASSUME MailType
  PROVE  /\ LeadTable(leads) /\ \A m \in DOMAIN leads : leads[m].client \in Live(clients) \cup {0}
         /\ group \in Seq(Sources) /\ taps \in Seq(Areas \cup {Blank}) /\ Len(taps) = Len(group)
         /\ sheet \in [Sources -> Nat] /\ again \in [Sources -> Nat] /\ unsaved \subseteq Sources
         /\ faults \in Nat /\ (Fault => faults' \in Nat)
BY DEF MailType, SubType, IntakeTypeOK, LeadTable, ReferencesHold, Fault

LEMMA AnnounceType ==
  ASSUME group \in Seq(Sources), taps \in Seq(Areas \cup {Blank}), Len(taps) = Len(group),
         NEW m \in Sources, Announce(m)
  PROVE  /\ group' \in Seq(Sources) /\ taps' \in Seq(Areas \cup {Blank}) /\ Len(taps') = Len(group')
         /\ Len(group') = Len(group) + 1 /\ group'[Len(group) + 1] = m /\ taps'[Len(group) + 1] = Blank
         /\ \A t \in DOMAIN group : group'[t] = group[t] /\ taps'[t] = taps[t]
         /\ DOMAIN group' = DOMAIN group \cup {Len(group) + 1} /\ Len(group) + 1 \notin DOMAIN group
         /\ DOMAIN taps = DOMAIN group /\ DOMAIN taps' = DOMAIN group'
<1>1. group' = Append(group, m) /\ taps' = Append(taps, Blank)
  BY DEF Announce
<1>2. Blank \in Areas \cup {Blank}
  OBVIOUS
<1>3. PICK b : b = Blank
  OBVIOUS
<1>4. taps' = Append(taps, b) /\ b \in Areas \cup {Blank}
  BY <1>1, <1>3
<1>5. /\ group' \in Seq(Sources) /\ Len(group') = Len(group) + 1 /\ group'[Len(group) + 1] = m
      /\ \A t \in 1..Len(group) : group'[t] = group[t]
      /\ Len(group) \in Nat /\ DOMAIN group = 1..Len(group) /\ DOMAIN group' = 1..(Len(group) + 1)
  BY <1>1
<1>6. /\ taps' \in Seq(Areas \cup {Blank}) /\ Len(taps') = Len(taps) + 1 /\ taps'[Len(taps) + 1] = b
      /\ \A t \in 1..Len(taps) : taps'[t] = taps[t]
      /\ DOMAIN taps = 1..Len(taps) /\ DOMAIN taps' = 1..(Len(taps) + 1)
  BY <1>4
<1>7. QED
  BY <1>3, <1>5, <1>6

LEMMA SendType ==
  ASSUME MailType, LeadIntakeAssumption, NEW s \in Submitters, SendMessage(s), UNCHANGED staff
  PROVE  MailType'
<1>1. PICK m \in Sources : m = sub[s].msg
  BY AtWork DEF SendMessage, MailType, Busy
<1>2. UNCHANGED <<inbox, seen, sheet, batch, unsaved, tables, day, notes>>
  BY DEF SendMessage, staff
<1>3. PICK w : /\ Becomes(s, w)
               /\ \/ Announce(m) /\ UNCHANGED <<again, faults>>
                  \/ /\ Fault
                     /\ \/ UNCHANGED <<group, taps, again>>
                        \/ Announce(m) /\ again' = [again EXCEPT ![m] = @ + 1]
  BY <1>1, SendMove DEF MailType
<1>4. group' \in Seq(Sources) /\ taps' \in Seq(Areas \cup {Blank}) /\ Len(taps') = Len(group')
  BY <1>3, MailIs, AnnounceType
<1>5. again \in [Sources -> Nat] /\ faults \in Nat
  BY MailIs
<1>6. faults' \in Nat
  BY <1>3, <1>5 DEF Fault
<1>7. PICK t : t = [again EXCEPT ![m] = @ + 1]
  OBVIOUS
<1>8. t \in [Sources -> Nat]
  BY <1>5, <1>7
<1>9. again' \in {again, t}
  BY <1>3, <1>7
<1>10. again' \in [Sources -> Nat]
  BY <1>5, <1>8, <1>9
<1>11. QED
  BY <1>2, <1>3, <1>4, <1>6, <1>10, MailIs, MailStep DEF tables

LEMMA IncomingLead ==
  ASSUME MailType, NEW s \in Submitters, sub[s] \in Work, NEW row, row = Incoming(s)
  PROVE  /\ row \in LeadRow /\ row.client = sub[s].client /\ row.tg = sub[s].tg
         /\ row.area = Blank /\ ~row.synced
<1>1. sub[s].client \in Nat /\ sub[s].tg \in Nat /\ day \in Days
  BY DEF Work, MailType, BaseTypeOK
<1>2. PICK x : x = Lead(sub[s].client, day)
  OBVIOUS
<1>3. /\ x \in LeadRow /\ x.client = sub[s].client /\ x.area = Blank /\ x.synced = FALSE
      /\ row = [x EXCEPT !.tg = sub[s].tg]
  BY <1>1, <1>2 DEF Lead, LeadRow, Incoming
<1>4. QED
  BY <1>1, <1>3 DEF LeadRow

\* A table that is the leads with one more at most.
WithLeadAt(t, i, row) == t = Stored(i, row)

LeadAdded(t, i) == DOMAIN t = DOMAIN leads \cup {i} /\ \A j \in DOMAIN leads : t[j] = leads[j]

LEMMA StoredRow ==
  ASSUME LeadTable(leads), NEW i, NEW row \in LeadRow, NEW t, WithLeadAt(t, i, row)
  PROVE  LeadTable(t) /\ LeadAdded(t, i) /\ (i \notin DOMAIN leads => t[i] = row)
<1>1. CASE i \in DOMAIN leads
  BY <1>1 DEF Stored, WithLeadAt, LeadAdded
<1>2. CASE i \notin DOMAIN leads
  <2>1. t = WithRow(leads, i, row)
    BY <1>2 DEF Stored, WithLeadAt
  <2>2. LeadTable(WithRow(leads, i, row))
    BY ONLY LeadTable(leads), row \in LeadRow, RowStored
  <2>3. DOMAIN WithRow(leads, i, row) = DOMAIN leads \cup {i}
    BY DEF WithRow
  <2>4. WithRow(leads, i, row)[i] = row
    BY DEF WithRow
  <2>5. \A j \in DOMAIN leads : WithRow(leads, i, row)[j] = leads[j]
    BY <1>2 DEF WithRow
  <2>6. QED
    BY <1>2, <2>1, <2>2, <2>3, <2>4, <2>5 DEF LeadAdded
<1>3. QED
  BY <1>1, <1>2

LEMMA SaveType ==
  ASSUME MailType, LeadIntakeAssumption, NEW s \in Submitters, Save(s), UNCHANGED staff
  PROVE  MailType'
<1>1. PICK i : i = IdOfLead[sub[s].msg]
  OBVIOUS
<1>2. /\ sub[s] \in Work /\ sub[s].msg \in Sources
      /\ UNCHANGED <<inbox, seen, group, sheet, batch, again, taps,
                     clients, consults, cases, labels, tags, day, notes>>
  BY AtWork DEF Save, staff, MailType, Busy
<1>3. PICK w : /\ Becomes(s, w)
               /\ \/ /\ sub[s].client \in Live(clients) \cup {0} \/ i \in DOMAIN leads
                     /\ leads' = Stored(i, Incoming(s)) /\ UNCHANGED unsaved
                  \/ unsaved' = unsaved \cup {sub[s].msg} /\ UNCHANGED leads
               /\ Fault \/ UNCHANGED faults
  BY <1>1, SaveMove DEF MailType
<1>4. LeadTable(leads') /\ \A m \in DOMAIN leads' : leads'[m].client \in Live(clients) \cup {0}
  <2>1. CASE UNCHANGED leads
    BY <2>1, MailIs
  <2>2. CASE /\ sub[s].client \in Live(clients) \cup {0} \/ i \in DOMAIN leads
             /\ leads' = Stored(i, Incoming(s))
    <3>1. PICK row : row = Incoming(s)
      OBVIOUS
    <3>2. row \in LeadRow /\ row.client = sub[s].client
      BY <1>2, <3>1, IncomingLead
    <3>3. PICK t : t = Stored(i, row)
      OBVIOUS
    <3>4. LeadTable(leads) /\ WithLeadAt(t, i, row)
      BY <3>3, MailIs DEF WithLeadAt
    <3>5. LeadTable(t)
      BY <3>2, <3>4, StoredRow
    <3>6. LeadAdded(t, i)
      BY <3>2, <3>4, StoredRow
    <3>7. i \notin DOMAIN leads => t[i] = row
      BY <3>2, <3>4, StoredRow
    <3>8. leads' = t
      BY <2>2, <3>1, <3>3
    <3>9. QED
      BY <2>2, <3>2, <3>5, <3>6, <3>7, <3>8, MailIs DEF LeadAdded
  <2>3. QED
    BY <1>3, <2>1, <2>2
<1>5. faults' \in Nat /\ unsaved' \subseteq Sources
  BY <1>2, <1>3, MailIs
<1>6. QED
  BY <1>2, <1>3, <1>4, <1>5, MailIs, MailStep

LEMMA AppendType ==
  ASSUME MailType, LeadIntakeAssumption, NEW s \in Submitters, AppendRow(s), UNCHANGED staff
  PROVE  MailType'
<1>1. PICK m \in Sources : m = sub[s].msg
  BY AtWork DEF AppendRow, MailType, Busy
<1>2. UNCHANGED <<inbox, seen, group, batch, again, unsaved, taps, tables, day, notes>>
  BY DEF AppendRow, staff
<1>3. PICK t : t = [sheet EXCEPT ![m] = @ + 1]
  OBVIOUS
<1>4. PICK w : Becomes(s, w) /\ sheet' \in {sheet, t} /\ (Fault \/ UNCHANGED faults)
  BY <1>1, <1>3, AppendMove DEF MailType
<1>5. sheet \in [Sources -> Nat] /\ faults \in Nat
  BY MailIs
<1>6. t \in [Sources -> Nat]
  BY <1>3, <1>5
<1>7. sheet' \in [Sources -> Nat] /\ faults' \in Nat
  BY <1>4, <1>5, <1>6 DEF Fault
<1>8. QED
  BY <1>2, <1>4, <1>7, MailIs, MailStep DEF tables

Synced(l, i) == [l EXCEPT ![i].synced = TRUE]

LEMMA SyncedLeads ==
  ASSUME NEW l, LeadTable(l), NEW i, NEW k, k = Synced(l, i)
  PROVE  /\ LeadTable(k) /\ DOMAIN k = DOMAIN l
         /\ \A m \in DOMAIN l : /\ k[m].client = l[m].client /\ k[m].tg = l[m].tg
                                /\ k[m].area = l[m].area
                                /\ m # i => k[m] = l[m]
<1>1. DOMAIN k = DOMAIN l /\ \A m \in DOMAIN l : m # i => k[m] = l[m]
  BY DEF LeadTable, Synced
<1>2. ASSUME i \in DOMAIN l
      PROVE  k[i] = [l[i] EXCEPT !.synced = TRUE]
  BY <1>2 DEF LeadTable, Synced
<1>3. ASSUME NEW m \in DOMAIN l
      PROVE  /\ k[m] \in LeadRow /\ k[m].client = l[m].client /\ k[m].tg = l[m].tg
             /\ k[m].area = l[m].area
  <2>1. PICK x \in LeadRow : x = l[m]
    BY DEF LeadTable
  <2>2. PICK y : y = [x EXCEPT !.synced = TRUE]
    OBVIOUS
  <2>3. y \in LeadRow /\ y.client = x.client /\ y.tg = x.tg /\ y.area = x.area
    BY <2>2 DEF LeadRow
  <2>4. k[m] \in {x, y}
    BY <1>1, <1>2, <2>1, <2>2
  <2>5. QED
    BY <2>1, <2>3, <2>4
<1>4. \A m \in DOMAIN l : /\ k[m] \in LeadRow /\ k[m].client = l[m].client /\ k[m].tg = l[m].tg
                          /\ k[m].area = l[m].area
  BY <1>3
<1>5. k = [m \in DOMAIN l |-> k[m]]
  BY DEF LeadTable, Synced
<1>6. QED
  BY <1>1, <1>4, <1>5 DEF LeadTable

LEMMA SyncType ==
  ASSUME MailType, LeadIntakeAssumption, NEW s \in Submitters, MarkSheetSynced(s), UNCHANGED staff
  PROVE  MailType'
<1>1. UNCHANGED <<inbox, seen, group, sheet, batch, again, unsaved, taps,
                  clients, consults, cases, labels, tags, day, notes>>
  BY DEF MarkSheetSynced, staff
<1>2. PICK w : Becomes(s, w)
  BY SyncMove DEF MailType
<1>3. LeadTable(leads') /\ \A m \in DOMAIN leads' : leads'[m].client \in Live(clients) \cup {0}
  <2>1. PICK k : k = Synced(leads, IdOfLead[sub[s].msg])
    OBVIOUS
  <2>2. LeadTable(k) /\ DOMAIN k = DOMAIN leads /\ \A m \in DOMAIN leads : k[m].client = leads[m].client
    BY <2>1, MailIs, SyncedLeads
  <2>3. leads' \in {leads, k}
    BY <2>1 DEF MarkSheetSynced, Synced
  <2>4. QED
    BY <2>2, <2>3, MailIs
<1>4. faults' \in Nat
  BY MailIs DEF MarkSheetSynced
<1>5. QED
  BY <1>1, <1>2, <1>3, <1>4, MailIs, MailStep

LEMMA SeenType ==
  ASSUME MailType, LeadIntakeAssumption, MarkSeen, UNCHANGED staff
  PROVE  MailType'
<1> DEFINE m == sub[Poller].msg
<1>1. /\ sub[Poller].pc = "seen" /\ sub' = [sub EXCEPT ![Poller] = Waiting]
      /\ UNCHANGED <<inbox, group, sheet, batch, unsaved, taps, tables, day, notes>>
  BY DEF MarkSeen, staff
<1>2. Poller \in Submitters /\ sub \in [Submitters -> Work] /\ Mails \subseteq Sources
  BY MailAssumed DEF MailType
<1>3. m \in Mails \ (seen \cup batch) /\ m \in Sources
  BY <1>1, <1>2, SentFrom DEF MailType
<1>4. PICK w : w = Waiting
  OBVIOUS
<1>5. w \in Work /\ w.pc = "idle"
  BY <1>4 DEF Waiting, Doing, Work
<1>6. sub' \in [Submitters -> Work] /\ sub'[Poller] = w /\ \A t \in Submitters \ {Poller} : sub'[t] = sub[t]
  BY <1>1, <1>2, <1>4, <1>5
<1>7. \A t \in Submitters : OwnMessage(t)'
  BY <1>5, <1>6 DEF OwnMessage, MailType, SubType
<1>8. again' \in [Sources -> Nat] /\ faults' \in Nat /\ seen' \subseteq seen \cup {m}
  BY <1>3, MailIs DEF MarkSeen
<1>9. batch' \cap seen' = {} /\ seen' \subseteq Mails
  BY <1>1, <1>3, <1>8, MailAssumed DEF MailType, SubType
<1>10. IntakeTypeOK'
  BY <1>1, <1>6, <1>8, <1>9 DEF MailType, SubType, IntakeTypeOK, tables
<1>11. BaseTypeOK' /\ ReferencesHold'
  BY <1>1 DEF MailType, BaseTypeOK, ReferencesHold, Live, tables
<1>12. QED
  BY <1>7, <1>9, <1>10, <1>11 DEF MailType, SubType

LEMMA FiniteSubmitters ==
  ASSUME IsFiniteSet(Requests)
  PROVE  IsFiniteSet(Submitters)
BY FS_AddElement DEF Submitters

\* What a death leaves of a submission.
Forgotten(s) == IF sub[s].pc \in {"idle", "accepted", "refused"} THEN sub[s] ELSE Ended(s, "refused")

LEMMA CrashType ==
  ASSUME MailType, LeadIntakeAssumption, Crash, UNCHANGED staff
  PROVE  MailType'
<1>1. /\ batch' = {} /\ faults' \in Nat
      /\ UNCHANGED <<inbox, seen, group, sheet, unsaved, taps, tables, day, notes>>
      /\ sub' = [s \in Submitters |-> Forgotten(s)]
      /\ again' = [m \in Sources |->
                      again[m] + Cardinality({s \in Submitters : Told(s) /\ sub[s].msg = m})]
  BY MailIs DEF Crash, staff, Forgotten
<1>2. ASSUME NEW s \in Submitters
      PROVE  Forgotten(s) \in Work /\ OwnMessage(s)'
  <2>1. sub'[s] = Forgotten(s)
    BY <1>1
  <2>2. CASE sub[s].pc \in {"idle", "accepted", "refused"}
    <3>1. sub'[s] = sub[s] /\ sub[s] \in Work /\ OwnMessage(s)
      BY <2>1, <2>2, MailAssumed DEF MailType, SubType, Forgotten
    <3>2. QED
      BY <1>1, <2>1, <3>1 DEF OwnMessage
  <2>3. CASE sub[s].pc \notin {"idle", "accepted", "refused"}
    <3>1. PICK w : w = Ended(s, "refused")
      OBVIOUS
    <3>2. Onward(s, w)
      BY <3>1, EndedOnward DEF Answers
    <3>3. w \in Work /\ (s = Poller => w.pc = "idle") /\ (s # Poller => w.pc = "refused" /\ w.msg = s)
      <4>1. CASE s = Poller
        <5>1. w = Waiting
          BY <3>1, <4>1 DEF Ended
        <5>2. Waiting.pc = "idle"
          BY DEF Waiting, Doing
        <5>3. QED
          BY <3>2, <4>1, <5>1, <5>2 DEF Onward
      <4>2. CASE s # Poller
        <5>1. w = Doing("refused", s, 0, 0)
          BY <3>1, <4>2 DEF Ended
        <5>2. w.pc = "refused" /\ w.msg = s
          BY <5>1 DEF Doing
        <5>3. QED
          BY <3>2, <4>2, <5>2 DEF Onward
      <4>3. QED
        BY <4>1, <4>2
    <3>4. sub'[s] = w
      BY <2>1, <2>3, <3>1 DEF Forgotten
    <3>5. QED
      BY <2>1, <3>3, <3>4 DEF OwnMessage
  <2>4. QED
    BY <2>2, <2>3
<1>3. sub' \in [Submitters -> Work]
  BY <1>1, <1>2
<1>4. again' \in [Sources -> Nat]
  <2>1. IsFiniteSet(Submitters)
    BY FiniteSubmitters DEF LeadIntakeAssumption
  <2>2. ASSUME NEW m \in Sources
        PROVE  again[m] + Cardinality({s \in Submitters : Told(s) /\ sub[s].msg = m}) \in Nat
    <3>1. PICK S : S = {s \in Submitters : Told(s) /\ sub[s].msg = m}
      OBVIOUS
    <3>2. Cardinality(S) \in Nat
      BY <2>1, <3>1, FS_Subset, FS_CardinalityType
    <3>3. again[m] \in Nat
      BY MailIs
    <3>4. QED
      BY <3>1, <3>2, <3>3
  <2>3. QED
    BY <1>1, <2>2
<1>5. IntakeTypeOK' /\ batch' \cap seen' = {}
  BY <1>1, <1>3, <1>4 DEF MailType, SubType, IntakeTypeOK, tables
<1>6. BaseTypeOK' /\ ReferencesHold'
  BY <1>1 DEF MailType, BaseTypeOK, ReferencesHold, Live, tables
<1>7. QED
  BY <1>2, <1>5, <1>6 DEF MailType, SubType

\* A tap that finds its lead.
Tapped(l, S, a) == [i \in DOMAIN l |-> IF i \in S THEN [l[i] EXCEPT !.area = a] ELSE l[i]]

LEMMA TappedLeads ==
  ASSUME NEW l, LeadTable(l), NEW S, NEW a \in Areas, NEW k, k = Tapped(l, S, a)
  PROVE  /\ LeadTable(k) /\ DOMAIN k = DOMAIN l
         /\ \A i \in DOMAIN l : /\ k[i].client = l[i].client /\ k[i].tg = l[i].tg
                                /\ k[i].synced = l[i].synced
                                /\ k[i].area = IF i \in S THEN a ELSE l[i].area
<1>1. k = [i \in DOMAIN l |-> k[i]] /\ DOMAIN k = DOMAIN l
  BY DEF Tapped
<1>2. \A i \in DOMAIN l : k[i] = IF i \in S THEN [l[i] EXCEPT !.area = a] ELSE l[i]
  BY DEF Tapped
<1>3. ASSUME NEW i \in DOMAIN l
      PROVE  /\ k[i] \in LeadRow /\ k[i].client = l[i].client /\ k[i].tg = l[i].tg
             /\ k[i].synced = l[i].synced
             /\ k[i].area = IF i \in S THEN a ELSE l[i].area
  <2>1. PICK x \in LeadRow : x = l[i]
    BY DEF LeadTable
  <2>2. PICK y : y = [x EXCEPT !.area = a]
    OBVIOUS
  <2>3. /\ y \in LeadRow /\ y.client = x.client /\ y.tg = x.tg
        /\ y.synced = x.synced /\ y.area = a
    BY <2>2 DEF LeadRow
  <2>4. k[i] = IF i \in S THEN y ELSE x
    BY <1>2, <2>1, <2>2
  <2>5. QED
    BY <2>1, <2>3, <2>4
<1>4. QED
  BY <1>1, <1>3 DEF LeadTable

LEMMA TapType ==
  ASSUME MailType, SetPracticeArea
  PROVE  MailType'
<1>1. /\ UNCHANGED <<inbox, seen, group, sheet, batch, sub, again, unsaved, faults,
                     clients, consults, cases, labels, tags, day, notes>>
  BY DEF SetPracticeArea, StaffStep
<1>2. PICK tg \in DOMAIN group, a \in Areas :
         IF AnnouncedAs(tg) = {} THEN UNCHANGED <<leads, taps>>
         ELSE leads' = Tapped(leads, AnnouncedAs(tg), a) /\ taps' = [taps EXCEPT ![tg] = a]
  BY DEF SetPracticeArea, Tapped
<1>3. /\ LeadTable(leads') /\ \A m \in DOMAIN leads' : leads'[m].client \in Live(clients) \cup {0}
      /\ taps' \in Seq(Areas \cup {Blank}) /\ Len(taps') = Len(group)
  <2>1. CASE AnnouncedAs(tg) = {}
    BY <1>2, <2>1, MailIs
  <2>2. CASE AnnouncedAs(tg) # {}
    <3>1. PICK k : k = Tapped(leads, AnnouncedAs(tg), a)
      OBVIOUS
    <3>2. LeadTable(k) /\ DOMAIN k = DOMAIN leads /\ \A m \in DOMAIN leads : k[m].client = leads[m].client
      BY <3>1, MailIs, TappedLeads
    <3>3. taps' = [taps EXCEPT ![tg] = a] /\ leads' = k
      BY <1>2, <2>2, <3>1
    <3>4. taps' \in Seq(Areas \cup {Blank}) /\ Len(taps') = Len(group)
      <4>1. taps \in Seq(Areas \cup {Blank}) /\ Len(taps) = Len(group)
        BY MailIs
      <4>2. a \in Areas \cup {Blank}
        OBVIOUS
      <4>3. QED
        BY <3>3, <4>1, <4>2
    <3>5. QED
      BY <3>2, <3>3, <3>4, MailIs
  <2>3. QED
    BY <2>1, <2>2
<1>4. SubType'
  BY <1>1, <1>3 DEF MailType, SubType, IntakeTypeOK, OwnMessage, LeadTable
<1>5. BaseTypeOK' /\ ReferencesHold'
  BY <1>1, <1>3, SameClients, LeadsNamed DEF MailType, BaseTypeOK
<1>6. QED
  BY <1>4, <1>5 DEF MailType

LEMMA MailNext ==
  ASSUME MailType, LeadIntakeAssumption, Arrival
  PROVE  MailType'
<1>1. CASE SetPracticeArea
  BY <1>1, TapType
<1>2. CASE IntakeNext /\ UNCHANGED staff
  <2>1. CASE Arrive \/ FetchUnseen
    BY <1>2, <2>1, ArriveType
  <2>2. CASE Submit \/ TakeMail
    BY <1>2, <2>2, SubmitType
  <2>3. CASE MarkSeen
    BY <1>2, <2>3, SeenType
  <2>4. CASE Crash
    BY <1>2, <2>4, CrashType
  <2>5. ASSUME NEW s \in Submitters,
               \/ ResolveClient(s) \/ SendMessage(s) \/ Save(s) \/ AppendRow(s) \/ MarkSheetSynced(s)
        PROVE  MailType'
    BY <1>2, <2>5, ResolveType, SendType, SaveType, AppendType, SyncType
  <2>6. QED
    BY <1>2, <2>1, <2>2, <2>3, <2>4, <2>5 DEF IntakeNext, PollStep, Submitters
<1>3. QED
  BY <1>1, <1>2 DEF Arrival

-----------------------------------------------------------------------------
(* The importers. *)

\* What a transaction has come to: nobody is gone, everything refers to somebody
\* who is there, and the leads there were are as they were.
GoodBase(b) ==
    /\ b = [clients |-> b.clients, leads |-> b.leads, consults |-> b.consults, cases |-> b.cases]
    /\ Keeps(clients, b.clients) /\ LeadTable(b.leads)
    /\ b.consults \in Seq(ConsultationRow) /\ b.cases \in Seq(CaseRecord)
    /\ \A m \in DOMAIN b.leads : b.leads[m].client \in Live(b.clients) \cup {0}
    /\ \A i \in DOMAIN b.consults : b.consults[i].client \in Live(b.clients)
    /\ \A i \in DOMAIN b.cases : b.cases[i].client \in Live(b.clients)
    /\ DOMAIN leads \subseteq DOMAIN b.leads
    /\ \A m \in DOMAIN b.leads :
          IF m \in DOMAIN leads THEN b.leads[m] = leads[m] ELSE b.leads[m].tg = 0

LEMMA BaseGood ==
  ASSUME BaseTypeOK, LeadTable(leads), ReferencesHold
  PROVE  GoodBase(Base)
<1>1. PICK b : b = Base
  OBVIOUS
<1>2. /\ b = [clients |-> clients, leads |-> leads, consults |-> consults, cases |-> cases]
      /\ b.clients = clients /\ b.leads = leads /\ b.consults = consults /\ b.cases = cases
  BY <1>1 DEF Base
<1>3. Keeps(clients, clients)
  BY DEF Keeps, BaseTypeOK, ClientTable
<1>4. GoodBase(b)
  BY <1>2, <1>3 DEF GoodBase, BaseTypeOK, ReferencesHold
<1>5. QED
  BY <1>1, <1>4

LEMMA LeastOfTwo ==
  ASSUME NEW a \in Days, NEW d \in Days, LastDay \in Nat
  PROVE  /\ Min({a, d}) \in {a, d} /\ Min({a, d}) \in Days
         /\ Max({a, d}) \in {a, d} /\ Max({a, d}) \in Days
<1>1. a \in Int /\ d \in Int
  BY DEF Days
<1>2. \E x \in {a, d} : \A y \in {a, d} : x <= y
  BY <1>1
<1>3. \E x \in {a, d} : \A y \in {a, d} : x >= y
  BY <1>1
<1>4. QED
  BY <1>2, <1>3 DEF Min, Max

LEMMA Spanned ==
  ASSUME NEW r \in ClientRow, NEW d \in Days, LastDay \in Nat
  PROVE  /\ Spanning(r, d) \in ClientRow
         /\ Spanning(r, d).gone = r.gone /\ Spanning(r, d).phone = r.phone
<1>1. r.first \in Days /\ r.last \in Days
  BY DEF ClientRow
<1>2. PICK f, l : f = Min({r.first, d}) /\ l = Max({r.last, d})
  OBVIOUS
<1>3. f \in Days /\ l \in Days
  BY <1>1, <1>2, LeastOfTwo
<1>4. PICK y : y = [r EXCEPT !.first = f]
  OBVIOUS
<1>5. y \in ClientRow /\ y.gone = r.gone /\ y.phone = r.phone
  BY <1>3, <1>4 DEF ClientRow
<1>6. PICK x : x = [y EXCEPT !.last = l]
  OBVIOUS
<1>7. x \in ClientRow /\ x.gone = r.gone /\ x.phone = r.phone
  BY <1>3, <1>5, <1>6 DEF ClientRow
<1>8. Spanning(r, d) = x
  BY <1>2, <1>4, <1>6 DEF Spanning, ClientRow
<1>9. QED
  BY <1>7, <1>8

LEMMA AnchoredKeeps ==
  ASSUME NEW t \in ClientTable, NEW p \in Phones, NEW d \in Days, LastDay \in Nat,
         NEW u, u = Anchored(t, p, d)
  PROVE  Keeps(t, u) /\ IdOf(u, p) \in Live(u) /\ IdOf(u, p) \in Nat
<1>1. CASE With(t, p) = {}
  <2>1. PICK x : x = Client(p, d)
    OBVIOUS
  <2>2. x \in ClientRow /\ ~x.gone /\ x.phone = p
    BY <2>1, NewRow DEF Client
  <2>3. u = Append(t, x)
    BY <1>1, <2>1 DEF Anchored
  <2>4. Keeps(t, u) /\ Len(t) + 1 \in Live(u)
    BY <2>2, <2>3, OneMore
  <2>5. u[Len(t) + 1].phone = p
    BY <2>2, <2>3 DEF ClientTable
  <2>6. With(u, p) # {}
    BY <2>4, <2>5 DEF With
  <2>7. IdOf(u, p) \in Live(u)
    BY <2>6, FoundLive
  <2>8. QED
    BY <2>4, <2>7 DEF Live, Keeps, ClientTable
<1>2. CASE With(t, p) # {}
  <2>1. PICK c : c = IdOf(t, p)
    OBVIOUS
  <2>2. c \in Live(t) /\ t[c].phone = p
    BY <1>2, <2>1, FoundLive
  <2>3. c \in DOMAIN t /\ t[c] \in ClientRow
    BY <2>2 DEF Live, ClientTable
  <2>4. PICK r \in ClientRow : r = t[c]
    BY <2>3
  <2>5. PICK x : x = Spanning(r, d)
    OBVIOUS
  <2>8. x \in ClientRow /\ x.gone = r.gone /\ x.phone = r.phone
    BY <2>5, Spanned
  <2>9. u = [t EXCEPT ![c] = x]
    BY <1>2, <2>1, <2>4, <2>5 DEF Anchored
  <2>10. Keeps(t, u)
    <3>1. x.gone = t[c].gone
      BY <2>4, <2>8
    <3>2. Keeps(t, [t EXCEPT ![c] = x])
      BY <2>8, <3>1, OneChanged
    <3>3. QED
      BY <2>9, <3>2
  <2>11. c \in Live(u) /\ u[c].phone = p
    BY <2>2, <2>3, <2>4, <2>8, <2>9, <2>10 DEF Keeps, ClientTable
  <2>12. With(u, p) # {}
    BY <2>11 DEF With
  <2>13. IdOf(u, p) \in Live(u)
    BY <2>12, FoundLive
  <2>14. QED
    BY <2>10, <2>13 DEF Live, Keeps, ClientTable
<1>3. QED
  BY <1>1, <1>2

LEMMA KeepsOn ==
  ASSUME NEW t, NEW u, NEW v, Keeps(t, u), Keeps(u, v)
  PROVE  Keeps(t, v)
BY DEF Keeps

\* The client found or added first.
LEMMA KnownGood ==
  ASSUME NEW b, GoodBase(b), NEW p \in Phones, NEW d \in Days, LastDay \in Nat,
         NEW k, k = [b EXCEPT !.clients = Anchored(@, p, d)]
  PROVE  GoodBase(k) /\ IdOf(k.clients, p) \in Live(k.clients) /\ IdOf(k.clients, p) \in Nat
<1>1. PICK u : u = Anchored(b.clients, p, d)
  OBVIOUS
<1>2. b.clients \in ClientTable
  BY DEF GoodBase, Keeps
<1>3. Keeps(b.clients, u) /\ IdOf(u, p) \in Live(u) /\ IdOf(u, p) \in Nat
  BY <1>1, <1>2, AnchoredKeeps
<1>4. k = [clients |-> u, leads |-> b.leads, consults |-> b.consults, cases |-> b.cases]
  BY <1>1 DEF GoodBase
<1>5. k.clients = u /\ k.leads = b.leads /\ k.consults = b.consults /\ k.cases = b.cases
  BY <1>4
<1>6. Keeps(clients, u) /\ Live(b.clients) \subseteq Live(u)
  BY <1>3, KeepsOn DEF GoodBase, Keeps
<1>7. GoodBase(k)
  BY <1>4, <1>5, <1>6 DEF GoodBase
<1>8. QED
  BY <1>3, <1>5, <1>7

LEMMA StatusKnown ==
  ASSUME NEW raw
  PROVE  StatusOf(raw) \in Statuses
BY DEF StatusOf, Statuses

LEMMA LeadGood ==
  ASSUME NEW b, GoodBase(b), NEW n, NEW r \in TabRow, r.date # NoDate,
         IdOf(b.clients, r.phone) \in Live(b.clients), IdOf(b.clients, r.phone) \in Nat,
         NEW k, k = [b EXCEPT !.leads = WithLead(b, n, r)]
  PROVE  GoodBase(k) /\ k.clients = b.clients
<1>1. PICK l : l = WithLead(b, n, r)
  OBVIOUS
<1>2. k = [clients |-> b.clients, leads |-> l, consults |-> b.consults, cases |-> b.cases]
  BY <1>1 DEF GoodBase
<1>3. k.clients = b.clients /\ k.leads = l /\ k.consults = b.consults /\ k.cases = b.cases
  BY <1>2
<1>4. /\ LeadTable(l)
      /\ \A m \in DOMAIN l : l[m].client \in Live(b.clients) \cup {0}
      /\ DOMAIN leads \subseteq DOMAIN l
      /\ \A m \in DOMAIN l : IF m \in DOMAIN leads THEN l[m] = leads[m] ELSE l[m].tg = 0
  <2>1. CASE <<"55k", n>> \in DOMAIN b.leads
    <3>1. l = b.leads
      BY <1>1, <2>1 DEF WithLead
    <3>2. QED
      BY <3>1 DEF GoodBase
  <2>2. CASE <<"55k", n>> \notin DOMAIN b.leads
    <3>1. PICK c \in Nat : c = IdOf(b.clients, r.phone)
      OBVIOUS
    <3>2. r.date \in Days
      BY DEF TabRow
    <3>3. PICK x : x = Lead(c, r.date)
      OBVIOUS
    <3>4. x \in LeadRow /\ x.client = c /\ x.tg = 0
      BY <3>2, <3>3 DEF Lead, LeadRow
    <3>5. PICK row : row = [x EXCEPT !.synced = TRUE]
      OBVIOUS
    <3>6. row \in LeadRow /\ row.client = c /\ row.tg = 0
      BY <3>4, <3>5 DEF LeadRow
    <3>7. PICK i : i = <<"55k", n>>
      OBVIOUS
    <3>8. l = WithRow(b.leads, i, row)
      BY <1>1, <2>2, <3>1, <3>3, <3>5, <3>7 DEF WithLead
    <3>9. PICK old : old = b.leads
      OBVIOUS
    <3>10. LeadTable(old) /\ l = WithRow(old, i, row)
      BY <3>8, <3>9 DEF GoodBase
    <3>11. LeadTable(l) /\ DOMAIN l = DOMAIN old \cup {i}
      BY <3>6, <3>10, RowStored
    <3>12. l[i] = row /\ \A j \in DOMAIN old \ {i} : l[j] = old[j]
      BY <3>10 DEF WithRow
    <3>13. /\ i \notin DOMAIN old /\ DOMAIN leads \subseteq DOMAIN old
           /\ \A m \in DOMAIN old : old[m].client \in Live(b.clients) \cup {0}
           /\ \A m \in DOMAIN old : IF m \in DOMAIN leads THEN old[m] = leads[m] ELSE old[m].tg = 0
      BY <2>2, <3>7, <3>9 DEF GoodBase
    <3>14. c \in Live(b.clients)
      BY <3>1
    <3>15. QED
      BY <3>6, <3>11, <3>12, <3>13, <3>14
  <2>3. QED
    BY <2>1, <2>2
<1>5. QED
  BY <1>2, <1>3, <1>4 DEF GoodBase

LEMMA ConsultationGood ==
  ASSUME NEW b, GoodBase(b), NEW r \in TabRow, r.date # NoDate,
         IdOf(b.clients, r.phone) \in Live(b.clients), IdOf(b.clients, r.phone) \in Nat,
         NEW k \in WithConsultation(b, r)
  PROVE  GoodBase(k)
<1> DEFINE at == ConsultationTime(r)
<1>1. PICK c \in Nat : c = IdOf(b.clients, r.phone)
  OBVIOUS
<1>2. PICK new : new = Consultation(c, at, r.amount, StatusOf(r.status), r.date, "import")
  OBVIOUS
<1>3. new \in ConsultationRow /\ new.client = c /\ new.status \in Statuses
  <2>1. r.date \in Days /\ at \in Days /\ r.amount \in Nat
    BY DEF TabRow, ConsultationTime
  <2>2. PICK s \in Statuses : s = StatusOf(r.status)
    BY StatusKnown
  <2>3. new = Consultation(c, at, r.amount, s, r.date, "import")
    BY <1>2, <2>2
  <2>4. QED
    BY <2>1, <2>2, <2>3 DEF Consultation, ConsultationRow
<1>4. PICK old : old = b.consults
  OBVIOUS
<1>5. old \in Seq(ConsultationRow) /\ \A i \in DOMAIN old : old[i].client \in Live(b.clients)
  BY <1>4 DEF GoodBase
<1>6. \/ k = b
      \/ k = [b EXCEPT !.consults = Append(@, new)]
      \/ \E i \in DOMAIN old : k = [b EXCEPT !.consults[i].status = new.status]
  <2>1. CASE r.status = Blank
    BY <2>1 DEF WithConsultation
  <2>2. CASE r.status # Blank /\ There(b, c, at) = {}
    BY <1>1, <1>2, <2>2 DEF WithConsultation
  <2>3. CASE r.status # Blank /\ There(b, c, at) # {}
    <3>1. There(b, c, at) \subseteq DOMAIN old
      BY <1>4 DEF There
    <3>2. k \in {[b EXCEPT !.consults[i].status = new.status] : i \in There(b, c, at)}
      BY <1>1, <1>2, <2>3 DEF WithConsultation
    <3>3. QED
      BY <3>1, <3>2
  <2>4. QED
    BY <2>1, <2>2, <2>3
<1>7. CASE k = b
  BY <1>7
<1>8. ASSUME NEW q \in Seq(ConsultationRow),
             \A i \in DOMAIN q : q[i].client \in Live(b.clients),
             k = [b EXCEPT !.consults = q]
      PROVE  GoodBase(k)
  <2>1. k = [clients |-> b.clients, leads |-> b.leads, consults |-> q, cases |-> b.cases]
    BY <1>8 DEF GoodBase
  <2>2. k.clients = b.clients /\ k.leads = b.leads /\ k.consults = q /\ k.cases = b.cases
    BY <2>1
  <2>3. QED
    BY <1>8, <2>1, <2>2 DEF GoodBase
<1>9. CASE k = [b EXCEPT !.consults = Append(@, new)]
  <2>1. PICK q : q = Append(old, new)
    OBVIOUS
  <2>2. q \in Seq(ConsultationRow) /\ \A i \in DOMAIN q : q[i].client \in Live(b.clients)
    BY <1>1, <1>3, <1>5, <2>1
  <2>3. k = [b EXCEPT !.consults = q]
    BY <1>4, <1>9, <2>1
  <2>4. QED
    BY <1>8, <2>2, <2>3
<1>10. CASE \E i \in DOMAIN old : k = [b EXCEPT !.consults[i].status = new.status]
  <2>1. PICK i \in DOMAIN old : k = [b EXCEPT !.consults[i].status = new.status]
    BY <1>10
  <2>2. PICK x : x = [old[i] EXCEPT !.status = new.status]
    OBVIOUS
  <2>3. x \in ConsultationRow /\ x.client = old[i].client
    <3>1. PICK y \in ConsultationRow : y = old[i]
      BY <1>5
    <3>2. x = [y EXCEPT !.status = new.status]
      BY <2>2, <3>1
    <3>3. QED
      BY <1>3, <3>1, <3>2 DEF ConsultationRow
  <2>4. PICK q : q = [old EXCEPT ![i] = x]
    OBVIOUS
  <2>5. q \in Seq(ConsultationRow) /\ \A j \in DOMAIN q : q[j].client \in Live(b.clients)
    BY <1>5, <2>3, <2>4
  <2>6. k = [b EXCEPT !.consults = q]
    <3>1. k = [b EXCEPT !.consults = [b.consults EXCEPT ![i] = [b.consults[i] EXCEPT !.status = new.status]]]
      BY <2>1 DEF GoodBase
    <3>2. q = [b.consults EXCEPT ![i] = [b.consults[i] EXCEPT !.status = new.status]]
      BY <1>4, <2>2, <2>4
    <3>3. QED
      BY <3>1, <3>2
  <2>7. QED
    BY <1>8, <2>5, <2>6
<1>11. QED
  BY <1>6, <1>7, <1>9, <1>10

LEMMA RowGood ==
  ASSUME NEW b, GoodBase(b), NEW n, Tab55k[n] \in TabRow, LastDay \in Nat,
         NEW k \in ImportRow(b, n)
  PROVE  GoodBase(k)
<1>1. PICK r \in TabRow : r = Tab55k[n]
  OBVIOUS
<1>2. CASE ~Readable(r)
  <2>1. k = b
    BY <1>1, <1>2 DEF ImportRow
  <2>2. QED
    BY <2>1
<1>3. CASE Readable(r)
  <2>1. r.phone \in Phones /\ r.date \in Days /\ r.date # NoDate
    BY <1>3 DEF Readable, TabRow
  <2>2. PICK p, d : p = r.phone /\ d = r.date
    OBVIOUS
  <2>3. PICK known : known = [b EXCEPT !.clients = Anchored(@, p, d)]
    OBVIOUS
  <2>4. GoodBase(known) /\ IdOf(known.clients, p) \in Live(known.clients) /\ IdOf(known.clients, p) \in Nat
    BY <2>1, <2>2, <2>3, KnownGood
  <2>5. PICK next : next = [known EXCEPT !.leads = WithLead(known, n, r)]
    OBVIOUS
  <2>6. GoodBase(next) /\ next.clients = known.clients
    BY <2>1, <2>2, <2>4, <2>5, LeadGood
  <2>7. k \in WithConsultation(next, r)
    BY <1>1, <1>3, <2>2, <2>3, <2>5 DEF ImportRow
  <2>8. QED
    BY <2>1, <2>2, <2>4, <2>6, <2>7, ConsultationGood
<1>4. QED
  BY <1>2, <1>3

LEMMA CaseGood ==
  ASSUME NEW b, GoodBase(b), NEW rows \in Seq(CaseTabRow) \ {<<>>}, LastDay \in Nat
  PROVE  GoodBase(ImportCase(b, rows))
<1>1. PICK k : k = ImportCase(b, rows)
  OBVIOUS
<1>2. PICK r, last : r = rows[1] /\ last = rows[Len(rows)]
  OBVIOUS
<1>3. r \in CaseTabRow /\ last \in CaseTabRow
  BY <1>2
<1>4. CASE r.phone = NoPhone
  <2>1. k = b
    BY <1>1, <1>2, <1>4 DEF ImportCase
  <2>2. QED
    BY <1>1, <2>1
<1>5. CASE r.phone # NoPhone
  <2>1. PICK p, d : p = r.phone /\ d = r.date
    OBVIOUS
  <2>2. p \in Phones /\ d \in Days /\ last.fee \in Nat
    BY <1>3, <1>5, <2>1 DEF CaseTabRow
  <2>3. PICK known : known = [b EXCEPT !.clients = Anchored(@, p, d)]
    OBVIOUS
  <2>4. GoodBase(known) /\ IdOf(known.clients, p) \in Live(known.clients) /\ IdOf(known.clients, p) \in Nat
    BY <2>2, <2>3, KnownGood
  <2>5. PICK c \in Nat : c = IdOf(known.clients, p)
    BY <2>4
  <2>6. PICK paid \in Nat : paid = IF last.status = "completed" THEN last.fee ELSE 0
    BY <2>2
  <2>7. PICK st \in {"in_progress", "completed"} :
           st = IF last.status = "completed" THEN "completed" ELSE "in_progress"
    OBVIOUS
  <2>8. PICK new : new = CaseRow(c, d, last.fee, paid, LedgerOf(paid), st)
    OBVIOUS
  <2>9. new \in CaseRecord /\ new.client = c
    <3>1. LedgerOf(paid) \in Nat
      BY DEF LedgerOf
    <3>2. QED
      BY <2>2, <2>8, <3>1 DEF CaseRow, CaseRecord
  <2>10. k = known \/ k = [known EXCEPT !.cases = Append(@, new)]
    BY <1>1, <1>2, <1>5, <2>1, <2>3, <2>5, <2>6, <2>7, <2>8 DEF ImportCase
  <2>11. CASE k = [known EXCEPT !.cases = Append(@, new)]
    <3>1. PICK q : q = Append(known.cases, new)
      OBVIOUS
    <3>2. q \in Seq(CaseRecord) /\ \A i \in DOMAIN q : q[i].client \in Live(known.clients)
      <4>1. PICK old : old = known.cases
        OBVIOUS
      <4>2. old \in Seq(CaseRecord) /\ \A i \in DOMAIN old : old[i].client \in Live(known.clients)
        BY <2>4, <4>1 DEF GoodBase
      <4>3. q = Append(old, new) /\ new.client \in Live(known.clients)
        BY <2>4, <2>5, <2>9, <3>1, <4>1
      <4>4. QED
        BY <2>9, <4>2, <4>3
    <3>3. k = [clients |-> known.clients, leads |-> known.leads, consults |-> known.consults, cases |-> q]
      BY <2>4, <2>11, <3>1 DEF GoodBase
    <3>4. k.clients = known.clients /\ k.leads = known.leads /\ k.consults = known.consults /\ k.cases = q
      BY <3>3
    <3>5. QED
      BY <1>1, <2>4, <3>2, <3>3, <3>4 DEF GoodBase
  <2>12. QED
    BY <1>1, <2>4, <2>10, <2>11
<1>6. QED
  BY <1>4, <1>5

\* Row by row.
LEMMA UpTo ==
  ASSUME NEW n \in Nat, NEW G, 0 \in G, \A k \in 0 .. (n - 1) : k \in G => k + 1 \in G
  PROVE  \A k \in 0 .. n : k \in G
<1> DEFINE Bad == {k \in 0 .. n : k \notin G}
<1> SUFFICES ASSUME Bad # {} PROVE FALSE
  OBVIOUS
<1>1. IsFiniteSet(Bad) /\ Bad \subseteq Nat
  <2>1. IsFiniteSet(0 .. n)
    BY FS_Interval
  <2>2. QED
    BY <2>1, FS_Subset
<1>2. PICK m : m = Min(Bad)
  OBVIOUS
<1>3. m \in Bad /\ \A y \in Bad : m <= y
  <2> HIDE DEF Bad
  <2>1. QED
    BY <1>1, <1>2, LeastIn
<1>4. m \in 0 .. n /\ m \notin G /\ m # 0
  BY <1>3
<1>5. m - 1 \in 0 .. (n - 1) /\ m - 1 \notin Bad
  BY <1>3, <1>4
<1>6. QED
  BY <1>4, <1>5

IsAfterRows(f, b, n) ==
    f = [k \in 0 .. n |-> IF k = 0 THEN {b} ELSE ImportedRow(f[k - 1], k)]

LEMMA AfterRowsAt ==
  ASSUME NEW f, NEW b, NEW n \in Nat, IsAfterRows(f, b, n), NEW k \in 0 .. n
  PROVE  (k = 0 => f[k] = {b}) /\ (k # 0 => f[k] = ImportedRow(f[k - 1], k))
BY DEF IsAfterRows

LEMMA AfterRows ==
  ASSUME NEW b, NEW n \in Nat
  PROVE  \E f : IsAfterRows(f, b, n)
<1> DEFINE G == {k \in 0 .. n : \E f : IsAfterRows(f, b, k)}
<1>1. 0 \in G
  <2>1. PICK f : f = [k \in 0 .. 0 |-> {b}]
    OBVIOUS
  <2>2. f = [k \in 0 .. 0 |-> IF k = 0 THEN {b} ELSE ImportedRow(f[k - 1], k)]
    BY <2>1
  <2>3. IsAfterRows(f, b, 0)
    BY <2>2 DEF IsAfterRows
  <2>4. QED
    BY <2>3
<1>2. ASSUME NEW k \in 0 .. (n - 1), k \in G
      PROVE  k + 1 \in G
  <2>1. PICK f : IsAfterRows(f, b, k)
    BY <1>2
  <2>2. PICK last : last = ImportedRow(f[k], k + 1)
    OBVIOUS
  <2>3. PICK g : g = [j \in 0 .. (k + 1) |-> IF j = k + 1 THEN last ELSE f[j]]
    OBVIOUS
  <2>4. ASSUME NEW j \in 0 .. (k + 1)
        PROVE  g[j] = IF j = 0 THEN {b} ELSE ImportedRow(g[j - 1], j)
    <3>1. CASE j = k + 1
      <4>1. j # 0 /\ j - 1 = k /\ j - 1 \in 0 .. (k + 1) /\ j - 1 # k + 1
        BY <3>1
      <4>2. g[j - 1] = f[k] /\ g[j] = last
        BY <2>3, <3>1, <4>1
      <4>3. g[j] = ImportedRow(g[j - 1], j)
        BY <2>2, <3>1, <4>2
      <4>4. QED
        BY <4>1, <4>3
    <3>2. CASE j # k + 1
      <4>1. j \in 0 .. k
        BY <3>2
      <4>2. g[j] = f[j]
        BY <2>3, <3>2
      <4>3. j # 0 => g[j - 1] = f[j - 1]
        BY <2>3, <4>1
      <4>4. (j = 0 => f[j] = {b}) /\ (j # 0 => f[j] = ImportedRow(f[j - 1], j))
        BY <2>1, <4>1, AfterRowsAt
      <4>5. QED
        BY <4>2, <4>3, <4>4
    <3>3. QED
      BY <3>1, <3>2
  <2>5. IsAfterRows(g, b, k + 1)
    <3>1. g = [j \in 0 .. (k + 1) |-> g[j]]
      BY <2>3
    <3>2. QED
      BY <2>4, <3>1 DEF IsAfterRows
  <2>6. QED
    BY <2>5
<1>3. \A k \in 0 .. n : k \in G
  <2> HIDE DEF G
  <2>1. QED
    BY <1>1, <1>2, UpTo
<1>4. QED
  BY <1>3

LEMMA ResultsGood ==
  ASSUME HistoryImportAssumption, ClientBaseAssumption, HistoryTypeOK,
         NEW b, GoodBase(b), NEW k \in Results55k(b)
  PROVE  GoodBase(k)
<1>1. PICK n \in Nat : n = Len(Tab55k) /\ \A i \in 1 .. n : Tab55k[i] \in TabRow
  <2>1. Tab55k \in Seq(TabRow)
    BY DEF HistoryImportAssumption, HistoryTypeOK, Tab55k
  <2>2. QED
    BY <2>1
<1>2. PICK f : f = CHOOSE g : IsAfterRows(g, b, n)
  OBVIOUS
<1>3. IsAfterRows(f, b, n)
  BY <1>2, AfterRows
<1>4. Results55k(b) = f[n]
  BY <1>1, <1>2 DEF Results55k, IsAfterRows
<1> DEFINE G == {i \in 0 .. n : \A x \in f[i] : GoodBase(x)}
<1>5. 0 \in G
  <2>1. f[0] = {b}
    BY <1>3 DEF IsAfterRows
  <2>2. QED
    BY <2>1
<1>6. ASSUME NEW i \in 0 .. (n - 1), i \in G
      PROVE  i + 1 \in G
  <2>1. i + 1 \in 1 .. n /\ i + 1 # 0 /\ (i + 1) - 1 = i /\ i + 1 \in 0 .. n
    OBVIOUS
  <2>2. f[i + 1] = ImportedRow(f[i], i + 1)
    BY <1>3, <2>1, AfterRowsAt
  <2>3. ASSUME NEW y \in f[i + 1] PROVE GoodBase(y)
    <3>1. PICK x \in f[i] : y \in ImportRow(x, i + 1)
      BY <2>2 DEF ImportedRow
    <3>2. GoodBase(x)
      BY <1>6
    <3>3. QED
      BY <1>1, <2>1, <3>1, <3>2, RowGood DEF ClientBaseAssumption
  <2>4. QED
    BY <2>1, <2>3
<1>7. \A i \in 0 .. n : i \in G
  <2> HIDE DEF G
  <2>1. QED
    BY <1>5, <1>6, UpTo
<1>8. QED
  BY <1>4, <1>7

IsAfterCases(f, b, n) ==
    f = [k \in 0 .. n |-> IF k = 0 THEN b ELSE ImportCase(f[k - 1], CaseTab[k])]

LEMMA AfterCasesAt ==
  ASSUME NEW f, NEW b, NEW n \in Nat, IsAfterCases(f, b, n), NEW k \in 0 .. n
  PROVE  f[k] = IF k = 0 THEN b ELSE ImportCase(f[k - 1], CaseTab[k])
BY DEF IsAfterCases

LEMMA AfterCases ==
  ASSUME NEW b, NEW n \in Nat
  PROVE  \E f : IsAfterCases(f, b, n)
<1> DEFINE G == {k \in 0 .. n : \E f : IsAfterCases(f, b, k)}
<1>1. 0 \in G
  <2>1. PICK f : f = [k \in 0 .. 0 |-> b]
    OBVIOUS
  <2>2. f = [k \in 0 .. 0 |-> IF k = 0 THEN b ELSE ImportCase(f[k - 1], CaseTab[k])]
    BY <2>1
  <2>3. IsAfterCases(f, b, 0)
    BY <2>2 DEF IsAfterCases
  <2>4. QED
    BY <2>3
<1>2. ASSUME NEW k \in 0 .. (n - 1), k \in G
      PROVE  k + 1 \in G
  <2>1. PICK f : IsAfterCases(f, b, k)
    BY <1>2
  <2>2. PICK last : last = ImportCase(f[k], CaseTab[k + 1])
    OBVIOUS
  <2>3. PICK g : g = [j \in 0 .. (k + 1) |-> IF j = k + 1 THEN last ELSE f[j]]
    OBVIOUS
  <2>4. ASSUME NEW j \in 0 .. (k + 1)
        PROVE  g[j] = IF j = 0 THEN b ELSE ImportCase(g[j - 1], CaseTab[j])
    <3>1. CASE j = k + 1
      <4>1. j # 0 /\ j - 1 = k /\ j - 1 \in 0 .. (k + 1) /\ j - 1 # k + 1
        BY <3>1
      <4>2. g[j - 1] = f[k] /\ g[j] = last
        BY <2>3, <3>1, <4>1
      <4>3. g[j] = ImportCase(g[j - 1], CaseTab[j])
        BY <2>2, <3>1, <4>2
      <4>4. QED
        BY <4>1, <4>3
    <3>2. CASE j # k + 1
      <4>1. j \in 0 .. k
        BY <3>2
      <4>2. g[j] = f[j]
        BY <2>3, <3>2
      <4>3. j # 0 => g[j - 1] = f[j - 1]
        BY <2>3, <4>1
      <4>4. f[j] = IF j = 0 THEN b ELSE ImportCase(f[j - 1], CaseTab[j])
        BY <2>1, <4>1, AfterCasesAt
      <4>5. QED
        BY <4>2, <4>3, <4>4
    <3>3. QED
      BY <3>1, <3>2
  <2>5. IsAfterCases(g, b, k + 1)
    <3>1. g = [j \in 0 .. (k + 1) |-> g[j]]
      BY <2>3
    <3>2. QED
      BY <2>4, <3>1 DEF IsAfterCases
  <2>6. QED
    BY <2>5
<1>3. \A k \in 0 .. n : k \in G
  <2> HIDE DEF G
  <2>1. QED
    BY <1>1, <1>2, UpTo
<1>4. QED
  BY <1>3

LEMMA CasesGood ==
  ASSUME HistoryImportAssumption, ClientBaseAssumption, HistoryTypeOK, NEW b, GoodBase(b)
  PROVE  GoodBase(ResultOfCases(b))
<1>1. PICK n \in Nat : n = Len(CaseTab) /\ \A i \in 1 .. n : CaseTab[i] \in Seq(CaseTabRow) \ {<<>>}
  <2>1. CaseTab \in Seq(Seq(CaseTabRow) \ {<<>>})
    BY DEF HistoryImportAssumption, HistoryTypeOK, CaseTab
  <2>2. QED
    BY <2>1
<1>2. PICK f : f = CHOOSE g : IsAfterCases(g, b, n)
  OBVIOUS
<1>3. IsAfterCases(f, b, n)
  BY <1>2, AfterCases
<1>4. ResultOfCases(b) = f[n]
  BY <1>1, <1>2 DEF ResultOfCases, IsAfterCases
<1> DEFINE G == {i \in 0 .. n : GoodBase(f[i])}
<1>5. 0 \in G
  <2>1. f[0] = b
    BY <1>3, AfterCasesAt
  <2>2. QED
    BY <2>1
<1>6. ASSUME NEW i \in 0 .. (n - 1), i \in G
      PROVE  i + 1 \in G
  <2>1. i + 1 \in 1 .. n /\ i + 1 # 0 /\ (i + 1) - 1 = i /\ i + 1 \in 0 .. n
    OBVIOUS
  <2>2. f[i + 1] = ImportCase(f[i], CaseTab[i + 1])
    BY <1>3, <2>1, AfterCasesAt
  <2>3. GoodBase(f[i]) /\ CaseTab[i + 1] \in Seq(CaseTabRow) \ {<<>>}
    BY <1>1, <1>6, <2>1
  <2>4. GoodBase(f[i + 1])
    BY <2>2, <2>3, CaseGood DEF ClientBaseAssumption
  <2>5. QED
    BY <2>1, <2>4
<1>7. \A i \in 0 .. n : i \in G
  <2> HIDE DEF G
  <2>1. QED
    BY <1>5, <1>6, UpTo
<1>8. QED
  BY <1>4, <1>7

LEMMA CommitRefers ==
  ASSUME MailType, HistoryTypeOK, NEW b, GoodBase(b), NEW command, Commit(b, command),
         UNCHANGED <<staff, intake, scene>>
  PROVE  MailType' /\ HistoryTypeOK'
<1>1. /\ clients' = b.clients /\ leads' = b.leads /\ consults' = b.consults /\ cases' = b.cases
      /\ UNCHANGED <<labels, tags, version, day, notes>>
  BY DEF Commit, staff
<1>2. Live(clients) \subseteq Live(clients') /\ Live(clients)' = Live(clients')
  BY <1>1 DEF GoodBase, Keeps, Live
<1>3. BaseTypeOK'
  BY <1>1 DEF MailType, BaseTypeOK, GoodBase, Keeps, ClientTable
<1>4. ReferencesHold'
  BY <1>1, <1>2 DEF MailType, ReferencesHold, GoodBase
<1>5. SubType'
  BY <1>1 DEF MailType, SubType, IntakeTypeOK, OwnMessage, GoodBase, LeadTable, intake
<1>6. HistoryTypeOK'
  BY <1>1 DEF HistoryTypeOK, Tab55k
<1>7. QED
  BY <1>3, <1>4, <1>5, <1>6 DEF MailType

-----------------------------------------------------------------------------
(* The whole. *)

RefInv == MailType /\ HistoryTypeOK

Assumptions == ClientBaseAssumption /\ LeadIntakeAssumption /\ HistoryImportAssumption

LEMMA StartRefers ==
  ASSUME Assumptions, Start
  PROVE  RefInv
<1>1. BaseTypeOK
  <2>1. day = 1 /\ 1 \in Days
    BY DEF Start, Init, Days, Assumptions, ClientBaseAssumption
  <2>2. clients = <<>> /\ consults = <<>> /\ cases = <<>>
    BY DEF Start, Init
  <2>3. QED
    BY <2>1, <2>2 DEF BaseTypeOK
<1>2. LeadTable(leads) /\ DOMAIN leads = {}
  BY FS_EmptySet DEF Start, Init, LeadTable
<1>3. PICK w : w = Waiting
  OBVIOUS
<1>4. w \in Work /\ w.pc = "idle"
  BY <1>3 DEF Waiting, Doing, Work
<1>5. sub = [s \in Submitters |-> w]
  BY <1>3 DEF Start, IntakeInit
<1>6. IntakeTypeOK /\ batch \cap seen = {}
  BY <1>2, <1>4, <1>5, FS_EmptySet DEF Start, IntakeInit, IntakeTypeOK, LeadTable
<1>7. \A s \in Submitters : OwnMessage(s)
  BY <1>4, <1>5 DEF OwnMessage
<1>8. ReferencesHold
  BY <1>2 DEF Start, Init, IntakeInit, ReferencesHold
<1>9. HistoryTypeOK
  <2>1. Tabs55k # <<>> /\ CaseTabs # <<>> /\ Tabs55k \in Seq(Seq(TabRow))
        /\ CaseTabs \in Seq(Seq(Seq(CaseTabRow) \ {<<>>}))
    BY DEF Assumptions, HistoryImportAssumption
  <2>2. 1 \in DOMAIN Tabs55k /\ 1 \in DOMAIN CaseTabs
    BY <2>1
  <2>3. QED
    BY <2>2 DEF Start, HistoryInit, HistoryTypeOK
<1>10. QED
  BY <1>1, <1>6, <1>7, <1>8, <1>9 DEF RefInv, MailType, SubType

LEMMA StaffKeepsMail ==
  ASSUME MailType, BaseTypeOK', ReferencesHold', UNCHANGED <<intake, leads>>
  PROVE  MailType'
BY DEF MailType, SubType, IntakeTypeOK, OwnMessage, intake

LEMMA StaffLeaveLeads ==
  ASSUME StaffNext \/ Tick
  PROVE  UNCHANGED leads
<1>1. ASSUME NEW c, DropNotes(c) \/ DropClient(c)
      PROVE  UNCHANGED leads
  BY <1>1 DEF DropNotes, DropClient, tables
<1>2. CASE Deletion
  BY <1>1, <1>2 DEF Deletion, CountHistory, tables
<1>3. CASE CreateClient \/ UpdateClient \/ AddClientNote \/ SaveConsultation \/ TapStatus
           \/ SaveCase \/ AddPayment \/ CloseCase \/ Tick
  BY <1>3 DEF CreateClient, UpdateClient, AddClientNote, SaveConsultation, TapStatus,
              SaveCase, AddPayment, CloseCase, Tick, tables
<1>4. CASE SetClientSegmentOverride \/ AddClientTag \/ RemoveClientTag \/ CreateClientTagDef
           \/ UpdateClientTagDef \/ DeleteClientTagDef
  BY <1>4 DEF SetClientSegmentOverride, AddClientTag, RemoveClientTag, CreateClientTagDef,
              UpdateClientTagDef, DeleteClientTagDef
<1>5. QED
  BY <1>2, <1>3, <1>4 DEF StaffNext

LEMMA NextRefers ==
  ASSUME Assumptions, RefInv, [Next]_vars
  PROVE  RefInv'
<1>0. ClientBaseAssumption /\ LeadIntakeAssumption /\ HistoryImportAssumption /\ MailType /\ HistoryTypeOK
  BY DEF Assumptions, RefInv
<1>1. CASE UNCHANGED vars
  BY <1>1 DEF RefInv, MailType, SubType, IntakeTypeOK, OwnMessage, BaseTypeOK, ReferencesHold, Live,
              HistoryTypeOK, Tab55k, vars, staff, tables, intake, history
<1>2. CASE Arrival /\ UNCHANGED history
  BY <1>0, <1>2, MailNext DEF RefInv, HistoryTypeOK, history
<1>3. CASE (Import55k \/ ImportCases \/ EditTab) /\ UNCHANGED <<staff, intake, scene>>
  <2>1. GoodBase(Base)
    BY <1>0, BaseGood, MailIs DEF MailType
  <2>2. CASE Import55k
    <3>1. PICK b \in Results55k(Base) : Commit(b, "import55k")
      BY <2>2 DEF Import55k
    <3>2. GoodBase(b)
      BY <1>0, <2>1, <3>1, ResultsGood
    <3>3. QED
      BY <1>0, <1>3, <3>1, <3>2, CommitRefers DEF RefInv
  <2>3. CASE ImportCases
    <3>1. PICK b : b = ResultOfCases(Base)
      OBVIOUS
    <3>2. GoodBase(b) /\ Commit(b, "importcases")
      BY <1>0, <2>1, <2>3, <3>1, CasesGood DEF ImportCases
    <3>3. QED
      BY <1>0, <1>3, <3>2, CommitRefers DEF RefInv
  <2>4. CASE EditTab
    <3>1. UNCHANGED <<tables, day, notes, intake, scene>>
      BY <1>3, <2>4 DEF EditTab, staff
    <3>2. MailType'
      BY <1>0, <3>1 DEF MailType, SubType, IntakeTypeOK, OwnMessage, BaseTypeOK, ReferencesHold,
                        Live, tables, intake
    <3>3. HistoryTypeOK'
      <4>1. PICK nt \in Nat, nc \in Nat :
               DOMAIN Tabs55k = 1 .. nt /\ Len(Tabs55k) = nt /\ DOMAIN CaseTabs = 1 .. nc /\ Len(CaseTabs) = nc
        <5>1. Tabs55k \in Seq(Seq(TabRow)) /\ CaseTabs \in Seq(Seq(Seq(CaseTabRow) \ {<<>>}))
          BY <1>0 DEF HistoryImportAssumption
        <5>2. QED
          BY <5>1
      <4>2. version \in [leads: 1 .. nt, cases: 1 .. nc]
        BY <1>0, <4>1 DEF HistoryTypeOK
      <4>3. version' \in [leads: 1 .. nt, cases: 1 .. nc]
        <5>1. CASE version.leads < Len(Tabs55k) /\ version' = [version EXCEPT !.leads = @ + 1]
          BY <4>1, <4>2, <5>1
        <5>2. CASE version.cases < Len(CaseTabs) /\ version' = [version EXCEPT !.cases = @ + 1]
          BY <4>1, <4>2, <5>2
        <5>3. QED
          BY <2>4, <5>1, <5>2 DEF EditTab
      <4>4. QED
        BY <1>0, <3>1, <4>1, <4>3 DEF HistoryTypeOK
    <3>4. QED
      BY <3>2, <3>3 DEF RefInv
  <2>5. QED
    BY <1>3, <2>2, <2>3, <2>4
<1>4. CASE (Deletion \/ StaffNext \/ Tick) /\ UNCHANGED <<intake, version, scene>>
  <2>1. StaffNext \/ Tick
    BY <1>4 DEF StaffNext
  <2>2. BaseTypeOK' /\ ReferencesHold'
    BY <1>0, <2>1, StaffRefers DEF MailType
  <2>3. UNCHANGED leads
    BY <2>1, StaffLeaveLeads
  <2>4. MailType'
    BY <1>0, <1>4, <2>2, <2>3, StaffKeepsMail
  <2>5. QED
    BY <1>0, <1>4, <2>4 DEF RefInv, HistoryTypeOK
<1>5. QED
  BY <1>1, <1>2, <1>3, <1>4 DEF Next

-----------------------------------------------------------------------------
(* Counting announcements. *)

\* Two that are at work have different messages.
LEMMA Alone ==
  ASSUME MailType, LeadIntakeAssumption, NEW s \in Submitters, NEW t \in Submitters,
         sub[s].pc # "idle", sub[t].pc # "idle", sub[s].msg = sub[t].msg
  PROVE  s = t
<1>1. \A u \in Submitters : OwnMessage(u)
  BY DEF MailType, SubType
<1>2. \A u \in Submitters : u = Poller \/ u \in Requests
  BY DEF Submitters
<1>3. QED
  BY <1>1, <1>2 DEF OwnMessage, LeadIntakeAssumption

Has(m) == Dealt(m) \/ \E s \in Submitters : Told(s) /\ sub[s].msg = m

ToldPCs == {"save", "append", "sync", "seen"}

LEMMA CountIs ==
  CountInv <=> \A m \in Sources : /\ Announced(m) = again[m] + (IF Has(m) THEN 1 ELSE 0)
                                  /\ sheet[m] <= again[m] + (IF Written(m) THEN 1 ELSE 0)
BY DEF CountInv, AnnouncedAsCounted, Through, Has, Dealt

\* How far the message of a submission has come, and nobody else's.
LEMMA HasAt ==
  ASSUME MailType, LeadIntakeAssumption, NEW s \in Submitters, sub[s].pc \in Busy
  PROVE  /\ ~Dealt(sub[s].msg)
         /\ Has(sub[s].msg) <=> sub[s].pc \in ToldPCs
         /\ Written(sub[s].msg) <=> sub[s].pc \in {"sync", "seen"}
<1>1. ~Dealt(sub[s].msg)
  <2>1. \/ s = Poller /\ sub[s].msg \in Mails \ seen
        \/ s \in Requests /\ sub[s].msg = s
    BY SentFrom DEF MailType
  <2>2. Mails \cap Requests = {} /\ seen \subseteq Mails
    BY MailAssumed DEF MailType, LeadIntakeAssumption
  <2>3. QED
    BY <2>1, <2>2 DEF Dealt, Busy
<1>2. \A t \in Submitters : sub[t].pc # "idle" /\ sub[t].msg = sub[s].msg => t = s
  BY Alone DEF Busy
<1>3. QED
  BY <1>1, <1>2 DEF Has, Written, Told, ToldPCs

LEMMA HasMoves ==
  ASSUME MailType, LeadIntakeAssumption, NEW s \in Submitters, sub[s].pc \in Busy,
         NEW w, Becomes(s, w), UNCHANGED seen, NEW m, m = sub[s].msg
  PROVE  /\ Dealt(m)' <=> w.pc = "accepted"
         /\ Has(m)' <=> w.pc \in ToldPCs \cup {"accepted"}
         /\ Written(m)' <=> w.pc \in {"sync", "seen", "accepted"}
         /\ \A k \in Sources \ {m} : /\ Dealt(k)' <=> Dealt(k)
                                     /\ Has(k)' <=> Has(k)
                                     /\ Written(k)' <=> Written(k)
<1>1. /\ sub' \in [Submitters -> Work] /\ sub'[s] = w
      /\ \A t \in Submitters \ {s} : sub'[t] = sub[t]
  BY MailAssumed DEF MailType, Becomes, Onward
<1>2. /\ Mails \cap Requests = {} /\ seen \subseteq Mails /\ Requests \subseteq Submitters
      /\ Poller \notin Requests
      /\ m \in Sources /\ (s = Poller => m \in Mails \ seen) /\ (s # Poller => s \in Requests /\ m = s)
  BY MailAssumed, SentFrom DEF MailType, LeadIntakeAssumption
<1>3. \A t \in Submitters \ {s} : sub[t].pc # "idle" => sub[t].msg # m
  BY Alone DEF Busy
<1>4. \/ w.pc = "idle" /\ s = Poller
      \/ w.msg = m /\ (w.pc = "accepted" => s # Poller)
  BY <1>2 DEF Becomes, Onward, Busy, Answers
<1>5. Dealt(m)' <=> w.pc = "accepted"
  <2>1. CASE s = Poller
    <3>1. ~Dealt(m)'
      BY <1>2, <2>1 DEF Dealt
    <3>2. w.pc # "accepted"
      BY <1>4, <2>1
    <3>3. QED
      BY <3>1, <3>2
  <2>2. CASE s # Poller
    <3>1. m = s /\ m \in Requests /\ m \notin seen
      BY <1>2, <2>2
    <3>2. sub'[m] = w
      BY <1>1, <3>1
    <3>3. QED
      BY <3>1, <3>2 DEF Dealt
  <2>3. QED
    BY <2>1, <2>2
<1>6. \A t \in Submitters : /\ Told(t)' /\ sub'[t].msg = m <=> t = s /\ w.pc \in ToldPCs
                            /\ (sub'[t].pc \in {"sync", "seen"} /\ sub'[t].msg = m)
                                  <=> (t = s /\ w.pc \in {"sync", "seen"})
  <2>1. \A t \in Submitters \ {s} : sub'[t].pc # "idle" => sub'[t].msg # m
    BY <1>1, <1>3
  <2>2. w.pc \in ToldPCs => w.msg = m
    BY <1>4 DEF ToldPCs
  <2>3. QED
    BY <1>1, <2>1, <2>2 DEF Told, ToldPCs
<1>7. Has(m)' <=> w.pc \in ToldPCs \cup {"accepted"}
  BY <1>5, <1>6 DEF Has
<1>8. Written(m)' <=> w.pc \in {"sync", "seen", "accepted"}
  BY <1>5, <1>6 DEF Written
<1>9. ASSUME NEW k \in Sources \ {m}
      PROVE  (Dealt(k)' <=> Dealt(k)) /\ (Has(k)' <=> Has(k)) /\ (Written(k)' <=> Written(k))
  <2>1. Dealt(k)' <=> Dealt(k)
    <3>1. k \in Requests => k # s
      BY <1>2
    <3>2. k \in Requests => sub'[k] = sub[k]
      BY <1>1, <1>2, <3>1
    <3>3. QED
      BY <3>2 DEF Dealt
  <2>2. \A t \in Submitters : (sub'[t].pc \in ToldPCs /\ sub'[t].msg = k) <=> (sub[t].pc \in ToldPCs /\ sub[t].msg = k)
    BY <1>1, <1>4 DEF ToldPCs
  <2>3. \A t \in Submitters : (sub'[t].pc \in {"sync", "seen"} /\ sub'[t].msg = k)
                                 <=> (sub[t].pc \in {"sync", "seen"} /\ sub[t].msg = k)
    BY <1>1, <1>4
  <2>4. QED
    BY <2>1, <2>2, <2>3 DEF Has, Written, Told, ToldPCs
<1>10. QED
  BY <1>5, <1>7, <1>8, <1>9

\* One step of a submission settles its own count.
CountedNow(m, w) ==
    /\ Announced(m)' = again'[m] + (IF w.pc \in ToldPCs \cup {"accepted"} THEN 1 ELSE 0)
    /\ sheet'[m] <= again'[m] + (IF w.pc \in {"sync", "seen", "accepted"} THEN 1 ELSE 0)

LEMMA CountStep ==
  ASSUME MailType, LeadIntakeAssumption, CountInv, NEW s \in Submitters, sub[s].pc \in Busy,
         NEW w, Becomes(s, w), UNCHANGED seen, NEW m, m = sub[s].msg,
         \A k \in Sources \ {m} : /\ Announced(k)' = Announced(k)
                                  /\ again'[k] = again[k] /\ sheet'[k] = sheet[k],
         CountedNow(m, w)
  PROVE  CountInv'
<1>1. ASSUME NEW k \in Sources
      PROVE  /\ Announced(k)' = again'[k] + (IF Has(k)' THEN 1 ELSE 0)
             /\ sheet'[k] <= again'[k] + (IF Written(k)' THEN 1 ELSE 0)
  <2>1. CASE k = m
    BY <2>1, HasMoves DEF CountedNow
  <2>2. CASE k # m
    <3>1. /\ Announced(k) = again[k] + (IF Has(k) THEN 1 ELSE 0)
          /\ sheet[k] <= again[k] + (IF Written(k) THEN 1 ELSE 0)
      BY CountIs
    <3>2. (Has(k)' <=> Has(k)) /\ (Written(k)' <=> Written(k))
      BY <2>2, HasMoves
    <3>3. QED
      BY <2>2, <3>1, <3>2
  <2>3. QED
    BY <2>1, <2>2
<1>2. QED
  BY <1>1 DEF CountInv, AnnouncedAsCounted, Through, Has, Dealt

LEMMA GroupGrows ==
  ASSUME group \in Seq(Sources), taps \in Seq(Areas \cup {Blank}), Len(taps) = Len(group),
         NEW m \in Sources, Announce(m)
  PROVE  /\ Announced(m)' = Announced(m) + 1 /\ Announced(m) \in Nat
         /\ \A k \in Sources \ {m} : Announced(k)' = Announced(k)
<1>1. /\ group'[Len(group) + 1] = m /\ \A t \in DOMAIN group : group'[t] = group[t]
      /\ DOMAIN group' = DOMAIN group \cup {Len(group) + 1} /\ Len(group) + 1 \notin DOMAIN group
  BY AnnounceType
<1>2. PICK n : n = Len(group) + 1
  OBVIOUS
<1>3. IsFiniteSet(DOMAIN group)
  <2>1. DOMAIN group = 1 .. Len(group) /\ Len(group) \in Nat
    OBVIOUS
  <2>2. QED
    BY <2>1, FS_Interval
<1>4. PICK S : S = {t \in DOMAIN group : group[t] = m}
  OBVIOUS
<1>5. IsFiniteSet(S) /\ n \notin S
  BY <1>1, <1>2, <1>3, <1>4, FS_Subset
<1>6. {t \in DOMAIN group' : group'[t] = m} = S \cup {n}
  BY <1>1, <1>2, <1>4
<1>7. Cardinality(S \cup {n}) = Cardinality(S) + 1 /\ Cardinality(S) \in Nat
  BY <1>5, FS_AddElement, FS_CardinalityType
<1>8. Announced(m)' = Announced(m) + 1 /\ Announced(m) \in Nat
  BY <1>4, <1>6, <1>7 DEF Announced
<1>9. ASSUME NEW k \in Sources \ {m} PROVE Announced(k)' = Announced(k)
  <2>1. {t \in DOMAIN group' : group'[t] = k} = {t \in DOMAIN group : group[t] = k}
    BY <1>1
  <2>2. QED
    BY <2>1 DEF Announced
<1>10. QED
  BY <1>8, <1>9

-----------------------------------------------------------------------------
(* The steps of a submission. *)

AccountInv ==
    /\ MailType
    /\ \A s \in Submitters : StepOK(s)
    /\ CountInv /\ TableInv /\ TapInv

\* What is known of the message at a step.
LEMMA AtStep ==
  ASSUME AccountInv, LeadIntakeAssumption, NEW s \in Submitters, sub[s].pc \in Busy,
         NEW m, m = sub[s].msg
  PROVE  /\ m \in Sources /\ sub[s] \in Work /\ again[m] \in Nat /\ sheet[m] \in Nat
         /\ Announced(m) = again[m] + (IF sub[s].pc \in ToldPCs THEN 1 ELSE 0)
         /\ sheet[m] <= again[m] + (IF sub[s].pc = "sync" THEN 1 ELSE 0)
<1>1. m \in Sources /\ sub[s] \in Work
  BY SentFrom DEF AccountInv, MailType
<1>2. again[m] \in Nat /\ sheet[m] \in Nat
  BY <1>1, MailIs DEF AccountInv
<1>3. /\ Announced(m) = again[m] + (IF Has(m) THEN 1 ELSE 0)
      /\ sheet[m] <= again[m] + (IF Written(m) THEN 1 ELSE 0)
  BY <1>1, CountIs DEF AccountInv
<1>4. (Has(m) <=> sub[s].pc \in ToldPCs) /\ (Written(m) <=> sub[s].pc \in {"sync", "seen"})
  BY HasAt DEF AccountInv
<1>5. sub[s].pc # "seen"
  BY DEF Busy
<1>6. QED
  BY <1>1, <1>2, <1>3, <1>4, <1>5

LEMMA SameAnnounced ==
  ASSUME UNCHANGED group
  PROVE  \A k \in Sources : Announced(k)' = Announced(k)
BY DEF Announced

LEMMA ResolveCount ==
  ASSUME AccountInv, LeadIntakeAssumption, NEW s \in Submitters, ResolveClient(s)
  PROVE  CountInv'
<1>1. PICK m : m = sub[s].msg
  OBVIOUS
<1>2. /\ sub[s].pc = "resolve" /\ sub[s].pc \in Busy /\ UNCHANGED <<seen, group, again, sheet>>
      /\ MailType /\ CountInv
  BY DEF ResolveClient, Busy, AccountInv
<1>3. PICK w : Becomes(s, w) /\ w.pc = "send"
  BY <1>2, ResolveMove DEF MailType
<1>4. \A k \in Sources : Announced(k)' = Announced(k)
  BY <1>2, SameAnnounced
<1>5. m \in Sources /\ again[m] \in Nat /\ Announced(m) = again[m] + 0 /\ sheet[m] <= again[m] + 0
  BY <1>1, <1>2, AtStep DEF ToldPCs
<1>6. CountedNow(m, w)
  BY <1>2, <1>3, <1>4, <1>5 DEF CountedNow, ToldPCs
<1>7. \A k \in Sources \ {m} : /\ Announced(k)' = Announced(k)
                               /\ again'[k] = again[k] /\ sheet'[k] = sheet[k]
  BY <1>2, <1>4
<1>8. QED
  BY <1>1, <1>2, <1>3, <1>6, <1>7, CountStep

LEMMA SendCount ==
  ASSUME AccountInv, LeadIntakeAssumption, NEW s \in Submitters, SendMessage(s)
  PROVE  CountInv'
<1>1. PICK m : m = sub[s].msg
  OBVIOUS
<1>2. /\ sub[s].pc = "send" /\ sub[s].pc \in Busy /\ UNCHANGED <<seen, sheet>>
      /\ MailType /\ CountInv
  BY DEF SendMessage, Busy, AccountInv
<1>3. /\ m \in Sources /\ again[m] \in Nat /\ Announced(m) = again[m] + 0 /\ sheet[m] <= again[m] + 0
      /\ sheet[m] \in Nat
  BY <1>1, <1>2, AtStep DEF ToldPCs
<1>4. /\ group \in Seq(Sources) /\ taps \in Seq(Areas \cup {Blank}) /\ Len(taps) = Len(group)
      /\ again \in [Sources -> Nat]
  BY <1>2, MailIs
<1>5. PICK w : /\ Becomes(s, w)
               /\ \/ Announce(m) /\ UNCHANGED again /\ w.pc = "save"
                  \/ /\ w.pc \in {"idle", "refused"}
                     /\ \/ UNCHANGED <<group, taps, again>>
                        \/ Announce(m) /\ again' = [again EXCEPT ![m] = @ + 1]
  BY <1>1, <1>2, SendMove DEF MailType
<1>6. Announce(m) => /\ Announced(m)' = Announced(m) + 1
                     /\ \A k \in Sources \ {m} : Announced(k)' = Announced(k)
  BY <1>3, <1>4, GroupGrows
<1>7. UNCHANGED group => \A k \in Sources : Announced(k)' = Announced(k)
  BY SameAnnounced
<1>8. CASE Announce(m) /\ UNCHANGED again /\ w.pc = "save"
  <2>1. CountedNow(m, w)
    BY <1>2, <1>3, <1>6, <1>8 DEF CountedNow, ToldPCs
  <2>2. \A k \in Sources \ {m} : /\ Announced(k)' = Announced(k)
                                 /\ again'[k] = again[k] /\ sheet'[k] = sheet[k]
    BY <1>2, <1>6, <1>8
  <2>3. QED
    BY <1>1, <1>2, <1>5, <2>1, <2>2, CountStep
<1>9. CASE w.pc \in {"idle", "refused"} /\ UNCHANGED <<group, taps, again>>
  <2>1. CountedNow(m, w)
    BY <1>2, <1>3, <1>7, <1>9 DEF CountedNow, ToldPCs
  <2>2. \A k \in Sources \ {m} : /\ Announced(k)' = Announced(k)
                                 /\ again'[k] = again[k] /\ sheet'[k] = sheet[k]
    BY <1>2, <1>7, <1>9
  <2>3. QED
    BY <1>1, <1>2, <1>5, <2>1, <2>2, CountStep
<1>10. CASE w.pc \in {"idle", "refused"} /\ Announce(m) /\ again' = [again EXCEPT ![m] = @ + 1]
  <2>1. again'[m] = again[m] + 1 /\ \A k \in Sources \ {m} : again'[k] = again[k]
    BY <1>3, <1>4, <1>10
  <2>2. CountedNow(m, w)
    BY <1>2, <1>3, <1>6, <1>10, <2>1 DEF CountedNow, ToldPCs
  <2>3. \A k \in Sources \ {m} : /\ Announced(k)' = Announced(k)
                                 /\ again'[k] = again[k] /\ sheet'[k] = sheet[k]
    BY <1>2, <1>6, <1>10, <2>1
  <2>4. QED
    BY <1>1, <1>2, <1>5, <2>2, <2>3, CountStep
<1>11. QED
  BY <1>5, <1>8, <1>9, <1>10

\* From the announcement on, the count of a message stays as it is.
LEMMA LaterCount ==
  ASSUME AccountInv, LeadIntakeAssumption, NEW s \in Submitters, sub[s].pc \in {"save", "append", "sync"},
         NEW w, Becomes(s, w), w.pc \in ToldPCs \cup {"accepted"},
         UNCHANGED <<seen, group, again>>, NEW m, m = sub[s].msg,
         \A k \in Sources \ {m} : sheet'[k] = sheet[k],
         \/ sheet'[m] = sheet[m] /\ (sub[s].pc = "sync" => w.pc \in {"sync", "seen", "accepted"})
         \/ sheet'[m] = sheet[m] + 1 /\ sub[s].pc = "append" /\ w.pc \in {"sync", "seen", "accepted"}
  PROVE  CountInv'
<1>1. sub[s].pc \in Busy /\ sub[s].pc \in ToldPCs
  BY DEF Busy, ToldPCs
<1>2. /\ m \in Sources /\ again[m] \in Nat /\ sheet[m] \in Nat
      /\ Announced(m) = again[m] + 1
      /\ sheet[m] <= again[m] + (IF sub[s].pc = "sync" THEN 1 ELSE 0)
  BY <1>1, AtStep
<1>3. \A k \in Sources : Announced(k)' = Announced(k)
  BY SameAnnounced
<1>4. CountedNow(m, w)
  <2>1. Announced(m)' = again'[m] + (IF w.pc \in ToldPCs \cup {"accepted"} THEN 1 ELSE 0)
    BY <1>2, <1>3
  <2>2. sheet'[m] <= again'[m] + (IF w.pc \in {"sync", "seen", "accepted"} THEN 1 ELSE 0)
    <3>1. again'[m] = again[m]
      OBVIOUS
    <3>2. CASE sheet'[m] = sheet[m] /\ (sub[s].pc = "sync" => w.pc \in {"sync", "seen", "accepted"})
      BY <1>2, <3>1, <3>2
    <3>3. CASE sheet'[m] = sheet[m] + 1 /\ sub[s].pc = "append" /\ w.pc \in {"sync", "seen", "accepted"}
      BY <1>2, <3>1, <3>3
    <3>4. QED
      BY <3>2, <3>3
  <2>3. QED
    BY <2>1, <2>2 DEF CountedNow
<1>5. \A k \in Sources \ {m} : /\ Announced(k)' = Announced(k)
                               /\ again'[k] = again[k] /\ sheet'[k] = sheet[k]
  BY <1>3
<1>6. MailType /\ CountInv
  BY DEF AccountInv
<1>7. QED
  BY <1>1, <1>4, <1>5, <1>6, CountStep

LEMMA SaveCount ==
  ASSUME AccountInv, LeadIntakeAssumption, NEW s \in Submitters, Save(s)
  PROVE  CountInv'
<1>1. PICK m, i : m = sub[s].msg /\ i = IdOfLead[sub[s].msg]
  OBVIOUS
<1>2. sub[s].pc = "save" /\ UNCHANGED <<seen, group, sheet, again>>
  BY DEF Save
<1>3. PICK w : Becomes(s, w) /\ w.pc \in {"append", "seen", "accepted"}
  BY <1>1, SaveMove DEF AccountInv, MailType
<1>4. w.pc \in ToldPCs \cup {"accepted"}
  BY <1>3 DEF ToldPCs
<1>5. QED
  BY <1>1, <1>2, <1>3, <1>4, LaterCount

LEMMA AppendCount ==
  ASSUME AccountInv, LeadIntakeAssumption, NEW s \in Submitters, AppendRow(s)
  PROVE  CountInv'
<1>1. PICK m \in Sources : m = sub[s].msg
  BY AtWork DEF AppendRow, AccountInv, MailType, Busy
<1>2. sub[s].pc = "append" /\ UNCHANGED <<seen, group, again>>
  BY DEF AppendRow
<1>3. PICK t : t = [sheet EXCEPT ![m] = @ + 1]
  OBVIOUS
<1>4. PICK w : Becomes(s, w) /\ sheet' \in {sheet, t} /\ w.pc \in {"sync", "seen", "accepted"}
  BY <1>1, <1>3, AppendMove DEF AccountInv, MailType
<1>5. sheet \in [Sources -> Nat]
  BY MailIs DEF AccountInv
<1>6. \A k \in Sources \ {m} : sheet'[k] = sheet[k]
  BY <1>3, <1>4, <1>5
<1>7. sheet'[m] = sheet[m] \/ sheet'[m] = sheet[m] + 1
  BY <1>3, <1>4, <1>5
<1>8. w.pc \in ToldPCs \cup {"accepted"}
  BY <1>4 DEF ToldPCs
<1>9. QED
  BY <1>1, <1>2, <1>4, <1>6, <1>7, <1>8, LaterCount

LEMMA SyncCount ==
  ASSUME AccountInv, LeadIntakeAssumption, NEW s \in Submitters, MarkSheetSynced(s)
  PROVE  CountInv'
<1>1. PICK m : m = sub[s].msg
  OBVIOUS
<1>2. sub[s].pc = "sync" /\ UNCHANGED <<seen, group, sheet, again>>
  BY DEF MarkSheetSynced
<1>3. PICK w : Becomes(s, w) /\ w.pc \in {"seen", "accepted"}
  BY SyncMove DEF AccountInv, MailType
<1>4. w.pc \in ToldPCs \cup {"accepted"}
  BY <1>3 DEF ToldPCs
<1>5. QED
  BY <1>1, <1>2, <1>3, <1>4, LaterCount

\* The marked mail counts as dealt with, the one that could not be marked once more.
LEMMA SeenCount ==
  ASSUME AccountInv, LeadIntakeAssumption, MarkSeen
  PROVE  CountInv'
<1>1. PICK m : m = sub[Poller].msg
  OBVIOUS
<1>2. PICK w : w = Waiting
  OBVIOUS
<1>3. /\ sub[Poller].pc = "seen" /\ sub' = [sub EXCEPT ![Poller] = w]
      /\ UNCHANGED <<group, sheet>>
      /\ \/ seen' = seen \cup {m} /\ UNCHANGED again
         \/ again' = [again EXCEPT ![m] = @ + 1] /\ UNCHANGED seen
  BY <1>1, <1>2 DEF MarkSeen
<1>4. w.pc = "idle"
  BY <1>2 DEF Waiting, Doing
<1>5. /\ Poller \in Submitters /\ m \in Mails /\ m \in Sources /\ m \notin seen
      /\ Mails \cap Requests = {} /\ Requests \subseteq Submitters /\ Poller \notin Requests
      /\ again \in [Sources -> Nat] /\ sheet \in [Sources -> Nat]
  BY <1>1, <1>3, SentFrom, MailAssumed, MailIs DEF AccountInv, MailType, LeadIntakeAssumption
<1>6. /\ sub' \in [Submitters -> Work] /\ sub'[Poller] = w
      /\ \A t \in Submitters \ {Poller} : sub'[t] = sub[t]
  BY <1>2, <1>3, <1>5, MailAssumed DEF AccountInv, MailType, Waiting, Doing, Work
<1>7. \A t \in Submitters \ {Poller} : sub[t].pc # "idle" => sub[t].msg # m
  BY <1>1, <1>3, <1>5, Alone DEF AccountInv
<1>8. Has(m) /\ Written(m)
  BY <1>1, <1>3, <1>5 DEF Has, Written, Told
<1>9. \A k \in Sources : Announced(k)' = Announced(k)
  BY <1>3, SameAnnounced
<1>10. \A k \in Sources : /\ Announced(k) = again[k] + (IF Has(k) THEN 1 ELSE 0)
                          /\ sheet[k] <= again[k] + (IF Written(k) THEN 1 ELSE 0)
  BY CountIs DEF AccountInv
<1>11. ASSUME NEW k \in Sources \ {m}
       PROVE  (Has(k)' <=> Has(k)) /\ (Written(k)' <=> Written(k))
  <2>1. Dealt(k)' <=> Dealt(k)
    BY <1>3, <1>5, <1>6 DEF Dealt
  <2>2. \A t \in Submitters : (sub'[t].pc \in ToldPCs /\ sub'[t].msg = k) <=> (sub[t].pc \in ToldPCs /\ sub[t].msg = k)
    BY <1>1, <1>4, <1>6 DEF ToldPCs
  <2>3. \A t \in Submitters : (sub'[t].pc \in {"sync", "seen"} /\ sub'[t].msg = k)
                                 <=> (sub[t].pc \in {"sync", "seen"} /\ sub[t].msg = k)
    BY <1>1, <1>4, <1>6
  <2>4. QED
    BY <2>1, <2>2, <2>3 DEF Has, Written, Told, ToldPCs
<1>12. ASSUME NEW k \in Sources
       PROVE  /\ Announced(k)' = again'[k] + (IF Has(k)' THEN 1 ELSE 0)
              /\ sheet'[k] <= again'[k] + (IF Written(k)' THEN 1 ELSE 0)
  <2>1. CASE k # m
    <3>1. again'[k] = again[k] /\ sheet'[k] = sheet[k]
      BY <1>3, <1>5, <2>1
    <3>2. QED
      BY <1>9, <1>10, <1>11, <2>1, <3>1
  <2>2. CASE k = m
    <3>1. Announced(m) = again[m] + 1 /\ sheet[m] <= again[m] + 1 /\ again[m] \in Nat /\ sheet[m] \in Nat
      BY <1>5, <1>8, <1>10
    <3>2. CASE seen' = seen \cup {m} /\ UNCHANGED again
      <4>1. Has(m)' /\ Written(m)'
        BY <3>2 DEF Has, Written, Dealt
      <4>2. QED
        BY <1>3, <1>9, <2>2, <3>1, <3>2, <4>1
    <3>3. CASE again' = [again EXCEPT ![m] = @ + 1] /\ UNCHANGED seen
      <4>1. ~Dealt(m)'
        BY <1>5, <3>3 DEF Dealt
      <4>2. \A t \in Submitters : ~(sub'[t].pc # "idle" /\ sub'[t].msg = m)
        BY <1>4, <1>6, <1>7
      <4>3. ~Has(m)' /\ ~Written(m)'
        BY <4>1, <4>2 DEF Has, Written, Told
      <4>4. again'[m] = again[m] + 1
        BY <1>5, <3>3
      <4>5. QED
        BY <1>3, <1>9, <2>2, <3>1, <4>3, <4>4
    <3>4. QED
      BY <1>3, <3>2, <3>3
  <2>3. QED
    BY <2>1, <2>2
<1>13. QED
  BY <1>12 DEF CountInv, AnnouncedAsCounted, Through, Has, Dealt

\* What a death cuts off after its announcement is announced once more.
LEMMA CrashCount ==
  ASSUME AccountInv, LeadIntakeAssumption, Crash
  PROVE  CountInv'
<1>1. /\ UNCHANGED <<seen, group, sheet>>
      /\ sub' = [s \in Submitters |-> Forgotten(s)]
      /\ again' = [m \in Sources |->
                      again[m] + Cardinality({s \in Submitters : Told(s) /\ sub[s].msg = m})]
  BY DEF Crash, Forgotten
<1>2. \A k \in Sources : Announced(k)' = Announced(k)
  BY <1>1, SameAnnounced
<1>3. \A s \in Submitters : /\ sub'[s].pc \in {"idle", "accepted", "refused"}
                            /\ sub'[s].pc = "accepted" <=> sub[s].pc = "accepted"
  BY <1>1 DEF Forgotten, Ended, Waiting, Doing
<1>4. Requests \subseteq Submitters
  BY DEF Submitters
<1>5. ASSUME NEW m \in Sources
      PROVE  /\ Announced(m)' = again'[m] + (IF Has(m)' THEN 1 ELSE 0)
             /\ sheet'[m] <= again'[m] + (IF Written(m)' THEN 1 ELSE 0)
  <2>1. Dealt(m)' <=> Dealt(m)
    BY <1>1, <1>3, <1>4 DEF Dealt
  <2>2. (Has(m)' <=> Dealt(m)) /\ (Written(m)' <=> Dealt(m))
    BY <1>3, <2>1 DEF Has, Written, Told
  <2>3. /\ Announced(m) = again[m] + (IF Has(m) THEN 1 ELSE 0)
        /\ sheet[m] <= again[m] + (IF Written(m) THEN 1 ELSE 0)
        /\ again[m] \in Nat /\ sheet[m] \in Nat
    BY CountIs, MailIs DEF AccountInv
  <2>4. PICK S : S = {s \in Submitters : Told(s) /\ sub[s].msg = m}
    OBVIOUS
  <2>5. again'[m] = again[m] + Cardinality(S)
    BY <1>1, <2>4
  <2>6. CASE S = {}
    <3>1. Cardinality(S) = 0
      BY <2>6, FS_EmptySet
    <3>2. (Has(m) <=> Dealt(m)) /\ (Written(m) <=> Dealt(m))
      BY <2>4, <2>6 DEF Has, Written, Told
    <3>3. QED
      BY <1>1, <1>2, <2>2, <2>3, <2>5, <3>1, <3>2
  <2>7. CASE S # {}
    <3>1. PICK s \in Submitters : Told(s) /\ sub[s].msg = m
      BY <2>4, <2>7
    <3>2. \A t \in S : t = s
      BY <2>4, <3>1, Alone DEF AccountInv, Told
    <3>3. S = {s}
      BY <2>4, <3>1, <3>2
    <3>4. Cardinality(S) = 1
      BY <3>3, FS_Singleton
    <3>5. ~Dealt(m)
      <4>1. CASE sub[s].pc \in Busy
        BY <3>1, <4>1, HasAt DEF AccountInv
      <4>2. CASE sub[s].pc = "seen"
        <5>1. OwnMessage(s) /\ (s = Poller \/ s \in Requests)
          BY DEF AccountInv, MailType, SubType, Submitters
        <5>2. s = Poller /\ m \in Mails \ seen
          BY <3>1, <4>2, <5>1 DEF OwnMessage
        <5>3. QED
          BY <5>2 DEF Dealt, LeadIntakeAssumption
      <4>3. QED
        BY <3>1, <4>1, <4>2 DEF Told, Busy
    <3>6. Has(m)
      BY <3>1 DEF Has
    <3>7. QED
      BY <1>1, <1>2, <2>2, <2>3, <2>5, <3>4, <3>5, <3>6
  <2>8. QED
    BY <2>6, <2>7
<1>6. QED
  BY <1>5 DEF CountInv, AnnouncedAsCounted, Through, Has, Dealt

-----------------------------------------------------------------------------
(* What is announced, stored and in the sheet. *)

\* Nothing that was there goes or changes its announcement.
Grown ==
    /\ DOMAIN leads \subseteq DOMAIN leads' /\ \A i \in DOMAIN leads : leads'[i].tg = leads[i].tg
    /\ \A k \in Sources : sheet[k] > 0 => sheet'[k] > 0
    /\ unsaved \subseteq unsaved'
    /\ DOMAIN group \subseteq DOMAIN group' /\ \A t \in DOMAIN group : group'[t] = group[t]

NewLeads == DOMAIN leads' \ DOMAIN leads

LEMMA StepKept ==
  ASSUME MailType, LeadIntakeAssumption, NEW t \in Submitters, StepOK(t), Grown, sub'[t] = sub[t],
         sub[t].pc = "save" => \A i \in NewLeads : leads'[i].tg # sub[t].tg
  PROVE  StepOK(t)'
<1>1. sub[t].pc \in Busy \cup {"seen"} => sub[t].msg \in Sources
  BY SentFrom DEF MailType
<1>2. PICK w : w = sub[t] /\ w = sub'[t]
  OBVIOUS
<1>3. w.pc = "save" => /\ w.tg \in DOMAIN group' /\ group'[w.tg] = w.msg
                       /\ \A i \in DOMAIN leads' : leads'[i].tg # w.tg
  BY <1>2 DEF StepOK, Grown, NewLeads
<1>4. w.pc \in {"append", "sync"} => IdOfLead[w.msg] \in DOMAIN leads'
  BY <1>2 DEF StepOK, Grown
<1>5. w.pc = "sync" => sheet'[w.msg] > 0
  BY <1>1, <1>2 DEF StepOK, Grown, Busy
<1>6. w.pc = "seen" => IdOfLead[w.msg] \in DOMAIN leads' \/ w.msg \in unsaved'
  BY <1>2 DEF StepOK, Grown
<1>7. QED
  BY <1>2, <1>3, <1>4, <1>5, <1>6 DEF StepOK

LEMMA TableStep ==
  ASSUME TableInv, Grown,
         \A m \in Sources : Dealt(m)' => Dealt(m) \/ IdOfLead[m] \in DOMAIN leads' \/ m \in unsaved',
         \A m \in Sources : sheet'[m] > 0 => sheet[m] > 0 \/ IdOfLead[m] \in DOMAIN leads',
         \A i \in DOMAIN leads' :
            leads'[i].synced /\ leads'[i].tg # 0 =>
               \/ i \in DOMAIN leads /\ leads[i].synced
               \/ \E m \in Sources : IdOfLead[m] = i /\ sheet'[m] > 0
  PROVE  TableInv'
<1>1. StoredOrRefused'
  BY DEF TableInv, StoredOrRefused, Grown
<1>2. \A m \in Sources : sheet'[m] > 0 => IdOfLead[m] \in DOMAIN leads'
  BY DEF TableInv, Grown
<1>3. \A i \in DOMAIN leads' :
         leads'[i].synced /\ leads'[i].tg # 0 => \E m \in Sources : IdOfLead[m] = i /\ sheet'[m] > 0
  BY DEF TableInv, Grown
<1>4. QED
  BY <1>1, <1>2, <1>3 DEF TableInv

\* The announcements taps are on, and what is new there.
LEMMA TapStep ==
  ASSUME TapInv, Grown, DOMAIN group = DOMAIN taps, DOMAIN taps \subseteq DOMAIN taps',
         \A i \in DOMAIN leads : leads'[i].area = leads[i].area,
         \A t \in DOMAIN taps : taps'[t] = taps[t],
         \A t \in DOMAIN taps' \ DOMAIN taps : taps'[t] = Blank,
         \A i \in NewLeads : leads'[i].tg # 0 =>
            /\ leads'[i].tg \in DOMAIN group' /\ IdOfLead[group'[leads'[i].tg]] = i
            /\ leads'[i].area = taps'[leads'[i].tg]
  PROVE  TapInv'
<1>1. ASSUME NEW i \in DOMAIN leads', leads'[i].tg # 0
      PROVE  /\ leads'[i].tg \in DOMAIN group' /\ IdOfLead[group'[leads'[i].tg]] = i
             /\ leads'[i].area = taps'[leads'[i].tg]
  <2>1. CASE i \in NewLeads
    BY <1>1, <2>1
  <2>2. CASE i \in DOMAIN leads
    <3>1. PICK t : t = leads[i].tg /\ t = leads'[i].tg
      BY <2>2 DEF Grown
    <3>2. leads[i].tg # 0
      BY <1>1, <3>1
    <3>3. leads[i].tg \in DOMAIN group
      BY <2>2, <3>2 DEF TapInv
    <3>4. IdOfLead[group[leads[i].tg]] = i /\ leads[i].area = taps[leads[i].tg]
      BY <2>2, <3>2 DEF TapInv, AreaAsTapped
    <3>5. t \in DOMAIN group /\ t \in DOMAIN group' /\ group'[t] = group[t] /\ taps'[t] = taps[t]
      BY <3>1, <3>3 DEF Grown
    <3>6. leads'[i].area = leads[i].area
      BY <2>2
    <3>7. QED
      BY <3>1, <3>4, <3>5, <3>6
  <2>3. QED
    BY <2>1, <2>2 DEF NewLeads
<1>2. ASSUME NEW t \in DOMAIN taps', taps'[t] # Blank
      PROVE  \E i \in DOMAIN leads' : leads'[i].tg = t
  <2>1. t \in DOMAIN taps /\ taps[t] # Blank
    BY <1>2
  <2>2. PICK i \in DOMAIN leads : leads[i].tg = t
    BY <2>1 DEF TapInv, AreaAsTapped
  <2>3. QED
    BY <2>2 DEF Grown
<1>3. QED
  BY <1>1, <1>2 DEF TapInv, AreaAsTapped

\* Steps in which no submission gets further and no lead of the intake is new.
Quiet ==
    /\ UNCHANGED <<seen, group, sheet, again, unsaved>>
    /\ \A t \in Submitters : sub'[t] = sub[t] \/ (sub[t].pc = "idle" /\ sub'[t].pc = "resolve")
    /\ DOMAIN leads \subseteq DOMAIN leads'
    /\ \A i \in DOMAIN leads : leads'[i].tg = leads[i].tg /\ leads'[i].synced = leads[i].synced
    /\ \A i \in NewLeads : leads'[i].tg = 0

LEMMA QuietKeeps ==
  ASSUME AccountInv, LeadIntakeAssumption, Quiet
  PROVE  Grown /\ (\A s \in Submitters : StepOK(s)') /\ CountInv' /\ TableInv'
<1>1. Grown
  BY DEF Quiet, Grown
<1>2. ASSUME NEW t \in Submitters
      PROVE  StepOK(t)'
  <2>1. CASE sub'[t].pc = "resolve"
    BY <2>1 DEF StepOK
  <2>2. CASE sub'[t] = sub[t]
    <3>1. sub[t].pc = "save" => sub[t].tg # 0
      <4>1. group \in Seq(Sources)
        BY MailIs DEF AccountInv
      <4>2. DOMAIN group = 1 .. Len(group)
        BY <4>1
      <4>3. QED
        BY <4>2 DEF AccountInv, StepOK
    <3>2. sub[t].pc = "save" => \A i \in NewLeads : leads'[i].tg # sub[t].tg
      BY <3>1 DEF Quiet
    <3>3. QED
      BY <1>1, <2>2, <3>2, StepKept DEF AccountInv
  <2>3. QED
    BY <2>1, <2>2 DEF Quiet
<1>3. Requests \subseteq Submitters /\ UNCHANGED seen
  BY DEF Submitters, Quiet
<1>4. ASSUME NEW k \in Sources
      PROVE  (Dealt(k)' <=> Dealt(k)) /\ (Has(k)' <=> Has(k)) /\ (Written(k)' <=> Written(k))
  <2>1. Dealt(k)' <=> Dealt(k)
    BY <1>3 DEF Dealt, Quiet
  <2>2. \A t \in Submitters : (sub'[t].pc \in ToldPCs /\ sub'[t].msg = k) <=> (sub[t].pc \in ToldPCs /\ sub[t].msg = k)
    BY DEF ToldPCs, Quiet
  <2>3. \A t \in Submitters : (sub'[t].pc \in {"sync", "seen"} /\ sub'[t].msg = k)
                                 <=> (sub[t].pc \in {"sync", "seen"} /\ sub[t].msg = k)
    BY DEF Quiet
  <2>4. QED
    BY <2>1, <2>2, <2>3 DEF Has, Written, Told, ToldPCs
<1>5. CountInv'
  <2>1. \A k \in Sources : Announced(k)' = Announced(k)
    BY SameAnnounced DEF Quiet
  <2>2. ASSUME NEW k \in Sources
        PROVE  /\ Announced(k)' = again'[k] + (IF Has(k)' THEN 1 ELSE 0)
               /\ sheet'[k] <= again'[k] + (IF Written(k)' THEN 1 ELSE 0)
    BY <1>4, <2>1, CountIs DEF AccountInv, Quiet
  <2>3. QED
    BY <2>2 DEF CountInv, AnnouncedAsCounted, Through, Has, Dealt
<1>6. TableInv'
  <2>1. \A m \in Sources : Dealt(m)' => Dealt(m) \/ IdOfLead[m] \in DOMAIN leads' \/ m \in unsaved'
    BY <1>4
  <2>2. \A m \in Sources : sheet'[m] > 0 => sheet[m] > 0 \/ IdOfLead[m] \in DOMAIN leads'
    BY DEF Quiet
  <2>3. \A i \in DOMAIN leads' :
           leads'[i].synced /\ leads'[i].tg # 0 =>
              \/ i \in DOMAIN leads /\ leads[i].synced
              \/ \E m \in Sources : IdOfLead[m] = i /\ sheet'[m] > 0
    BY DEF Quiet, NewLeads
  <2>4. TableInv
    BY DEF AccountInv
  <2>5. QED
    BY <1>1, <2>1, <2>2, <2>3, <2>4, TableStep
<1>7. QED
  BY <1>1, <1>2, <1>5, <1>6

\* What a submission that moves to w has done is there.
Fits(m, w) ==
    /\ w.pc = "save" => /\ w.tg \in DOMAIN group' /\ group'[w.tg] = m
                        /\ \A i \in DOMAIN leads' : leads'[i].tg # w.tg
    /\ w.pc \in {"append", "sync"} => IdOfLead[m] \in DOMAIN leads'
    /\ w.pc = "sync" => sheet'[m] > 0
    /\ w.pc \in {"seen", "accepted"} => IdOfLead[m] \in DOMAIN leads' \/ m \in unsaved'

\* A new lead is the mover's.
OwnLeads(s) == \A i \in NewLeads : sub[s].pc = "save" /\ leads'[i].tg = sub[s].tg

LEMMA FiledStep ==
  ASSUME AccountInv, LeadIntakeAssumption, NEW s \in Submitters, sub[s].pc \in Busy,
         NEW w, Becomes(s, w), UNCHANGED seen, NEW m, m = sub[s].msg,
         Grown, Fits(m, w), OwnLeads(s)
  PROVE  /\ \A t \in Submitters : StepOK(t)'
         /\ \A k \in Sources : Dealt(k)' => Dealt(k) \/ IdOfLead[k] \in DOMAIN leads' \/ k \in unsaved'
<1>1. MailType /\ \A t \in Submitters : StepOK(t)
  BY DEF AccountInv
<1>2. /\ sub'[s] = w /\ \A t \in Submitters \ {s} : sub'[t] = sub[t]
      /\ w.pc \in ToldPCs => w.msg = m
  BY <1>1, MailAssumed DEF MailType, Becomes, Onward, ToldPCs, Answers
<1>3. ASSUME NEW t \in Submitters PROVE StepOK(t)'
  <2>1. CASE t = s
    BY <1>2, <2>1 DEF StepOK, Fits, ToldPCs
  <2>2. CASE t # s
    <3>1. ASSUME sub[t].pc = "save", NEW i \in NewLeads
          PROVE  leads'[i].tg # sub[t].tg
      <4>1. sub[s].pc = "save" /\ leads'[i].tg = sub[s].tg
        BY <3>1 DEF OwnLeads
      <4>2. group[sub[t].tg] = sub[t].msg /\ group[sub[s].tg] = sub[s].msg
        BY <1>1, <3>1, <4>1 DEF StepOK
      <4>3. sub[t].msg # sub[s].msg
        BY <1>1, <2>2, <3>1, <4>1, Alone
      <4>4. QED
        BY <4>1, <4>2, <4>3
    <3>2. QED
      BY <1>1, <1>2, <2>2, <3>1, StepKept
  <2>3. QED
    BY <2>1, <2>2
<1>4. ASSUME NEW k \in Sources, Dealt(k)'
      PROVE  Dealt(k) \/ IdOfLead[k] \in DOMAIN leads' \/ k \in unsaved'
  <2>1. CASE k = m
    <3>1. w.pc = "accepted"
      BY <1>1, <1>4, <2>1, HasMoves
    <3>2. QED
      BY <2>1, <3>1 DEF Fits
  <2>2. CASE k # m
    BY <1>1, <1>4, <2>2, HasMoves
  <2>3. QED
    BY <2>1, <2>2
<1>5. QED
  BY <1>3, <1>4

\* A step of a submission that leaves the table, the announcements or both.
LEMMA SameLeads ==
  ASSUME UNCHANGED leads
  PROVE  NewLeads = {}
BY DEF NewLeads

Filed == (\A t \in Submitters : StepOK(t)') /\ TableInv' /\ TapInv'

LEMMA ResolveFiled ==
  ASSUME AccountInv, LeadIntakeAssumption, NEW s \in Submitters, ResolveClient(s)
  PROVE  Filed
<1>1. PICK m : m = sub[s].msg
  OBVIOUS
<1>2. /\ sub[s].pc = "resolve" /\ sub[s].pc \in Busy
      /\ UNCHANGED <<seen, group, sheet, unsaved, taps, leads>>
      /\ MailType /\ TableInv /\ TapInv /\ NewLeads = {}
  BY SameLeads DEF ResolveClient, Busy, AccountInv
<1>3. PICK w : Becomes(s, w) /\ w.pc = "send"
  BY <1>2, ResolveMove DEF MailType
<1>4. Grown /\ OwnLeads(s) /\ Fits(m, w)
  BY <1>2, <1>3 DEF Grown, OwnLeads, Fits
<1>5. /\ \A t \in Submitters : StepOK(t)'
      /\ \A k \in Sources : Dealt(k)' => Dealt(k) \/ IdOfLead[k] \in DOMAIN leads' \/ k \in unsaved'
  BY <1>1, <1>2, <1>3, <1>4, FiledStep
<1>6. TableInv'
  BY <1>2, <1>4, <1>5, TableStep
<1>7. TapInv'
  BY <1>2 DEF TapInv, AreaAsTapped
<1>8. QED
  BY <1>5, <1>6, <1>7 DEF Filed

\* No lead has the place a new announcement takes.
LEMMA FreshPlace ==
  ASSUME AccountInv, NEW m \in Sources, Announce(m), UNCHANGED <<leads, sheet, unsaved>>
  PROVE  /\ Grown /\ TapInv'
         /\ Len(group) + 1 \in DOMAIN group' /\ group'[Len(group) + 1] = m
         /\ \A i \in DOMAIN leads' : leads'[i].tg # Len(group) + 1
<1>1. /\ group \in Seq(Sources) /\ taps \in Seq(Areas \cup {Blank}) /\ Len(taps) = Len(group)
  BY MailIs DEF AccountInv
<1>2. PICK n : n = Len(group) + 1
  OBVIOUS
<1>3. /\ group'[n] = m /\ \A t \in DOMAIN group : group'[t] = group[t]
      /\ DOMAIN group' = DOMAIN group \cup {n} /\ n \notin DOMAIN group
      /\ DOMAIN taps' = DOMAIN taps \cup {n} /\ DOMAIN taps = DOMAIN group
      /\ \A t \in DOMAIN taps : taps'[t] = taps[t]
  BY <1>1, <1>2, AnnounceType
<1>4. taps'[n] = Blank
  BY <1>1, <1>2, AnnounceType
<1>5. Grown
  BY <1>3 DEF Grown
<1>6. TapInv
  BY DEF AccountInv
<1>7. n # 0
  BY <1>1, <1>2
<1>8. \A i \in DOMAIN leads : leads[i].tg # n
  BY <1>3, <1>6, <1>7 DEF TapInv
<1>9. \A i \in NewLeads : leads'[i].tg # 0 =>
            /\ leads'[i].tg \in DOMAIN group' /\ IdOfLead[group'[leads'[i].tg]] = i
            /\ leads'[i].area = taps'[leads'[i].tg]
  BY SameLeads
<1>10. TapInv'
  <2>1. \A i \in DOMAIN leads : leads'[i].area = leads[i].area
    OBVIOUS
  <2>2. \A t \in DOMAIN taps' \ DOMAIN taps : taps'[t] = Blank
    BY <1>3, <1>4
  <2>3. QED
    BY <1>3, <1>5, <1>6, <1>9, <2>1, <2>2, TapStep
<1>11. QED
  BY <1>2, <1>3, <1>5, <1>8, <1>10

LEMMA SendFiled ==
  ASSUME AccountInv, LeadIntakeAssumption, NEW s \in Submitters, SendMessage(s)
  PROVE  Filed
<1>1. PICK m : m = sub[s].msg
  OBVIOUS
<1>2. /\ sub[s].pc = "send" /\ sub[s].pc \in Busy
      /\ UNCHANGED <<seen, sheet, unsaved, leads>>
      /\ MailType /\ TableInv /\ TapInv /\ NewLeads = {}
  BY SameLeads DEF SendMessage, Busy, AccountInv, tables
<1>3. m \in Sources
  BY <1>1, <1>2, AtStep
<1>4. PICK w : /\ Becomes(s, w)
               /\ \/ Announce(m) /\ w.pc = "save" /\ w.tg = Len(group) + 1
                  \/ w.pc \in {"idle", "refused"} /\ (Announce(m) \/ UNCHANGED <<group, taps>>)
  BY <1>1, <1>2, SendMove DEF MailType
<1>5. Announce(m) => /\ Grown /\ TapInv'
                     /\ Len(group) + 1 \in DOMAIN group' /\ group'[Len(group) + 1] = m
                     /\ \A i \in DOMAIN leads' : leads'[i].tg # Len(group) + 1
  BY <1>2, <1>3, FreshPlace
<1>6. Grown /\ TapInv'
  <2>1. CASE Announce(m)
    BY <1>5, <2>1
  <2>2. CASE UNCHANGED <<group, taps>>
    BY <1>2, <2>2 DEF Grown, TapInv, AreaAsTapped
  <2>3. QED
    BY <1>4, <2>1, <2>2
<1>7. Fits(m, w)
  BY <1>4, <1>5 DEF Fits
<1>8. OwnLeads(s)
  BY <1>2 DEF OwnLeads
<1>9. /\ \A t \in Submitters : StepOK(t)'
      /\ \A k \in Sources : Dealt(k)' => Dealt(k) \/ IdOfLead[k] \in DOMAIN leads' \/ k \in unsaved'
  BY <1>1, <1>2, <1>4, <1>6, <1>7, <1>8, FiledStep
<1>10. TableInv'
  BY <1>2, <1>6, <1>9, TableStep
<1>11. QED
  BY <1>6, <1>9, <1>10 DEF Filed

\* What the insert makes of the table: a new lead is the submission's, under its
\* announcement.
Inserted(t, i, s) == t = Stored(i, Incoming(s))

NewIsOwn(t, i, s) ==
    \A j \in DOMAIN t \ DOMAIN leads :
       j = i /\ t[j].tg = sub[s].tg /\ t[j].area = Blank /\ ~t[j].synced

LEMMA InsertedLead ==
  ASSUME MailType, NEW s \in Submitters, sub[s] \in Work, NEW i, NEW t, Inserted(t, i, s)
  PROVE  LeadAdded(t, i) /\ NewIsOwn(t, i, s)
<1>1. PICK row : row = Incoming(s)
  OBVIOUS
<1>2. /\ row \in LeadRow /\ row.tg = sub[s].tg
      /\ row.area = Blank /\ ~row.synced
  BY <1>1, IncomingLead
<1>3. WithLeadAt(t, i, row)
  BY <1>1 DEF WithLeadAt, Inserted
<1>4. LeadTable(leads)
  BY MailIs
<1>5. LeadAdded(t, i)
  BY <1>2, <1>3, <1>4, StoredRow
<1>6. i \notin DOMAIN leads => t[i] = row
  BY <1>2, <1>3, <1>4, StoredRow
<1>7. QED
  BY <1>2, <1>5, <1>6 DEF LeadAdded, NewIsOwn

\* The announcement a submission is about to store has no lead and no area.
LEMMA PlaceIsFree ==
  ASSUME AccountInv, NEW s \in Submitters, sub[s].pc = "save", NEW n, n = sub[s].tg
  PROVE  /\ n \in DOMAIN group /\ n \in DOMAIN taps /\ n # 0 /\ group[n] = sub[s].msg
         /\ taps[n] = Blank
<1>1. group \in Seq(Sources) /\ taps \in Seq(Areas \cup {Blank}) /\ Len(taps) = Len(group)
  BY MailIs DEF AccountInv
<1>2. DOMAIN group = 1 .. Len(group) /\ DOMAIN taps = 1 .. Len(group)
  BY <1>1
<1>3. n \in DOMAIN group /\ group[n] = sub[s].msg /\ \A i \in DOMAIN leads : leads[i].tg # n
  BY DEF AccountInv, StepOK
<1>4. taps[n] = Blank
  BY <1>2, <1>3 DEF AccountInv, TapInv, AreaAsTapped
<1>5. QED
  BY <1>2, <1>3, <1>4

LEMMA SaveFiled ==
  ASSUME AccountInv, LeadIntakeAssumption, NEW s \in Submitters, Save(s)
  PROVE  Filed
<1>1. PICK m, i, n : m = sub[s].msg /\ i = IdOfLead[m] /\ n = sub[s].tg
  OBVIOUS
<1>2. /\ sub[s].pc = "save" /\ sub[s].pc \in Busy /\ UNCHANGED <<seen, group, sheet, taps>>
      /\ MailType /\ TableInv /\ TapInv
  BY DEF Save, Busy, AccountInv
<1>3. PICK w : /\ Becomes(s, w)
               /\ \/ /\ w.pc \in {"append", "seen", "accepted"} /\ UNCHANGED unsaved
                     /\ sub[s].client \in Live(clients) \cup {0} \/ i \in DOMAIN leads
                     /\ leads' = Stored(i, Incoming(s))
                  \/ w.pc \in {"seen", "accepted"} /\ unsaved' = unsaved \cup {m} /\ UNCHANGED leads
  BY <1>1, <1>2, SaveMove DEF MailType
<1>4. /\ \A j \in DOMAIN leads : j \in DOMAIN leads' /\ leads'[j] = leads[j]
      /\ \A j \in NewLeads : /\ j = i /\ leads'[j].tg = n
                             /\ leads'[j].area = Blank /\ ~leads'[j].synced
      /\ w.pc = "append" => i \in DOMAIN leads'
      /\ w.pc # "append" => m \in unsaved' \/ i \in DOMAIN leads'
      /\ unsaved \subseteq unsaved'
  <2>1. CASE leads' = Stored(i, Incoming(s)) /\ UNCHANGED unsaved
             /\ (sub[s].client \in Live(clients) \cup {0} \/ i \in DOMAIN leads)
    <3>1. PICK t : t = Stored(i, Incoming(s))
      OBVIOUS
    <3>2. MailType /\ sub[s] \in Work /\ Inserted(t, i, s)
      BY <1>2, <3>1, AtStep DEF Inserted
    <3>3. LeadAdded(t, i) /\ NewIsOwn(t, i, s)
      BY <3>2, InsertedLead
    <3>4. leads' = t
      BY <2>1, <3>1
    <3>5. QED
      BY <1>1, <2>1, <3>3, <3>4 DEF NewLeads, LeadAdded, NewIsOwn
  <2>2. CASE UNCHANGED leads /\ w.pc \in {"seen", "accepted"} /\ unsaved' = unsaved \cup {m}
    BY <2>2, SameLeads
  <2>3. QED
    BY <1>3, <2>1, <2>2
<1>5. /\ n \in DOMAIN group /\ n \in DOMAIN taps /\ n # 0 /\ group[n] = m /\ taps[n] = Blank
  BY <1>1, <1>2, PlaceIsFree
<1>6. Grown
  BY <1>2, <1>4 DEF Grown
<1>7. Fits(m, w) /\ OwnLeads(s)
  <2>1. w.pc \in {"append", "seen", "accepted"}
    BY <1>3
  <2>2. Fits(m, w)
    BY <1>1, <1>4, <2>1 DEF Fits
  <2>3. OwnLeads(s)
    BY <1>1, <1>2, <1>4 DEF OwnLeads
  <2>4. QED
    BY <2>2, <2>3
<1>8. /\ \A t \in Submitters : StepOK(t)'
      /\ \A k \in Sources : Dealt(k)' => Dealt(k) \/ IdOfLead[k] \in DOMAIN leads' \/ k \in unsaved'
  BY <1>1, <1>2, <1>3, <1>6, <1>7, FiledStep
<1>9. TableInv'
  <2>1. \A j \in DOMAIN leads' :
           leads'[j].synced /\ leads'[j].tg # 0 =>
              \/ j \in DOMAIN leads /\ leads[j].synced
              \/ \E k \in Sources : IdOfLead[k] = j /\ sheet'[k] > 0
    BY <1>4 DEF NewLeads
  <2>2. \A k \in Sources : sheet'[k] > 0 => sheet[k] > 0 \/ IdOfLead[k] \in DOMAIN leads'
    BY <1>2
  <2>3. QED
    BY <1>2, <1>6, <1>8, <2>1, <2>2, TableStep
<1>10. TapInv'
  <2>1. DOMAIN group = DOMAIN taps
    <3>1. group \in Seq(Sources) /\ taps \in Seq(Areas \cup {Blank}) /\ Len(taps) = Len(group)
      BY <1>2, MailIs
    <3>2. QED
      BY <3>1
  <2>2. \A j \in DOMAIN leads : leads'[j].area = leads[j].area
    BY <1>4
  <2>3. UNCHANGED taps /\ UNCHANGED group
    BY <1>2
  <2>4. ASSUME NEW j \in NewLeads
        PROVE  /\ leads'[j].tg \in DOMAIN group' /\ IdOfLead[group'[leads'[j].tg]] = j
               /\ leads'[j].area = taps'[leads'[j].tg]
    <3>1. j = i /\ leads'[j].tg = n /\ leads'[j].area = Blank
      BY <1>4
    <3>2. QED
      BY <1>1, <1>5, <2>3, <3>1
  <2>5. QED
    BY <1>2, <1>6, <2>1, <2>2, <2>3, <2>4, TapStep
<1>11. QED
  BY <1>8, <1>9, <1>10 DEF Filed

LEMMA AppendFiled ==
  ASSUME AccountInv, LeadIntakeAssumption, NEW s \in Submitters, AppendRow(s)
  PROVE  Filed
<1>1. PICK m \in Sources : m = sub[s].msg
  BY AtWork DEF AppendRow, AccountInv, MailType, Busy
<1>2. /\ sub[s].pc = "append" /\ sub[s].pc \in Busy
      /\ UNCHANGED <<seen, group, unsaved, taps, leads>>
      /\ MailType /\ TableInv /\ TapInv /\ NewLeads = {}
  BY SameLeads DEF AppendRow, Busy, AccountInv, tables
<1>3. PICK t : t = [sheet EXCEPT ![m] = @ + 1]
  OBVIOUS
<1>4. PICK w : /\ Becomes(s, w)
               /\ \/ w.pc = "sync" /\ sheet' = t
                  \/ w.pc \in {"seen", "accepted"} /\ sheet' \in {sheet, t}
  BY <1>1, <1>2, <1>3, AppendMove DEF MailType
<1>5. /\ \A k \in Sources \ {m} : t[k] = sheet[k]
      /\ t[m] = sheet[m] + 1 /\ sheet[m] \in Nat
  <2>1. sheet \in [Sources -> Nat]
    BY <1>2, MailIs
  <2>2. QED
    BY <1>3, <2>1
<1>6. IdOfLead[m] \in DOMAIN leads'
  BY <1>1, <1>2 DEF AccountInv, StepOK
<1>7. \A k \in Sources : /\ sheet[k] > 0 => sheet'[k] > 0
                         /\ sheet'[k] > 0 => sheet[k] > 0 \/ IdOfLead[k] \in DOMAIN leads'
  BY <1>4, <1>5, <1>6
<1>8. Grown /\ OwnLeads(s)
  BY <1>2, <1>7 DEF Grown, OwnLeads
<1>9. w.pc = "sync" => sheet'[m] > 0
  BY <1>4, <1>5
<1>10. Fits(m, w)
  BY <1>4, <1>6, <1>9 DEF Fits
<1>11. /\ \A u \in Submitters : StepOK(u)'
       /\ \A k \in Sources : Dealt(k)' => Dealt(k) \/ IdOfLead[k] \in DOMAIN leads' \/ k \in unsaved'
  BY <1>1, <1>2, <1>4, <1>8, <1>10, FiledStep
<1>12. TableInv'
  BY <1>2, <1>7, <1>8, <1>11, TableStep
<1>13. TapInv'
  BY <1>2 DEF TapInv, AreaAsTapped
<1>14. QED
  BY <1>11, <1>12, <1>13 DEF Filed

\* Only a lead with its row is marked.
LEMMA SyncFiled ==
  ASSUME AccountInv, LeadIntakeAssumption, NEW s \in Submitters, MarkSheetSynced(s)
  PROVE  Filed
<1>1. PICK m, i : m = sub[s].msg /\ i = IdOfLead[m]
  OBVIOUS
<1>2. /\ sub[s].pc = "sync" /\ sub[s].pc \in Busy
      /\ UNCHANGED <<seen, group, sheet, unsaved, taps>>
      /\ MailType /\ TableInv /\ TapInv
  BY DEF MarkSheetSynced, Busy, AccountInv
<1>3. PICK w : Becomes(s, w) /\ w.pc \in {"seen", "accepted"}
  BY <1>2, SyncMove DEF MailType
<1>4. m \in Sources
  BY <1>1, <1>2, AtStep
<1>5. i \in DOMAIN leads /\ sheet[m] > 0
  BY <1>1, <1>2 DEF AccountInv, StepOK
<1>6. /\ DOMAIN leads' = DOMAIN leads
      /\ \A j \in DOMAIN leads : /\ leads'[j].tg = leads[j].tg /\ leads'[j].area = leads[j].area
                                 /\ j # i => leads'[j] = leads[j]
  <2>1. PICK k : k = Synced(leads, i)
    OBVIOUS
  <2>2. /\ DOMAIN k = DOMAIN leads
        /\ \A j \in DOMAIN leads : /\ k[j].tg = leads[j].tg /\ k[j].area = leads[j].area
                                   /\ j # i => k[j] = leads[j]
    BY <1>2, <2>1, MailIs, SyncedLeads
  <2>3. leads' \in {leads, k}
    BY <1>1, <2>1 DEF MarkSheetSynced, Synced
  <2>4. QED
    BY <2>2, <2>3
<1>7. NewLeads = {}
  BY <1>6 DEF NewLeads
<1>8. Grown /\ OwnLeads(s) /\ Fits(m, w)
  BY <1>1, <1>2, <1>3, <1>5, <1>6, <1>7 DEF Grown, OwnLeads, Fits
<1>9. /\ \A t \in Submitters : StepOK(t)'
      /\ \A k \in Sources : Dealt(k)' => Dealt(k) \/ IdOfLead[k] \in DOMAIN leads' \/ k \in unsaved'
  BY <1>1, <1>2, <1>3, <1>8, FiledStep
<1>10. TableInv'
  <2>1. \A j \in DOMAIN leads' :
           leads'[j].synced /\ leads'[j].tg # 0 =>
              \/ j \in DOMAIN leads /\ leads[j].synced
              \/ \E k \in Sources : IdOfLead[k] = j /\ sheet'[k] > 0
    <3>1. \E k \in Sources : IdOfLead[k] = i /\ sheet'[k] > 0
      BY <1>1, <1>2, <1>4, <1>5
    <3>2. QED
      BY <1>6, <3>1
  <2>2. QED
    BY <1>2, <1>8, <1>9, <2>1, TableStep
<1>11. TapInv'
  BY <1>2, <1>6 DEF TapInv, AreaAsTapped
<1>12. QED
  BY <1>9, <1>10, <1>11 DEF Filed

LEMMA SeenFiled ==
  ASSUME AccountInv, LeadIntakeAssumption, MarkSeen
  PROVE  Filed
<1>1. PICK m : m = sub[Poller].msg
  OBVIOUS
<1>2. /\ sub[Poller].pc = "seen" /\ sub' = [sub EXCEPT ![Poller] = Waiting]
      /\ UNCHANGED <<group, sheet, unsaved, taps, leads>>
      /\ seen' = seen \cup {m} \/ UNCHANGED seen
      /\ MailType /\ TableInv /\ TapInv /\ NewLeads = {}
  BY <1>1, SameLeads DEF MarkSeen, AccountInv, tables
<1>3. PICK w : w = Waiting
  OBVIOUS
<1>4. w.pc = "idle"
  BY <1>3 DEF Waiting, Doing
<1>5. /\ Poller \in Submitters /\ Poller \notin Requests /\ Requests \subseteq Submitters
      /\ sub \in [Submitters -> Work]
  BY <1>2, MailAssumed DEF MailType
<1>6. sub'[Poller] = w /\ \A t \in Submitters \ {Poller} : sub'[t] = sub[t]
  BY <1>2, <1>3, <1>5
<1>7. Grown
  BY <1>2 DEF Grown
<1>8. ASSUME NEW t \in Submitters PROVE StepOK(t)'
  <2>1. CASE t = Poller
    BY <1>4, <1>6, <2>1 DEF StepOK
  <2>2. CASE t # Poller
    <3>1. sub'[t] = sub[t] /\ StepOK(t)
      BY <1>6, <2>2 DEF AccountInv
    <3>2. QED
      BY <1>2, <1>7, <3>1, StepKept
  <2>3. QED
    BY <2>1, <2>2
<1>9. IdOfLead[m] \in DOMAIN leads' \/ m \in unsaved'
  BY <1>1, <1>2, <1>5 DEF AccountInv, StepOK
<1>10. \A k \in Sources : Dealt(k)' => Dealt(k) \/ IdOfLead[k] \in DOMAIN leads' \/ k \in unsaved'
  BY <1>2, <1>5, <1>6, <1>9 DEF Dealt
<1>11. TableInv'
  BY <1>2, <1>7, <1>10, TableStep
<1>12. TapInv'
  BY <1>2 DEF TapInv, AreaAsTapped
<1>13. QED
  BY <1>8, <1>11, <1>12 DEF Filed

LEMMA CrashFiled ==
  ASSUME AccountInv, LeadIntakeAssumption, Crash
  PROVE  Filed
<1>1. /\ sub' = [s \in Submitters |-> Forgotten(s)]
      /\ UNCHANGED <<seen, group, sheet, unsaved, taps, leads>>
      /\ TableInv /\ TapInv /\ NewLeads = {}
  BY SameLeads DEF Crash, Forgotten, AccountInv, tables
<1>2. \A s \in Submitters : /\ sub'[s].pc \in {"idle", "accepted", "refused"}
                            /\ sub'[s].pc = "accepted" <=> sub[s].pc = "accepted"
  BY <1>1 DEF Forgotten, Ended, Waiting, Doing
<1>3. \A s \in Submitters : StepOK(s)'
  BY <1>2 DEF StepOK
<1>4. Grown
  BY <1>1 DEF Grown
<1>5. Requests \subseteq Submitters
  BY DEF Submitters
<1>6. \A k \in Sources : Dealt(k)' => Dealt(k) \/ IdOfLead[k] \in DOMAIN leads' \/ k \in unsaved'
  BY <1>1, <1>2, <1>5 DEF Dealt
<1>7. TableInv'
  BY <1>1, <1>4, <1>6, TableStep
<1>8. TapInv'
  BY <1>1 DEF TapInv, AreaAsTapped
<1>9. QED
  BY <1>3, <1>7, <1>8 DEF Filed

\* What a tap says is saved is saved, in all the leads of that announcement.
LEMMA TapKeeps ==
  ASSUME AccountInv, LeadIntakeAssumption, SetPracticeArea
  PROVE  Quiet /\ TapInv'
<1>1. UNCHANGED <<seen, group, sheet, sub, again, unsaved>> /\ MailType /\ TapInv
  BY DEF SetPracticeArea, AccountInv
<1>2. PICK tg \in DOMAIN group, a \in Areas :
         IF AnnouncedAs(tg) = {} THEN UNCHANGED <<leads, taps>>
         ELSE leads' = Tapped(leads, AnnouncedAs(tg), a) /\ taps' = [taps EXCEPT ![tg] = a]
  BY DEF SetPracticeArea, Tapped
<1>3. CASE AnnouncedAs(tg) = {}
  <2>1. UNCHANGED <<leads, taps>>
    BY <1>2, <1>3
  <2>2. NewLeads = {}
    BY <2>1, SameLeads
  <2>3. Quiet
    BY <1>1, <2>1, <2>2 DEF Quiet
  <2>4. TapInv'
    BY <1>1, <2>1 DEF TapInv, AreaAsTapped
  <2>5. QED
    BY <2>3, <2>4
<1>4. CASE AnnouncedAs(tg) # {}
  <2>1. PICK k : k = Tapped(leads, AnnouncedAs(tg), a)
    OBVIOUS
  <2>2. leads' = k /\ taps' = [taps EXCEPT ![tg] = a]
    BY <1>2, <1>4, <2>1
  <2>3. /\ DOMAIN k = DOMAIN leads
        /\ \A i \in DOMAIN leads : /\ k[i].tg = leads[i].tg /\ k[i].synced = leads[i].synced
                                   /\ k[i].area = IF i \in AnnouncedAs(tg) THEN a ELSE leads[i].area
    BY <1>1, <2>1, MailIs, TappedLeads
  <2>4. NewLeads = {}
    BY <2>2, <2>3 DEF NewLeads
  <2>5. Quiet
    BY <1>1, <2>2, <2>3, <2>4 DEF Quiet
  <2>6. tg \in DOMAIN taps /\ DOMAIN taps = DOMAIN group
    <3>1. group \in Seq(Sources) /\ taps \in Seq(Areas \cup {Blank}) /\ Len(taps) = Len(group)
      BY <1>1, MailIs
    <3>2. QED
      BY <3>1
  <2>7. /\ DOMAIN taps' = DOMAIN taps /\ taps'[tg] = a
        /\ \A t \in DOMAIN taps \ {tg} : taps'[t] = taps[t]
    BY <2>2, <2>6
  <2>8. ASSUME NEW i \in DOMAIN leads', leads'[i].tg # 0
        PROVE  /\ leads'[i].tg \in DOMAIN group' /\ IdOfLead[group'[leads'[i].tg]] = i
               /\ leads'[i].area = taps'[leads'[i].tg]
    <3>1. /\ i \in DOMAIN leads /\ leads'[i].tg = leads[i].tg
          /\ leads'[i].area = IF i \in AnnouncedAs(tg) THEN a ELSE leads[i].area
          /\ i \in AnnouncedAs(tg) <=> leads[i].tg = tg
      BY <2>2, <2>3 DEF AnnouncedAs
    <3>2. leads[i].tg \in DOMAIN group
      BY <1>1, <2>8, <3>1 DEF TapInv
    <3>3. IdOfLead[group[leads[i].tg]] = i /\ leads[i].area = taps[leads[i].tg]
      BY <1>1, <2>8, <3>1 DEF TapInv, AreaAsTapped
    <3>4. QED
      BY <1>1, <2>6, <2>7, <3>1, <3>2, <3>3
  <2>9. ASSUME NEW t \in DOMAIN taps', taps'[t] # Blank
        PROVE  \E i \in DOMAIN leads' : leads'[i].tg = t
    <3>1. CASE t = tg
      <4>1. PICK i \in DOMAIN leads : leads[i].tg = tg
        BY <1>4 DEF AnnouncedAs
      <4>2. QED
        BY <2>2, <2>3, <3>1, <4>1
    <3>2. CASE t # tg
      <4>1. t \in DOMAIN taps /\ taps[t] # Blank
        BY <2>7, <2>9, <3>2
      <4>2. PICK i \in DOMAIN leads : leads[i].tg = t
        BY <1>1, <4>1 DEF TapInv, AreaAsTapped
      <4>3. QED
        BY <2>2, <2>3, <4>2
    <3>3. QED
      BY <3>1, <3>2
  <2>10. TapInv'
    BY <2>8, <2>9 DEF TapInv, AreaAsTapped
  <2>11. QED
    BY <2>5, <2>10
<1>5. QED
  BY <1>3, <1>4

\* A mail arrives or is taken up, a request is made.
LEMMA TakenUp ==
  ASSUME AccountInv, LeadIntakeAssumption, Arrive \/ FetchUnseen \/ TakeMail \/ Submit
  PROVE  Quiet /\ TapInv'
<1>1. UNCHANGED <<seen, group, sheet, again, unsaved, taps, leads>> /\ NewLeads = {} /\ TapInv
  BY SameLeads DEF Arrive, FetchUnseen, TakeMail, Submit, tables, AccountInv
<1>2. sub \in [Submitters -> Work] /\ Poller \in Submitters /\ Requests \subseteq Submitters
  BY MailAssumed DEF AccountInv, MailType
<1>3. \A m : Doing("resolve", m, 0, 0).pc = "resolve"
  BY DEF Doing
<1>4. ASSUME NEW t \in Submitters
      PROVE  sub'[t] = sub[t] \/ (sub[t].pc = "idle" /\ sub'[t].pc = "resolve")
  <2>1. CASE Arrive \/ FetchUnseen
    BY <2>1 DEF Arrive, FetchUnseen
  <2>2. CASE TakeMail
    <3>1. PICK w : w = Doing("resolve", Min(batch), 0, 0)
      OBVIOUS
    <3>2. sub[Poller].pc = "idle" /\ sub' = [sub EXCEPT ![Poller] = w] /\ w.pc = "resolve"
      BY <1>3, <2>2, <3>1 DEF TakeMail
    <3>3. QED
      BY <1>2, <3>2
  <2>3. CASE Submit
    <3>1. PICK r \in Requests :
             sub[r] = Waiting /\ sub' = [sub EXCEPT ![r] = Doing("resolve", r, 0, 0)]
      BY <2>3 DEF Submit
    <3>2. PICK w : w = Doing("resolve", r, 0, 0)
      OBVIOUS
    <3>3. sub[r].pc = "idle" /\ sub' = [sub EXCEPT ![r] = w] /\ w.pc = "resolve"
      BY <1>3, <3>1, <3>2 DEF Waiting, Doing
    <3>4. QED
      BY <1>2, <3>3
  <2>4. QED
    BY <2>1, <2>2, <2>3
<1>5. Quiet
  BY <1>1, <1>4 DEF Quiet
<1>6. TapInv'
  BY <1>1 DEF TapInv, AreaAsTapped
<1>7. QED
  BY <1>5, <1>6

-----------------------------------------------------------------------------
(* The whole invariant. *)

LEMMA SubmissionAccounts ==
  ASSUME AccountInv, LeadIntakeAssumption, NEW s \in Submitters,
         \/ ResolveClient(s) \/ SendMessage(s) \/ Save(s) \/ AppendRow(s) \/ MarkSheetSynced(s)
  PROVE  CountInv' /\ Filed
<1>1. CASE ResolveClient(s)
  BY <1>1, ResolveCount, ResolveFiled
<1>2. CASE SendMessage(s)
  BY <1>2, SendCount, SendFiled
<1>3. CASE Save(s)
  BY <1>3, SaveCount, SaveFiled
<1>4. CASE AppendRow(s)
  BY <1>4, AppendCount, AppendFiled
<1>5. CASE MarkSheetSynced(s)
  BY <1>5, SyncCount, SyncFiled
<1>6. QED
  BY <1>1, <1>2, <1>3, <1>4, <1>5

LEMMA ArrivalAccounts ==
  ASSUME AccountInv, LeadIntakeAssumption, Arrival
  PROVE  CountInv' /\ Filed
<1>1. CASE SetPracticeArea
  BY <1>1, TapKeeps, QuietKeeps DEF Filed
<1>2. CASE Arrive \/ FetchUnseen \/ TakeMail \/ Submit
  BY <1>2, TakenUp, QuietKeeps DEF Filed
<1>3. CASE MarkSeen
  BY <1>3, SeenCount, SeenFiled
<1>4. CASE Crash
  BY <1>4, CrashCount, CrashFiled
<1>5. ASSUME NEW s \in Submitters,
             \/ ResolveClient(s) \/ SendMessage(s) \/ Save(s) \/ AppendRow(s) \/ MarkSheetSynced(s)
      PROVE  CountInv' /\ Filed
  BY <1>5, SubmissionAccounts
<1>6. QED
  BY <1>1, <1>2, <1>3, <1>4, <1>5 DEF Arrival, IntakeNext, PollStep, Submitters

\* An imported lead was never announced.
LEMMA ImportAccounts ==
  ASSUME AccountInv, LeadIntakeAssumption, NEW b, GoodBase(b), leads' = b.leads, UNCHANGED intake
  PROVE  CountInv' /\ Filed
<1>1. /\ UNCHANGED <<seen, group, sheet, sub, again, unsaved, taps>> /\ MailType /\ TapInv
  BY DEF intake, AccountInv
<1>2. /\ DOMAIN leads \subseteq DOMAIN leads' /\ \A i \in DOMAIN leads : leads'[i] = leads[i]
      /\ \A i \in NewLeads : leads'[i].tg = 0
  BY DEF GoodBase, NewLeads
<1>3. Quiet
  BY <1>1, <1>2 DEF Quiet
<1>4. Grown /\ (\A s \in Submitters : StepOK(s)') /\ CountInv' /\ TableInv'
  BY <1>3, QuietKeeps
<1>5. DOMAIN group = DOMAIN taps
  <2>1. group \in Seq(Sources) /\ taps \in Seq(Areas \cup {Blank}) /\ Len(taps) = Len(group)
    BY <1>1, MailIs
  <2>2. QED
    BY <2>1
<1>6. TapInv'
  <2>1. \A i \in DOMAIN leads : leads'[i].area = leads[i].area
    BY <1>2
  <2>2. \A i \in NewLeads : leads'[i].tg # 0 =>
            /\ leads'[i].tg \in DOMAIN group' /\ IdOfLead[group'[leads'[i].tg]] = i
            /\ leads'[i].area = taps'[leads'[i].tg]
    BY <1>2
  <2>3. QED
    BY <1>1, <1>4, <1>5, <2>1, <2>2, TapStep
<1>7. QED
  BY <1>4, <1>6 DEF Filed

\* Nobody else writes what the intake reads.
LEMMA OthersAccount ==
  ASSUME AccountInv, LeadIntakeAssumption, UNCHANGED <<leads, intake>>
  PROVE  CountInv' /\ Filed
<1>1. /\ UNCHANGED <<seen, group, sheet, sub, again, unsaved, taps, leads>> /\ TapInv /\ NewLeads = {}
  BY SameLeads DEF intake, AccountInv
<1>2. Quiet
  BY <1>1 DEF Quiet
<1>3. TapInv'
  BY <1>1 DEF TapInv, AreaAsTapped
<1>4. QED
  BY <1>2, <1>3, QuietKeeps DEF Filed

LEMMA NextAccounts ==
  ASSUME Assumptions, AccountInv, HistoryTypeOK, [Next]_vars
  PROVE  AccountInv' /\ HistoryTypeOK'
<1>1. /\ ClientBaseAssumption /\ LeadIntakeAssumption /\ HistoryImportAssumption
      /\ MailType /\ RefInv
  BY DEF Assumptions, AccountInv, RefInv
<1>2. MailType' /\ HistoryTypeOK'
  BY <1>1, NextRefers DEF RefInv
<1>3. CountInv' /\ Filed
  <2>1. CASE UNCHANGED vars
    BY <1>1, <2>1, OthersAccount DEF vars, staff, tables
  <2>2. CASE Arrival
    BY <1>1, <2>2, ArrivalAccounts
  <2>3. CASE (Import55k \/ ImportCases \/ EditTab) /\ UNCHANGED <<staff, intake, scene>>
    <3>1. GoodBase(Base)
      BY <1>1, BaseGood, MailIs DEF MailType
    <3>2. CASE Import55k
      <4>1. PICK b \in Results55k(Base) : Commit(b, "import55k")
        BY <3>2 DEF Import55k
      <4>2. GoodBase(b) /\ leads' = b.leads
        BY <1>1, <3>1, <4>1, ResultsGood DEF Commit
      <4>3. QED
        BY <1>1, <2>3, <4>2, ImportAccounts
    <3>3. CASE ImportCases
      <4>1. PICK b : b = ResultOfCases(Base)
        OBVIOUS
      <4>2. GoodBase(b) /\ leads' = b.leads
        BY <1>1, <3>1, <3>3, <4>1, CasesGood DEF ImportCases, Commit
      <4>3. QED
        BY <1>1, <2>3, <4>2, ImportAccounts
    <3>4. CASE EditTab
      <4>1. UNCHANGED <<leads, intake>>
        BY <2>3, <3>4 DEF EditTab, tables
      <4>2. QED
        BY <1>1, <4>1, OthersAccount
    <3>5. QED
      BY <2>3, <3>2, <3>3, <3>4
  <2>4. CASE (Deletion \/ StaffNext \/ Tick) /\ UNCHANGED intake
    <3>1. UNCHANGED leads
      BY <2>4, StaffLeaveLeads DEF StaffNext
    <3>2. QED
      BY <1>1, <2>4, <3>1, OthersAccount
  <2>5. QED
    BY <2>1, <2>2, <2>3, <2>4 DEF Next
<1>4. QED
  BY <1>2, <1>3 DEF AccountInv, Filed

LEMMA StartAccounts ==
  ASSUME Assumptions, Start
  PROVE  AccountInv /\ HistoryTypeOK
<1>1. MailType /\ HistoryTypeOK
  BY StartRefers DEF RefInv
<1>2. /\ DOMAIN leads = {} /\ group = <<>> /\ taps = <<>> /\ seen = {}
      /\ sheet = [m \in Sources |-> 0] /\ again = [m \in Sources |-> 0]
      /\ sub = [s \in Submitters |-> Waiting]
  BY DEF Start, Init, IntakeInit
<1>3. \A s \in Submitters : sub[s].pc = "idle"
  BY <1>2 DEF Waiting, Doing
<1>4. \A s \in Submitters : StepOK(s)
  BY <1>3 DEF StepOK
<1>5. Requests \subseteq Submitters
  BY DEF Submitters
<1>6. ASSUME NEW m \in Sources
      PROVE  ~Dealt(m) /\ ~Has(m) /\ ~Written(m) /\ Announced(m) = 0 /\ again[m] = 0 /\ sheet[m] = 0
  <2>1. ~Dealt(m)
    BY <1>2, <1>3, <1>5 DEF Dealt
  <2>2. ~Has(m) /\ ~Written(m)
    BY <1>3, <2>1 DEF Has, Written, Told
  <2>3. {t \in DOMAIN group : group[t] = m} = {}
    BY <1>2
  <2>4. Announced(m) = 0
    BY <2>3, FS_EmptySet DEF Announced
  <2>5. QED
    BY <1>2, <2>1, <2>2, <2>4
<1>7. CountInv
  BY <1>6, CountIs
<1>8. TableInv
  BY <1>2, <1>6 DEF TableInv, StoredOrRefused
<1>9. TapInv
  BY <1>2 DEF TapInv, AreaAsTapped
<1>10. QED
  BY <1>1, <1>4, <1>7, <1>8, <1>9 DEF AccountInv

\* The inductive invariant: the tables have their types and refer to what is there,
\* a submission works on a message of its own, and what it has done is there.
THEOREM ClientsCorrect == Spec => []ClientsInv
<1>1. Assumptions
  BY ClientBaseAssumption, LeadIntakeAssumption, HistoryImportAssumption DEF Assumptions
<1>2. Start => AccountInv /\ HistoryTypeOK
  BY <1>1, StartAccounts
<1>3. AccountInv /\ HistoryTypeOK /\ [Next]_vars => AccountInv' /\ HistoryTypeOK'
  BY <1>1, NextAccounts
<1>4. AccountInv /\ HistoryTypeOK => ClientsInv
  BY DEF AccountInv, MailType, SubType, ClientsInv, IntakeInv
<1>5. QED
  BY <1>2, <1>3, <1>4, PTL DEF Spec

\* Whatever comes between a deletion's count and its statement, a lead, a note or
\* an import, no row is left that names a client who is gone (Delete).
THEOREM NoDanglingReference == Spec => []ReferencesHold
<1>1. ClientsInv => ReferencesHold
  BY DEF ClientsInv
<1>2. QED
  BY <1>1, ClientsCorrect, PTL

\* Whatever failed between announcing a lead, storing it, writing it to the sheet
\* and marking its mail, and whatever staff tapped meanwhile, the group, the table
\* and the sheet tell of the same leads (handleLead, SubmitLead, SetPracticeArea).
THEOREM EveryLeadAccounted == Spec => []LeadsAccounted
<1>1. ASSUME ClientsInv
      PROVE  LeadsAccounted
  <2>1. CountInv /\ TableInv /\ TapInv /\ IntakeTypeOK
    BY <1>1 DEF ClientsInv, IntakeInv
  <2>2. ASSUME NEW m \in Sources
        PROVE  sheet[m] <= Announced(m)
    <3>1. /\ Announced(m) = again[m] + (IF Has(m) THEN 1 ELSE 0)
          /\ sheet[m] <= again[m] + (IF Written(m) THEN 1 ELSE 0)
      BY <2>1, CountIs
    <3>2. Written(m) => Has(m)
      BY DEF Written, Has, Told
    <3>3. again[m] \in Nat /\ sheet[m] \in Nat
      BY <2>1 DEF IntakeTypeOK
    <3>4. QED
      BY <3>1, <3>2, <3>3
  <2>3. SheetFollows
    BY <2>1, <2>2 DEF SheetFollows, TableInv
  <2>4. QED
    BY <2>1, <2>3 DEF LeadsAccounted, CountInv, TableInv, TapInv
<1>2. QED
  BY <1>1, ClientsCorrect, PTL

-----------------------------------------------------------------------------
(* The dashboards: their tables, and their totals as sums over them.       *)

StatBase == BaseTypeOK /\ LeadTable(leads) /\ ReferencesHold

Worths == [i \in DOMAIN consults |-> consults[i].price]
Fees == [i \in DOMAIN cases |-> cases[i].fee]
Paids == [i \in DOMAIN cases |-> cases[i].paid]
Owings == [i \in DOMAIN cases |-> Outstanding(i)]

LEMMA RowsFinite ==
  ASSUME NEW R, NEW t \in Seq(R)
  PROVE  IsFiniteSet(DOMAIN t) /\ DOMAIN t \subseteq Nat \ {0} /\ \A i \in DOMAIN t : t[i] \in R
<1>1. PICK n \in Nat : n = Len(t)
  OBVIOUS
<1>2. DOMAIN t = 1 .. n /\ \A i \in 1 .. n : t[i] \in R
  BY <1>1
<1>3. IsFiniteSet(1 .. n)
  BY FS_Interval, SMTT(60)
<1>4. QED
  BY <1>2, <1>3

LEMMA StatRows ==
  ASSUME StatBase
  PROVE  /\ IsFiniteSet(DOMAIN leads) /\ IsFiniteSet(DOMAIN consults) /\ IsFiniteSet(DOMAIN cases)
         /\ IsFiniteSet(Live(clients)) /\ 0 \notin Live(clients)
         /\ DOMAIN consults \subseteq Nat
         /\ \A m \in DOMAIN leads : leads[m].day \in Days /\ leads[m].client \in Live(clients) \cup {0}
         /\ \A i \in DOMAIN consults : /\ consults[i].client \in Live(clients)
                                       /\ consults[i].created \in Days /\ consults[i].price \in Nat
         /\ \A i \in DOMAIN cases : /\ cases[i].client \in Live(clients) /\ cases[i].created \in Days
                                    /\ cases[i].fee \in Nat /\ cases[i].paid \in Nat
         /\ \A c \in Live(clients) : clients[c].pin \in Segments \cup {Blank}
<1>1. IsFiniteSet(DOMAIN leads) /\ \A m \in DOMAIN leads : leads[m].day \in Days
  BY DEF StatBase, LeadTable, LeadRow
<1>2. /\ IsFiniteSet(DOMAIN consults) /\ DOMAIN consults \subseteq Nat
      /\ \A i \in DOMAIN consults : consults[i] \in ConsultationRow
  BY RowsFinite DEF StatBase, BaseTypeOK
<1>3. IsFiniteSet(DOMAIN cases) /\ \A i \in DOMAIN cases : cases[i] \in CaseRecord
  BY RowsFinite DEF StatBase, BaseTypeOK
<1>4. /\ IsFiniteSet(DOMAIN clients) /\ DOMAIN clients \subseteq Nat \ {0}
      /\ \A c \in DOMAIN clients : clients[c] \in ClientRow
  BY RowsFinite DEF StatBase, BaseTypeOK
<1>5. Live(clients) \subseteq DOMAIN clients
  BY DEF Live
<1>6. IsFiniteSet(Live(clients)) /\ 0 \notin Live(clients)
  BY <1>4, <1>5, FS_Subset
<1>7. \A c \in Live(clients) : clients[c].pin \in Segments \cup {Blank}
  BY <1>4, <1>5, RowFields
<1>8. /\ \A m \in DOMAIN leads : leads[m].client \in Live(clients) \cup {0}
      /\ \A i \in DOMAIN consults : consults[i].client \in Live(clients)
      /\ \A i \in DOMAIN cases : cases[i].client \in Live(clients)
  BY DEF StatBase, ReferencesHold
<1>9. \A i \in DOMAIN consults : consults[i].created \in Days /\ consults[i].price \in Nat
  BY <1>2 DEF ConsultationRow
<1>10. \A i \in DOMAIN cases : cases[i].created \in Days /\ cases[i].fee \in Nat /\ cases[i].paid \in Nat
  BY <1>3 DEF CaseRecord
<1>11. QED
  BY <1>1, <1>2, <1>3, <1>6, <1>7, <1>8, <1>9, <1>10

LEMMA GreaterOfTwo ==
  ASSUME NEW x \in Int
  PROVE  Max({x, 0}) \in Nat /\ x <= Max({x, 0})
<1>1. PICK S : S = {x, 0}
  OBVIOUS
<1>2. \E m \in S : \A y \in S : m >= y
  BY <1>1
<1>3. Max(S) \in S /\ \A y \in S : Max(S) >= y
  BY <1>2 DEF Max
<1>4. QED
  BY <1>1, <1>3

LEMMA WorthSum ==
  ASSUME StatBase, NEW S, S \subseteq DOMAIN consults
  PROVE  /\ IsFiniteSet(S) /\ \A i \in S : Worths[i] \in Nat
         /\ Sum(Worth, S) = SumOf(Worths, S) /\ SumOf(Worths, S) \in Nat
<1> DEFINE f == [i \in S |-> Worth(i)]
<1>1. IsFiniteSet(S) /\ \A i \in S : Worths[i] \in Nat /\ f[i] \in Int /\ f[i] = Worths[i]
  BY StatRows, FS_Subset DEF Worths, Worth
<1>2. DOMAIN f = S /\ Sum(Worth, S) = SumFunction(f)
  BY DEF Sum
<1> HIDE DEF f
<1>3. SumFunction(f) = SumOf(Worths, S)
  BY <1>1, <1>2, TermsSum
<1>4. SumOf(Worths, S) \in Nat
  BY <1>1, SumNat
<1>5. QED
  BY <1>1, <1>2, <1>3, <1>4

LEMMA CaseSums ==
  ASSUME StatBase, NEW S, S \subseteq DOMAIN cases
  PROVE  /\ IsFiniteSet(S)
         /\ \A i \in S : Fees[i] \in Nat /\ Paids[i] \in Nat /\ Owings[i] \in Nat
         /\ Sum(Agreed, S) = SumOf(Fees, S) /\ SumOf(Fees, S) \in Nat
         /\ Sum(Received, S) = SumOf(Paids, S) /\ SumOf(Paids, S) \in Nat
         /\ Sum(Outstanding, S) = SumOf(Owings, S) /\ SumOf(Owings, S) \in Nat
         /\ SumOf(Fees, S) <= SumOf(Paids, S) + SumOf(Owings, S)
<1> DEFINE a == [i \in S |-> Agreed(i)]
           r == [i \in S |-> Received(i)]
           o == [i \in S |-> Outstanding(i)]
<1>1. IsFiniteSet(S)
  BY StatRows, FS_Subset
<1>2. ASSUME NEW i \in S
      PROVE  /\ Fees[i] \in Nat /\ Paids[i] \in Nat /\ Owings[i] \in Nat
             /\ Fees[i] <= Paids[i] + Owings[i]
             /\ a[i] = Fees[i] /\ r[i] = Paids[i] /\ o[i] = Owings[i]
  <2>1. PICK x \in Nat, y \in Nat : x = cases[i].fee /\ y = cases[i].paid
    BY StatRows
  <2>2. PICK d \in Int : d = x - y
    OBVIOUS
  <2>3. Max({d, 0}) \in Nat /\ d <= Max({d, 0})
    BY GreaterOfTwo
  <2>4. Outstanding(i) = Max({d, 0})
    BY <2>1, <2>2 DEF Outstanding
  <2>5. Fees[i] = x /\ Paids[i] = y /\ Owings[i] = Outstanding(i)
    BY <2>1 DEF Fees, Paids, Owings
  <2>6. a[i] = x /\ r[i] = y /\ o[i] = Outstanding(i)
    BY <2>1 DEF Agreed, Received
  <2>7. QED
    BY <2>1, <2>2, <2>3, <2>4, <2>5, <2>6
<1>3. /\ Sum(Agreed, S) = SumFunction(a) /\ Sum(Received, S) = SumFunction(r)
      /\ Sum(Outstanding, S) = SumFunction(o)
      /\ DOMAIN a = S /\ DOMAIN r = S /\ DOMAIN o = S
  BY DEF Sum
<1> HIDE DEF a, r, o
<1>4. SumFunction(a) = SumOf(Fees, S)
  BY <1>1, <1>2, <1>3, TermsSum
<1>5. SumFunction(r) = SumOf(Paids, S)
  BY <1>1, <1>2, <1>3, TermsSum
<1>6. SumFunction(o) = SumOf(Owings, S)
  BY <1>1, <1>2, <1>3, TermsSum
<1>7. SumOf(Fees, S) \in Nat /\ SumOf(Paids, S) \in Nat /\ SumOf(Owings, S) \in Nat
  BY <1>1, <1>2, SumNat
<1>8. SumOf(Fees, S) <= SumOf(Paids, S) + SumOf(Owings, S)
  <2>1. \A i \in S : Fees[i] \in Int /\ Paids[i] \in Int /\ Owings[i] \in Int /\ Fees[i] <= Paids[i] + Owings[i]
    BY <1>2
  <2>2. QED
    BY <1>1, <2>1, SumsFall
<1>9. QED
  BY <1>1, <1>2, <1>3, <1>4, <1>5, <1>6, <1>7, <1>8

-----------------------------------------------------------------------------
(* The panels of a range.                                                  *)

LEMMA RangeRows ==
  ASSUME StatBase, NEW from, NEW to
  PROVE  /\ LeadsIn(from, to) \subseteq DOMAIN leads /\ IsFiniteSet(LeadsIn(from, to))
         /\ ConsultsIn(from, to) \subseteq DOMAIN consults /\ IsFiniteSet(ConsultsIn(from, to))
         /\ CasesIn(from, to) \subseteq DOMAIN cases
<1>1. /\ LeadsIn(from, to) \subseteq DOMAIN leads /\ ConsultsIn(from, to) \subseteq DOMAIN consults
      /\ CasesIn(from, to) \subseteq DOMAIN cases
  BY DEF LeadsIn, ConsultsIn, CasesIn
<1>2. QED
  BY <1>1, StatRows, FS_Subset

LEMMA EarnedIs ==
  ASSUME NEW S
  PROVE  /\ EarnedOf(S) \subseteq S
         /\ \A i : i \in EarnedOf(S) <=> /\ i \in S /\ consults[i].price > 0
                                         /\ consults[i].status = "completed" /\ consults[i].paid # "no"
  BY DEF EarnedOf

LEMMA TrendPanels ==
  ASSUME StatBase, NEW from \in Days, NEW to \in Days, NEW t, t = Trend(from, to)
  PROVE  /\ SumOver(t, LAMBDA b : b.leads) = Cardinality(LeadsIn(from, to))
         /\ SumOver(t, LAMBDA b : b.consultations) = Cardinality(ConsultsIn(from, to))
         /\ SumOver(t, LAMBDA b : b.earned) = Sum(Worth, EarnedOf(ConsultsIn(from, to)))
<1>1. PICK L, C, E : /\ L = LeadsIn(from, to) /\ C = ConsultsIn(from, to) /\ E = EarnedOf(C)
  OBVIOUS
<1>2. /\ L \subseteq DOMAIN leads /\ IsFiniteSet(L) /\ C \subseteq DOMAIN consults /\ IsFiniteSet(C)
      /\ E \subseteq C /\ IsFiniteSet(E)
  BY <1>1, RangeRows, EarnedIs, FS_Subset
<1>3. from \in Nat /\ to \in Nat /\ \A d \in from .. to : d \in Int
  BY DEF Days
<1>4. PICK h, k : h = [m \in L |-> leads[m].day] /\ k = [i \in C |-> consults[i].created]
  OBVIOUS
<1>5. PICK A, B : A = {h[m] : m \in L} /\ B = {k[i] : i \in C}
  OBVIOUS
<1>6. IsFiniteSet(A)
  BY <1>2, <1>5, ImageFinite
<1>7. IsFiniteSet(B)
  BY <1>2, <1>5, ImageFinite
<1>8. PICK D : D = A \cup B
  OBVIOUS
<1>9. /\ IsFiniteSet(D) /\ \A m \in L : h[m] \in D /\ h[m] = leads[m].day
      /\ \A i \in C : k[i] \in D /\ k[i] = consults[i].created
      /\ D \subseteq from .. to
  <2>1. /\ \A m \in L : h[m] = leads[m].day /\ h[m] \in from .. to
        /\ \A i \in C : k[i] = consults[i].created /\ k[i] \in from .. to
    BY <1>1, <1>4 DEF LeadsIn, ConsultsIn
  <2>2. IsFiniteSet(D)
    BY <1>6, <1>7, <1>8, FS_Union
  <2>3. QED
    BY <1>5, <1>8, <2>1, <2>2
<1>10. /\ DOMAIN t = D
       /\ \A d \in D : /\ t[d].leads = Cardinality(LeadsIn(d, d))
                       /\ t[d].consultations = Cardinality(ConsultsIn(d, d))
                       /\ t[d].earned = Sum(Worth, EarnedOf(ConsultsIn(d, d)))
  <2>1. D = {leads[m].day : m \in L} \cup {consults[i].created : i \in C}
    BY <1>4, <1>5, <1>8
  <2>2. QED
    BY <1>1, <2>1 DEF Trend
<1>11. ASSUME NEW d \in D
       PROVE  /\ LeadsIn(d, d) = Having(L, h, d) /\ ConsultsIn(d, d) = Having(C, k, d)
              /\ EarnedOf(ConsultsIn(d, d)) = Having(E, k, d)
  <2>1. d \in from .. to /\ d \in Int /\ \A x : x \in d .. d <=> x = d
    BY <1>3, <1>9
  <2>2. LeadsIn(d, d) = Having(L, h, d)
    BY <1>1, <1>9, <2>1 DEF LeadsIn, Having
  <2>3. ConsultsIn(d, d) = Having(C, k, d)
    BY <1>1, <1>9, <2>1 DEF ConsultsIn, Having
  <2>4. EarnedOf(Having(C, k, d)) = Having(E, k, d)
    BY <1>1 DEF EarnedOf, Having
  <2>5. QED
    BY <2>2, <2>3, <2>4
<1> DEFINE a == [d \in D |-> t[d].leads]
           b == [d \in D |-> t[d].consultations]
           e == [d \in D |-> t[d].earned]
<1>12. /\ SumOver(t, LAMBDA x : x.leads) = SumFunction(a)
       /\ SumOver(t, LAMBDA x : x.consultations) = SumFunction(b)
       /\ SumOver(t, LAMBDA x : x.earned) = SumFunction(e)
  BY <1>10 DEF SumOver, Sum
<1>13. /\ DOMAIN a = D /\ \A d \in D : a[d] = Cardinality(Having(L, h, d))
       /\ DOMAIN b = D /\ \A d \in D : b[d] = Cardinality(Having(C, k, d))
       /\ DOMAIN e = D /\ \A d \in D : e[d] = Sum(Worth, Having(E, k, d))
  BY <1>10, <1>11
<1> HIDE DEF a, b, e
<1>14. SumFunction(a) = Cardinality(L)
  <2>1. (\A m \in L : h[m] \in D) /\ IsFiniteSet(L) /\ IsFiniteSet(D)
    BY <1>2, <1>9
  <2>2. DOMAIN a = D /\ \A d \in D : a[d] = Cardinality(Having(L, h, d))
    BY <1>13
  <2>3. QED
    BY <2>1, <2>2, PartsCount
<1>15. SumFunction(b) = Cardinality(C)
  <2>1. (\A i \in C : k[i] \in D) /\ IsFiniteSet(C) /\ IsFiniteSet(D)
    BY <1>2, <1>9
  <2>2. DOMAIN b = D /\ \A d \in D : b[d] = Cardinality(Having(C, k, d))
    BY <1>13
  <2>3. QED
    BY <2>1, <2>2, PartsCount
<1>16. E \subseteq DOMAIN consults
  BY <1>2
<1>17. ASSUME NEW d \in D
       PROVE  e[d] = SumOf(Worths, Having(E, k, d))
  <2>1. PICK H : H = Having(E, k, d)
    OBVIOUS
  <2>2. H \subseteq DOMAIN consults
    BY <1>16, <2>1 DEF Having
  <2>3. Sum(Worth, H) = SumOf(Worths, H)
    BY <2>2, WorthSum
  <2>4. QED
    BY <1>13, <2>1, <2>3
<1>18. \A i \in E : Worths[i] \in Int /\ k[i] \in D
  BY <1>2, <1>9, <1>16, WorthSum
<1>19. SumFunction(e) = SumOf(Worths, E)
  <2>1. IsFiniteSet(E) /\ IsFiniteSet(D) /\ DOMAIN e = D
    BY <1>2, <1>9, <1>13
  <2>2. \A d \in D : e[d] = SumOf(Worths, Having(E, k, d))
    BY <1>17
  <2>3. QED
    BY <1>18, <2>1, <2>2, PartsTotal
<1>20. Sum(Worth, E) = SumOf(Worths, E)
  BY <1>16, WorthSum
<1>21. QED
  BY <1>1, <1>12, <1>14, <1>15, <1>19, <1>20

LEMMA StatusPanel ==
  ASSUME StatBase, NEW from, NEW to, NEW t, t = ByConsultationStatus(from, to)
  PROVE  SumOver(t, LAMBDA n : n) = Cardinality(ConsultsIn(from, to))
<1>1. PICK C : C = ConsultsIn(from, to)
  OBVIOUS
<1>2. IsFiniteSet(C)
  BY <1>1, RangeRows
<1>3. PICK h : h = [i \in C |-> consults[i].status]
  OBVIOUS
<1>4. PICK D : D = {h[i] : i \in C}
  OBVIOUS
<1>5. IsFiniteSet(D) /\ \A i \in C : h[i] \in D
  BY <1>2, <1>4, ImageFinite
<1>6. DOMAIN t = D /\ \A s \in D : t[s] = Cardinality(Having(C, h, s))
  <2>1. D = {consults[i].status : i \in C} /\ \A s : Having(C, h, s) = {i \in C : consults[i].status = s}
    BY <1>3, <1>4 DEF Having
  <2>2. QED
    BY <1>1, <2>1 DEF ByConsultationStatus
<1> DEFINE g == [s \in D |-> t[s]]
<1>7. SumOver(t, LAMBDA n : n) = SumFunction(g)
  BY <1>6 DEF SumOver, Sum
<1>8. DOMAIN g = D /\ \A s \in D : g[s] = Cardinality(Having(C, h, s))
  BY <1>6
<1> HIDE DEF g
<1>9. SumFunction(g) = Cardinality(C)
  BY <1>2, <1>5, <1>8, PartsCount
<1>10. QED
  BY <1>1, <1>7, <1>9

LEMMA AreaPanel ==
  ASSUME StatBase, NEW from, NEW to, NEW t, t = ByLeadPracticeArea(from, to)
  PROVE  SumOver(t, LAMBDA n : n) = Cardinality(LeadsIn(from, to))
<1>1. PICK L : L = LeadsIn(from, to)
  OBVIOUS
<1>2. IsFiniteSet(L)
  BY <1>1, RangeRows
<1>3. PICK h : h = [m \in L |-> leads[m].area]
  OBVIOUS
<1>4. PICK D : D = {h[m] : m \in L}
  OBVIOUS
<1>5. IsFiniteSet(D) /\ \A m \in L : h[m] \in D
  BY <1>2, <1>4, ImageFinite
<1>6. DOMAIN t = D /\ \A s \in D : t[s] = Cardinality(Having(L, h, s))
  <2>1. D = {leads[m].area : m \in L} /\ \A s : Having(L, h, s) = {m \in L : leads[m].area = s}
    BY <1>3, <1>4 DEF Having
  <2>2. QED
    BY <1>1, <2>1 DEF ByLeadPracticeArea
<1> DEFINE g == [s \in D |-> t[s]]
<1>7. SumOver(t, LAMBDA n : n) = SumFunction(g)
  BY <1>6 DEF SumOver, Sum
<1>8. DOMAIN g = D /\ \A s \in D : g[s] = Cardinality(Having(L, h, s))
  BY <1>6
<1> HIDE DEF g
<1>9. SumFunction(g) = Cardinality(L)
  BY <1>2, <1>5, <1>8, PartsCount
<1>10. QED
  BY <1>1, <1>7, <1>9

LEMMA CreatorPanel ==
  ASSUME StatBase, NEW from, NEW to, NEW t, t = ByCreator(from, to)
  PROVE  SumOver(t, LAMBDA b : b.earned) = Sum(Worth, EarnedOf(ConsultsIn(from, to)))
<1>1. PICK C, E : C = ConsultsIn(from, to) /\ E = EarnedOf(C)
  OBVIOUS
<1>2. /\ IsFiniteSet(C) /\ C \subseteq DOMAIN consults /\ E \subseteq C /\ IsFiniteSet(E)
  BY <1>1, RangeRows, EarnedIs, FS_Subset
<1>3. PICK h : h = [i \in C |-> consults[i].by]
  OBVIOUS
<1>4. PICK D : D = {h[i] : i \in C}
  OBVIOUS
<1>5. IsFiniteSet(D) /\ \A i \in C : h[i] \in D
  BY <1>2, <1>4, ImageFinite
<1>6. DOMAIN t = D /\ \A s \in D : t[s].earned = Sum(Worth, Having(E, h, s))
  <2>1. D = {consults[i].by : i \in C} /\ \A s : Having(C, h, s) = {i \in C : consults[i].by = s}
    BY <1>3, <1>4 DEF Having
  <2>2. \A s : EarnedOf(Having(C, h, s)) = Having(E, h, s)
    BY <1>1 DEF EarnedOf, Having
  <2>3. DOMAIN t = D /\ \A s \in D : t[s].earned = Sum(Worth, EarnedOf(Having(C, h, s)))
    BY <1>1, <2>1 DEF ByCreator
  <2>4. QED
    BY <2>2, <2>3
<1> DEFINE g == [s \in D |-> t[s].earned]
<1>7. SumOver(t, LAMBDA b : b.earned) = SumFunction(g)
  BY <1>6 DEF SumOver, Sum
<1>8. DOMAIN g = D /\ \A s \in D : g[s] = Sum(Worth, Having(E, h, s))
  BY <1>6
<1> HIDE DEF g
<1>9. ASSUME NEW s \in D
      PROVE  g[s] = SumOf(Worths, Having(E, h, s))
  <2>1. PICK H : H = Having(E, h, s)
    OBVIOUS
  <2>2. H \subseteq DOMAIN consults
    BY <1>2, <2>1 DEF Having
  <2>3. Sum(Worth, H) = SumOf(Worths, H)
    BY <2>2, WorthSum
  <2>4. QED
    BY <1>8, <2>1, <2>3
<1>10. E \subseteq DOMAIN consults
  BY <1>2
<1>11. \A i \in E : Worths[i] \in Int /\ h[i] \in D
  BY <1>2, <1>5, <1>10, WorthSum
<1>12. SumFunction(g) = SumOf(Worths, E)
  BY <1>2, <1>5, <1>8, <1>9, <1>11, PartsTotal
<1>13. Sum(Worth, E) = SumOf(Worths, E)
  BY <1>10, WorthSum
<1>14. QED
  BY <1>1, <1>7, <1>12, <1>13

LEMMA PanelsAgree ==
  ASSUME StatBase, NEW from \in Days, NEW to \in Days
  PROVE  PanelsTie(Stats(from, to))
<1>1. PICK s : s = Stats(from, to)
  OBVIOUS
<1>2. /\ s.trend = Trend(from, to) /\ s.byStatus = ByConsultationStatus(from, to)
      /\ s.byCreator = ByCreator(from, to) /\ s.byArea = ByLeadPracticeArea(from, to)
      /\ s.totals = Totals(from, to)
  BY <1>1 DEF Stats
<1>3. /\ s.totals.leads = Cardinality(LeadsIn(from, to))
      /\ s.totals.consultations = Cardinality(ConsultsIn(from, to))
      /\ s.totals.earned = Sum(Worth, EarnedOf(ConsultsIn(from, to)))
  BY <1>2 DEF Totals
<1>4. /\ SumOver(s.trend, LAMBDA b : b.leads) = Cardinality(LeadsIn(from, to))
      /\ SumOver(s.trend, LAMBDA b : b.consultations) = Cardinality(ConsultsIn(from, to))
      /\ SumOver(s.trend, LAMBDA b : b.earned) = Sum(Worth, EarnedOf(ConsultsIn(from, to)))
  BY <1>2, TrendPanels
<1>5. SumOver(s.byStatus, LAMBDA n : n) = Cardinality(ConsultsIn(from, to))
  BY <1>2, StatusPanel
<1>6. SumOver(s.byArea, LAMBDA n : n) = Cardinality(LeadsIn(from, to))
  BY <1>2, AreaPanel
<1>7. SumOver(s.byCreator, LAMBDA b : b.earned) = Sum(Worth, EarnedOf(ConsultsIn(from, to)))
  BY <1>2, CreatorPanel
<1>8. PanelsTie(s)
  BY <1>3, <1>4, <1>5, <1>6, <1>7 DEF PanelsTie
<1>9. QED
  BY <1>1, <1>8

-----------------------------------------------------------------------------
(* The cohort of a range. *)

\* A client's first lead is one of the client's leads.
LEMMA FirstLeadIs ==
  ASSUME StatBase, NEW c, \E m \in DOMAIN leads : leads[m].client = c
  PROVE  \E m \in DOMAIN leads : leads[m].client = c /\ leads[m].day = FirstLeadDay(c)
<1>1. PICK K : K = {m \in DOMAIN leads : leads[m].client = c}
  OBVIOUS
<1>2. IsFiniteSet(K) /\ K # {} /\ K \subseteq DOMAIN leads
  BY <1>1, StatRows, FS_Subset
<1>3. PICK h : h = [m \in K |-> leads[m].day]
  OBVIOUS
<1>4. PICK N : N = {h[m] : m \in K}
  OBVIOUS
<1>5. IsFiniteSet(N) /\ N # {}
  BY <1>2, <1>4, ImageFinite
<1>6. N \subseteq Nat
  <2>1. \A m \in K : h[m] \in Days
    BY <1>2, <1>3, StatRows
  <2>2. QED
    BY <1>4, <2>1 DEF Days
<1>7. Min(N) \in N
  BY <1>5, <1>6, LeastIn
<1>8. FirstLeadDay(c) = Min(N)
  <2>1. N = {leads[m].day : m \in K}
    BY <1>3, <1>4
  <2>2. QED
    BY <1>1, <2>1 DEF FirstLeadDay
<1>9. QED
  BY <1>1, <1>3, <1>4, <1>7, <1>8

LEMMA CohortIs ==
  ASSUME StatBase, NEW from, NEW to
  PROVE  /\ Cohort(from, to) \subseteq Live(clients) /\ IsFiniteSet(Cohort(from, to))
         /\ \A c : c \in Cohort(from, to) <=> /\ \E m \in DOMAIN leads : leads[m].client = c
                                               /\ c # 0 /\ FirstLeadDay(c) \in from .. to
<1>1. \A c : c \in Cohort(from, to) <=> /\ \E m \in DOMAIN leads : leads[m].client = c
                                        /\ c # 0 /\ FirstLeadDay(c) \in from .. to
  BY DEF Cohort
<1>2. \A m \in DOMAIN leads : leads[m].client \in Live(clients) \cup {0}
  BY StatRows
<1>3. Cohort(from, to) \subseteq Live(clients)
  BY <1>1, <1>2
<1>4. QED
  BY <1>1, <1>3, StatRows, FS_Subset

\* Nobody in the cohort came later than the range.
LEMMA CohortSeen ==
  ASSUME StatBase, NEW from, NEW to
  PROVE  Cardinality(Cohort(from, to)) <= Totals(from, to).clients
<1>1. PICK L, h : L = LeadsIn(from, to) /\ h = [m \in L |-> leads[m].client]
  OBVIOUS
<1>2. PICK N : N = {h[m] : m \in L}
  OBVIOUS
<1>3. IsFiniteSet(L) /\ L \subseteq DOMAIN leads
  BY <1>1, RangeRows
<1>4. IsFiniteSet(N)
  BY <1>2, <1>3, ImageFinite
<1>5. PICK Q : Q = N \ {0}
  OBVIOUS
<1>6. IsFiniteSet(Q)
  BY <1>4, <1>5, FS_Subset
<1>7. Totals(from, to).clients = Cardinality(Q)
  <2>1. N = {leads[m].client : m \in L}
    BY <1>1, <1>2
  <2>2. QED
    BY <1>1, <1>5, <2>1 DEF Totals
<1>8. ASSUME NEW c \in Cohort(from, to)
      PROVE  c \in Q
  <2>1. (\E m \in DOMAIN leads : leads[m].client = c) /\ c # 0 /\ FirstLeadDay(c) \in from .. to
    BY CohortIs
  <2>2. PICK m \in DOMAIN leads : leads[m].client = c /\ leads[m].day = FirstLeadDay(c)
    BY <2>1, FirstLeadIs
  <2>3. m \in L
    BY <1>1, <2>1, <2>2 DEF LeadsIn
  <2>4. h[m] = c
    BY <1>1, <2>2, <2>3
  <2>5. QED
    BY <1>2, <1>5, <2>1, <2>3, <2>4
<1>9. Cohort(from, to) \subseteq Q
  BY <1>8
<1>10. Cardinality(Cohort(from, to)) <= Cardinality(Q)
  BY <1>6, <1>9, FS_Subset
<1>11. QED
  BY <1>7, <1>10

Consulted(S) == {c \in S : ConsultsOf(c) # {}}

Cased(S) == {c \in S : CasesOf(c) # {}}

LEMMA SourcePanels ==
  ASSUME StatBase, NEW from, NEW to, NEW t, t = BySource(from, to)
  PROVE  /\ SumOver(t, LAMBDA b : b.leads) = Cardinality(Cohort(from, to))
         /\ SumOver(t, LAMBDA b : b.consulted) = Cardinality(Consulted(Cohort(from, to)))
         /\ SumOver(t, LAMBDA b : b.cased) = Cardinality(Cased(Cohort(from, to)))
<1>1. PICK A, U, V : A = Cohort(from, to) /\ U = Consulted(A) /\ V = Cased(A)
  OBVIOUS
<1>2. U \subseteq A /\ V \subseteq A
  BY <1>1 DEF Consulted, Cased
<1>3. IsFiniteSet(A) /\ IsFiniteSet(U) /\ IsFiniteSet(V)
  BY <1>1, <1>2, CohortIs, FS_Subset
<1>4. PICK h : h = [c \in A |-> FirstLeadDay(c)]
  OBVIOUS
<1>5. PICK D : D = {h[c] : c \in A}
  OBVIOUS
<1>6. IsFiniteSet(D)
  BY <1>3, <1>5, ImageFinite
<1>7. (\A c \in A : h[c] \in D) /\ (\A c \in U : h[c] \in D) /\ (\A c \in V : h[c] \in D)
  BY <1>2, <1>5
<1>8. /\ DOMAIN t = D
      /\ \A d \in D : /\ t[d].leads = Cardinality(Having(A, h, d))
                      /\ t[d].consulted = Cardinality(Having(U, h, d))
                      /\ t[d].cased = Cardinality(Having(V, h, d))
  <2>1. D = {FirstLeadDay(c) : c \in A}
    BY <1>4, <1>5
  <2>2. \A d : Having(A, h, d) = {c \in A : FirstLeadDay(c) = d}
    BY <1>4 DEF Having
  <2>3. ASSUME NEW d
        PROVE  /\ {c \in Having(A, h, d) : ConsultsOf(c) # {}} = Having(U, h, d)
               /\ {c \in Having(A, h, d) : CasesOf(c) # {}} = Having(V, h, d)
    BY <1>1 DEF Having, Consulted, Cased
  <2>4. /\ DOMAIN t = D
        /\ \A d \in D :
              /\ t[d].leads = Cardinality(Having(A, h, d))
              /\ t[d].consulted = Cardinality({c \in Having(A, h, d) : ConsultsOf(c) # {}})
              /\ t[d].cased = Cardinality({c \in Having(A, h, d) : CasesOf(c) # {}})
    BY <1>1, <2>1, <2>2 DEF BySource
  <2>5. QED
    BY <2>3, <2>4
<1> DEFINE a == [d \in D |-> t[d].leads]
           u == [d \in D |-> t[d].consulted]
           v == [d \in D |-> t[d].cased]
<1>9. /\ SumOver(t, LAMBDA b : b.leads) = SumFunction(a)
      /\ SumOver(t, LAMBDA b : b.consulted) = SumFunction(u)
      /\ SumOver(t, LAMBDA b : b.cased) = SumFunction(v)
  BY <1>8 DEF SumOver, Sum
<1>10. DOMAIN a = D /\ \A d \in D : a[d] = Cardinality(Having(A, h, d))
  BY <1>8
<1>11. DOMAIN u = D /\ \A d \in D : u[d] = Cardinality(Having(U, h, d))
  BY <1>8
<1>12. DOMAIN v = D /\ \A d \in D : v[d] = Cardinality(Having(V, h, d))
  BY <1>8
<1> HIDE DEF a, u, v
<1>13. SumFunction(a) = Cardinality(A)
  BY <1>3, <1>6, <1>7, <1>10, PartsCount
<1>14. SumFunction(u) = Cardinality(U)
  BY <1>3, <1>6, <1>7, <1>11, PartsCount
<1>15. SumFunction(v) = Cardinality(V)
  BY <1>3, <1>6, <1>7, <1>12, PartsCount
<1>16. QED
  BY <1>1, <1>9, <1>13, <1>14, <1>15

Outcomes == {"completed", "cancelled", "no_show", "scheduled"}

\* Who has a consultation has a first one, and it a status.
LEMMA FirstOutcomeIs ==
  ASSUME StatBase, NEW c, ConsultsOf(c) # {}
  PROVE  FirstOutcome(c) \in Statuses
<1>1. PICK S : S = ConsultsOf(c)
  OBVIOUS
<1>2. IsFiniteSet(S) /\ S \subseteq DOMAIN consults /\ S # {}
  BY <1>1, StatRows, FS_Subset DEF ConsultsOf
<1>3. PICK h : h = [i \in S |-> consults[i].created]
  OBVIOUS
<1>4. PICK D : D = {h[i] : i \in S}
  OBVIOUS
<1>5. IsFiniteSet(D) /\ D # {} /\ D \subseteq Int
  <2>1. \A i \in S : h[i] \in Int
    BY <1>2, <1>3, StatRows DEF Days
  <2>2. QED
    BY <1>2, <1>4, <2>1, ImageFinite
<1>6. PICK d : d = Min(D)
  OBVIOUS
<1>7. d \in D
  <2>1. \E x \in D : \A y \in D : x <= y
    BY <1>5, FiniteEnds
  <2>2. QED
    BY <1>6, <2>1 DEF Min
<1>8. PICK E : E = {i \in S : consults[i].created = d}
  OBVIOUS
<1>9. IsFiniteSet(E) /\ E # {} /\ E \subseteq Int
  <2>1. DOMAIN consults \subseteq Int
    BY StatRows
  <2>2. QED
    BY <1>2, <1>3, <1>4, <1>7, <1>8, <2>1, FS_Subset
<1>10. Min(E) \in E
  <2>1. \E x \in E : \A y \in E : x <= y
    BY <1>9, FiniteEnds
  <2>2. QED
    BY <2>1 DEF Min
<1>11. FirstOutcome(c) = consults[Min(E)].status
  <2>1. D = {consults[i].created : i \in S}
    BY <1>3, <1>4
  <2>2. QED
    BY <1>1, <1>6, <1>8, <2>1 DEF FirstOutcome
<1>12. consults[Min(E)] \in ConsultationRow
  BY <1>2, <1>8, <1>10 DEF StatBase, BaseTypeOK
<1>13. QED
  BY <1>11, <1>12 DEF ConsultationRow

LEMMA OutcomePanel ==
  ASSUME StatBase, NEW from, NEW to, NEW t, t = Funnel(from, to).outcome
  PROVE  SumOver(t, LAMBDA n : n) + Cardinality(Unanswered(from, to)) = Cardinality(Consulted(Cohort(from, to)))
<1>1. PICK U : U = Consulted(Cohort(from, to))
  OBVIOUS
<1>2. IsFiniteSet(U)
  <2>1. U \subseteq Cohort(from, to)
    BY <1>1 DEF Consulted
  <2>2. QED
    BY <2>1, CohortIs, FS_Subset
<1>3. PICK T : T = {c \in U : FirstOutcome(c) \in Outcomes}
  OBVIOUS
<1>4. /\ IsFiniteSet(T) /\ IsFiniteSet(Unanswered(from, to))
      /\ Cardinality(T) + Cardinality(Unanswered(from, to)) = Cardinality(U)
  <2>1. PICK W : W = Unanswered(from, to)
    OBVIOUS
  <2>2. W = {c \in U : FirstOutcome(c) = "requested"}
    BY <1>1, <2>1 DEF Unanswered, Consulted
  <2>3. \A c \in U : ConsultsOf(c) # {}
    BY <1>1 DEF Consulted
  <2>4. \A c \in U : FirstOutcome(c) \in Statuses
    BY <2>3, FirstOutcomeIs
  <2>5. U = T \cup W /\ T \cap W = {}
    BY <1>3, <2>2, <2>4 DEF Statuses, Outcomes
  <2>6. IsFiniteSet(T) /\ IsFiniteSet(W)
    BY <1>2, <1>3, <2>2, FS_Subset
  <2>7. Cardinality(U) = Cardinality(T) + Cardinality(W) - Cardinality(T \cap W)
    BY <2>5, <2>6, FS_Union
  <2>8. Cardinality(T \cap W) = 0
    BY <2>5, FS_EmptySet
  <2>9. Cardinality(T) \in Nat /\ Cardinality(W) \in Nat
    BY <2>6, FS_CardinalityType
  <2>10. QED
    BY <2>1, <2>6, <2>7, <2>8, <2>9
<1>5. IsFiniteSet(Outcomes)
  <2>1. \A s : IsFiniteSet({s})
    BY FS_Singleton
  <2>2. IsFiniteSet({"completed"} \cup {"cancelled"}) /\ IsFiniteSet({"no_show"} \cup {"scheduled"})
    BY <2>1, FS_Union
  <2>3. IsFiniteSet(({"completed"} \cup {"cancelled"}) \cup ({"no_show"} \cup {"scheduled"}))
    BY <2>2, FS_Union
  <2>4. Outcomes = ({"completed"} \cup {"cancelled"}) \cup ({"no_show"} \cup {"scheduled"})
    BY DEF Outcomes
  <2>5. QED
    BY <2>3, <2>4
<1>6. PICK h : h = [c \in T |-> FirstOutcome(c)]
  OBVIOUS
<1>7. \A c \in T : h[c] \in Outcomes
  BY <1>3, <1>6
<1>8. DOMAIN t = Outcomes /\ \A s \in Outcomes : t[s] = Cardinality(Having(T, h, s))
  <2>1. ASSUME NEW s \in Outcomes
        PROVE  Having(T, h, s) = {c \in U : FirstOutcome(c) = s}
    BY <1>3, <1>6 DEF Having
  <2>2. DOMAIN t = Outcomes /\ \A s \in Outcomes : t[s] = Cardinality({c \in U : FirstOutcome(c) = s})
    BY <1>1 DEF Funnel, Consulted, Outcomes
  <2>3. QED
    BY <2>1, <2>2
<1> DEFINE g == [s \in Outcomes |-> t[s]]
<1>9. SumOver(t, LAMBDA n : n) = SumFunction(g)
  BY <1>8 DEF SumOver, Sum
<1>10. DOMAIN g = Outcomes /\ \A s \in Outcomes : g[s] = Cardinality(Having(T, h, s))
  BY <1>8
<1> HIDE DEF g
<1>11. SumFunction(g) = Cardinality(T)
  BY <1>4, <1>5, <1>7, <1>10, PartsCount
<1>12. QED
  BY <1>1, <1>4, <1>9, <1>11

LEMMA CohortAgrees ==
  ASSUME StatBase, NEW from, NEW to
  PROVE  CohortTies(Stats(from, to), from, to)
<1>1. PICK s, A : s = Stats(from, to) /\ A = Cohort(from, to)
  OBVIOUS
<1>2. /\ s.bySource = BySource(from, to) /\ s.funnel = Funnel(from, to) /\ s.totals = Totals(from, to)
  BY <1>1 DEF Stats
<1>3. /\ s.funnel.leads = Cardinality(A) /\ s.funnel.consulted = Cardinality(Consulted(A))
      /\ s.funnel.cased = Cardinality(Cased(A))
  BY <1>1, <1>2 DEF Funnel, Consulted, Cased
<1>4. /\ SumOver(s.bySource, LAMBDA b : b.leads) = Cardinality(A)
      /\ SumOver(s.bySource, LAMBDA b : b.consulted) = Cardinality(Consulted(A))
      /\ SumOver(s.bySource, LAMBDA b : b.cased) = Cardinality(Cased(A))
  BY <1>1, <1>2, SourcePanels
<1>5. SumOver(s.funnel.outcome, LAMBDA n : n) + Cardinality(Unanswered(from, to)) = Cardinality(Consulted(A))
  BY <1>1, <1>2, OutcomePanel
<1>6. Cardinality(A) <= s.totals.clients
  BY <1>1, <1>2, CohortSeen
<1>7. CohortTies(s, from, to)
  BY <1>3, <1>4, <1>5, <1>6 DEF CohortTies
<1>8. QED
  BY <1>1, <1>7

-----------------------------------------------------------------------------
(* What the clients of all time are worth.                                 *)

\* The whole calendar has every row.
LEMMA AllTime ==
  ASSUME StatBase
  PROVE  /\ ConsultsIn(0, LastDay) = DOMAIN consults /\ CasesIn(0, LastDay) = DOMAIN cases
         /\ 0 \in Days /\ LastDay \in Days
<1>1. LastDay \in Nat
  BY ClientBaseAssumption
<1>2. /\ \A i \in DOMAIN consults : consults[i].created \in 0 .. LastDay
      /\ \A i \in DOMAIN cases : cases[i].created \in 0 .. LastDay
  BY StatRows DEF Days
<1>3. PICK all : all = 0 .. LastDay
  OBVIOUS
<1>4. {i \in DOMAIN consults : consults[i].created \in all} = DOMAIN consults
  BY <1>2, <1>3
<1>5. {i \in DOMAIN cases : cases[i].created \in all} = DOMAIN cases
  BY <1>2, <1>3
<1>6. 0 \in Days /\ LastDay \in Days
  BY <1>1 DEF Days
<1>7. QED
  BY <1>3, <1>4, <1>5, <1>6 DEF ConsultsIn, CasesIn

LEMMA HeldIs ==
  ASSUME NEW S
  PROVE  Held(S) \subseteq S
  BY DEF Held

LEMMA ActivityIs ==
  ASSUME StatBase, NEW c
  PROVE  /\ ConsultsOf(c) \subseteq DOMAIN consults /\ CasesOf(c) \subseteq DOMAIN cases
         /\ Activity(c).revenue = SumOf(Worths, Held(ConsultsOf(c)))
         /\ Activity(c).revenue = Sum(Worth, Held(ConsultsOf(c)))
         /\ Activity(c).paid = SumOf(Paids, CasesOf(c)) /\ Activity(c).paid = Sum(Received, CasesOf(c))
         /\ Activity(c).fee = SumOf(Fees, CasesOf(c))
         /\ Activity(c).revenue \in Nat /\ Activity(c).paid \in Nat /\ Activity(c).fee \in Nat
         /\ Activity(c).cases = Cardinality(CasesOf(c)) /\ IsFiniteSet(CasesOf(c))
<1>1. PICK H, K : H = Held(ConsultsOf(c)) /\ K = CasesOf(c)
  OBVIOUS
<1>2. ConsultsOf(c) \subseteq DOMAIN consults /\ K \subseteq DOMAIN cases
  BY <1>1 DEF ConsultsOf, CasesOf
<1>3. H \subseteq DOMAIN consults
  BY <1>1, <1>2, HeldIs
<1>4. /\ Activity(c).revenue = Sum(Worth, H) /\ Activity(c).paid = Sum(Received, K)
      /\ Activity(c).fee = Sum(Agreed, K) /\ Activity(c).cases = Cardinality(K)
  BY <1>1 DEF Activity
<1>5. Sum(Worth, H) = SumOf(Worths, H) /\ SumOf(Worths, H) \in Nat
  BY <1>3, WorthSum
<1>6. /\ IsFiniteSet(K) /\ Sum(Agreed, K) = SumOf(Fees, K) /\ SumOf(Fees, K) \in Nat
      /\ Sum(Received, K) = SumOf(Paids, K) /\ SumOf(Paids, K) \in Nat
  BY <1>2, CaseSums
<1>7. QED
  BY <1>1, <1>2, <1>4, <1>5, <1>6

\* What was held and paid for, and what was held and marked unpaid.
LEMMA HeldApart ==
  ASSUME StatBase, NEW H, H = Held(DOMAIN consults), NEW E, E = EarnedOf(DOMAIN consults),
         NEW U, U = {i \in H : consults[i].paid = "no"}
  PROVE  SumOf(Worths, E) = SumOf(Worths, H) - SumOf(Worths, U)
<1>1. E \subseteq DOMAIN consults /\ U \subseteq DOMAIN consults /\ E \cap U = {} /\ H = E \cup U
  BY DEF Held, EarnedOf
<1>2. IsFiniteSet(E) /\ SumOf(Worths, E) \in Nat /\ \A i \in E : Worths[i] \in Nat
  BY <1>1, WorthSum
<1>3. IsFiniteSet(U) /\ SumOf(Worths, U) \in Nat /\ \A i \in U : Worths[i] \in Nat
  BY <1>1, WorthSum
<1>4. \A i \in E \cup U : Worths[i] \in Int
  BY <1>2, <1>3
<1>5. SumOf(Worths, E \cup U) = SumOf(Worths, E) + SumOf(Worths, U)
  BY <1>1, <1>2, <1>3, <1>4, SumUnion
<1>6. PICK e, u, w : /\ e \in Nat /\ u \in Nat /\ e = SumOf(Worths, E) /\ u = SumOf(Worths, U)
                                       /\ w = SumOf(Worths, H)
  BY <1>2, <1>3
<1>7. w = e + u
  BY <1>1, <1>5, <1>6
<1>8. e = w - u
  BY <1>6, <1>7
<1>9. QED
  BY <1>6, <1>8

LEMMA RevenueSums ==
  ASSUME StatBase, NEW f, f = ListActivity
  PROVE  /\ SumOver(f, LAMBDA a : a.revenue) = SumOf(Worths, Held(DOMAIN consults))
         /\ SumOver(f, LAMBDA a : a.paid) = SumOf(Paids, DOMAIN cases)
<1>1. PICK D, H, C, K : D = Live(clients) /\ C = DOMAIN consults /\ H = Held(C) /\ K = DOMAIN cases
  OBVIOUS
<1>2. IsFiniteSet(D) /\ IsFiniteSet(K)
  BY <1>1, StatRows
<1>3. H \subseteq C
  BY <1>1, HeldIs
<1>4. IsFiniteSet(H) /\ \A i \in H : Worths[i] \in Int
  BY <1>1, <1>3, WorthSum
<1>5. \A i \in K : Paids[i] \in Int
  BY <1>1, CaseSums
<1>6. PICK h, k : h = [i \in C |-> consults[i].client] /\ k = [i \in K |-> cases[i].client]
  OBVIOUS
<1>7. (\A i \in H : h[i] \in D) /\ (\A i \in K : k[i] \in D)
  BY <1>1, <1>3, <1>6, StatRows
<1>8. DOMAIN f = D /\ \A c \in D : f[c] = Activity(c)
  BY <1>1 DEF ListActivity
<1>9. ASSUME NEW c \in D
      PROVE  f[c].revenue = SumOf(Worths, Having(H, h, c)) /\ f[c].paid = SumOf(Paids, Having(K, k, c))
  <2>1. Having(H, h, c) = Held(ConsultsOf(c))
    BY <1>1, <1>6 DEF Having, Held, ConsultsOf
  <2>2. Having(K, k, c) = CasesOf(c)
    BY <1>1, <1>6 DEF Having, CasesOf
  <2>3. Activity(c).revenue = SumOf(Worths, Held(ConsultsOf(c))) /\ Activity(c).paid = SumOf(Paids, CasesOf(c))
    BY ActivityIs
  <2>4. QED
    BY <1>8, <2>1, <2>2, <2>3
<1> DEFINE r == [c \in D |-> f[c].revenue]
           p == [c \in D |-> f[c].paid]
<1>10. /\ SumOver(f, LAMBDA a : a.revenue) = SumFunction(r)
       /\ SumOver(f, LAMBDA a : a.paid) = SumFunction(p)
  BY <1>8 DEF SumOver, Sum
<1>11. DOMAIN r = D /\ \A c \in D : r[c] = SumOf(Worths, Having(H, h, c))
  BY <1>9
<1>12. DOMAIN p = D /\ \A c \in D : p[c] = SumOf(Paids, Having(K, k, c))
  BY <1>9
<1> HIDE DEF r, p
<1>13. \A i \in H : Worths[i] \in Int /\ h[i] \in D
  BY <1>4, <1>7
<1>14. \A i \in K : Paids[i] \in Int /\ k[i] \in D
  BY <1>5, <1>7
<1>15. SumFunction(r) = SumOf(Worths, H)
  BY <1>2, <1>4, <1>11, <1>13, PartsTotal
<1>16. SumFunction(p) = SumOf(Paids, K)
  BY <1>2, <1>12, <1>14, PartsTotal
<1>17. QED
  BY <1>1, <1>10, <1>15, <1>16

LEMMA LifetimeAgrees ==
  ASSUME StatBase
  PROVE  LifetimeTies(Totals(0, LastDay), ListActivity)
<1>1. PICK t, f, C : t = Totals(0, LastDay) /\ f = ListActivity /\ C = DOMAIN consults
  OBVIOUS
<1>2. ASSUME NEW c \in DOMAIN f
      PROVE  f[c].revenue + f[c].paid = RevenueTotal(c)
  <2>1. f[c] = Activity(c)
    BY <1>1 DEF ListActivity
  <2>2. /\ f[c].revenue = Sum(Worth, Held(ConsultsOf(c))) /\ f[c].paid = Sum(Received, CasesOf(c))
        /\ f[c].revenue \in Nat /\ f[c].paid \in Nat
    BY <2>1, ActivityIs
  <2>3. QED
    BY <2>2 DEF RevenueTotal
<1>3. PICK H, E, U : H = Held(C) /\ E = EarnedOf(C) /\ U = {i \in H : consults[i].paid = "no"}
  OBVIOUS
<1>4. SumOf(Worths, E) = SumOf(Worths, H) - SumOf(Worths, U)
  BY <1>1, <1>3, HeldApart
<1>5. t.earned = Sum(Worth, E) /\ t.paid = Sum(Received, DOMAIN cases)
  BY <1>1, <1>3, AllTime DEF Totals
<1>6. E \subseteq DOMAIN consults /\ U \subseteq DOMAIN consults
  BY <1>1, <1>3, EarnedIs, HeldIs
<1>7. Sum(Worth, E) = SumOf(Worths, E) /\ Sum(Worth, U) = SumOf(Worths, U)
  BY <1>6, WorthSum
<1>8. Sum(Received, DOMAIN cases) = SumOf(Paids, DOMAIN cases)
  BY CaseSums
<1>9. /\ SumOver(f, LAMBDA a : a.revenue) = SumOf(Worths, H)
      /\ SumOver(f, LAMBDA a : a.paid) = SumOf(Paids, DOMAIN cases)
  BY <1>1, <1>3, RevenueSums
<1>10. t.earned = SumOver(f, LAMBDA a : a.revenue) - Sum(Worth, {i \in Held(DOMAIN consults) : consults[i].paid = "no"})
  <2>1. U = {i \in Held(DOMAIN consults) : consults[i].paid = "no"}
    BY <1>1, <1>3
  <2>2. t.earned = SumOver(f, LAMBDA a : a.revenue) - Sum(Worth, U)
    BY <1>4, <1>5, <1>7, <1>9
  <2>3. QED
    BY <2>1, <2>2
<1>11. LifetimeTies(t, f)
  BY <1>2, <1>5, <1>8, <1>9, <1>10 DEF LifetimeTies
<1>12. QED
  BY <1>1, <1>11

LEMMA SegmentOf ==
  ASSUME NEW c, NEW a, clients[c].pin \in Segments \cup {Blank}
  PROVE  Derive(c, a).segment \in Segments
<1>1. Derived(a) \in Segments
  BY DEF Derived, Segments
<1>2. Derive(c, a).segment = IF clients[c].pin # Blank THEN clients[c].pin ELSE Derived(a)
  BY DEF Derive
<1>3. QED
  BY <1>1, <1>2

\* Who has a case is a client to the segments.
LEMMA CasedIs ==
  ASSUME NEW a, a.cases \in Nat
  PROVE  Derived(a) \in {"client", "repeat"} <=> a.cases # 0
<1>1. CASE a.cases >= 2
  BY <1>1 DEF Derived
<1>2. CASE a.cases = 1
  BY <1>2 DEF Derived
<1>3. CASE a.cases = 0
  BY <1>3 DEF Derived
<1>4. QED
  BY <1>1, <1>2, <1>3

\* Nobody is in two segments.
LEMMA SegmentsCount ==
  ASSUME StatBase, NEW f, f = ListActivity, NEW tag, NEW t, t = Listed(f, Blank, tag).counts
  PROVE  SumOver(t, LAMBDA n : n) = Cardinality(Live(clients))
<1>1. PICK D : D = Live(clients)
  OBVIOUS
<1>2. DOMAIN f = D /\ IsFiniteSet(D)
  BY <1>1, StatRows DEF ListActivity
<1>3. PICK h, derived : /\ h = [c \in D |-> Derive(c, f[c]).segment]
                        /\ derived = [c \in D |-> Derive(c, f[c])]
  OBVIOUS
<1>4. \A c \in D : h[c] \in Segments
  BY <1>1, <1>3, StatRows, SegmentOf
<1>5. DOMAIN t = Segments /\ \A s \in Segments : t[s] = Cardinality(Having(D, h, s))
  <2>1. \A s : Having(D, h, s) = {c \in D : derived[c].segment = s}
    BY <1>3 DEF Having
  <2>2. DOMAIN derived = D
    BY <1>3
  <2>3. t = [s \in Segments |-> Cardinality({c \in DOMAIN derived : derived[c].segment = s})]
    BY <1>2, <1>3 DEF Listed
  <2>4. QED
    BY <2>1, <2>2, <2>3
<1>6. IsFiniteSet(Segments)
  <2>1. \A s : IsFiniteSet({s})
    BY FS_Singleton
  <2>2. /\ IsFiniteSet({"lead"} \cup {"booked"}) /\ IsFiniteSet({"consulted"} \cup {"client"})
        /\ IsFiniteSet({"repeat"} \cup {"lost"})
    BY <2>1, FS_Union
  <2>3. IsFiniteSet(({"lead"} \cup {"booked"}) \cup ({"consulted"} \cup {"client"}))
    BY <2>2, FS_Union
  <2>4. IsFiniteSet((({"lead"} \cup {"booked"}) \cup ({"consulted"} \cup {"client"})) \cup ({"repeat"} \cup {"lost"}))
    BY <2>2, <2>3, FS_Union
  <2>5. Segments = (({"lead"} \cup {"booked"}) \cup ({"consulted"} \cup {"client"})) \cup ({"repeat"} \cup {"lost"})
    BY DEF Segments
  <2>6. QED
    BY <2>4, <2>5
<1> DEFINE g == [s \in Segments |-> t[s]]
<1>7. SumOver(t, LAMBDA n : n) = SumFunction(g)
  BY <1>5 DEF SumOver, Sum
<1>8. DOMAIN g = Segments /\ \A s \in Segments : g[s] = Cardinality(Having(D, h, s))
  BY <1>5
<1> HIDE DEF g
<1>9. SumFunction(g) = Cardinality(D)
  BY <1>2, <1>4, <1>6, <1>8, PartsCount
<1>10. QED
  BY <1>1, <1>7, <1>9

\* Who is marked as owing something owes it in the total.
LEMMA DebtorOwes ==
  ASSUME StatBase, NEW c, "debtor" \in Derive(c, Activity(c)).tags
  PROVE  Totals(0, LastDay).owed > 0
<1>1. PICK a, K : a = Activity(c) /\ K = CasesOf(c)
  OBVIOUS
<1>2. Derive(c, a).tags = AutoTags(a)
  BY DEF Derive
<1>3. a.fee > a.paid
  BY <1>1, <1>2 DEF AutoTags
<1>4. a.fee = SumOf(Fees, K) /\ a.paid = SumOf(Paids, K) /\ K \subseteq DOMAIN cases
  BY <1>1, ActivityIs
<1>5. /\ SumOf(Fees, K) \in Nat /\ SumOf(Paids, K) \in Nat /\ SumOf(Owings, K) \in Nat
      /\ SumOf(Fees, K) <= SumOf(Paids, K) + SumOf(Owings, K)
  BY <1>4, CaseSums
<1>6. SumOf(Owings, K) > 0
  BY <1>3, <1>4, <1>5
<1>7. PICK R : R = DOMAIN cases \ K
  OBVIOUS
<1>8. R \subseteq DOMAIN cases /\ K \cap R = {} /\ K \cup R = DOMAIN cases
  BY <1>4, <1>7
<1>9. IsFiniteSet(K) /\ IsFiniteSet(R) /\ SumOf(Owings, R) \in Nat
  BY <1>4, <1>8, CaseSums
<1>10. \A i \in K \cup R : Owings[i] \in Int
  BY <1>8, CaseSums
<1>11. SumOf(Owings, K \cup R) = SumOf(Owings, K) + SumOf(Owings, R)
  BY <1>8, <1>9, <1>10, SumUnion
<1>12. Totals(0, LastDay).owed = Sum(Outstanding, DOMAIN cases)
  BY DEF Totals
<1>13. Sum(Outstanding, DOMAIN cases) = SumOf(Owings, DOMAIN cases)
  BY CaseSums
<1>14. QED
  BY <1>5, <1>6, <1>8, <1>9, <1>11, <1>12, <1>13

LEMMA SegmentsAgree ==
  ASSUME StatBase
  PROVE  SegmentsTie(Stats(0, LastDay), ListActivity)
<1>1. PICK s, f, A : s = Stats(0, LastDay) /\ f = ListActivity /\ A = Cohort(0, LastDay)
  OBVIOUS
<1>2. PICK page : page = Listed(f, Blank, "debtor")
  OBVIOUS
<1>3. DOMAIN f = Live(clients) /\ \A c \in Live(clients) : f[c] = Activity(c)
  BY <1>1 DEF ListActivity
<1>4. s.totals = Totals(0, LastDay) /\ s.funnel.cased = Cardinality(Cased(A))
  BY <1>1 DEF Stats, Funnel, Cased
<1>5. {c \in A : Derived(f[c]) \in {"client", "repeat"}} = Cased(A)
  <2>1. ASSUME NEW c \in A
        PROVE  Derived(f[c]) \in {"client", "repeat"} <=> CasesOf(c) # {}
    <3>1. f[c] = Activity(c)
      BY <1>1, <1>3, CohortIs
    <3>2. f[c].cases = Cardinality(CasesOf(c)) /\ IsFiniteSet(CasesOf(c))
      BY <3>1, ActivityIs
    <3>3. f[c].cases \in Nat /\ (f[c].cases = 0 <=> CasesOf(c) = {})
      BY <3>2, FS_CardinalityType, FS_EmptySet
    <3>4. QED
      BY <3>3, CasedIs
  <2>2. QED
    BY <2>1 DEF Cased
<1>6. ASSUME NEW c \in page.clients, "debtor" \in Derive(c, f[c]).tags
      PROVE  s.totals.owed > 0
  <2>1. c \in Live(clients)
    BY <1>2, <1>3, <1>6 DEF Listed
  <2>2. "debtor" \in Derive(c, Activity(c)).tags
    BY <1>3, <1>6, <2>1
  <2>3. QED
    BY <1>4, <2>2, DebtorOwes
<1>7. SumOver(page.counts, LAMBDA n : n) = Cardinality(Live(clients))
  BY <1>1, <1>2, SegmentsCount
<1>8. /\ Cardinality({c \in Cohort(0, LastDay) : Derived(f[c]) \in {"client", "repeat"}}) = s.funnel.cased
      /\ \A c \in page.clients : "debtor" \in Derive(c, f[c]).tags => s.totals.owed > 0
  BY <1>1, <1>4, <1>5, <1>6
<1>9. SegmentsTie(s, f)
  BY <1>2, <1>7, <1>8 DEF SegmentsTie
<1>10. QED
  BY <1>1, <1>9

LEMMA StatsAgree ==
  ASSUME StatBase
  PROVE  StatsTie
<1>1. PanelsTie(Stats(0, LastDay)) /\ CohortTies(Stats(0, LastDay), 0, LastDay)
  BY AllTime, PanelsAgree, CohortAgrees
<1>2. LifetimeTies(Stats(0, LastDay).totals, ListActivity)
  <2>1. Stats(0, LastDay).totals = Totals(0, LastDay)
    BY DEF Stats
  <2>2. QED
    BY <2>1, LifetimeAgrees
<1>3. SegmentsTie(Stats(0, LastDay), ListActivity)
  BY SegmentsAgree
<1>4. ASSUME NEW r \in Ranges
      PROVE  PanelsTie(Stats(r[1], r[2])) /\ CohortTies(Stats(r[1], r[2]), r[1], r[2])
  <2>1. r[1] \in Days /\ r[2] \in Days
    BY ClientStatsAssumption
  <2>2. QED
    BY <2>1, PanelsAgree, CohortAgrees
<1>5. QED
  BY <1>1, <1>2, <1>3, <1>4 DEF StatsTie

\* The panels of a page, the cohort with those whose first consultation nobody has
\* answered yet, the segments and the client cards add up across their queries in
\* every reachable state, for whatever range of days somebody asks for (GetStats,
\* Derive, RevenueTotal).
THEOREM DashboardsAgree == Spec => []StatsTie
<1>1. ASSUME ClientsInv
      PROVE  StatsTie
  <2>1. StatBase
    BY <1>1 DEF ClientsInv, IntakeInv, IntakeTypeOK, StatBase, LeadTable
  <2>2. QED
    BY <2>1, StatsAgree
<1>2. QED
  BY <1>1, ClientsCorrect, PTL

-----------------------------------------------------------------------------
(* What a run of an importer finds of the one before.                      *)

\* A table of clients after the one with this phone was met on this day.
Met(t, u, p, d) ==
    /\ u \in ClientTable /\ DOMAIN t \subseteq DOMAIN u
    /\ \A c \in DOMAIN t : /\ u[c].phone = t[c].phone /\ u[c].gone = t[c].gone
                           /\ u[c].first \in {t[c].first, d} /\ u[c].first <= t[c].first
                           /\ u[c].last \in {t[c].last, d} /\ t[c].last <= u[c].last
    /\ \A c \in DOMAIN u \ DOMAIN t : u[c].phone = p /\ u[c].first = d /\ u[c].last = d
    /\ With(t, p) # {} => DOMAIN u = DOMAIN t

LEMMA ClientDays ==
  ASSUME NEW t \in ClientTable
  PROVE  \A c \in DOMAIN t : t[c] \in ClientRow /\ t[c].first \in Int /\ t[c].last \in Int
<1>1. ASSUME NEW c \in DOMAIN t
      PROVE  t[c] \in ClientRow /\ t[c].first \in Int /\ t[c].last \in Int
  <2>1. t[c] \in ClientRow
    BY DEF ClientTable
  <2>2. t[c].first \in Days /\ t[c].last \in Days
    BY <2>1, RowFields
  <2>3. QED
    BY <2>1, <2>2 DEF Days
<1>2. QED
  BY <1>1

LEMMA SpanIs ==
  ASSUME NEW r \in ClientRow, NEW d \in Days, LastDay \in Nat, NEW x, x = Spanning(r, d)
  PROVE  /\ x \in ClientRow /\ x.gone = r.gone /\ x.phone = r.phone
         /\ x.first \in {r.first, d} /\ x.first <= r.first /\ x.first <= d
         /\ x.last \in {r.last, d} /\ r.last <= x.last /\ d <= x.last
         /\ r.first <= d /\ d <= r.last => x = r
<1>1. r.first \in Days /\ r.last \in Days /\ r.first \in Int /\ r.last \in Int /\ d \in Int
  BY DEF ClientRow, Days
<1>2. PICK f, l : f = Min({r.first, d}) /\ l = Max({r.last, d})
  OBVIOUS
<1>3. f \in {r.first, d} /\ f <= r.first /\ f <= d
  <2>1. \E y \in {r.first, d} : \A z \in {r.first, d} : y <= z
    BY <1>1
  <2>2. QED
    BY <1>2, <2>1 DEF Min
<1>4. l \in {r.last, d} /\ r.last <= l /\ d <= l
  <2>1. \E y \in {r.last, d} : \A z \in {r.last, d} : y >= z
    BY <1>1
  <2>2. l \in {r.last, d} /\ \A z \in {r.last, d} : l >= z
    BY <1>2, <2>1 DEF Max
  <2>3. QED
    BY <1>1, <2>2
<1>5. x = [[r EXCEPT !.first = f] EXCEPT !.last = l]
  BY <1>2 DEF Spanning, ClientRow
<1>6. f \in Days /\ l \in Days
  BY <1>1, <1>3, <1>4
<1>7. x \in ClientRow /\ x.gone = r.gone /\ x.phone = r.phone /\ x.first = f /\ x.last = l /\ x.pin = r.pin
  BY <1>5, <1>6 DEF ClientRow
<1>8. r.first <= d /\ d <= r.last => f = r.first /\ l = r.last
  BY <1>1, <1>3, <1>4
<1>9. f = r.first /\ l = r.last => x = r
  BY <1>5 DEF ClientRow
<1>10. QED
  BY <1>3, <1>4, <1>7, <1>8, <1>9

LEMMA AnchoredMeets ==
  ASSUME NEW t \in ClientTable, NEW p \in Phones, NEW d \in Days, LastDay \in Nat,
         NEW u, u = Anchored(t, p, d)
  PROVE  /\ Met(t, u, p, d) /\ With(u, p) # {}
         /\ u[IdOf(u, p)].first <= d /\ d <= u[IdOf(u, p)].last
         /\ With(t, p) # {} /\ t[IdOf(t, p)].first <= d /\ d <= t[IdOf(t, p)].last => u = t
<1>1. u \in ClientTable
  BY AnchoredKeeps DEF Keeps
<1>2. CASE With(t, p) = {}
  <2>1. PICK x : x = Client(p, d)
    OBVIOUS
  <2>2. x \in ClientRow /\ ~x.gone /\ x.phone = p /\ x.first = d /\ x.last = d
    BY <2>1, NewRow DEF Client
  <2>3. u = Append(t, x)
    BY <1>2, <2>1 DEF Anchored
  <2>4. PICK n \in Nat : n = Len(t) /\ DOMAIN t = 1 .. n
    BY DEF ClientTable
  <2>5. /\ DOMAIN u = 1 .. (n + 1) /\ u[n + 1] = x /\ \A c \in DOMAIN t : u[c] = t[c]
    BY <2>2, <2>3, <2>4 DEF ClientTable
  <2>6. \A c \in DOMAIN t : t[c] \in ClientRow /\ t[c].first \in Int /\ t[c].last \in Int
    BY ClientDays
  <2>7. Met(t, u, p, d)
    BY <1>1, <1>2, <2>2, <2>4, <2>5, <2>6 DEF Met
  <2>8. \A c \in With(u, p) : c = n + 1
    <3>1. ASSUME NEW c \in With(u, p), c \in DOMAIN t PROVE FALSE
      <4>1. c \in Live(u) /\ u[c].phone = p
        BY DEF With
      <4>2. c \in With(t, p)
        BY <2>5, <3>1, <4>1 DEF With, Live
      <4>3. QED
        BY <1>2, <4>2
    <3>2. QED
      BY <2>4, <2>5, <3>1 DEF With, Live
  <2>9. n + 1 \in With(u, p)
    BY <2>2, <2>4, <2>5 DEF With, Live
  <2>10. IdOf(u, p) = n + 1
    BY <2>8, <2>9 DEF IdOf
  <2>11. d <= d
    BY DEF Days
  <2>12. QED
    BY <1>2, <2>2, <2>5, <2>7, <2>9, <2>10, <2>11
<1>3. CASE With(t, p) # {}
  <2>1. PICK c : c = IdOf(t, p)
    OBVIOUS
  <2>2. c \in Live(t) /\ t[c].phone = p
    BY <1>3, <2>1, FoundLive
  <2>3. c \in DOMAIN t /\ t[c] \in ClientRow
    BY <2>2 DEF Live, ClientTable
  <2>4. PICK r \in ClientRow : r = t[c]
    BY <2>3
  <2>5. PICK x : x = Spanning(r, d)
    OBVIOUS
  <2>6. u = [t EXCEPT ![c] = x]
    BY <1>3, <2>1, <2>4, <2>5 DEF Anchored
  <2>7. DOMAIN u = DOMAIN t /\ u[c] = x /\ \A k \in DOMAIN t \ {c} : u[k] = t[k]
    BY <2>3, <2>6
  <2>8. \A k \in DOMAIN t : t[k] \in ClientRow /\ t[k].first \in Int /\ t[k].last \in Int
    BY ClientDays
  <2>9. /\ x.gone = r.gone /\ x.phone = r.phone
        /\ x.first \in {r.first, d} /\ x.first <= r.first /\ x.first <= d
        /\ x.last \in {r.last, d} /\ r.last <= x.last /\ d <= x.last
        /\ r.first <= d /\ d <= r.last => x = r
    BY <2>5, SpanIs
  <2>10. Met(t, u, p, d)
    BY <1>1, <1>3, <2>3, <2>4, <2>7, <2>8, <2>9 DEF Met
  <2>11. With(u, p) = With(t, p)
    BY <2>3, <2>4, <2>7, <2>9 DEF With, Live
  <2>12. IdOf(u, p) = c
    BY <2>1, <2>11 DEF IdOf
  <2>13. r.first <= d /\ d <= r.last => u = t
    <3>1. t = [t EXCEPT ![c] = t[c]]
      BY <2>3 DEF ClientTable
    <3>2. QED
      BY <2>4, <2>6, <2>9, <3>1
  <2>14. QED
    BY <1>3, <2>1, <2>4, <2>7, <2>9, <2>10, <2>11, <2>12, <2>13
<1>4. QED
  BY <1>2, <1>3

\* Who was known by a phone still is, and is the same.
LEMMA MetKnown ==
  ASSUME NEW t, NEW u, NEW p, NEW d, Met(t, u, p, d), NEW q, With(t, q) # {}
  PROVE  With(u, q) = With(t, q) /\ IdOf(u, q) = IdOf(t, q)
<1>1. ASSUME NEW c \in With(u, q) PROVE c \in With(t, q)
  <2>1. c \in DOMAIN u /\ ~u[c].gone /\ u[c].phone = q
    BY <1>1 DEF With, Live
  <2>2. c \in DOMAIN t
    BY <2>1 DEF Met
  <2>3. QED
    BY <2>1, <2>2 DEF Met, With, Live
<1>2. ASSUME NEW c \in With(t, q) PROVE c \in With(u, q)
  BY <1>2 DEF Met, With, Live
<1>3. With(u, q) = With(t, q)
  BY <1>1, <1>2
<1>4. QED
  BY <1>3 DEF IdOf

\* A client's consultation at that time has this status: the one there was, or one more.
Put(q, u, i, c, at, s) ==
    /\ u \in Seq(ConsultationRow) /\ i \in DOMAIN u
    /\ u[i].client = c /\ u[i].at = at /\ u[i].status = s
    /\ DOMAIN q \subseteq DOMAIN u /\ \A j \in DOMAIN q \ {i} : u[j] = q[j]
    /\ \A j \in DOMAIN u : j \in DOMAIN q \/ j = i
    /\ IF i \in DOMAIN q
       THEN /\ q[i].client = c /\ q[i].at = at /\ u[i].by = q[i].by
            /\ q[i].status = s => u[i] = q[i]
            /\ u[i] = [q[i] EXCEPT !.status = s]
            /\ DOMAIN u = DOMAIN q
       ELSE \A j \in DOMAIN q : ~(q[j].client = c /\ q[j].at = at)

ThereIn(q, c, at) == {i \in DOMAIN q : q[i].client = c /\ q[i].at = at}

LEMMA IsThere ==
  ASSUME NEW b, NEW c, NEW at
  PROVE  There(b, c, at) = ThereIn(b.consults, c, at)
BY DEF There, ThereIn

Longer(q, u, m, x) ==
    /\ m \notin DOMAIN q /\ DOMAIN u = DOMAIN q \cup {m}
    /\ u[m] = x /\ \A j \in DOMAIN q : u[j] = q[j]

LEMMA OneMoreRow ==
  ASSUME NEW R, NEW q \in Seq(R), NEW x \in R, NEW u, u = Append(q, x)
  PROVE  u \in Seq(R) /\ \E m : Longer(q, u, m, x)
<1>1. PICK n \in Nat : n = Len(q) /\ DOMAIN q = 1 .. n
  OBVIOUS
<1>2. PICK m : m = n + 1
  OBVIOUS
<1>3. /\ u \in Seq(R) /\ DOMAIN u = 1 .. m /\ u[m] = x /\ \A j \in 1 .. n : u[j] = q[j]
  BY <1>1, <1>2
<1>4. m \notin 1 .. n /\ 1 .. m = (1 .. n) \cup {m}
  BY <1>2
<1>5. Longer(q, u, m, x)
  BY <1>1, <1>3, <1>4 DEF Longer
<1>6. QED
  BY <1>3, <1>5

LEMMA PutAgain ==
  ASSUME NEW q \in Seq(ConsultationRow), NEW i \in DOMAIN q, NEW s \in Statuses,
         NEW u, u = [q EXCEPT ![i] = [q[i] EXCEPT !.status = s]]
  PROVE  Put(q, u, i, q[i].client, q[i].at, s)
<1>1. PICK y \in ConsultationRow : y = q[i]
  OBVIOUS
<1>2. PICK x : x = [y EXCEPT !.status = s]
  OBVIOUS
<1>3. /\ x \in ConsultationRow /\ x.client = y.client /\ x.at = y.at /\ x.status = s /\ x.by = y.by
      /\ y.status = s => x = y
  BY <1>2 DEF ConsultationRow
<1>4. u = [q EXCEPT ![i] = x]
  BY <1>1, <1>2
<1>5. /\ u \in Seq(ConsultationRow) /\ DOMAIN u = DOMAIN q /\ u[i] = x
      /\ \A j \in DOMAIN q \ {i} : u[j] = q[j]
  BY <1>3, <1>4
<1>6. QED
  BY <1>1, <1>2, <1>3, <1>5 DEF Put

LEMMA ConsultationPut ==
  ASSUME NEW b, GoodBase(b), NEW r \in TabRow, r.date # NoDate,
         NEW c \in Nat, c = IdOf(b.clients, r.phone),
         NEW k \in WithConsultation(b, r)
  PROVE  /\ k.clients = b.clients /\ k.leads = b.leads /\ k.cases = b.cases
         /\ r.status = Blank => k = b
         /\ r.status # Blank =>
               \E i : Put(b.consults, k.consults, i, c, ConsultationTime(r), StatusOf(r.status))
                      /\ (i \notin DOMAIN b.consults => k.consults[i].by = "import")
<1>1. PICK at : at = ConsultationTime(r)
  OBVIOUS
<1>2. PICK s \in Statuses : s = StatusOf(r.status)
  BY StatusKnown
<1>3. PICK new : new = Consultation(c, at, r.amount, s, r.date, "import")
  OBVIOUS
<1>4. new \in ConsultationRow /\ new.client = c /\ new.at = at /\ new.status = s /\ new.by = "import"
  <2>1. r.date \in Days /\ at \in Days /\ r.amount \in Nat
    BY <1>1 DEF TabRow, ConsultationTime
  <2>2. QED
    BY <1>3, <2>1 DEF Consultation, ConsultationRow
<1>5. PICK old : old = b.consults
  OBVIOUS
<1>6. old \in Seq(ConsultationRow)
  BY <1>5 DEF GoodBase
<1>7. ASSUME NEW u, k = [b EXCEPT !.consults = u]
      PROVE  k.clients = b.clients /\ k.leads = b.leads /\ k.cases = b.cases /\ k.consults = u
  <2>1. k = [clients |-> b.clients, leads |-> b.leads, consults |-> u, cases |-> b.cases]
    BY <1>7 DEF GoodBase
  <2>2. QED
    BY <2>1
<1>8. CASE r.status = Blank
  <2>1. k = b
    BY <1>8 DEF WithConsultation
  <2>2. QED
    BY <1>8, <2>1
<1>9. CASE r.status # Blank /\ There(b, c, at) = {}
  <2>1. PICK u : u = Append(old, new)
    OBVIOUS
  <2>9. new \in ConsultationRow
    BY <1>4
  <2>10. u \in Seq(ConsultationRow) /\ \E i : Longer(old, u, i, new)
    BY <1>6, <2>1, <2>9, OneMoreRow
  <2>11. PICK i : Longer(old, u, i, new)
    BY <2>10
  <2>2. k = [b EXCEPT !.consults = u]
    BY <1>1, <1>2, <1>3, <1>5, <1>9, <2>1 DEF WithConsultation
  <2>3. \A j \in DOMAIN old : ~(old[j].client = c /\ old[j].at = at)
    BY <1>5, <1>9 DEF There
  <2>5. Put(old, u, i, c, at, s)
    BY <1>4, <2>3, <2>10, <2>11 DEF Put, Longer
  <2>6. k.clients = b.clients /\ k.leads = b.leads /\ k.cases = b.cases /\ k.consults = u
    BY <1>7, <2>2
  <2>7. QED
    BY <1>1, <1>2, <1>4, <1>5, <1>9, <2>5, <2>6, <2>11 DEF Longer
<1>10. CASE r.status # Blank /\ There(b, c, at) # {}
  <2>1. k \in {[b EXCEPT !.consults[i].status = new.status] : i \in There(b, c, at)}
    BY <1>1, <1>2, <1>3, <1>10 DEF WithConsultation
  <2>2. PICK i \in There(b, c, at) : k = [b EXCEPT !.consults[i].status = new.status]
    BY <2>1
  <2>3. i \in DOMAIN old /\ old[i].client = c /\ old[i].at = at
    BY <1>5 DEF There
  <2>4. PICK u : u = [old EXCEPT ![i] = [old[i] EXCEPT !.status = s]]
    OBVIOUS
  <2>5. k = [b EXCEPT !.consults = u]
    <3>1. k = [b EXCEPT !.consults = [b.consults EXCEPT ![i] = [b.consults[i] EXCEPT !.status = s]]]
      BY <1>4, <2>2 DEF GoodBase
    <3>2. QED
      BY <1>5, <2>4, <3>1
  <2>6. Put(old, u, i, c, at, s)
    BY <1>6, <2>3, <2>4, PutAgain
  <2>7. k.clients = b.clients /\ k.leads = b.leads /\ k.cases = b.cases /\ k.consults = u
    BY <1>7, <2>5
  <2>8. QED
    BY <1>1, <1>2, <1>5, <1>10, <2>3, <2>6, <2>7
<1>11. QED
  BY <1>8, <1>9, <1>10

\* A row's lead, once.
Filled(l, u, i, c, d) ==
    IF i \in DOMAIN l THEN u = l
    ELSE /\ i \in DOMAIN u /\ \A m \in DOMAIN u : m \in DOMAIN l \/ m = i
         /\ \A m \in DOMAIN l : m \in DOMAIN u /\ u[m] = l[m]
         /\ u[i].client = c /\ u[i].day = d

\* What a readable row writes.
Wrote(b, k, n, r) ==
    /\ k.clients = Anchored(b.clients, r.phone, r.date) /\ k.cases = b.cases
    /\ Filled(b.leads, k.leads, <<"55k", n>>, IdOf(k.clients, r.phone), r.date)
    /\ r.status = Blank => k.consults = b.consults
    /\ r.status # Blank =>
          \E i : /\ Put(b.consults, k.consults, i, IdOf(k.clients, r.phone), ConsultationTime(r), StatusOf(r.status))
                 /\ i \notin DOMAIN b.consults => k.consults[i].by = "import"

LEMMA LeadFilled ==
  ASSUME NEW b, NEW n, NEW r, NEW c, c = IdOf(b.clients, r.phone)
  PROVE  Filled(b.leads, WithLead(b, n, r), <<"55k", n>>, c, r.date)
<1>1. PICK l, u, i : l = b.leads /\ u = WithLead(b, n, r) /\ i = <<"55k", n>>
  OBVIOUS
<1>2. CASE i \in DOMAIN l
  BY <1>1, <1>2 DEF WithLead, Filled
<1>3. CASE i \notin DOMAIN l
  <2>1. PICK x : x = [Lead(c, r.date) EXCEPT !.synced = TRUE]
    OBVIOUS
  <2>2. x.client = c /\ x.day = r.date
    BY <2>1 DEF Lead
  <2>3. u = WithRow(l, i, x)
    BY <1>1, <1>3, <2>1 DEF WithLead
  <2>4. u[i] = x /\ i \in DOMAIN u /\ \A m \in DOMAIN u : m \in DOMAIN l \/ m = i
    BY <2>3 DEF WithRow
  <2>5. \A m \in DOMAIN l : m \in DOMAIN u /\ u[m] = l[m]
    BY <1>3, <2>3 DEF WithRow
  <2>6. Filled(l, u, i, c, r.date)
    BY <1>3, <2>2, <2>4, <2>5 DEF Filled
  <2>7. QED
    BY <1>1, <2>6
<1>4. QED
  BY <1>2, <1>3

LEMMA RowWrites ==
  ASSUME NEW b, GoodBase(b), NEW n, NEW r \in TabRow, r = Tab55k[n], LastDay \in Nat,
         NEW k \in ImportRow(b, n)
  PROVE  (Readable(r) => Wrote(b, k, n, r)) /\ (~Readable(r) => k = b)
<1>1. CASE ~Readable(r)
  BY <1>1 DEF ImportRow
<1>2. CASE Readable(r)
  <2>1. r.phone \in Phones /\ r.date \in Days /\ r.date # NoDate
    BY <1>2 DEF Readable, TabRow
  <2>2. PICK p, d : p = r.phone /\ d = r.date
    OBVIOUS
  <2>3. PICK known : known = [b EXCEPT !.clients = Anchored(@, p, d)]
    OBVIOUS
  <2>4. GoodBase(known) /\ IdOf(known.clients, p) \in Live(known.clients) /\ IdOf(known.clients, p) \in Nat
    BY <2>1, <2>2, <2>3, KnownGood
  <2>5. /\ known.clients = Anchored(b.clients, p, d) /\ known.leads = b.leads
        /\ known.consults = b.consults /\ known.cases = b.cases
    <3>1. PICK t : t = Anchored(b.clients, p, d)
      OBVIOUS
    <3>2. known = [clients |-> t, leads |-> b.leads, consults |-> b.consults, cases |-> b.cases]
      BY <2>3, <3>1 DEF GoodBase
    <3>3. QED
      BY <3>1, <3>2
  <2>6. PICK l : l = WithLead(known, n, r)
    OBVIOUS
  <2>7. PICK next : next = [known EXCEPT !.leads = l]
    OBVIOUS
  <2>8. GoodBase(next) /\ next.clients = known.clients
    BY <2>1, <2>2, <2>4, <2>6, <2>7, LeadGood
  <2>9. next.leads = l /\ next.consults = b.consults /\ next.cases = b.cases
    <3>1. next = [clients |-> known.clients, leads |-> l, consults |-> known.consults, cases |-> known.cases]
      BY <2>4, <2>7 DEF GoodBase
    <3>2. QED
      BY <2>5, <3>1
  <2>10. k \in WithConsultation(next, r)
    BY <1>2, <2>2, <2>3, <2>6, <2>7 DEF ImportRow
  <2>11. PICK c \in Nat : c = IdOf(known.clients, p)
    BY <2>4
  <2>12. c = IdOf(next.clients, r.phone) /\ c = IdOf(known.clients, r.phone)
    BY <2>2, <2>8, <2>11
  <2>13. /\ k.clients = next.clients /\ k.leads = next.leads /\ k.cases = next.cases
         /\ r.status = Blank => k = next
         /\ r.status # Blank =>
               \E i : Put(next.consults, k.consults, i, c, ConsultationTime(r), StatusOf(r.status))
                      /\ (i \notin DOMAIN next.consults => k.consults[i].by = "import")
    BY <2>1, <2>8, <2>10, <2>12, ConsultationPut
  <2>14. Filled(known.leads, l, <<"55k", n>>, c, r.date)
    BY <2>6, <2>12, LeadFilled
  <2>15. Filled(b.leads, k.leads, <<"55k", n>>, c, r.date)
    BY <2>5, <2>9, <2>13, <2>14
  <2>16. Wrote(b, k, n, r)
    BY <2>2, <2>5, <2>8, <2>9, <2>12, <2>13, <2>15 DEF Wrote
  <2>17. QED
    BY <1>2, <2>16
<1>3. QED
  BY <1>1, <1>2

LEMMA PutThere ==
  ASSUME NEW q, NEW u, NEW i, NEW c, NEW at, NEW s, Put(q, u, i, c, at, s)
  PROVE  /\ i \in ThereIn(u, c, at)
         /\ \A a, e : ThereIn(q, a, e) \subseteq ThereIn(u, a, e)
         /\ \A a, e, j : j \in ThereIn(u, a, e) => j \in ThereIn(q, a, e) \/ (j = i /\ a = c /\ e = at)
<1>1. i \in ThereIn(u, c, at)
  BY DEF Put, ThereIn
<1>2. ASSUME NEW a, NEW e, NEW j \in ThereIn(q, a, e)
      PROVE  j \in ThereIn(u, a, e)
  <2>1. j \in DOMAIN q /\ q[j].client = a /\ q[j].at = e
    BY DEF ThereIn
  <2>2. j \in DOMAIN u /\ u[j].client = a /\ u[j].at = e
    BY <2>1 DEF Put
  <2>3. QED
    BY <2>2 DEF ThereIn
<1>3. ASSUME NEW a, NEW e, NEW j \in ThereIn(u, a, e)
      PROVE  j \in ThereIn(q, a, e) \/ (j = i /\ a = c /\ e = at)
  <2>1. j \in DOMAIN u /\ u[j].client = a /\ u[j].at = e
    BY DEF ThereIn
  <2>2. CASE j = i
    BY <2>1, <2>2 DEF Put
  <2>3. CASE j # i
    <3>1. j \in DOMAIN q /\ u[j] = q[j]
      BY <2>1, <2>3 DEF Put
    <3>2. QED
      BY <2>1, <3>1 DEF ThereIn
  <2>4. QED
    BY <2>2, <2>3
<1>4. QED
  BY <1>1, <1>2, <1>3

\* Meeting one client takes nothing from what is found of another.
LEMMA MetFound ==
  ASSUME NEW b, NEW k, b.clients \in ClientTable, NEW p, NEW d \in Days, Met(b.clients, k.clients, p, d),
         NEW q, NEW e \in Days, FoundClient(b, q, e)
  PROVE  FoundClient(k, q, e) /\ IdOf(k.clients, q) = IdOf(b.clients, q)
<1>1. PICK t, u : t = b.clients /\ u = k.clients
  OBVIOUS
<1>2. With(t, q) # {} /\ Met(t, u, p, d) /\ t \in ClientTable /\ u \in ClientTable
  BY <1>1 DEF FoundClient, Met
<1>3. With(u, q) = With(t, q) /\ IdOf(u, q) = IdOf(t, q)
  BY <1>2, MetKnown
<1>4. PICK c : c = IdOf(t, q)
  OBVIOUS
<1>5. c \in DOMAIN t
  BY <1>2, <1>4, FoundLive DEF Live
<1>6. t[c].first <= e /\ e <= t[c].last
  BY <1>1, <1>4 DEF FoundClient
<1>7. t[c].first \in Int /\ t[c].last \in Int
  BY <1>2, <1>5, ClientDays
<1>8. u[c].first <= t[c].first /\ t[c].last <= u[c].last /\ c \in DOMAIN u
  BY <1>2, <1>5 DEF Met
<1>9. u[c].first \in Int /\ u[c].last \in Int
  BY <1>2, <1>8, ClientDays
<1>10. e \in Int
  BY DEF Days
<1>11. u[c].first <= e /\ e <= u[c].last
  BY <1>6, <1>7, <1>8, <1>9, <1>10
<1>12. QED
  BY <1>1, <1>2, <1>3, <1>4, <1>11 DEF FoundClient

LEMMA ReadableRow ==
  ASSUME NEW r \in TabRow, Readable(r)
  PROVE  r.phone \in Phones /\ r.date \in Days /\ r.date # NoDate
BY DEF Readable, TabRow

\* A row that was worked through is found.
LEMMA WrittenFound ==
  ASSUME NEW b, GoodBase(b), NEW n, NEW r \in TabRow, Readable(r), LastDay \in Nat, NEW k, Wrote(b, k, n, r)
  PROVE  FoundRow(k, n, r) /\ Met(b.clients, k.clients, r.phone, r.date)
<1>1. PICK p, d : p = r.phone /\ d = r.date
  OBVIOUS
<1>2. p \in Phones /\ d \in Days
  BY <1>1, ReadableRow
<1>3. b.clients \in ClientTable
  BY DEF GoodBase, Keeps
<1>4. k.clients = Anchored(b.clients, p, d)
  BY <1>1 DEF Wrote
<1>5. /\ Met(b.clients, k.clients, p, d) /\ With(k.clients, p) # {}
      /\ k.clients[IdOf(k.clients, p)].first <= d /\ d <= k.clients[IdOf(k.clients, p)].last
  BY <1>2, <1>3, <1>4, AnchoredMeets
<1>6. FoundClient(k, p, d)
  BY <1>5 DEF FoundClient
<1>7. <<"55k", n>> \in DOMAIN k.leads
  BY DEF Wrote, Filled
<1>8. r.status # Blank => There(k, IdOf(k.clients, p), ConsultationTime(r)) # {}
  <2>1. SUFFICES ASSUME r.status # Blank PROVE There(k, IdOf(k.clients, p), ConsultationTime(r)) # {}
    OBVIOUS
  <2>2. PICK i : Put(b.consults, k.consults, i, IdOf(k.clients, p), ConsultationTime(r), StatusOf(r.status))
    BY <1>1, <2>1 DEF Wrote
  <2>3. QED
    BY <2>2, PutThere, IsThere
<1>9. QED
  BY <1>1, <1>5, <1>6, <1>7, <1>8 DEF FoundRow

\* And still is after another.
LEMMA StillFound ==
  ASSUME NEW b, GoodBase(b), NEW n, NEW r \in TabRow, Readable(r), LastDay \in Nat, NEW k, Wrote(b, k, n, r),
         NEW m, NEW q \in TabRow, FoundRow(b, m, q)
  PROVE  FoundRow(k, m, q)
<1>1. SUFFICES ASSUME Readable(q) PROVE FoundRow(k, m, q)
  BY DEF FoundRow
<1>2. q.phone \in Phones /\ q.date \in Days /\ r.date \in Days
  BY <1>1, ReadableRow
<1>3. b.clients \in ClientTable
  BY DEF GoodBase, Keeps
<1>4. Met(b.clients, k.clients, r.phone, r.date)
  BY WrittenFound
<1>5. FoundClient(b, q.phone, q.date) /\ <<"55k", m>> \in DOMAIN b.leads
  BY <1>1 DEF FoundRow
<1>6. FoundClient(k, q.phone, q.date) /\ IdOf(k.clients, q.phone) = IdOf(b.clients, q.phone)
  BY <1>2, <1>3, <1>4, <1>5, MetFound
<1>7. <<"55k", m>> \in DOMAIN k.leads
  BY <1>5 DEF Wrote, Filled
<1>8. PICK c, at : c = IdOf(k.clients, q.phone) /\ at = ConsultationTime(q)
  OBVIOUS
<1>9. q.status # Blank => ThereIn(b.consults, c, at) # {}
  BY <1>1, <1>6, <1>8, IsThere DEF FoundRow
<1>10. ThereIn(b.consults, c, at) \subseteq ThereIn(k.consults, c, at)
  <2>1. CASE r.status = Blank
    BY <2>1 DEF Wrote
  <2>2. CASE r.status # Blank
    <3>1. PICK i : Put(b.consults, k.consults, i, IdOf(k.clients, r.phone), ConsultationTime(r), StatusOf(r.status))
      BY <2>2 DEF Wrote
    <3>2. QED
      BY <3>1, PutThere
  <2>3. QED
    BY <2>1, <2>2
<1>11. q.status # Blank => There(k, IdOf(k.clients, q.phone), ConsultationTime(q)) # {}
  BY <1>8, <1>9, <1>10, IsThere
<1>12. QED
  BY <1>6, <1>7, <1>11 DEF FoundRow

\* Nothing but a status differs.
SameTables(b, x) ==
    /\ x.clients = b.clients /\ x.leads = b.leads /\ DOMAIN x.consults = DOMAIN b.consults
    /\ \A a, e : ThereIn(x.consults, a, e) = ThereIn(b.consults, a, e)

\* A row that is found writes nothing else.
LEMMA FoundAgain ==
  ASSUME NEW b, GoodBase(b), NEW n, NEW r \in TabRow, Readable(r), LastDay \in Nat, NEW k, Wrote(b, k, n, r),
         FoundRow(b, n, r)
  PROVE  SameTables(b, k)
<1>1. PICK p, d : p = r.phone /\ d = r.date
  OBVIOUS
<1>2. p \in Phones /\ d \in Days
  BY <1>1, ReadableRow
<1>3. b.clients \in ClientTable
  BY DEF GoodBase, Keeps
<1>4. k.clients = Anchored(b.clients, p, d)
  BY <1>1 DEF Wrote
<1>5. With(b.clients, p) # {} /\ b.clients[IdOf(b.clients, p)].first <= d /\ d <= b.clients[IdOf(b.clients, p)].last
  BY <1>1 DEF FoundRow, FoundClient
<1>6. k.clients = b.clients
  BY <1>2, <1>3, <1>4, <1>5, AnchoredMeets
<1>7. k.leads = b.leads
  BY DEF Wrote, Filled, FoundRow
<1>8. CASE r.status = Blank
  BY <1>6, <1>7, <1>8 DEF Wrote, SameTables
<1>9. CASE r.status # Blank
  <2>1. PICK c, at : c = IdOf(b.clients, p) /\ at = ConsultationTime(r)
    OBVIOUS
  <2>2. PICK i : Put(b.consults, k.consults, i, c, at, StatusOf(r.status))
    BY <1>1, <1>6, <1>9, <2>1 DEF Wrote
  <2>3. ThereIn(b.consults, c, at) # {}
    BY <1>1, <1>9, <2>1, IsThere DEF FoundRow
  <2>4. i \in DOMAIN b.consults /\ i \in ThereIn(b.consults, c, at)
    <3>1. PICK j : j \in DOMAIN b.consults /\ b.consults[j].client = c /\ b.consults[j].at = at
      BY <2>3 DEF ThereIn
    <3>2. i \in DOMAIN b.consults /\ b.consults[i].client = c /\ b.consults[i].at = at
      BY <2>2, <3>1 DEF Put
    <3>3. QED
      BY <3>2 DEF ThereIn
  <2>5. DOMAIN k.consults = DOMAIN b.consults
    BY <2>2, <2>4 DEF Put
  <2>6. \A a, e : ThereIn(k.consults, a, e) = ThereIn(b.consults, a, e)
    <3>1. \A a, e, j : j \in ThereIn(k.consults, a, e) => j \in ThereIn(b.consults, a, e)
      BY <2>2, <2>4, PutThere
    <3>2. QED
      BY <2>2, <3>1, PutThere
  <2>7. QED
    BY <1>6, <1>7, <2>5, <2>6 DEF SameTables
<1>10. QED
  BY <1>8, <1>9

\* Of a consultation that a row left alone, the earlier rows say what they said.
LEMMA SpeaksStill ==
  ASSUME NEW b, NEW k, NEW p, NEW d, Met(b.clients, k.clients, p, d),
         NEW m, NEW q, FoundRow(b, m, q), NEW j, k.consults[j] = b.consults[j]
  PROVE  Speaks(k, q, j) <=> Speaks(b, q, j)
<1>1. CASE Readable(q)
  <2>1. With(b.clients, q.phone) # {}
    BY <1>1 DEF FoundRow, FoundClient
  <2>2. IdOf(k.clients, q.phone) = IdOf(b.clients, q.phone)
    BY <2>1, MetKnown
  <2>3. QED
    BY <2>2 DEF Speaks
<1>2. CASE ~Readable(q)
  BY <1>2 DEF Speaks
<1>3. QED
  BY <1>1, <1>2

LEMMA AloneIs ==
  ASSUME NEW b, NEW j
  PROVE  Alone55k(b, j) <=> ThereIn(b.consults, b.consults[j].client, b.consults[j].at) = {j}
BY DEF Alone55k, There, ThereIn

\* The rows up to the one before.
LEMMA Before ==
  ASSUME NEW n \in Nat, n # 0, NEW m \in 1 .. n, m # n
  PROVE  m \in 1 .. (n - 1) /\ n \in (m + 1) .. n /\ (m + 1) .. (n - 1) \subseteq (m + 1) .. n
         /\ (m + 1) .. (n - 1) \subseteq 1 .. (n - 1)
OBVIOUS

LEMMA SaidByRow ==
  ASSUME NEW b, GoodBase(b), NEW tab, NEW n \in Nat, n # 0, NEW r \in TabRow, r = tab[n], Readable(r),
         LastDay \in Nat, NEW k, Wrote(b, k, n, r),
         \A m \in 1 .. (n - 1) : FoundRow(b, m, tab[m]),
         LastSaid(b, tab, n - 1)
  PROVE  LastSaid(k, tab, n)
<1>1. SUFFICES ASSUME NEW j \in DOMAIN k.consults, NEW m \in 1 .. n, Alone55k(k, j), Speaks(k, tab[m], j),
                      \A l \in (m + 1) .. n : ~Speaks(k, tab[l], j)
               PROVE  k.consults[j].status = StatusOf(tab[m].status)
  BY DEF LastSaid
<1>2. PICK a, e : a = k.consults[j].client /\ e = k.consults[j].at
  OBVIOUS
<1>3. ThereIn(k.consults, a, e) = {j}
  BY <1>1, <1>2, AloneIs
<1>4. Met(b.clients, k.clients, r.phone, r.date)
  BY WrittenFound
<1>5. PICK c, at, s : c = IdOf(k.clients, r.phone) /\ at = ConsultationTime(r) /\ s = StatusOf(r.status)
  OBVIOUS
\* Another row spoke last.
<1>6. ASSUME m # n, j \in DOMAIN b.consults, k.consults[j] = b.consults[j],
             ThereIn(b.consults, a, e) \subseteq ThereIn(k.consults, a, e)
      PROVE  b.consults[j].status = StatusOf(tab[m].status)
  <2>1. m \in 1 .. (n - 1) /\ (m + 1) .. (n - 1) \subseteq (m + 1) .. n /\ (m + 1) .. (n - 1) \subseteq 1 .. (n - 1)
    BY <1>6, Before
  <2>2. j \in ThereIn(b.consults, a, e)
    BY <1>2, <1>6 DEF ThereIn
  <2>3. ThereIn(b.consults, b.consults[j].client, b.consults[j].at) = {j}
    BY <1>2, <1>3, <1>6, <2>2
  <2>4. Alone55k(b, j)
    BY <2>3, AloneIs
  <2>5. ASSUME NEW l \in 1 .. (n - 1)
        PROVE  Speaks(k, tab[l], j) <=> Speaks(b, tab[l], j)
    <3>1. FoundRow(b, l, tab[l])
      OBVIOUS
    <3>2. PICK q : q = tab[l]
      OBVIOUS
    <3>3. FoundRow(b, l, q)
      BY <3>1, <3>2
    <3>4. Speaks(k, q, j) <=> Speaks(b, q, j)
      BY <1>4, <1>6, <3>3, SpeaksStill
    <3>5. QED
      BY <3>2, <3>4
  <2>6. Speaks(b, tab[m], j)
    BY <1>1, <2>1, <2>5
  <2>7. \A l \in (m + 1) .. (n - 1) : ~Speaks(b, tab[l], j)
    BY <1>1, <2>1, <2>5
  <2>8. QED
    BY <1>6, <2>1, <2>4, <2>6, <2>7 DEF LastSaid
<1>7. CASE r.status = Blank
  <2>1. k.consults = b.consults
    BY <1>7 DEF Wrote
  <2>2. m # n
    BY <1>1, <1>7 DEF Speaks
  <2>3. QED
    BY <1>6, <2>1, <2>2
<1>8. CASE r.status # Blank
  <2>1. PICK i : Put(b.consults, k.consults, i, c, at, s)
    BY <1>5, <1>8 DEF Wrote
  <2>2. i \in ThereIn(k.consults, c, at) /\ k.consults[i].status = s
    <3>1. i \in ThereIn(k.consults, c, at)
      BY <2>1, PutThere
    <3>2. QED
      BY <2>1, <3>1 DEF Put
  <2>3. CASE m = n
    <3>1. a = c /\ e = at
      BY <1>1, <1>2, <1>5, <2>3 DEF Speaks
    <3>2. i = j
      BY <1>3, <2>2, <3>1
    <3>3. QED
      BY <1>5, <2>2, <2>3, <3>2
  <2>4. CASE m # n
    <3>1. ~Speaks(k, r, j)
      BY <1>1, <2>4, Before
    <3>2. ~(a = c /\ e = at)
      BY <1>2, <1>5, <1>8, <3>1 DEF Speaks
    <3>3. j # i
      BY <1>2, <2>1, <3>2 DEF Put
    <3>4. j \in DOMAIN b.consults /\ k.consults[j] = b.consults[j]
      BY <2>1, <3>3 DEF Put
    <3>5. ThereIn(b.consults, a, e) \subseteq ThereIn(k.consults, a, e)
      BY <2>1, PutThere
    <3>6. QED
      BY <1>6, <2>4, <3>4, <3>5
  <2>5. QED
    BY <2>3, <2>4
<1>9. QED
  BY <1>7, <1>8

LEMMA SaidByNone ==
  ASSUME NEW b, NEW tab, NEW n \in Nat, n # 0, ~Readable(tab[n]), LastSaid(b, tab, n - 1)
  PROVE  LastSaid(b, tab, n)
<1>1. SUFFICES ASSUME NEW j \in DOMAIN b.consults, NEW m \in 1 .. n, Alone55k(b, j), Speaks(b, tab[m], j),
                      \A l \in (m + 1) .. n : ~Speaks(b, tab[l], j)
               PROVE  b.consults[j].status = StatusOf(tab[m].status)
  BY DEF LastSaid
<1>2. m # n
  BY <1>1 DEF Speaks
<1>3. m \in 1 .. (n - 1) /\ (m + 1) .. (n - 1) \subseteq (m + 1) .. n
  BY <1>2, Before
<1>4. QED
  BY <1>1, <1>3 DEF LastSaid

\* After the first n rows of a rerun over b a consultation says what it said, or
\* what the last of them to speak of it says.
Repeats(b, x, tab, n, j) ==
    \/ /\ x.consults[j] = b.consults[j] /\ \A l \in 1 .. n : ~Speaks(b, tab[l], j)
    \/ \E m \in 1 .. n :
          /\ Speaks(b, tab[m], j) /\ \A l \in (m + 1) .. n : ~Speaks(b, tab[l], j)
          /\ x.consults[j] = [b.consults[j] EXCEPT !.status = StatusOf(tab[m].status)]

Replays(b, x, tab, n) ==
    /\ SameTables(b, x)
    /\ \A j \in DOMAIN b.consults : Alone55k(b, j) => Repeats(b, x, tab, n, j)

LEMMA NoMore ==
  ASSUME NEW n \in Nat, n # 0, NEW P, \A l \in 1 .. (n - 1) : l \notin P, n \notin P
  PROVE  \A l \in 1 .. n : l \notin P
OBVIOUS

LEMMA NoMoreAfter ==
  ASSUME NEW n \in Nat, n # 0, NEW m \in 1 .. (n - 1), NEW P, \A l \in (m + 1) .. (n - 1) : l \notin P, n \notin P
  PROVE  m \in 1 .. n /\ \A l \in (m + 1) .. n : l \notin P
OBVIOUS

\* A row that does not speak of a consultation changes nothing of what is said of it.
LEMMA RepeatsOn ==
  ASSUME NEW b, NEW x, NEW k, NEW tab, NEW n \in Nat, n # 0, NEW j, Repeats(b, x, tab, n - 1, j),
         k.consults[j] = x.consults[j], ~Speaks(b, tab[n], j)
  PROVE  Repeats(b, k, tab, n, j)
<1> DEFINE P == {l \in 1 .. n : Speaks(b, tab[l], j)}
<1>1. \A l \in 1 .. n : l \in P <=> Speaks(b, tab[l], j)
  OBVIOUS
<1>2. n \notin P /\ 1 .. (n - 1) \subseteq 1 .. n
  OBVIOUS
<1> HIDE DEF P
<1>3. CASE x.consults[j] = b.consults[j] /\ \A l \in 1 .. (n - 1) : ~Speaks(b, tab[l], j)
  <2>1. \A l \in 1 .. (n - 1) : l \notin P
    BY <1>1, <1>2, <1>3
  <2>2. \A l \in 1 .. n : l \notin P
    BY <1>2, <2>1, NoMore
  <2>3. QED
    BY <1>1, <1>3, <2>2 DEF Repeats
<1>4. CASE \E m \in 1 .. (n - 1) :
              /\ Speaks(b, tab[m], j) /\ \A l \in (m + 1) .. (n - 1) : ~Speaks(b, tab[l], j)
              /\ x.consults[j] = [b.consults[j] EXCEPT !.status = StatusOf(tab[m].status)]
  <2>1. PICK m \in 1 .. (n - 1) :
              /\ Speaks(b, tab[m], j) /\ \A l \in (m + 1) .. (n - 1) : ~Speaks(b, tab[l], j)
              /\ x.consults[j] = [b.consults[j] EXCEPT !.status = StatusOf(tab[m].status)]
    BY <1>4
  <2>2. (m + 1) .. (n - 1) \subseteq 1 .. n /\ (m + 1) .. n \subseteq 1 .. n
    OBVIOUS
  <2>3. \A l \in (m + 1) .. (n - 1) : l \notin P
    BY <1>1, <2>1, <2>2
  <2>4. m \in 1 .. n /\ \A l \in (m + 1) .. n : l \notin P
    BY <1>2, <2>3, NoMoreAfter
  <2>5. \A l \in (m + 1) .. n : ~Speaks(b, tab[l], j)
    BY <1>1, <2>2, <2>4
  <2>6. QED
    BY <2>1, <2>4, <2>5 DEF Repeats
<1>5. QED
  BY <1>3, <1>4 DEF Repeats

LEMMA RepeatsHere ==
  ASSUME NEW b, NEW k, NEW tab, NEW n \in Nat, n # 0, NEW j, Speaks(b, tab[n], j),
         k.consults[j] = [b.consults[j] EXCEPT !.status = StatusOf(tab[n].status)]
  PROVE  Repeats(b, k, tab, n, j)
<1>1. n \in 1 .. n /\ \A l \in (n + 1) .. n : FALSE
  OBVIOUS
<1>2. QED
  BY <1>1 DEF Repeats

LEMMA RowReplayed ==
  ASSUME NEW b, b.consults \in Seq(ConsultationRow), NEW x, GoodBase(x), NEW tab, NEW n \in Nat, n # 0,
         NEW r \in TabRow, r = tab[n], Readable(r), LastDay \in Nat,
         FoundRow(b, n, r), Replays(b, x, tab, n - 1), NEW k, Wrote(x, k, n, r)
  PROVE  Replays(b, k, tab, n)
<1>1. SameTables(b, x)
  BY DEF Replays
<1>2. FoundRow(x, n, r)
  BY <1>1, IsThere DEF SameTables, FoundRow, FoundClient
<1>3. SameTables(x, k)
  BY <1>2, FoundAgain
<1>4. SameTables(b, k)
  BY <1>1, <1>3 DEF SameTables
<1>5. ASSUME NEW j \in DOMAIN b.consults, Alone55k(b, j)
      PROVE  Repeats(b, k, tab, n, j)
  <2>1. Repeats(b, x, tab, n - 1, j)
    BY <1>5 DEF Replays
  <2>2. PICK y \in ConsultationRow : y = b.consults[j]
    OBVIOUS
  <2>3. ThereIn(b.consults, y.client, y.at) = {j}
    BY <1>5, <2>2, AloneIs
  <2>4. CASE r.status = Blank
    <3>1. k.consults[j] = x.consults[j] /\ ~Speaks(b, tab[n], j)
      BY <2>4 DEF Wrote, Speaks
    <3>2. QED
      BY <2>1, <3>1, RepeatsOn
  <2>5. CASE r.status # Blank
    <3>1. PICK c, at, s : c = IdOf(b.clients, r.phone) /\ at = ConsultationTime(r) /\ s = StatusOf(r.status)
      OBVIOUS
    <3>2. PICK i : Put(x.consults, k.consults, i, c, at, s)
      BY <1>1, <1>3, <2>5, <3>1 DEF Wrote, SameTables
    <3>3. i \in ThereIn(k.consults, c, at)
      BY <3>2, PutThere
    <3>4. i \in ThereIn(b.consults, c, at)
      BY <1>4, <3>3 DEF SameTables
    <3>5. CASE i = j
      <4>1. y.client = c /\ y.at = at
        BY <2>2, <3>4, <3>5 DEF ThereIn
      <4>2. Speaks(b, tab[n], j)
        BY <2>2, <2>5, <3>1, <4>1 DEF Speaks
      <4>3. k.consults[j] = [x.consults[j] EXCEPT !.status = s]
        <5>1. i \in DOMAIN x.consults
          BY <1>1, <3>4 DEF SameTables, ThereIn
        <5>2. k.consults[i] = [x.consults[i] EXCEPT !.status = s]
          BY <3>2, <5>1 DEF Put
        <5>3. QED
          BY <3>5, <5>2
      <4>4. x.consults[j] = y \/ \E z : x.consults[j] = [y EXCEPT !.status = z]
        BY <2>1, <2>2 DEF Repeats
      <4>5. k.consults[j] = [y EXCEPT !.status = s]
        BY <4>3, <4>4 DEF ConsultationRow
      <4>6. QED
        BY <2>2, <3>1, <4>2, <4>5, RepeatsHere
    <3>6. CASE i # j
      <4>1. ~(y.client = c /\ y.at = at)
        BY <2>3, <3>4, <3>6
      <4>2. ~Speaks(b, tab[n], j)
        BY <2>2, <3>1, <4>1 DEF Speaks
      <4>3. j \in DOMAIN x.consults
        BY <1>1 DEF SameTables
      <4>4. k.consults[j] = x.consults[j]
        BY <3>2, <3>6, <4>3 DEF Put
      <4>5. QED
        BY <2>1, <4>2, <4>4, RepeatsOn
    <3>7. QED
      BY <3>5, <3>6
  <2>6. QED
    BY <2>4, <2>5
<1>6. QED
  BY <1>4, <1>5 DEF Replays

\* A whole rerun leaves every consultation that is alone at its time as it was.
LEMMA ReplayedWhole ==
  ASSUME NEW b, b.consults \in Seq(ConsultationRow), NEW x, NEW tab, NEW n \in Nat,
         Replays(b, x, tab, n), LastSaid(b, tab, n)
  PROVE  \A j \in DOMAIN b.consults : Alone55k(b, j) => x.consults[j] = b.consults[j]
<1>1. SUFFICES ASSUME NEW j \in DOMAIN b.consults, Alone55k(b, j)
               PROVE  x.consults[j] = b.consults[j]
  OBVIOUS
<1>2. Repeats(b, x, tab, n, j)
  BY <1>1 DEF Replays
<1>3. PICK y \in ConsultationRow : y = b.consults[j]
  OBVIOUS
<1>4. ASSUME NEW m \in 1 .. n, Speaks(b, tab[m], j), \A l \in (m + 1) .. n : ~Speaks(b, tab[l], j),
             x.consults[j] = [b.consults[j] EXCEPT !.status = StatusOf(tab[m].status)]
      PROVE  x.consults[j] = b.consults[j]
  <2>1. y.status = StatusOf(tab[m].status)
    BY <1>1, <1>3, <1>4 DEF LastSaid
  <2>2. x.consults[j] = [y EXCEPT !.status = y.status]
    BY <1>3, <1>4, <2>1
  <2>3. QED
    BY <1>3, <2>2 DEF ConsultationRow
<1>5. QED
  BY <1>2, <1>4 DEF Repeats

LEMMA TabRows ==
  ASSUME HistoryImportAssumption, HistoryTypeOK
  PROVE  /\ Tab55k \in Seq(TabRow) /\ Len(Tab55k) \in Nat /\ DOMAIN Tab55k = 1 .. Len(Tab55k)
         /\ \A i \in 1 .. Len(Tab55k) : Tab55k[i] \in TabRow
<1>1. Tab55k \in Seq(TabRow)
  BY DEF HistoryImportAssumption, HistoryTypeOK, Tab55k
<1>2. QED
  BY <1>1

\* The tables after each row.
Stages(f, b, n) ==
    f[0] = {b} /\ \A i \in 1 .. n : f[i] = UNION {ImportRow(x, i) : x \in f[i - 1]}

LEMMA RowByRow ==
  ASSUME NEW b, NEW n \in Nat, n = Len(Tab55k)
  PROVE  \E f : Stages(f, b, n) /\ Results55k(b) = f[n]
<1>1. PICK f : f = CHOOSE g : IsAfterRows(g, b, n)
  OBVIOUS
<1>2. IsAfterRows(f, b, n)
  BY <1>1, AfterRows
<1>3. Results55k(b) = f[n]
  BY <1>1 DEF Results55k, IsAfterRows
<1>4. f[0] = {b}
  BY <1>2, AfterRowsAt
<1>5. ASSUME NEW i \in 1 .. n
      PROVE  f[i] = UNION {ImportRow(x, i) : x \in f[i - 1]}
  <2>1. i \in 0 .. n /\ i # 0
    OBVIOUS
  <2>2. f[i] = ImportedRow(f[i - 1], i)
    BY <1>2, <2>1, AfterRowsAt
  <2>3. QED
    BY <2>2 DEF ImportedRow
<1>6. QED
  BY <1>3, <1>4, <1>5 DEF Stages

\* An induction over the rows: what holds of the tables before a row holds after it.
LEMMA StageByStage ==
  ASSUME NEW b, NEW n \in Nat, NEW f, Stages(f, b, n), NEW G, \A i \in 0 .. n : G[i] \subseteq f[i],
         b \in G[0],
         \A i \in 1 .. n : \A x \in G[i - 1] : \A k \in ImportRow(x, i) : k \in f[i] => k \in G[i]
  PROVE  f[n] \subseteq G[n]
<1> DEFINE H == {i \in 0 .. n : f[i] \subseteq G[i]}
<1>1. 0 \in H
  BY DEF Stages
<1>2. ASSUME NEW i \in 0 .. (n - 1), i \in H
      PROVE  i + 1 \in H
  <2>1. i + 1 \in 1 .. n /\ (i + 1) - 1 = i /\ i + 1 \in 0 .. n
    OBVIOUS
  <2>2. f[i + 1] = UNION {ImportRow(x, i + 1) : x \in f[i]}
    BY <2>1 DEF Stages
  <2>3. ASSUME NEW k \in f[i + 1] PROVE k \in G[i + 1]
    <3>1. PICK x \in f[i] : k \in ImportRow(x, i + 1)
      BY <2>2
    <3>2. x \in G[i]
      BY <1>2
    <3>3. QED
      BY <2>1, <3>1, <3>2
  <2>4. QED
    BY <2>1, <2>3
<1>3. \A i \in 0 .. n : i \in H
  <2> HIDE DEF H
  <2>1. QED
    BY <1>1, <1>2, UpTo
<1>4. n \in H
  BY <1>3
<1>5. QED
  BY <1>4

FoundUpTo(x, n) == \A m \in 1 .. n : FoundRow(x, m, Tab55k[m])

\* A run leaves every row found, and said what the last of them says.
LEMMA RunSettles ==
  ASSUME HistoryImportAssumption, ClientBaseAssumption, HistoryTypeOK,
         NEW b, GoodBase(b), NEW k \in Results55k(b), NEW n \in Nat, n = Len(Tab55k)
  PROVE  FoundUpTo(k, n) /\ LastSaid(k, Tab55k, n)
<1>1. PICK f : Stages(f, b, n) /\ Results55k(b) = f[n]
  BY RowByRow
<1>2. \A i \in 1 .. n : Tab55k[i] \in TabRow
  BY TabRows
<1>3. LastDay \in Nat
  BY DEF ClientBaseAssumption
<1> DEFINE G == [i \in 0 .. n |-> {x \in f[i] : GoodBase(x) /\ FoundUpTo(x, i) /\ LastSaid(x, Tab55k, i)}]
<1>4. \A i \in 0 .. n : G[i] \subseteq f[i]
  OBVIOUS
<1>5. b \in G[0]
  <2>1. b \in f[0]
    BY <1>1 DEF Stages
  <2>2. FoundUpTo(b, 0) /\ LastSaid(b, Tab55k, 0)
    BY DEF FoundUpTo, LastSaid
  <2>3. QED
    BY <2>1, <2>2
<1>6. ASSUME NEW i \in 1 .. n, NEW x \in G[i - 1], NEW y \in ImportRow(x, i), y \in f[i]
      PROVE  y \in G[i]
  <2>1. i - 1 \in 0 .. n /\ i \in 0 .. n /\ i \in Nat /\ i # 0
    OBVIOUS
  <2>2. GoodBase(x) /\ FoundUpTo(x, i - 1) /\ LastSaid(x, Tab55k, i - 1)
    BY <2>1
  <2>3. PICK r \in TabRow : r = Tab55k[i]
    BY <1>2
  <2>4. GoodBase(y)
    BY <1>3, <2>2, <2>3, RowGood
  <2>5. (Readable(r) => Wrote(x, y, i, r)) /\ (~Readable(r) => y = x)
    BY <1>3, <1>6, <2>2, <2>3, RowWrites
  <2>6. CASE ~Readable(r)
    <3>1. FoundRow(x, i, r)
      BY <2>6 DEF FoundRow
    <3>2. FoundUpTo(x, i)
      <4>1. \A m \in 1 .. i : m = i \/ m \in 1 .. (i - 1)
        OBVIOUS
      <4>2. QED
        BY <2>2, <2>3, <3>1, <4>1 DEF FoundUpTo
    <3>3. LastSaid(x, Tab55k, i)
      BY <2>1, <2>2, <2>3, <2>6, SaidByNone
    <3>4. QED
      BY <1>6, <2>1, <2>4, <2>5, <2>6, <3>2, <3>3
  <2>7. CASE Readable(r)
    <3>1. Wrote(x, y, i, r)
      BY <2>5, <2>7
    <3>2. FoundRow(y, i, r)
      BY <1>3, <2>2, <2>7, <3>1, WrittenFound
    <3>3. ASSUME NEW m \in 1 .. (i - 1)
          PROVE  FoundRow(y, m, Tab55k[m])
      <4>1. m \in 1 .. n
        OBVIOUS
      <4>2. PICK q \in TabRow : q = Tab55k[m]
        BY <1>2, <4>1
      <4>3. FoundRow(x, m, q)
        BY <2>2, <4>2 DEF FoundUpTo
      <4>4. FoundRow(y, m, q)
        BY <1>3, <2>2, <2>7, <3>1, <4>3, StillFound
      <4>5. QED
        BY <4>2, <4>4
    <3>4. FoundUpTo(y, i)
      <4>1. \A m \in 1 .. i : m = i \/ m \in 1 .. (i - 1)
        OBVIOUS
      <4>2. QED
        BY <2>3, <3>2, <3>3, <4>1 DEF FoundUpTo
    <3>5. LastSaid(y, Tab55k, i)
      <4>1. \A m \in 1 .. (i - 1) : FoundRow(x, m, Tab55k[m])
        BY <2>2 DEF FoundUpTo
      <4>2. PICK tab : tab = Tab55k
        OBVIOUS
      <4>3. \A m \in 1 .. (i - 1) : FoundRow(x, m, tab[m])
        BY <4>1, <4>2
      <4>4. r = tab[i] /\ LastSaid(x, tab, i - 1)
        BY <2>2, <2>3, <4>2
      <4>5. LastSaid(y, tab, i)
        BY <1>3, <2>1, <2>2, <2>7, <3>1, <4>3, <4>4, SaidByRow
      <4>6. QED
        BY <4>2, <4>5
    <3>6. QED
      BY <1>6, <2>1, <2>4, <3>4, <3>5
  <2>8. QED
    BY <2>6, <2>7
<1>7. f[n] \subseteq G[n]
  <2> HIDE DEF G
  <2>1. QED
    BY <1>1, <1>4, <1>5, <1>6, StageByStage
<1>8. k \in G[n]
  BY <1>1, <1>7
<1>9. QED
  BY <1>8

\* The tables as a rerun finds and leaves them.
RerunFinds(b, n) == GoodBase(b) /\ FoundUpTo(b, n) /\ LastSaid(b, Tab55k, n)

LEMMA RerunReplays ==
  ASSUME HistoryImportAssumption, ClientBaseAssumption, HistoryTypeOK,
         NEW n \in Nat, n = Len(Tab55k), NEW b, RerunFinds(b, n), NEW k \in Results55k(b)
  PROVE  Replays(b, k, Tab55k, n)
<1>1. PICK f : Stages(f, b, n) /\ Results55k(b) = f[n]
  BY RowByRow
<1>2. \A i \in 1 .. n : Tab55k[i] \in TabRow
  BY TabRows
<1>3. LastDay \in Nat
  BY DEF ClientBaseAssumption
<1>4. GoodBase(b) /\ FoundUpTo(b, n) /\ b.consults \in Seq(ConsultationRow)
  BY DEF RerunFinds, GoodBase
<1> DEFINE G == [i \in 0 .. n |-> {x \in f[i] : GoodBase(x) /\ Replays(b, x, Tab55k, i)}]
<1>5. \A i \in 0 .. n : G[i] \subseteq f[i]
  OBVIOUS
<1>6. b \in G[0]
  <2>1. b \in f[0]
    BY <1>1 DEF Stages
  <2>2. \A j \in DOMAIN b.consults : Repeats(b, b, Tab55k, 0, j)
    BY DEF Repeats
  <2>3. Replays(b, b, Tab55k, 0)
    BY <2>2 DEF Replays, SameTables
  <2>4. QED
    BY <1>4, <2>1, <2>3
<1>7. ASSUME NEW i \in 1 .. n, NEW x \in G[i - 1], NEW y \in ImportRow(x, i), y \in f[i]
      PROVE  y \in G[i]
  <2>1. i - 1 \in 0 .. n /\ i \in 0 .. n /\ i \in Nat /\ i # 0
    OBVIOUS
  <2>2. GoodBase(x) /\ Replays(b, x, Tab55k, i - 1)
    BY <2>1
  <2>3. PICK r \in TabRow : r = Tab55k[i]
    BY <1>2
  <2>4. GoodBase(y)
    BY <1>3, <2>2, <2>3, RowGood
  <2>5. (Readable(r) => Wrote(x, y, i, r)) /\ (~Readable(r) => y = x)
    BY <1>3, <1>7, <2>2, <2>3, RowWrites
  <2>6. PICK tab : tab = Tab55k
    OBVIOUS
  <2>7. Replays(b, x, tab, i - 1) /\ r = tab[i]
    BY <2>2, <2>3, <2>6
  <2>8. CASE ~Readable(r)
    <3>1. \A j : ~Speaks(b, tab[i], j)
      BY <2>7, <2>8 DEF Speaks
    <3>2. ASSUME NEW j \in DOMAIN b.consults, Alone55k(b, j)
          PROVE  Repeats(b, x, tab, i, j)
      <4>1. Repeats(b, x, tab, i - 1, j)
        BY <2>7, <3>2 DEF Replays
      <4>2. QED
        BY <2>1, <3>1, <4>1, RepeatsOn
    <3>3. Replays(b, x, tab, i)
      BY <2>7, <3>2 DEF Replays
    <3>4. QED
      BY <1>7, <2>1, <2>4, <2>5, <2>6, <2>8, <3>3
  <2>9. CASE Readable(r)
    <3>1. FoundRow(b, i, r)
      BY <1>4, <2>3 DEF FoundUpTo
    <3>2. Wrote(x, y, i, r)
      BY <2>5, <2>9
    <3>3. Replays(b, y, tab, i)
      BY <1>3, <1>4, <2>1, <2>2, <2>7, <2>9, <3>1, <3>2, RowReplayed
    <3>4. QED
      BY <1>7, <2>1, <2>4, <2>6, <3>3
  <2>10. QED
    BY <2>8, <2>9
<1>8. f[n] \subseteq G[n]
  <2> HIDE DEF G
  <2>1. QED
    BY <1>1, <1>5, <1>6, <1>7, StageByStage
<1>9. QED
  BY <1>1, <1>8

\* A rerun at once adds nothing (import55k).
LEMMA RerunAdds ==
  ASSUME HistoryImportAssumption, ClientBaseAssumption, HistoryTypeOK,
         NEW n \in Nat, n = Len(Tab55k), NEW b, RerunFinds(b, n), NEW k \in Results55k(b)
  PROVE  /\ k.clients = b.clients /\ k.leads = b.leads /\ Len(k.consults) = Len(b.consults)
         /\ \A j \in DOMAIN b.consults : Alone55k(b, j) => k.consults[j] = b.consults[j]
<1>1. Replays(b, k, Tab55k, n)
  BY RerunReplays
<1>2. /\ GoodBase(b) /\ LastSaid(b, Tab55k, n) /\ b.consults \in Seq(ConsultationRow)
  BY DEF RerunFinds, GoodBase
<1>3. GoodBase(k)
  BY <1>2, ResultsGood
<1>4. k.clients = b.clients /\ k.leads = b.leads /\ DOMAIN k.consults = DOMAIN b.consults
  BY <1>1 DEF Replays, SameTables
<1>5. Len(k.consults) = Len(b.consults)
  <2>1. PICK u, q : u = k.consults /\ q = b.consults
    OBVIOUS
  <2>2. u \in Seq(ConsultationRow) /\ q \in Seq(ConsultationRow) /\ DOMAIN u = DOMAIN q
    BY <1>2, <1>3, <1>4, <2>1 DEF GoodBase
  <2>3. PICK a \in Nat, c \in Nat : a = Len(u) /\ c = Len(q) /\ DOMAIN u = 1 .. a /\ DOMAIN q = 1 .. c
    BY <2>2
  <2>4. a = c
    <3>1. \A i \in Nat : i \in 1 .. a <=> i \in 1 .. c
      BY <2>2, <2>3
    <3>2. (a \in 1 .. a <=> a \in 1 .. c) /\ (c \in 1 .. a <=> c \in 1 .. c)
      BY <3>1
    <3>3. QED
      BY <3>2
  <2>5. QED
    BY <2>1, <2>3, <2>4
<1>6. \A j \in DOMAIN b.consults : Alone55k(b, j) => k.consults[j] = b.consults[j]
  BY <1>1, <1>2, ReplayedWhole
<1>7. QED
  BY <1>4, <1>5, <1>6

-----------------------------------------------------------------------------
(* The cases' importer.                                                    *)

CaseAdded(q, u, c, d) ==
    /\ u \in Seq(CaseRecord) /\ \A i \in DOMAIN q : i \in DOMAIN u /\ u[i] = q[i]
    /\ \A i \in DOMAIN u : i \in DOMAIN q \/ u[i].paid = u[i].ledger
    /\ \E i \in DOMAIN u : u[i].client = c /\ u[i].created = d
    /\ (\E i \in DOMAIN q : q[i].client = c /\ q[i].created = d) => u = q

WroteCase(b, k, p, d) ==
    /\ k.clients = Anchored(b.clients, p, d) /\ k.leads = b.leads /\ k.consults = b.consults
    /\ CaseAdded(b.cases, k.cases, IdOf(k.clients, p), d)

LEMMA CaseWrites ==
  ASSUME NEW b, GoodBase(b), NEW rows \in Seq(CaseTabRow) \ {<<>>}, LastDay \in Nat,
         NEW k, k = ImportCase(b, rows), NEW r, r = rows[1]
  PROVE  /\ r \in CaseTabRow
         /\ r.phone = NoPhone => k = b
         /\ r.phone # NoPhone => WroteCase(b, k, r.phone, r.date)
<1>1. PICK last : last = rows[Len(rows)]
  OBVIOUS
<1>2. r \in CaseTabRow /\ last \in CaseTabRow
  BY <1>1
<1>3. CASE r.phone = NoPhone
  BY <1>2, <1>3 DEF ImportCase
<1>4. CASE r.phone # NoPhone
  <2>1. PICK p, d : p = r.phone /\ d = r.date
    OBVIOUS
  <2>2. p \in Phones /\ d \in Days /\ last.fee \in Nat
    BY <1>2, <1>4, <2>1 DEF CaseTabRow
  <2>3. PICK known : known = [b EXCEPT !.clients = Anchored(@, p, d)]
    OBVIOUS
  <2>4. GoodBase(known) /\ IdOf(known.clients, p) \in Nat
    BY <2>2, <2>3, KnownGood
  <2>5. PICK t : t = Anchored(b.clients, p, d)
    OBVIOUS
  <2>6. known = [clients |-> t, leads |-> b.leads, consults |-> b.consults, cases |-> b.cases]
    BY <2>3, <2>5 DEF GoodBase
  <2>7. /\ known.clients = t /\ known.leads = b.leads /\ known.consults = b.consults
        /\ known.cases = b.cases
    BY <2>6
  <2>8. PICK c \in Nat : c = IdOf(known.clients, p)
    BY <2>4
  <2>9. PICK paid \in Nat : paid = IF last.status = "completed" THEN last.fee ELSE 0
    BY <2>2
  <2>10. PICK st \in {"in_progress", "completed"} :
           st = IF last.status = "completed" THEN "completed" ELSE "in_progress"
    OBVIOUS
  <2>11. PICK new : new = CaseRow(c, d, last.fee, paid, LedgerOf(paid), st)
    OBVIOUS
  <2>12. new \in CaseRecord /\ new.client = c /\ new.created = d /\ new.paid = new.ledger
    <3>1. LedgerOf(paid) \in Nat /\ LedgerOf(paid) = paid
      BY DEF LedgerOf
    <3>2. QED
      BY <2>2, <2>11, <3>1 DEF CaseRow, CaseRecord
  <2>13. PICK q : q = b.cases
    OBVIOUS
  <2>14. q \in Seq(CaseRecord)
    BY <2>13 DEF GoodBase
  <2>15. CASE \E i \in DOMAIN q : q[i].client = c /\ q[i].created = d
    <3>1. k = known
      BY <1>1, <1>4, <2>1, <2>3, <2>7, <2>8, <2>13, <2>15 DEF ImportCase
    <3>2. CaseAdded(q, q, c, d)
      BY <2>14, <2>15 DEF CaseAdded
    <3>3. k.clients = t /\ k.leads = b.leads /\ k.consults = b.consults /\ k.cases = q /\ c = IdOf(k.clients, p)
      BY <2>7, <2>8, <2>13, <3>1
    <3>4. WroteCase(b, k, p, d)
      BY <2>5, <2>13, <3>2, <3>3 DEF WroteCase
    <3>5. QED
      BY <1>2, <1>4, <2>1, <3>4
  <2>16. CASE ~\E i \in DOMAIN q : q[i].client = c /\ q[i].created = d
    <3>1. PICK u : u = Append(q, new)
      OBVIOUS
    <3>2. k = [known EXCEPT !.cases = u]
      BY <1>1, <1>4, <2>1, <2>3, <2>7, <2>8, <2>9, <2>10, <2>11, <2>13, <2>16, <3>1 DEF ImportCase
    <3>3. k = [clients |-> t, leads |-> b.leads, consults |-> b.consults, cases |-> u]
      BY <2>6, <3>2
    <3>4. k.clients = t /\ k.leads = b.leads /\ k.consults = b.consults /\ k.cases = u /\ c = IdOf(k.clients, p)
      BY <2>7, <2>8, <3>3
    <3>5. new \in CaseRecord
      BY <2>12
    <3>6. u \in Seq(CaseRecord) /\ \E m : Longer(q, u, m, new)
      BY <2>14, <3>1, <3>5, OneMoreRow
    <3>7. PICK m : Longer(q, u, m, new)
      BY <3>6
    <3>8. CaseAdded(q, u, c, d)
      BY <2>12, <2>16, <3>6, <3>7 DEF Longer, CaseAdded
    <3>9. WroteCase(b, k, p, d)
      BY <2>5, <2>13, <3>4, <3>8 DEF WroteCase
    <3>10. QED
      BY <1>2, <1>4, <2>1, <3>9
  <2>17. QED
    BY <2>15, <2>16
<1>5. QED
  BY <1>3, <1>4

LEMMA CasePhone ==
  ASSUME NEW r \in CaseTabRow, r.phone # NoPhone
  PROVE  r.phone \in Phones /\ r.date \in Days
BY DEF CaseTabRow

HasCase(k, p, d) == \E i \in DOMAIN k.cases : k.cases[i].client = IdOf(k.clients, p) /\ k.cases[i].created = d

LEMMA CaseFound ==
  ASSUME NEW b, GoodBase(b), NEW p \in Phones, NEW d \in Days, LastDay \in Nat, NEW k, WroteCase(b, k, p, d)
  PROVE  FoundClient(k, p, d) /\ Met(b.clients, k.clients, p, d) /\ HasCase(k, p, d)
<1>1. b.clients \in ClientTable /\ k.clients = Anchored(b.clients, p, d)
  BY DEF GoodBase, Keeps, WroteCase
<1>2. /\ Met(b.clients, k.clients, p, d) /\ With(k.clients, p) # {}
      /\ k.clients[IdOf(k.clients, p)].first <= d /\ d <= k.clients[IdOf(k.clients, p)].last
  BY <1>1, AnchoredMeets
<1>3. FoundClient(k, p, d)
  BY <1>2 DEF FoundClient
<1>4. QED
  BY <1>2, <1>3 DEF WroteCase, CaseAdded, HasCase

LEMMA CaseStill ==
  ASSUME NEW b, GoodBase(b), NEW p \in Phones, NEW d \in Days, LastDay \in Nat, NEW k, WroteCase(b, k, p, d),
         NEW rows \in Seq(CaseTabRow) \ {<<>>}, FoundCase(b, rows)
  PROVE  FoundCase(k, rows)
<1>1. PICK r \in CaseTabRow : r = rows[1]
  OBVIOUS
<1>2. SUFFICES ASSUME r.phone # NoPhone PROVE FoundCase(k, rows)
  BY <1>1 DEF FoundCase
<1>3. r.phone \in Phones /\ r.date \in Days
  BY <1>2, CasePhone
<1>4. b.clients \in ClientTable /\ Met(b.clients, k.clients, p, d)
  BY CaseFound DEF GoodBase, Keeps
<1>5. FoundClient(b, r.phone, r.date)
  BY <1>1, <1>2 DEF FoundCase
<1>6. FoundClient(k, r.phone, r.date) /\ IdOf(k.clients, r.phone) = IdOf(b.clients, r.phone)
  BY <1>3, <1>4, <1>5, MetFound
<1>7. PICK i \in DOMAIN b.cases : b.cases[i].client = IdOf(b.clients, r.phone) /\ b.cases[i].created = r.date
  BY <1>1, <1>2 DEF FoundCase
<1>8. i \in DOMAIN k.cases /\ k.cases[i] = b.cases[i]
  BY DEF WroteCase, CaseAdded
<1>9. QED
  BY <1>1, <1>6, <1>7, <1>8 DEF FoundCase

LEMMA CaseAgain ==
  ASSUME NEW b, GoodBase(b), NEW rows \in Seq(CaseTabRow) \ {<<>>}, LastDay \in Nat, FoundCase(b, rows),
         NEW k, k = ImportCase(b, rows)
  PROVE  k = b
<1>1. PICK r : r = rows[1]
  OBVIOUS
<1>2. /\ r \in CaseTabRow
      /\ r.phone = NoPhone => k = b
      /\ r.phone # NoPhone => WroteCase(b, k, r.phone, r.date)
  BY <1>1, CaseWrites
<1>3. SUFFICES ASSUME r.phone # NoPhone PROVE k = b
  BY <1>2
<1>4. r.phone \in Phones /\ r.date \in Days
  BY <1>2, <1>3, CasePhone
<1>5. PICK p, d : p = r.phone /\ d = r.date
  OBVIOUS
<1>6. WroteCase(b, k, p, d)
  BY <1>2, <1>3, <1>5
<1>7. /\ With(b.clients, p) # {}
      /\ b.clients[IdOf(b.clients, p)].first <= d /\ d <= b.clients[IdOf(b.clients, p)].last
      /\ \E i \in DOMAIN b.cases : b.cases[i].client = IdOf(b.clients, p) /\ b.cases[i].created = d
  BY <1>1, <1>3, <1>5 DEF FoundCase, FoundClient
<1>8. k.clients = b.clients
  <2>1. b.clients \in ClientTable /\ k.clients = Anchored(b.clients, p, d)
    BY <1>6 DEF GoodBase, Keeps, WroteCase
  <2>2. QED
    BY <1>4, <1>5, <1>7, <2>1, AnchoredMeets
<1>9. k.leads = b.leads /\ k.consults = b.consults /\ k.cases = b.cases
  BY <1>6, <1>7, <1>8 DEF WroteCase, CaseAdded
<1>10. GoodBase(k)
  BY CaseGood
<1>11. /\ k = [clients |-> k.clients, leads |-> k.leads, consults |-> k.consults, cases |-> k.cases]
       /\ b = [clients |-> b.clients, leads |-> b.leads, consults |-> b.consults, cases |-> b.cases]
  BY <1>10 DEF GoodBase
<1>12. QED
  BY <1>8, <1>9, <1>11

CaseStages(f, b, n) ==
    f[0] = b /\ \A i \in 1 .. n : f[i] = ImportCase(f[i - 1], CaseTab[i])

LEMMA CaseByCase ==
  ASSUME NEW b, NEW n \in Nat, n = Len(CaseTab)
  PROVE  \E f : CaseStages(f, b, n) /\ ResultOfCases(b) = f[n]
<1>1. PICK f : f = CHOOSE g : IsAfterCases(g, b, n)
  OBVIOUS
<1>2. IsAfterCases(f, b, n)
  BY <1>1, AfterCases
<1>3. ResultOfCases(b) = f[n]
  BY <1>1 DEF ResultOfCases, IsAfterCases
<1>4. f[0] = b
  BY <1>2, AfterCasesAt
<1>5. ASSUME NEW i \in 1 .. n
      PROVE  f[i] = ImportCase(f[i - 1], CaseTab[i])
  <2>1. i \in 0 .. n /\ i # 0
    OBVIOUS
  <2>2. QED
    BY <1>2, <2>1, AfterCasesAt
<1>6. QED
  BY <1>3, <1>4, <1>5 DEF CaseStages

LEMMA CaseRows ==
  ASSUME HistoryImportAssumption, HistoryTypeOK
  PROVE  /\ Len(CaseTab) \in Nat /\ DOMAIN CaseTab = 1 .. Len(CaseTab)
         /\ \A i \in 1 .. Len(CaseTab) : CaseTab[i] \in Seq(CaseTabRow) \ {<<>>}
<1>1. CaseTab \in Seq(Seq(CaseTabRow) \ {<<>>})
  BY DEF HistoryImportAssumption, HistoryTypeOK, CaseTab
<1>2. QED
  BY <1>1

CasesFoundUpTo(x, n) == \A m \in 1 .. n : FoundCase(x, CaseTab[m])

LEMMA CasesSettle ==
  ASSUME HistoryImportAssumption, ClientBaseAssumption, HistoryTypeOK,
         NEW b, GoodBase(b), NEW n \in Nat, n = Len(CaseTab)
  PROVE  CasesFoundUpTo(ResultOfCases(b), n)
<1>1. PICK f : CaseStages(f, b, n) /\ ResultOfCases(b) = f[n]
  BY CaseByCase
<1>2. \A i \in 1 .. n : CaseTab[i] \in Seq(CaseTabRow) \ {<<>>}
  BY CaseRows
<1>3. LastDay \in Nat
  BY DEF ClientBaseAssumption
<1> DEFINE G == {i \in 0 .. n : GoodBase(f[i]) /\ CasesFoundUpTo(f[i], i)}
<1>4. 0 \in G
  BY <1>1 DEF CaseStages, CasesFoundUpTo
<1>5. ASSUME NEW j \in 0 .. (n - 1), j \in G
      PROVE  j + 1 \in G
  <2>1. PICK i : i = j + 1
    OBVIOUS
  <2>2. i \in 1 .. n /\ i - 1 = j /\ i \in 0 .. n /\ \A m \in 1 .. i : m = i \/ (m \in 1 .. j /\ m \in 1 .. n)
    BY <2>1
  <2>3. PICK x, y : x = f[j] /\ y = f[i]
    OBVIOUS
  <2>4. GoodBase(x) /\ CasesFoundUpTo(x, j)
    BY <1>5, <2>3
  <2>5. PICK rows \in Seq(CaseTabRow) \ {<<>>} : rows = CaseTab[i]
    BY <1>2, <2>2
  <2>6. y = ImportCase(x, rows)
    BY <1>1, <2>2, <2>3, <2>5 DEF CaseStages
  <2>7. GoodBase(y)
    BY <1>3, <2>4, <2>6, CaseGood
  <2>8. PICK r : r = rows[1]
    OBVIOUS
  <2>9. /\ r \in CaseTabRow
        /\ r.phone = NoPhone => y = x
        /\ r.phone # NoPhone => WroteCase(x, y, r.phone, r.date)
    BY <1>3, <2>4, <2>6, <2>8, CaseWrites
  <2>10. CASE r.phone = NoPhone
    <3>1. FoundCase(y, rows)
      BY <2>8, <2>10 DEF FoundCase
    <3>2. y = x
      BY <2>9, <2>10
    <3>3. CasesFoundUpTo(y, i)
      BY <2>2, <2>4, <2>5, <3>1, <3>2 DEF CasesFoundUpTo
    <3>4. QED
      BY <2>1, <2>2, <2>3, <2>7, <3>3
  <2>11. CASE r.phone # NoPhone
    <3>1. r.phone \in Phones /\ r.date \in Days
      BY <2>9, <2>11, CasePhone
    <3>2. WroteCase(x, y, r.phone, r.date)
      BY <2>9, <2>11
    <3>3. FoundCase(y, rows)
      <4>1. PICK p \in Phones, d \in Days : p = r.phone /\ d = r.date
        BY <3>1
      <4>2. WroteCase(x, y, p, d)
        BY <3>2, <4>1
      <4>3. FoundClient(y, p, d) /\ HasCase(y, p, d)
        BY <1>3, <2>4, <4>2, CaseFound
      <4>4. QED
        BY <2>8, <4>1, <4>3 DEF FoundCase, HasCase
    <3>4. ASSUME NEW m \in 1 .. j, m \in 1 .. n
          PROVE  FoundCase(y, CaseTab[m])
      <4>1. PICK old \in Seq(CaseTabRow) \ {<<>>} : old = CaseTab[m]
        BY <1>2, <3>4
      <4>2. FoundCase(x, old)
        BY <2>4, <4>1 DEF CasesFoundUpTo
      <4>3. FoundCase(y, old)
        BY <1>3, <2>4, <3>1, <3>2, <4>2, CaseStill
      <4>4. QED
        BY <4>1, <4>3
    <3>5. CasesFoundUpTo(y, i)
      BY <2>2, <2>5, <3>3, <3>4 DEF CasesFoundUpTo
    <3>6. QED
      BY <2>1, <2>2, <2>3, <2>7, <3>5
  <2>12. QED
    BY <2>10, <2>11
<1>6. \A i \in 0 .. n : i \in G
  <2> HIDE DEF G
  <2>1. QED
    BY <1>4, <1>5, UpTo
<1>7. n \in G
  BY <1>6
<1>8. QED
  BY <1>1, <1>7

\* A rerun at once does nothing at all (importcases).
LEMMA CasesRerun ==
  ASSUME HistoryImportAssumption, ClientBaseAssumption, HistoryTypeOK,
         NEW n \in Nat, n = Len(CaseTab), NEW b, GoodBase(b), CasesFoundUpTo(b, n)
  PROVE  ResultOfCases(b) = b
<1>1. PICK f : CaseStages(f, b, n) /\ ResultOfCases(b) = f[n]
  BY CaseByCase
<1>2. \A i \in 1 .. n : CaseTab[i] \in Seq(CaseTabRow) \ {<<>>}
  BY CaseRows
<1>3. LastDay \in Nat
  BY DEF ClientBaseAssumption
<1> DEFINE G == {i \in 0 .. n : f[i] = b}
<1>4. 0 \in G
  BY <1>1 DEF CaseStages
<1>5. ASSUME NEW j \in 0 .. (n - 1), j \in G
      PROVE  j + 1 \in G
  <2>1. PICK i : i = j + 1
    OBVIOUS
  <2>2. i \in 1 .. n /\ i - 1 = j /\ i \in 0 .. n
    BY <2>1
  <2>3. PICK rows \in Seq(CaseTabRow) \ {<<>>} : rows = CaseTab[i]
    BY <1>2, <2>2
  <2>4. f[i] = ImportCase(b, rows)
    BY <1>1, <1>5, <2>2, <2>3 DEF CaseStages
  <2>5. FoundCase(b, rows)
    BY <2>2, <2>3 DEF CasesFoundUpTo
  <2>6. f[i] = b
    BY <1>3, <2>4, <2>5, CaseAgain
  <2>7. QED
    BY <2>1, <2>2, <2>6
<1>6. \A i \in 0 .. n : i \in G
  <2> HIDE DEF G
  <2>1. QED
    BY <1>4, <1>5, UpTo
<1>7. n \in G
  BY <1>6
<1>8. QED
  BY <1>1, <1>7

-----------------------------------------------------------------------------
(* What a run adds to the tables it found.                                 *)

OnceIn(q) ==
    \A i, j \in DOMAIN q :
       i # j /\ q[i].by = "import" /\ q[j].by = "import" /\ q[i].client = q[j].client => q[i].at # q[j].at

TotalIn(q) == \A i \in DOMAIN q : q[i].paid = q[i].ledger

LeadsFrom(l, u, n) ==
    \A m \in DOMAIN u :
       \/ m \in DOMAIN l /\ u[m] = l[m]
       \/ \E i \in 1 .. n : /\ m = <<"55k", i>> /\ Readable(Tab55k[i])
                           /\ u[m].day = Tab55k[i].date

LEMMA PutOnce ==
  ASSUME NEW q, OnceIn(q), NEW u, NEW i, NEW c, NEW at, NEW s, Put(q, u, i, c, at, s)
  PROVE  OnceIn(u)
<1>1. /\ i \in DOMAIN u /\ u[i].client = c /\ u[i].at = at
      /\ \A j \in DOMAIN q \ {i} : u[j] = q[j]
      /\ \A j \in DOMAIN u : j \in DOMAIN q \/ j = i
  BY DEF Put
<1>2. CASE i \in DOMAIN q
  <2>1. u[i].by = q[i].by /\ q[i].client = c /\ q[i].at = at /\ DOMAIN u = DOMAIN q
    BY <1>2 DEF Put
  <2>2. \A j \in DOMAIN u : /\ j \in DOMAIN q /\ u[j].by = q[j].by
                            /\ u[j].client = q[j].client /\ u[j].at = q[j].at
    BY <1>1, <2>1
  <2>3. QED
    BY <2>2 DEF OnceIn
<1>3. CASE i \notin DOMAIN q
  <2>1. \A j \in DOMAIN q : ~(q[j].client = c /\ q[j].at = at)
    BY <1>3 DEF Put
  <2>2. \A j \in DOMAIN u : j = i \/ (j \in DOMAIN q /\ u[j] = q[j])
    BY <1>1
  <2>3. QED
    BY <1>1, <2>1, <2>2 DEF OnceIn
<1>4. QED
  BY <1>2, <1>3

Kept(b, x, n) == OnceIn(x.consults) /\ x.cases = b.cases /\ LeadsFrom(b.leads, x.leads, n)

LEMMA RowKept ==
  ASSUME NEW b, NEW x, NEW i \in Nat, i # 0, Kept(b, x, i - 1), NEW y, NEW r, Wrote(x, y, i, r),
         r = Tab55k[i], Readable(r)
  PROVE  Kept(b, y, i)
<1>1. y.cases = b.cases
  BY DEF Wrote, Kept
<1>2. OnceIn(y.consults)
  <2>1. CASE r.status = Blank
    BY <2>1 DEF Wrote, Kept
  <2>2. CASE r.status # Blank
    <3>1. PICK q, u, c, at, s : /\ q = x.consults /\ u = y.consults /\ c = IdOf(y.clients, r.phone)
                                /\ at = ConsultationTime(r) /\ s = StatusOf(r.status)
      OBVIOUS
    <3>2. PICK e : Put(q, u, e, c, at, s)
      BY <2>2, <3>1 DEF Wrote
    <3>3. OnceIn(q)
      BY <3>1 DEF Kept
    <3>4. OnceIn(u)
      BY <3>2, <3>3, PutOnce
    <3>5. QED
      BY <3>1, <3>4
  <2>3. QED
    BY <2>1, <2>2
<1>3. LeadsFrom(b.leads, y.leads, i)
  <2>1. PICK l, u, e : l = x.leads /\ u = y.leads /\ e = <<"55k", i>>
    OBVIOUS
  <2>2. Filled(l, u, e, IdOf(y.clients, r.phone), r.date)
    BY <2>1 DEF Wrote
  <2>3. \A m \in DOMAIN u : (m \in DOMAIN l /\ u[m] = l[m]) \/ (m = e /\ u[m].day = r.date)
    BY <2>2 DEF Filled
  <2>4. \A j \in 1 .. (i - 1) : j \in 1 .. i
    OBVIOUS
  <2>5. i \in 1 .. i
    OBVIOUS
  <2>6. ASSUME NEW m \in DOMAIN u
        PROVE  \/ m \in DOMAIN b.leads /\ u[m] = b.leads[m]
               \/ \E j \in 1 .. i : /\ m = <<"55k", j>> /\ Readable(Tab55k[j])
                                   /\ u[m].day = Tab55k[j].date
    <3>1. CASE m \in DOMAIN l /\ u[m] = l[m]
      <4>1. LeadsFrom(b.leads, l, i - 1)
        BY <2>1 DEF Kept
      <4>2. \/ m \in DOMAIN b.leads /\ l[m] = b.leads[m]
            \/ \E j \in 1 .. (i - 1) : /\ m = <<"55k", j>> /\ Readable(Tab55k[j])
                                     /\ l[m].day = Tab55k[j].date
        BY <3>1, <4>1 DEF LeadsFrom
      <4>3. QED
        BY <2>4, <3>1, <4>2
    <3>2. CASE m = e /\ u[m].day = r.date
      BY <2>1, <2>5, <3>2
    <3>3. QED
      BY <2>3, <3>1, <3>2
  <2>7. QED
    BY <2>1, <2>6 DEF LeadsFrom
<1>4. QED
  BY <1>1, <1>2, <1>3 DEF Kept

\* A run of import55k puts no second imported consultation beside one, leaves the
\* leads that are there and adds rows of the tab under their numbers.
LEMMA RunKeeps ==
  ASSUME HistoryImportAssumption, ClientBaseAssumption, HistoryTypeOK,
         NEW b, GoodBase(b), OnceIn(b.consults), NEW k \in Results55k(b), NEW n \in Nat, n = Len(Tab55k)
  PROVE  Kept(b, k, n)
<1>1. PICK f : Stages(f, b, n) /\ Results55k(b) = f[n]
  BY RowByRow
<1>2. \A i \in 1 .. n : Tab55k[i] \in TabRow
  BY TabRows
<1>3. LastDay \in Nat
  BY DEF ClientBaseAssumption
<1> DEFINE G == [i \in 0 .. n |-> {x \in f[i] : GoodBase(x) /\ Kept(b, x, i)}]
<1>4. \A i \in 0 .. n : G[i] \subseteq f[i]
  OBVIOUS
<1>5. b \in G[0]
  <2>1. b \in f[0]
    BY <1>1 DEF Stages
  <2>2. Kept(b, b, 0)
    BY DEF Kept, LeadsFrom
  <2>3. QED
    BY <2>1, <2>2
<1>6. ASSUME NEW i \in 1 .. n, NEW x \in G[i - 1], NEW y \in ImportRow(x, i), y \in f[i]
      PROVE  y \in G[i]
  <2>1. i - 1 \in 0 .. n /\ i \in 0 .. n /\ i \in Nat /\ i # 0
    OBVIOUS
  <2>2. GoodBase(x) /\ Kept(b, x, i - 1)
    BY <2>1
  <2>3. PICK r \in TabRow : r = Tab55k[i]
    BY <1>2
  <2>4. GoodBase(y)
    BY <1>3, <2>2, <2>3, RowGood
  <2>5. (Readable(r) => Wrote(x, y, i, r)) /\ (~Readable(r) => y = x)
    BY <1>3, <1>6, <2>2, <2>3, RowWrites
  <2>6. CASE ~Readable(r)
    <3>1. \A j \in 1 .. (i - 1) : j \in 1 .. i
      OBVIOUS
    <3>2. Kept(b, x, i)
      BY <2>2, <3>1 DEF Kept, LeadsFrom
    <3>3. QED
      BY <1>6, <2>1, <2>4, <2>5, <2>6, <3>2
  <2>7. CASE Readable(r)
    <3>1. Wrote(x, y, i, r)
      BY <2>5, <2>7
    <3>2. Kept(b, y, i)
      BY <2>1, <2>2, <2>3, <2>7, <3>1, RowKept
    <3>3. QED
      BY <1>6, <2>1, <2>4, <3>2
  <2>8. QED
    BY <2>6, <2>7
<1>7. f[n] \subseteq G[n]
  <2> HIDE DEF G
  <2>1. QED
    BY <1>1, <1>4, <1>5, <1>6, StageByStage
<1>8. k \in G[n]
  BY <1>1, <1>7
<1>9. QED
  BY <1>8

CasesKept(b, x) == TotalIn(x.cases) /\ x.consults = b.consults /\ x.leads = b.leads

LEMMA CaseKept ==
  ASSUME NEW b, NEW x, CasesKept(b, x), NEW y, NEW p, NEW d, WroteCase(x, y, p, d)
  PROVE  CasesKept(b, y)
<1>1. y.consults = b.consults /\ y.leads = b.leads
  BY DEF WroteCase, CasesKept
<1>2. PICK q, u : q = x.cases /\ u = y.cases
  OBVIOUS
<1>3. CaseAdded(q, u, IdOf(y.clients, p), d) /\ TotalIn(q)
  BY <1>2 DEF WroteCase, CasesKept
<1>4. TotalIn(u)
  BY <1>3 DEF CaseAdded, TotalIn
<1>5. QED
  BY <1>1, <1>2, <1>4 DEF CasesKept

\* A run of importcases writes no payment without its entry.
LEMMA CasesKeep ==
  ASSUME HistoryImportAssumption, ClientBaseAssumption, HistoryTypeOK,
         NEW b, GoodBase(b), TotalIn(b.cases), NEW n \in Nat, n = Len(CaseTab)
  PROVE  CasesKept(b, ResultOfCases(b))
<1>1. PICK f : CaseStages(f, b, n) /\ ResultOfCases(b) = f[n]
  BY CaseByCase
<1>2. \A i \in 1 .. n : CaseTab[i] \in Seq(CaseTabRow) \ {<<>>}
  BY CaseRows
<1>3. LastDay \in Nat
  BY DEF ClientBaseAssumption
<1> DEFINE G == {i \in 0 .. n : GoodBase(f[i]) /\ CasesKept(b, f[i])}
<1>4. 0 \in G
  BY <1>1 DEF CaseStages, CasesKept
<1>5. ASSUME NEW j \in 0 .. (n - 1), j \in G
      PROVE  j + 1 \in G
  <2>1. PICK i : i = j + 1
    OBVIOUS
  <2>2. i \in 1 .. n /\ i - 1 = j /\ i \in 0 .. n
    BY <2>1
  <2>3. PICK x, y : x = f[j] /\ y = f[i]
    OBVIOUS
  <2>4. GoodBase(x) /\ CasesKept(b, x)
    BY <1>5, <2>3
  <2>5. PICK rows \in Seq(CaseTabRow) \ {<<>>} : rows = CaseTab[i]
    BY <1>2, <2>2
  <2>6. y = ImportCase(x, rows)
    BY <1>1, <2>2, <2>3, <2>5 DEF CaseStages
  <2>7. GoodBase(y)
    BY <1>3, <2>4, <2>6, CaseGood
  <2>8. PICK r : r = rows[1]
    OBVIOUS
  <2>9. /\ r \in CaseTabRow
        /\ r.phone = NoPhone => y = x
        /\ r.phone # NoPhone => WroteCase(x, y, r.phone, r.date)
    BY <1>3, <2>4, <2>6, <2>8, CaseWrites
  <2>10. CasesKept(b, y)
    BY <2>4, <2>9, CaseKept
  <2>11. QED
    BY <2>1, <2>2, <2>3, <2>7, <2>10
<1>6. \A i \in 0 .. n : i \in G
  <2> HIDE DEF G
  <2>1. QED
    BY <1>4, <1>5, UpTo
<1>7. n \in G
  BY <1>6
<1>8. QED
  BY <1>1, <1>7

-----------------------------------------------------------------------------
(* The days a client was seen.                                             *)

SeenWithin(t, D) == \A c \in DOMAIN t : t[c].first <= t[c].last /\ t[c].last <= D

LeadsWithin(t, l) ==
    \A m \in DOMAIN l :
       l[m].client # 0 /\ l[m].tg = 0 =>
          t[l[m].client].first <= l[m].day /\ l[m].day <= t[l[m].client].last

SpanIn(b, D) == SeenWithin(b.clients, D) /\ LeadsWithin(b.clients, b.leads)

\* Some were seen on this day, some are new on it.
SeenOn(t, u, d) ==
    /\ u \in ClientTable /\ DOMAIN t \subseteq DOMAIN u
    /\ \A c \in DOMAIN t : /\ u[c].first \in {t[c].first, d} /\ u[c].first <= t[c].first
                           /\ u[c].last \in {t[c].last, d} /\ t[c].last <= u[c].last
    /\ \A c \in DOMAIN u \ DOMAIN t : u[c].first = d /\ u[c].last = d

LEMMA MetSeen ==
  ASSUME NEW t, NEW u, NEW p, NEW d, Met(t, u, p, d)
  PROVE  SeenOn(t, u, d)
BY DEF Met, SeenOn

LEMMA SeenOnWithin ==
  ASSUME NEW t \in ClientTable, NEW D \in Int, SeenWithin(t, D), NEW u, NEW d \in Days, d <= D,
         LastDay \in Nat, SeenOn(t, u, d)
  PROVE  SeenWithin(u, D)
<1>1. ASSUME NEW c \in DOMAIN u
      PROVE  u[c].first <= u[c].last /\ u[c].last <= D
  <2>1. u \in ClientTable
    BY DEF SeenOn
  <2>2. u[c].first \in Int /\ u[c].last \in Int /\ d \in Int
    BY <1>1, <2>1, ClientDays DEF Days
  <2>3. CASE c \in DOMAIN t
    <3>1. t[c].first \in Int /\ t[c].last \in Int /\ t[c].first <= t[c].last /\ t[c].last <= D
      BY <2>3, ClientDays DEF SeenWithin
    <3>2. /\ u[c].first <= t[c].first /\ t[c].last <= u[c].last
          /\ u[c].last = t[c].last \/ u[c].last = d
      BY <2>3 DEF SeenOn
    <3>3. QED
      BY <2>2, <3>1, <3>2
  <2>4. CASE c \notin DOMAIN t
    <3>1. u[c].first = d /\ u[c].last = d
      BY <1>1, <2>4 DEF SeenOn
    <3>2. QED
      BY <2>2, <3>1
  <2>5. QED
    BY <2>3, <2>4
<1>2. QED
  BY <1>1 DEF SeenWithin

LEMMA SeenOnLeads ==
  ASSUME NEW t \in ClientTable, NEW u, NEW d, SeenOn(t, u, d),
         NEW l, LeadTable(l), \A m \in DOMAIN l : l[m].client \in Live(t) \cup {0}, LeadsWithin(t, l)
  PROVE  LeadsWithin(u, l)
<1>1. ASSUME NEW m \in DOMAIN l, l[m].client # 0, l[m].tg = 0
      PROVE  u[l[m].client].first <= l[m].day /\ l[m].day <= u[l[m].client].last
  <2>1. PICK c : c = l[m].client
    OBVIOUS
  <2>2. c \in DOMAIN t
    BY <1>1, <2>1 DEF Live
  <2>3. t[c].first <= l[m].day /\ l[m].day <= t[c].last
    BY <1>1, <2>1 DEF LeadsWithin
  <2>4. u[c].first <= t[c].first /\ t[c].last <= u[c].last /\ u \in ClientTable /\ c \in DOMAIN u
    BY <2>2 DEF SeenOn
  <2>5. t[c].first \in Int /\ t[c].last \in Int /\ u[c].first \in Int /\ u[c].last \in Int
    BY <2>2, <2>4, ClientDays
  <2>6. l[m].day \in Int
    BY DEF LeadTable, LeadRow, Days
  <2>7. QED
    BY <2>1, <2>3, <2>4, <2>5, <2>6
<1>2. QED
  BY <1>1 DEF LeadsWithin

\* A row that came before the day of the run leaves the spans as they have to be.
LEMMA RowWithin ==
  ASSUME LastDay \in Nat, NEW b, GoodBase(b), NEW D \in Int, SpanIn(b, D),
         NEW n, NEW r \in TabRow, Readable(r), r.date <= D, NEW k, Wrote(b, k, n, r)
  PROVE  SpanIn(k, D)
<1>1. r.phone \in Phones /\ r.date \in Days
  BY DEF Readable, TabRow
<1>2. PICK p \in Phones, d \in Days : p = r.phone /\ d = r.date
  BY <1>1
<1>3. PICK t \in ClientTable : t = b.clients
  BY DEF GoodBase, Keeps
<1>4. PICK u : u = k.clients
  OBVIOUS
<1>5. u = Anchored(t, p, d)
  BY <1>2, <1>3, <1>4 DEF Wrote
<1>6. /\ Met(t, u, p, d) /\ With(u, p) # {}
      /\ u[IdOf(u, p)].first <= d /\ d <= u[IdOf(u, p)].last
  BY <1>5, AnchoredMeets
<1>7. SeenWithin(t, D) /\ d <= D
  BY <1>2, <1>3 DEF SpanIn
<1>8. SeenWithin(u, D)
  BY <1>6, <1>7, SeenOnWithin, MetSeen
<1>9. PICK l, v, e : l = b.leads /\ v = k.leads /\ e = <<"55k", n>>
  OBVIOUS
<1>10. LeadTable(l) /\ (\A m \in DOMAIN l : l[m].client \in Live(t) \cup {0}) /\ LeadsWithin(t, l)
  BY <1>3, <1>9 DEF GoodBase, SpanIn
<1>11. LeadsWithin(u, l)
  BY <1>6, <1>10, SeenOnLeads, MetSeen
<1>12. PICK c : c = IdOf(u, p)
  OBVIOUS
<1>13. Filled(l, v, e, c, d)
  BY <1>2, <1>4, <1>9, <1>12 DEF Wrote
<1>14. LeadsWithin(u, v)
  <2>1. CASE e \in DOMAIN l
    BY <1>11, <1>13, <2>1 DEF Filled
  <2>2. CASE e \notin DOMAIN l
    <3>1. v[e].client = c /\ v[e].day = d /\ \A m \in DOMAIN v : m = e \/ (m \in DOMAIN l /\ v[m] = l[m])
      BY <1>13, <2>2 DEF Filled
    <3>2. QED
      BY <1>6, <1>11, <1>12, <3>1 DEF LeadsWithin
  <2>3. QED
    BY <2>1, <2>2
<1>15. QED
  BY <1>4, <1>8, <1>9, <1>14 DEF SpanIn

LEMMA CaseWithin ==
  ASSUME LastDay \in Nat, NEW b, GoodBase(b), NEW D \in Int, SpanIn(b, D),
         NEW p \in Phones, NEW d \in Days, d <= D, NEW k, WroteCase(b, k, p, d)
  PROVE  SpanIn(k, D)
<1>1. PICK t \in ClientTable : t = b.clients
  BY DEF GoodBase, Keeps
<1>2. PICK u : u = k.clients
  OBVIOUS
<1>3. u = Anchored(t, p, d)
  BY <1>1, <1>2 DEF WroteCase
<1>4. Met(t, u, p, d)
  BY <1>3, AnchoredMeets
<1>5. SeenWithin(t, D)
  BY <1>1 DEF SpanIn
<1>6. SeenWithin(u, D)
  BY <1>4, <1>5, SeenOnWithin, MetSeen
<1>7. PICK l : l = b.leads /\ l = k.leads
  BY DEF WroteCase
<1>8. LeadTable(l) /\ (\A m \in DOMAIN l : l[m].client \in Live(t) \cup {0}) /\ LeadsWithin(t, l)
  BY <1>1, <1>7 DEF GoodBase, SpanIn
<1>9. LeadsWithin(u, l)
  BY <1>4, <1>8, SeenOnLeads, MetSeen
<1>10. QED
  BY <1>2, <1>6, <1>7, <1>9 DEF SpanIn

RowsBy(n, D) == \A i \in 1 .. n : Tab55k[i].date # NoDate => Tab55k[i].date <= D

LEMMA RunWithin ==
  ASSUME HistoryImportAssumption, ClientBaseAssumption, HistoryTypeOK,
         NEW b, GoodBase(b), NEW D \in Int, SpanIn(b, D), NEW k \in Results55k(b),
         NEW n \in Nat, n = Len(Tab55k), RowsBy(n, D)
  PROVE  SpanIn(k, D)
<1>1. PICK f : Stages(f, b, n) /\ Results55k(b) = f[n]
  BY RowByRow
<1>2. \A i \in 1 .. n : Tab55k[i] \in TabRow
  BY TabRows
<1>3. LastDay \in Nat
  BY DEF ClientBaseAssumption
<1> DEFINE G == [i \in 0 .. n |-> {x \in f[i] : GoodBase(x) /\ SpanIn(x, D)}]
<1>4. \A i \in 0 .. n : G[i] \subseteq f[i]
  OBVIOUS
<1>5. b \in G[0]
  BY <1>1 DEF Stages
<1>6. ASSUME NEW i \in 1 .. n, NEW x \in G[i - 1], NEW y \in ImportRow(x, i), y \in f[i]
      PROVE  y \in G[i]
  <2>1. i - 1 \in 0 .. n /\ i \in 0 .. n /\ i \in Nat /\ i # 0
    OBVIOUS
  <2>2. GoodBase(x) /\ SpanIn(x, D)
    BY <2>1
  <2>3. PICK r \in TabRow : r = Tab55k[i]
    BY <1>2
  <2>4. GoodBase(y)
    BY <1>3, <2>2, <2>3, RowGood
  <2>5. (Readable(r) => Wrote(x, y, i, r)) /\ (~Readable(r) => y = x)
    BY <1>3, <1>6, <2>2, <2>3, RowWrites
  <2>6. CASE ~Readable(r)
    BY <1>6, <2>1, <2>2, <2>5, <2>6
  <2>7. CASE Readable(r)
    <3>1. Wrote(x, y, i, r)
      BY <2>5, <2>7
    <3>2. r.date <= D
      BY <2>3, <2>7 DEF RowsBy, Readable
    <3>3. SpanIn(y, D)
      BY <1>3, <2>2, <2>7, <3>1, <3>2, RowWithin
    <3>4. QED
      BY <1>6, <2>1, <2>4, <3>3
  <2>8. QED
    BY <2>6, <2>7
<1>7. f[n] \subseteq G[n]
  <2> HIDE DEF G
  <2>1. QED
    BY <1>1, <1>4, <1>5, <1>6, StageByStage
<1>8. k \in G[n]
  BY <1>1, <1>7
<1>9. QED
  BY <1>8

CasesBy(n, D) == \A i \in 1 .. n : CaseTab[i][1].date <= D

LEMMA CasesWithin ==
  ASSUME HistoryImportAssumption, ClientBaseAssumption, HistoryTypeOK,
         NEW b, GoodBase(b), NEW D \in Int, SpanIn(b, D), NEW n \in Nat, n = Len(CaseTab), CasesBy(n, D)
  PROVE  SpanIn(ResultOfCases(b), D)
<1>1. PICK f : CaseStages(f, b, n) /\ ResultOfCases(b) = f[n]
  BY CaseByCase
<1>2. \A i \in 1 .. n : CaseTab[i] \in Seq(CaseTabRow) \ {<<>>}
  BY CaseRows
<1>3. LastDay \in Nat
  BY DEF ClientBaseAssumption
<1> DEFINE G == {i \in 0 .. n : GoodBase(f[i]) /\ SpanIn(f[i], D)}
<1>4. 0 \in G
  BY <1>1 DEF CaseStages
<1>5. ASSUME NEW j \in 0 .. (n - 1), j \in G
      PROVE  j + 1 \in G
  <2>1. PICK i : i = j + 1
    OBVIOUS
  <2>2. i \in 1 .. n /\ i - 1 = j /\ i \in 0 .. n
    BY <2>1
  <2>3. PICK x, y : x = f[j] /\ y = f[i]
    OBVIOUS
  <2>4. GoodBase(x) /\ SpanIn(x, D)
    BY <1>5, <2>3
  <2>5. PICK rows \in Seq(CaseTabRow) \ {<<>>} : rows = CaseTab[i]
    BY <1>2, <2>2
  <2>6. y = ImportCase(x, rows)
    BY <1>1, <2>2, <2>3, <2>5 DEF CaseStages
  <2>7. GoodBase(y)
    BY <1>3, <2>4, <2>6, CaseGood
  <2>8. PICK r : r = rows[1]
    OBVIOUS
  <2>9. /\ r \in CaseTabRow
        /\ r.phone = NoPhone => y = x
        /\ r.phone # NoPhone => WroteCase(x, y, r.phone, r.date)
    BY <1>3, <2>4, <2>6, <2>8, CaseWrites
  <2>10. CASE r.phone = NoPhone
    BY <2>1, <2>2, <2>3, <2>4, <2>9, <2>10
  <2>11. CASE r.phone # NoPhone
    <3>1. PICK p \in Phones, d \in Days : p = r.phone /\ d = r.date
      BY <2>9, <2>11, CasePhone
    <3>2. WroteCase(x, y, p, d) /\ d <= D
      BY <2>2, <2>5, <2>8, <2>9, <2>11, <3>1 DEF CasesBy
    <3>3. SpanIn(y, D)
      BY <1>3, <2>4, <3>2, CaseWithin
    <3>4. QED
      BY <2>1, <2>2, <2>3, <2>7, <3>3
  <2>12. QED
    BY <2>10, <2>11
<1>6. \A i \in 0 .. n : i \in G
  <2> HIDE DEF G
  <2>1. QED
    BY <1>4, <1>5, UpTo
<1>7. n \in G
  BY <1>6
<1>8. QED
  BY <1>1, <1>7

-----------------------------------------------------------------------------
(* The importers and all that comes between.                               *)

LEMMA BaseStands ==
  ASSUME ClientsInv
  PROVE  /\ GoodBase(Base) /\ HistoryTypeOK
         /\ Base.clients = clients /\ Base.leads = leads /\ Base.consults = consults /\ Base.cases = cases
<1>1. LeadTable(leads)
  BY DEF ClientsInv, IntakeInv, IntakeTypeOK, LeadTable
<1>2. GoodBase(Base)
  BY <1>1, BaseGood DEF ClientsInv
<1>3. Base.clients = clients /\ Base.leads = leads /\ Base.consults = consults /\ Base.cases = cases
  BY DEF Base
<1>4. QED
  BY <1>2, <1>3 DEF ClientsInv

LEMMA SettledRerun ==
  ASSUME HistoryImportAssumption, ClientBaseAssumption, ClientsInv, Settled
  PROVE  RerunAddsNothing
<1>1. PICK b : b = Base
  OBVIOUS
<1>2. /\ GoodBase(b) /\ HistoryTypeOK
      /\ b.clients = clients /\ b.leads = leads /\ b.consults = consults /\ b.cases = cases
  BY <1>1, BaseStands
<1>3. ASSUME ran = "import55k", NEW k \in Results55k(b)
      PROVE  /\ k.clients = clients /\ k.leads = leads /\ Len(k.consults) = Len(consults)
             /\ \A j \in DOMAIN consults :
                   There(b, consults[j].client, consults[j].at) = {j} => k.consults[j] = consults[j]
  <2>1. PICK n \in Nat : n = Len(Tab55k) /\ DOMAIN Tab55k = 1 .. n
    BY <1>2, TabRows
  <2>2. (\A m \in DOMAIN Tab55k : FoundRow(b, m, Tab55k[m])) /\ LastSaid(b, Tab55k, Len(Tab55k))
    BY <1>1, <1>3 DEF Settled
  <2>3. FoundUpTo(b, n)
    BY <2>1, <2>2 DEF FoundUpTo
  <2>4. RerunFinds(b, n)
    BY <1>2, <2>1, <2>2, <2>3 DEF RerunFinds
  <2>5. /\ k.clients = b.clients /\ k.leads = b.leads /\ Len(k.consults) = Len(b.consults)
        /\ \A j \in DOMAIN b.consults : Alone55k(b, j) => k.consults[j] = b.consults[j]
    BY <1>2, <1>3, <2>1, <2>4, RerunAdds
  <2>6. QED
    BY <1>2, <2>5 DEF Alone55k
<1>4. ASSUME ran = "importcases"
      PROVE  ResultOfCases(b) = b
  <2>1. PICK n \in Nat : n = Len(CaseTab) /\ DOMAIN CaseTab = 1 .. n
    BY <1>2, CaseRows
  <2>2. \A m \in DOMAIN CaseTab : FoundCase(b, CaseTab[m])
    BY <1>1, <1>4 DEF Settled
  <2>3. CasesFoundUpTo(b, n)
    BY <2>1, <2>2 DEF CasesFoundUpTo
  <2>4. QED
    BY <1>2, <2>1, <2>3, CasesRerun
<1>5. QED
  BY <1>1, <1>3, <1>4 DEF RerunAddsNothing

LEMMA CommittedBase ==
  ASSUME NEW b, GoodBase(b), NEW command, Commit(b, command)
  PROVE  Base' = b /\ Tab55k' = Tab55k /\ CaseTab' = CaseTab
<1>1. Base' = [clients |-> b.clients, leads |-> b.leads, consults |-> b.consults, cases |-> b.cases]
  BY DEF Commit, Base
<1>2. version' = version
  BY DEF Commit
<1>3. QED
  BY <1>1, <1>2 DEF GoodBase, Tab55k, CaseTab

LEMMA ImportSettles ==
  ASSUME HistoryImportAssumption, ClientBaseAssumption, ClientsInv, Import55k \/ ImportCases
  PROVE  Settled'
<1>1. PICK a : a = Base
  OBVIOUS
<1>2. GoodBase(a) /\ HistoryTypeOK
  BY <1>1, BaseStands
<1>3. CASE Import55k
  <2>1. PICK b \in Results55k(a) : Commit(b, "import55k")
    BY <1>1, <1>3 DEF Import55k
  <2>2. PICK n \in Nat : n = Len(Tab55k) /\ DOMAIN Tab55k = 1 .. n
    BY <1>2, TabRows
  <2>3. GoodBase(b)
    BY <1>2, <2>1, ResultsGood
  <2>4. FoundUpTo(b, n) /\ LastSaid(b, Tab55k, n)
    BY <1>2, <2>1, <2>2, RunSettles
  <2>5. Base' = b /\ Tab55k' = Tab55k
    BY <2>1, <2>3, CommittedBase
  <2>6. ran' = "import55k"
    BY <2>1 DEF Commit
  <2>7. QED
    BY <2>2, <2>4, <2>5, <2>6 DEF Settled, FoundUpTo
<1>4. CASE ImportCases
  <2>1. PICK b : b = ResultOfCases(a)
    OBVIOUS
  <2>2. Commit(b, "importcases")
    BY <1>1, <1>4, <2>1 DEF ImportCases
  <2>3. PICK n \in Nat : n = Len(CaseTab) /\ DOMAIN CaseTab = 1 .. n
    BY <1>2, CaseRows
  <2>4. GoodBase(b)
    BY <1>2, <2>1, CasesGood
  <2>5. CasesFoundUpTo(b, n)
    BY <1>2, <2>1, <2>3, CasesSettle
  <2>6. Base' = b /\ CaseTab' = CaseTab
    BY <2>2, <2>4, CommittedBase
  <2>7. ran' = "importcases"
    BY <2>2 DEF Commit
  <2>8. QED
    BY <2>3, <2>5, <2>6, <2>7 DEF Settled, CasesFoundUpTo
<1>5. QED
  BY <1>3, <1>4

\* What arrives by itself touches neither consultations nor cases, and its leads are
\* known by their announcements.
LEMMA ArrivingLeads ==
  ASSUME ClientsInv, Arrival, \A m \in DOMAIN leads : leads[m].tg # 0
  PROVE  UNCHANGED <<consults, cases>> /\ \A m \in DOMAIN leads' : leads'[m].tg # 0
<1>1. CASE UNCHANGED <<leads, consults, cases>>
  BY <1>1
<1>2. CASE SetPracticeArea
  <2>1. UNCHANGED <<consults, cases>>
    BY <1>2 DEF SetPracticeArea
  <2>2. PICK tg \in DOMAIN group, a \in Areas :
           IF AnnouncedAs(tg) = {} THEN UNCHANGED <<leads, taps>>
           ELSE /\ leads' = [i \in DOMAIN leads |->
                                IF i \in AnnouncedAs(tg) THEN [leads[i] EXCEPT !.area = a]
                                ELSE leads[i]]
                /\ taps' = [taps EXCEPT ![tg] = a]
    BY <1>2 DEF SetPracticeArea
  <2>3. \A i \in DOMAIN leads : leads[i] \in LeadRow
    BY DEF ClientsInv, IntakeInv, IntakeTypeOK
  <2>4. \A i \in DOMAIN leads : [leads[i] EXCEPT !.area = a].tg = leads[i].tg
    BY <2>3 DEF LeadRow
  <2>5. QED
    BY <2>1, <2>2, <2>4
<1>3. ASSUME NEW s \in Submitters, Save(s)
      PROVE  UNCHANGED <<consults, cases>> /\ \A m \in DOMAIN leads' : leads'[m].tg # 0
  <2>1. PICK i : i = IdOfLead[sub[s].msg]
    OBVIOUS
  <2>2. PICK row : row = [Lead(sub[s].client, day) EXCEPT !.tg = sub[s].tg]
    OBVIOUS
  <2>3. row.tg = sub[s].tg
    BY <2>2 DEF Lead
  <2>4. sub[s].pc = "save" /\ StepOK(s) /\ group \in Seq(Sources)
    BY <1>3 DEF Save, ClientsInv, IntakeInv, IntakeTypeOK
  <2>5. sub[s].tg \in DOMAIN group
    BY <2>4 DEF StepOK
  <2>6. DOMAIN group = 1 .. Len(group)
    BY <2>4
  <2>7. row.tg # 0
    BY <2>3, <2>5, <2>6
  <2>8. leads' = leads \/ leads' = Stored(i, row)
    BY <1>3, <2>1, <2>2 DEF Save
  <2>9. leads' = leads \/ leads' = WithRow(leads, i, row)
    BY <2>8 DEF Stored
  <2>10. UNCHANGED <<consults, cases>>
    BY <1>3 DEF Save
  <2>11. QED
    BY <2>7, <2>9, <2>10 DEF WithRow
<1>4. ASSUME NEW s \in Submitters, MarkSheetSynced(s)
      PROVE  UNCHANGED <<consults, cases>> /\ \A m \in DOMAIN leads' : leads'[m].tg # 0
  <2>1. PICK i : i = IdOfLead[sub[s].msg]
    OBVIOUS
  <2>2. leads' = leads \/ leads' = [leads EXCEPT ![i].synced = TRUE]
    BY <1>4, <2>1 DEF MarkSheetSynced
  <2>3. \A m \in DOMAIN leads : leads[m] \in LeadRow
    BY DEF ClientsInv, IntakeInv, IntakeTypeOK
  <2>4. \A m \in DOMAIN leads : [leads[m] EXCEPT !.synced = TRUE].tg = leads[m].tg
    BY <2>3 DEF LeadRow
  <2>5. UNCHANGED <<consults, cases>>
    BY <1>4 DEF MarkSheetSynced
  <2>6. ASSUME NEW m \in DOMAIN leads' PROVE leads'[m].tg # 0
    <3>1. leads = [j \in DOMAIN leads |-> leads[j]]
      BY DEF ClientsInv, IntakeInv, IntakeTypeOK
    <3>2. m \in DOMAIN leads /\ (leads'[m] = leads[m] \/ leads'[m] = [leads[m] EXCEPT !.synced = TRUE])
      BY <2>2, <3>1
    <3>3. QED
      BY <2>4, <3>2
  <2>7. QED
    BY <2>5, <2>6
<1>5. ASSUME NEW s, ResolveClient(s) \/ SendMessage(s) \/ AppendRow(s)
      PROVE  UNCHANGED <<leads, consults, cases>>
  BY <1>5 DEF ResolveClient, SendMessage, AppendRow, tables
<1>6. ASSUME Arrive \/ Submit \/ FetchUnseen \/ TakeMail \/ MarkSeen \/ Crash
      PROVE  UNCHANGED <<leads, consults, cases>>
  BY <1>6 DEF Arrive, Submit, FetchUnseen, TakeMail, MarkSeen, Crash, tables
<1>7. QED
  BY <1>1, <1>2, <1>3, <1>4, <1>5, <1>6 DEF Arrival, IntakeNext, PollStep, Submitters

LEMMA StaffBooks ==
  ASSUME ClientBaseAssumption, BaseTypeOK, OnceIn(consults), TotalIn(cases), StaffNext \/ Tick
  PROVE  OnceIn(consults') /\ TotalIn(cases')
<1>1. consults \in Seq(ConsultationRow) /\ cases \in Seq(CaseRecord) /\ day \in Days
  BY DEF BaseTypeOK
<1>2. CASE UNCHANGED <<consults, cases>>
  BY <1>2
<1>3. CASE SaveConsultation
  <2>1. PICK c \in Live(clients), at \in day .. LastDay, s \in {"requested", "scheduled"} :
           consults' = Append(consults, Consultation(c, at, Price, s, day, "staff"))
    BY <1>3 DEF SaveConsultation
  <2>2. PICK x : x = Consultation(c, at, Price, s, day, "staff")
    OBVIOUS
  <2>3. x.by = "staff"
    BY <2>2 DEF Consultation
  <2>4. /\ DOMAIN consults' = 1 .. (Len(consults) + 1)
        /\ DOMAIN consults = 1 .. Len(consults) /\ Len(consults) \in Nat
    BY <1>1, <2>1, <2>2
  <2>5. \A i \in DOMAIN consults' : consults'[i] = x \/ (i \in DOMAIN consults /\ consults'[i] = consults[i])
    BY <1>1, <2>1, <2>2, <2>4
  <2>6. OnceIn(consults')
    BY <2>3, <2>5 DEF OnceIn
  <2>7. QED
    BY <1>3, <2>6 DEF SaveConsultation
<1>4. CASE TapStatus
  <2>1. PICK i \in DOMAIN consults, r \in ConsultationRow :
           /\ r = consults[i]
           /\ \E x : x.by = r.by /\ x.client = r.client /\ x.at = r.at /\ consults' = [consults EXCEPT ![i] = x]
    <3>1. PICK i \in DOMAIN consults :
             \/ \E paid \in BOOLEAN : consults' = [consults EXCEPT ![i] = MarkCompleted(@, paid)]
             \/ \E s \in {"cancelled", "no_show"} : consults' = [consults EXCEPT ![i].status = s]
      BY <1>4 DEF TapStatus
    <3>2. PICK r \in ConsultationRow : r = consults[i]
      BY <1>1
    <3>3. ASSUME NEW paid \in BOOLEAN, consults' = [consults EXCEPT ![i] = MarkCompleted(@, paid)]
          PROVE  \E x : /\ x.by = r.by /\ x.client = r.client /\ x.at = r.at
                       /\ consults' = [consults EXCEPT ![i] = x]
      <4>1. PICK x : x = MarkCompleted(r, paid)
        OBVIOUS
      <4>2. x.by = r.by /\ x.client = r.client /\ x.at = r.at
        BY <4>1 DEF MarkCompleted, ConsultationRow
      <4>3. consults' = [consults EXCEPT ![i] = x]
        BY <3>2, <3>3, <4>1
      <4>4. QED
        BY <4>2, <4>3
    <3>4. ASSUME NEW s, consults' = [consults EXCEPT ![i].status = s]
          PROVE  \E x : /\ x.by = r.by /\ x.client = r.client /\ x.at = r.at
                       /\ consults' = [consults EXCEPT ![i] = x]
      <4>1. PICK x : x = [r EXCEPT !.status = s]
        OBVIOUS
      <4>2. x.by = r.by /\ x.client = r.client /\ x.at = r.at
        BY <4>1 DEF ConsultationRow
      <4>3. consults' = [consults EXCEPT ![i] = x]
        BY <3>2, <3>4, <4>1
      <4>4. QED
        BY <4>2, <4>3
    <3>5. QED
      BY <3>1, <3>2, <3>3, <3>4
  <2>2. PICK x : x.by = r.by /\ x.client = r.client /\ x.at = r.at /\ consults' = [consults EXCEPT ![i] = x]
    BY <2>1
  <2>3. /\ DOMAIN consults' = DOMAIN consults
        /\ \A j \in DOMAIN consults : IF j = i THEN consults'[j] = x ELSE consults'[j] = consults[j]
    BY <1>1, <2>2
  <2>4. r = consults[i]
    BY <2>1
  <2>5. \A j \in DOMAIN consults' : /\ j \in DOMAIN consults /\ consults'[j].by = consults[j].by
                                    /\ consults'[j].client = consults[j].client /\ consults'[j].at = consults[j].at
    BY <2>2, <2>3, <2>4
  <2>6. OnceIn(consults')
    BY <2>5 DEF OnceIn
  <2>7. QED
    BY <1>4, <2>6 DEF TapStatus
<1>5. CASE SaveCase
  <2>1. PICK c \in Live(clients) : cases' = Append(cases, CaseRow(c, day, Fee, 0, 0, "in_progress"))
    BY <1>5 DEF SaveCase
  <2>2. PICK x : x = CaseRow(c, day, Fee, 0, 0, "in_progress")
    OBVIOUS
  <2>3. x.paid = x.ledger
    BY <2>2 DEF CaseRow
  <2>4. DOMAIN cases' = 1 .. (Len(cases) + 1) /\ DOMAIN cases = 1 .. Len(cases) /\ Len(cases) \in Nat
    BY <1>1, <2>1, <2>2
  <2>5. \A i \in DOMAIN cases' : cases'[i] = x \/ (i \in DOMAIN cases /\ cases'[i] = cases[i])
    BY <1>1, <2>1, <2>2, <2>4
  <2>6. TotalIn(cases')
    BY <2>3, <2>5 DEF TotalIn
  <2>7. QED
    BY <1>5, <2>6 DEF SaveCase
<1>6. CASE AddPayment
  <2>1. PICK i \in DOMAIN cases : cases' = [cases EXCEPT ![i].paid = @ + Price, ![i].ledger = @ + Price]
    BY <1>6 DEF AddPayment
  <2>2. PICK r \in CaseRecord : r = cases[i]
    BY <1>1
  <2>3. cases'[i].paid = r.paid + Price /\ cases'[i].ledger = r.ledger + Price
    BY <1>1, <2>1, <2>2 DEF CaseRecord
  <2>4. DOMAIN cases' = DOMAIN cases /\ \A j \in DOMAIN cases \ {i} : cases'[j] = cases[j]
    BY <1>1, <2>1
  <2>5. TotalIn(cases')
    BY <2>2, <2>3, <2>4 DEF TotalIn
  <2>6. QED
    BY <1>6, <2>5 DEF AddPayment
<1>7. CASE CloseCase
  <2>1. PICK i \in DOMAIN cases : cases' = [cases EXCEPT ![i].status = "completed"]
    BY <1>7 DEF CloseCase
  <2>2. \A j \in DOMAIN cases : cases[j] \in CaseRecord
    BY <1>1
  <2>3. /\ DOMAIN cases' = DOMAIN cases
        /\ \A j \in DOMAIN cases : cases'[j].paid = cases[j].paid /\ cases'[j].ledger = cases[j].ledger
    BY <2>1, <2>2 DEF CaseRecord
  <2>4. TotalIn(cases')
    BY <2>3 DEF TotalIn
  <2>5. QED
    BY <1>7, <2>4 DEF CloseCase
<1>8. ASSUME NEW c, DropNotes(c) \/ DropClient(c)
      PROVE  UNCHANGED <<consults, cases>>
  BY <1>8 DEF DropNotes, DropClient, tables
<1>9. CASE Deletion
  BY <1>2, <1>8, <1>9 DEF Deletion, CountHistory, tables
<1>10. CASE CreateClient \/ UpdateClient \/ AddClientNote \/ Tick
  BY <1>2, <1>10 DEF CreateClient, UpdateClient, AddClientNote, Tick, tables
<1>11. CASE SetClientSegmentOverride \/ AddClientTag \/ RemoveClientTag \/ CreateClientTagDef
            \/ UpdateClientTagDef \/ DeleteClientTagDef
  BY <1>2, <1>11 DEF SetClientSegmentOverride, AddClientTag, RemoveClientTag, CreateClientTagDef,
              UpdateClientTagDef, DeleteClientTagDef
<1>12. QED
  BY <1>3, <1>4, <1>5, <1>6, <1>7, <1>9, <1>10, <1>11 DEF StaffNext

LEMMA VersionSoFar ==
  ASSUME HistoryImportAssumption, HistoryTypeOK
  PROVE  version.leads \in Nat /\ version.leads \in 1 .. version.leads
<1>1. Tabs55k \in Seq(Seq(TabRow)) /\ version.leads \in DOMAIN Tabs55k
  BY DEF HistoryImportAssumption, HistoryTypeOK
<1>2. version.leads \in Nat /\ version.leads >= 1
  BY <1>1
<1>3. QED
  BY <1>2

LEMMA ImportedNames ==
  ASSUME HistoryImportAssumption, HistoryTypeOK, scene = "imports", LeadsTold, NEW n \in Nat, n = Len(Tab55k),
         NEW u, LeadsFrom(leads, u, n), leads' = u, version' = version, scene' = scene
  PROVE  LeadsTold'
<1>1. DOMAIN Tab55k = 1 .. n /\ Tab55k = Tabs55k[version.leads]
  BY TabRows DEF HistoryTypeOK, Tab55k
<1>2. \A m \in DOMAIN leads : FromTab(leads, m, version.leads)
  BY DEF LeadsTold
<1>3. ASSUME NEW m \in DOMAIN u
      PROVE  FromTab(u, m, version.leads)
  <2>1. CASE m \in DOMAIN leads /\ u[m] = leads[m]
    BY <1>2, <2>1 DEF FromTab
  <2>2. CASE ~(m \in DOMAIN leads /\ u[m] = leads[m])
    <3>1. PICK i \in 1 .. n : m = <<"55k", i>> /\ Readable(Tab55k[i]) /\ u[m].day = Tab55k[i].date
      BY <2>2 DEF LeadsFrom
    <3>2. version.leads \in 1 .. version.leads
      BY VersionSoFar
    <3>3. i \in DOMAIN Tabs55k[version.leads]
      BY <1>1
    <3>4. QED
      BY <1>1, <3>1, <3>2, <3>3 DEF FromTab
  <2>3. QED
    BY <2>1, <2>2
<1>4. scene' # "mail" /\ leads' = u /\ version'.leads = version.leads
  OBVIOUS
<1>5. \A m \in DOMAIN leads' : FromTab(leads', m, version'.leads)
  BY <1>3, <1>4
<1>6. QED
  BY <1>4, <1>5 DEF LeadsTold

\* A further version of the tab takes no row from the ones before.
LEMMA LaterVersions ==
  ASSUME HistoryImportAssumption, HistoryTypeOK, scene = "imports", LeadsTold, EditTab, UNCHANGED scene
  PROVE  LeadsTold'
<1>1. leads' = leads /\ version.leads \in Nat
  BY VersionSoFar DEF EditTab, tables
<1>2. version'.leads = version.leads \/ version'.leads = version.leads + 1
  BY DEF EditTab, HistoryTypeOK
<1>3. \A v \in 1 .. version.leads : v \in 1 .. version'.leads
  BY <1>1, <1>2
<1>4. \A m \in DOMAIN leads : FromTab(leads, m, version.leads)
  BY DEF LeadsTold
<1>5. \A m \in DOMAIN leads : FromTab(leads, m, version'.leads)
  BY <1>3, <1>4 DEF FromTab
<1>6. QED
  BY <1>1, <1>5 DEF LeadsTold

LEMMA ImportsKeep ==
  ASSUME HistoryImportAssumption, ClientBaseAssumption, ClientsInv, ImportInv, scene = "imports",
         Import55k \/ ImportCases, UNCHANGED scene
  PROVE  ImportInv'
<1>1. PICK a : a = Base
  OBVIOUS
<1>2. /\ GoodBase(a) /\ HistoryTypeOK
      /\ a.leads = leads /\ a.consults = consults /\ a.cases = cases
  BY <1>1, BaseStands
<1>3. OnceIn(a.consults) /\ TotalIn(a.cases) /\ LeadsTold
  BY <1>2 DEF ImportInv, ConsultationsOnce, TotalIsLedger, OnceIn, TotalIn
<1>4. Settled'
  BY ImportSettles
<1>5. CASE Import55k
  <2>1. PICK b \in Results55k(a) : Commit(b, "import55k")
    BY <1>1, <1>5 DEF Import55k
  <2>2. PICK n \in Nat : n = Len(Tab55k)
    BY <1>2, TabRows
  <2>3. Kept(a, b, n)
    BY <1>2, <1>3, <2>1, <2>2, RunKeeps
  <2>4. leads' = b.leads /\ consults' = b.consults /\ cases' = b.cases
    BY <2>1 DEF Commit
  <2>5. OnceIn(consults') /\ TotalIn(cases')
    BY <1>3, <2>3, <2>4 DEF Kept
  <2>6. LeadsFrom(leads, b.leads, n)
    BY <1>2, <2>3 DEF Kept
  <2>7. LeadsTold'
    <3>1. version' = version
      BY <2>1 DEF Commit
    <3>2. QED
      BY <1>2, <1>3, <2>2, <2>4, <2>6, <3>1, ImportedNames
  <2>8. QED
    BY <1>4, <2>5, <2>7 DEF ImportInv, ConsultationsOnce, TotalIsLedger, OnceIn, TotalIn
<1>6. CASE ImportCases
  <2>1. PICK b : b = ResultOfCases(a)
    OBVIOUS
  <2>2. leads' = b.leads /\ consults' = b.consults /\ cases' = b.cases
    BY <1>1, <1>6, <2>1 DEF ImportCases, Commit
  <2>3. PICK n \in Nat : n = Len(CaseTab)
    BY <1>2, CaseRows
  <2>4. CasesKept(a, b)
    BY <1>2, <1>3, <2>1, <2>3, CasesKeep
  <2>5. OnceIn(consults') /\ TotalIn(cases') /\ leads' = leads
    BY <1>2, <1>3, <2>2, <2>4 DEF CasesKept
  <2>6. LeadsTold'
    <3>1. version' = version
      BY <1>6 DEF ImportCases, Commit
    <3>2. QED
      BY <1>3, <2>5, <3>1 DEF LeadsTold
  <2>7. QED
    BY <1>4, <2>5, <2>6 DEF ImportInv, ConsultationsOnce, TotalIsLedger, OnceIn, TotalIn
<1>7. QED
  BY <1>5, <1>6

LEMMA NextImports ==
  ASSUME Assumptions, ClientsInv, ImportInv, [Next]_vars
  PROVE  ImportInv'
<1>1. /\ HistoryImportAssumption /\ ClientBaseAssumption /\ BaseTypeOK /\ HistoryTypeOK
      /\ OnceIn(consults) /\ TotalIn(cases) /\ LeadsTold
  BY DEF Assumptions, ClientsInv, ImportInv, ConsultationsOnce, TotalIsLedger, OnceIn, TotalIn
<1>2. ASSUME OnceIn(consults') /\ TotalIn(cases') /\ LeadsTold', Settled'
      PROVE  ImportInv'
  BY <1>2 DEF ImportInv, ConsultationsOnce, TotalIsLedger, OnceIn, TotalIn
<1>3. ran' = Blank => Settled'
  BY DEF Settled, Blank
<1>4. CASE UNCHANGED vars
  <2>1. UNCHANGED <<clients, leads, consults, cases, version, ran, scene>>
    BY <1>4 DEF vars, tables, history
  <2>2. Base' = Base /\ Tab55k' = Tab55k /\ CaseTab' = CaseTab
    BY <2>1 DEF Base, Tab55k, CaseTab
  <2>3. Settled'
    BY <2>1, <2>2 DEF ImportInv, Settled
  <2>4. LeadsTold'
    BY <1>1, <2>1 DEF LeadsTold
  <2>5. QED
    BY <1>1, <1>2, <2>1, <2>3, <2>4
<1>5. CASE scene = "mail" /\ Arrival /\ UNCHANGED history
  <2>1. UNCHANGED <<ran, scene>> /\ ran = Blank /\ \A m \in DOMAIN leads : leads[m].tg # 0
    BY <1>1, <1>5 DEF history, LeadsTold
  <2>2. UNCHANGED <<consults, cases>> /\ \A m \in DOMAIN leads' : leads'[m].tg # 0
    BY <1>5, <2>1, ArrivingLeads
  <2>3. LeadsTold'
    BY <1>5, <2>1, <2>2 DEF LeadsTold
  <2>4. QED
    BY <1>1, <1>2, <1>3, <2>1, <2>2, <2>3
<1>6. CASE scene = "imports" /\ (Import55k \/ ImportCases \/ EditTab) /\ UNCHANGED <<staff, intake, scene>>
  <2>1. CASE Import55k \/ ImportCases
    BY <1>1, <1>6, <2>1, ImportsKeep
  <2>2. CASE EditTab
    <3>1. ran' = Blank /\ UNCHANGED <<leads, consults, cases, scene>>
      BY <1>6, <2>2 DEF EditTab, tables
    <3>2. LeadsTold'
      BY <1>1, <1>6, <2>2, LaterVersions
    <3>3. QED
      BY <1>1, <1>2, <1>3, <3>1, <3>2
  <2>3. QED
    BY <1>6, <2>1, <2>2
<1>7. CASE (Deletion \/ StaffNext \/ Tick) /\ ran' = Blank /\ UNCHANGED <<intake, version, scene>>
  <2>1. StaffNext \/ Tick
    BY <1>7 DEF StaffNext
  <2>2. OnceIn(consults') /\ TotalIn(cases')
    BY <1>1, <2>1, StaffBooks
  <2>3. UNCHANGED leads
    BY <2>1, StaffLeaveLeads
  <2>4. LeadsTold'
    BY <1>1, <1>7, <2>3 DEF LeadsTold
  <2>5. QED
    BY <1>2, <1>3, <1>7, <2>2, <2>4
<1>8. QED
  BY <1>4, <1>5, <1>6, <1>7 DEF Next

LEMMA StartImports ==
  ASSUME Start
  PROVE  ImportInv
<1>1. ran = Blank /\ DOMAIN leads = {} /\ consults = <<>> /\ cases = <<>> /\ scene \in Scenes
  BY DEF Start, Init, HistoryInit
<1>2. Settled
  BY <1>1 DEF Settled, Blank
<1>3. LeadsTold
  BY <1>1 DEF LeadsTold, Scenes
<1>4. QED
  BY <1>1, <1>2, <1>3 DEF ImportInv, ConsultationsOnce, TotalIsLedger

LEMMA ToldByNumber ==
  ASSUME LeadsTold
  PROVE  LeadsByNumber
<1>1. CASE scene = "mail"
  BY <1>1 DEF LeadsTold, LeadsByNumber
<1>2. CASE scene # "mail"
  BY <1>2 DEF LeadsTold, LeadsByNumber
<1>3. QED
  BY <1>1, <1>2

-----------------------------------------------------------------------------
(* The days between the runs.                                              *)

LEMMA SameDays ==
  ASSUME NEW t \in ClientTable, NEW u \in ClientTable, NEW d, DOMAIN u = DOMAIN t,
         \A c \in DOMAIN t : u[c].first = t[c].first /\ u[c].last = t[c].last
  PROVE  SeenOn(t, u, d)
<1>1. \A c \in DOMAIN t : t[c].first \in Int /\ t[c].last \in Int
  BY ClientDays
<1>2. \A c \in DOMAIN t : t[c].first <= t[c].first /\ t[c].last <= t[c].last
  BY <1>1
<1>3. QED
  BY <1>2 DEF SeenOn

LEMMA OneMoreSeen ==
  ASSUME NEW t \in ClientTable, NEW x \in ClientRow, x.first = x.last, NEW u \in ClientTable, u = Append(t, x)
  PROVE  SeenOn(t, u, x.first)
<1>1. PICK n \in Nat : n = Len(t) /\ DOMAIN t = 1 .. n
  BY DEF ClientTable
<1>2. DOMAIN u = 1 .. (n + 1) /\ u[n + 1] = x /\ \A c \in DOMAIN t : u[c] = t[c]
  BY <1>1 DEF ClientTable
<1>3. \A c \in DOMAIN t : t[c].first \in Int /\ t[c].last \in Int
  BY ClientDays
<1>4. \A c \in DOMAIN t : t[c].first <= t[c].first /\ t[c].last <= t[c].last
  BY <1>3
<1>5. \A c \in DOMAIN u : c \in DOMAIN t \/ u[c] = x
  BY <1>1, <1>2
<1>6. DOMAIN t \subseteq DOMAIN u
  BY <1>1, <1>2
<1>7. QED
  BY <1>2, <1>4, <1>5, <1>6 DEF SeenOn

LEMMA ResolvedSeen ==
  ASSUME ClientBaseAssumption, day \in Days, NEW t \in ClientTable, SeenWithin(t, day), NEW p \in Phones,
         NEW u \in ClientTable, u = Resolved(t, p)
  PROVE  SeenOn(t, u, day)
<1>1. day \in Int /\ LastDay \in Nat
  BY DEF Days, ClientBaseAssumption
<1>2. CASE Known(t, p)
  <2>1. PICK c : c = IdOf(t, p)
    OBVIOUS
  <2>2. c \in DOMAIN t
    BY <1>2, <2>1, FoundLive DEF Known, Live
  <2>3. PICK r \in ClientRow : r = t[c]
    BY <2>2 DEF ClientTable
  <2>4. PICK x : x = [r EXCEPT !.last = day]
    OBVIOUS
  <2>5. x.first = r.first /\ x.last = day
    BY <2>4 DEF ClientRow
  <2>6. u = [t EXCEPT ![c] = x]
    BY <1>2, <2>1, <2>3, <2>4 DEF Resolved
  <2>7. DOMAIN u = DOMAIN t /\ u[c] = x /\ \A k \in DOMAIN t \ {c} : u[k] = t[k]
    BY <2>2, <2>6
  <2>8. \A k \in DOMAIN t : t[k].first \in Int /\ t[k].last \in Int /\ t[k].last <= day
    BY ClientDays DEF SeenWithin
  <2>9. \A k \in DOMAIN t : t[k].first <= t[k].first /\ t[k].last <= t[k].last
    BY <2>8
  <2>10. ASSUME NEW k \in DOMAIN t
         PROVE  /\ u[k].first \in {t[k].first, day} /\ u[k].first <= t[k].first
                /\ u[k].last \in {t[k].last, day} /\ t[k].last <= u[k].last
    <3>1. CASE k = c
      BY <2>2, <2>3, <2>5, <2>7, <2>8, <2>9, <3>1
    <3>2. CASE k # c
      BY <2>7, <2>9, <3>2
    <3>3. QED
      BY <3>1, <3>2
  <2>11. QED
    BY <2>7, <2>10 DEF SeenOn
<1>3. CASE ~Known(t, p)
  <2>1. PICK x : x = Client(p, day)
    OBVIOUS
  <2>2. x \in ClientRow /\ x.first = day /\ x.last = day
    BY <2>1, NewRow DEF Client
  <2>3. u = Append(t, x)
    BY <1>3, <2>1 DEF Resolved
  <2>4. x \in ClientRow /\ x.first = x.last
    BY <2>2
  <2>5. SeenOn(t, u, x.first)
    BY <2>3, <2>4, OneMoreSeen
  <2>6. QED
    BY <2>2, <2>5
<1>4. QED
  BY <1>2, <1>3

LEMMA StaffSees ==
  ASSUME ClientBaseAssumption, BaseTypeOK, clients' \in ClientTable, SeenWithin(clients, day), StaffNext
  PROVE  SeenOn(clients, clients', day)
<1>1. clients \in ClientTable /\ day \in Days /\ \A c \in DOMAIN clients : clients[c] \in ClientRow
  BY DEF BaseTypeOK, ClientTable
<1>2. CASE UNCHANGED clients
  BY <1>1, <1>2, SameDays
<1>3. CASE CreateClient
  <2>1. CASE \E p \in Phones : clients' = Resolved(clients, p)
    <3>1. PICK p \in Phones : clients' = Resolved(clients, p)
      BY <2>1
    <3>2. QED
      BY <1>1, <3>1, ResolvedSeen
  <2>2. CASE clients' = Append(clients, Client(NoPhone, day))
    <3>1. PICK x : x = Client(NoPhone, day)
      OBVIOUS
    <3>2. x \in ClientRow /\ x.first = day /\ x.last = day
      BY <1>1, <3>1, NewRow DEF Client
    <3>3. x \in ClientRow /\ x.first = x.last /\ clients' = Append(clients, x)
      BY <2>2, <3>1, <3>2
    <3>4. SeenOn(clients, clients', x.first)
      BY <1>1, <3>3, OneMoreSeen
    <3>5. QED
      BY <3>2, <3>4
  <2>3. QED
    BY <1>3, <2>1, <2>2 DEF CreateClient
<1>4. ASSUME NEW c \in DOMAIN clients, NEW x, x.first = clients[c].first, x.last = clients[c].last,
             clients' = [clients EXCEPT ![c] = x]
      PROVE  SeenOn(clients, clients', day)
  <2>1. /\ DOMAIN clients' = DOMAIN clients
        /\ \A k \in DOMAIN clients : clients'[k] = IF k = c THEN x ELSE clients[k]
    BY <1>1, <1>4 DEF ClientTable
  <2>2. \A k \in DOMAIN clients : clients'[k].first = clients[k].first /\ clients'[k].last = clients[k].last
    BY <1>4, <2>1
  <2>3. QED
    BY <1>1, <2>1, <2>2, SameDays
<1>5. CASE UpdateClient
  <2>1. PICK c \in Live(clients), p \in Phones \cup {NoPhone} : CardSaved(c, p)
    BY <1>5 DEF UpdateClient
  <2>2. c \in DOMAIN clients /\ clients[c] \in ClientRow
    BY <1>1, <2>1 DEF Live
  <2>3. PICK x : x = [clients[c] EXCEPT !.phone = p]
    OBVIOUS
  <2>4. x.first = clients[c].first /\ x.last = clients[c].last
    BY <2>2, <2>3 DEF ClientRow
  <2>5. clients' = [clients EXCEPT ![c] = x]
    BY <2>1, <2>3 DEF CardSaved
  <2>6. QED
    BY <1>4, <2>2, <2>4, <2>5
<1>6. CASE SetClientSegmentOverride
  <2>1. PICK c \in Live(clients), s \in {Blank, "lost", "someday"} : SetOverride(c, s)
    BY <1>6 DEF SetClientSegmentOverride
  <2>2. c \in DOMAIN clients /\ clients[c] \in ClientRow
    BY <1>1, <2>1 DEF Live
  <2>3. PICK x : x = [clients[c] EXCEPT !.pin = s]
    OBVIOUS
  <2>4. x.first = clients[c].first /\ x.last = clients[c].last
    BY <2>2, <2>3 DEF ClientRow
  <2>5. clients' = [clients EXCEPT ![c] = x]
    BY <2>1, <2>3 DEF SetOverride, PinSet
  <2>6. QED
    BY <1>4, <2>2, <2>4, <2>5
<1>7. ASSUME NEW c, DropNotes(c) \/ DropClient(c)
      PROVE  SeenOn(clients, clients', day)
  <2>1. CASE UNCHANGED clients
    BY <1>2, <2>1
  <2>2. CASE DropNotes(c)
    BY <1>2, <2>2 DEF DropNotes, tables
  <2>3. CASE DropClient(c) /\ clients' # clients
    <3>1. clients' = [clients EXCEPT ![c].gone = TRUE]
      BY <2>3 DEF DropClient
    <3>2. c \in DOMAIN clients
      BY <1>1, <2>3, <3>1 DEF ClientTable
    <3>3. PICK x : x = [clients[c] EXCEPT !.gone = TRUE]
      OBVIOUS
    <3>4. clients[c] \in ClientRow
      BY <1>1, <3>2
    <3>5. x.first = clients[c].first /\ x.last = clients[c].last
      BY <3>3, <3>4 DEF ClientRow
    <3>6. clients' = [clients EXCEPT ![c] = x]
      BY <3>1, <3>3
    <3>7. QED
      BY <1>4, <3>2, <3>5, <3>6
  <2>4. QED
    BY <1>7, <2>1, <2>2, <2>3
<1>8. CASE Deletion
  <2>1. CASE CountHistory
    BY <1>2, <2>1 DEF CountHistory, tables
  <2>2. QED
    BY <1>7, <1>8, <2>1 DEF Deletion
<1>9. CASE AddClientNote \/ SaveConsultation \/ TapStatus \/ SaveCase \/ AddPayment \/ CloseCase
  BY <1>2, <1>9 DEF AddClientNote, SaveConsultation, TapStatus, SaveCase, AddPayment, CloseCase, tables
<1>10. CASE AddClientTag \/ RemoveClientTag \/ CreateClientTagDef \/ UpdateClientTagDef \/ DeleteClientTagDef
  BY <1>2, <1>10 DEF AddClientTag, RemoveClientTag, CreateClientTagDef, UpdateClientTagDef, DeleteClientTagDef
<1>11. QED
  BY <1>3, <1>5, <1>6, <1>8, <1>9, <1>10 DEF StaffNext


LEMMA ArrivingClients ==
  ASSUME LeadIntakeAssumption, ClientsInv, Arrival
  PROVE  UNCHANGED clients \/ \E p \in Phones : clients' = Resolved(clients, p)
<1>1. SubType
  BY DEF ClientsInv, IntakeInv, SubType
<1>2. ASSUME NEW s \in Submitters, ResolveClient(s)
      PROVE  UNCHANGED clients \/ \E p \in Phones : clients' = Resolved(clients, p)
  <2>1. PICK p : p = PhoneOf[sub[s].msg]
    OBVIOUS
  <2>2. sub[s].msg \in Sources
    BY <1>1, <1>2, AtWork DEF ResolveClient, Busy
  <2>3. p \in Phones \cup {NoPhone}
    BY <2>1, <2>2 DEF LeadIntakeAssumption, Sources
  <2>4. UNCHANGED clients \/ (p # NoPhone /\ clients' = Resolved(clients, p))
    BY <1>2, <2>1 DEF ResolveClient
  <2>5. QED
    BY <2>3, <2>4
<1>3. ASSUME NEW s, SendMessage(s) \/ Save(s) \/ AppendRow(s) \/ MarkSheetSynced(s)
      PROVE  UNCHANGED clients
  BY <1>3 DEF SendMessage, Save, AppendRow, MarkSheetSynced, tables
<1>4. ASSUME Arrive \/ Submit \/ FetchUnseen \/ TakeMail \/ MarkSeen \/ Crash \/ SetPracticeArea
      PROVE  UNCHANGED clients
  BY <1>4 DEF Arrive, Submit, FetchUnseen, TakeMail, MarkSeen, Crash, SetPracticeArea, tables
<1>5. QED
  BY <1>2, <1>3, <1>4 DEF Arrival, IntakeNext, PollStep, Submitters

LEMMA PastRows ==
  ASSUME HistoryImportAssumption, ClientBaseAssumption, HistoryTypeOK, PastTabs, day \in Days, 1 <= day
  PROVE  RowsBy(Len(Tab55k), day) /\ CasesBy(Len(CaseTab), day)
<1>1. day \in Int /\ \A d \in Days : d \in Int
  BY DEF Days
<1>2. ASSUME NEW i \in 1 .. Len(Tab55k), Tab55k[i].date # NoDate
      PROVE  Tab55k[i].date <= day
  <2>1. PICK r \in TabRow : r = Tab55k[i]
    BY <1>2, TabRows
  <2>2. r.date <= 1
    <3>1. version.leads \in DOMAIN Tabs55k /\ Tab55k = Tabs55k[version.leads] /\ i \in DOMAIN Tab55k
      BY <1>2, TabRows DEF HistoryTypeOK, Tab55k
    <3>2. QED
      BY <1>2, <2>1, <3>1 DEF PastTabs
  <2>3. PICK d \in Int : d = r.date
    <3>1. r.date \in Days
      BY <1>2, <2>1 DEF TabRow
    <3>2. QED
      BY <1>1, <3>1
  <2>4. d <= day
    BY <1>1, <2>2, <2>3
  <2>5. QED
    BY <2>1, <2>3, <2>4
<1>3. ASSUME NEW i \in 1 .. Len(CaseTab)
      PROVE  CaseTab[i][1].date <= day
  <2>1. PICK rows \in Seq(CaseTabRow) \ {<<>>} : rows = CaseTab[i]
    BY <1>3, CaseRows
  <2>2. PICK r \in CaseTabRow : r = rows[1]
    BY <2>1
  <2>3. r.date <= 1
    <3>1. version.cases \in DOMAIN CaseTabs /\ CaseTab = CaseTabs[version.cases] /\ i \in DOMAIN CaseTab
      BY <1>3, CaseRows DEF HistoryTypeOK, CaseTab
    <3>2. QED
      BY <2>1, <2>2, <3>1 DEF PastTabs
  <2>4. PICK d \in Int : d = r.date
    <3>1. r.date \in Days
      BY DEF CaseTabRow
    <3>2. QED
      BY <1>1, <3>1
  <2>5. d <= day
    BY <1>1, <2>3, <2>4
  <2>6. QED
    BY <2>1, <2>2, <2>4, <2>5
<1>4. QED
  BY <1>2, <1>3 DEF RowsBy, CasesBy

LEMMA SpansOf ==
  SpanInv <=> 1 <= day /\ SeenWithin(clients, day) /\ LeadsWithin(clients, leads)
BY DEF SpanInv, SeenWithin, LeadsWithin

LEMMA NextSpans ==
  ASSUME Assumptions, PastTabs, ClientsInv, ClientsInv', ImportInv, ImportInv', SpanInv, [Next]_vars
  PROVE  SpanInv'
<1>1. /\ HistoryImportAssumption /\ ClientBaseAssumption /\ LeadIntakeAssumption
      /\ BaseTypeOK /\ HistoryTypeOK /\ LastDay \in Nat
      /\ 1 <= day /\ SeenWithin(clients, day) /\ LeadsWithin(clients, leads)
  BY SpansOf DEF Assumptions, ClientsInv, ClientBaseAssumption
<1>2. /\ clients \in ClientTable /\ clients' \in ClientTable /\ day \in Days /\ day' \in Days
      /\ day \in Int /\ day' \in Int /\ day <= day
  BY DEF ClientsInv, BaseTypeOK, ClientTable, Days
<1>3. SUFFICES 1 <= day' /\ SeenWithin(clients', day') /\ LeadsWithin(clients', leads')
  BY DEF SpanInv, SeenWithin, LeadsWithin
<1>4. LeadTable(leads) /\ \A m \in DOMAIN leads : leads[m].client \in Live(clients) \cup {0}
  BY DEF ClientsInv, IntakeInv, IntakeTypeOK, LeadTable, ReferencesHold
<1>5. ASSUME SeenOn(clients, clients', day), UNCHANGED <<day, leads>>
      PROVE  1 <= day' /\ SeenWithin(clients', day') /\ LeadsWithin(clients', leads')
  <2>1. SeenWithin(clients', day)
    BY <1>1, <1>2, <1>5, SeenOnWithin
  <2>2. LeadsWithin(clients', leads)
    BY <1>1, <1>2, <1>4, <1>5, SeenOnLeads
  <2>3. QED
    BY <1>1, <1>5, <2>1, <2>2
<1>6. CASE UNCHANGED vars
  BY <1>1, <1>6 DEF vars, staff, tables
<1>7. CASE scene = "mail" /\ Arrival /\ UNCHANGED history
  <2>1. UNCHANGED day
    <3>1. ASSUME SetPracticeArea PROVE UNCHANGED day
      BY <3>1 DEF SetPracticeArea, StaffStep
    <3>2. QED
      BY <1>7, <3>1 DEF Arrival, staff
  <2>2. SeenOn(clients, clients', day)
    <3>1. CASE UNCHANGED clients
      BY <1>2, <3>1, SameDays
    <3>2. CASE \E p \in Phones : clients' = Resolved(clients, p)
      <4>1. PICK p \in Phones : clients' = Resolved(clients, p)
        BY <3>2
      <4>2. QED
        BY <1>1, <1>2, <4>1, ResolvedSeen
    <3>3. QED
      BY <1>1, <1>7, <3>1, <3>2, ArrivingClients
  <2>3. SeenWithin(clients', day)
    BY <1>1, <1>2, <2>2, SeenOnWithin
  <2>4. \A m \in DOMAIN leads' : leads'[m].tg # 0
    BY <1>7 DEF ImportInv, LeadsTold, history
  <2>5. LeadsWithin(clients', leads')
    BY <2>4 DEF LeadsWithin
  <2>6. QED
    BY <1>1, <2>1, <2>3, <2>5
<1>8. CASE (Import55k \/ ImportCases \/ EditTab) /\ UNCHANGED <<staff, intake, scene>>
  <2>1. UNCHANGED day
    BY <1>8 DEF staff
  <2>2. PICK a : a = Base
    OBVIOUS
  <2>3. GoodBase(a) /\ SpanIn(a, day)
    BY <1>1, <2>2, BaseStands DEF SpanIn
  <2>4. CASE Import55k
    <3>1. PICK b \in Results55k(a) : Commit(b, "import55k")
      BY <2>2, <2>4 DEF Import55k
    <3>2. PICK n \in Nat : n = Len(Tab55k)
      BY <1>1, TabRows
    <3>3. RowsBy(n, day)
      BY <1>1, <1>2, <3>2, PastRows
    <3>4. SpanIn(b, day)
      BY <1>1, <1>2, <2>3, <3>1, <3>2, <3>3, RunWithin
    <3>5. clients' = b.clients /\ leads' = b.leads
      BY <3>1 DEF Commit
    <3>6. QED
      BY <1>1, <2>1, <3>4, <3>5 DEF SpanIn
  <2>5. CASE ImportCases
    <3>1. PICK b : b = ResultOfCases(a)
      OBVIOUS
    <3>2. PICK n \in Nat : n = Len(CaseTab)
      BY <1>1, CaseRows
    <3>3. CasesBy(n, day)
      BY <1>1, <1>2, <3>2, PastRows
    <3>4. SpanIn(b, day)
      BY <1>1, <1>2, <2>3, <3>1, <3>2, <3>3, CasesWithin
    <3>5. clients' = b.clients /\ leads' = b.leads
      BY <2>2, <2>5, <3>1 DEF ImportCases, Commit
    <3>6. QED
      BY <1>1, <2>1, <3>4, <3>5 DEF SpanIn
  <2>6. CASE EditTab
    BY <1>1, <2>1, <2>6 DEF EditTab, tables
  <2>7. QED
    BY <1>8, <2>4, <2>5, <2>6
<1>9. CASE StaffNext
  <2>1. UNCHANGED leads
    BY <1>9, StaffLeaveLeads
  <2>2. SeenOn(clients, clients', day)
    BY <1>1, <1>2, <1>9, StaffSees
  <2>3. UNCHANGED day
    <3>1. ASSUME NEW c, DropNotes(c) \/ DropClient(c)
          PROVE  UNCHANGED day
      BY <3>1 DEF DropNotes, DropClient
    <3>2. CASE Deletion
      BY <3>1, <3>2 DEF Deletion, CountHistory
    <3>3. CASE CreateClient \/ UpdateClient \/ AddClientNote \/ SaveConsultation \/ TapStatus
               \/ SaveCase \/ AddPayment \/ CloseCase
      BY <3>3 DEF CreateClient, UpdateClient, AddClientNote, SaveConsultation, TapStatus,
                  SaveCase, AddPayment, CloseCase, StaffStep
    <3>4. CASE SetClientSegmentOverride \/ AddClientTag \/ RemoveClientTag \/ CreateClientTagDef
               \/ UpdateClientTagDef \/ DeleteClientTagDef
      BY <3>4 DEF SetClientSegmentOverride, AddClientTag, RemoveClientTag, CreateClientTagDef,
                  UpdateClientTagDef, DeleteClientTagDef, StaffStep
    <3>5. QED
      BY <1>9, <3>2, <3>3, <3>4 DEF StaffNext
  <2>4. QED
    BY <1>5, <2>1, <2>2, <2>3
<1>10. CASE Tick
  <2>1. day' = day + 1 /\ clients' = clients /\ leads' = leads
    BY <1>10 DEF Tick, tables
  <2>2. \A c \in DOMAIN clients : clients[c].last \in Int
    BY <1>2, ClientDays
  <2>3. SeenWithin(clients, day + 1)
    BY <1>1, <1>2, <2>2 DEF SeenWithin
  <2>4. QED
    BY <1>1, <1>2, <2>1, <2>3
<1>11. QED
  BY <1>6, <1>7, <1>8, <1>9, <1>10 DEF Next, StaffNext

LEMMA StartSpans ==
  ASSUME Start
  PROVE  SpanInv
BY DEF Start, Init, SpanInv

\* However often the commands run, whatever their tabs say and whatever staff do in
\* between: a rerun at once adds nothing, one client has one imported consultation at
\* one time, an imported lead is a row that stood under its number, and every payment
\* has its entry (import55k, importcases).
THEOREM ImportsRepeat == Spec => [](RerunAddsNothing /\ ImportedOnce /\ TotalIsLedger)
<1>1. Assumptions
  BY ClientBaseAssumption, LeadIntakeAssumption, HistoryImportAssumption DEF Assumptions
<1>2. Start => ImportInv
  BY StartImports
<1>3. ClientsInv /\ ImportInv /\ [Next]_vars => ImportInv'
  BY <1>1, NextImports
<1>4. ClientsInv /\ ImportInv => RerunAddsNothing /\ ImportedOnce /\ TotalIsLedger
  BY <1>1, SettledRerun, ToldByNumber DEF Assumptions, ImportInv, ImportedOnce
<1>5. QED
  BY <1>2, <1>3, <1>4, ClientsCorrect, PTL DEF Spec

\* And where the tabs are of days gone by, a client's dates span all that came from
\* them (Spanning in import55k and importcases, the resolver's last_seen_at = now()).
THEOREM ImportsAreSafe == ASSUME PastTabs PROVE Spec => []ImportsSafe
<1>1. Assumptions
  BY ClientBaseAssumption, LeadIntakeAssumption, HistoryImportAssumption DEF Assumptions
<1>2. Start => ImportInv /\ SpanInv
  BY StartImports, StartSpans
<1>3. ClientsInv /\ ImportInv /\ [Next]_vars => ImportInv'
  BY <1>1, NextImports
<1>4. ClientsInv /\ ClientsInv' /\ ImportInv /\ ImportInv' /\ SpanInv /\ [Next]_vars => SpanInv'
  BY <1>1, NextSpans
<1>5. ClientsInv /\ ImportInv /\ SpanInv => ImportsSafe
  <2>1. SpanInv => SeenSpan
    BY DEF SpanInv, SeenSpan, Live
  <2>2. ClientsInv /\ ImportInv => RerunAddsNothing /\ ImportedOnce /\ TotalIsLedger
    BY <1>1, SettledRerun, ToldByNumber DEF Assumptions, ImportInv, ImportedOnce
  <2>3. QED
    BY <2>1, <2>2 DEF ImportsSafe
<1>6. QED
  BY <1>2, <1>3, <1>4, <1>5, ClientsCorrect, PTL DEF Spec
=============================================================================
