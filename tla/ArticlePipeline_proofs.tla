----------------------- MODULE ArticlePipeline_proofs ------------------------
(***************************************************************************)
(* What TLAPS proves of articles: of ArticleLifecycle, for any number of   *)
(* articles, posts, clients and batches and under every fault the module   *)
(* knows; and of ArticlePipeline, with its checker and its ratings, which  *)
(* implements it, so that what is proved of the one holds of the other.    *)
(***************************************************************************)
EXTENDS ArticlePipeline, FiniteSetTheorems, TLAPS

-----------------------------------------------------------------------------
(* The lifecycle.                                                          *)

-----------------------------------------------------------------------------
(* Type correctness. *)

LEMMA InitType == Init => TypeOK
  BY BoundsAssumption
  DEF Init, TypeOK, Row, Post, Proc, Statuses, NoRow, Absent, Idle, NoWork,
      JobPCs, PublishPCs

\* Program counters, whole records and row statuses keep their types.
LEMMA GotoType ==
  ASSUME TypeOK, NEW c \in Callers, NEW pc \in {"idle"} \cup JobPCs \cup PublishPCs,
         Goto(c, pc)
  PROVE  proc' \in [Callers -> Proc]
  BY DEF TypeOK, Goto, Proc

LEMMA SetProcType ==
  ASSUME TypeOK, NEW c \in Callers, NEW x \in Proc, proc' = [proc EXCEPT ![c] = x]
  PROVE  proc' \in [Callers -> Proc]
  BY DEF TypeOK

LEMMA SetStatusType ==
  ASSUME TypeOK, NEW a, NEW x \in Statuses, row' = [row EXCEPT ![a].status = x]
  PROVE  row' \in [Articles -> Row]
  BY DEF TypeOK, Row

LEMMA IdleType == Idle \in Proc
  BY DEF Idle, Proc

LEMMA ReturnedType ==
  ASSUME TypeOK, NEW c \in Callers, NEW ok \in BOOLEAN PROVE Returned(c, ok) \in Proc
<1>1. proc[c] \in Proc
  BY DEF TypeOK
<1>2. [proc[c] EXCEPT !.pc = "fail", !.post = NoPost] \in Proc
  BY <1>1 DEF Proc, JobPCs
<1>3. QED
  BY <1>2, IdleType DEF Returned

LEMMA PublishEndsType ==
  ASSUME TypeOK, NEW c \in Callers, NEW ok \in BOOLEAN, PublishEnds(c, ok)
  PROVE  proc' \in [Callers -> Proc]
  BY ReturnedType, SetProcType DEF PublishEnds

LEMMA CreateType ==
  ASSUME TypeOK, NEW a \in Articles, NEW t \in Topics, NEW auto \in BOOLEAN,
         CreateArticle(a, t, auto)
  PROVE  row' \in [Articles -> Row] /\ proc' \in [Callers -> Proc]
<1>1. [pc |-> "queued", art |-> a, post |-> NoPost] \in Proc
  BY DEF Proc, JobPCs
<1>2. [status |-> "generating", topic |-> t, post |-> NoPost, auto |-> auto] \in Row
  BY DEF Row, Statuses
<1>3. QED
  BY <1>1, <1>2, SetProcType DEF CreateArticle, TypeOK, Callers

LEMMA RequestsType == TypeOK /\ Requests => TypeOK'
<1> SUFFICES ASSUME TypeOK, Requests PROVE TypeOK'
  OBVIOUS
<1> USE DEF TypeOK
<1>1. ASSUME NEW a \in Articles, NEW t \in DirectTopics, NEW auto \in AutoChoices,
             Generate(a, t, auto)
      PROVE  TypeOK'
  BY <1>1, CreateType, BoundsAssumption DEF Generate
<1>2. ASSUME NEW b \in Batches, BatchOpen(b) PROVE TypeOK'
  BY <1>2, BoundsAssumption DEF BatchOpen
<1>3. ASSUME NEW b \in Batches, NEW t \in Topics, NEW a \in Articles,
             NEW auto \in AutoChoices, BatchCreate(b, t, a, auto)
      PROVE  TypeOK'
  <2>1. row' \in [Articles -> Row] /\ proc' \in [Callers -> Proc]
    BY <1>3, CreateType, BoundsAssumption DEF BatchCreate
  <2>2. batch' \in [Batches -> [todo : SUBSET Topics, left : Nat]]
    BY <1>3 DEF BatchCreate, Wants
  <2>3. QED
    BY <2>1, <2>2, <1>3 DEF BatchCreate
<1>4. ASSUME NEW b \in Batches, NEW t \in Topics, BatchSkip(b, t) PROVE TypeOK'
  BY <1>4 DEF BatchSkip
<1>5. QED
  BY <1>1, <1>2, <1>3, <1>4 DEF Requests

LEMMA RecordedType ==
  ASSUME TypeOK, NEW a \in Articles, DraftRecorded(a) PROVE row' \in [Articles -> Row]
<1>1. proc[a].post \in Posts \cup {NoPost}
  BY DEF TypeOK, Callers, Proc
<1>2. [row[a] EXCEPT !.status = "draft", !.post = proc[a].post] \in Row
  BY <1>1, ZenonT(40) DEF TypeOK, Row, Statuses
<1>3. QED
  BY <1>2 DEF TypeOK, DraftRecorded

LEMMA JobType == ASSUME NEW a \in Articles, TypeOK, JobStep(a) PROVE TypeOK'
<1> USE DEF TypeOK, Callers
<1>1. CASE AcquireSlot(a)
  BY <1>1, GotoType DEF AcquireSlot, JobPCs
<1>2. CASE WriteContent(a)
  BY <1>2, GotoType DEF WriteContent, JobPCs
<1>3. CASE StageFails(a)
  BY <1>3, GotoType DEF StageFails, JobPCs
<1>4. ASSUME NEW p \in Posts, NEW lost \in BOOLEAN, CreateDraft(a, p, lost)
      PROVE  TypeOK'
  <2>1. proc[a] \in Proc
    OBVIOUS
  <2>2. DraftAnswered(a, p, lost) \in Proc
    BY <2>1 DEF DraftAnswered, Proc, JobPCs
  <2>3. proc' \in [Callers -> Proc]
    BY <1>4, <2>2, SetProcType DEF CreateDraft
  <2>4. wp' \in [Posts -> Post]
    BY <1>4 DEF CreateDraft, Post
  <2>5. QED
    BY <1>4, <2>3, <2>4 DEF CreateDraft
<1>5. CASE UpdateDraft(a)
  <2>1. row' \in [Articles -> Row]
    BY <1>5, RecordedType DEF UpdateDraft
  <2>2. [proc[a] EXCEPT !.pc = "get"] \in Proc
    BY DEF Proc, JobPCs
  <2>3. proc' \in [Callers -> Proc]
    BY <1>5, <2>2, IdleType DEF UpdateDraft
  <2>4. QED
    BY <1>5, <2>1, <2>3 DEF UpdateDraft
<1>6. CASE UpdateDraftFails(a)
  <2>1. row' \in [Articles -> Row]
    BY <1>6, RecordedType DEF UpdateDraftFails
  <2>2. proc' \in [Callers -> Proc]
    BY <1>6, GotoType DEF UpdateDraftFails, JobPCs
  <2>3. QED
    BY <1>6, <2>1, <2>2 DEF UpdateDraftFails
<1>7. CASE MarkFailed(a)
  <2>1. row' \in [Articles -> Row]
    BY <1>7, SetStatusType DEF MarkFailed, Statuses
  <2>2. proc' \in [Callers -> Proc]
    BY <1>7, SetProcType, IdleType DEF MarkFailed
  <2>3. QED
    BY <1>7, <2>1, <2>2 DEF MarkFailed
<1>8. CASE AutoPublishRefused(a)
  BY <1>8, PublishEndsType DEF AutoPublishRefused
<1>9. QED
  BY <1>1, <1>2, <1>3, <1>4, <1>5, <1>6, <1>7, <1>8 DEF JobStep

LEMMA MarkedType ==
  ASSUME TypeOK, NEW a, MarkedPublished(a)
  PROVE  row' \in [Articles -> Row] /\ wins' \in [Articles -> Nat]
<1>1. row' \in [Articles -> Row]
  BY SetStatusType DEF MarkedPublished, Statuses
<1>2. CASE a \in Articles
  <2>1. wins[a] + 1 \in Nat
    BY <1>2 DEF TypeOK
  <2>2. wins' = [wins EXCEPT ![a] = wins[a] + 1]
    BY DEF MarkedPublished
  <2>3. QED
    BY <1>1, <2>1, <2>2 DEF TypeOK
<1>3. CASE a \notin Articles
  BY <1>1, <1>3 DEF MarkedPublished, TypeOK
<1>4. QED
  BY <1>2, <1>3

LEMMA PublishType == ASSUME NEW c \in Callers, TypeOK, PublishStep(c) PROVE TypeOK'
<1> USE DEF TypeOK
<1>1. ASSUME NEW a \in Articles, PublishGoes(c, a) PROVE TypeOK'
  <2>1. [pc |-> "call", art |-> a, post |-> row[a].post] \in Proc
    BY DEF Proc, Row, PublishPCs
  <2>2. QED
    BY <1>1, <2>1, SetProcType DEF PublishGoes
<1>2. ASSUME NEW lost \in BOOLEAN, PublishPost(c, lost) PROVE TypeOK'
  <2>1. proc' \in [Callers -> Proc]
    BY <1>2, PublishEndsType, GotoType DEF PublishPost, PublishPCs
  <2>2. wp' \in [Posts -> Post]
    BY <1>2 DEF PublishPost, Post
  <2>3. QED
    BY <1>2, <2>1, <2>2 DEF PublishPost
<1>3. CASE PublishPostFails(c)
  BY <1>3, PublishEndsType DEF PublishPostFails
<1>4. CASE MarkPublished(c)
  <2>1. proc' \in [Callers -> Proc]
    BY <1>4, PublishEndsType, GotoType DEF MarkPublished, PublishPCs
  <2>2. row' \in [Articles -> Row] /\ wins' \in [Articles -> Nat]
    BY <1>4, MarkedType DEF MarkPublished
  <2>3. QED
    BY <1>4, <2>1, <2>2 DEF MarkPublished
<1>5. CASE MarkPublishedFails(c)
  <2>1. proc' \in [Callers -> Proc]
    BY <1>5, PublishEndsType DEF MarkPublishedFails
  <2>2. row' \in [Articles -> Row] /\ wins' \in [Articles -> Nat]
    BY <1>5, MarkedType DEF MarkPublishedFails
  <2>3. QED
    BY <1>5, <2>1, <2>2 DEF MarkPublishedFails
<1>6. CASE RereadArticle(c)
  BY <1>6, PublishEndsType DEF RereadArticle
<1>7. QED
  BY <1>1, <1>2, <1>3, <1>4, <1>5, <1>6 DEF PublishStep

LEMMA CrashBootType == TypeOK /\ (Crash \/ Boot) => TypeOK'
<1> SUFFICES ASSUME TypeOK, Crash \/ Boot PROVE TypeOK'
  OBVIOUS
<1>1. CASE Crash
  <2>1. NoWork \in [todo : SUBSET Topics, left : Nat]
    BY DEF NoWork
  <2>2. batch' \in [Batches -> [todo : SUBSET Topics, left : Nat]]
    BY <1>1, <2>1 DEF Crash
  <2>3. proc' \in [Callers -> Proc]
    BY <1>1, IdleType DEF Crash
  <2>4. crashes' \in Nat
    <3>1. crashes' = crashes + 1 /\ crashes \in Nat
      BY <1>1, Zenon DEF Crash, TypeOK
    <3>2. QED
      BY <3>1
  <2>5. UNCHANGED <<row, wp, passed, asked, wins>>
    BY <1>1 DEF Crash
  <2>6. up' \in BOOLEAN
    BY <1>1, Zenon DEF Crash
  <2>7. QED
    BY <2>2, <2>3, <2>4, <2>5, <2>6 DEF TypeOK
<1>2. CASE Boot
  <2>1. OrphansFailed \in [Articles -> Row]
    BY DEF TypeOK, OrphansFailed, Row, Statuses
  <2>2. QED
    BY <1>2, <2>1 DEF TypeOK, Boot
<1>3. QED
  BY <1>1, <1>2

LEMMA NextType == TypeOK /\ [Next]_vars => TypeOK'
<1> SUFFICES ASSUME TypeOK, [Next]_vars PROVE TypeOK'
  OBVIOUS
<1>1. CASE UNCHANGED vars
  BY <1>1 DEF vars, TypeOK
<1>2. CASE Next
  BY <1>2, RequestsType, JobType, PublishType, CrashBootType DEF Next
<1>3. QED
  BY <1>1, <1>2

\* Every reachable state of the articles table, the site, the jobs, the publish
\* calls and the batch requests has its type.
THEOREM TypeCorrect == Spec => []TypeOK
  BY InitType, NextType, PTL DEF Spec

-----------------------------------------------------------------------------
(* The rows and the site agree.                                            *)

LEMMA InitSite == Init => SiteInv
<1> SUFFICES ASSUME Init PROVE SiteInv
  OBVIOUS
<1>1. TypeOK
  BY InitType
<1>2. /\ \A a \in Articles : row[a] = NoRow
      /\ \A p \in Posts : wp[p] = Absent
      /\ \A c \in Callers : proc[c] = Idle
  BY DEF Init
<1>3. PostInv /\ LiveOnPurpose
  BY <1>2 DEF PostInv, LiveOnPurpose, Absent
<1>4. RowInv
  BY <1>2 DEF RowInv, NoRow
<1>5. JobInv
  BY <1>2, NamesAssumption DEF JobInv, JobOK, Absent, Idle, Callers
<1>6. PublishInv
  BY <1>2 DEF PublishInv, PublishOK, PublishPCs, Idle
<1>7. OnePostPerArticle
  BY <1>2 DEF OnePostPerArticle, Absent
<1>8. QED
  BY <1>1, <1>3, <1>4, <1>5, <1>6, <1>7 DEF SiteInv

\* A step that leaves rows and posts alone and moves one process.
LEMMA ProcStep ==
  ASSUME SiteInv, TypeOK', UNCHANGED <<row, wp>>,
         passed \subseteq passed', asked \subseteq asked',
         NEW c \in Callers, \A x \in Callers \ {c} : proc'[x] = proc[x],
         c \in Articles => JobOK(c)', PublishOK(c)'
  PROVE  SiteInv'
<1> USE DEF SiteInv
<1>1. PostInv' /\ RowInv' /\ OnePostPerArticle'
  BY DEF PostInv, RowInv, OnePostPerArticle
<1>2. LiveOnPurpose'
  BY DEF LiveOnPurpose
<1>3. JobInv'
  <2> SUFFICES ASSUME NEW x \in Articles, x # c PROVE JobOK(x)'
    BY DEF JobInv
  <2>1. JobOK(x) /\ proc'[x] = proc[x]
    BY DEF JobInv, Callers
  <2>2. QED
    BY <2>1 DEF JobOK
<1>4. PublishInv'
  <2> SUFFICES ASSUME NEW x \in Callers, x # c PROVE PublishOK(x)'
    BY DEF PublishInv
  <2>1. PublishOK(x) /\ proc'[x] = proc[x]
    BY DEF PublishInv
  <2>2. QED
    BY <2>1 DEF PublishOK
<1>5. QED
  BY <1>1, <1>2, <1>3, <1>4

\* A step that sets the status of an existing row and moves one process.
LEMMA StatusStep ==
  ASSUME SiteInv, TypeOK', UNCHANGED <<wp, passed, asked>>,
         NEW a \in Articles, row[a].status # "none",
         NEW s \in {"failed", "published"}, row' = [row EXCEPT ![a].status = s],
         s = "published" =>
             row[a].post # NoPost /\ wp[row[a].post].state = "published",
         NEW c \in Callers, \A x \in Callers \ {c} : proc'[x] = proc[x],
         c \in Articles => JobOK(c)', PublishOK(c)'
  PROVE  SiteInv'
<1> USE DEF SiteInv
<1>1. \A x \in Articles : /\ row'[x].post = row[x].post
                          /\ row'[x].auto = row[x].auto
                          /\ row'[x].status = IF x = a THEN s ELSE row[x].status
  BY DEF TypeOK, Row
<1>2. PostInv' /\ OnePostPerArticle'
  BY DEF PostInv, OnePostPerArticle
<1>3. RowInv'
  BY <1>1 DEF RowInv
<1>4. LiveOnPurpose'
  <2>1. \A p \in Posts : wp[p].state = "published" => wp[p].of \in Articles
    BY NamesAssumption DEF PostInv, TypeOK, Post
  <2>2. QED
    BY <1>1, <2>1 DEF LiveOnPurpose
<1>5. JobInv'
  <2> SUFFICES ASSUME NEW x \in Articles, x # c PROVE JobOK(x)'
    BY DEF JobInv
  <2>1. JobOK(x) /\ proc'[x] = proc[x]
    BY DEF JobInv, Callers
  <2>2. QED
    BY <1>1, <2>1 DEF JobOK
<1>6. PublishInv'
  <2> SUFFICES ASSUME NEW x \in Callers, x # c PROVE PublishOK(x)'
    BY DEF PublishInv
  <2>1. PublishOK(x) /\ proc'[x] = proc[x]
    BY DEF PublishInv
  <2>2. QED
    BY <1>1, <2>1 DEF PublishOK
<1>7. QED
  BY <1>2, <1>3, <1>4, <1>5, <1>6

\* An idle process satisfies its part of the invariant, and so does one whose
\* publish call has ended, unless it is a job whose row is gone.
LEMMA IdleOK ==
  ASSUME SiteInv, NEW c \in Callers, proc'[c] = Idle, UNCHANGED wp,
         c \in Articles => row'[c].status # "none" \/ row[c].status = "none"
  PROVE  (c \in Articles => JobOK(c)') /\ PublishOK(c)'
  BY DEF SiteInv, JobInv, JobOK, PublishOK, PublishPCs, Idle

LEMMA FailOK ==
  ASSUME NEW a \in Articles, proc'[a].pc = "fail", row'[a].status # "none"
  PROVE  JobOK(a)' /\ PublishOK(a)'
  BY DEF JobOK, PublishOK, PublishPCs

\* Only an existing row has a job.
LEMMA JobHasRow ==
  ASSUME SiteInv, NEW a \in Articles, proc[a].pc # "idle" PROVE row[a].status # "none"
  BY DEF SiteInv, JobInv, JobOK, Idle

LEMMA CreateDraftSite == ASSUME SiteInv, NEW a \in Articles, NEW p \in Posts, NEW lost \in BOOLEAN,
         CreateDraft(a, p, lost)
  PROVE  SiteInv'
<1> USE DEF SiteInv, TypeOK, Callers, Row, Proc, Post
<1>1. TypeOK'
  BY JobType DEF JobStep
<1>2. /\ wp' = [wp EXCEPT ![p] = [state |-> "draft", of |-> a]]
      /\ proc' = [proc EXCEPT ![a] = DraftAnswered(a, p, lost)]
      /\ UNCHANGED <<row, passed, asked>>
      /\ proc[a].pc = "draft" /\ wp[p].state = "absent"
  BY DEF CreateDraft, At
<1>0. wp[p].of = NoArticle /\ \A q \in Posts : wp[q].of # a
  BY <1>2 DEF PostInv, JobInv, JobOK
<1>3. PostInv'
  BY <1>2, NamesAssumption DEF PostInv
<1>4. RowInv'
  BY <1>2, <1>0, NamesAssumption DEF RowInv
<1>5. JobInv'
  <2> SUFFICES ASSUME NEW x \in Articles PROVE JobOK(x)'
    BY DEF JobInv
  <2>1. CASE x = a
    BY <1>2, <2>1, NamesAssumption DEF JobInv, JobOK, DraftAnswered, Idle, RowInv
  <2>2. CASE x # a
    <3>1. proc'[x] = proc[x] /\ row' = row /\ passed' = passed /\ JobOK(x)
      BY <1>2, <2>2 DEF JobInv
    <3>2. \A q \in Posts : wp[q].of # x => wp'[q].of # x
      BY <1>2, <2>2
    <3>3. proc[x].pc = "record" => wp[proc[x].post].of = x /\ proc[x].post # p
      BY <3>1, <1>0, NamesAssumption DEF JobOK
    <3>4. QED
      BY <1>2, <3>1, <3>2, <3>3 DEF JobOK
  <2>3. QED
    BY <2>1, <2>2
<1>6. PublishInv'
  <2> SUFFICES ASSUME NEW x \in Callers PROVE PublishOK(x)'
    BY DEF PublishInv
  <2>1. CASE x = a
    BY <1>2, <2>1 DEF DraftAnswered, PublishPCs, PublishOK
  <2>2. CASE x # a
    BY <1>2, <2>2 DEF PublishInv, PublishOK, PostInv, PublishPCs
  <2>3. QED
    BY <2>1, <2>2
<1>7. OnePostPerArticle'
  BY <1>2, <1>0 DEF OnePostPerArticle
<1>8. LiveOnPurpose'
  BY <1>2 DEF LiveOnPurpose
<1>9. QED
  BY <1>1, <1>3, <1>4, <1>5, <1>6, <1>7, <1>8

\* The new row has no post, and its job starts without one.
LEMMA CreateSite ==
  ASSUME SiteInv, TypeOK', NEW a \in Articles, NEW t \in Topics, NEW auto \in BOOLEAN,
         CreateArticle(a, t, auto), UNCHANGED <<wp, passed, asked>>
  PROVE  SiteInv'
<1> USE DEF SiteInv, Callers
<1>1. /\ row' = [row EXCEPT ![a] = [status |-> "generating", topic |-> t,
                                    post |-> NoPost, auto |-> auto]]
      /\ proc' = [proc EXCEPT ![a] = [pc |-> "queued", art |-> a, post |-> NoPost]]
      /\ row[a].status = "none"
  BY DEF CreateArticle
<1>2. row[a].post = NoPost /\ \A p \in Posts : wp[p].of # a
  BY <1>1 DEF RowInv, JobInv, JobOK
<1>3. /\ row'[a].status = "generating" /\ row'[a].post = NoPost
      /\ proc'[a].pc = "queued"
  BY <1>1 DEF TypeOK
<1>4. \A x \in Articles \ {a} : row'[x] = row[x]
  BY <1>1 DEF TypeOK
<1>5. \A x \in Callers \ {a} : proc'[x] = proc[x]
  BY <1>1 DEF TypeOK
<1>6. PostInv' /\ OnePostPerArticle'
  BY DEF PostInv, OnePostPerArticle
<1>7. RowInv'
  BY <1>3, <1>4 DEF RowInv
<1>8. LiveOnPurpose'
  <2>1. \A p \in Posts : wp[p].state = "published" =>
            wp[p].of \in Articles /\ wp[p].of # a
    BY <1>2, NamesAssumption DEF PostInv, TypeOK, Post
  <2>2. QED
    BY <2>1, <1>4 DEF LiveOnPurpose
<1>9. JobInv'
  <2> SUFFICES ASSUME NEW x \in Articles PROVE JobOK(x)'
    BY DEF JobInv
  <2>1. CASE x = a
    BY <2>1, <1>2, <1>3 DEF JobOK
  <2>2. CASE x # a
    BY <2>2, <1>4, <1>5 DEF JobInv, JobOK
  <2>3. QED
    BY <2>1, <2>2
<1>10. PublishInv'
  <2> SUFFICES ASSUME NEW x \in Callers PROVE PublishOK(x)'
    BY DEF PublishInv
  <2>1. CASE x = a
    BY <2>1, <1>3 DEF PublishOK, PublishPCs
  <2>2. CASE x # a
    <3>1. PublishOK(x) /\ proc'[x] = proc[x]
      BY <2>2, <1>5 DEF PublishInv
    <3>2. proc[x].pc \in PublishPCs => proc[x].art \in Articles \ {a}
      BY <3>1, <1>2 DEF PublishOK
    <3>3. QED
      BY <3>1, <3>2, <1>4 DEF PublishOK
  <2>3. QED
    BY <2>1, <2>2
<1>11. QED
  BY <1>6, <1>7, <1>8, <1>9, <1>10

LEMMA RequestsSite == SiteInv /\ Requests => SiteInv'
<1> SUFFICES ASSUME SiteInv, Requests PROVE SiteInv'
  OBVIOUS
<1>0. TypeOK'
  BY RequestsType DEF SiteInv
<1>1. ASSUME NEW a \in Articles, NEW t \in DirectTopics, NEW auto \in AutoChoices,
             Generate(a, t, auto)
      PROVE  SiteInv'
  BY <1>0, <1>1, CreateSite, BoundsAssumption DEF Generate
<1>2. ASSUME NEW b \in Batches, NEW t \in Topics, NEW a \in Articles,
             NEW auto \in AutoChoices, BatchCreate(b, t, a, auto)
      PROVE  SiteInv'
  BY <1>0, <1>2, CreateSite, BoundsAssumption DEF BatchCreate
<1>3. ASSUME UNCHANGED <<row, wp, proc, passed, asked>> PROVE SiteInv'
  BY <1>0, <1>3 DEF SiteInv, PostInv, RowInv, JobInv, JobOK, PublishInv, PublishOK,
                    OnePostPerArticle, LiveOnPurpose
<1>4. QED
  BY <1>1, <1>2, <1>3 DEF Requests, BatchOpen, BatchSkip

\* The row learns the post its job made.
LEMMA RecordedSite ==
  ASSUME SiteInv, TypeOK', NEW a \in Articles, proc[a].pc = "record",
         DraftRecorded(a), UNCHANGED <<wp, passed, asked>>,
         \A x \in Callers \ {a} : proc'[x] = proc[x],
         JobOK(a)', PublishOK(a)'
  PROVE  SiteInv'
<1> USE DEF SiteInv, Callers
<1> DEFINE p == proc[a].post
<1>1. /\ row[a].post = NoPost /\ p # NoPost /\ wp[p].of = a
      /\ p \in Posts
  BY DEF JobInv, JobOK, TypeOK, Proc
<1>2. row'[a].post = p /\ row'[a].status = "draft" /\ row'[a].auto = row[a].auto
  BY DEF DraftRecorded, TypeOK, Row
<1>3. \A x \in Articles \ {a} : row'[x] = row[x]
  BY DEF DraftRecorded, TypeOK
<1>4. \A q \in Posts : wp[q].of = a => q = p
  BY <1>1, NamesAssumption DEF OnePostPerArticle
<1>5. PostInv' /\ OnePostPerArticle'
  BY DEF PostInv, OnePostPerArticle
<1>6. RowInv'
  BY <1>1, <1>2, <1>3 DEF RowInv
<1>7. LiveOnPurpose'
  <2>1. \A q \in Posts : wp[q].state = "published" => wp[q].of \in Articles
    BY NamesAssumption DEF PostInv, TypeOK, Post
  <2>2. QED
    BY <2>1, <1>2, <1>3, <1>4 DEF LiveOnPurpose
<1>8. JobInv'
  <2> SUFFICES ASSUME NEW x \in Articles, x # a PROVE JobOK(x)'
    BY DEF JobInv
  <2>1. QED
    BY <1>3 DEF JobInv, JobOK
<1>9. PublishInv'
  <2> SUFFICES ASSUME NEW x \in Callers, x # a PROVE PublishOK(x)'
    BY DEF PublishInv
  <2>1. PublishOK(x) /\ proc'[x] = proc[x]
    BY DEF PublishInv
  <2>2. proc[x].pc \in PublishPCs => proc[x].art \in Articles \ {a}
    BY <2>1, <1>1 DEF PublishOK
  <2>3. QED
    BY <2>1, <2>2, <1>3 DEF PublishOK
<1>10. QED
  BY <1>5, <1>6, <1>7, <1>8, <1>9

LEMMA JobSite == ASSUME SiteInv, NEW a \in Articles, JobStep(a) PROVE SiteInv'
<1>0. TypeOK /\ TypeOK' /\ a \in Callers
  BY JobType DEF SiteInv, Callers
<1>1. CASE AcquireSlot(a) \/ WriteContent(a) \/ StageFails(a)
  <2>1. /\ UNCHANGED <<row, wp, asked>> /\ passed \subseteq passed'
        /\ \A x \in Callers \ {a} : proc'[x] = proc[x]
    BY <1>0, <1>1 DEF AcquireSlot, WriteContent, StageFails, Goto, TypeOK
  <2>2. /\ proc[a].pc \in {"queued", "content", "draft"}
        /\ proc'[a].pc \in {"content", "draft", "fail"}
    BY <1>0, <1>1 DEF AcquireSlot, WriteContent, StageFails, Goto, At, TypeOK, Proc
  <2>3. \A p \in Posts : wp[p].of # a
    BY <2>2 DEF SiteInv, JobInv, JobOK
  <2>4. row[a].status # "none"
    BY <2>2, JobHasRow
  <2>5. JobOK(a)' /\ PublishOK(a)'
    BY <2>1, <2>2, <2>3, <2>4 DEF JobOK, PublishOK, PublishPCs
  <2>6. QED
    BY <1>0, <2>1, <2>5, ProcStep
<1>2. ASSUME NEW p \in Posts, NEW lost \in BOOLEAN, CreateDraft(a, p, lost)
      PROVE  SiteInv'
  BY <1>2, CreateDraftSite
<1>3. CASE UpdateDraft(a)
  <2>1. /\ UNCHANGED <<wp, passed, asked>> /\ proc[a].pc = "record"
        /\ \A x \in Callers \ {a} : proc'[x] = proc[x]
        /\ DraftRecorded(a)
    BY <1>0, <1>3 DEF UpdateDraft, At, TypeOK
  <2>2. \/ proc'[a] = Idle
        \/ proc'[a].pc = "get" /\ AutoPublishes(a)
    BY <1>0, <1>3 DEF UpdateDraft, TypeOK, Proc
  <2>3. row'[a].status = "draft" /\ row'[a].auto = row[a].auto
    BY <1>0, <2>1 DEF DraftRecorded, TypeOK, Row
  <2>4. JobOK(a)' /\ PublishOK(a)'
    BY <2>1, <2>2, <2>3 DEF JobOK, PublishOK, PublishPCs, Idle, AutoPublishes
  <2>5. QED
    BY <1>0, <2>1, <2>4, RecordedSite
<1>4. CASE UpdateDraftFails(a)
  <2>1. /\ UNCHANGED <<wp, passed, asked>> /\ proc[a].pc = "record"
        /\ \A x \in Callers \ {a} : proc'[x] = proc[x]
        /\ proc'[a].pc = "fail"
    BY <1>0, <1>4 DEF UpdateDraftFails, At, Goto, TypeOK, Proc
  <2>2. CASE UNCHANGED row
    <3>1. row'[a].status # "none"
      BY <2>1, <2>2, JobHasRow
    <3>2. JobOK(a)' /\ PublishOK(a)'
      BY <2>1, <3>1, FailOK
    <3>3. QED
      BY <1>0, <2>1, <2>2, <3>2, ProcStep
  <2>3. CASE DraftRecorded(a)
    <3>1. row'[a].status # "none"
      BY <1>0, <2>3 DEF DraftRecorded, TypeOK, Row
    <3>2. JobOK(a)' /\ PublishOK(a)'
      BY <2>1, <3>1, FailOK
    <3>3. QED
      BY <1>0, <2>1, <2>3, <3>2, RecordedSite
  <2>4. QED
    BY <1>4, <2>2, <2>3 DEF UpdateDraftFails
<1>5. CASE MarkFailed(a)
  <2>1. /\ UNCHANGED <<wp, passed, asked>> /\ proc[a].pc = "fail"
        /\ \A x \in Callers \ {a} : proc'[x] = proc[x]
        /\ proc'[a] = Idle
    BY <1>0, <1>5 DEF MarkFailed, At, TypeOK
  <2>2. row[a].status # "none"
    BY <2>1, JobHasRow
  <2>3. CASE UNCHANGED row
    <3>1. JobOK(a)' /\ PublishOK(a)'
      BY <1>0, <2>1, <2>2, <2>3, IdleOK
    <3>2. QED
      BY <1>0, <2>1, <2>3, <3>1, ProcStep
  <2>4. CASE row' = [row EXCEPT ![a].status = "failed"]
    <3>1. row'[a].status # "none"
      BY <1>0, <2>4 DEF TypeOK, Row
    <3>2. JobOK(a)' /\ PublishOK(a)'
      BY <1>0, <2>1, <3>1, IdleOK
    <3>3. QED
      BY <1>0, <2>1, <2>2, <2>4, <3>2, StatusStep
  <2>5. QED
    BY <1>5, <2>3, <2>4 DEF MarkFailed
<1>6. CASE AutoPublishRefused(a)
  <2>1. /\ UNCHANGED <<row, wp, passed, asked>> /\ proc[a].pc = "get"
        /\ \A x \in Callers \ {a} : proc'[x] = proc[x]
        /\ proc'[a].pc = "fail"
    BY <1>0, <1>6 DEF AutoPublishRefused, At, PublishEnds, Returned, TypeOK, Proc
  <2>2. row'[a].status # "none"
    BY <2>1, JobHasRow
  <2>3. JobOK(a)' /\ PublishOK(a)'
    BY <2>1, <2>2, FailOK
  <2>4. QED
    BY <1>0, <2>1, <2>3, ProcStep
<1>7. QED
  BY <1>1, <1>2, <1>3, <1>4, <1>5, <1>6 DEF JobStep

\* A publish call that has ended: an answered client, or a job about to fail.
LEMMA ReturnedOK ==
  ASSUME SiteInv, NEW c \in Callers, NEW ok \in BOOLEAN, PublishEnds(c, ok),
         proc[c].pc # "idle", UNCHANGED wp,
         c \in Articles => row'[c].status # "none"
  PROVE  /\ \A x \in Callers \ {c} : proc'[x] = proc[x]
         /\ c \in Articles => JobOK(c)'
         /\ PublishOK(c)'
<1> USE DEF SiteInv, TypeOK
<1>1. /\ \A x \in Callers \ {c} : proc'[x] = proc[x]
      /\ proc'[c] = Returned(c, ok)
  BY DEF PublishEnds
<1>2. CASE proc'[c] = Idle
  BY <1>1, <1>2, IdleOK
<1>3. CASE c \in Articles /\ proc'[c].pc = "fail"
  BY <1>1, <1>3, FailOK
<1>4. QED
  BY <1>1, <1>2, <1>3 DEF Returned, Proc

\* The article of a call under way has a post, and the call knows it.
LEMMA CallKnowsRow ==
  ASSUME SiteInv, NEW c \in Callers, proc[c].pc \in PublishPCs
  PROVE  /\ proc[c].art \in Articles
         /\ proc[c].post \in Posts
         /\ row[proc[c].art].post = proc[c].post
         /\ row[proc[c].art].status # "none"
         /\ wp[proc[c].post].of = proc[c].art
         /\ c \in Articles => row[c].status # "none"
<1> USE DEF SiteInv, TypeOK, PublishInv, PublishOK, RowInv, Proc
<1>1. /\ proc[c].art \in Articles
      /\ proc[c].post \in Posts
      /\ row[proc[c].art].post = proc[c].post
      /\ c \in Articles => proc[c].art = c
  OBVIOUS
<1>2. proc[c].post # NoPost
  OBVIOUS
<1>3. row[proc[c].art].status # "none" /\ wp[proc[c].post].of = proc[c].art
  BY <1>1, <1>2
<1>4. QED
  BY <1>1, <1>3

LEMMA MarkedSite ==
  ASSUME SiteInv, TypeOK', NEW c \in Callers, proc[c].pc = "mark",
         MarkedPublished(proc[c].art), UNCHANGED <<wp, passed, asked>>,
         \A x \in Callers \ {c} : proc'[x] = proc[x],
         c \in Articles => JobOK(c)', PublishOK(c)'
  PROVE  SiteInv'
<1> DEFINE a == proc[c].art
<1>1. a \in Articles /\ row[a].post \in Posts /\ row[a].status # "none"
  BY CallKnowsRow DEF PublishPCs
<1>2. row[a].post # NoPost /\ wp[row[a].post].state = "published"
  BY <1>1, NamesAssumption DEF SiteInv, PublishInv, PublishOK, PublishPCs
<1>3. row' = [row EXCEPT ![a].status = "published"]
  BY DEF MarkedPublished
<1> HIDE DEF a
<1>4. QED
  BY <1>1, <1>2, <1>3, StatusStep

LEMMA PublishPostSite ==
  ASSUME SiteInv, TypeOK', NEW c \in Callers, NEW lost \in BOOLEAN, PublishPost(c, lost)
  PROVE  SiteInv'
<1> USE DEF SiteInv
<1> DEFINE p == proc[c].post
<1>1. /\ proc[c].pc = "call" /\ UNCHANGED <<row, passed, asked>>
      /\ wp' = [wp EXCEPT ![p].state = "published"]
  BY DEF PublishPost, At
<1>2. /\ proc[c].art \in Articles /\ p \in Posts
      /\ row[proc[c].art].post = p /\ wp[p].of = proc[c].art
      /\ c \in Articles => row[c].status # "none"
  BY <1>1, CallKnowsRow DEF PublishPCs
<1>3. /\ wp'[p].state = "published"
      /\ \A q \in Posts : /\ wp'[q].of = wp[q].of
                          /\ q # p => wp'[q] = wp[q]
  BY <1>1, <1>2 DEF TypeOK, Post
<1>4. \A x \in Callers \ {c} : proc'[x] = proc[x]
  BY DEF PublishPost, PublishEnds, Goto, TypeOK
<1>5. PublishOK(c)
  BY DEF PublishInv
<1>6. \/ proc'[c] = Idle
      \/ c \in Articles /\ proc'[c].pc = "fail"
      \/ proc'[c] = [proc[c] EXCEPT !.pc = "mark"]
  <2>1. CASE PublishEnds(c, FALSE)
    <3>1. proc'[c] = Returned(c, FALSE) /\ proc[c] \in Proc
      BY <2>1 DEF PublishEnds, TypeOK
    <3>2. QED
      BY <3>1 DEF Returned, Proc
  <2>2. CASE Goto(c, "mark")
    BY <2>2 DEF Goto, TypeOK
  <2>3. QED
    BY <2>1, <2>2 DEF PublishPost
<1> HIDE DEF p
<1>7. OnePostPerArticle'
  BY <1>3 DEF OnePostPerArticle
<1>8. PostInv'
  BY <1>2, <1>3, NamesAssumption DEF PostInv
<1>9. RowInv'
  BY <1>1, <1>3 DEF RowInv, TypeOK, Row
<1>10. LiveOnPurpose'
  <2>1. \/ wp[p].of \in asked
        \/ row[wp[p].of].auto /\ wp[p].of \in passed
    BY <1>1, <1>2, <1>5 DEF PublishOK, PublishPCs
  <2>2. QED
    BY <1>1, <1>2, <1>3, <2>1 DEF LiveOnPurpose
<1>11. JobInv'
  <2> SUFFICES ASSUME NEW x \in Articles PROVE JobOK(x)'
    BY DEF JobInv
  <2>1. CASE x = c
    <3>1. row'[x].status # "none" /\ proc'[x].pc \in {"idle", "fail", "mark"}
      BY <1>1, <1>2, <1>6, <2>1 DEF Idle, TypeOK, Proc, Callers
    <3>2. QED
      BY <3>1 DEF JobOK
  <2>2. CASE x # c
    <3>1. JobOK(x) /\ proc'[x] = proc[x] /\ proc[x] \in Proc
      BY <1>4, <2>2 DEF JobInv, Callers, TypeOK
    <3>2. QED
      BY <1>1, <1>3, <3>1 DEF JobOK, Proc
  <2>3. QED
    BY <2>1, <2>2
<1>12. PublishInv'
  <2> SUFFICES ASSUME NEW x \in Callers PROVE PublishOK(x)'
    BY DEF PublishInv
  <2>1. CASE x # c
    <3>1. PublishOK(x) /\ proc'[x] = proc[x] /\ proc[x] \in Proc
      BY <1>4, <2>1 DEF PublishInv, TypeOK
    <3>2. QED
      BY <1>1, <1>3, <3>1 DEF PublishOK, Proc
  <2>2. CASE x = c /\ proc'[c].pc \in {"idle", "fail"}
    BY <2>2 DEF PublishOK, PublishPCs
  <2>3. CASE x = c /\ proc'[c] = [proc[c] EXCEPT !.pc = "mark"]
    <3>1. /\ proc'[c].pc = "mark" /\ proc'[c].art = proc[c].art
          /\ proc'[c].post = proc[c].post
      BY <2>3 DEF TypeOK, Proc
    <3>2. proc[c].pc \in PublishPCs
      BY <1>1 DEF PublishPCs
    <3>3. wp'[proc[c].post].state = "published"
      BY <1>3 DEF p
    <3>4. QED
      BY <1>1, <1>5, <2>3, <3>1, <3>2, <3>3 DEF PublishOK
  <2>4. QED
    BY <1>6, <2>1, <2>2, <2>3 DEF Idle
<1>13. QED
  BY <1>7, <1>8, <1>9, <1>10, <1>11, <1>12

LEMMA PublishSite == ASSUME SiteInv, NEW c \in Callers, PublishStep(c) PROVE SiteInv'
<1>0. TypeOK /\ TypeOK'
  BY PublishType DEF SiteInv
<1>1. ASSUME NEW a \in Articles, PublishGoes(c, a) PROVE SiteInv'
  <2>1. /\ UNCHANGED <<row, wp, passed>> /\ asked \subseteq asked'
        /\ \A x \in Callers \ {c} : proc'[x] = proc[x]
        /\ proc'[c] = [pc |-> "call", art |-> a, post |-> row[a].post]
        /\ row[a].post # NoPost /\ row[a].status = "draft"
        /\ \/ c \in Clients /\ asked' = asked \cup {a}
           \/ c = a /\ proc[a].pc = "get"
    BY <1>0, <1>1 DEF PublishGoes, Publishable, TypeOK
  <2>2. c \notin Clients => row[a].auto /\ a \in passed
    BY <2>1 DEF SiteInv, JobInv, JobOK
  <2>3. c \in Articles => c = a
    BY <2>1, NamesAssumption
  <2>4. PublishOK(c)'
    <3>1. /\ proc'[c].pc = "call" /\ proc'[c].art = a /\ proc'[c].post = row[a].post
          /\ row' = row /\ passed' = passed
      BY <2>1
    <3>2. a \in asked' \/ (row[a].auto /\ a \in passed)
      BY <2>1, <2>2, NamesAssumption
    <3>3. QED
      BY <2>1, <2>3, <3>1, <3>2 DEF PublishOK
  <2>5. c \in Articles => JobOK(c)'
    BY <2>1, <2>3 DEF JobOK
  <2>6. QED
    BY <1>0, <2>1, <2>4, <2>5, ProcStep
<1>2. ASSUME NEW lost \in BOOLEAN, PublishPost(c, lost) PROVE SiteInv'
  BY <1>0, <1>2, PublishPostSite
<1>3. CASE PublishPostFails(c) \/ RereadArticle(c)
  <2>1. /\ UNCHANGED <<row, wp, passed, asked>> /\ proc[c].pc \in PublishPCs
        /\ \E ok \in BOOLEAN : PublishEnds(c, ok)
    BY <1>3 DEF PublishPostFails, RereadArticle, At, PublishPCs
  <2>2. c \in Articles => row'[c].status # "none"
    BY <2>1, CallKnowsRow
  <2>3. QED
    BY <1>0, <2>1, <2>2, ReturnedOK, ProcStep DEF PublishPCs
<1>4. ASSUME proc[c].pc = "mark", UNCHANGED <<wp, passed, asked>>,
             UNCHANGED row, PublishEnds(c, FALSE)
      PROVE  SiteInv'
  <2>1. c \in Articles => row'[c].status # "none"
    BY <1>4, CallKnowsRow DEF PublishPCs
  <2>2. QED
    BY <1>0, <1>4, <2>1, ReturnedOK, ProcStep
<1>5. ASSUME proc[c].pc = "mark", UNCHANGED <<wp, passed, asked>>,
             MarkedPublished(proc[c].art), PublishEnds(c, FALSE)
      PROVE  SiteInv'
  <2>1. c \in Articles => row[c].status # "none" /\ c = proc[c].art
    BY <1>5, CallKnowsRow DEF PublishPCs, SiteInv, PublishInv, PublishOK
  <2>2. c \in Articles => row'[c].status # "none"
    BY <1>0, <1>5, <2>1 DEF MarkedPublished, TypeOK, Row
  <2>3. QED
    BY <1>0, <1>5, <2>2, ReturnedOK, MarkedSite
<1>6. ASSUME proc[c].pc = "mark", UNCHANGED <<wp, passed, asked>>,
             MarkedPublished(proc[c].art), Goto(c, "reread")
      PROVE  SiteInv'
  <2>1. /\ \A x \in Callers \ {c} : proc'[x] = proc[x]
        /\ proc'[c].pc = "reread" /\ proc'[c].art = proc[c].art
        /\ proc'[c].post = proc[c].post
    BY <1>0, <1>6 DEF Goto, TypeOK, Proc
  <2>2. PublishOK(c) /\ proc[c].pc \in PublishPCs
    BY <1>6 DEF SiteInv, PublishInv, PublishPCs
  <2>3. \A x \in Articles : row'[x].post = row[x].post /\ row'[x].auto = row[x].auto
    BY <1>0, <1>6 DEF MarkedPublished, TypeOK, Row
  <2>4. PublishOK(c)'
    BY <1>6, <2>1, <2>2, <2>3 DEF PublishOK
  <2>5. c \in Articles => JobOK(c)'
    <3>1. c \in Articles => row'[c].status # "none"
      BY <1>0, <1>6, <2>2 DEF PublishOK, MarkedPublished, TypeOK, Row
    <3>2. QED
      BY <2>1, <3>1 DEF JobOK
  <2>6. QED
    BY <1>0, <1>6, <2>1, <2>4, <2>5, MarkedSite
<1>7. CASE MarkPublished(c)
  BY <1>7, <1>4, <1>6 DEF MarkPublished, At
<1>8. CASE MarkPublishedFails(c)
  BY <1>8, <1>4, <1>5 DEF MarkPublishedFails, At
<1>9. QED
  BY <1>1, <1>2, <1>3, <1>7, <1>8 DEF PublishStep

LEMMA CrashBootSite == SiteInv /\ (Crash \/ Boot) => SiteInv'
<1> SUFFICES ASSUME SiteInv, Crash \/ Boot PROVE SiteInv'
  OBVIOUS
<1> USE DEF SiteInv
<1>0. TypeOK'
  BY CrashBootType
<1>1. CASE Crash
  <2>1. UNCHANGED <<row, wp, passed, asked>> /\ \A c \in Callers : proc'[c] = Idle
    BY <1>1 DEF Crash
  <2>2. PostInv' /\ RowInv' /\ OnePostPerArticle' /\ LiveOnPurpose'
    BY <2>1 DEF PostInv, RowInv, OnePostPerArticle, LiveOnPurpose
  <2>3. JobInv'
    BY <2>1 DEF JobInv, JobOK, Idle, Callers
  <2>4. PublishInv'
    BY <2>1 DEF PublishInv, PublishOK, PublishPCs, Idle
  <2>5. QED
    BY <1>0, <2>2, <2>3, <2>4
<1>2. CASE Boot
  <2>1. UNCHANGED <<wp, proc, passed, asked>>
    BY <1>2 DEF Boot
  <2>2. \A a \in Articles :
            /\ row'[a].post = row[a].post /\ row'[a].auto = row[a].auto
            /\ \/ row'[a].status = row[a].status
               \/ row[a].status = "generating" /\ row'[a].status = "failed"
    BY <1>2 DEF Boot, OrphansFailed, TypeOK, Row
  <2>3. PostInv' /\ OnePostPerArticle'
    BY <2>1 DEF PostInv, OnePostPerArticle
  <2>4. RowInv'
    BY <2>1, <2>2 DEF RowInv
  <2>5. LiveOnPurpose'
    <3>1. \A p \in Posts : wp[p].state = "published" => wp[p].of \in Articles
      BY NamesAssumption DEF PostInv, TypeOK, Post
    <3>2. QED
      BY <2>1, <2>2, <3>1 DEF LiveOnPurpose
  <2>6. JobInv'
    BY <2>1, <2>2 DEF JobInv, JobOK
  <2>7. PublishInv'
    BY <2>1, <2>2 DEF PublishInv, PublishOK
  <2>8. QED
    BY <1>0, <2>3, <2>4, <2>5, <2>6, <2>7
<1>3. QED
  BY <1>1, <1>2

LEMMA NextSite == SiteInv /\ [Next]_vars => SiteInv'
<1> SUFFICES ASSUME SiteInv, [Next]_vars PROVE SiteInv'
  OBVIOUS
<1>1. CASE UNCHANGED vars
  BY <1>1 DEF vars, SiteInv, TypeOK, PostInv, RowInv, JobInv, JobOK, PublishInv,
              PublishOK, OnePostPerArticle, LiveOnPurpose
<1>2. CASE Next
  BY <1>2, RequestsSite, JobSite, PublishSite, CrashBootSite DEF Next
<1>3. QED
  BY <1>1, <1>2

THEOREM SiteCorrect == Spec => []SiteInv
  BY InitSite, NextSite, PTL DEF Spec

\* A draft or published row names its own post, and a published one a live
\* post, under every interleaving, lost answer and crash.
THEOREM RowsMatchSite == Spec => []RowMatchesSite
<1>1. SiteInv => RowMatchesSite
  BY DEF SiteInv, RowInv, RowMatchesSite
<1>2. QED
  BY <1>1, SiteCorrect, PTL

\* No article is ever given a second post.
THEOREM NoSecondPost == Spec => []OnePostPerArticle
<1>1. SiteInv => OnePostPerArticle
  BY DEF SiteInv
<1>2. QED
  BY <1>1, SiteCorrect, PTL

\* Nothing goes live by accident.
THEOREM LiveOnlyOnPurpose == Spec => []LiveOnPurpose
<1>1. SiteInv => LiveOnPurpose
  BY DEF SiteInv
<1>2. QED
  BY <1>1, SiteCorrect, PTL

-----------------------------------------------------------------------------
(* Without auto-publish and without writes that are applied and yet reported *)
(* as failed, a publish is final.                                            *)

LEMMA InitManual == Init => ManualInv
<1> SUFFICES ASSUME Init PROVE ManualInv
  OBVIOUS
<1>1. \A a \in Articles : row[a] = NoRow /\ wins[a] = 0 /\ proc[a] = Idle
  BY DEF Init, Callers
<1>2. up
  BY DEF Init
<1>3. QED
  BY <1>1, <1>2 DEF ManualInv, ManualOK, NoRow, Idle, PublishPCs, JobPCs

\* A step of a running process that leaves every other article's row and job
\* alone need only look at one article.
LEMMA ManualStep ==
  ASSUME ManualInv, up', NEW a \in Articles, ManualOK(a)',
         \A x \in Articles \ {a} :
            row'[x] = row[x] /\ proc'[x] = proc[x] /\ wins'[x] = wins[x]
  PROVE  ManualInv'
<1>1. ASSUME NEW x \in Articles \ {a} PROVE ManualOK(x)'
  BY <1>1 DEF ManualInv, ManualOK
<1>2. QED
  BY <1>1 DEF ManualInv

LEMMA ManualSame ==
  ASSUME ManualInv, up', UNCHANGED <<row, wins>>,
         \A x \in Articles : proc'[x] = proc[x]
  PROVE  ManualInv'
  BY DEF ManualInv, ManualOK

LEMMA ManualCreate ==
  ASSUME ManualInv, TypeOK, up', NEW a \in Articles, NEW t \in Topics,
         CreateArticle(a, t, FALSE), UNCHANGED wins
  PROVE  ManualInv'
<1> USE DEF TypeOK, Callers
<1>1. /\ row'[a].status = "generating" /\ ~row'[a].auto /\ row[a].status = "none"
      /\ proc'[a].pc = "queued"
  BY DEF CreateArticle
<1>2. \A x \in Articles \ {a} : row'[x] = row[x] /\ proc'[x] = proc[x]
  BY DEF CreateArticle
<1>3. wins'[a] = 0
  BY <1>1 DEF ManualInv, ManualOK
<1>4. ManualOK(a)'
  BY <1>1, <1>3 DEF ManualOK, PublishPCs
<1>5. QED
  BY <1>2, <1>4, ManualStep

LEMMA ManualRequests ==
  ASSUME ManualOnly, ManualInv, TypeOK, Requests PROVE ManualInv'
<1>1. ASSUME NEW a \in Articles, NEW t \in DirectTopics, NEW auto \in AutoChoices,
             Generate(a, t, auto)
      PROVE  ManualInv'
  <2>1. auto = FALSE /\ t \in Topics
    BY BoundsAssumption DEF ManualOnly
  <2>2. QED
    BY <1>1, <2>1, ManualCreate DEF Generate
<1>2. ASSUME NEW b \in Batches, NEW t \in Topics, NEW a \in Articles,
             NEW auto \in AutoChoices, BatchCreate(b, t, a, auto)
      PROVE  ManualInv'
  <2>1. auto = FALSE
    BY BoundsAssumption DEF ManualOnly
  <2>2. QED
    BY <1>2, <2>1, ManualCreate DEF BatchCreate
<1>3. ASSUME up', UNCHANGED <<row, proc, wins>> PROVE ManualInv'
  BY <1>3, ManualSame
<1>4. QED
  BY <1>1, <1>2, <1>3 DEF Requests, BatchOpen, BatchSkip

\* In every step of a job its article is "generating" before it.
LEMMA ManualJob ==
  ASSUME ManualOnly, ManualInv, TypeOK, NEW a \in Articles, JobStep(a)
  PROVE  /\ ManualInv'
         /\ row[a].status # "published"
         /\ \A x \in Articles \ {a} : row'[x] = row[x]
<1> USE DEF TypeOK, Callers
<1>0. ManualOK(a)
  BY DEF ManualInv
<1>1. /\ up' /\ wins' = wins
      /\ \A x \in Articles \ {a} : row'[x] = row[x] /\ proc'[x] = proc[x]
  BY DEF JobStep, AcquireSlot, WriteContent, StageFails, CreateDraft, UpdateDraft,
         UpdateDraftFails, MarkFailed, AutoPublishRefused, PublishEnds, Goto, At,
         DraftRecorded
<1>2. proc[a].pc \in JobPCs
  BY DEF JobStep, AcquireSlot, WriteContent, StageFails, CreateDraft, UpdateDraft,
         UpdateDraftFails, MarkFailed, AutoPublishRefused, At, JobPCs
<1>3. row[a].status = "generating" /\ wins[a] = 0 /\ ~row[a].auto /\ proc[a].pc # "get"
  BY <1>0, <1>2 DEF ManualOK
<1>a. Idle.pc = "idle"
  BY DEF Idle
<1> DEFINE GoesOn == row' = row /\ proc'[a].pc \in {"content", "draft", "record", "fail"}
           Ends == /\ row'[a].status \in {"generating", "draft", "failed"}
                   /\ row'[a].auto = row[a].auto
                   /\ proc'[a].pc = "idle"
<1>4. ASSUME AcquireSlot(a) \/ WriteContent(a) \/ StageFails(a)
      PROVE  GoesOn
  <2>1. GoesOn
    BY <1>4 DEF AcquireSlot, WriteContent, StageFails, Goto, Proc
  <2>2. QED
    BY <2>1
<1>5. ASSUME NEW p \in Posts, NEW lost \in BOOLEAN, CreateDraft(a, p, lost)
      PROVE  GoesOn
  <2>1. proc'[a].pc \in {"fail", "record"}
    BY <1>5 DEF CreateDraft, DraftAnswered, Proc
  <2>2. row' = row
    BY <1>5 DEF CreateDraft
  <2>3. QED
    BY <2>1, <2>2
<1>6. ASSUME UpdateDraft(a) PROVE Ends
  <2>1. proc'[a] = Idle
    BY <1>3, <1>6 DEF UpdateDraft, AutoPublishes
  <2>2. row'[a].status = "draft" /\ row'[a].auto = row[a].auto
    BY <1>6 DEF UpdateDraft, DraftRecorded, Row
  <2>3. QED
    BY <1>a, <2>1, <2>2
<1>7. ASSUME UpdateDraftFails(a) PROVE GoesOn
  <2>1. row' = row
    BY <1>7 DEF UpdateDraftFails, ManualOnly
  <2>2. proc'[a].pc = "fail"
    BY <1>7 DEF UpdateDraftFails, Goto, Proc
  <2>3. QED
    BY <2>1, <2>2
<1>8. ASSUME MarkFailed(a) PROVE Ends
  <2>1. proc'[a] = Idle
    BY <1>8 DEF MarkFailed
  <2>2. row'[a].status \in {"generating", "failed"} /\ row'[a].auto = row[a].auto
    BY <1>3, <1>8 DEF MarkFailed, Row
  <2>3. QED
    BY <1>a, <2>1, <2>2
<1>9. GoesOn \/ Ends
  <2> HIDE DEF GoesOn, Ends
  <2>1. QED
    BY <1>3, <1>4, <1>5, <1>6, <1>7, <1>8 DEF JobStep, AutoPublishRefused, At
<1>10. ASSUME GoesOn PROVE ManualOK(a)'
  BY <1>1, <1>3, <1>10 DEF ManualOK, PublishPCs
<1>11. ASSUME Ends PROVE ManualOK(a)'
  BY <1>1, <1>3, <1>11 DEF ManualOK, PublishPCs, JobPCs
<1>12. ManualOK(a)'
  <2> HIDE DEF GoesOn, Ends
  <2>1. QED
    BY <1>9, <1>10, <1>11
<1>13. ManualInv'
  BY <1>1, <1>12, ManualStep
<1>14. QED
  BY <1>1, <1>3, <1>13

\* Only a client publishes, and it changes a row only if that row is not yet
\* published; the article has a post, so its job is over.
LEMMA ManualPublish ==
  ASSUME ManualOnly, ManualInv, SiteInv, NEW c \in Callers, PublishStep(c)
  PROVE  /\ ManualInv'
         /\ \A x \in Articles : row[x].status = "published" => row'[x] = row[x]
<1>0. TypeOK
  BY DEF SiteInv
<1>1. up' /\ \A x \in Callers \ {c} : proc'[x] = proc[x]
  BY <1>0 DEF PublishStep, PublishGoes, PublishPost, PublishPostFails, MarkPublished,
              MarkPublishedFails, RereadArticle, PublishEnds, Goto, At, TypeOK
<1>2. c \notin Articles
  <2>1. c \in Articles => proc[c].pc \notin PublishPCs \cup {"get"}
    BY DEF ManualInv, ManualOK
  <2>2. QED
    BY <2>1, NamesAssumption
    DEF PublishStep, PublishGoes, PublishPost, PublishPostFails, MarkPublished,
        MarkPublishedFails, RereadArticle, At, PublishPCs
<1>3. \A x \in Articles : proc'[x] = proc[x]
  BY <1>1, <1>2 DEF Callers
<1>4. CASE UNCHANGED <<row, wins>>
  BY <1>1, <1>3, <1>4, ManualSame
<1>5. CASE /\ proc[c].pc = "mark" /\ Claims(proc[c].art)
           /\ MarkedPublished(proc[c].art)
  <2>0. PICK a \in Articles : a = proc[c].art /\ row[a].post \in Posts
    BY <1>5, CallKnowsRow DEF PublishPCs
  <2>1. row[a].post \in Posts /\ Claims(a) /\ MarkedPublished(a)
    BY <1>5, <2>0
  <2>2. row[a].status # "generating"
    BY <2>1, NamesAssumption DEF SiteInv, RowInv
  <2>3. /\ row'[a].status = "published" /\ row'[a].auto = row[a].auto
        /\ wins'[a] = wins[a] + 1 /\ row[a].status # "published"
    BY <1>0, <2>1 DEF MarkedPublished, Claims, TypeOK, Row
  <2>4. \A x \in Articles \ {a} : row'[x] = row[x] /\ wins'[x] = wins[x]
    BY <1>0, <2>1 DEF MarkedPublished, TypeOK
  <2>5. ManualOK(a)
    BY DEF ManualInv
  <2>6. ManualOK(a)'
    <3>1. proc'[a] = proc[a]
      BY <1>3
    <3>2. wins[a] = 0 /\ proc[a].pc \notin JobPCs /\ ~row[a].auto
      BY <2>2, <2>3, <2>5 DEF ManualOK
    <3>3. wins'[a] = 1
      BY <2>3, <3>2
    <3>4. proc'[a].pc \notin PublishPCs \cup {"get"} \cup JobPCs
      BY <2>5, <3>1, <3>2 DEF ManualOK
    <3>5. ~row'[a].auto
      BY <2>3, <3>2
    <3>6. QED
      BY <2>3, <3>3, <3>4, <3>5 DEF ManualOK
  <2>7. QED
    <3>1. \A x \in Articles : row[x].status = "published" => row'[x] = row[x]
      BY <2>3, <2>4
    <3>2. \A x \in Articles \ {a} :
             row'[x] = row[x] /\ wins'[x] = wins[x] /\ proc'[x] = proc[x]
      BY <1>3, <2>4
    <3>3. ManualInv'
      BY <1>1, <2>6, <3>2, ManualStep
    <3>4. QED
      BY <3>1, <3>3
<1>6. QED
  BY <1>4, <1>5 DEF PublishStep, PublishGoes, PublishPost, PublishPostFails,
     MarkPublished, MarkPublishedFails, RereadArticle, ManualOnly, At

LEMMA ManualCrashBoot ==
  ASSUME ManualInv, TypeOK, Crash \/ Boot
  PROVE  /\ ManualInv'
         /\ \A x \in Articles : row[x].status = "published" => row'[x] = row[x]
<1>1. CASE Crash
  <2>1. UNCHANGED <<row, wins>> /\ \A c \in Callers : proc'[c] = Idle
    BY <1>1 DEF Crash
  <2>2. QED
    BY <2>1 DEF ManualInv, ManualOK, Idle, PublishPCs, JobPCs, Callers
<1>2. CASE Boot
  <2>1. /\ up' /\ UNCHANGED <<proc, wins>> /\ \A c \in Callers : proc[c] = Idle
    BY <1>2, Zenon DEF Boot, ManualInv
  <2>2. \A a \in Articles :
            /\ row'[a].auto = row[a].auto
            /\ \/ row'[a] = row[a]
               \/ row[a].status = "generating" /\ row'[a].status = "failed"
    BY <1>2 DEF Boot, OrphansFailed, TypeOK, Row
  <2>3. ASSUME NEW a \in Articles PROVE ManualOK(a)'
    BY <2>1, <2>2 DEF ManualInv, ManualOK, Idle, PublishPCs, JobPCs, Callers
  <2>4. QED
    BY <2>1, <2>2, <2>3 DEF ManualInv
<1>3. QED
  BY <1>1, <1>2

\* A request only writes rows that do not exist yet.
LEMMA RequestsKeepRows ==
  ASSUME TypeOK, Requests, NEW x \in Articles, row[x].status # "none"
  PROVE  row'[x] = row[x]
  BY DEF Requests, Generate, BatchOpen, BatchCreate, BatchSkip, CreateArticle, TypeOK

LEMMA ManualNext ==
  ASSUME ManualOnly, ManualInv, SiteInv, [Next]_vars
  PROVE  /\ ManualInv'
         /\ \A a \in Articles : row[a].status = "published" => row'[a] = row[a]
<1>0. TypeOK
  BY DEF SiteInv
<1>1. CASE UNCHANGED vars
  BY <1>1 DEF vars, ManualInv, ManualOK
<1>2. CASE Requests
  BY <1>0, <1>2, ManualRequests, RequestsKeepRows
<1>3. ASSUME NEW a \in Articles, JobStep(a)
      PROVE  /\ ManualInv'
             /\ \A x \in Articles : row[x].status = "published" => row'[x] = row[x]
  BY <1>0, <1>3, ManualJob
<1>4. ASSUME NEW c \in Callers, PublishStep(c)
      PROVE  /\ ManualInv'
             /\ \A x \in Articles : row[x].status = "published" => row'[x] = row[x]
  BY <1>4, ManualPublish
<1>5. CASE Crash \/ Boot
  BY <1>0, <1>5, ManualCrashBoot
<1>6. QED
  BY <1>1, <1>2, <1>3, <1>4, <1>5 DEF Next

\* Where no request carries auto_publish and no write is applied behind a
\* reported error, a published row never changes again.
THEOREM ManualPublishIsFinal == ManualOnly => (Spec => PublishedIsFinal)
<1> SUFFICES ASSUME ManualOnly PROVE Spec => PublishedIsFinal
  OBVIOUS
<1>1. ManualInv /\ SiteInv /\ [Next]_vars => ManualInv'
  BY ManualNext
<1>2. ManualInv /\ SiteInv /\ [Next]_vars =>
        [\A a \in Articles : row[a].status = "published" => row'[a] = row[a]]_vars
  BY ManualNext
<1>3. QED
  BY <1>1, <1>2, InitManual, SiteCorrect, PTL DEF Spec, PublishedIsFinal

\* There, a row is marked published at most once however many clients race.
THEOREM ManualPublishWinsOnce == ManualOnly => (Spec => []SingleWinner)
<1> SUFFICES ASSUME ManualOnly PROVE Spec => []SingleWinner
  OBVIOUS
<1>1. ManualInv /\ SiteInv /\ [Next]_vars => ManualInv'
  BY ManualNext
<1>2. ManualInv => SingleWinner
  BY DEF ManualInv, ManualOK, SingleWinner
<1>3. QED
  BY <1>1, <1>2, InitManual, SiteCorrect, PTL DEF Spec

-----------------------------------------------------------------------------
(* One batch request at a time creates all articles.                       *)

LEMMA InitTopic == Init => TopicInv
<1> SUFFICES ASSUME Init PROVE TopicInv
  OBVIOUS
<1>1. \A a \in Articles : row[a].status = "none"
  BY DEF Init, NoRow
<1>2. QED
  BY <1>1 DEF Init, TopicInv, OneArticlePerTopic, Alive, NoWork

\* A step that brings no row to life keeps the topics apart.
LEMMA TopicStep ==
  ASSUME TypeOK, TopicInv,
         \A a \in Articles : /\ row'[a].topic = row[a].topic
                             /\ row'[a].status \in Statuses
                             /\ Alive(row'[a].status) => Alive(row[a].status)
                             /\ row'[a].status = "failed" => row'[a].post = NoPost,
         \A b \in Batches : batch'[b].todo \subseteq batch[b].todo
  PROVE  TopicInv'
<1>1. OneArticlePerTopic'
  BY DEF TopicInv, OneArticlePerTopic, Alive, TypeOK, Row, Statuses
<1>2. QED
  BY <1>1 DEF TopicInv

\* The batch takes the topics that are not used.
LEMMA BatchOpenTopic ==
  ASSUME TypeOK, TopicInv, NEW b \in Batches, BatchOpen(b) PROVE TopicInv'
<1>1. row' = row /\ batch'[b].todo = Topics \ GeneratedKeywords
      /\ \A c \in Batches \ {b} : batch'[c] = batch[c]
  BY DEF BatchOpen, TypeOK
<1>2. \A c \in Batches : \A t \in batch'[c].todo :
         \A a \in Articles : Alive(row[a].status) => row[a].topic # t
  BY <1>1 DEF TopicInv, GeneratedKeywords
<1>3. OneArticlePerTopic'
  BY <1>1 DEF TopicInv, OneArticlePerTopic
<1>4. QED
  BY <1>1, <1>2, <1>3 DEF TopicInv

\* The topic of a new article leaves the list of the only batch.
LEMMA BatchCreateTopic ==
  ASSUME OneBatch, TypeOK, TopicInv, NEW b \in Batches, NEW t \in Topics,
         NEW x \in Articles, NEW auto \in BOOLEAN, BatchCreate(b, t, x, auto)
  PROVE  TopicInv'
<1>1. /\ t \in batch[b].todo /\ batch'[b].todo = batch[b].todo \ {t}
      /\ row'[x].status = "generating" /\ row'[x].topic = t
      /\ \A a \in Articles \ {x} : row'[a] = row[a]
  BY DEF BatchCreate, CreateArticle, TypeOK
<1>2. \A c \in Batches : c = b
  BY DEF OneBatch
<1>3. \A a \in Articles : Alive(row[a].status) => row[a].topic # t
  BY <1>1 DEF TopicInv
<1>4. OneArticlePerTopic'
  <2> SUFFICES ASSUME NEW a \in Articles, NEW c \in Articles,
                      row'[a].topic = row'[c].topic,
                      {row'[a].status, row'[c].status} \cap {"none", "failed"} = {}
               PROVE  a = c
    BY DEF OneArticlePerTopic
  <2>0. row'[a].status \notin {"none", "failed"} /\ row'[c].status \notin {"none", "failed"}
    OBVIOUS
  <2>1. \A d \in {a, c} \ {x} : row'[d] = row[d] /\ Alive(row[d].status)
    <3>1. \A d \in {a, c} \ {x} : row'[d] = row[d] /\ row[d].status \in Statuses
      BY <1>1 DEF TypeOK, Row
    <3>2. QED
      BY <2>0, <3>1 DEF Statuses, Alive
  <2>2. x \in {a, c} => a = c
    BY <1>1, <1>3, <2>1
  <2>3. x \notin {a, c} => a = c
    BY <1>1 DEF TopicInv, OneArticlePerTopic
  <2>4. QED
    BY <2>2, <2>3
<1>5. \A d \in batch'[b].todo : \A a \in Articles :
         Alive(row'[a].status) => row'[a].topic # d
  BY <1>1 DEF TopicInv
<1>6. QED
  BY <1>1, <1>2, <1>4, <1>5 DEF TopicInv

\* What a job does to its row: a row that is being generated becomes a draft, or
\* fails without a post.
LEMMA JobTopic ==
  ASSUME ManualOnly, ManualInv, SiteInv, TopicInv, NEW a \in Articles, JobStep(a)
  PROVE  TopicInv'
<1>1. TypeOK /\ TypeOK'
  BY JobSite DEF SiteInv
<1>3. row[a].status = "generating" /\ row[a].post = NoPost
  <2>1. proc[a].pc \in JobPCs
    BY DEF JobStep, AcquireSlot, WriteContent, StageFails, CreateDraft, UpdateDraft,
           UpdateDraftFails, MarkFailed, AutoPublishRefused, At, JobPCs
  <2>2. row[a].status = "generating"
    BY <2>1 DEF ManualInv, ManualOK
  <2>3. QED
    BY <2>2 DEF SiteInv, RowInv
<1>4. batch' = batch
  BY DEF JobStep, AcquireSlot, WriteContent, StageFails, CreateDraft, UpdateDraft,
         UpdateDraftFails, MarkFailed, AutoPublishRefused
<1>5. \/ row' = row
      \/ row' = [row EXCEPT ![a] = [@ EXCEPT !.status = "draft", !.post = proc[a].post]]
      \/ row' = [row EXCEPT ![a].status = "failed"]
  BY DEF JobStep, AcquireSlot, WriteContent, StageFails, CreateDraft, UpdateDraft,
         UpdateDraftFails, MarkFailed, AutoPublishRefused, DraftRecorded
<1>6. \A x \in Articles : /\ row'[x].topic = row[x].topic
                          /\ Alive(row'[x].status) => Alive(row[x].status)
                          /\ row'[x].status = "failed" => row'[x].post = NoPost
  <2>1. Alive(row[a].status)
    BY <1>3 DEF Alive
  <2>2. \A x \in Articles \ {a} : row'[x] = row[x]
    BY <1>1, <1>5 DEF TypeOK
  <2>3. /\ row'[a].topic = row[a].topic
        /\ row'[a].status = "failed" => row'[a].post = NoPost
    <3>1. row \in [Articles -> Row] /\ row[a] \in Row
      BY <1>1 DEF TypeOK
    <3>2. CASE row' = row
      BY <1>3, <3>2
    <3>3. CASE row' = [row EXCEPT ![a] = [@ EXCEPT !.status = "draft", !.post = proc[a].post]]
      <4>1. row'[a] = [row[a] EXCEPT !.status = "draft", !.post = proc[a].post]
        BY <3>1, <3>3
      <4>2. QED
        BY <3>1, <4>1 DEF Row
    <3>4. CASE row' = [row EXCEPT ![a].status = "failed"]
      <4>1. row'[a] = [row[a] EXCEPT !.status = "failed"]
        BY <3>1, <3>4
      <4>2. QED
        BY <1>3, <3>1, <4>1 DEF Row
    <3>5. QED
      BY <1>5, <3>2, <3>3, <3>4
  <2>4. \A x \in Articles : row[x].status = "failed" => row[x].post = NoPost
    BY DEF TopicInv
  <2>5. SUFFICES ASSUME NEW x \in Articles
                 PROVE  /\ row'[x].topic = row[x].topic
                        /\ Alive(row'[x].status) => Alive(row[x].status)
                        /\ row'[x].status = "failed" => row'[x].post = NoPost
    OBVIOUS
  <2>6. CASE x = a
    BY <2>1, <2>3, <2>6
  <2>7. CASE x # a
    BY <2>2, <2>4, <2>7
  <2>8. QED
    BY <2>6, <2>7
<1>7. QED
  BY <1>1, <1>4, <1>6, TopicStep DEF TypeOK, Row

\* A call that publishes finds a row that is not failed.
LEMMA PublishTopic ==
  ASSUME SiteInv, TopicInv, NEW c \in Callers, PublishStep(c)
  PROVE  TopicInv'
<1>1. TypeOK /\ TypeOK'
  BY PublishSite DEF SiteInv
<1>2. batch' = batch
  BY DEF PublishStep, PublishGoes, PublishPost, PublishPostFails, MarkPublished,
         MarkPublishedFails, RereadArticle
<1>3. CASE row' = row
  BY <1>1, <1>2, <1>3, TopicStep DEF TopicInv, TypeOK, Row
<1>4. CASE proc[c].pc = "mark" /\ MarkedPublished(proc[c].art)
  <2>0. PICK a \in Articles : a = proc[c].art /\ row[a].post \in Posts
    BY <1>4, CallKnowsRow DEF PublishPCs
  <2>1. Alive(row[a].status)
    <3>1. row[a].post # NoPost
      BY <2>0, NamesAssumption
    <3>2. QED
      BY <1>1, <3>1 DEF SiteInv, RowInv, TopicInv, Alive, TypeOK, Row, Statuses
  <2>2. row' = [row EXCEPT ![a].status = "published"]
    BY <1>4, <2>0 DEF MarkedPublished
  <2>3. \A x \in Articles : /\ row'[x].topic = row[x].topic
                            /\ Alive(row'[x].status) => Alive(row[x].status)
                            /\ row'[x].status = "failed" => row'[x].post = NoPost
    BY <1>1, <2>1, <2>2 DEF TypeOK, Row, Alive, TopicInv
  <2>4. QED
    BY <1>1, <1>2, <2>3, TopicStep DEF TypeOK, Row
<1>5. QED
  BY <1>3, <1>4 DEF PublishStep, PublishGoes, PublishPost, PublishPostFails,
     MarkPublished, MarkPublishedFails, RereadArticle, At

LEMMA TopicNext ==
  ASSUME OneBatch, ManualInv, SiteInv, TopicInv, [Next]_vars PROVE TopicInv'
<1>0. TypeOK /\ TypeOK'
  BY NextSite DEF SiteInv
<1>1. CASE UNCHANGED vars
  BY <1>1 DEF vars, TopicInv, OneArticlePerTopic
<1>2. CASE Requests
  <2>1. ASSUME NEW b \in Batches, NEW t \in Topics, NEW a \in Articles,
               NEW auto \in AutoChoices, BatchCreate(b, t, a, auto)
        PROVE  TopicInv'
    BY <1>0, <2>1, BatchCreateTopic, BoundsAssumption
  <2>2. ASSUME NEW b \in Batches, NEW t \in Topics, BatchSkip(b, t) PROVE TopicInv'
    BY <1>0, <2>2, TopicStep DEF BatchSkip, TopicInv, TypeOK, Row
  <2>3. QED
    BY <1>0, <1>2, <2>1, <2>2, BatchOpenTopic DEF Requests, OneBatch
<1>3. ASSUME NEW a \in Articles, JobStep(a) PROVE TopicInv'
  BY <1>3, JobTopic DEF OneBatch
<1>4. ASSUME NEW c \in Callers, PublishStep(c) PROVE TopicInv'
  BY <1>4, PublishTopic
<1>5. CASE Crash
  BY <1>5, <1>0 DEF Crash, TopicInv, OneArticlePerTopic, NoWork
<1>6. CASE Boot
  <2>1. \A a \in Articles :
            \/ row'[a] = row[a]
            \/ row[a].status = "generating" /\ row'[a] = [row[a] EXCEPT !.status = "failed"]
    BY <1>6 DEF Boot, OrphansFailed
  <2>2. \A a \in Articles : row[a].status = "generating" => row[a].post = NoPost
    BY DEF SiteInv, RowInv
  <2>3. \A x \in Articles : /\ row'[x].topic = row[x].topic
                            /\ Alive(row'[x].status) => Alive(row[x].status)
                            /\ row'[x].status = "failed" => row'[x].post = NoPost
    BY <1>0, <2>1, <2>2 DEF TypeOK, Row, Alive, TopicInv
  <2>4. batch' = batch
    BY <1>6 DEF Boot
  <2>5. QED
    BY <1>0, <2>3, <2>4, TopicStep DEF TypeOK, Row
<1>7. QED
  BY <1>1, <1>2, <1>3, <1>4, <1>5, <1>6 DEF Next

\* Where one batch request at a time creates the articles and none publishes by
\* itself, no two that are not failed are about one topic (GenerateBatch reads the
\* topics in use once, up front).
THEOREM BatchRepeatsNoTopic == OneBatch => (Spec => []OneArticlePerTopic)
<1> SUFFICES ASSUME OneBatch PROVE Spec => []OneArticlePerTopic
  OBVIOUS
<1>1. ManualInv /\ SiteInv /\ [Next]_vars => ManualInv'
  BY ManualNext DEF OneBatch
<1>2. TopicInv /\ ManualInv /\ SiteInv /\ [Next]_vars => TopicInv'
  BY TopicNext
<1>3. TopicInv => OneArticlePerTopic
  BY DEF TopicInv
<1>4. QED
  BY <1>1, <1>2, <1>3, InitManual, InitTopic, SiteCorrect, PTL DEF Spec

-----------------------------------------------------------------------------
(* The pipeline.                                                           *)

\* The states that start a behaviour are those of the lifecycle.
LEMMA PInitIsInit == PInit => Init
  BY DEF PInit

\* A step of a job is a step of the lifecycle.
LEMMA JobIsNext == ASSUME NEW a \in Articles, JobStep(a) PROVE Next
  <1>1. UNCHANGED <<up, crashes>>
    BY DEF JobStep, AcquireSlot, WriteContent, StageFails, CreateDraft, UpdateDraft,
           UpdateDraftFails, MarkFailed, AutoPublishRefused
  <1> QED
    BY <1>1 DEF Next

\* A step of a call that publishes is a step of the lifecycle.
LEMMA PublishIsNext == ASSUME NEW c \in Callers, PublishStep(c) PROVE Next
  <1>1. UNCHANGED <<up, crashes>>
    BY DEF PublishStep, PublishGoes, PublishPost, PublishPostFails, MarkPublished,
           MarkPublishedFails, RereadArticle
  <1> QED
    BY <1>1 DEF Next

\* A step that asks for an article.
LEMMA AsksRefine == Asks => Next
  <1> SUFFICES ASSUME Asks PROVE Next
    OBVIOUS
  <1>1. PICK a \in Articles, t \in DirectTopics, auto \in AutoChoices : Generate(a, t, auto)
    BY DEF Asks
  <1> QED
    BY <1>1 DEF Next, Requests

\* Drafting is done by the article's own job.
LEMMA DraftingRefines == Drafting => Next
  <1> SUFFICES ASSUME Drafting PROVE Next
    OBVIOUS
  <1>1. PICK a \in Articles :
           (\E p \in Posts, lost \in BOOLEAN : CreateDraft(a, p, lost)) \/ MarkFailed(a)
    BY DEF Drafting
  <1>2. JobStep(a)
    BY <1>1 DEF JobStep
  <1> QED
    BY <1>2, JobIsNext

\* Publishing, and the boot.
LEMMA PublishingRefines == Publishing => Next
  <1> SUFFICES ASSUME Publishing PROVE Next
    OBVIOUS
  <1>1. CASE \E a \in Articles : UpdateDraftFails(a) \/ AutoPublishRefused(a)
    BY <1>1, JobIsNext DEF JobStep
  <1>2. CASE \E c \in Callers : PublishStep(c) \/ MarkPublishedFails(c)
    BY <1>2, PublishIsNext DEF PublishStep
  <1>3. CASE Boot
    BY <1>3 DEF Next
  <1> QED
    BY <1>1, <1>2, <1>3 DEF Publishing

\* A stage of a job takes its slot, ends the text, records the draft, fails, or
\* touches nothing the lifecycle knows of.
LEMMA WorkRefines ==
  ASSUME NEW a \in Articles, WorkStep(a)
  PROVE  Next \/ UNCHANGED vars
  <1>1. CASE \E n \in AskedCycles : StartWork(a, n)
    <2>1. AcquireSlot(a)
      BY <1>1 DEF StartWork
    <2> QED
      BY <2>1, JobIsNext DEF JobStep
  <1>2. CASE \E shape \in Shapes : Finish(a, shape)
    <2>1. WriteContent(a)
      BY <1>2 DEF Finish
    <2> QED
      BY <2>1, JobIsNext DEF JobStep
  <1>3. CASE RecordDraft(a)
    <2>1. UpdateDraft(a)
      BY <1>3 DEF RecordDraft
    <2> QED
      BY <2>1, JobIsNext DEF JobStep
  <1>4. CASE Fails(a)
    <2>1. StageFails(a)
      BY <1>4 DEF Fails
    <2> QED
      BY <2>1, JobIsNext DEF JobStep
  <1>5. CASE Brief(a) \/ (\E v \in Variants \cup {NoVariant} : Write(a, v)) \/ Edit(a)
    BY <1>5 DEF Brief, Write, Edit
  <1>6. CASE \E mark \in Marks : Checked(a, mark) \/ Detected(a, mark)
    BY <1>6 DEF Checked, Detected
  <1>7. CASE Authorized(a) \/ Refused(a) \/ RefusedAgain(a) \/ CheckBreaks(a)
    BY <1>7 DEF Authorized, Refused, RefusedAgain, CheckBreaks
  <1>8. CASE Humanize(a) \/ HumanizeBreaks(a)
    BY <1>8 DEF Humanize, HumanizeBreaks
  <1> QED
    BY <1>1, <1>2, <1>3, <1>4, <1>5, <1>6, <1>7, <1>8 DEF WorkStep

\* Ratings touch nothing the lifecycle knows of.
LEMMA RatingRefines ==
  ASSUME NEW u \in Raters, RatingStep(u)
  PROVE  UNCHANGED vars
  BY DEF RatingStep, Rate, RateOutcome

LEMMA StepRefines == [PNext]_allVars => [Next]_vars
  <1> SUFFICES ASSUME [PNext]_allVars PROVE Next \/ UNCHANGED vars
    OBVIOUS
  <1>1. CASE Asks
    BY <1>1, AsksRefine
  <1>2. CASE Drafting
    BY <1>2, DraftingRefines
  <1>3. CASE Publishing
    BY <1>3, PublishingRefines
  <1>4. CASE Dies
    BY <1>4 DEF Dies, Next
  <1>5. CASE TokenDies
    BY <1>5 DEF TokenDies
  <1>6. CASE \E a \in Articles : WorkStep(a)
    BY <1>6, WorkRefines
  <1>7. CASE \E u \in Raters : RatingStep(u)
    BY <1>7, RatingRefines
  <1>8. CASE UNCHANGED allVars
    BY <1>8 DEF allVars
  <1> QED
    BY <1>1, <1>2, <1>3, <1>4, <1>5, <1>6, <1>7, <1>8 DEF PNext

\* The pipeline implements the lifecycle: every behaviour of its stages, checks,
\* rewrites, ratings and failures is one of ArticleLifecycle (pipeline, publish).
THEOREM PipelineImplementsLifecycle == PSpec => Spec
  BY PInitIsInit, StepRefines, PTL DEF PSpec, Spec

\* Therefore rows and site agree, no article has two posts, and nothing goes live
\* by accident, with everything the pipeline does.
THEOREM PipelineRowsMatchSite == PSpec => []RowMatchesSite
  BY PipelineImplementsLifecycle, RowsMatchSite, PTL

THEOREM PipelineNoSecondPost == PSpec => []OnePostPerArticle
  BY PipelineImplementsLifecycle, NoSecondPost, PTL

THEOREM PipelineLiveOnPurpose == PSpec => []LiveOnPurpose
  BY PipelineImplementsLifecycle, LiveOnlyOnPurpose, PTL

-----------------------------------------------------------------------------
(* Type correctness of the pipeline's own state.                           *)

\* The work of a job keeps its type when its fields do.
LEMMA WorkType ==
  ASSUME PTypeOK, NEW a \in Articles, NEW w \in Work, work' = [work EXCEPT ![a] = w]
  PROVE  work' \in [Articles -> Work]
  BY DEF PTypeOK

LEMMA BlankType == Blank \in Work
  BY DEF Blank, Work, Stages, Templates, Scores

LEMMA StageType ==
  ASSUME NEW w \in Work, NEW s \in Stages, NEW n \in Nat
  PROVE  /\ [w EXCEPT !.at = s] \in Work
         /\ [w EXCEPT !.at = s, !.tok = n] \in Work
  BY DEF Work

LEMMA TextType ==
  ASSUME NEW w \in Work, NEW n \in Nat, NEW k \in Int
  PROVE  [w EXCEPT !.text = n, !.cycle = k] \in Work
  BY DEF Work

\* What a call of the language model leaves of the work.
LEMMA CompletesType ==
  ASSUME PTypeOK, NEW a \in Articles, NEW w \in Work, Completes(a, w)
  PROVE  work' \in [Articles -> Work] /\ spent' \in [Articles -> Nat]
<1>1. [w EXCEPT !.tokens = @ + 1] \in Work
  BY DEF Work
<1>2. work' \in [Articles -> Work]
  BY <1>1, WorkType DEF Completes
<1>3. spent' \in [Articles -> Nat]
  BY DEF Completes, Charged, PTypeOK
<1>4. QED
  BY <1>2, <1>3

LEMMA FaultType == PTypeOK /\ Fault => faults' \in Nat
  BY DEF Fault, PTypeOK

LEMMA InitPTypes == PInit => PTypeOK
<1> SUFFICES ASSUME PInit PROVE PTypeOK
  OBVIOUS
<1>1. work \in [Articles -> Work]
  BY BlankType DEF PInit
<1>2. QED
  BY <1>1, PipelineAssumption DEF PInit, PTypeOK, Ratings

\* The stages that write.
LEMMA WritingTypes ==
  ASSUME PTypeOK, NEW a \in Articles,
         \/ \E n \in AskedCycles : StartWork(a, n)
         \/ Brief(a) \/ (\E v \in Variants \cup {NoVariant} : Write(a, v)) \/ Edit(a)
         \/ Humanize(a) \/ HumanizeBreaks(a) \/ Fails(a)
  PROVE  PTypeOK'
<1>0. work[a] \in Work
  BY DEF PTypeOK
<1>1. ASSUME NEW n \in AskedCycles, StartWork(a, n) PROVE PTypeOK'
  <2>1. [Blank EXCEPT !.at = "brief", !.cycles = CyclesOf(n)] \in Work
    <3>1. CyclesOf(n) \in Int /\ "brief" \in Stages
      BY PipelineAssumption DEF CyclesOf, Stages
    <3>2. QED
      BY <3>1, BlankType DEF Work
  <2>2. work' \in [Articles -> Work]
    BY <1>1, <2>1, WorkType DEF StartWork
  <2>3. QED
    BY <1>1, <2>2 DEF StartWork, PTypeOK, records, rates
<1>2. CASE Brief(a)
  <2>1. [work[a] EXCEPT !.at = "write"] \in Work
    BY <1>0, StageType DEF Stages
  <2>2. work' \in [Articles -> Work] /\ spent' \in [Articles -> Nat]
    BY <1>2, <2>1, CompletesType DEF Brief
  <2>3. QED
    BY <1>2, <2>2 DEF Brief, PTypeOK, records, rates
<1>3. ASSUME NEW v \in Variants \cup {NoVariant}, Write(a, v) PROVE PTypeOK'
  <2>1. [work[a] EXCEPT !.at = "edit", !.variant = v] \in Work
    BY <1>0 DEF Work, Stages, Templates
  <2>2. work' \in [Articles -> Work] /\ spent' \in [Articles -> Nat]
    BY <1>3, <2>1, CompletesType DEF Write
  <2>3. wrote' \in [Articles -> Templates \cup {Nothing}]
    BY <1>3 DEF Write, PTypeOK, Templates
  <2>4. QED
    BY <1>3, <2>2, <2>3 DEF Write, PTypeOK, records, rates
<1>4. CASE Edit(a)
  <2> DEFINE w == [work[a] EXCEPT !.text = 1, !.cycle = 1]
             x == [w EXCEPT !.at = IF w.cycles > 0 THEN "check" ELSE "finish"]
  <2>1. x \in Work
    <3>0. 1 \in Nat /\ 1 \in Int
      OBVIOUS
    <3>1. w \in Work
      BY <1>0, <3>0, TextType, Zenon
    <3>2. IF w.cycles > 0 THEN "check" \in Stages ELSE "finish" \in Stages
      BY DEF Stages
    <3> HIDE DEF w
    <3>3. QED
      BY <3>1, <3>2 DEF Work
  <2>2. Completes(a, x)
    BY <1>4 DEF Edit
  <2> HIDE DEF x
  <2>3. work' \in [Articles -> Work] /\ spent' \in [Articles -> Nat]
    BY <2>1, <2>2, CompletesType
  <2>4. QED
    BY <1>4, <2>3 DEF Edit, PTypeOK, records, rates
<1>5. CASE Humanize(a)
  <2> DEFINE x == [work[a] EXCEPT !.at = "check", !.cycle = @ + 1, !.text = @ + 1]
  <2>1. x \in Work
    <3>1. work[a].cycle + 1 \in Int /\ work[a].text + 1 \in Nat /\ "check" \in Stages
      BY <1>0 DEF Work, Stages
    <3>2. QED
      BY <1>0, <3>1 DEF Work
  <2>2. work' \in [Articles -> Work] /\ spent' \in [Articles -> Nat]
    BY <1>5, <2>1, CompletesType DEF Humanize
  <2>3. QED
    BY <1>5, <2>2 DEF Humanize, PTypeOK, records, rates
<1>6. CASE HumanizeBreaks(a)
  <2>1. [work[a] EXCEPT !.at = "finish"] \in Work
    BY <1>0, StageType DEF Stages
  <2>2. work' \in [Articles -> Work] /\ spent' \in [Articles -> Nat]
    <3>1. CASE CostCounted(a, [work[a] EXCEPT !.at = "finish"])
      BY <2>1, <3>1, CompletesType DEF CostCounted
    <3>2. CASE work' = [work EXCEPT ![a] = [work[a] EXCEPT !.at = "finish"]] /\ UNCHANGED spent
      BY <2>1, <3>2, WorkType DEF PTypeOK
    <3>3. QED
      BY <1>6, <3>1, <3>2 DEF HumanizeBreaks
  <2>3. faults' \in Nat
    BY <1>6, FaultType DEF HumanizeBreaks
  <2>4. QED
    BY <1>6, <2>2, <2>3 DEF HumanizeBreaks, PTypeOK, records, rates
<1>7. CASE Fails(a)
  <2>1. work' \in [Articles -> Work]
    BY <1>7, BlankType, WorkType DEF Fails
  <2>2. QED
    BY <1>7, <2>1 DEF Fails, PTypeOK, records, rates
<1>8. QED
  BY <1>1, <1>2, <1>3, <1>4, <1>5, <1>6, <1>7

\* A verdict, whichever checker gave it.
LEMMA VerdictType ==
  ASSUME PTypeOK, NEW a \in Articles, NEW mark \in Marks, Verdict(a, mark),
         UNCHANGED <<focus, body, outcome, images, rates,
                     cached, valid, logins, revokes, wrote, spent, denied>>
  PROVE  PTypeOK'
<1> DEFINE w == work[a]
           v == [text |-> w.text, score |-> Cut(mark), original |-> PassesFor(Cut(mark))]
           x == [w EXCEPT !.last = v, !.first = FirstScore(w, v.score),
                          !.at = AfterVerdict(w, v.original), !.tok = 0]
<1>1. w \in Work /\ Cut(mark) \in Int
  BY PipelineAssumption DEF PTypeOK, Cut
<1>2. v \in Verdicts
  BY <1>1 DEF Work, Verdicts, PassesFor
<1>3. /\ FirstScore(w, v.score) \in Scores
      /\ AfterVerdict(w, v.original) \in Stages
  BY <1>1 DEF Work, FirstScore, AfterVerdict, Scores, Stages
<1>4. x \in Work
  <2> HIDE DEF v, w
  <2>1. QED
    BY <1>1, <1>2, <1>3 DEF Work
<1>5. /\ work' = [work EXCEPT ![a] = x]
      /\ scored' = [scored EXCEPT ![a] = @ \cup {<<w.text, mark>>}]
      /\ SaveCheckResult(a, v)
  BY DEF Verdict
<1>6. <<w.text, mark>> \in Nat \X Marks
  BY <1>1 DEF Work
<1> HIDE DEF x, v, w
<1>7. work' \in [Articles -> Work]
  BY <1>4, <1>5, WorkType
<1>8. scored' \in [Articles -> SUBSET (Nat \X Marks)]
  BY <1>5, <1>6 DEF PTypeOK
<1>9. shown' \in [Articles -> Verdicts \cup {Nothing}] /\ faults' \in Nat
  BY <1>2, <1>5, FaultType DEF SaveCheckResult, PTypeOK
<1>10. QED
  BY <1>7, <1>8, <1>9 DEF PTypeOK, rates

\* The other steps of the checker.
LEMMA CheckingTypes ==
  ASSUME PTypeOK, NEW a \in Articles,
         \/ \E mark \in Marks : Checked(a, mark) \/ Detected(a, mark)
         \/ Authorized(a) \/ Refused(a) \/ RefusedAgain(a) \/ CheckBreaks(a)
  PROVE  PTypeOK'
<1>0. work[a] \in Work
  BY DEF PTypeOK
<1>1. ASSUME NEW mark \in Marks, Checked(a, mark) \/ Detected(a, mark) PROVE PTypeOK'
  BY <1>1, VerdictType DEF Checked, Detected
<1>2. CASE Authorized(a)
  <2>1. PICK s \in Stages, n \in Nat :
           work' = [work EXCEPT ![a] = [work[a] EXCEPT !.at = s, !.tok = n]]
    <3>1. IF work[a].at = "check" THEN "detect" \in Stages ELSE "redetect" \in Stages
      BY DEF Stages
    <3>2. logins + 1 \in Nat /\ cached \in Nat
      BY DEF PTypeOK
    <3>3. QED
      BY <1>2, <3>1, <3>2 DEF Authorized, PTypeOK
  <2>2. work' \in [Articles -> Work]
    BY <1>0, <2>1, StageType, WorkType
  <2>3. cached' \in Nat /\ logins' \in Nat /\ valid' \in SUBSET Nat
    BY <1>2 DEF Authorized, PTypeOK
  <2>4. QED
    BY <1>2, <2>2, <2>3 DEF Authorized, PTypeOK, records, rates
<1>3. CASE Refused(a) \/ RefusedAgain(a) \/ CheckBreaks(a)
  <2>1. PICK s \in {"again", "finish"} :
           work' = [work EXCEPT ![a] = [work[a] EXCEPT !.at = s, !.tok = 0]]
    BY <1>3 DEF Refused, RefusedAgain, CheckBreaks, PTypeOK
  <2>2. work' \in [Articles -> Work]
    BY <1>0, <2>1, StageType, WorkType DEF Stages
  <2>3. cached' \in Nat /\ denied' \in SUBSET Articles /\ faults' \in Nat
    BY <1>3, FaultType DEF Refused, RefusedAgain, CheckBreaks, TokenDropped, PTypeOK
  <2>4. QED
    BY <1>3, <2>2, <2>3 DEF Refused, RefusedAgain, CheckBreaks, PTypeOK, records, rates
<1>4. QED
  BY <1>1, <1>2, <1>3

\* A rating and a score make a reward.
LEMMA RewardType ==
  ASSUME NEW r \in Ratings, NEW score \in Scores PROVE Reward(r, score) \in Scores
<1> DEFINE liked == IF r = "like" THEN 100 ELSE 0
<1>1. liked \in Int /\ HumanWeight \in Int
  BY PipelineAssumption
<1>2. CASE score = Nothing
  <2>1. 100 * liked \in Int
    BY <1>1
  <2>2. QED
    BY <1>2, <2>1 DEF Reward, Scores
<1>3. CASE score \in Int
  <2>1. 100 * (100 - score) \in Int
    BY <1>3
  <2>2. \A x, y \in Int : x * y \in Int /\ x + y \in Int
    OBVIOUS
  <2>3. HumanWeight * liked \in Int /\ (100 - HumanWeight) * (100 - score) \in Int
    BY <1>1, <1>3, <2>2
  <2>4. HumanWeight * liked + (100 - HumanWeight) * (100 - score) \in Int
    BY <2>2, <2>3
  <2>5. score # Nothing
    BY <1>3, PipelineAssumption
  <2> HIDE DEF liked
  <2>6. r # Nothing =>
          Reward(r, score) = HumanWeight * liked + (100 - HumanWeight) * (100 - score)
    BY <2>5 DEF Reward, liked
  <2>7. r = Nothing => Reward(r, score) = 100 * (100 - score)
    BY <2>5 DEF Reward
  <2>8. QED
    BY <2>1, <2>4, <2>6, <2>7 DEF Scores
<1>4. QED
  BY <1>2, <1>3 DEF Scores

LEMMA OutcomeType ==
  ASSUME NEW w \in Work, NEW shape \in Shapes PROVE OutcomeOf(w, shape) \in Outcome
<1>1. Reward(Nothing, w.first) \in Scores
  BY RewardType DEF Work, Ratings
<1>2. QualityFloor(shape) \in BOOLEAN
  BY DEF QualityFloor
<1>3. w.text - 1 \in Int
  BY DEF Work
<1>4. QED
  BY <1>1, <1>2, <1>3 DEF OutcomeOf, Outcome, Work

\* The end of a text, and of its job's work.
LEMMA FinishTypes ==
  ASSUME PTypeOK, NEW a \in Articles, NEW shape \in Shapes, Finish(a, shape)
  PROVE  PTypeOK'
<1>0. work[a] \in Work
  BY DEF PTypeOK
<1>1. PICK include \in BOOLEAN : \E s \in Rendered(shape.images, include) :
         work' = [work EXCEPT ![a] = [Blank EXCEPT !.stats = s]]
  BY Zenon DEF Finish
<1> PICK s \in Rendered(shape.images, include) :
         work' = [work EXCEPT ![a] = [Blank EXCEPT !.stats = s]]
  BY <1>1
<1>2. s \in Stats
  BY DEF Stats
<1>3. [Blank EXCEPT !.stats = s] \in Work
  BY <1>2, BlankType DEF Work
<1>4. work' \in [Articles -> Work]
  BY <1>3, WorkType
<1>5. body' \in [Articles -> Revision \cup {Nothing}]
  <2>1. RevisionOf(work[a], shape) \in Revision
    BY <1>0 DEF RevisionOf, Revision, Work
  <2>2. QED
    BY <2>1 DEF Finish, PTypeOK
<1>6. /\ outcome' \in [Articles -> Outcome \cup {Nothing}]
      /\ muddled' \in SUBSET Articles /\ faults' \in Nat
  <2>1. CASE SaveOutcome(a, OutcomeOf(work[a], shape)) /\ UNCHANGED faults
    BY <1>0, <2>1, OutcomeType DEF SaveOutcome, PTypeOK
  <2>2. CASE Fault /\ UNCHANGED <<outcome, muddled>>
    BY <2>2, FaultType DEF PTypeOK
  <2>3. QED
    BY <2>1, <2>2 DEF Finish
<1>7. QED
  BY <1>4, <1>5, <1>6 DEF Finish, PTypeOK

LEMMA RecordTypes ==
  ASSUME PTypeOK, NEW a \in Articles, RecordDraft(a) PROVE PTypeOK'
<1>1. work' \in [Articles -> Work]
  BY BlankType, WorkType DEF RecordDraft
<1>2. images' \in [Articles -> Stats \cup {Nothing}] /\ faults' \in Nat
  <2>1. work[a].stats \in Stats \cup {Nothing}
    BY DEF PTypeOK, Work
  <2>2. QED
    BY <2>1, FaultType DEF RecordDraft, SaveImageStats, PTypeOK
<1>3. QED
  BY <1>1, <1>2 DEF RecordDraft, PTypeOK, rates

\* Ratings.
LEMMA RatingTypes ==
  ASSUME PTypeOK, NEW u \in Raters, RatingStep(u) PROVE PTypeOK'
<1>1. ASSUME NEW a \in Articles, NEW r \in {"like", "dislike", Nothing}, Rate(u, a, r)
      PROVE  PTypeOK'
  <2>1. [art |-> a, rating |-> r] \in Call
    BY DEF Call, Ratings
  <2>2. call' \in [Raters -> Call \cup {Nothing}] /\ human' \in [Articles -> Ratings]
    BY <1>1, <2>1 DEF Rate, SetHumanRating, PTypeOK, Ratings
  <2>3. muddled' \in SUBSET Articles /\ ratings' \in Nat
    BY <1>1 DEF Rate, PTypeOK
  <2>4. QED
    BY <1>1, <2>2, <2>3 DEF Rate, PTypeOK, records, stages
<1>2. ASSUME NEW ok \in BOOLEAN, RateOutcome(u, ok) PROVE PTypeOK'
  <2>1. call[u] \in Call
    BY <1>2 DEF RateOutcome, PTypeOK
  <2>2. PICK a \in Articles : a = call[u].art
    BY <2>1 DEF Call
  <2>3. outcome' \in [Articles -> Outcome \cup {Nothing}]
    <3>1. CASE UpdateOutcomeReward(a, call[u].rating)
      <4>1. outcome[a] \in Outcome
        BY <3>1 DEF UpdateOutcomeReward, PTypeOK
      <4>2. RewardOf(outcome[a], call[u].rating) \in Scores
        BY <2>1, <4>1, RewardType DEF RewardOf, Outcome, Call
      <4>3. [outcome[a] EXCEPT !.reward = RewardOf(outcome[a], call[u].rating)] \in Outcome
        BY <4>1, <4>2 DEF Outcome
      <4>4. QED
        BY <3>1, <4>3 DEF UpdateOutcomeReward, PTypeOK
    <3>2. CASE UNCHANGED outcome
      BY <3>2 DEF PTypeOK
    <3>3. QED
      BY <1>2, <2>2, <3>1, <3>2 DEF RateOutcome
  <2>4. muddled' \in SUBSET Articles
    BY <1>2, <2>2 DEF RateOutcome, PTypeOK
  <2>5. call' \in [Raters -> Call \cup {Nothing}] /\ faults' \in Nat
    BY <1>2, FaultType DEF RateOutcome, PTypeOK
  <2>6. QED
    BY <1>2, <2>3, <2>4, <2>5 DEF RateOutcome, PTypeOK, stages
<1>3. QED
  BY <1>1, <1>2 DEF RatingStep

\* The death of the process, and of a token.
LEMMA DeathTypes == PTypeOK /\ (Dies \/ TokenDies) => PTypeOK'
<1> SUFFICES ASSUME PTypeOK, Dies \/ TokenDies PROVE PTypeOK'
  OBVIOUS
<1>1. CASE Dies
  <2>1. work' \in [Articles -> Work]
    BY <1>1, BlankType DEF Dies
  <2>2. \A u \in Raters : call[u] # Nothing => call[u].art \in Articles
    BY DEF PTypeOK, Call
  <2>3. muddled' \in SUBSET Articles
    BY <1>1, <2>2 DEF Dies, PTypeOK
  <2>4. call' \in [Raters -> Call \cup {Nothing}] /\ cached' \in Nat
    BY <1>1 DEF Dies
  <2>5. QED
    BY <1>1, <2>1, <2>3, <2>4 DEF Dies, PTypeOK, records
<1>2. CASE TokenDies
  <2>1. valid \in SUBSET Nat /\ cached \in Nat /\ revokes \in Nat
    BY DEF PTypeOK
  <2>2. valid' \in {valid, valid \ {cached}} /\ cached' \in {0, cached}
    BY <1>2 DEF TokenDies
  <2>3. revokes' = revokes + 1
    BY <1>2 DEF TokenDies
  <2>4. valid' \in SUBSET Nat /\ cached' \in Nat /\ revokes' \in Nat
    BY <2>1, <2>2, <2>3
  <2>5. QED
    BY <1>2, <2>4 DEF TokenDies, PTypeOK, records, rates
<1>3. QED
  BY <1>1, <1>2

LEMMA NextPTypes == PTypeOK /\ [PNext]_allVars => PTypeOK'
<1> SUFFICES ASSUME PTypeOK, [PNext]_allVars PROVE PTypeOK'
  OBVIOUS
<1>1. CASE UNCHANGED pvars
  BY <1>1 DEF pvars, stages, records, rates, PTypeOK
<1>2. ASSUME NEW a \in Articles, WorkStep(a) PROVE PTypeOK'
  BY <1>2, WritingTypes, CheckingTypes, FinishTypes, RecordTypes DEF WorkStep
<1>3. ASSUME NEW u \in Raters, RatingStep(u) PROVE PTypeOK'
  BY <1>3, RatingTypes
<1>4. CASE Asks \/ Drafting \/ Publishing
  BY <1>1, <1>4 DEF Asks, Drafting, Publishing
<1>5. CASE Dies \/ TokenDies
  BY <1>5, DeathTypes
<1>6. QED
  BY <1>1, <1>2, <1>3, <1>4, <1>5 DEF PNext, allVars

\* Every step of a job's stages, of the checker's client and of the ratings keeps the
\* state of the pipeline of its type, for any texts, marks, variants and raters.
THEOREM PipelineTypes == PSpec => []PTypeOK
<1>1. PTypeOK /\ [PNext]_allVars => PTypeOK'
  BY NextPTypes
<1>2. QED
  BY <1>1, InitPTypes, PTL DEF PSpec

-----------------------------------------------------------------------------
(* The token all jobs share.                                               *)

LEMMA CompletesWork ==
  ASSUME PTypeOK, NEW a \in Articles, NEW w \in Work, Completes(a, w)
  PROVE  /\ \A x \in Articles \ {a} : work'[x] = work[x]
         /\ work'[a] = [w EXCEPT !.tokens = w.tokens + 1]
         /\ work'[a].at = w.at
<1>1. work' = [work EXCEPT ![a] = [w EXCEPT !.tokens = w.tokens + 1]]
  BY DEF Completes
<1>2. [w EXCEPT !.tokens = w.tokens + 1].at = w.at
  BY DEF Work
<1>3. QED
  BY <1>1, <1>2 DEF PTypeOK

\* Where a step of a job leaves the work, the checker's login aside.
LEMMA WorkGoesOn ==
  ASSUME PTypeOK, NEW a \in Articles, WorkStep(a),
         ~Authorized(a), ~Refused(a), ~RefusedAgain(a)
  PROVE  /\ UNCHANGED <<cached, valid, logins, revokes, denied>>
         /\ \A x \in Articles \ {a} : work'[x] = work[x]
         /\ work'[a].at \notin {"detect", "again", "redetect"}
<1>0. work[a] \in Work /\ work \in [Articles -> Work]
  BY DEF PTypeOK
<1>a. UNCHANGED <<cached, valid, logins, revokes, denied>>
  BY DEF WorkStep, StartWork, Brief, Write, Edit, Checked, Detected, CheckBreaks, Humanize,
         HumanizeBreaks, Finish, RecordDraft, Fails
<1> DEFINE Goes == /\ \A x \in Articles \ {a} : work'[x] = work[x]
                   /\ work'[a].at \notin {"detect", "again", "redetect"}
<1>1. ASSUME NEW n \in AskedCycles, StartWork(a, n) PROVE Goes
  BY <1>0, <1>1 DEF StartWork, Blank
<1>2. ASSUME Brief(a) PROVE Goes
  <2>1. [work[a] EXCEPT !.at = "write"] \in Work
    BY <1>0, StageType DEF Stages
  <2>2. [work[a] EXCEPT !.at = "write"].at = "write"
    BY <1>0 DEF Work
  <2>3. QED
    BY <1>2, <2>1, <2>2, CompletesWork DEF Brief
<1>3. ASSUME NEW v \in Variants \cup {NoVariant}, Write(a, v) PROVE Goes
  <2>1. [work[a] EXCEPT !.at = "edit", !.variant = v] \in Work
    BY <1>0 DEF Work, Stages, Templates
  <2>2. [work[a] EXCEPT !.at = "edit", !.variant = v].at = "edit"
    BY <1>0 DEF Work
  <2>3. QED
    BY <1>3, <2>1, <2>2, CompletesWork DEF Write
<1>4. ASSUME Edit(a) PROVE Goes
  <2> DEFINE e == [work[a] EXCEPT !.text = 1, !.cycle = 1]
             w == [e EXCEPT !.at = IF e.cycles > 0 THEN "check" ELSE "finish"]
  <2>0. 1 \in Nat /\ 1 \in Int
    OBVIOUS
  <2>1. e \in Work
    BY <1>0, <2>0, TextType, Zenon
  <2>2. IF e.cycles > 0 THEN "check" \in Stages ELSE "finish" \in Stages
    BY DEF Stages
  <2>3. Completes(a, w)
    BY <1>4 DEF Edit
  <2> HIDE DEF e
  <2>4. w \in Work /\ w.at \in {"check", "finish"}
    BY <2>1, <2>2 DEF Work
  <2> HIDE DEF w
  <2>5. work'[a].at = w.at /\ \A y \in Articles \ {a} : work'[y] = work[y]
    BY <2>3, <2>4, CompletesWork
  <2>6. QED
    BY <2>4, <2>5
<1>5. ASSUME NEW mark \in Marks, Checked(a, mark) \/ Detected(a, mark) PROVE Goes
  <2>1. Verdict(a, mark)
    BY <1>5 DEF Checked, Detected
  <2>2. \A x \in Articles \ {a} : work'[x] = work[x]
    BY <1>0, <2>1 DEF Verdict
  <2>3. work'[a].at = AfterVerdict(work[a], PassesFor(Cut(mark)))
    BY <1>0, <2>1 DEF Verdict, Work
  <2>4. QED
    BY <2>2, <2>3 DEF AfterVerdict
<1>6. ASSUME Humanize(a) PROVE Goes
  <2> DEFINE w == [work[a] EXCEPT !.at = "check", !.cycle = @ + 1, !.text = @ + 1]
  <2>1. work[a].cycle + 1 \in Int /\ work[a].text + 1 \in Nat /\ "check" \in Stages
    BY <1>0 DEF Work, Stages
  <2>2. w \in Work /\ w.at = "check"
    BY <1>0, <2>1 DEF Work
  <2>3. Completes(a, w)
    BY <1>6 DEF Humanize
  <2> HIDE DEF w
  <2>4. work'[a].at = "check" /\ \A y \in Articles \ {a} : work'[y] = work[y]
    BY <2>2, <2>3, CompletesWork
  <2>5. QED
    BY <2>4
<1>7. ASSUME HumanizeBreaks(a) PROVE Goes
  <2> DEFINE w == [work[a] EXCEPT !.at = "finish"]
  <2>1. w \in Work
    BY <1>0, StageType DEF Stages
  <2>2. w.at = "finish"
    BY <1>0 DEF Work
  <2>3. Completes(a, w) \/ work' = [work EXCEPT ![a] = w]
    BY <1>7 DEF HumanizeBreaks, CostCounted
  <2> HIDE DEF w
  <2>4. work'[a].at = "finish" /\ \A y \in Articles \ {a} : work'[y] = work[y]
    BY <1>0, <2>1, <2>2, <2>3, CompletesWork
  <2>5. QED
    BY <2>4
<1>8. ASSUME CheckBreaks(a) PROVE Goes
  <2> DEFINE w == [work[a] EXCEPT !.at = "finish", !.tok = 0]
  <2>1. work' = [work EXCEPT ![a] = w]
    BY <1>8 DEF CheckBreaks
  <2>2. w.at = "finish"
    BY <1>0 DEF Work
  <2> HIDE DEF w
  <2>3. QED
    BY <1>0, <2>1, <2>2
<1>9. ASSUME NEW shape \in Shapes, Finish(a, shape) PROVE Goes
  BY <1>0, <1>9 DEF Finish, Blank
<1>10. ASSUME RecordDraft(a) \/ Fails(a) PROVE Goes
  BY <1>0, <1>10 DEF RecordDraft, Fails, Blank
<1> HIDE DEF Goes
<1>11. Goes
  BY <1>1, <1>2, <1>3, <1>4, <1>5, <1>6, <1>7, <1>8, <1>9, <1>10 DEF WorkStep
<1>12. QED
  BY <1>a, <1>11 DEF Goes

\* The dead tokens can be counted, and two of them count two.
LEMMA DeadCounted ==
  ASSUME NEW n \in Nat, NEW v
  PROVE  IsFiniteSet((1..n) \ v) /\ Cardinality((1..n) \ v) \in Nat
<1>1. IsFiniteSet(1..n)
  BY FS_Interval
<1>2. IsFiniteSet((1..n) \ v)
  BY <1>1, FS_Difference
<1>3. QED
  BY <1>2, FS_CardinalityType

LEMMA TwoDead ==
  ASSUME NEW S, IsFiniteSet(S), NEW x \in S, NEW y \in S, x # y
  PROVE  Cardinality(S) >= 2
<1>1. IsFiniteSet({x}) /\ Cardinality({x}) = 1
  BY FS_Singleton
<1>2. Cardinality({x} \cup {y}) = 2
  BY <1>1, FS_AddElement
<1>3. {x} \cup {y} \subseteq S
  OBVIOUS
<1>4. Cardinality({x} \cup {y}) <= Cardinality(S)
  BY <1>3, FS_Subset
<1>5. Cardinality(S) \in Nat
  BY FS_CardinalityType
<1>6. QED
  BY <1>2, <1>4, <1>5

LEMMA InitToken == PInit => TokenInv
<1> SUFFICES ASSUME PInit PROVE TokenInv
  OBVIOUS
<1>1. Dead = {}
  BY DEF PInit, Dead
<1>2. \A a \in Articles : RetryOK(a)
  BY DEF PInit, RetryOK, Blank
<1>3. Cardinality(Dead) = 0
  BY <1>1, FS_EmptySet
<1>4. QED
  BY <1>2, <1>3 DEF PInit, TokenInv, DeniedOnlyTwice

\* A step that leaves the tokens alone need only look at one job.
LEMMA TokenStep ==
  ASSUME TokenInv, UNCHANGED <<cached, valid, logins, revokes, denied>>,
         NEW a \in Articles, RetryOK(a)',
         \A x \in Articles \ {a} : work'[x] = work[x]
  PROVE  TokenInv'
<1>1. Dead' = Dead
  BY DEF Dead
<1>2. ASSUME NEW x \in Articles \ {a} PROVE RetryOK(x)'
  BY <1>1, <1>2 DEF TokenInv, RetryOK
<1>3. QED
  BY <1>1, <1>2 DEF TokenInv, DeniedOnlyTwice

LEMMA AuthorizedToken ==
  ASSUME PTypeOK, TokenInv, NEW a \in Articles, Authorized(a)
  PROVE  TokenInv'
<1>0. work[a] \in Work /\ work \in [Articles -> Work] /\ logins \in Nat /\ cached \in Nat
      /\ valid \in SUBSET Nat
  BY DEF PTypeOK
<1> DEFINE new == IF cached = 0 THEN logins + 1 ELSE cached
           stage == IF work[a].at = "check" THEN "detect" ELSE "redetect"
<1>1. work' = [work EXCEPT ![a] = [work[a] EXCEPT !.at = stage, !.tok = new]]
  BY DEF Authorized
<1>2. work'[a].at = stage /\ work'[a].tok = new
  BY <1>0, <1>1 DEF Work
<1>3. \A x \in Articles \ {a} : work'[x] = work[x]
  BY <1>0, <1>1
<1>4. UNCHANGED <<revokes, denied>> /\ (work[a].at = "check" \/ work[a].at = "again")
  BY DEF Authorized, In
<1>5. cached <= logins
  BY DEF TokenInv
<1>6. CASE cached = 0
  <2>1. cached' = logins + 1 /\ logins' = logins + 1 /\ valid' = valid \cup {logins + 1}
    BY <1>6 DEF Authorized
  <2>2. Dead' = Dead
    <3>1. 1..(logins + 1) = (1..logins) \cup {logins + 1}
      BY <1>0
    <3>2. (1..(logins + 1)) \ (valid \cup {logins + 1}) = (1..logins) \ valid
      BY <1>0, <3>1
    <3>3. QED
      BY <2>1, <3>2 DEF Dead
  <2>3. \A d \in Dead : d # logins + 1
    BY <1>0 DEF Dead
  <2>4. \A x \in Articles \ {a} : RetryOK(x)'
    BY <1>0, <1>3, <2>1, <2>2, <2>3 DEF TokenInv, RetryOK
  <2>5. RetryOK(a)'
    <3>1. new = logins + 1 /\ new \in 1..(logins + 1)
      BY <1>0, <1>6
    <3>2. \A d \in Dead : d # new
      BY <2>3, <3>1
    <3>3. stage = "redetect" => \E d \in Dead : TRUE
      BY <1>4 DEF TokenInv, RetryOK
    <3> HIDE DEF new, stage
    <3>4. QED
      BY <1>2, <2>1, <2>2, <3>1, <3>2, <3>3, <1>4 DEF RetryOK, stage
  <2>6. QED
    BY <1>0, <1>4, <1>5, <2>1, <2>2, <2>4, <2>5 DEF TokenInv, DeniedOnlyTwice
<1>7. CASE cached # 0
  <2>1. UNCHANGED <<cached, logins, valid>> /\ new = cached /\ cached \in 1..logins
    BY <1>0, <1>5, <1>7 DEF Authorized
  <2>2. Dead' = Dead
    BY <2>1 DEF Dead
  <2>3. stage = "redetect" => \E d \in Dead : d # cached
    BY <1>4 DEF TokenInv, RetryOK
  <2>4. stage # "again"
    OBVIOUS
  <2> HIDE DEF new, stage
  <2>5. RetryOK(a)'
    BY <1>2, <2>1, <2>2, <2>3, <2>4 DEF RetryOK
  <2>6. QED
    BY <1>3, <1>4, <2>1, <2>5, TokenStep
<1>8. QED
  BY <1>6, <1>7

\* A refused token leaves the client and does not come back.
LEMMA RefusedToken ==
  ASSUME PTypeOK, TokenInv, NEW a \in Articles, Refused(a)
  PROVE  TokenInv'
<1>0. work[a] \in Work /\ work \in [Articles -> Work] /\ logins \in Nat
  BY DEF PTypeOK
<1>1. work[a].at = "detect" /\ work[a].tok \notin valid /\ cached' = 0
      /\ UNCHANGED <<valid, logins, revokes, denied>>
  BY DEF Refused, In, TokenDropped
<1>2. work[a].tok \in Dead /\ Dead' = Dead
  BY <1>1 DEF TokenInv, RetryOK, Dead
<1>3. \A d \in Dead : d # 0
  BY DEF Dead
<1>4. work'[a].at = "again" /\ \A x \in Articles \ {a} : work'[x] = work[x]
  BY <1>0 DEF Refused, Work
<1>5. RetryOK(a)'
  BY <1>1, <1>2, <1>3, <1>4 DEF RetryOK
<1>6. \A x \in Articles \ {a} : RetryOK(x)'
  BY <1>1, <1>2, <1>3, <1>4 DEF TokenInv, RetryOK
<1>7. QED
  BY <1>0, <1>1, <1>2, <1>5, <1>6 DEF TokenInv, DeniedOnlyTwice

\* A second refusal: both tokens are dead.
LEMMA RefusedAgainToken ==
  ASSUME PTypeOK, TokenInv, NEW a \in Articles, RefusedAgain(a)
  PROVE  TokenInv'
<1>0. work[a] \in Work /\ work \in [Articles -> Work] /\ logins \in Nat /\ revokes \in Nat
  BY DEF PTypeOK
<1>1. work[a].at = "redetect" /\ work[a].tok \notin valid
      /\ UNCHANGED <<cached, valid, logins, revokes>>
  BY DEF RefusedAgain, In
<1>2. work[a].tok \in Dead /\ \E d \in Dead : d # work[a].tok
  BY <1>1 DEF TokenInv, RetryOK, Dead
<1>3. IsFiniteSet(Dead) /\ Cardinality(Dead) \in Nat
  BY <1>0, DeadCounted DEF Dead
<1>4. Cardinality(Dead) >= 2
  BY <1>2, <1>3, TwoDead
<1>5. revokes' >= 2
  BY <1>0, <1>1, <1>3, <1>4 DEF TokenInv
<1>6. Dead' = Dead
  BY <1>1 DEF Dead
<1>7. work'[a].at = "finish" /\ \A x \in Articles \ {a} : work'[x] = work[x]
  BY <1>0 DEF RefusedAgain, Work
<1>8. \A x \in Articles : RetryOK(x)'
  BY <1>1, <1>6, <1>7 DEF TokenInv, RetryOK
<1>9. QED
  BY <1>1, <1>5, <1>6, <1>8 DEF TokenInv, DeniedOnlyTwice

LEMMA DeathToken ==
  ASSUME PTypeOK, TokenInv, Dies \/ TokenDies PROVE TokenInv'
<1>0. logins \in Nat /\ cached \in Nat /\ revokes \in Nat /\ valid \in SUBSET Nat
  BY DEF PTypeOK
<1>1. CASE Dies
  <2>1. cached' = 0 /\ UNCHANGED <<valid, logins, revokes, denied>>
        /\ \A a \in Articles : work'[a].at = "none"
    BY <1>1 DEF Dies, Blank
  <2>2. Dead' = Dead
    BY <2>1 DEF Dead
  <2>3. QED
    BY <1>0, <2>1, <2>2 DEF TokenInv, RetryOK, DeniedOnlyTwice
<1>2. CASE TokenDies
  <2>1. UNCHANGED <<work, logins, denied>> /\ revokes' = revokes + 1
    BY <1>2 DEF TokenDies
  <2>2. CASE valid' = valid \ {cached} /\ UNCHANGED cached
    <3>1. Dead \subseteq Dead' /\ Dead' \subseteq Dead \cup {cached}
      BY <2>1, <2>2 DEF Dead
    <3>2. IsFiniteSet(Dead) /\ Cardinality(Dead) \in Nat
      BY <1>0, DeadCounted DEF Dead
    <3>3. /\ IsFiniteSet(Dead \cup {cached})
          /\ Cardinality(Dead \cup {cached}) <= Cardinality(Dead) + 1
      BY <3>2, FS_AddElement
    <3>4. Cardinality(Dead') <= Cardinality(Dead \cup {cached})
      BY <3>1, <3>3, FS_Subset
    <3>5. Cardinality(Dead') \in Nat /\ Cardinality(Dead \cup {cached}) \in Nat
      BY <3>1, <3>3, FS_Subset, FS_CardinalityType
    <3>6. Cardinality(Dead') <= revokes'
      BY <1>0, <2>1, <3>2, <3>3, <3>4, <3>5 DEF TokenInv
    <3>7. \A a \in Articles : RetryOK(a)'
      BY <2>1, <2>2, <3>1 DEF TokenInv, RetryOK
    <3>8. QED
      BY <1>0, <2>1, <2>2, <3>6, <3>7 DEF TokenInv, DeniedOnlyTwice
  <2>3. CASE cached' = 0 /\ UNCHANGED valid
    <3>1. Dead' = Dead /\ \A d \in Dead : d # 0
      BY <2>1, <2>3 DEF Dead
    <3>2. Cardinality(Dead) \in Nat
      BY <1>0, DeadCounted DEF Dead
    <3>3. \A a \in Articles : RetryOK(a)'
      BY <2>1, <2>3, <3>1 DEF TokenInv, RetryOK
    <3>4. QED
      BY <1>0, <2>1, <2>3, <3>1, <3>2, <3>3 DEF TokenInv, DeniedOnlyTwice
  <2>4. QED
    BY <1>2, <2>2, <2>3 DEF TokenDies
<1>3. QED
  BY <1>1, <1>2

LEMMA NextToken ==
  ASSUME PTypeOK, TokenInv, [PNext]_allVars PROVE TokenInv'
<1>1. CASE UNCHANGED <<work, cached, valid, logins, revokes, denied>>
  <2>1. Dead' = Dead
    BY <1>1 DEF Dead
  <2>2. QED
    BY <1>1, <2>1 DEF TokenInv, RetryOK, DeniedOnlyTwice
<1>2. ASSUME NEW a \in Articles, WorkStep(a) PROVE TokenInv'
  <2>1. CASE Authorized(a) \/ Refused(a) \/ RefusedAgain(a)
    BY <2>1, AuthorizedToken, RefusedToken, RefusedAgainToken
  <2>2. CASE ~Authorized(a) /\ ~Refused(a) /\ ~RefusedAgain(a)
    <3>1. /\ UNCHANGED <<cached, valid, logins, revokes, denied>>
          /\ \A x \in Articles \ {a} : work'[x] = work[x]
          /\ work'[a].at \notin {"detect", "again", "redetect"}
      BY <1>2, <2>2, WorkGoesOn
    <3>2. RetryOK(a)'
      BY <3>1 DEF RetryOK
    <3>3. QED
      BY <3>1, <3>2, TokenStep
  <2>3. QED
    BY <2>1, <2>2
<1>3. ASSUME NEW u \in Raters, RatingStep(u)
      PROVE  UNCHANGED <<work, cached, valid, logins, revokes, denied>>
  BY <1>3 DEF RatingStep, Rate, RateOutcome, stages
<1>4. CASE Asks \/ Drafting \/ Publishing \/ UNCHANGED allVars
  BY <1>1, <1>4 DEF Asks, Drafting, Publishing, allVars, pvars, stages
<1>5. CASE Dies \/ TokenDies
  BY <1>5, DeathToken
<1>6. QED
  BY <1>1, <1>2, <1>3, <1>4, <1>5 DEF PNext

\* A check is lost to refused tokens only when two of them have died, however many
\* jobs share the client (Check, invalidateToken).
THEOREM ChecksSurviveToken == PSpec => []DeniedOnlyTwice
<1>1. PTypeOK /\ TokenInv /\ [PNext]_allVars => TokenInv'
  BY NextToken
<1>2. TokenInv => DeniedOnlyTwice
  BY DEF TokenInv
<1>3. QED
  BY <1>1, <1>2, InitToken, PipelineTypes, PTL DEF PSpec

-----------------------------------------------------------------------------
(* Texts: what a verdict, a score and the costs are about.                 *)

LEMMA InitText == PInit => TextInv
<1> SUFFICES ASSUME PInit PROVE TextInv
  OBVIOUS
<1>1. \A a \in Articles : /\ proc[a].pc = "idle" /\ a \notin passed
                          /\ outcome[a] = Nothing /\ scored[a] = {} /\ spent[a] = 0
  BY DEF PInit, Init, Callers, Idle
<1>2. QED
  BY <1>1 DEF TextInv, TextOK, CreditTies, CreditTie

\* A step that does not touch what is known of an article's text.
LEMMA TextKept ==
  ASSUME NEW x \in Articles, TextOK(x), CreditTie(x),
         UNCHANGED <<scored[x], wrote[x], spent[x], body[x], outcome[x], x \in passed>>,
         Unfinished(x)' => Unfinished(x), Unbegun(x)' => Unbegun(x),
         proc'[x].pc = "content" => proc[x].pc = "content" /\ work'[x] = work[x]
  PROVE  TextOK(x)' /\ CreditTie(x)'
<1>1. CreditTie(x)'
  BY DEF CreditTie
<1>2. TextOK(x)'
  BY DEF TextOK, WorkOK, FirstOK, FoundHuman
<1>3. QED
  BY <1>1, <1>2

\* A step inside the text of a job.
LEMMA TextGoesOn ==
  ASSUME SiteInv, NEW a \in Articles, TextOK(a), proc[a].pc = "content",
         UNCHANGED <<vars, outcome>>, WorkOK(a)'
  PROVE  TextOK(a)' /\ CreditTie(a)'
<1>1. row[a].status # "none"
  BY DEF SiteInv, JobInv, JobOK, Idle
<1>2. a \notin passed /\ outcome[a] = Nothing
  BY DEF TextOK, Unfinished
<1>3. UNCHANGED <<row, proc, passed>>
  BY DEF vars
<1>4. QED
  BY <1>1, <1>2, <1>3 DEF TextOK, Unfinished, Unbegun, CreditTie

\* The lifecycle's other steps begin no text and finish none.
LEMMA LifecycleKeepsTexts ==
  ASSUME SiteInv, Asks \/ Drafting \/ Publishing \/ Crash
  PROVE  /\ passed' = passed
         /\ \A x \in Articles : /\ Unfinished(x)' => Unfinished(x)
                                /\ Unbegun(x)' => Unbegun(x)
                                /\ proc'[x].pc # "content" \/ proc[x].pc = "content"
<1>0. TypeOK
  BY DEF SiteInv
<1>1. ASSUME NEW a \in Articles, NEW t \in DirectTopics, NEW auto \in AutoChoices,
             Generate(a, t, auto)
      PROVE  /\ passed' = passed
             /\ \A x \in Articles : /\ Unfinished(x)' => Unfinished(x)
                                    /\ Unbegun(x)' => Unbegun(x)
                                    /\ proc'[x].pc # "content" \/ proc[x].pc = "content"
  BY <1>0, <1>1 DEF Generate, CreateArticle, TypeOK, Callers, Unfinished, Unbegun
<1>2. ASSUME passed' = passed,
             \A x \in Articles : /\ row'[x].status = "none" => row[x].status = "none"
                                 /\ \/ proc'[x].pc \notin {"queued", "content"}
                                    \/ proc'[x] = proc[x]
      PROVE  /\ passed' = passed
             /\ \A x \in Articles : /\ Unfinished(x)' => Unfinished(x)
                                    /\ Unbegun(x)' => Unbegun(x)
                                    /\ proc'[x].pc # "content" \/ proc[x].pc = "content"
  BY <1>2 DEF Unfinished, Unbegun
<1>3. CASE Crash
  BY <1>2, <1>3 DEF Crash, Callers, Idle
<1>4. CASE Boot
  <2>1. \A x \in Articles : row'[x].status = "none" => row[x].status = "none"
    BY <1>0, <1>4 DEF Boot, OrphansFailed, TypeOK, Row
  <2>2. QED
    BY <1>2, <1>4, <2>1 DEF Boot
<1>5. ASSUME NEW a \in Articles,
             \/ \E p \in Posts, lost \in BOOLEAN : CreateDraft(a, p, lost)
             \/ MarkFailed(a) \/ UpdateDraftFails(a) \/ AutoPublishRefused(a)
      PROVE  /\ passed' = passed
             /\ \A x \in Articles : /\ row'[x].status = "none" => row[x].status = "none"
                                    /\ \/ proc'[x].pc \notin {"queued", "content"}
                                       \/ proc'[x] = proc[x]
  <2>0. proc \in [Callers -> Proc] /\ row \in [Articles -> Row] /\ a \in Callers
    BY <1>0 DEF TypeOK, Callers
  <2> DEFINE Leaves == /\ passed' = passed /\ \A x \in Articles \ {a} : proc'[x] = proc[x]
                       /\ proc'[a].pc \in {"fail", "record", "idle"}
  <2>1. ASSUME NEW p \in Posts, NEW lost \in BOOLEAN, CreateDraft(a, p, lost) PROVE Leaves
    <3>1. passed' = passed /\ proc' = [proc EXCEPT ![a] = DraftAnswered(a, p, lost)]
      BY <2>1 DEF CreateDraft
    <3>2. DraftAnswered(a, p, lost).pc \in {"fail", "record"}
      BY <2>0 DEF DraftAnswered, Proc
    <3>3. QED
      BY <2>0, <3>1, <3>2 DEF Callers
  <2>2. ASSUME MarkFailed(a) \/ UpdateDraftFails(a) \/ AutoPublishRefused(a) PROVE Leaves
    <3>1. passed' = passed
      BY <2>2 DEF MarkFailed, UpdateDraftFails, AutoPublishRefused
    <3>2. \A x \in Articles \ {a} : proc'[x] = proc[x]
      BY <2>0, <2>2 DEF MarkFailed, UpdateDraftFails, AutoPublishRefused, Goto, PublishEnds,
                        Callers
    <3>3. MarkFailed(a) => proc'[a].pc = "idle"
      BY <2>0 DEF MarkFailed, Idle
    <3>4. UpdateDraftFails(a) => proc'[a].pc = "fail"
      BY <2>0 DEF UpdateDraftFails, Goto, Proc
    <3>5. AutoPublishRefused(a) => proc'[a].pc = "fail"
      BY <2>0 DEF AutoPublishRefused, PublishEnds, Returned, Proc
    <3>6. QED
      BY <2>2, <3>1, <3>2, <3>3, <3>4, <3>5
  <2>3. \A x \in Articles : row'[x].status = "none" => row[x].status = "none"
    BY <1>5, <2>0 DEF CreateDraft, MarkFailed, UpdateDraftFails, AutoPublishRefused,
                      DraftRecorded, Row
  <2>4. Leaves
    BY <1>5, <2>1, <2>2
  <2>5. QED
    BY <2>3, <2>4
<1>6. ASSUME NEW c \in Callers, PublishStep(c) \/ MarkPublishedFails(c)
      PROVE  /\ passed' = passed
             /\ \A x \in Articles : /\ row'[x].status = "none" => row[x].status = "none"
                                    /\ \/ proc'[x].pc \notin {"queued", "content"}
                                       \/ proc'[x] = proc[x]
  <2>0. proc \in [Callers -> Proc] /\ row \in [Articles -> Row]
    BY <1>0 DEF TypeOK
  <2>1. passed' = passed /\ \A x \in Callers \ {c} : proc'[x] = proc[x]
    BY <1>6, <2>0 DEF PublishStep, PublishGoes, PublishPost, PublishPostFails, MarkPublished,
                      MarkPublishedFails, RereadArticle, Goto, PublishEnds
  <2>2. proc'[c].pc \notin {"queued", "content"}
    <3>1. \A a \in Articles : PublishGoes(c, a) => proc'[c].pc = "call"
      BY <2>0 DEF PublishGoes
    <3>2. \A ok \in BOOLEAN : PublishEnds(c, ok) => proc'[c].pc \in {"idle", "fail"}
      BY <2>0 DEF PublishEnds, Returned, Proc, Idle
    <3>3. \A pc \in {"mark", "reread"} : Goto(c, pc) => proc'[c].pc = pc
      BY <2>0 DEF Goto, Proc
    <3>4. \/ \E a \in Articles : PublishGoes(c, a)
          \/ \E ok \in BOOLEAN : PublishEnds(c, ok)
          \/ \E pc \in {"mark", "reread"} : Goto(c, pc)
      BY <1>6 DEF PublishStep, PublishPost, PublishPostFails, MarkPublished,
                  MarkPublishedFails, RereadArticle
    <3>5. QED
      BY <3>1, <3>2, <3>3, <3>4
  <2>3. \A x \in Articles : row'[x].status = "none" => row[x].status = "none"
    BY <1>6, <2>0 DEF PublishStep, PublishGoes, PublishPost, PublishPostFails, MarkPublished,
                      MarkPublishedFails, RereadArticle, MarkedPublished, Row
  <2>4. QED
    BY <2>1, <2>2, <2>3 DEF Callers
<1>7. CASE Asks
  BY <1>1, <1>7 DEF Asks
<1>8. CASE Drafting
  BY <1>2, <1>5, <1>8 DEF Drafting
<1>9. CASE Publishing
  BY <1>2, <1>4, <1>5, <1>6, <1>9 DEF Publishing
<1>10. QED
  BY <1>3, <1>7, <1>8, <1>9

\* Another job's text is not touched.
LEMMA OtherTexts ==
  ASSUME PTypeOK, SiteInv, NEW a \in Articles, NEW x \in Articles \ {a}, WorkStep(a),
         TextOK(x), CreditTie(x)
  PROVE  TextOK(x)' /\ CreditTie(x)'
<1>0. /\ row \in [Articles -> Row] /\ proc \in [Callers -> Proc] /\ a \in Callers /\ x \in Callers
      /\ work \in [Articles -> Work] /\ PTypeOK
  BY DEF SiteInv, TypeOK, PTypeOK, Callers
<1>1. work'[x] = work[x]
  <2>1. CASE Authorized(a) \/ Refused(a) \/ RefusedAgain(a)
    BY <1>0, <2>1 DEF Authorized, Refused, RefusedAgain
  <2>2. QED
    BY <2>1, WorkGoesOn
<1>2. UNCHANGED <<scored[x], wrote[x], spent[x]>>
  BY ZenonT(40) DEF WorkStep, StartWork, Brief, Write, Edit, Checked, Detected, Verdict, Authorized, Refused,
         RefusedAgain, CheckBreaks, Humanize, HumanizeBreaks, CostCounted, Completes, Charged,
         Finish, RecordDraft, Fails, PTypeOK
<1>3. UNCHANGED <<body[x], outcome[x], x \in passed>>
  <2>1. ASSUME NEW shape \in Shapes, Finish(a, shape) PROVE UNCHANGED <<body[x], outcome[x], x \in passed>>
    BY <2>1 DEF Finish, SaveOutcome, PTypeOK
  <2>2. ~(\E shape \in Shapes : Finish(a, shape)) => UNCHANGED <<body, outcome, passed>>
    BY DEF WorkStep, StartWork, AcquireSlot, Brief, Write, Edit, Checked, Detected, Authorized,
           Refused, RefusedAgain, CheckBreaks, Humanize, HumanizeBreaks, RecordDraft, UpdateDraft,
           Fails, StageFails, vars, records
  <2>3. QED
    BY <2>1, <2>2
<1>4. row'[x] = row[x] /\ proc'[x] = proc[x]
  <2>1. WorkStep(a) => \/ UNCHANGED vars \/ AcquireSlot(a) \/ UpdateDraft(a) \/ StageFails(a)
                       \/ \E shape \in Shapes : WriteContent(a)
    BY DEF WorkStep, StartWork, Brief, Write, Edit, Checked, Detected, Authorized,
           Refused, RefusedAgain, CheckBreaks, Humanize, HumanizeBreaks, RecordDraft, Fails, Finish
  <2>2. QED
    BY <1>0, <2>1 DEF vars, AcquireSlot, UpdateDraft, DraftRecorded, StageFails, WriteContent, Goto
<1>5. QED
  BY <1>1, <1>2, <1>3, <1>4, TextKept DEF Unfinished, Unbegun

-----------------------------------------------------------------------------
(* What each stage leaves of the work of its own job.                      *)

LEMMA WritingText ==
  ASSUME PTypeOK, NEW a \in Articles, WorkOK(a),
         Brief(a) \/ (\E v \in Variants \cup {NoVariant} : Write(a, v)) \/ Edit(a)
  PROVE  WorkOK(a)'
<1>0. work[a] \in Work /\ work \in [Articles -> Work] /\ spent \in [Articles -> Nat]
      /\ wrote \in [Articles -> Templates \cup {Nothing}]
  BY DEF PTypeOK
<1>1. /\ scored' = scored /\ spent'[a] = spent[a] + 1 /\ work[a].tokens \in Nat
      /\ work[a].at \in {"brief", "write", "edit"}
  BY <1>0 DEF Brief, Write, Edit, Completes, Charged, In, Work
<1>2. ~Passed(work[a])
  BY <1>1 DEF WorkOK
<1>3. CASE Brief(a)
  <2>1. wrote' = wrote /\ work' = [work EXCEPT ![a] =
           [[work[a] EXCEPT !.at = "write"] EXCEPT !.tokens = [work[a] EXCEPT !.at = "write"].tokens + 1]]
    BY <1>3 DEF Brief, Completes
  <2>2. /\ work'[a].at = "write" /\ work'[a].last = work[a].last /\ work'[a].first = work[a].first
        /\ work'[a].tokens = work[a].tokens + 1
    BY <1>0, <2>1 DEF Work
  <2>3. QED
    BY <1>1, <1>2, <2>1, <2>2 DEF WorkOK, Passed, FirstOK, FoundHuman
<1>4. ASSUME NEW v \in Variants \cup {NoVariant}, Write(a, v) PROVE WorkOK(a)'
  <2> DEFINE w == [work[a] EXCEPT !.at = "edit", !.variant = v]
  <2>1. wrote' = [wrote EXCEPT ![a] = v] /\ work' = [work EXCEPT ![a] = [w EXCEPT !.tokens = w.tokens + 1]]
    BY <1>4 DEF Write, Completes
  <2>2. /\ w.at = "edit" /\ w.last = work[a].last /\ w.first = work[a].first
        /\ w.tokens = work[a].tokens /\ w.variant = v /\ w \in Work
    BY <1>0 DEF Work, Stages, Templates
  <2> HIDE DEF w
  <2>3. /\ work'[a].at = "edit" /\ work'[a].last = work[a].last /\ work'[a].first = work[a].first
        /\ work'[a].tokens = work[a].tokens + 1 /\ work'[a].variant = v
    BY <1>0, <2>1, <2>2 DEF Work
  <2>4. wrote'[a] = v
    BY <1>0, <2>1
  <2>5. QED
    BY <1>1, <1>2, <2>3, <2>4 DEF WorkOK, Passed, FirstOK, FoundHuman
<1>5. CASE Edit(a)
  <2> DEFINE e == [work[a] EXCEPT !.text = 1, !.cycle = 1]
             w == [e EXCEPT !.at = IF e.cycles > 0 THEN "check" ELSE "finish"]
  <2>0. 1 \in Nat /\ 1 \in Int
    OBVIOUS
  <2>1. e \in Work
    BY <1>0, <2>0, TextType, Zenon
  <2>2. /\ e.last = work[a].last /\ e.first = work[a].first /\ e.text = 1
        /\ e.tokens = work[a].tokens /\ e.variant = work[a].variant
    BY <1>0 DEF Work
  <2>3. wrote' = wrote /\ work' = [work EXCEPT ![a] = [w EXCEPT !.tokens = w.tokens + 1]]
    BY <1>5 DEF Edit, Completes
  <2>4. IF e.cycles > 0 THEN "check" \in Stages ELSE "finish" \in Stages
    BY DEF Stages
  <2> HIDE DEF e
  <2>5. /\ w.last = work[a].last /\ w.first = work[a].first /\ w.text = 1
        /\ w.tokens = work[a].tokens /\ w.variant = work[a].variant
        /\ w.at \in {"check", "finish"} /\ w \in Work
    BY <2>1, <2>2, <2>4 DEF Work
  <2> HIDE DEF w
  <2>6. /\ work'[a].last = work[a].last /\ work'[a].first = work[a].first /\ work'[a].text = 1
        /\ work'[a].tokens = work[a].tokens + 1 /\ work'[a].variant = work[a].variant
        /\ work'[a].at \in {"check", "finish"}
    BY <1>0, <2>3, <2>5 DEF Work
  <2>7. work[a].variant = wrote[a]
    BY <1>5 DEF Edit, In, WorkOK
  <2>8. QED
    BY <1>1, <1>2, <2>3, <2>6, <2>7 DEF WorkOK, Passed, FirstOK, FoundHuman
<1>6. QED
  BY <1>3, <1>4, <1>5

\* A verdict is of the text it was given for; the first is of the first text.
LEMMA VerdictText ==
  ASSUME PTypeOK, NEW a \in Articles, WorkOK(a), NEW mark \in Marks, Verdict(a, mark),
         work[a].at \in {"check", "detect", "redetect"}, UNCHANGED <<wrote, spent>>
  PROVE  WorkOK(a)'
<1>0. work[a] \in Work /\ work \in [Articles -> Work] /\ scored \in [Articles -> SUBSET (Nat \X Marks)]
  BY DEF PTypeOK
<1> DEFINE w == work[a]
           v == [text |-> w.text, score |-> Cut(mark), original |-> PassesFor(Cut(mark))]
<1>1. /\ work'[a].last = v /\ work'[a].first = FirstScore(w, Cut(mark))
      /\ work'[a].at = AfterVerdict(w, PassesFor(Cut(mark))) /\ work'[a].text = w.text
      /\ work'[a].variant = w.variant /\ work'[a].tokens = w.tokens
  BY <1>0 DEF Verdict, Work
<1>2. scored'[a] = scored[a] \cup {<<w.text, mark>>}
  BY <1>0 DEF Verdict
<1>3. Cut(mark) # Nothing /\ Cut(mark) \in Int
  BY PipelineAssumption DEF Cut
<1>4. PassesFor(Cut(mark)) => mark < 10 * Threshold
  <2>1. mark \in 0..1000 /\ Threshold \in 0..100
    BY PipelineAssumption
  <2>2. QED
    BY <2>1 DEF PassesFor, Cut
<1>5. FirstOK(a, w.first) /\ (w.first = Nothing => w.text = 1) /\ w.variant = wrote[a]
      /\ w.tokens = spent[a]
  BY DEF WorkOK
<1>6. FirstOK(a, work[a].first)'
  <2>1. CASE w.first = Nothing
    <3>1. work'[a].first = Cut(mark) /\ <<1, mark>> \in scored'[a]
      BY <1>1, <1>2, <1>5, <2>1 DEF FirstScore
    <3>2. QED
      BY <1>1, <1>3, <3>1 DEF FirstOK
  <2>2. CASE w.first # Nothing
    BY <1>1, <1>2, <1>5, <2>2 DEF FirstOK, FirstScore
  <2>3. QED
    BY <2>1, <2>2
<1>7. work'[a].first # Nothing
  BY <1>1, <1>3 DEF FirstScore
<1>8. Passed(work'[a]) => work'[a].at = "finish" /\ FoundHuman(a, work[a].text)'
  <2>1. Passed(work'[a]) => PassesFor(Cut(mark))
    BY <1>1 DEF Passed
  <2>2. PassesFor(Cut(mark)) => work'[a].at = "finish"
    BY <1>1 DEF AfterVerdict
  <2>3. PassesFor(Cut(mark)) => FoundHuman(a, work[a].text)'
    BY <1>1, <1>2, <1>4 DEF FoundHuman
  <2>4. QED
    BY <2>1, <2>2, <2>3
<1>9. work'[a].at \in {"finish", "humanize"}
  BY <1>1 DEF AfterVerdict
<1>10. QED
  BY <1>1, <1>5, <1>6, <1>7, <1>8, <1>9 DEF WorkOK

\* A step of a check that brings no verdict moves the work on, or ends it.
LEMMA CheckingText ==
  ASSUME PTypeOK, NEW a \in Articles, WorkOK(a),
         Authorized(a) \/ Refused(a) \/ RefusedAgain(a) \/ CheckBreaks(a)
  PROVE  WorkOK(a)'
<1>0. work[a] \in Work /\ work \in [Articles -> Work]
  BY DEF PTypeOK
<1>1. /\ work[a].at \in {"check", "detect", "again", "redetect"}
      /\ UNCHANGED <<scored, wrote, spent>>
  BY DEF Authorized, Refused, RefusedAgain, CheckBreaks, In
<1>2. \E s \in {"detect", "again", "redetect", "finish"} : \E n :
         work' = [work EXCEPT ![a] = [work[a] EXCEPT !.at = s, !.tok = n]]
  <2>1. CASE Authorized(a)
    BY <2>1 DEF Authorized
  <2>2. CASE Refused(a) \/ RefusedAgain(a) \/ CheckBreaks(a)
    BY <2>2 DEF Refused, RefusedAgain, CheckBreaks
  <2>3. QED
    BY <2>1, <2>2
<1>2a. PICK s \in {"detect", "again", "redetect", "finish"} : \E n :
         work' = [work EXCEPT ![a] = [work[a] EXCEPT !.at = s, !.tok = n]]
  BY <1>2
<1>2b. PICK n : work' = [work EXCEPT ![a] = [work[a] EXCEPT !.at = s, !.tok = n]]
  BY <1>2a
<1>3. /\ work'[a].at = s /\ work'[a].last = work[a].last /\ work'[a].first = work[a].first
      /\ work'[a].text = work[a].text /\ work'[a].variant = work[a].variant
      /\ work'[a].tokens = work[a].tokens
  BY <1>0, <1>2b DEF Work
<1>4. ~Passed(work[a])
  BY <1>1 DEF WorkOK
<1>5. QED
  BY <1>1, <1>3, <1>4 DEF WorkOK, Passed, FirstOK, FoundHuman

LEMMA HumanizingText ==
  ASSUME PTypeOK, NEW a \in Articles, WorkOK(a), Humanize(a) \/ HumanizeBreaks(a)
  PROVE  WorkOK(a)'
<1>0. work[a] \in Work /\ work \in [Articles -> Work] /\ spent \in [Articles -> Nat]
  BY DEF PTypeOK
<1>1. work[a].at = "humanize" /\ UNCHANGED <<scored, wrote>>
  BY DEF Humanize, HumanizeBreaks, In
<1>2. ~Passed(work[a]) /\ work[a].first # Nothing /\ work[a].variant = wrote[a]
      /\ work[a].tokens = spent[a]
  BY <1>1 DEF WorkOK
<1>3. CASE Humanize(a)
  <2> DEFINE w == [work[a] EXCEPT !.at = "check", !.cycle = @ + 1, !.text = @ + 1]
  <2>1. work[a].cycle + 1 \in Int /\ work[a].text + 1 \in Nat /\ "check" \in Stages
    BY <1>0 DEF Work, Stages
  <2>2. /\ w \in Work /\ w.at = "check" /\ w.last = work[a].last /\ w.first = work[a].first
        /\ w.variant = work[a].variant /\ w.tokens = work[a].tokens
    BY <1>0, <2>1 DEF Work
  <2>3. Completes(a, w)
    BY <1>3 DEF Humanize
  <2> HIDE DEF w
  <2>4. work' = [work EXCEPT ![a] = [w EXCEPT !.tokens = w.tokens + 1]]
        /\ spent'[a] = spent[a] + 1
    BY <1>0, <2>3 DEF Completes, Charged
  <2>5. /\ work'[a].at = "check" /\ work'[a].last = work[a].last /\ work'[a].first = work[a].first
        /\ work'[a].variant = work[a].variant /\ work'[a].tokens = spent'[a]
    BY <1>0, <1>2, <2>2, <2>4 DEF Work
  <2>6. QED
    BY <1>1, <1>2, <2>5 DEF WorkOK, Passed, FirstOK, FoundHuman
<1>4. CASE HumanizeBreaks(a)
  <2> DEFINE w == [work[a] EXCEPT !.at = "finish"]
  <2>0. "finish" \in Stages
    BY DEF Stages
  <2>1. /\ w.at = "finish" /\ w.last = work[a].last /\ w.first = work[a].first
        /\ w.variant = work[a].variant /\ w.tokens = work[a].tokens /\ w \in Work
    BY <1>0, <2>0 DEF Work
  <2>2. Completes(a, w) \/ (work' = [work EXCEPT ![a] = w] /\ spent' = spent)
    BY <1>4 DEF HumanizeBreaks, CostCounted
  <2> HIDE DEF w
  <2>3. /\ work'[a].at = "finish" /\ work'[a].last = work[a].last /\ work'[a].first = work[a].first
        /\ work'[a].variant = work[a].variant /\ work'[a].tokens = spent'[a]
    <3>1. CASE Completes(a, w)
      <4>1. work' = [work EXCEPT ![a] = [w EXCEPT !.tokens = w.tokens + 1]]
            /\ spent'[a] = spent[a] + 1
        BY <1>0, <3>1 DEF Completes, Charged
      <4>2. QED
        BY <1>0, <1>2, <2>1, <4>1 DEF Work
    <3>2. CASE work' = [work EXCEPT ![a] = w] /\ spent' = spent
      <4>1. work'[a] = w
        BY <1>0, <3>2
      <4>2. QED
        BY <1>2, <2>1, <3>2, <4>1
    <3>3. QED
      BY <2>2, <3>1, <3>2
  <2>4. QED
    BY <1>1, <1>2, <2>3 DEF WorkOK, Passed, FirstOK, FoundHuman
<1>5. QED
  BY <1>3, <1>4

\* A job that gets its slot begins with nothing.
LEMMA StartText ==
  ASSUME PTypeOK, SiteInv, NEW a \in Articles, TextOK(a), NEW n \in AskedCycles, StartWork(a, n)
  PROVE  TextOK(a)' /\ CreditTie(a)'
<1>0. work \in [Articles -> Work] /\ proc \in [Callers -> Proc] /\ a \in Callers
  BY DEF PTypeOK, SiteInv, TypeOK, Callers
<1>1. /\ proc[a].pc = "queued" /\ proc'[a].pc = "content" /\ row' = row /\ passed' = passed
  BY <1>0 DEF StartWork, AcquireSlot, At, Goto, Proc
<1>2. row[a].status # "none"
  BY <1>1, JobHasRow
<1>3. /\ a \notin passed /\ outcome[a] = Nothing /\ scored[a] = {} /\ spent[a] = 0
      /\ UNCHANGED <<outcome, scored, spent, body>>
  BY <1>1 DEF TextOK, Unfinished, Unbegun, StartWork, records
<1>4. /\ work'[a].at = "brief" /\ work'[a].last = Nothing /\ work'[a].first = Nothing
      /\ work'[a].tokens = 0
  BY <1>0 DEF StartWork, Blank
<1>5. WorkOK(a)'
  BY <1>3, <1>4 DEF WorkOK, Passed, FirstOK
<1>6. QED
  BY <1>1, <1>2, <1>3, <1>5 DEF TextOK, Unfinished, Unbegun, CreditTie

\* The end of a text: its verdict, its score and its costs go where they belong.
LEMMA FinishText ==
  ASSUME PTypeOK, SiteInv, NEW a \in Articles, TextOK(a), NEW shape \in Shapes, Finish(a, shape)
  PROVE  TextOK(a)' /\ CreditTie(a)'
<1>0. /\ proc \in [Callers -> Proc] /\ a \in Callers /\ work[a] \in Work
      /\ outcome \in [Articles -> Outcome \cup {Nothing}]
      /\ body \in [Articles -> Revision \cup {Nothing}]
  BY DEF PTypeOK, SiteInv, TypeOK, Callers
<1> DEFINE w == work[a]
<1>1. /\ proc[a].pc = "content" /\ proc'[a].pc = "draft" /\ row' = row /\ w.at = "finish"
      /\ UNCHANGED <<scored, wrote, spent>>
  BY <1>0 DEF Finish, WriteContent, At, Goto, Proc, In
<1>2. row[a].status # "none"
  BY <1>1, JobHasRow
<1>3. WorkOK(a) /\ a \notin passed /\ outcome[a] = Nothing
  BY <1>1 DEF TextOK, Unfinished
<1>4. body'[a] = [text |-> w.text, shape |-> shape]
  BY <1>0 DEF Finish, RevisionOf
<1>5. a \in passed' => FoundHuman(a, body[a].text)'
  <2>1. a \in passed' => Passed(w)
    BY <1>3 DEF Finish
  <2>2. Passed(w) => FoundHuman(a, w.text)
    BY <1>3 DEF WorkOK
  <2>3. QED
    BY <1>1, <1>4, <2>1, <2>2 DEF FoundHuman
<1>6. TextOK(a)'
  BY <1>1, <1>2, <1>5 DEF TextOK, Unfinished, Unbegun
<1>7. CreditTie(a)'
  <2>1. CASE outcome' = outcome
    BY <1>3, <2>1 DEF CreditTie
  <2>2. CASE SaveOutcome(a, OutcomeOf(w, shape))
    <3>1. outcome'[a] = OutcomeOf(w, shape)
      BY <1>0, <2>2 DEF SaveOutcome
    <3>2. /\ outcome'[a].variant = w.variant /\ outcome'[a].score = w.first
          /\ outcome'[a].cycles = w.text - 1 /\ outcome'[a].tokens = w.tokens
          /\ outcome'[a].quality = QualityFloor(shape)
      BY <3>1 DEF OutcomeOf
    <3>3. FirstOK(a, w.first) /\ w.variant = wrote[a] /\ w.tokens = spent[a]
      BY <1>1, <1>3 DEF WorkOK
    <3>4. QED
      BY <1>1, <1>4, <3>2, <3>3 DEF CreditTie, FirstOK
  <2>3. QED
    BY <2>1, <2>2 DEF Finish
<1>8. QED
  BY <1>6, <1>7

\* The draft's record, and a stage that fails, leave the text.
LEMMA EndText ==
  ASSUME PTypeOK, SiteInv, NEW a \in Articles, TextOK(a), CreditTie(a), RecordDraft(a) \/ Fails(a)
  PROVE  TextOK(a)' /\ CreditTie(a)'
<1>0. proc \in [Callers -> Proc] /\ row \in [Articles -> Row] /\ a \in Callers
  BY DEF SiteInv, TypeOK, Callers
<1>1. UNCHANGED <<scored, wrote, spent, body, outcome, passed>>
  BY DEF RecordDraft, UpdateDraft, Fails, StageFails, records
<1>2. proc'[a].pc \notin {"queued", "content"}
  BY <1>0 DEF RecordDraft, UpdateDraft, Fails, StageFails, Goto, Proc, Idle
<1>3. row'[a].status = "none" => row[a].status = "none"
  BY <1>0, ZenonT(40) DEF RecordDraft, UpdateDraft, DraftRecorded, Fails, StageFails, Row
<1>4. QED
  BY <1>1, <1>2, <1>3, TextKept DEF Unfinished, Unbegun

\* A rating changes of an outcome its reward alone.
LEMMA RateText ==
  ASSUME PTypeOK, TextInv, NEW u \in Raters, RatingStep(u)
  PROVE  TextInv'
<1>1. UNCHANGED <<row, proc, passed, body, scored, wrote, spent, work>>
  BY DEF RatingStep, Rate, RateOutcome, vars, stages
<1>2. CASE outcome' = outcome
  BY <1>1, <1>2, TextKept DEF TextInv, CreditTies, Unfinished, Unbegun
<1>3. ASSUME NEW a \in Articles, NEW r \in Ratings, UpdateOutcomeReward(a, r)
      PROVE  TextInv'
  <2>0. outcome \in [Articles -> Outcome \cup {Nothing}] /\ outcome[a] # Nothing
    BY <1>3 DEF PTypeOK, UpdateOutcomeReward
  <2> DEFINE o == outcome[a]
             p == [o EXCEPT !.reward = RewardOf(o, r)]
  <2>1. outcome' = [outcome EXCEPT ![a] = p]
    BY <1>3 DEF UpdateOutcomeReward
  <2>2. /\ p.variant = o.variant /\ p.score = o.score /\ p.cycles = o.cycles
        /\ p.quality = o.quality /\ p.tokens = o.tokens
    BY <2>0 DEF Outcome
  <2> HIDE DEF p
  <2>3. /\ outcome'[a] = p /\ \A x \in Articles \ {a} : outcome'[x] = outcome[x]
    BY <2>0, <2>1
  <2>4. CreditTie(a)'
    BY <1>1, <2>0, <2>2, <2>3 DEF TextInv, CreditTies, CreditTie
  <2>5. TextOK(a)'
    BY <1>1, <2>0 DEF TextInv, TextOK, Unfinished, Unbegun, WorkOK, FirstOK, FoundHuman
  <2>6. ASSUME NEW x \in Articles \ {a} PROVE TextOK(x)' /\ CreditTie(x)'
    BY <1>1, <2>3, TextKept DEF TextInv, CreditTies, Unfinished, Unbegun
  <2>7. QED
    BY <2>4, <2>5, <2>6 DEF TextInv, CreditTies
<1>4. ASSUME NEW ok \in BOOLEAN, RateOutcome(u, ok)
      PROVE  outcome' = outcome \/ \E a \in Articles, r \in Ratings : UpdateOutcomeReward(a, r)
  <2>1. call[u] \in Call
    BY <1>4 DEF RateOutcome, PTypeOK
  <2>2. call[u].art \in Articles /\ call[u].rating \in Ratings
    BY <2>1 DEF Call
  <2>3. QED
    BY <1>4, <2>2 DEF RateOutcome
<1>5. ASSUME NEW a \in Articles, NEW r \in Ratings, Rate(u, a, r) PROVE outcome' = outcome
  BY <1>5 DEF Rate, records
<1>6. QED
  BY <1>2, <1>3, <1>4, <1>5 DEF RatingStep, Ratings

\* A step of a job, as its own article sees it.
LEMMA OwnText ==
  ASSUME PTypeOK, SiteInv, NEW a \in Articles, TextOK(a), CreditTie(a), WorkStep(a)
  PROVE  TextOK(a)' /\ CreditTie(a)'
<1>1. ASSUME NEW n \in AskedCycles, StartWork(a, n) PROVE TextOK(a)' /\ CreditTie(a)'
  BY <1>1, StartText
<1>2. ASSUME NEW shape \in Shapes, Finish(a, shape) PROVE TextOK(a)' /\ CreditTie(a)'
  BY <1>2, FinishText
<1>3. CASE RecordDraft(a) \/ Fails(a)
  BY <1>3, EndText
<1> DEFINE Writes == Brief(a) \/ (\E v \in Variants \cup {NoVariant} : Write(a, v)) \/ Edit(a)
           Checks == Authorized(a) \/ Refused(a) \/ RefusedAgain(a) \/ CheckBreaks(a)
           Rewrites == Humanize(a) \/ HumanizeBreaks(a)
<1>4. ASSUME Writes \/ Checks \/ Rewrites \/ \E mark \in Marks : Checked(a, mark) \/ Detected(a, mark)
      PROVE  TextOK(a)' /\ CreditTie(a)'
  <2>1. proc[a].pc = "content" /\ UNCHANGED <<vars, outcome>>
    BY <1>4 DEF Brief, Write, Edit, Checked, Detected, Authorized, Refused, RefusedAgain,
                CheckBreaks, Humanize, HumanizeBreaks, In, records
  <2>2. WorkOK(a)
    BY <2>1 DEF TextOK
  <2>3. Writes => WorkOK(a)'
    BY <2>2, WritingText
  <2>4. Checks => WorkOK(a)'
    BY <2>2, CheckingText
  <2>5. Rewrites => WorkOK(a)'
    BY <2>2, HumanizingText
  <2>6. ASSUME NEW mark \in Marks, Checked(a, mark) \/ Detected(a, mark) PROVE WorkOK(a)'
    <3>1. /\ Verdict(a, mark) /\ work[a].at \in {"check", "detect", "redetect"}
          /\ UNCHANGED <<wrote, spent>>
      BY <2>6 DEF Checked, Detected, In
    <3>2. QED
      BY <2>2, <3>1, VerdictText
  <2>7. WorkOK(a)'
    BY <1>4, <2>3, <2>4, <2>5, <2>6
  <2>8. QED
    BY <2>1, <2>7, TextGoesOn
<1>5. QED
  BY <1>1, <1>2, <1>3, <1>4 DEF WorkStep

LEMMA NextText ==
  ASSUME PTypeOK, SiteInv, TextInv, [PNext]_allVars PROVE TextInv'
<1>1. ASSUME NEW a \in Articles, WorkStep(a) PROVE TextInv'
  <2>1. TextOK(a)' /\ CreditTie(a)'
    BY <1>1, OwnText DEF TextInv, CreditTies
  <2>2. ASSUME NEW x \in Articles \ {a} PROVE TextOK(x)' /\ CreditTie(x)'
    BY <1>1, OtherTexts DEF TextInv, CreditTies
  <2>3. QED
    BY <2>1, <2>2 DEF TextInv, CreditTies
<1>2. CASE Asks \/ Drafting \/ Publishing
  <2>1. UNCHANGED <<body, outcome, scored, wrote, spent, work>>
    BY <1>2 DEF Asks, Drafting, Publishing, pvars, stages, records
  <2>2. ASSUME NEW x \in Articles PROVE TextOK(x)' /\ CreditTie(x)'
    <3>1. /\ passed' = passed /\ (Unfinished(x)' => Unfinished(x)) /\ (Unbegun(x)' => Unbegun(x))
          /\ proc'[x].pc # "content" \/ proc[x].pc = "content"
      BY <1>2, LifecycleKeepsTexts
    <3>2. QED
      BY <2>1, <3>1, TextKept DEF TextInv, CreditTies
  <2>3. QED
    BY <2>2 DEF TextInv, CreditTies
<1>3. CASE Dies
  <2>1. UNCHANGED <<body, outcome, scored, wrote, spent>> /\ Crash
    BY <1>3 DEF Dies, records
  <2>2. ASSUME NEW x \in Articles PROVE TextOK(x)' /\ CreditTie(x)'
    <3>1. passed' = passed /\ (Unfinished(x)' => Unfinished(x)) /\ (Unbegun(x)' => Unbegun(x))
      BY <2>1, LifecycleKeepsTexts
    <3>2. proc'[x].pc # "content"
      BY <2>1 DEF Crash, Idle, Callers
    <3>3. QED
      BY <2>1, <3>1, <3>2, TextKept DEF TextInv, CreditTies
  <2>3. QED
    BY <2>2 DEF TextInv, CreditTies
<1>4. CASE TokenDies \/ UNCHANGED allVars
  <2>1. UNCHANGED <<row, proc, passed, body, outcome, scored, wrote, spent, work>>
    BY <1>4 DEF TokenDies, allVars, pvars, vars, stages, records
  <2>2. ASSUME NEW x \in Articles PROVE TextOK(x)' /\ CreditTie(x)'
    BY <2>1, TextKept DEF TextInv, CreditTies, Unfinished, Unbegun
  <2>3. QED
    BY <2>2 DEF TextInv, CreditTies
<1>5. ASSUME NEW u \in Raters, RatingStep(u) PROVE TextInv'
  BY <1>5, RateText
<1>6. QED
  BY <1>1, <1>2, <1>3, <1>4, <1>5 DEF PNext

LEMMA TextsHold == PSpec => [](PTypeOK /\ SiteInv /\ TextInv)
<1>1. PTypeOK /\ SiteInv /\ TextInv /\ [PNext]_allVars => TextInv'
  BY NextText
<1>2. QED
  BY <1>1, InitText, PipelineTypes, PipelineImplementsLifecycle, SiteCorrect, PTL DEF PSpec

\* Nothing goes live unasked that the checker did not find human, in the very text
\* of its draft (checkAndHumanize, passed).
THEOREM OnlyCheckedGoesLive == PSpec => []LiveTextChecked
<1>1. SiteInv /\ TextInv => LiveTextChecked
  <2> SUFFICES ASSUME SiteInv, TextInv, NEW p \in Posts, wp[p].state = "published"
               PROVE  wp[p].of \in asked \/ FoundHuman(wp[p].of, body[wp[p].of].text)
    BY DEF LiveTextChecked, FoundHuman
  <2>1. wp[p].of \in Articles
    BY DEF SiteInv, PostInv, TypeOK, Post
  <2>2. wp[p].of \in asked \/ wp[p].of \in passed
    BY DEF SiteInv, LiveOnPurpose
  <2>3. QED
    BY <2>1, <2>2 DEF TextInv, TextOK
<1>2. QED
  BY <1>1, TextsHold, PTL

-----------------------------------------------------------------------------
(* Ratings: what the rating and the reward of an article have to do with   *)
(* each other.                                                             *)

LEMMA InitRating == PInit => RatingInv
  BY DEF PInit, Init, NoRow, RatingInv, RatingOK, Pending

\* The process a step of a call belongs to publishes an article that has a row.
LEMMA CallHasRow ==
  ASSUME SiteInv, NEW c \in Callers, proc[c].pc \in PublishPCs
  PROVE  proc[c].art \in Articles /\ row[proc[c].art].status # "none"
  BY DEF SiteInv, PublishInv, PublishOK, RowInv

\* Nothing but a request makes a row, and nothing takes one away.
LEMMA RowsStay ==
  ASSUME SiteInv, Drafting \/ Publishing \/ Crash \/ (\E a \in Articles : WorkStep(a))
  PROVE  \A x \in Articles : row'[x].status = "none" <=> row[x].status = "none"
<1>0. row \in [Articles -> Row] /\ proc \in [Callers -> Proc] /\ Articles \subseteq Callers
  BY DEF SiteInv, TypeOK, Callers
<1> DEFINE Stay == \A x \in Articles : row'[x].status = "none" <=> row[x].status = "none"
<1>1. ASSUME NEW a \in Articles, proc[a].pc # "idle",
             \/ row' = row \/ DraftRecorded(a) \/ row' = [row EXCEPT ![a].status = "failed"]
      PROVE  Stay
  <2>1. row[a].status # "none"
    BY <1>1, JobHasRow
  <2>2. row'[a].status # "none" /\ \A x \in Articles \ {a} : row'[x] = row[x]
    BY <1>0, <1>1, <2>1 DEF DraftRecorded, Row
  <2>3. QED
    BY <2>1, <2>2
<1>2. ASSUME NEW a \in Articles, WorkStep(a) PROVE Stay
  <2>1. row' = row \/ (DraftRecorded(a) /\ proc[a].pc # "idle")
    BY <1>2 DEF WorkStep, StartWork, AcquireSlot, Brief, Write, Edit, Checked, Detected, Authorized,
           Refused, RefusedAgain, CheckBreaks, Humanize, HumanizeBreaks, RecordDraft, UpdateDraft,
           Fails, StageFails, Finish, WriteContent, At, vars
  <2>2. QED
    BY <1>1, <2>1
<1>3. CASE Drafting
  <2>1. PICK a \in Articles :
           (\E p \in Posts, lost \in BOOLEAN : CreateDraft(a, p, lost)) \/ MarkFailed(a)
    BY <1>3 DEF Drafting
  <2>2. row' = row \/ (row' = [row EXCEPT ![a].status = "failed"] /\ proc[a].pc # "idle")
    BY <2>1 DEF CreateDraft, MarkFailed, At
  <2>3. QED
    BY <1>1, <2>2
<1>4. ASSUME NEW a \in Articles, UpdateDraftFails(a) \/ AutoPublishRefused(a) PROVE Stay
  <2>1. row' = row \/ (DraftRecorded(a) /\ proc[a].pc # "idle")
    BY <1>4 DEF UpdateDraftFails, AutoPublishRefused, At
  <2>2. QED
    BY <1>1, <2>1
<1>5. ASSUME NEW c \in Callers, PublishStep(c) \/ MarkPublishedFails(c) PROVE Stay
  <2>1. row' = row \/ (MarkedPublished(proc[c].art) /\ proc[c].pc = "mark")
    BY <1>5 DEF PublishStep, PublishGoes, PublishPost, PublishPostFails, MarkPublished,
                MarkPublishedFails, RereadArticle, At
  <2>2. ASSUME MarkedPublished(proc[c].art), proc[c].pc = "mark" PROVE Stay
    <3>1. proc[c].art \in Articles /\ row[proc[c].art].status # "none"
      BY <2>2, CallHasRow DEF PublishPCs
    <3>2. row'[proc[c].art].status = "published"
          /\ \A x \in Articles \ {proc[c].art} : row'[x] = row[x]
      BY <1>0, <2>2, <3>1 DEF MarkedPublished, Row
    <3>3. QED
      BY <3>1, <3>2
  <2>3. QED
    BY <2>1, <2>2
<1>6. CASE Boot
  BY <1>0, <1>6 DEF Boot, OrphansFailed, Row
<1>7. CASE Publishing
  BY <1>4, <1>5, <1>6, <1>7 DEF Publishing
<1>8. CASE Crash
  BY <1>8 DEF Crash
<1>9. QED
  BY <1>2, <1>3, <1>7, <1>8

\* A step that leaves calls, ratings and outcomes, and makes no row.
LEMMA RatesKept ==
  ASSUME RatingInv, UNCHANGED <<call, human, muddled, outcome, focus>>,
         \A x \in Articles : row'[x].status = "none" <=> row[x].status = "none", PTypeOK
  PROVE  RatingInv'
<1>1. \A u \in Raters : call[u] # Nothing => call[u].art \in Articles
  BY DEF PTypeOK, Call
<1>2. \A a \in Articles : RatingOK(a)'
  BY DEF RatingInv, RatingOK, Pending
<1>3. QED
  BY <1>1, <1>2 DEF RatingInv

\* The row comes first: of what a request may be about there is then only one.
LEMMA AsksRating == ASSUME PTypeOK, SiteInv, RatingInv, Asks PROVE RatingInv'
<1>1. PICK a \in Articles, t \in DirectTopics, auto \in AutoChoices :
         Generate(a, t, auto) /\ (focus # "checker" => \A b \in Articles : row[b].status = "none")
  BY DEF Asks
<1>2. row \in [Articles -> Row] /\ \A x \in Articles \ {a} : row'[x] = row[x]
  BY <1>1 DEF Generate, CreateArticle, SiteInv, TypeOK
<1>3. UNCHANGED <<call, human, muddled, outcome, focus>>
  BY DEF Asks, pvars, records, rates
<1>4. \A b \in Articles : RatingOK(b)'
  BY <1>3 DEF RatingInv, RatingOK, Pending
<1>5. \A u \in Raters : call[u] = Nothing
  <2>1. \A u \in Raters : call[u] # Nothing => call[u].art \in Articles
    BY DEF PTypeOK, Call
  <2>2. QED
    BY <1>1, <2>1 DEF RatingInv
<1>6. QED
  BY <1>1, <1>2, <1>3, <1>4, <1>5 DEF RatingInv

\* A rating that comes while no other is on its way sets things right again.
LEMMA RateRating ==
  ASSUME PTypeOK, RatingInv, NEW u \in Raters, NEW a \in Articles, NEW r \in Ratings, Rate(u, a, r)
  PROVE  RatingInv'
<1> DEFINE k == [art |-> a, rating |-> r]
<1>0. /\ human \in [Articles -> Ratings] /\ call \in [Raters -> Call \cup {Nothing}]
  BY DEF PTypeOK
<1>1. /\ UNCHANGED <<row, outcome, focus>> /\ focus = "ratings"
      /\ row[a].status # "none" /\ call[u] = Nothing
  BY DEF Rate, vars, records
<1>2. human'[a] = r /\ \A x \in Articles \ {a} : human'[x] = human[x]
  BY <1>0 DEF Rate, SetHumanRating
<1>3. call'[u] = k /\ \A x \in Raters \ {u} : call'[x] = call[x]
  BY <1>0 DEF Rate
<1>4. muddled' = IF \E x \in Raters : Pending(x, a) THEN muddled \cup {a} ELSE muddled \ {a}
  BY DEF Rate, Pending
<1>5. k # Nothing /\ k.art = a /\ k.rating = r
  <2>1. k \in [art: Articles, rating: {"like", "dislike", Nothing}]
    BY DEF Ratings
  <2>2. Nothing \notin [art: Articles, rating: {"like", "dislike", Nothing}]
    BY PipelineAssumption
  <2>3. k # Nothing
    BY <2>1, <2>2, Zenon
  <2>4. QED
    BY <2>3
<1> HIDE DEF k
<1>6. RatingOK(a)'
  <2>1. CASE \E x \in Raters : Pending(x, a)
    BY <1>4, <2>1 DEF RatingOK
  <2>2. CASE ~\E x \in Raters : Pending(x, a)
    <3>1. \A x \in Raters : Pending(x, a)' => x = u
      BY <1>3, <2>2 DEF Pending
    <3>2. Pending(u, a)' /\ call'[u].rating = human'[a]
      BY <1>2, <1>3, <1>5 DEF Pending
    <3>3. QED
      BY <3>1, <3>2 DEF RatingOK
  <2>3. QED
    BY <2>1, <2>2
<1>7. ASSUME NEW b \in Articles \ {a} PROVE RatingOK(b)'
  <2>1. \A x \in Raters : Pending(x, b)' <=> Pending(x, b)
    BY <1>1, <1>3, <1>5 DEF Pending
  <2>2. \A x \in Raters : Pending(x, b) => call'[x] = call[x]
    BY <1>1, <1>3 DEF Pending
  <2>3. b \notin muddled' => b \notin muddled
    BY <1>4
  <2>4. RatingOK(b)
    BY DEF RatingInv
  <2>5. QED
    BY <1>1, <1>2, <2>1, <2>2, <2>3, <2>4 DEF RatingOK
<1>8. \A x \in Raters : call'[x] # Nothing =>
          focus' = "ratings" /\ row'[call'[x].art].status # "none"
  BY <1>1, <1>3, <1>5 DEF RatingInv
<1>9. QED
  BY <1>1, <1>6, <1>7, <1>8 DEF RatingInv

\* The statement after it writes what the article says, if nothing came between.
LEMMA RateOutcomeRating ==
  ASSUME PTypeOK, RatingInv, NEW u \in Raters, NEW ok \in BOOLEAN, RateOutcome(u, ok)
  PROVE  RatingInv'
<1>0. /\ call \in [Raters -> Call \cup {Nothing}]
      /\ outcome \in [Articles -> Outcome \cup {Nothing}]
      /\ muddled \in SUBSET Articles
  BY DEF PTypeOK
<1>a. call[u] # Nothing /\ call[u].art \in Articles /\ UNCHANGED <<row, focus, human>>
  BY <1>0 DEF RateOutcome, Call, vars
<1>b. PICK a \in Articles : a = call[u].art
  BY <1>a
<1>1. call[u] # Nothing /\ UNCHANGED <<row, focus, human>>
  BY <1>a
<1>2. call'[u] = Nothing /\ \A x \in Raters \ {u} : call'[x] = call[x]
  BY <1>0 DEF RateOutcome
<1>3. \A b \in Articles \ {a} : outcome'[b] = outcome[b]
  BY <1>0, <1>b DEF RateOutcome, UpdateOutcomeReward
<1>4. muddled \subseteq muddled'
  BY DEF RateOutcome
<1>5. RatingOK(a)'
  <2> SUFFICES ASSUME a \notin muddled' PROVE RatingOK(a)'
    BY DEF RatingOK
  <2>1. ok /\ outcome[a] # Nothing /\ a \notin muddled
    BY <1>1, <1>4, <1>b DEF RateOutcome
  <2>2. outcome' = [outcome EXCEPT ![a].reward = RewardOf(outcome[a], call[u].rating)]
    BY <1>b, <2>1 DEF RateOutcome, UpdateOutcomeReward
  <2>3. /\ outcome'[a].reward = Reward(call[u].rating, outcome[a].score)
        /\ outcome'[a].score = outcome[a].score
    BY <1>0, <1>1, <2>1, <2>2 DEF RewardOf, Outcome
  <2>4. call[u].rating = human[a] /\ \A x \in Raters : Pending(x, a) => x = u
    BY <1>1, <1>b, <2>1 DEF RatingInv, RatingOK, Pending
  <2>5. \A x \in Raters : ~(Pending(x, a)')
    BY <1>1, <1>2, <2>4 DEF Pending
  <2>6. QED
    BY <1>1, <2>3, <2>4, <2>5 DEF RatingOK
<1>6. ASSUME NEW b \in Articles \ {a} PROVE RatingOK(b)'
  <2>1. \A x \in Raters : Pending(x, b)' <=> Pending(x, b)
    BY <1>1, <1>2, <1>b DEF Pending
  <2>2. \A x \in Raters : Pending(x, b) => call'[x] = call[x]
    BY <1>1, <1>2, <1>b DEF Pending
  <2>3. RatingOK(b)
    BY DEF RatingInv
  <2>4. QED
    BY <1>1, <1>3, <1>4, <2>1, <2>2, <2>3 DEF RatingOK
<1>7. \A x \in Raters : call'[x] # Nothing =>
          focus' = "ratings" /\ row'[call'[x].art].status # "none"
  BY <1>1, <1>2 DEF RatingInv
<1>8. QED
  BY <1>1, <1>5, <1>6, <1>7 DEF RatingInv

\* The outcome comes without a rating, or with one on its way, or marks a mishap.
LEMMA FinishRating ==
  ASSUME PTypeOK, SiteInv, RatingInv, NEW a \in Articles, NEW shape \in Shapes, Finish(a, shape)
  PROVE  RatingInv'
<1>0. /\ call \in [Raters -> Call \cup {Nothing}]
      /\ outcome \in [Articles -> Outcome \cup {Nothing}]
  BY DEF PTypeOK
<1>1. UNCHANGED <<row, focus, human, call>> /\ row[a].status # "none"
  BY JobHasRow DEF Finish, WriteContent, In
<1>2. CASE UNCHANGED <<outcome, muddled>>
  BY <1>1, <1>2, RatesKept
<1>3. CASE SaveOutcome(a, OutcomeOf(work[a], shape))
  <2> DEFINE o == OutcomeOf(work[a], shape)
  <2>1. outcome'[a] = o /\ \A b \in Articles \ {a} : outcome'[b] = outcome[b]
    BY <1>0, <1>3 DEF SaveOutcome
  <2>2. o.reward = Reward(Nothing, o.score)
    BY DEF OutcomeOf
  <2>3. muddled' = IF human[a] # Nothing /\ \A u \in Raters : call[u] = Nothing
                     THEN muddled \cup {a} ELSE muddled
    BY <1>3 DEF SaveOutcome
  <2> HIDE DEF o
  <2>4. \A u \in Raters : call[u] # Nothing => Pending(u, a)
    BY <1>0, <1>1 DEF RatingInv, Pending, Call
  <2>5. RatingOK(a)'
    <3> SUFFICES ASSUME a \notin muddled' PROVE RatingOK(a)'
      BY DEF RatingOK
    <3>1. a \notin muddled /\ (human[a] = Nothing \/ \E u \in Raters : call[u] # Nothing)
      BY <2>3
    <3>2. /\ \A u \in Raters : Pending(u, a) => call[u].rating = human[a]
          /\ \A u, x \in Raters : Pending(u, a) /\ Pending(x, a) => u = x
      BY <3>1 DEF RatingInv, RatingOK
    <3>3. (\A u \in Raters : ~Pending(u, a)) => outcome'[a].reward = Reward(human[a], outcome'[a].score)
      BY <2>1, <2>2, <2>4, <3>1
    <3>4. QED
      BY <1>1, <3>2, <3>3 DEF RatingOK, Pending
  <2>6. ASSUME NEW b \in Articles \ {a} PROVE RatingOK(b)'
    BY <1>1, <2>1, <2>3 DEF RatingInv, RatingOK, Pending
  <2>7. QED
    BY <1>1, <2>5, <2>6 DEF RatingInv
<1>4. QED
  BY <1>2, <1>3 DEF Finish

LEMMA NextRating ==
  ASSUME PTypeOK, SiteInv, RatingInv, [PNext]_allVars PROVE RatingInv'
<1>1. CASE Asks
  BY <1>1, AsksRating
<1>2. CASE Drafting \/ Publishing
  <2>1. UNCHANGED <<call, human, muddled, outcome, focus>>
    BY <1>2 DEF Drafting, Publishing, pvars, records, rates
  <2>2. QED
    BY <1>2, <2>1, RowsStay, RatesKept
<1>3. CASE Dies
  <2>1. Crash /\ UNCHANGED <<human, outcome, focus>> /\ focus = "article"
        /\ call' = [u \in Raters |-> Nothing]
        /\ muddled' = muddled \cup {call[u].art : u \in {x \in Raters : call[x] # Nothing}}
    BY <1>3 DEF Dies, records
  <2>2. \A u \in Raters : call[u] = Nothing
    BY <2>1 DEF RatingInv
  <2>3. call \in [Raters -> Call \cup {Nothing}]
    BY DEF PTypeOK
  <2>4. UNCHANGED <<call, muddled>>
    BY <2>1, <2>2, <2>3
  <2>5. QED
    BY <2>1, <2>4, RowsStay, RatesKept
<1>4. CASE TokenDies \/ UNCHANGED allVars
  <2>1. UNCHANGED <<row, call, human, muddled, outcome, focus>>
    BY <1>4 DEF TokenDies, allVars, pvars, vars, records, rates
  <2>2. QED
    BY <2>1, RatesKept
<1>5. ASSUME NEW a \in Articles, WorkStep(a) PROVE RatingInv'
  <2>1. ASSUME NEW shape \in Shapes, Finish(a, shape) PROVE RatingInv'
    BY <2>1, FinishRating
  <2>2. ASSUME ~(\E shape \in Shapes : Finish(a, shape)) PROVE RatingInv'
    <3>1. UNCHANGED <<call, human, muddled, outcome, focus>>
      BY <1>5, <2>2 DEF WorkStep, StartWork, Brief, Write, Edit, Checked, Detected, Authorized,
             Refused, RefusedAgain, CheckBreaks, Humanize, HumanizeBreaks, RecordDraft,
             Fails, records, rates
    <3>2. QED
      BY <1>5, <3>1, RowsStay, RatesKept
  <2>3. QED
    BY <2>1, <2>2
<1>6. ASSUME NEW u \in Raters, RatingStep(u) PROVE RatingInv'
  BY <1>6, RateRating, RateOutcomeRating DEF RatingStep, Ratings
<1>7. QED
  BY <1>1, <1>2, <1>3, <1>4, <1>5, <1>6 DEF PNext

\* What prompts are judged by is about the variant that wrote the article, about the
\* text it wrote, and about its last rating (recordWriterOutcome, RateArticle).
THEOREM OutcomesTie == PSpec => []OutcomeTies
<1>1. PTypeOK /\ SiteInv /\ RatingInv /\ [PNext]_allVars => RatingInv'
  BY NextRating
<1>2. TextInv /\ RatingInv => OutcomeTies
  <2>1. RatingInv => RatingTies
    BY DEF RatingInv, RatingOK, RatingTies, Pending
  <2>2. QED
    BY <2>1 DEF TextInv, OutcomeTies
<1>3. QED
  BY <1>1, <1>2, InitRating, TextsHold, PTL DEF PSpec
=============================================================================
