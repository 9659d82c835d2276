-------------------------- MODULE ArticleLifecycle --------------------------
(***************************************************************************)
(* The life of an article row in internal/application/articles: POST       *)
(* /generate and POST /generate/batch create rows in status "generating"   *)
(* and start one background job per row; the job writes the text, creates  *)
(* a draft on the site (WordPress or MODX), records it, and may publish it *)
(* itself; meanwhile staff publish drafts by POST /articles/{id}/publish.  *)
(* The process may die at any point and reconciles its rows on boot.       *)
(*                                                                         *)
(* A caller of publish() is a client or the job of an article, and both    *)
(* run the same four steps: read the row, call the site, claim the row,    *)
(* read it back.                                                           *)
(***************************************************************************)
EXTENDS Integers, FiniteSets

CONSTANTS
    Articles,      \* article ids (bounds the number of rows ever created)
    Topics,        \* topics of one site's sheet
    DirectTopics,  \* topics POST /generate asks for by name
    Posts,         \* post ids of the site (bounds the posts it ever creates)
    Clients,       \* concurrent POST /publish requests
    Batches,       \* concurrent POST /generate/batch requests
    BatchSize,     \* count of a batch request, at most maxBatchCount
    Slots,         \* APP_BACKGROUND_JOB_CONCURRENCY, 0 = no limit
    AutoChoices,   \* values of auto_publish the requests carry
    DBErrors,      \* may a database statement fail?
    AckLoss,       \* may it be applied and yet reported as failed?
    MaxCrashes,    \* bound on process crashes
    NoArticle, NoPost, NoTopic

ASSUME BoundsAssumption ==
    /\ Slots \in Nat /\ BatchSize \in Nat /\ MaxCrashes \in Nat
    /\ AutoChoices \subseteq BOOLEAN
    /\ DBErrors \in BOOLEAN /\ AckLoss \in BOOLEAN
    /\ DirectTopics \subseteq Topics

ASSUME NamesAssumption ==
    /\ Articles \cap Clients = {}
    /\ NoArticle \notin Articles /\ NoPost \notin Posts /\ NoTopic \notin Topics

VARIABLES
    row,      \* the articles table
    wp,       \* the posts of the site: state, and the article they were made for
    proc,     \* per client and per article's job: where it stands, on what
    batch,    \* per batch request: topics still to try, articles still wanted
    up,       \* is the process running?
    crashes,  \* crashes so far
    passed,   \* history: articles whose originality check passed
    asked,    \* history: articles a client's publish call went ahead for
    wins      \* history: how often MarkPublished changed each row

vars == <<row, wp, proc, batch, up, crashes, passed, asked, wins>>

-----------------------------------------------------------------------------
Callers == Clients \cup Articles

Statuses == {"none", "generating", "draft", "published", "failed"}

Row == [status: Statuses, topic: Topics \cup {NoTopic},
        post: Posts \cup {NoPost}, auto: BOOLEAN]

Post == [state: {"absent", "draft", "published"}, of: Articles \cup {NoArticle}]

PublishPCs == {"call", "mark", "reread"}
JobPCs == {"queued", "content", "draft", "record", "get", "fail"}

Proc == [pc: {"idle"} \cup JobPCs \cup PublishPCs,
         art: Articles \cup {NoArticle}, post: Posts \cup {NoPost}]

NoRow  == [status |-> "none", topic |-> NoTopic, post |-> NoPost, auto |-> FALSE]
Absent == [state |-> "absent", of |-> NoArticle]
Idle   == [pc |-> "idle", art |-> NoArticle, post |-> NoPost]
NoWork == [todo |-> {}, left |-> 0]

TypeOK ==
    /\ row \in [Articles -> Row]
    /\ wp \in [Posts -> Post]
    /\ proc \in [Callers -> Proc]
    /\ batch \in [Batches -> [todo: SUBSET Topics, left: Nat]]
    /\ up \in BOOLEAN
    /\ crashes \in Nat
    /\ passed \subseteq Articles /\ asked \subseteq Articles
    /\ wins \in [Articles -> Nat]

Init ==
    /\ row = [a \in Articles |-> NoRow]
    /\ wp = [p \in Posts |-> Absent]
    /\ proc = [c \in Callers |-> Idle]
    /\ batch = [b \in Batches |-> NoWork]
    /\ up = TRUE
    /\ crashes = 0
    /\ passed = {} /\ asked = {}
    /\ wins = [a \in Articles |-> 0]

At(c, pc) == up /\ proc[c].pc = pc
Goto(c, pc) == proc' = [proc EXCEPT ![c].pc = pc]

-----------------------------------------------------------------------------
(* Requests that create articles.                                          *)

\* Mutant: rows still being generated are forgotten.
AliveDone(s) == s \in {"draft", "published"}

Alive(s) == s \in {"generating", "draft", "published"}

GeneratedKeywords == {row[a].topic : a \in {x \in Articles : Alive(row[x].status)}}

\* repo.Create and runner.Go: the row, and a goroutine waiting for a slot.
CreateArticle(a, t, auto) ==
    /\ row[a].status = "none"
    /\ row' = [row EXCEPT ![a] = [status |-> "generating", topic |-> t,
                                  post |-> NoPost, auto |-> auto]]
    /\ proc' = [proc EXCEPT ![a] = [pc |-> "queued", art |-> a, post |-> NoPost]]

\* POST /generate. Errors before the row exists leave nothing behind.
Generate(a, t, auto) ==
    /\ up
    /\ CreateArticle(a, t, auto)
    /\ UNCHANGED <<wp, batch, up, crashes, passed, asked, wins>>

Wants(b) == batch[b].left > 0

\* POST /generate/batch reads the topics already used once, up front...
BatchOpen(b) ==
    /\ up
    /\ batch[b].todo = {} \/ ~Wants(b)
    /\ batch' = [batch EXCEPT ![b] = [todo |-> Topics \ GeneratedKeywords,
                                      left |-> BatchSize]]
    /\ UNCHANGED <<row, wp, proc, up, crashes, passed, asked, wins>>

\* ...then creates one article per remaining topic until it has enough.
BatchCreate(b, t, a, auto) ==
    /\ up
    /\ t \in batch[b].todo /\ Wants(b)
    /\ CreateArticle(a, t, auto)
    /\ batch' = [batch EXCEPT ![b] = [todo |-> @.todo \ {t}, left |-> @.left - 1]]
    /\ UNCHANGED <<wp, up, crashes, passed, asked, wins>>

\* A topic whose Generate fails is logged and skipped.
BatchSkip(b, t) ==
    /\ up
    /\ t \in batch[b].todo /\ Wants(b)
    /\ batch' = [batch EXCEPT ![b].todo = @ \ {t}]
    /\ UNCHANGED <<row, wp, proc, up, crashes, passed, asked, wins>>

-----------------------------------------------------------------------------
(* The background job of an article: runGeneration and pipeline.           *)

Running == {a \in Articles : proc[a].pc \notin {"idle", "queued"}}

\* The runner's semaphore; the job's timeout starts only now.
AcquireSlot(a) ==
    /\ At(a, "queued")
    /\ Slots = 0 \/ Cardinality(Running) < Slots
    /\ Goto(a, "content")
    /\ UNCHANGED <<row, wp, batch, up, crashes, passed, asked, wins>>

\* Search results, brief, text, edit, check and humanize, rendering, and the
\* publisher for the site: all that other actors see of it is the verdict.
WriteContent(a) ==
    /\ At(a, "content")
    /\ passed' \in {passed, passed \cup {a}}
    /\ Goto(a, "draft")
    /\ UNCHANGED <<row, wp, batch, up, crashes, asked, wins>>

\* A stage fails, panics (recovered) or meets the job's timeout.
StageFails(a) ==
    /\ At(a, "content") \/ At(a, "draft")
    /\ Goto(a, "fail")
    /\ UNCHANGED <<row, wp, batch, up, crashes, passed, asked, wins>>

\* Mutant: asks again when no answer came.
DraftRetried(a, p, lost) ==
    IF lost THEN proc[a] ELSE [proc[a] EXCEPT !.pc = "record", !.post = p]

\* Where the job goes on from a created draft: when the answer of the site is
\* lost the post exists but its id is not known.
DraftAnswered(a, p, lost) ==
    IF lost THEN [proc[a] EXCEPT !.pc = "fail"]
            ELSE [proc[a] EXCEPT !.pc = "record", !.post = p]

CreateDraft(a, p, lost) ==
    /\ At(a, "draft")
    /\ wp[p].state = "absent"
    /\ wp' = [wp EXCEPT ![p] = [state |-> "draft", of |-> a]]
    /\ proc' = [proc EXCEPT ![a] = DraftAnswered(a, p, lost)]
    /\ UNCHANGED <<row, batch, up, crashes, passed, asked, wins>>

\* Mutant: the check's verdict is not looked at.
AutoPublishUnchecked(a) == row[a].auto

\* Mutant: the request's auto_publish is not looked at.
AutoPublishUnasked(a) == a \in passed

\* settings.autoPublish and checkPassed.
AutoPublishes(a) == row[a].auto /\ a \in passed

DraftRecorded(a) ==
    row' = [row EXCEPT ![a] = [@ EXCEPT !.status = "draft", !.post = proc[a].post]]

UpdateDraft(a) ==
    /\ At(a, "record")
    /\ DraftRecorded(a)
    /\ proc' = [proc EXCEPT ![a] = IF AutoPublishes(a)
                                     THEN [@ EXCEPT !.pc = "get"] ELSE Idle]
    /\ UNCHANGED <<wp, batch, up, crashes, passed, asked, wins>>

UpdateDraftFails(a) ==
    /\ At(a, "record")
    /\ \/ DBErrors /\ UNCHANGED row
       \/ AckLoss /\ DraftRecorded(a)
    /\ Goto(a, "fail")
    /\ UNCHANGED <<wp, batch, up, crashes, passed, asked, wins>>

\* The status is set whatever it was; a failed write is only logged.
MarkFailed(a) ==
    /\ At(a, "fail")
    /\ \/ row' = [row EXCEPT ![a].status = "failed"]
       \/ DBErrors /\ UNCHANGED row
    /\ proc' = [proc EXCEPT ![a] = Idle]
    /\ UNCHANGED <<wp, batch, up, crashes, passed, asked, wins>>

-----------------------------------------------------------------------------
(* publish(), run by a client's request or by an article's own job.        *)

Publishable(a) == row[a].status = "draft" /\ row[a].post # NoPost

\* What publish() returns to: a client is answered, a job that got an error
\* marks its article failed.
Returned(c, ok) ==
    IF c \in Articles /\ ~ok THEN [proc[c] EXCEPT !.pc = "fail", !.post = NoPost]
                             ELSE Idle

PublishEnds(c, ok) == proc' = [proc EXCEPT ![c] = Returned(c, ok)]

\* repo.Get, the status switch and ForSite let the call go ahead.
PublishGoes(c, a) ==
    /\ up
    /\ \/ c \in Clients /\ proc[c].pc = "idle"
       \/ c = a /\ proc[c].pc = "get"
    /\ Publishable(a)
    /\ proc' = [proc EXCEPT ![c] = [pc |-> "call", art |-> a, post |-> row[a].post]]
    /\ asked' = IF c \in Clients THEN asked \cup {a} ELSE asked
    /\ UNCHANGED <<row, wp, batch, up, crashes, passed, wins>>

\* They do not: a client only sees the error.
AutoPublishRefused(a) ==
    /\ At(a, "get")
    /\ DBErrors \/ ~Publishable(a)
    /\ PublishEnds(a, FALSE)
    /\ UNCHANGED <<row, wp, batch, up, crashes, passed, asked, wins>>

\* The site publishes the post; its answer, the post's URL, may be lost.
PublishPost(c, lost) ==
    /\ At(c, "call")
    /\ wp' = [wp EXCEPT ![proc[c].post].state = "published"]
    /\ IF lost THEN PublishEnds(c, FALSE) ELSE Goto(c, "mark")
    /\ UNCHANGED <<row, batch, up, crashes, passed, asked, wins>>

\* Mutant: the error of the site is dropped.
PublishErrorDropped(c) ==
    /\ At(c, "call")
    /\ Goto(c, "mark")
    /\ UNCHANGED <<row, wp, batch, up, crashes, passed, asked, wins>>

PublishPostFails(c) ==
    /\ At(c, "call")
    /\ PublishEnds(c, FALSE)
    /\ UNCHANGED <<row, wp, batch, up, crashes, passed, asked, wins>>

\* WHERE status != published: the point that decides a race.
Claims(a) == row[a].status # "published"

MarkedPublished(a) ==
    /\ row' = [row EXCEPT ![a].status = "published"]
    /\ wins' = [wins EXCEPT ![a] = @ + 1]

MarkPublished(c) ==
    /\ At(c, "mark")
    /\ IF Claims(proc[c].art)
         THEN MarkedPublished(proc[c].art) /\ Goto(c, "reread")
         ELSE UNCHANGED <<row, wins>> /\ PublishEnds(c, FALSE)
    /\ UNCHANGED <<wp, batch, up, crashes, passed, asked>>

MarkPublishedFails(c) ==
    /\ At(c, "mark")
    /\ \/ DBErrors /\ UNCHANGED <<row, wins>>
       \/ AckLoss /\ Claims(proc[c].art) /\ MarkedPublished(proc[c].art)
    /\ PublishEnds(c, FALSE)
    /\ UNCHANGED <<wp, batch, up, crashes, passed, asked>>

\* The second repo.Get, whose error is publish()'s error too.
RereadArticle(c) ==
    /\ At(c, "reread")
    /\ \/ PublishEnds(c, TRUE)
       \/ DBErrors /\ PublishEnds(c, FALSE)
    /\ UNCHANGED <<row, wp, batch, up, crashes, passed, asked, wins>>

-----------------------------------------------------------------------------
(* The process: a crash, or a shutdown that does not wait for its jobs.    *)

Crash ==
    /\ up /\ crashes < MaxCrashes
    /\ up' = FALSE
    /\ crashes' = crashes + 1
    /\ proc' = [c \in Callers |-> Idle]
    /\ batch' = [b \in Batches |-> NoWork]
    /\ UNCHANGED <<row, wp, passed, asked, wins>>

\* Mutant: the boot leaves the rows alone.
RowsAsTheyWere == row

\* FailOrphanedGenerating.
OrphansFailed ==
    [a \in Articles |-> IF row[a].status = "generating"
                          THEN [row[a] EXCEPT !.status = "failed"] ELSE row[a]]

\* buildArticles reconciles before the server listens; an error is a warning.
Boot ==
    /\ ~up
    /\ \/ row' = OrphansFailed
       \/ DBErrors /\ UNCHANGED row
    /\ up' = TRUE
    /\ UNCHANGED <<wp, proc, batch, crashes, passed, asked, wins>>

-----------------------------------------------------------------------------
Requests ==
    \/ \E a \in Articles, t \in DirectTopics, auto \in AutoChoices : Generate(a, t, auto)
    \/ \E b \in Batches : BatchOpen(b)
    \/ \E b \in Batches, t \in Topics, a \in Articles, auto \in AutoChoices :
          BatchCreate(b, t, a, auto)
    \/ \E b \in Batches, t \in Topics : BatchSkip(b, t)

JobStep(a) ==
    \/ AcquireSlot(a) \/ WriteContent(a) \/ StageFails(a)
    \/ \E p \in Posts, lost \in BOOLEAN : CreateDraft(a, p, lost)
    \/ UpdateDraft(a) \/ UpdateDraftFails(a) \/ MarkFailed(a)
    \/ AutoPublishRefused(a)

PublishStep(c) ==
    \/ \E a \in Articles : PublishGoes(c, a)
    \/ \E lost \in BOOLEAN : PublishPost(c, lost)
    \/ PublishPostFails(c)
    \/ MarkPublished(c) \/ MarkPublishedFails(c) \/ RereadArticle(c)

\* What jobs and calls do neither starts nor ends the process.
Next ==
    \/ Requests
    \/ /\ (\E a \in Articles : JobStep(a)) \/ (\E c \in Callers : PublishStep(c))
       /\ UNCHANGED <<up, crashes>>
    \/ Crash \/ Boot

Spec == Init /\ [][Next]_vars

-----------------------------------------------------------------------------
(* Safety.                                                                 *)

\* A row that says draft or published names a post of its own on the site, and
\* one that says published names a post that is live there, whatever the
\* interleaving of jobs, publish calls, lost answers and crashes
\* (finalizeDraft, publish).
RowMatchesSite ==
    \A a \in Articles : row[a].status \in {"draft", "published"} =>
        /\ row[a].post # NoPost
        /\ wp[row[a].post].of = a
        /\ row[a].status = "published" => wp[row[a].post].state = "published"

\* No article ever has two posts on the site: a job asks for one draft and
\* nothing asks again (finalizeDraft, runner.Go).
OnePostPerArticle ==
    \A p, q \in Posts :
        wp[p].of = wp[q].of /\ wp[p].of # NoArticle => p = q

\* A post is live only because a person asked to publish its article or the
\* article was to publish itself and its check passed, and its row knows the
\* post: a draft whose id was lost never goes live (runGeneration, publish).
LiveOnPurpose ==
    \A p \in Posts : wp[p].state = "published" =>
        LET a == wp[p].of IN
        /\ row[a].post = p
        /\ a \in asked \/ (row[a].auto /\ a \in passed)

\* MarkPublished changes a row once: the loser of a race does not record a
\* second publish over the first (MarkPublished's WHERE clause).
SingleWinner == \A a \in Articles : wins[a] <= 1

\* No two articles that are not failed are about the same topic, when one
\* batch request at a time creates them all (GenerateBatch, GeneratedKeywords).
OneArticlePerTopic ==
    \A a, b \in Articles :
        /\ row[a].topic = row[b].topic
        /\ {row[a].status, row[b].status} \cap {"none", "failed"} = {}
        => a = b

\* Once published, the row never changes again: what loses the race against a
\* publish does not overwrite the winner's record (publish, markFailed).
PublishedIsFinal ==
    [][\A a \in Articles : row[a].status = "published" => row'[a] = row[a]]_vars

-----------------------------------------------------------------------------
(* Inductive invariants behind the safety properties.                      *)

PostInv == \A p \in Posts : wp[p].state = "absent" <=> wp[p].of = NoArticle

RowInv ==
    \A a \in Articles :
        /\ row[a].status \in {"none", "generating"} => row[a].post = NoPost
        /\ row[a].status \in {"draft", "published"} => row[a].post # NoPost
        /\ row[a].post # NoPost => wp[row[a].post].of = a
        /\ row[a].status = "published" => wp[row[a].post].state = "published"

JobOK(a) ==
    /\ row[a].status = "none" => proc[a] = Idle /\ \A p \in Posts : wp[p].of # a
    /\ proc[a].pc \in {"queued", "content", "draft"} => \A p \in Posts : wp[p].of # a
    /\ proc[a].pc = "record" =>
          /\ row[a].post = NoPost
          /\ proc[a].post # NoPost
          /\ wp[proc[a].post].of = a
    /\ proc[a].pc = "get" => row[a].auto /\ a \in passed

JobInv == \A a \in Articles : JobOK(a)

PublishOK(c) ==
    proc[c].pc \in PublishPCs =>
        /\ proc[c].art \in Articles
        /\ c \in Articles => proc[c].art = c
        /\ proc[c].post # NoPost
        /\ row[proc[c].art].post = proc[c].post
        /\ \/ proc[c].art \in asked
           \/ row[proc[c].art].auto /\ proc[c].art \in passed
        /\ proc[c].pc \in {"mark", "reread"} => wp[proc[c].post].state = "published"

PublishInv == \A c \in Callers : PublishOK(c)

SiteInv ==
    TypeOK /\ PostInv /\ RowInv /\ JobInv /\ PublishInv
           /\ OnePostPerArticle /\ LiveOnPurpose

\* Where no request carries auto_publish and a failed write is one that was
\* not applied.
ManualOnly == AutoChoices \subseteq {FALSE} /\ ~AckLoss

\* Then no job publishes, and what can still fail an article finds it
\* "generating".
ManualOK(a) ==
    /\ ~row[a].auto
    /\ proc[a].pc \notin PublishPCs \cup {"get"}
    /\ proc[a].pc \in JobPCs => row[a].status = "generating"
    /\ wins[a] = IF row[a].status = "published" THEN 1 ELSE 0

ManualInv ==
    /\ ~up => \A c \in Callers : proc[c] = Idle
    /\ \A a \in Articles : ManualOK(a)

\* And where one batch request at a time creates all articles.
OneBatch == ManualOnly /\ DirectTopics = {} /\ \A b, c \in Batches : b = c

\* Then no article that is not failed is about a topic the batch has still to try;
\* a failed one never got a post, so nothing publishes it any more.
TopicInv ==
    /\ OneArticlePerTopic
    /\ \A b \in Batches : \A t \in batch[b].todo :
          \A a \in Articles : Alive(row[a].status) => row[a].topic # t
    /\ \A a \in Articles : row[a].status = "failed" => row[a].post = NoPost

=============================================================================
