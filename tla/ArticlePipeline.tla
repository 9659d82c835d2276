-------------------------- MODULE ArticlePipeline --------------------------
(***************************************************************************)
(* Inside a job of ArticleLifecycle (internal/application/articles,        *)
(* pipeline): the stages that write a text, the loop that has it checked   *)
(* and rewritten until it passes for a human's, what is kept of all that   *)
(* (revision, outcome of the writer's prompt, check result, images), and   *)
(* beside it the rating of the article by staff, which shares the outcome  *)
(* with the job.  The checker is one client shared by all jobs; Copyleaks  *)
(* caches a login token in it (internal/infrastructure/checker).           *)
(*                                                                         *)
(* Every step is a step of ArticleLifecycle or leaves its state alone.     *)
(***************************************************************************)
EXTENDS ArticleLifecycle

CONSTANTS
    Variants,     \* variants of the writer prompt that are not retired
    NoVariant,    \* the built-in template
    Marks,        \* the detector's scores, in thousandths
    Threshold,    \* AIThreshold, in hundredths
    MaxCycles, AskedCycles,  \* the default, and what requests ask for
    HumanWeight,  \* of a rating in the reward, in hundredths
    Shapes,       \* the measures of a text the runs tell apart
    Raters,       \* concurrent PUT /rating requests
    Focuses,      \* what a behaviour is about: "article", "ratings" or "checker"
    MaxFaults,    \* bound on the failures a job puts up with
    MaxRevokes,   \* bound on the tokens the provider revokes or lets expire
    MaxRatings,   \* bound on the rating requests
    Nothing

ASSUME PipelineAssumption ==
    /\ Marks \subseteq 0..1000 /\ Threshold \in 0..100 /\ HumanWeight \in 0..100
    /\ MaxCycles \in Int /\ AskedCycles \subseteq Int
    /\ MaxFaults \in Nat /\ MaxRevokes \in Nat /\ MaxRatings \in Nat
    /\ NoVariant \notin Variants
    /\ Nothing \notin Int
    /\ Nothing \notin [art: Articles, rating: {"like", "dislike", Nothing}]
    /\ Focuses \subseteq {"article", "ratings", "checker"}

VARIABLES
    focus,
    work,      \* per article: what the local variables of its job hold
    body,      \* per article: the text in its draft on the site
    outcome,   \* prompt_outcomes
    shown,     \* articles.check_result
    images,    \* articles.images_requested, _resolved, _skipped
    human,     \* articles.human_rating
    call,      \* per rater: the request under way
    cached,    \* the token the checker holds, 0 if none
    valid,     \* the tokens the provider accepts
    logins,    \* tokens given out so far
    faults, revokes, ratings,  \* so far
    scored,    \* history: the scores given to the texts of each article
    wrote,     \* history: whose template wrote each article
    spent,     \* history: tokens the language model charged for each article
    denied,    \* history: articles whose check ended in a 401
    muddled    \* history: articles whose last rating met with a mishap

stages == <<work, cached, valid, logins, revokes, scored, wrote, spent, denied>>
records == <<outcome, shown, images>>
rates == <<human, call, ratings, muddled>>
pvars == <<focus, body, stages, records, rates, faults>>

allVars == <<vars, pvars>>

-----------------------------------------------------------------------------
\* "text" counts the texts of the job: 1 is the editor's, a rewrite the next.
Blank == [at |-> "none", cycles |-> 0, cycle |-> 0, text |-> 0, last |-> Nothing,
          first |-> Nothing, variant |-> NoVariant, tokens |-> 0, tok |-> 0, stats |-> Nothing]

PInit ==
    /\ Init
    /\ focus \in Focuses
    /\ work = [a \in Articles |-> Blank]
    /\ body = [a \in Articles |-> Nothing]
    /\ outcome = [a \in Articles |-> Nothing]
    /\ shown = [a \in Articles |-> Nothing]
    /\ images = [a \in Articles |-> Nothing]
    /\ human = [a \in Articles |-> Nothing]
    /\ call = [u \in Raters |-> Nothing]
    /\ cached = 0 /\ valid = {} /\ logins = 0
    /\ faults = (IF focus = "checker" THEN MaxFaults ELSE 0)
    /\ revokes = 0 /\ ratings = 0
    /\ scored = [a \in Articles |-> {}]
    /\ wrote = [a \in Articles |-> Nothing]
    /\ spent = [a \in Articles |-> 0]
    /\ denied = {} /\ muddled = {}

In(a, stage) == proc[a].pc = "content" /\ up /\ work[a].at = stage
Copyleaks == focus = "checker"

\* A failure the job logs and goes on from.
Fault == faults < MaxFaults /\ faults' = faults + 1

-----------------------------------------------------------------------------
(* generateContent.                                                        *)

\* pickInt, and the loop's own guard against a bound that is not positive.
CyclesOf(n) == IF n > 0 THEN n ELSE MaxCycles

\* runGeneration starts with the settings resolve() made of the request.
StartWork(a, n) ==
    /\ AcquireSlot(a)
    /\ work' = [work EXCEPT ![a] = [Blank EXCEPT !.at = "brief",
                                                 !.cycles = CyclesOf(n)]]
    /\ UNCHANGED <<focus, body, records, rates, faults,
                   cached, valid, logins, revokes, scored, wrote, spent, denied>>

\* stageTimer's event.
Charged(a) == spent' = [spent EXCEPT ![a] = @ + 1]

\* A call of the language model that is answered; an error or an empty answer
\* of brief, writer or editor is StageFails.
Completes(a, w) ==
    /\ work' = [work EXCEPT ![a] = [w EXCEPT !.tokens = @ + 1]]
    /\ Charged(a)

\* The search results before it are optional.
Brief(a) ==
    /\ In(a, "brief")
    /\ Completes(a, [work[a] EXCEPT !.at = "write"])
    /\ UNCHANGED <<vars, focus, body, records, rates, faults,
                   cached, valid, logins, revokes, scored, wrote, denied>>

\* ThompsonPick: any variant's sample may be the highest.
Picks == IF Variants = {} THEN {NoVariant} ELSE Variants

\* writerTemplate: without statistics the built-in template is used and nobody
\* is credited.
Template(v) == v \in Picks \cup {NoVariant}

Write(a, v) ==
    /\ In(a, "write") /\ Template(v)
    /\ Completes(a, [work[a] EXCEPT !.at = "edit", !.variant = v])
    /\ wrote' = [wrote EXCEPT ![a] = v]
    /\ UNCHANGED <<vars, focus, body, records, rates, faults,
                   cached, valid, logins, revokes, scored, denied>>

Edit(a) ==
    /\ In(a, "edit")
    /\ LET w == [work[a] EXCEPT !.text = 1, !.cycle = 1] IN
       Completes(a, [w EXCEPT !.at = IF w.cycles > 0 THEN "check" ELSE "finish"])
    /\ UNCHANGED <<vars, focus, body, records, rates, faults,
                   cached, valid, logins, revokes, scored, wrote, denied>>

-----------------------------------------------------------------------------
(* checkAndHumanize, and the checker's client.                             *)

\* round2 cuts a score to hundredths.
Cut(mark) == mark \div 10

PassesFor(score) == score < Threshold

\* Mutant: the outcome takes the last score.
LastScore(w, score) == score

FirstScore(w, score) == IF w.first = Nothing THEN score ELSE w.first

\* Where the loop goes after a verdict.
AfterVerdict(w, passes) ==
    IF passes \/ w.cycle = w.cycles THEN "finish" ELSE "humanize"

SaveCheckResult(a, v) ==
    \/ shown' = [shown EXCEPT ![a] = v] /\ UNCHANGED faults
    \/ Fault /\ UNCHANGED shown

Verdict(a, mark) ==
    LET w == work[a]
        v == [text |-> w.text, score |-> Cut(mark), original |-> PassesFor(Cut(mark))]
    IN /\ work' = [work EXCEPT ![a] = [w EXCEPT !.last = v,
                                         !.first = FirstScore(w, v.score),
                                         !.at = AfterVerdict(w, v.original),
                                         !.tok = 0]]
       /\ scored' = [scored EXCEPT ![a] = @ \cup {<<w.text, mark>>}]
       /\ SaveCheckResult(a, v)

\* A checker that needs no login answers.
Checked(a, mark) ==
    /\ In(a, "check") /\ ~Copyleaks
    /\ Verdict(a, mark)
    /\ UNCHANGED <<vars, focus, body, outcome, images, rates,
                   cached, valid, logins, revokes, wrote, spent, denied>>

\* authToken, under the client's lock: the cached token, or a login.
Authorized(a) ==
    /\ Copyleaks /\ (In(a, "check") \/ In(a, "again"))
    /\ LET next == IF work[a].at = "check" THEN "detect" ELSE "redetect"
           new == IF cached = 0 THEN logins + 1 ELSE cached
       IN work' = [work EXCEPT ![a] = [@ EXCEPT !.at = next, !.tok = new]]
    /\ IF cached = 0
         THEN cached' = logins + 1 /\ logins' = logins + 1 /\ valid' = valid \cup {logins + 1}
         ELSE UNCHANGED <<cached, logins, valid>>
    /\ UNCHANGED <<vars, focus, body, records, rates, faults,
                   revokes, scored, wrote, spent, denied>>

Detected(a, mark) ==
    /\ In(a, "detect") \/ In(a, "redetect")
    /\ work[a].tok \in valid
    /\ Verdict(a, mark)
    /\ UNCHANGED <<vars, focus, body, outcome, images, rates,
                   cached, valid, logins, revokes, wrote, spent, denied>>

\* Mutant: the refused token stays in the client.
TokenKept == cached

\* invalidateToken.
TokenDropped == 0

\* A 401: the token is dropped and the check done once more with another.
Refused(a) ==
    /\ In(a, "detect") /\ work[a].tok \notin valid
    /\ cached' = TokenDropped
    /\ work' = [work EXCEPT ![a] = [@ EXCEPT !.at = "again", !.tok = 0]]
    /\ UNCHANGED <<vars, focus, body, records, rates, faults,
                   valid, logins, revokes, scored, wrote, spent, denied>>

\* The second 401 is an error of the check.
RefusedAgain(a) ==
    /\ In(a, "redetect") /\ work[a].tok \notin valid
    /\ denied' = denied \cup {a}
    /\ work' = [work EXCEPT ![a] = [@ EXCEPT !.at = "finish", !.tok = 0]]
    /\ UNCHANGED <<vars, focus, body, records, rates, faults,
                   cached, valid, logins, revokes, scored, wrote, spent>>

\* Any other error of the checker ends the loop with the text as it is.
CheckBreaks(a) ==
    /\ \E stage \in {"check", "detect", "again", "redetect"} : In(a, stage)
    /\ Fault
    /\ work' = [work EXCEPT ![a] = [@ EXCEPT !.at = "finish", !.tok = 0]]
    /\ UNCHANGED <<vars, focus, body, records, rates,
                   cached, valid, logins, revokes, scored, wrote, spent, denied>>

Humanize(a) ==
    /\ In(a, "humanize")
    /\ Completes(a, [work[a] EXCEPT !.at = "check", !.cycle = @ + 1, !.text = @ + 1])
    /\ UNCHANGED <<vars, focus, body, records, rates, faults,
                   cached, valid, logins, revokes, scored, wrote, denied>>

CostCounted(a, w) == Completes(a, w)

\* An empty answer, which is paid for, or an error: the current text stands.
HumanizeBreaks(a) ==
    /\ In(a, "humanize")
    /\ Fault
    /\ LET w == [work[a] EXCEPT !.at = "finish"] IN
       \/ CostCounted(a, w)
       \/ work' = [work EXCEPT ![a] = w] /\ UNCHANGED spent
    /\ UNCHANGED <<vars, focus, body, records, rates,
                   cached, valid, logins, revokes, scored, wrote, denied>>

\* The provider stops accepting a token, or the client's copy grows too old.
TokenDies ==
    /\ Copyleaks /\ up /\ revokes < MaxRevokes /\ cached # 0
    /\ revokes' = revokes + 1
    /\ \/ valid' = valid \ {cached} /\ UNCHANGED cached
       \/ cached' = 0 /\ UNCHANGED valid
    /\ UNCHANGED <<vars, focus, body, records, rates, faults,
                   work, logins, scored, wrote, spent, denied>>

-----------------------------------------------------------------------------
(* finalizeDraft.                                                          *)

\* Mutant: a text that was never checked counts as passed.
PassedUnlessFlagged(w) == w.last = Nothing \/ w.last.original

\* checkOutcome.passed.
Passed(w) == w.last # Nothing /\ w.last.original

\* QualityFloor, of the text without its SEO lines and of those.
QualityFloor(t) ==
    /\ t.min > 0 => t.words >= (t.min * 9) \div 10
    /\ t.max > 0 => t.words <= t.max
    /\ t.h2 >= 5 /\ t.startsWithH1 /\ t.faq
    /\ ~t.keywordMissing /\ ~t.keywordBold
    /\ t.title <= 60
    /\ t.desc = 0 \/ t.desc \in 150..160

\* RenderHTML's count of the placeholders of a text: without a resolver all are
\* skipped, otherwise each is resolved, failed or skipped.
RenderStats(requested, include) ==
    IF ~include THEN {[requested |-> requested, resolved |-> 0, skipped |-> requested]}
    ELSE [requested: {requested}, resolved: 0..requested, skipped: 0..requested]

Rendered(requested, include) ==
    {s \in RenderStats(requested, include) : s.resolved + s.skipped <= requested}

\* In ten-thousandths.  UpdateOutcomeReward's CASE.
Reward(rating, score) ==
    LET liked == IF rating = "like" THEN 100 ELSE 0 IN
    CASE rating = Nothing -> IF score = Nothing THEN Nothing ELSE 100 * (100 - score)
      [] rating # Nothing /\ score = Nothing -> 100 * liked
      [] OTHER -> HumanWeight * liked + (100 - HumanWeight) * (100 - score)

\* recordWriterOutcome: the reward comes from the writer's own text, the quality
\* and the count of rewrites from the text that is drafted.
OutcomeOf(w, shape) ==
    [variant |-> w.variant, score |-> w.first, reward |-> Reward(Nothing, w.first),
     quality |-> QualityFloor(shape), cycles |-> w.text - 1, tokens |-> w.tokens]

\* What SaveRevision keeps and CreateDraft sends.
RevisionOf(w, shape) == [text |-> w.text, shape |-> shape]

\* A rating that is in already does not count in the reward.
SaveOutcome(a, o) ==
    /\ outcome' = [outcome EXCEPT ![a] = o]
    /\ muddled' = IF human[a] # Nothing /\ \A u \in Raters : call[u] = Nothing
                    THEN muddled \cup {a} ELSE muddled

\* Rendering, SaveRevision and SaveOutcome, whose failures are only logged.
Finish(a, shape) ==
    /\ In(a, "finish")
    /\ WriteContent(a)
    /\ passed' = IF Passed(work[a]) THEN passed \cup {a} ELSE passed
    /\ \/ SaveOutcome(a, OutcomeOf(work[a], shape)) /\ UNCHANGED faults
       \/ Fault /\ UNCHANGED <<outcome, muddled>>
    /\ \E include \in BOOLEAN : \E s \in Rendered(shape.images, include) :
          work' = [work EXCEPT ![a] = [Blank EXCEPT !.stats = s]]
    /\ body' = [body EXCEPT ![a] = RevisionOf(work[a], shape)]
    /\ UNCHANGED <<focus, shown, images, human, call, ratings,
                   cached, valid, logins, revokes, scored, wrote, spent, denied>>

SaveImageStats(a) ==
    \/ images' = [images EXCEPT ![a] = work[a].stats] /\ UNCHANGED faults
    \/ Fault /\ UNCHANGED images

\* UpdateDraft, then SaveImageStats, whose failure is only logged.
RecordDraft(a) ==
    /\ UpdateDraft(a)
    /\ SaveImageStats(a)
    /\ work' = [work EXCEPT ![a] = Blank]
    /\ UNCHANGED <<focus, body, outcome, shown, rates,
                   cached, valid, logins, revokes, scored, wrote, spent, denied>>

-----------------------------------------------------------------------------
(* PUT /articles/{id}/rating.                                              *)

SetHumanRating(a, r) == human' = [human EXCEPT ![a] = r]

\* An article without a row is not found.  A rating that comes
\* before the text is finished does what one does that comes just then.
Rate(u, a, r) ==
    /\ focus = "ratings" /\ up /\ ratings < MaxRatings
    /\ call[u] = Nothing /\ row[a].status # "none"
    /\ work[a].at \in {"finish", "none"} /\ proc[a].pc # "queued"
    /\ SetHumanRating(a, r)
    /\ call' = [call EXCEPT ![u] = [art |-> a, rating |-> r]]
    /\ ratings' = ratings + 1
    /\ muddled' = IF \E x \in Raters : call[x] # Nothing /\ call[x].art = a
                    THEN muddled \cup {a} ELSE muddled \ {a}
    /\ UNCHANGED <<vars, focus, body, records, faults, stages>>

\* Mutant: a rating that is taken back leaves the reward alone.
RewardKept(o, r) == IF r = Nothing THEN o.reward ELSE Reward(r, o.score)

RewardOf(o, r) == Reward(r, o.score)

UpdateOutcomeReward(a, r) ==
    /\ outcome[a] # Nothing
    /\ outcome' = [outcome EXCEPT ![a].reward = RewardOf(outcome[a], r)]

\* UpdateOutcomeReward changes the row there is, if there is one; a statement that
\* is reported as failed may have been applied.
RateOutcome(u, ok) ==
    /\ up /\ call[u] # Nothing
    /\ LET a == call[u].art IN
       /\ \/ UpdateOutcomeReward(a, call[u].rating)
          \/ (ok => outcome[a] = Nothing) /\ UNCHANGED outcome
       /\ muddled' = IF ok /\ outcome[a] # Nothing THEN muddled ELSE muddled \cup {a}
    /\ call' = [call EXCEPT ![u] = Nothing]
    /\ IF ok THEN UNCHANGED faults ELSE Fault
    /\ UNCHANGED <<vars, focus, body, shown, images, human, ratings, stages>>

-----------------------------------------------------------------------------
(* The rest of ArticleLifecycle; what the process held dies with it.       *)

\* The bounds of each focus: one article, with all that may happen to it; one that
\* is rated and not published; or two jobs that share the checker, up to their
\* drafts.
Asks ==
    /\ \E a \in Articles, t \in DirectTopics, auto \in AutoChoices :
          /\ auto => focus = "article"
          /\ focus # "checker" => \A b \in Articles : row[b].status = "none"
          /\ Generate(a, t, auto)
    /\ UNCHANGED pvars

Publishing ==
    \/ /\ focus = "article" /\ (\E a \in Articles : UpdateDraftFails(a))
       /\ UNCHANGED pvars
    \/ /\ focus = "article" /\ (\E a \in Articles : AutoPublishRefused(a))
       /\ UNCHANGED pvars
    \/ /\ focus = "article" /\ (\E c \in Callers : MarkPublishedFails(c))
       /\ UNCHANGED pvars
    \/ /\ focus = "article" /\ ((\E c \in Callers : PublishStep(c)) \/ Boot)
       /\ UNCHANGED pvars

Drafting ==
    /\ focus # "checker"
    /\ \E a \in Articles :
          \/ \E p \in Posts, lost \in BOOLEAN : CreateDraft(a, p, lost)
          \/ MarkFailed(a)
    /\ UNCHANGED pvars

Fails(a) ==
    /\ focus # "checker"
    /\ StageFails(a)
    /\ work' = [work EXCEPT ![a] = Blank]
    /\ UNCHANGED <<focus, body, records, rates, faults,
                   cached, valid, logins, revokes, scored, wrote, spent, denied>>

Dies ==
    /\ focus = "article"
    /\ Crash
    /\ work' = [a \in Articles |-> Blank]
    /\ cached' = 0
    /\ call' = [u \in Raters |-> Nothing]
    /\ muddled' = muddled \cup {call[u].art : u \in {x \in Raters : call[x] # Nothing}}
    /\ UNCHANGED <<focus, body, records, human, ratings, faults,
                   valid, logins, revokes, scored, wrote, spent, denied>>

WorkStep(a) ==
    \/ \E n \in AskedCycles : StartWork(a, n)
    \/ Brief(a) \/ (\E v \in Variants \cup {NoVariant} : Write(a, v)) \/ Edit(a)
    \/ \E mark \in Marks : Checked(a, mark) \/ Detected(a, mark)
    \/ Authorized(a) \/ Refused(a) \/ RefusedAgain(a) \/ CheckBreaks(a)
    \/ Humanize(a) \/ HumanizeBreaks(a)
    \/ \E shape \in Shapes : Finish(a, shape)
    \/ RecordDraft(a) \/ Fails(a)

RatingStep(u) ==
    \/ \E a \in Articles, r \in {"like", "dislike", Nothing} : Rate(u, a, r)
    \/ \E ok \in BOOLEAN : RateOutcome(u, ok)

PNext ==
    \/ Asks \/ Drafting \/ Publishing \/ Dies \/ TokenDies
    \/ \E a \in Articles : WorkStep(a)
    \/ \E u \in Raters : RatingStep(u)

PSpec == PInit /\ [][PNext]_allVars

-----------------------------------------------------------------------------
\* What goes live without a person asking was found human by the checker: the
\* very text in the draft, not one before its last rewrite, and not one that no
\* checker ever saw (checkAndHumanize, passed).
LiveTextChecked ==
    \A p \in Posts : wp[p].state = "published" =>
        LET a == wp[p].of IN
        a \in asked \/ \E mark \in Marks :
                          <<body[a].text, mark>> \in scored[a] /\ mark < 10 * Threshold

\* The outcome credits the variant that wrote the article with the score of what
\* it wrote, not of a rewrite; it says how often the draft was rewritten, whether
\* the draft is fit, and what the article cost (recordWriterOutcome).
CreditTie(a) ==
    outcome[a] # Nothing =>
        LET o == outcome[a] IN
        /\ o.variant = wrote[a]
        /\ o.score # Nothing => \E mark \in Marks : <<1, mark>> \in scored[a] /\ o.score = Cut(mark)
        /\ o.score = Nothing => scored[a] = {}
        /\ o.cycles = body[a].text - 1
        /\ o.quality = QualityFloor(body[a].shape)
        /\ o.tokens = spent[a]

CreditTies == \A a \in Articles : CreditTie(a)

\* The reward of an article is what its rating and its score make it, whatever
\* ratings came before and although the rating and the reward are written one
\* after the other, by requests that race the job: unless the last rating came
\* before the outcome, met another on its way, or failed half way (RateArticle).
RatingTies ==
    \A a \in Articles :
        outcome[a] # Nothing /\ a \notin muddled /\ (\A u \in Raters : call[u] = Nothing) =>
            outcome[a].reward = Reward(human[a], outcome[a].score)

\* What the prompts are judged by is about the right variant, text and rating.
OutcomeTies == CreditTies /\ RatingTies

\* A check survives a token that dies under it: to lose a check two tokens must
\* have died, however many jobs share the client (Check, invalidateToken).
DeniedOnlyTwice == denied # {} => revokes >= 2

-----------------------------------------------------------------------------
(* The types of the pipeline's own state.                                  *)

Stages == {"none", "brief", "write", "edit", "check", "detect", "again", "redetect",
           "humanize", "finish"}
Templates == Variants \cup {NoVariant}
Scores == Int \cup {Nothing}
Ratings == {"like", "dislike", Nothing}
Verdicts == [text: Nat, score: Int, original: BOOLEAN]
Stats == UNION {Rendered(t.images, include) : t \in Shapes, include \in BOOLEAN}

Work == [at: Stages, cycles: Int, cycle: Int, text: Nat, last: Verdicts \cup {Nothing},
         first: Scores, variant: Templates, tokens: Nat, tok: Nat,
         stats: Stats \cup {Nothing}]

Outcome == [variant: Templates, score: Scores, reward: Scores, quality: BOOLEAN,
            cycles: Int, tokens: Nat]

Revision == [text: Nat, shape: Shapes]

Call == [art: Articles, rating: Ratings]

PTypeOK ==
    /\ focus \in Focuses
    /\ work \in [Articles -> Work]
    /\ body \in [Articles -> Revision \cup {Nothing}]
    /\ outcome \in [Articles -> Outcome \cup {Nothing}]
    /\ shown \in [Articles -> Verdicts \cup {Nothing}]
    /\ images \in [Articles -> Stats \cup {Nothing}]
    /\ human \in [Articles -> Ratings]
    /\ call \in [Raters -> Call \cup {Nothing}]
    /\ cached \in Nat /\ valid \in SUBSET Nat /\ logins \in Nat
    /\ faults \in Nat /\ revokes \in Nat /\ ratings \in Nat
    /\ scored \in [Articles -> SUBSET (Nat \X Marks)]
    /\ wrote \in [Articles -> Templates \cup {Nothing}]
    /\ spent \in [Articles -> Nat]
    /\ denied \in SUBSET Articles /\ muddled \in SUBSET Articles

-----------------------------------------------------------------------------
(* Inductive invariants behind the safety properties.                      *)

\* The tokens given out that the provider no longer accepts.
Dead == (1..logins) \ valid

\* A job that checks again has met a dead token that is neither the cached one nor,
\* once it holds one, its own: a dropped token never comes back.
RetryOK(a) ==
    /\ work[a].at \in {"detect", "redetect"} => work[a].tok \in 1..logins
    /\ work[a].at = "again" => \E d \in Dead : d # cached
    /\ work[a].at = "redetect" => \E d \in Dead : d # work[a].tok

TokenInv ==
    /\ cached <= logins
    /\ Cardinality(Dead) <= revokes
    /\ \A a \in Articles : RetryOK(a)
    /\ DeniedOnlyTwice

\* The articles no text of which is finished, and those with no text begun.
Unfinished(a) == row[a].status = "none" \/ proc[a].pc \in {"queued", "content"}
Unbegun(a) == row[a].status = "none" \/ proc[a].pc = "queued"

FoundHuman(a, text) == \E mark \in Marks : <<text, mark>> \in scored[a] /\ mark < 10 * Threshold

FirstOK(a, score) ==
    /\ score # Nothing => \E mark \in Marks : <<1, mark>> \in scored[a] /\ score = Cut(mark)
    /\ score = Nothing => scored[a] = {}

\* What a job holds of its text: its verdict is of that text if it is a human's, its
\* first score is of the first text, and the costs are all counted.
WorkOK(a) ==
    LET w == work[a] IN
    /\ Passed(w) => w.at = "finish" /\ FoundHuman(a, w.text)
    /\ FirstOK(a, w.first)
    /\ w.at \in {"check", "detect", "again", "redetect"} /\ w.first = Nothing => w.text = 1
    /\ w.at = "humanize" => w.first # Nothing
    /\ w.at \notin {"none", "brief", "write"} => w.variant = wrote[a]
    /\ w.tokens = spent[a]

TextOK(a) ==
    /\ Unfinished(a) => a \notin passed /\ outcome[a] = Nothing
    /\ Unbegun(a) => scored[a] = {} /\ spent[a] = 0
    /\ proc[a].pc = "content" => WorkOK(a)
    /\ a \in passed => FoundHuman(a, body[a].text)

TextInv == (\A a \in Articles : TextOK(a)) /\ CreditTies

Pending(u, a) == call[u] # Nothing /\ call[u].art = a

\* A rating under way, if it met no mishap, is alone and will write what the article
\* says; only the one article of its behaviour is rated.
RatingOK(a) ==
    a \notin muddled =>
        /\ \A u \in Raters : Pending(u, a) => call[u].rating = human[a]
        /\ \A u, x \in Raters : Pending(u, a) /\ Pending(x, a) => u = x
        /\ outcome[a] # Nothing /\ (\A u \in Raters : ~Pending(u, a)) =>
              outcome[a].reward = Reward(human[a], outcome[a].score)

RatingInv ==
    /\ \A a \in Articles : RatingOK(a)
    /\ \A u \in Raters : call[u] # Nothing =>
          focus = "ratings" /\ row[call[u].art].status # "none"
    /\ focus # "checker" =>
          \A a, b \in Articles : row[a].status # "none" /\ row[b].status # "none" => a = b
=============================================================================
