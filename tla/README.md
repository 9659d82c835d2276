# TLA+ models of the multi-agent SEO and CRM backend

This directory holds TLA+ models of the Go backend (`src/backend`) of a law firm's
content and client system, the TLC runs that check them on small instances, and
TLAPS proofs of the results that matter most. Each module is written from the code;
where a document or a comment says something else than the code does, section 4.1 says so.

Check everything with `tlc -config X.cfg MCModule` for the pairs named below and
`tlapm Module_proofs.tla` for the proofs.

## 1. The system

One Go process (`cmd/server`, wired in `internal/root/root.go`) serves a JSON API to two
browser front ends, runs a Telegram bot and a few tickers, and keeps its state in one
PostgreSQL database. Docker Compose runs a single copy of it (`src/devops`); no restart
policy is set, so somebody starts it again when it died. Outside it stand WordPress and MODX sites, LLMs, originality checkers,
Google Sheets and Analytics, a mailbox and Telegram. There are no distributed locks
and almost no multi-statement transactions: what keeps the data right is the order of
single statements, their `WHERE` clauses and a few unique indexes. That is where the
models look.

### 1.1 Components

| component | state it keeps | operations | what is hard | what makes it correct |
|---|---|---|---|---|
| articles (`application/articles`, `article_repository.go`) | `articles` rows: status generating / draft / published / failed, post id, topic, `auto_publish` | Generate, GenerateBatch, background job, Publish, Update, Delete, RateArticle, orphan reconciliation on boot | a 60-minute job against staff publishing the same draft; lost answers of the site; crash | row and site agree; one post per article; nothing goes live unasked; a publish is recorded once and stays |
| prompt evolution (`application/promptevolution`, `bandit.go`) | `prompt_variants`: champion / candidate / retired, rewards of `article_outcomes` | promote and evolve tickers, seeding on boot, selection, ratings | decisions from statistics that change while an LLM is asked; two statements per promotion | never two champions; slots hold; what was retired stays retired; a champion returns |
| worker pool (`pkg/workpool`) | goroutines, a channel, a batch | Run | cancellation, a failing sink, closing the channel | every result sunk at most once; success means all; everyone goes home |
| job runner (`pkg/jobrunner`) | a semaphore, a wait group | Go, Wait | jobs queue for a slot before their timeout starts | at most N jobs run; a job outlives the request that started it |
| e-mail scraping (`application/emailscrape`) | `scrape_jobs` rows, cancel functions in memory, cells of a sheet | ScrapeEmails, Cancel, the job | cancel before the start; a batch that fails; the row closed under a dead context | done means every site has its result in the sheet; progress never runs ahead |
| link building (`application/linkbuilding`, `backlinkplacer`, `wppost`, `wplogin`) | `backlink_placements`, `donor_site_profiles`, `donor_credentials`, status cells of a sheet | PlaceBacklinks, Cancel, per donor: register, log in, post, verify | a link that was placed but not recorded; donors shared by runs | no donor gets the same link twice; what is placed is recorded |
| booking (`application/clientportal`, `domain/consultations`) | `consultations` and `clients` rows | BookingOptions, Submit, Me; the bot's /book; status buttons; reminders | the picker is a round trip old; clocks of two zones; a send followed by a mark | an hour is given once; a reminder is sent once, to the right chat |
| Telegram admin bot (`telegram/adminbot.go`) | one flow per staff member, in memory; the update offset; staff languages | some thirty commands and twenty kinds of buttons | old keyboards; redelivered updates; a second goroutine for reminders | a tap acts on what it shows; an update acts once |
| web leads (`application/webleads`) | `leads`, `clients`, the mailbox's seen flags, rows of a sheet, announcements in the staff's group | ProcessNewLeads, SubmitLead, SetLeadPracticeArea | three sinks per lead without a transaction; only mails are asked for again | no lead is lost; a lead is one row; staff, sheet and table tell of the same leads |
| client base (`consultation_repository.go`, `clientdetail_repository.go`, `clientsegments_repository.go`) | `clients`, `consultations`, `cases`, `client_tags`, `client_tag_defs` | create, edit, delete, tag, pin a segment, book, pay | a deletion of three statements against arrivals | no row names a client that is gone |
| statistics, segments, client detail (`application/leadstats`, `clientsegments`, `clientdetail`) | none | GetStats, List, Get | a dozen queries, each with its own filter and grouping | the panels add up |
| finance (`application/finance`, `domain/finance`, `domain/cases`) | `expenses`, `expense_categories`, `expense_rules`, `other_income`, `advocate_rates`, `cases`, `case_payments` | CRUD, confirm, void, daily generators, settlement, report, gaps | generators that must be idempotent against edited and removed rows, and that two callers run at once | one charge per rule and month; a payout is what was collected; the pages agree |
| advocate view (`application/advocateview`, `handlers/my.go`) | `client_notes` | own cases, clients, settlement, statistics; a status, a note | its numbers are computed apart from finance's | an advocate sees and writes only what is theirs |
| auth (`application/auth`, `apitoken`, `tgauth`, `middleware/auth.go`) | `users`, `api_tokens`, chats of advocates and clients | log-in, keys, Mini App launches, roles | a key, a role or a chat that changes while a request is under way | a request has the rights its credential has when it comes and its row has when it is looked up |
| correspondence, vault | rows of their own | single-row reads and writes | little | filters hold |
| publishers, LLM and checker clients, Sheets, GA4, DataForSEO, Pexels, mail | none | calls | timeouts, `429`, lost answers (`pkg/retry`, `pkg/hostlimit`) | bounded retries |
| importers (`cmd/import55k`, `importcases`, `importexpenses`, `incometopup`, `expenseimport`) | the same tables | one-shot imports | run again on a corrected file, beside staff | a second run over the same tab adds nothing |
| front ends, configuration, logging, migrations, deployment | - | - | - | - |

### 1.2 How they interact

* An HTTP handler calls a service; a service calls repositories (one SQL statement each, with
  its own acknowledgement that can be lost) and outside clients. Long work goes to the job
  runner, on a context detached from the request.
* `root.go` starts tickers (`cron.go`): mailbox, promotion, evolution, reminders, generated
  expenses. A ticker never overlaps itself but overlaps everything else.
* The bot handles updates one after the other; reminders run in another goroutine and use the
  same bot.
* On shutdown `jobrunner.Wait` gets 30 s while a job may take 60 minutes, so a shutdown kills
  jobs as a crash does. After a restart only the articles are reconciled.

## 2. The plan: modules, in order

The order follows what is most valuable and most at risk: what is published under the
firm's name, what long background work does to shared state, then clients' hours, then
money, then the bot.

| # | module | composes | abstract specification | proved in | status |
|---|---|---|---|---|---|
| 1 | `ArticleLifecycle`, `ArticleEnds` | job runner's slots, the articles table, the site | - | `ArticlePipeline_proofs` | done |
| 2 | `Workpool` | - | `BatchedWork`, by a refinement mapping | `Background_proofs` | done |
| 3 | `EmailScrape` | `Workpool`, job runner, `scrape_jobs`, sheet | `BatchedWork`, as its pool does | `Background_proofs` | done |
| 4 | `PromptEvolution` | both tickers, the boot, `prompt_variants` | - | `Background_proofs` | done |
| 5 | `SlotGrid` | a pure algorithm against its reference definition | its grid, `GridHours` | `Telegram_proofs` | done |
| 6 | `Booking` | the Mini App, the bot's part in bookings, reminders | - | `Booking_proofs` | done |
| 7 | `AdminBot` | the poll, flows per user, old keyboards, redelivery | - | `Telegram_proofs` | done |
| 8 | `Backlinks` | runs over donors, the sheet, three tables, job runner | - | `Backlinks_proofs`, over `Sums` | done |
| 9 | `Ledger`, `LedgerReports`, `LedgerRuns` | the finance pages, what they read, the generators and importers beside them | the tables themselves: pages are checked against them | `Finance_proofs`, over `Sums` | done |
| 10 | `ClientBase`, `LeadIntake`, `ClientStats`, `HistoryImport` | the client tables; the mailbox and the bot's form; the dashboards; the importers | the tables themselves | `Clients_proofs`, over `Sums` | done |
| 11 | `Identity`, `AdvocateView` | credentials; requests under them, over `LedgerReports` | finance's settlement | `Finance_proofs` | done |
| 12 | `ArticlePipeline` | the inside of a job of module 1, the checker, ratings | `ArticleLifecycle`, whose state it extends | `ArticlePipeline_proofs` | done |
| 13 | retry budget of `pkg/retry` and `pkg/hostlimit` | - | a reference definition | - | planned |

Modules that extend one another are one system: `LedgerRuns` is the ledger with everything that
writes to it, `HistoryImport` the client base with everything that does, and `AdvocateView` reads
the ledger's tables. Eleven runs that pass are kept, one per question, and one that
shows where the code does not do what it says.

Conventions of all modules:

* constants carry the bounds (`Max...`, sets of model values), are named as such where they
  are declared, and have the assumptions the proofs need (`...Assumption`);
* one action per handler step: a step ends where the code awaits a statement, an outside call
  or another goroutine, so every interleaving of the process is one of the model. The exception is a page that only reads
  (reports, statistics, an advocate's section): it is computed from one state;
* `DBErrors` allows any statement to fail without effect, `AckLoss` to be applied and yet
  reported as failed; a crash is possible between any two steps;
* an operator under a comment "Mutant:" is a plausible wrong version of the definition after
  it. No specification uses it; substituted, it breaks a property of the module's run, which
  shows that the property depends on that line of the code;
* no module uses `RECURSIVE`; what is proved about is written with sets and functions.

## 3. The modules and the code

`PROJECT.json` maps every definition to the lines it stands for. In short:

### `ArticleLifecycle` - `application/articles/service.go`, `article_repository.go`, `root/articles.go`

`row` is the `articles` table, `wp` what the site holds, `proc` where each background job and
each client's `publish` call stands, `batch` the loop of `GenerateBatch`. `Generate`,
`BatchOpen / BatchCreate / BatchSkip` create rows; `AcquireSlot, WriteContent, StageFails,
CreateDraft, UpdateDraft(Fails), MarkFailed` are `runGeneration`; `PublishGoes, PublishPost(Fails),
MarkPublished(Fails), RereadArticle` are `publish`, shared by clients and by the job's
auto-publish; `Crash, Boot` are the end of the process and `FailOrphanedGenerating`. A lost answer
of the site leaves a post nobody knows of; a statement may fail, or be applied behind a
reported failure. The originality loop is here
one stage that passes or not; `ArticlePipeline` opens it. `ArticleEnds` keeps, beside the steps, which
rows a failed write left in "generating" (`lost`): what `GenerationEnds` has to except.

### `ArticlePipeline` - `articles/service.go` (`pipeline`), `articles/quality.go`, `infrastructure/checker`, `handlers/articles.go`

It extends `ArticleLifecycle`: each of its steps is a step of that module or leaves that module's state
alone. `work` holds the local variables of a job between its stages: `Brief, Template, Write, Edit`, then the
loop of `checkAndHumanize` (`Checked, Verdict, Humanize`, at most `CyclesOf` rewrites), then `Finish` and `RecordDraft`, which save the
outcome, the revision and the image statistics. `outcome` is `prompt_outcomes`, `human` the rating;
`Rate, RateOutcome` are `RateArticle`'s two statements. `cached` is the token the Copyleaks client keeps for all
jobs: `Authorized, Refused, TokenDropped, RefusedAgain`, and `TokenDies` at any time. A text is the number of
its version and its shape (enough headings and words or not); a score is a mark in thousandths that
`Cut` brings to the hundredths that are stored. `focus` chooses per behaviour whether staff publish, rate, or tokens
die, so that each of the three is explored in full without the product of all. Left out: the limits
of 25 000 and 1 500 characters of a check and the cut of a text there, a failure to save an event, a service without prompts.

### `Workpool`, `BatchedWork` - `pkg/workpool/workpool.go`

The dispatcher (`disp`), a worker per item (`worker`), the collector (`coll`, `batch`) and the closing
goroutine, over an unbuffered channel. `Dispatch, DispatchEnds, Close, WorkEnds, Drop, Receive,
FlushOk, FlushFails, ChannelClosed, NothingToFlush, Return, CtxDone`. `BatchedWork` says what a caller
may rely on: items are tried, given to the sink at most once, and the outcome is "ok" only if all
that was yielded is sunk. `Workpool` implements it (`ImplementsContract`). Its run is that of the job
below, whose steps are its steps.

### `EmailScrape` - `application/emailscrape/service.go`, `pkg/jobrunner`

It extends `Workpool`, the Run inside the job; `state, progress` are the `scrape_jobs` row, `phase`
the background job, `fetched` the sites asked, `refused` those to which the limiter gave no turn. `ScrapeEmails,
Start, Fetch, Refuse, ScrapeOne, WriteBatch(Fails), Finish, Cancel, Deadline, Crash`. `Refuse` is `hostlimit`, whose
`Wait` fails at once when its turn would come after the job's deadline; when that is, the model leaves open.

### `PromptEvolution` - `application/promptevolution/service.go`, `domain/articles/bandit.go`, `prompt_repository.go`

`status` and `stats` of the variants, and the two tickers with the snapshot of statistics each
works from: `PromoteTick, RetireWeak, RetireChampion, SetChampion`; `EvolveTick, EvolveGivesUp,
InsertCandidate`; `Restat` is any reward recorded meanwhile; `Crash, Boot` end and seed. An estimate is
a record with its two bounds, so `Beats` and `Weak` are the comparisons of `ShouldPromote` and
`ShouldRetire`.

### `SlotGrid` - `domain/consultations/schedule.go`, `HeldSlots`

Instants are hours UTC; `zone` is the wall clock of the firm, which changes once, by an hour, at the third hour of
`ChangeDay`. `Date` and `In` are `time.Date` and `Time.In`; `Rounds`, `Start`, `Listed` are the loop of
`FreeSlots` with its early `return`; `GridHours` is the reference: the hours of the window at which the
clock on the wall shows an opening hour of a working day.

### `Booking` - `application/clientportal/service.go`, `consultation_repository.go`, `telegram/adminbot.go`

`rows` is the `consultations` table in order of insertion, `chat` is `clients.telegram_chat_id`, `req` the
submissions under way (`Submit, CheckSlot, BindClient, HoldLooks, HoldSlot(Fails), SubmitLead`), `rem`
the pass of `SendReminders` (`SendReminders, SendReminder, MarkSent, RemindersNext`). Staff `Book` and
`TapStatus`, a client's `OpenLink` takes a chat over, `Tick` moves the clock, `Crash` ends the process.
`HoldSlot` is one SQL statement whose condition reads a snapshot (READ COMMITTED), so it is two
steps: `HoldLooks` and `HoldSlot`. A row keeps, as history, how many rows its condition saw
(`snap`) and the hour meant (`meant`). The picker's grid is any set of instants (`SlotGrid` shows which).

### `AdminBot` - `telegram/adminbot.go`

`queue` is what Telegram holds for the bot, `batch` the last poll, `flow` the `flows` map. `GetUpdates` confirms
what is below the offset and takes the rest; `Handle` is the turn of one update, part of every handler. The
steps of `handle`'s switch are tables (`FirstSteps, Following, ReqFollowing, ReadOnlyEnds, WritingEnds`) with one action per
kind of step; the buttons of `handleCallback` have an action each. `Ignored` is every handler that changes nothing.
What an update says is chosen when it is handled; any button may be tapped at any time. `deeds` and `created`
count what each dialogue wrote; `shown` is every group the bot asked to confirm, and `made` those it made, each a client and
an advocate. `LookedUp` is the search for a client, which finds one or several or none. What
a booking or a status button does to a consultation is `Booking`'s matter.

### `Backlinks` - `application/linkbuilding/backlink_service.go`, `wppost.go`, `sheets/websites.go`, three repositories

`h` is column H of the donors' sheet, `placed, cooling, stored` the tables of placements, donor profiles and
credentials, `run` what the goroutine of each run knows, `written` what was really put on a donor. `List, Check,
Queue, Refuse` are the reads of `PlaceBacklinks` one by one; `Start, Cancel, Deadline` the job runner;
`SelectDonor` to `End` the loop of `placeAll` with its chunked `Flush`; `LoadPassword, IssueAppPassword,
StorePassword` are `placeOne`; `Capabilities, PassOver, TierFails, AnswerLost, WriteLink, SubmitDraft, LinkSeen,
LinkMissing` the three tiers of `placeOnDonor`. `ClearCell` is the operator, `CooledDown` time. `slips` keeps, as
history and per donor, each way a link can be lost sight of: a lost answer, a hidden link, a failed save or flush,
a run cut short, a crash, a row read before the link was known.

### `Ledger`, `LedgerReports`, `LedgerRuns` - `application/finance`, `domain/finance`, `finance_repository.go`, `handlers/finance.go`

`Ledger` holds the tables (`cats, rows, rules, income, cases, payments, consults, rates`) and every
operation of the finance pages with the checks of its handler, service and statement, and the bot's money
commands: `SaveCase, Pay, CloseCase, SaveConsultation, TapStatus`. `LedgerReports` is what the pages read:
`MonthlyFacts` and `BuildReport` with the running balance, `Settlement`, `AdvocateCollections`, the
lists and their sums, `GapsPage`, `Period`. `LedgerRuns` adds what writes alone, one statement per step: a pass of the ticker
(`StartCron`, last month and this) and one of the page (`StartPage`), which overlap: `Insert` by external
reference, `Collect`, `PayoutsDone`, `Fail`; `importexpenses` (`StartImport, BookLine`) over a sheet whose tabs
may not add up (`Failed`); `incometopup` (`StartTopUp, BookTopUp`). `CommandDies` ends a command at any statement.
Amounts are kopiykas, a month is two days long.

### `ClientBase`, `LeadIntake`, `ClientStats`, `HistoryImport` - leads, clients, dashboards, importers

`ClientBase` holds the tables of clients (found by phone), leads, consultations, cases, tags; staff create, edit,
tag, pin, note, book, pay; `CountHistory, DropNotes, DropClient` are the statements of a deletion. On the segments page
and the card an action is the handler's request (`AddClientTag`), over what the service lets through (`AddTag`) and what the
statement does (`TagGiven`). `LeadIntake` is the poll
(`FetchUnseen, TakeMail`), the submissions of the bot (`Submit`) and what each does in order: `ResolveClient,
SendMessage, Save, AppendRow, MarkSheetSynced, MarkSeen`; any of them may fail, be carried out with its answer
lost, or be the last before the process ends (of the two marks the answer is only logged). Staff set the practice area by a tap on the announcement. `ClientStats` is what the dashboards compute:
`Stats` with its panels, the funnel's cohort, `Derive` for the segments, the client's lifetime. `HistoryImport` is `import55k` and
`importcases`, each one transaction over its tab; `EditTab` corrects a tab between two runs. An imported lead is known by the number of its row (`FromTab`). Day 0 stands for
the days before the system went live, where imported rows lie.

### `Identity`, `AdvocateView` - `middleware/auth.go`, `apitoken`, `tgauth`, `application/advocateview`, `handlers/my.go`

`Identity` holds users, API keys, the roster with its chats and the clients' chats; `AuthenticateKey, ParseToken,
VerifyLaunch` verify a credential, `FindByID, FindByTelegramID` look its row up, `AllowedByScopes` is the
operation's scope. `AdvocateView` walks requests through it (`Present, Identify, Perform, Answer`) while
`People` changes roles (`ChangeRole`, an UPDATE of the operator: no code does), chats, keys and launches, and `Money` the ledger below. What an advocate
reads are operators (`ListMyCases, ListMyClients, GetMySettlement, GetMyStats`), what it writes are
`SetMyCaseStatus` and `AddMyClientNote`. `stood` keeps, as history, what a request's credential said when it came
(`Bears`: whose key or session it is, and that it has not run out) and what the rows said of it
at the lookup (`StandsFor`). `scene` bounds what meets what: staff act between the steps of
one request, or requests overlap with each other (and with `Meanwhile` edits of staff), or the books move. The theorems hold for any
`Meanwhile`; the run has 0.

## 4. What the runs check

| run | model | shows | bounds and why they are enough |
|---|---|---|---|
| `articles_auto` | `ArticleAuto.cfg` (`ArticlePipeline`) | `RowMatchesSite`, `OnePostPerArticle`, `LiveOnPurpose`, `LiveTextChecked`, `OutcomeTies`, `DeniedOnlyTwice` with auto-publish, lost answers, lost acknowledgements and a crash | two articles, two posts, two job slots, one client: two jobs and a publish meet; marks around the threshold, two rewrites at most, two ratings, two tokens that die, one fault |
| `articles_manual` | `ArticleManual.cfg` (with `ArticleEnds`) | `OneArticlePerTopic`, `PublishedIsFinal`, `GenerationEnds` without auto-publish | two articles, two slots, two clients racing for one publish, a batch against a direct request over two topics, any number of failing statements, two crashes: a row that one boot could not reconcile meets another |
| `emailscrape` | `EmailScrape.cfg` | `GivenOnce`, `RowTellsTruth`, `ImplementsContract`, `JobCloses` | four sites, two workers, batches of two: two full batches or one and a rest, a worker waiting for the semaphore, any failure, a cancellation, the deadline and a crash |
| `prompt_variants` | `PromptEvolution.cfg` | `OneChampion`, `CandidatesBounded`, `ChampionReturns` | four variants (champion, two candidates, a seed), two estimates of which one is clearly above, one failing statement and one crash |
| `slotgrid` | `SlotGrid.cfg` | `PickerExact` | five days, one closed, the change of the clock on the third, forward or back; every set of held hours the picker can lead to |
| `booking` | `Booking.cfg` | `HourGivenOnce`, `LeadHasHour`, `RemindedOnce`, `MarkedWasSent` where the wall clock is ahead of UTC | two submissions of two clients and the staff for one hour, two rows; failing statements and lost acknowledgements; both recipients, a clock that passes the hours, one crash or failed mark. `Focus` bounds the product: either no reminder has been sent or read yet and both clients compete, or everything is of one client, who may be reminded |
| `booking_zone` | `BookingZone.cfg` | violated: `StaffHourLeavesPicker` (4.1) | one booking by staff of an hour of the picker, a clock two hours ahead of UTC; no fault |
| `adminbot` | `AdminBot.cfg` | `ActsOnce`, `ActsAsShown`, `StaffOnly` | one staff member, one guest, two dialogues (an old keyboard needs a second dialogue to be stale), two clients and two advocates to mix up, two updates in a batch, one crash, one lost answer, one question that did not get through |
| `backlinks` | `Backlinks.cfg` | `LinksAccounted`, `StopsAtCount` | two runs that overlap over two donors, an editor's (every tier) and an author's (the last two), a target of one, chunks of two, two slots; one lost answer, hidden link, failed sheet write, cleared cell or crash, and any number of failing statements, cancellations and passed cooldowns |
| `ledger` | `Ledger.cfg` (`LedgerRuns`) | `ReportsTie`, `BooksTie`, `PayoutCoversMonth`, `RemovedStaysRemoved`, `DueChargesArrive` | two edits of any kind in two months of two days, the passes of the ticker and the page, or one of two importers (over a sheet that states two totals for its month, one of them wrong), one statement that fails or command that dies. Two edits make and change a row or a rule, or pay twice on the case there is; a removal between two passes, an edit that backdates, and a payment of a month already paid out are among them |
| `clients` | `Clients.cfg` (`HistoryImport`) | `ReferencesHold`, `LeadsAccounted`, `ImportsSafe`, `StatsTie`, `EveryMailArrives` | two mails and a request, two of them of one phone; a deletion beside them and one fault; or tabs of two to four rows and their corrected versions, with two edits by staff; two days and the time before |
| `access` | `AdvocateView.cfg` | `IdentityOK`, `ViewTies`, `WritesOnlyOwn` | two advocates, two clients, two logins, one key and chat, two requests: one at a time, meeting two edits by staff (roles, roster, chats, or the books), of which one may come before and one after its credential is verified; or overlapping, of admins, one creating or revoking the key the other came with; amounts of 50 at 35 percent are rounded |

`CHECK_DEADLOCK FALSE` stands where the system may really stop: all articles made, a `Run` that has
returned, a clock that has reached its bound.

One run ends in a violation, which TLC has to find: it states what a comment of the code says and shows what the
code does instead. The counterexample is a few steps long, without a fault; 4.1 tells it.

Symmetry (`Symmetry` in the MC modules) is used for the interchangeable names of articles, posts,
clients, requests, logins, advocates and phones, and only where no liveness property is checked.

A property that joins several parts names them: `RowTellsTruth` is `DoneMeansAll` and `ProgressInSheet`,
`OutcomeTies` is `CreditTies` and `RatingTies`, `ReportsTie`, `BooksTie`, `LeadsAccounted`, `ImportsSafe`, `StatsTie`,
`IdentityOK` and `ViewTies` are conjunctions of what their modules name.

### 4.1 Where the code and what is said of it differ

The properties state what the code keeps. Met on the way, where a comment or a document says
more than that:

* *Articles.* A client publishes while the article's own auto-publish is under way. The
  job loses the race, gets `ErrAlreadyPublished`, and `runGeneration` marks the *published* row
  failed, because `UpdateStatus` (`article_repository.go:144`) has no condition on the status. A third publish then passes
  `MarkPublished`'s `WHERE status <> 'published'` and overwrites the record of the first, which the comment
  there (`:164-169`) excludes. Without auto-publish, and with writes that are not applied behind a reported
  error, `SingleWinner` and `PublishedIsFinal` hold, and are proved (`ManualPublishWinsOnce`, `ManualPublishIsFinal`).
* *Articles, ends.* The write that ends a generation is tried once: `markFailed` logs an error and returns (`service.go:306`), and
  the boot goes on when it could not reconcile (`articles.go:47`). The row then reads "generating" while the process is up, until a later
  boot reconciles it. `GenerationEnds` excepts these rows and no others.
* *Ratings.* A rating that comes before the article's outcome row exists updates no row (`service.go:413`), and the
  outcome saved later has no reward from it. `RatingTies` excepts such articles.
* *Evolution.* The worst texts shown to the model pair the first score of an article with the sentences
  of its last check (`prompt_repository.go:141`, `evolve.go:53`).
* *E-mail scraping.* A job that waits for a runner slot has no cancel function yet (`service.go:113`). `Cancel`
  answers 202 (`openapi.yaml:541`) and the job later fetches every site. A done job may hold sites nobody asked: near the
  deadline the host's limiter refuses a turn at once (`hostlimit.go:34`), and the refusal is written as the site's
  result (`service.go:165`, `:218`). `DoneMeansAll` says "asked or refused".
* *Booking.* `finishBooking` parses the hour staff type as UTC (`adminbot.go:1448`); the picker lives in the schedule's
  zone (`config.go:202`). `StatusesHoldingSlot` is to take a booked hour "off the picker" (`entity.go:31`). In Kyiv the hour meant stays on
  offer and a client can take it: run `booking_zone`.
* *Requests.* A client's request is answered by hand: only bookings of staff carry the status buttons
  (`adminbot.go:1482`), and nothing in the code takes a row out of "requested".
* *Tags.* A button acts on the client of the staff member's *last* tag menu, whichever menu it is tapped on
  (`adminbot.go:2040`); the comment at `:2160` speaks of one.
* *Statistics.* The average ticket divides paid revenue by all held consultations
  (`leadstats_repository.go:53`); visits of days without a lead are dropped (`leadstats/service.go:133`); an
  unpaid consultation is in a client's lifetime value (`clientdetail_repository.go:101`); a
  client with a request and no more is "lost" to the segments (`clientsegments/entity.go:171`). `StatsTie` states what the panels do share.
  "Mutually exclusive counts that sum to ConsultedEver" (`leadstats/entity.go:130`) leave out a first consultation that is still
  requested (`leadstats_repository.go:364`): the comment and the query disagree. `CohortTies` counts it apart (`Unanswered`).
* *Imports.* `import55k` is "safe to re-run" (`main.go:6`) over the same tab, and `ImportsSafe` says so. Over a corrected one it is not: a lead's id is its
  row's number (`:137`), so after a row is put in above, the leads below are stored again under new numbers, and one that comes to stand on a used
  number is never stored. What does hold of corrected tabs is `LeadsByNumber`.
* *Imports, dates.* `import55k` and `importcases` take the greater of two days for `last_seen_at` (`import55k/main.go:241`), the resolver
  sets today's (`lead_repository.go:43`): a client of a row dated ahead is next seen before it. `SeenSpan` holds where no row is (`PastTabs`).
* *Settlement.* An advocate's own settlement rounds each month, finance's rounds the whole; `report.go` expects one
  number. `ViewTies` allows half a kopiyka per month. Two advocates of one name share the cases
  that carry only a name (`advocateview_repository.go:28`).

## 5. Fairness

Liveness is claimed only under weak fairness that the code's scheduling gives:

* a background job goes on because every outside call and every statement has a timeout and the
  job itself has one (60 minutes), whatever they answer: `JobStep` and `PublishStep` of each article, `Dispatcher`, `Collector`,
  `SiteStep` of the pool, `Finish`. A queued job starts because the jobs before it end: `Start`;
* nothing restarts a process that died (Compose sets no restart policy), so no fairness is put on `Boot`:
  `GenerationEnds` and `ChampionReturns` start with `[]<>up`, that somebody does start it again;
* tickers fire for ever: the promotion pass, `Reminders`, the poll of the mailbox (`PollStep`, for
  `EveryMailArrives`), the generator of charges (`Cron`, for `DueChargesArrive`, once days and staff stand still);

Nothing is assumed of clients, of cancellations, of deadlines, of failures or of the clock. A failure that nothing makes good is
an exception a property names: `GenerationEnds` leaves out a row whose ending write failed, until a boot reconciles it. What no
code does is not assumed either: `JobCloses` excepts a process that died or whose closing write
failed, since no boot looks at `scrape_jobs`.

## 6. What is proved

TLAPS (SMT, Zenon, LS4) checks the modules named `..._proofs` and `Sums` without omitted steps. The theorems hold for
every value of the constants that satisfies the module's assumptions: any number of articles, clients,
workers, variants, donors, rows; any bounds. Where a component extends another, one module holds the proofs of both.

* **`ArticlePipeline_proofs`**, first part (`TypeCorrect, RowsMatchSite, NoSecondPost, LiveOnlyOnPurpose,
  ManualPublishIsFinal, ManualPublishWinsOnce, BatchRepeatsNoTopic` of `ArticleLifecycle`). None of the properties is inductive: that a row agrees with
  the site depends on what jobs and clients hold between two calls. `SiteInv` adds, per article, what each
  program counter implies: a job that is to record a draft holds a post made for its article and the row does not yet name it; a
  caller past `PublishPost` has a live post; a post of the article is the row's or is the one its job holds.
  One step lemma per action, under it one step per conjunct that the action can disturb. For the two
  theorems on manual publishing `ManualInv` says that without auto-publish and without lost acknowledgements a generating row has its job and
  no publish call gets past `MarkPublished` twice. `BatchRepeatsNoTopic` holds where one batch at a time creates every article;
  `TopicInv` adds that no article that is not failed is about a topic the batch has still to try, and that a failed one has no post, so nothing publishes it.
* **`ArticlePipeline_proofs`**, second part. `PipelineImplementsLifecycle`: `PSpec => Spec`. Each action of the pipeline is a step
  of `ArticleLifecycle` or keeps its state; one lemma per kind of step, then a case over `PNext`. So the safety theorems
  above hold of the detailed model as well (`PipelineRowsMatchSite, PipelineNoSecondPost, PipelineLiveOnPurpose`).
  What the detail alone has: `PipelineTypes`; `ChecksSurviveToken` (`TokenInv`: a job that checks again has met a dead token that is neither the one it holds nor the cached one, so a second refusal
  needs a second death); `OnlyCheckedGoesLive` (`TextInv`: a passed verdict is of the text the job is finishing, and no rewrite comes between it and the draft); `OutcomesTie` (a job carries the variant that wrote its text, the score of its first text and
  all it has cost until the outcome is saved; `RatingInv`: a rating under way that met no mishap is alone and will write what the article says).
* **`Background_proofs`**, first part (`PoolCorrect, SinkGivenOnce, NoneLeftBehind, PoolKeepsContract` of `Workpool`): `PoolInv` relates the
  channel's closing, the workers alive, the batch and what is sunk: an item is in one place at a time (with a worker, in the batch, sunk or dropped), and the
  channel is closed only after the dispatcher and every worker ended. `BatchedWork`'s steps follow from it:
  every step of `Workpool` is one of `BatchedWork` or a stutter, so the refinement is a theorem
  (its safety part; that Run returns is model-checked).
* **`Background_proofs`**, second part (`JobCorrect, RowIsTrue, SheetGivenOnce, ClosedJobIsFinal, JobKeepsContract` of `EmailScrape`): every
  step of a job is a step of the pool inside it or leaves the pool alone, so `PoolInv` carries over; `JobInv` adds what the row says of
  it: progress counts what the sheet was given, and "done" is written only after the pool returned "ok", with every site asked or refused its turn.
* **`Background_proofs`**, third part (`VariantsCorrect, NeverTwoChampions, SlotsSuffice, RetiredForGood` of `PromptEvolution`): `VariantInv` is `OneChampion` with what a pass that is between its two statements knows: a
  pass that will set a champion has retired the one there was, and what it is going to promote was not retired by it; a pass that will insert still has a slot.
* **`Booking_proofs`** (`BookingCorrect, BookingTypes, HoursGivenOnce, LeadsHaveHours, RemindersOnce,
  MarksWereSent, HoursAsTyped`): `BookingInv` is the types, `HourInv` and `RemindInv`. `HourGivenOnce` alone says nothing
  of a submission between its condition and its insert; `SnapshotOK` does: among the rows its condition saw,
  none holds its hour, *now*. That is stable because rows are only appended and a tap never brings a
  row back to a status that holds an hour (`HoldingKept`). `RemindInv` bounds what was sent by the
  faults, plus one if the reminder is marked or is the one about to be (`Unmarked`). `RowsKept`, the lemma most
  others use, says what any step leaves of the table. `ScheduledAsTyped` (`HoursAsTyped`) says with any offset of the firm's clock that what staff book stands that
  offset away from the hour they mean; that the hour meant leaves the picker is refuted by the run `booking_zone`.
* **`Telegram_proofs`**, first part (`BotCorrect, BotActsOnce, BotActsAsShown, BotIsStaffOnly` of `AdminBot`): `BotInv` has four parts. `StaffOnly` says
  that every dialogue is one the tables of questions know. `DialogueInv`: two users are never in one dialogue, a dialogue not begun has done nothing,
  and one that is not at its end has written nothing. `PollInv`: an update of the batch that is not handled yet has acted in earlier lives of the process only. `ShownInv`:
  what was made or may be made by the next tap without having been shown (`Unseen`) is no more than the messages that were not delivered.
* **`Telegram_proofs`**, second part (`PickerOffersGrid` of `SlotGrid`): `PickerExact` is true of every state whose clock is one of the firm's, so
  the work is in the lemmas on `Date` and `In`: an opening hour is read back as it was set (`ReadsBack`) and is the only instant that
  reads so (`SetsBack`); opening hours follow one another in time as on the wall (`DatesFollow`); and the loop reaches every day of the
  window (`MidnightsBefore, DaysFollow`). They hold because the clock moves by an hour at most and the office opens after that (`ChangeAssumption`,
  `Open >= 4`): with a change of three hours, hours 4 and 5 would not exist. `DaysAssumption` says that the modelled days, a bound of the model, reach to the horizon.
* **`Finance_proofs`**, first part (`LedgerCorrect, BooksCorrect, PayoutsCorrect, RemovedForGood` of `LedgerRuns`). `LedgerInv` types every table
  and says what its rows owe one another: an id was given out, a reference stands in one row, a category exists, a case's
  total is the sum of its payments. A pass works from a list it made earlier, while staff and another pass go on; so the
  invariant also speaks of what is planned and not yet written (`PassOK, PayoutsCover`): it has a reference, is no later than the
  pass's clock, and covers its month. `TakenIn` counts payments by the day they were *recorded*: a month that is over gains none in the
  earliest look and can only gain in the latest, which makes `CoversMonth` stable. `Books` is the part without passes; a lemma per action
  of the staff shows `StepOK`, one per statement of a pass or a command `Followed`. Tables are edited through `Written` and
  `TableFollows`, from which the action property follows without looking at the action again.
* **`Finance_proofs`**, second part (`ReportsCorrect`). Totals become sums over tables (`TotalOfPrices` to `TotalOfRows`). `MonthByMonth`: what
  is dated before the next month is what is dated before this one and in it; applied to the four kinds of money it gives
  `BalanceGoesOn`, and `CarriedIs` that a loop which adds month to month arrives at any function that grows by its terms: so the
  running total is the balance wherever the report begins. Categories are summed to kinds and kinds over months, or months first (`SumsSwap`). Each
  advocate has one row of the settlement at most, and one if paid (`SettlementRowsAre`), so its column is the ledger's rows that name an advocate.
* **`Finance_proofs`**, third part (`ViewCorrect, IdentityHolds, RequestsWriteOnlyOwn, PagesAgree` of `AdvocateView`): a request reads who its caller is in two steps and acts in
  a third, while roles, chats, keys and cases change between them. `stood` holds what the credential said when the request came and, from
  the lookup on, what the rows said then; nothing later enters it. `CallerOK` says that each identity the caller carries is in `stood`, and `IdentityInv` that no two rows share a chat, so
  that a chat stands for one advocate and one client at a time. The action property is a case over what
  the handler writes. `IdentityInv` alone gives `IdentityOK`.
  `PagesAgree` has an invariant of its own, `ViewBooks`: the `Books` of the first part and that every row is dated within the calendar. In such a state
  a list of clients is the cases taken apart by client, the count by status is the cases taken apart by status, and what is paid on the cases is
  the payments taken apart by case (`SumOfParts`). What rounding each month by itself may move is `AccruedApart`, by induction over the months.
* **`Backlinks_proofs`** (`BacklinksCorrect, NoLinkIsLost, RunsStopAtCount`): `LinksAccounted` bounds the links on a donor by what is known
  of it, what the runs hold, and the slips; it is not inductive, since a run that read its rows early may yet
  save over what another has saved. `Covered` leaves that much to spare: from what a run holds of a donor it takes off what the run may
  still take from the table (`MayDouble`) and from the sheet (`MayOverwrite`). Every step of one run is shown to pay for
  itself, that is, what it adds to a donor's links or takes from a store is matched by what the run holds or by a slip; the
  two steps that make something known, a save and a flush, also pay for every other run that does not know of it, by the slips which
  the model counts there. A crash turns all that is held into slips. The sums over runs are those of `Sums`.
  Beside it `RunOK` and `StopOK` keep a run's own variables of one piece.
* **`Clients_proofs`** (`ClientsCorrect, NoDanglingReference, EveryLeadAccounted, DashboardsAgree, ImportsRepeat, ImportsAreSafe`): `ClientsInv` is the types, `ReferencesHold`,
  which is inductive once the types are, and `IntakeInv` for the leads. `OwnMessage` says that nobody else works on the message of a submission;
  `StepOK` that what a submission has done so far is in the tables, and that an announcement it has not yet stored belongs to no lead; `CountInv`
  bounds the sheet's rows of a message by its repeats, plus one once the row is `Written`; `TableInv` and `TapInv` tie
  leads to the sheet, the announcements and what was tapped. A step of a submission is one of few kinds (quiet, a new announcement, a stored lead, a
  sheet row, an end), each a lemma over what it changes. An importer works through its tab in one transaction: what a row keeps
  (`GoodBase`) is a lemma, and the whole tab follows by an induction over its length that is written out, since the result
  is a recursive function of the number of rows. The requests that may ever be sent are finite in number, an assumption.
  `DashboardsAgree` (`StatsTie`) needs no more of a state than its types: each panel is a sum over one table taken apart by a key (a trend by day, a status by its name,
  a case by its area, a client by his source), so that panels with conditions of their own are equal part by part (`PartsCount`, `PartsTotal`); the cohort's
  columns add up because a first consultation has one status, one of the four or "requested" (`FirstOutcomeIs`), and `DebtorOwes` because what one case owes is no more than what all do.
  `ImportsRepeat` rests on `ImportInv`. That a rerun adds nothing is a property of the state only through what the run before has left: `Settled` says that after a
  run of `import55k` every row of the tab is found (`FoundRow`: its client, whose days span the row's, its lead, its consultation) and that a
  consultation which is alone at its time has the status of the last row to speak of it (`LastSaid`). A run establishes this row by row (`RunSettles`:
  a later row loses no earlier one, because `Spanning` only widens a client's days) and a run over tables that have it
  writes each row over itself (`RerunReplays`); what any other step does to it does not matter, as `ran` forgets the run. `LeadsTold` says of an imported lead that a
  version of the tab read so far has it as the row of its number. `ImportsAreSafe` adds `SpanInv` and is the only theorem of the module with a hypothesis, `PastTabs`: no row is dated after the day
  of the first run. It is needed: the importers widen a client's days, but the resolver sets `last_seen_at = now()`
  (`lead_repository.go:43`), which takes a later day back. The tabs of the run satisfy it.
* **`Sums`**: that a property of finite sets which passes from a set to the set with one more element holds of all
  of them, from which `MapThenSumSet` over any finite set is shown to be additive, monotone, to change by the change of one summand, and to be the sum of the sums of its parts. The
  library's induction theorems take the property as an operator, which the provers cannot instantiate. Here the property is the set of
  the subsets that have it, and induction is the well-foundedness of proper inclusion among
  the subsets of a finite set.

The inductive invariants were checked by TLC on the instances above before they were proved.

Assumptions: only the named `ASSUME`s of the modules (types of the constants, disjoint names, that a
marker like `Nobody` is no person), which TLC evaluates in every run, and the hypotheses that a theorem names itself.

## 7. Only model-checked

Every invariant and every action property of the runs is stated by a theorem of section 6. What is left to TLC:

* Liveness (`GenerationEnds, JobCloses, ChampionReturns, DueChargesArrive, EveryMailArrives`): fairness and
  ENABLED are beyond the prover used.

## 8. Not modelled, and why

* Panics. The job runner (`jobrunner.go:50`), `runGeneration` (`service.go:280`) and the HTTP middleware (`logger.go:42`) recover them:
  a generation fails its article, a request gets an error, any other job stops where it is and its row stays as it was, as after
  a crash. The goroutines of `workpool`, of the checker and of the tickers do not: there a panic ends the process, a crash.
* One process: Compose runs one, and the code relies on it (flows, cancel functions and
  semaphores are in memory). Two processes at once, during a deployment, are outside the models.
* Shutdown waits 30 s for jobs that may take 60 minutes. It is treated as a crash, its worst case.
* The bot's cache of staff languages, which two goroutines share without a lock (a hazard of the list).
* A process that dies leaves its `scrape_jobs` row running, since no boot looks at it: `JobCloses` excepts it. Two jobs on
  one sheet, or a sheet edited meanwhile, write by the row numbers listed at their start; `EmailScrape` has one job.
* Texts: prompts, rendering, SEO fields, parsing of mails, cells and pages, the wording of the bot.
* Outside services are calls that succeed, fail, or are carried out although their answer is lost; `pkg/retry`
  and `pkg/hostlimit` are inside such a call.
* A report reads its tables in several statements; the model reads them in one state.
* Vault and correspondence: rows that nothing else reads. `cmd/adspend` reads Analytics and prints.
* Front ends, configuration, migrations, deployment, generated API code.
