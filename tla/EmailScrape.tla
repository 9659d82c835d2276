---------------------------- MODULE EmailScrape ----------------------------
(***************************************************************************)
(* A scrape job of internal/application/emailscrape: POST /emailscrape     *)
(* writes a job row and queues a background job that fetches every site of *)
(* a sheet through workpool.Run, writes the addresses to the sheet batch   *)
(* by batch, and closes the row with what Run returned. The items of       *)
(* Workpool are the sites, its sink is the sheet, its steps are steps of   *)
(* the job.                                                                *)
(* Anyone may ask to cancel the job at any time; it has a deadline; the    *)
(* process may die, and nothing looks for the job's row afterwards.        *)
(***************************************************************************)
EXTENDS Workpool

CONSTANTS
    DBErrors,  \* may a statement on the job's row fail?
    MayCrash   \* may the process die?

VARIABLES
    state,     \* the row of scrape_jobs: "none" or its state
    progress,  \* the row's processed
    phase,     \* the background job: "none", "queued", "running", "over", "lost" (its
               \* last write failed), "dead"
    fetched,   \* sites whose home page was asked for
    refused    \* sites the limiter gave no turn before the job's deadline

jobVars == <<state, progress, phase, fetched, refused>>
allVars == <<vars, jobVars>>

JobInit ==
    /\ Init
    /\ state = "none" /\ progress = 0 /\ phase = "none"
    /\ fetched = {} /\ refused = {}

-----------------------------------------------------------------------------
\* jobs.Create, then runner.Go.
ScrapeEmails ==
    /\ phase = "none"
    /\ state' = "running" /\ phase' = "queued"
    /\ UNCHANGED <<vars, progress, fetched, refused>>

\* The runner has a slot: the deadline starts and the cancel function becomes
\* known to Cancel.
Start ==
    /\ phase = "queued"
    /\ phase' = "running"
    /\ UNCHANGED <<vars, state, progress, fetched, refused>>

Live == phase \in {"running", "over"}

\* limiter.Wait lets it through; it and Fetch give up when the job's context is
\* done.
Fetch(i) ==
    /\ Live /\ worker[i] = "working" /\ ~Cancelled /\ i \notin refused
    /\ fetched' = fetched \cup {i}
    /\ UNCHANGED <<vars, state, progress, phase, refused>>

\* limiter.Wait refuses at once, the context still alive, when the host's turn
\* would come after the job's deadline: the site is never asked.
Refuse(i) ==
    /\ Live /\ worker[i] = "working" /\ ~Cancelled /\ i \notin fetched
    /\ refused' = refused \cup {i}
    /\ UNCHANGED <<vars, state, progress, phase, fetched>>

\* scrapeOne: a page that fails, or a turn that is refused, is a result too; one
\* that was overtaken by the end of the job's context is none.
ScrapeOne(i) ==
    /\ Live /\ (i \in fetched \cup refused \/ Cancelled)
    /\ WorkEnds(i, ~Cancelled)
    /\ UNCHANGED jobVars

\* The steps of Run that only move its own state.
Dispatcher ==
    /\ Live
    /\ Dispatch \/ DispatchEnds \/ Close
    /\ UNCHANGED jobVars

Collector ==
    /\ Live
    /\ \/ \E i \in Items : Receive(i)
       \/ ChannelClosed \/ NothingToFlush \/ Return
    /\ UNCHANGED jobVars

DropResult(i) ==
    /\ Live
    /\ Drop(i)
    /\ UNCHANGED jobVars

\* writeBatch, then UpdateProgress, whose failure is only a warning.
WriteBatch ==
    /\ Live
    /\ FlushOk
    /\ \/ progress' = Cardinality(sunk')
       \/ DBErrors /\ UNCHANGED progress
    /\ UNCHANGED <<state, phase, fetched, refused>>

\* Mutant: the batch is counted before it is written.
ProgressCounted == Cardinality(sunk \cup batch)

ProgressOnFailure == progress

WriteBatchFails(applied) ==
    /\ Live
    /\ FlushFails(applied)
    /\ progress' = ProgressOnFailure
    /\ UNCHANGED <<state, phase, fetched, refused>>

\* Mutant: every end but a failed write is "done".
StatesDoneAnyway == IF result = "sink" THEN {"failed"} ELSE {"done"}

\* A write that ran into its own timeout closes the job as canceled too.
FinalStates ==
    CASE result = "ctx"  -> {"canceled"}
      [] result = "sink" -> {"canceled", "failed"}
      [] OTHER           -> {"done"}

\* Mutant: the row is closed when the channel is.
RunOverEarly == disp = "closed"

RunOver == coll = "returned"

\* Mutant: Finish runs under the job's own context.
FinishUnderJobContext == ~ctxErr

\* Finish's context is detached from the job's.
FinishCanRun == TRUE

Finish ==
    /\ phase = "running" /\ RunOver
    /\ \/ phase' = "over"
          /\ IF FinishCanRun THEN state' \in FinalStates ELSE UNCHANGED state
       \/ DBErrors /\ phase' = "lost" /\ UNCHANGED state
    /\ UNCHANGED <<vars, progress, fetched, refused>>

\* POST /emailscrape/jobs/{id}/cancel: a job whose cancel function is not
\* known is only looked up.
Cancel ==
    /\ state # "none" /\ phase # "dead"
    /\ ctxErr' = (ctxErr \/ phase = "running")
    /\ UNCHANGED <<next, disp, worker, coll, batch, processed, sunk, calls,
                   sinkErr, result, state, progress, phase, fetched, refused>>

\* The job's deadline.
Deadline ==
    /\ phase = "running"
    /\ CtxDone
    /\ UNCHANGED jobVars

\* A write under way may still be applied.
Crash ==
    /\ MayCrash /\ phase # "dead"
    /\ phase' = "dead"
    /\ sunk' \in {sunk, IF Live /\ coll \in {"flush", "end"} THEN sunk \cup batch ELSE sunk}
    /\ UNCHANGED <<next, disp, worker, coll, batch, processed, calls, sinkErr,
                   ctxErr, result, state, progress, fetched, refused>>

-----------------------------------------------------------------------------
SinkStep == WriteBatch \/ \E applied \in BOOLEAN : WriteBatchFails(applied)

SiteStep(i) == Fetch(i) \/ Refuse(i) \/ ScrapeOne(i) \/ DropResult(i)

JobNext ==
    \/ ScrapeEmails \/ Start \/ Dispatcher \/ Collector \/ SinkStep \/ Finish
    \/ \E i \in Items : SiteStep(i)
    \/ Cancel \/ Deadline \/ Crash

JobSpec == JobInit /\ [][JobNext]_allVars

\* The jobs ahead of it in the runner end by their own deadlines; fetches and
\* writes have timeouts; the goroutines are scheduled.
FairJobSpec ==
    /\ JobSpec
    /\ WF_allVars(Start) /\ WF_allVars(Dispatcher) /\ WF_allVars(Collector \/ SinkStep)
    /\ WF_allVars(Finish)
    /\ \A i \in Items : WF_allVars(SiteStep(i))

-----------------------------------------------------------------------------
\* A job that reads "done" has a result for every site in the sheet, and none of
\* them is made up: the site was asked, or it was refused its turn, whose result
\* is the limiter's error.
DoneMeansAll == state = "done" => fetched \cup refused = Items /\ sunk = Items

\* The progress the row shows is in the sheet.
ProgressInSheet == progress <= Cardinality(sunk)

\* The row says no more than was done: whatever was cut off by a cancellation,
\* the deadline or a failed write, the job is not called done, and its progress
\* does not run ahead of the sheet (scrapeAll; UpdateProgress after
\* WriteResults). It does not say that every site was asked: the sites of one slow
\* host may be refused, and the job is done all the same.
RowTellsTruth == DoneMeansAll /\ ProgressInSheet

ClosedIsFinal ==
    [][state \notin {"none", "running"} =>
         UNCHANGED <<state, progress, sunk, fetched, refused>>]_allVars

\* A job does not read "running" for ever, unless its process died or the very
\* write that closes the row failed (Finish under a context of its own); and once
\* it is closed nothing of the job changes the row or the sheet or fetches a
\* page (scrapeAll's Finish comes after Run has returned).
JobCloses ==
    /\ state = "running" ~> (state # "running" \/ phase \in {"dead", "lost"})
    /\ ClosedIsFinal

-----------------------------------------------------------------------------
(* The inductive invariant. A process that died may have left a batch with *)
(* the sheet that Run never heard of; nothing moves after that.            *)

\* A site yields only what it answered or the limiter's refusal, and is cut off only
\* by the end of the context; a run without an error yielded and sunk every site.
SitesInv ==
    \A i \in Items :
        /\ worker[i] \in {"sending", "sent"} => i \in fetched \cup refused
        /\ worker[i] \in {"nothing", "dropped"} => Cancelled
        /\ result = "ok" => i \in fetched \cup refused /\ i \in sunk

\* The row's state follows from the job's place and from what Run returned.
RowInv ==
    /\ state \in {"none", "running", "done", "failed", "canceled"}
    /\ phase \in {"none", "queued", "running", "over", "lost", "dead"}
    /\ state \notin {"none", "running"} => phase \in {"over", "dead"} /\ coll = "returned"
    /\ state = "done" => result = "ok"
    /\ phase = "none" => state = "none"
    /\ progress \in Nat /\ progress <= Cardinality(sunk)
    /\ sunk \subseteq Items /\ fetched \subseteq Items /\ refused \subseteq Items

JobInv == (phase # "dead" => PoolInv) /\ GivenOnce /\ SitesInv /\ RowInv
=============================================================================
