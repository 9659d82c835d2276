----------------------------- MODULE ArticleEnds -----------------------------
(***************************************************************************)
(* Whether the generation of an article ever ends (ArticleLifecycle).      *)
(* The write that ends one may fail, and nothing tries it again: markFailed *)
(* only logs the error, and so does buildArticles when it reconciles the   *)
(* rows on boot.  A history variable tells the rows such a failure left    *)
(* in "generating"; it is kept beside the steps and restrains none.        *)
(***************************************************************************)
EXTENDS ArticleLifecycle

VARIABLE
    lost      \* history: rows left "generating" by a write that failed

\* The job is over and could not say that it failed.
MarkLost(a) == proc[a].pc = "fail" /\ proc'[a] = Idle

\* The process is up again and could not reconcile its rows.
BootLost == ~up /\ up' /\ row' # OrphansFailed

\* A row is lost until something ends it after all: the next boot that can.
Track ==
    lost' = {a \in Articles : /\ row'[a].status = "generating"
                              /\ a \in lost \/ MarkLost(a) \/ BootLost}

LostInit == Init /\ lost = {}

LostNext == Next /\ Track

\* Every call of a job is bounded by a timeout, so a job that runs goes on.
LostSpec ==
    /\ LostInit /\ [][LostNext]_<<vars, lost>>
    /\ \A a \in Articles : WF_vars(JobStep(a) \/ PublishStep(a))

\* No article stays in "generating" for ever: its job ends it, or the boot
\* after the crash that killed the job.  The one exception: the very write that
\* was to end it failed, MarkFailed at the end of its job (markFailed logs the
\* error and does not try again) or the reconciliation on boot; such a row waits
\* for another boot, the process being up or not (runGeneration,
\* FailOrphanedGenerating).  A process that died has to be started by hand:
\* nothing restarts it.
GenerationEnds ==
    []<>up =>
        \A a \in Articles :
            row[a].status = "generating" ~> (row[a].status # "generating" \/ a \in lost)
=============================================================================
