----------------------------- MODULE Backlinks -----------------------------
(***************************************************************************)
(* Placing backlinks to one target site (application/linkbuilding): a      *)
(* request reads the sheet of donors, the placements and the donors'       *)
(* profiles and queues a run over what they leave; the run logs in to one  *)
(* donor after the other and tries the home page, the latest post and a    *)
(* new post until a link is seen live, saves what came of it, and writes   *)
(* the sheet in chunks. Runs overlap, share nothing but these stores, and  *)
(* end by their target, their rows, a cancellation, the deadline, a sheet  *)
(* that fails or the process dying.                                        *)
(***************************************************************************)
EXTENDS Integers, FiniteSets, FiniteSetsExt

CONSTANTS
    Donors, Runs,
    Rows,        \* of the sheet, numbers in its order
    DonorOf,     \* the donor of a row; a sheet may list a donor twice
    RightsOf,    \* what a donor's account may do
    Count,       \* the placements a request asks for
    Chunk,       \* placeWriteChunk
    Slots,       \* of the runner
    DBErrors,    \* may a statement fail?
    MaxFaults    \* bounds answers lost, links that do not show, sheet writes that
                 \* fail, cells the operator writes, and crashes, taken together

\* The capabilities the code looks at, and "publish", which the donor does.
AllRights == {"pages", "others", "create", "publish"}

ASSUME BacklinksAssumption ==
    /\ Rows \subseteq Nat /\ IsFiniteSet(Rows) /\ IsFiniteSet(Runs)
    /\ DonorOf \in [Rows -> Donors]
    /\ RightsOf \in [Donors -> SUBSET AllRights]
    /\ Count \in Nat \ {0} /\ Chunk \in Nat \ {0} /\ Slots \in Nat \ {0}

VARIABLES
    h,        \* column H of each row, what ShortStatus wrote last
    placed,   \* backlink_placements: donors with ok = true
    cooling,  \* donor_site_profiles: donors within their cooldown
    stored,   \* donor_site_credentials
    run,      \* what each run's goroutine knows
    written,  \* per donor: links and drafts put on it
    slips,    \* history, per donor: see Slip
    faults    \* history: what MaxFaults bounds

vars == <<h, placed, cooling, stored, run, written, slips, faults>>

-----------------------------------------------------------------------------
Cells == {"", "ok", "pending", "permanent", "fail"}

\* What came of a donor: outcome.go's, those that are permanent and those that
\* cool down as one each.
Outcomes == {"placed", "pending", "permanent", "cooled", "error"}

Results == Rows \X Outcomes

LiveSteps == {"homeLive", "postLive", "newLive"}

Steps == LiveSteps \cup {"next", "load", "issue", "store", "caps", "home", "post",
                         "new", "settle", "save", "profile", "flush", "end"}

Phases == {"none", "listed", "checked", "queued", "running", "over", "unwritten", "dead"}

RunRecord ==
    [phase : Phases, cut : BOOLEAN, todo : SUBSET Rows, row : Rows \cup {0},
     step : Steps, rights : SUBSET AllRights,
     worst : {"", "missing", "hard"},  \* sawMissing, hardErr
     got : Outcomes, pending : SUBSET Results, succeeded : Nat]

Fresh == [phase |-> "none", cut |-> FALSE, todo |-> {}, row |-> 0, step |-> "next",
          rights |-> {}, worst |-> "", got |-> "error", pending |-> {}, succeeded |-> 0]

TypeOK ==
    /\ h \in [Rows -> Cells]
    /\ placed \subseteq Donors /\ cooling \subseteq Donors /\ stored \subseteq Donors
    /\ run \in [Runs -> RunRecord]
    /\ written \in [Donors -> Nat] /\ slips \in [Donors -> Nat]
    /\ faults \in Nat

Init ==
    /\ h = [w \in Rows |-> ""]
    /\ placed = {} /\ cooling = {} /\ stored = {}
    /\ run = [r \in Runs |-> Fresh]
    /\ written = [d \in Donors |-> 0] /\ slips = [d \in Donors |-> 0]
    /\ faults = 0

stores == <<h, placed, cooling, stored>>
history == <<written, slips, faults>>

-----------------------------------------------------------------------------
(* Who knows of a link.                                                    *)

Here(r) == DonorOf[run[r].row]

\* A run is with the donor: it has selected its row and not saved the result.
Visiting(r, d) ==
    /\ run[r].phase = "running"
    /\ run[r].step \notin {"next", "profile", "flush", "end"}
    /\ Here(r) = d

\* It holds a link or a draft that is neither in the table nor in the sheet.
Holds(r, d) ==
    /\ Visiting(r, d)
    /\ \/ run[r].step \in LiveSteps
       \/ run[r].step = "settle" /\ run[r].got \in {"placed", "pending"}
       \/ run[r].step = "save" /\ run[r].got = "placed"

\* Its drafts that wait in memory for the next flush; a run that has ended has
\* no next flush.
Unflushed(r, d) ==
    IF run[r].phase # "running" THEN {}
    ELSE {p \in run[r].pending : p[2] = "pending" /\ DonorOf[p[1]] = d}

InHand(d) ==
    MapThenSumSet(LAMBDA r : (IF Holds(r, d) THEN 1 ELSE 0) + Cardinality(Unflushed(r, d)),
                  Runs)

\* The table or the sheet say so.
Known(d) ==
    (IF d \in placed THEN 1 ELSE 0)
    + Cardinality({w \in Rows : DonorOf[w] = d /\ h[w] = "pending"})

InPlay(r) == run[r].phase \in {"listed", "checked", "queued", "running"}

\* What other goroutines, and other rows of this one, have in hand for the
\* donor: read before a link became known, it is not looked up again.
Overtaken(r, d) ==
    MapThenSumSet(LAMBDA q :
        IF ~InPlay(q) THEN 0
        ELSE Cardinality({w \in run[q].todo : DonorOf[w] = d})
             + (IF q # r /\ Visiting(q, d) THEN 1 ELSE 0)
             + (IF q = r THEN 0
                ELSE Cardinality({p \in run[q].pending : DonorOf[p[1]] = d})),
        Runs)

\* The donor has a link nobody will know of, or n rows in hand that do not
\* know of one.
Slip(d, n) == slips' = [slips EXCEPT ![d] = @ + n]

Fault == faults < MaxFaults /\ faults' = faults + 1

-----------------------------------------------------------------------------
(* PlaceBacklinks: three reads, one after the other.                       *)

\* Mutant: a donor with a draft under review is not recognised.
OnlyFailures(cell) == cell = "permanent"

IsPermanentStatus(cell) == cell \in {"pending", "permanent"}

\* ListCredentials.
List(r) ==
    /\ run[r].phase = "none"
    /\ run' = [run EXCEPT ![r].phase = "listed",
                          ![r].todo = {w \in Rows : ~IsPermanentStatus(h[w])}]
    /\ UNCHANGED <<stores, history>>

\* Mutant: column I is relied on.
OnlyMarked == {}

\* hasLatestPlaced adds nothing: what a run writes to column I reads
\* "[stamp] placed (method): ...", and it looks for "placed:". A row marked so
\* by hand is as good as not in the sheet.
PlacedDonors == placed

Check(r) ==
    /\ run[r].phase = "listed"
    /\ run' = [run EXCEPT ![r].phase = "checked",
                          ![r].todo = {w \in @ : DonorOf[w] \notin PlacedDonors}]
    /\ UNCHANGED <<stores, history>>

\* RecentlyFailed, then runner.Go.
Queue(r) ==
    /\ run[r].phase = "checked"
    /\ run' = [run EXCEPT ![r].phase = "queued",
                          ![r].todo = {w \in @ : DonorOf[w] \notin cooling}]
    /\ UNCHANGED <<stores, history>>

\* One of the reads fails and the request with it.
Refuse(r) ==
    /\ DBErrors
    /\ run[r].phase \in {"listed", "checked"}
    /\ run' = [run EXCEPT ![r] = Fresh]
    /\ UNCHANGED <<stores, history>>

Running == {r \in Runs : run[r].phase = "running"}

Start(r) ==
    /\ run[r].phase = "queued" /\ Cardinality(Running) < Slots
    /\ run' = [run EXCEPT ![r].phase = "running"]
    /\ UNCHANGED <<stores, history>>

\* The run's context ends. A run that waits for a slot has no cancel function.
Cut(r) ==
    /\ run[r].phase = "running" /\ ~run[r].cut
    /\ run' = [run EXCEPT ![r].cut = TRUE]
    /\ UNCHANGED <<stores, history>>

Cancel(r) == Cut(r)
Deadline(r) == Cut(r)

-----------------------------------------------------------------------------
(* placeAll: the loop.                                                     *)

At(r, step) == run[r].phase = "running" /\ run[r].step = step

SelectDonor(r) ==
    /\ At(r, "next") /\ ~run[r].cut /\ run[r].todo # {}
    /\ run' = [run EXCEPT ![r].row = Min(run[r].todo), ![r].todo = @ \ {Min(@)},
                          ![r].step = "load"]
    /\ UNCHANGED <<stores, history>>

RunsOut(r) ==
    /\ At(r, "next")
    /\ run[r].cut \/ run[r].todo = {}
    /\ run' = [run EXCEPT ![r].step = "end"]
    /\ UNCHANGED <<stores, history>>

\* placeOne has returned: a run cut short meanwhile drops the result, whatever
\* it is.
Settle(r) ==
    /\ At(r, "settle")
    /\ IF run[r].cut
         THEN /\ run' = [run EXCEPT ![r].step = "end", ![r].row = 0, ![r].got = "error"]
              /\ Slip(Here(r), IF Holds(r, Here(r)) THEN 1 ELSE 0)
         ELSE /\ run' = [run EXCEPT
                    ![r].step = "save",
                    ![r].pending = @ \cup {<<run[r].row, run[r].got>>},
                    ![r].succeeded = IF run[r].got = "placed" THEN @ + 1 ELSE @]
              /\ UNCHANGED slips
    /\ UNCHANGED <<stores, written, faults>>

\* store.Save, under a context of its own; a failure is counted and logged.
SavePlacement(r) ==
    /\ At(r, "save")
    /\ run' = [run EXCEPT ![r].step = "profile"]
    /\ IF run[r].got # "placed" THEN UNCHANGED <<placed, slips>>
       ELSE \/ /\ placed' = placed \cup {Here(r)}
               /\ Slip(Here(r), IF Here(r) \in placed THEN 0 ELSE Overtaken(r, Here(r)))
            \/ /\ DBErrors
               /\ Slip(Here(r), 1)
               /\ UNCHANGED placed
    /\ UNCHANGED <<h, cooling, stored, written, faults>>

\* Mutant: the loop goes on until there is one more than was asked for.
MoreThanEnough(r) == run[r].succeeded > Count

Enough(r) == run[r].succeeded >= Count

AfterDonor(r) == IF Enough(r) THEN "end" ELSE "next"

\* profiles.Save, under a context of its own.
SaveProfile(r) ==
    /\ At(r, "profile")
    /\ run' = [run EXCEPT ![r].step =
                 IF Cardinality(run[r].pending) >= Chunk THEN "flush" ELSE AfterDonor(r),
                          ![r].row = 0, ![r].got = "error"]
    /\ \/ cooling' = IF run[r].got = "cooled" THEN cooling \cup {Here(r)}
                     ELSE cooling \ {Here(r)}
       \/ DBErrors /\ UNCHANGED cooling
    /\ UNCHANGED <<h, placed, stored, history>>

-----------------------------------------------------------------------------
(* flush: WritePlacementStatus for what is pending.                        *)

\* Mutant: the outcome is written as it is.
OutcomeItself(outcome) == outcome

ShortStatus(outcome) ==
    CASE outcome = "placed"    -> "ok"
      [] outcome = "pending"   -> "pending"
      [] outcome = "permanent" -> "permanent"
      [] OTHER                 -> "fail"

RowsOf(results) == {p[1] : p \in results}

WritePlacementStatus(r) ==
    /\ h' = [w \in Rows |->
               IF w \in RowsOf(run[r].pending)
                 THEN ShortStatus(CHOOSE o \in Outcomes : <<w, o>> \in run[r].pending)
                 ELSE h[w]]
    /\ slips' = [d \in Donors |->
                   slips[d] + IF Unflushed(r, d) = {} THEN 0 ELSE Overtaken(r, d)]

Flush(r) ==
    /\ At(r, "flush") \/ At(r, "end")
    /\ run[r].pending # {}
    /\ WritePlacementStatus(r)
    /\ run' = [run EXCEPT ![r].pending = {},
                          ![r].step = IF run[r].step = "end" THEN "end" ELSE AfterDonor(r)]
    /\ UNCHANGED <<placed, cooling, stored, written, faults>>

\* The call fails, applied or not, and the run ends with it.
FlushFails(r, applied) ==
    /\ At(r, "flush") \/ At(r, "end")
    /\ run[r].pending # {}
    /\ Fault
    /\ IF applied THEN WritePlacementStatus(r)
       ELSE /\ slips' = [d \in Donors |-> slips[d] + Cardinality(Unflushed(r, d))]
            /\ UNCHANGED h
    /\ run' = [run EXCEPT ![r] = [Fresh EXCEPT !.phase = "unwritten"]]
    /\ UNCHANGED <<placed, cooling, stored, written>>

\* Mutant: the run ends without its last flush.
AsItIs(r) == TRUE

AllFlushed(r) == run[r].pending = {}

End(r) ==
    /\ At(r, "end") /\ AllFlushed(r)
    /\ run' = [run EXCEPT ![r].phase = "over"]
    /\ UNCHANGED <<stores, history>>

-----------------------------------------------------------------------------
(* placeOne: the account.                                                  *)

\* What placeOne knew of the donor is gone with it.
GiveUp(r, outcome) ==
    run' = [run EXCEPT ![r].step = "settle", ![r].got = outcome,
                       ![r].rights = {}, ![r].worst = ""]

\* donors.Get.
LoadPassword(r) ==
    /\ At(r, "load")
    /\ \/ /\ ~run[r].cut
          /\ run' = [run EXCEPT ![r].step = IF Here(r) \in stored THEN "caps" ELSE "issue"]
       \/ (DBErrors \/ run[r].cut) /\ GiveUp(r, "error")
    /\ UNCHANGED <<stores, history>>

\* A login that fails is classified by its reason.
IssueAppPassword(r) ==
    /\ At(r, "issue")
    /\ \/ ~run[r].cut /\ run' = [run EXCEPT ![r].step = "store"]
       \/ \E outcome \in {"permanent", "cooled"} : GiveUp(r, outcome)
    /\ UNCHANGED <<stores, history>>

\* donors.Save.
StorePassword(r) ==
    /\ At(r, "store")
    /\ \/ /\ ~run[r].cut
          /\ stored' = stored \cup {Here(r)}
          /\ run' = [run EXCEPT ![r].step = "caps"]
       \/ /\ DBErrors \/ run[r].cut
          /\ GiveUp(r, "error")
          /\ UNCHANGED stored
    /\ UNCHANGED <<h, placed, cooling, history>>

\* Rights that cannot be read are taken for all rights.
Capabilities(r) ==
    /\ At(r, "caps")
    /\ \E rights \in {AllRights} \cup (IF run[r].cut THEN {} ELSE {RightsOf[Here(r)]}) :
          run' = [run EXCEPT ![r].step = "home", ![r].rights = rights]
    /\ UNCHANGED <<stores, history>>

-----------------------------------------------------------------------------
(* placeOnDonor: the tiers.                                                *)

Tiers == {"home", "post", "new"}

MayTry(r, tier) ==
    CASE tier = "home" -> "pages" \in run[r].rights
      [] tier = "post" -> {"create", "others"} \cap run[r].rights # {}
      [] tier = "new"  -> "create" \in run[r].rights

\* What the donor's WordPress lets the account do.
DonorAllows(d, tier) ==
    CASE tier = "home" -> "pages" \in RightsOf[d]
      [] tier = "post" -> "publish" \in RightsOf[d]
      [] tier = "new"  -> "create" \in RightsOf[d]

LiveOf(tier) ==
    CASE tier = "home" -> "homeLive" [] tier = "post" -> "postLive" [] OTHER -> "newLive"

NoPlacement(worst) == IF worst = "" THEN "permanent" ELSE "cooled"

\* The next tier, or the verdict after the last one.
After(r, tier, worst) ==
    IF tier = "new" THEN GiveUp(r, NoPlacement(worst))
    ELSE run' = [run EXCEPT ![r].worst = worst,
                            ![r].step = IF tier = "home" THEN "post" ELSE "new"]

\* No rights, nothing to edit, or a refusal that names the rights.
PassOver(r, tier) ==
    /\ At(r, tier)
    /\ ~MayTry(r, tier) \/ tier # "new" \/ ~DonorAllows(Here(r), tier)
    /\ After(r, tier, run[r].worst)
    /\ UNCHANGED <<stores, history>>

\* A read, the model or the write fails, nothing written.
TierFails(r, tier) ==
    /\ At(r, tier) /\ MayTry(r, tier)
    /\ After(r, tier, "hard")
    /\ UNCHANGED <<stores, history>>

Write(r, tier) ==
    /\ At(r, tier) /\ MayTry(r, tier) /\ DonorAllows(Here(r), tier)
    /\ written' = [written EXCEPT ![Here(r)] = @ + 1]
    /\ UNCHANGED stores

\* The donor has written the link and its answer does not arrive.
AnswerLost(r, tier) ==
    /\ Write(r, tier)
    /\ Fault /\ Slip(Here(r), 1)
    /\ After(r, tier, "hard")

\* UpdatePageContent, UpdatePostContent, or CreatePost of an account that may
\* publish.
WriteLink(r, tier) ==
    /\ Write(r, tier) /\ ~run[r].cut
    /\ tier = "new" => "publish" \in RightsOf[Here(r)]
    /\ run' = [run EXCEPT ![r].step = LiveOf(tier)]
    /\ UNCHANGED <<slips, faults>>

\* CreatePost of an account that may not publish, or of one whose posts the
\* donor holds back: the post waits for review.
SubmitDraft(r) ==
    /\ Write(r, "new") /\ ~run[r].cut
    /\ GiveUp(r, "pending")
    /\ UNCHANGED <<slips, faults>>

\* acceptIfLive: only a page that was read and lacks the link says no.
LinkSeen(r, tier) ==
    /\ At(r, LiveOf(tier))
    /\ GiveUp(r, "placed")
    /\ UNCHANGED <<stores, history>>

LinkMissing(r, tier) ==
    /\ At(r, LiveOf(tier))
    /\ Fault /\ Slip(Here(r), 1)
    /\ After(r, tier, IF run[r].worst = "hard" THEN "hard" ELSE "missing")
    /\ UNCHANGED <<stores, written>>

-----------------------------------------------------------------------------
(* The world.                                                              *)

\* lockedCooldown, failCooldown.
CooledDown(d) ==
    /\ d \in cooling
    /\ cooling' = cooling \ {d}
    /\ UNCHANGED <<h, placed, stored, run, history>>

\* The operator enables a donor again.
ClearCell(w) ==
    /\ Fault
    /\ IsPermanentStatus(h[w])
    /\ h' = [h EXCEPT ![w] = ""]
    /\ Slip(DonorOf[w], IF h[w] = "pending" THEN 1 ELSE 0)
    /\ UNCHANGED <<placed, cooling, stored, run, written>>

\* The process dies and is started again: requests and runs are gone.
Crash ==
    /\ Fault
    /\ slips' = [d \in Donors |-> slips[d] + InHand(d)]
    /\ run' = [r \in Runs |-> IF InPlay(r) THEN [Fresh EXCEPT !.phase = "dead"] ELSE run[r]]
    /\ UNCHANGED <<stores, written>>

-----------------------------------------------------------------------------
TierStep(r) ==
    \/ \E tier \in Tiers :
          \/ PassOver(r, tier) \/ TierFails(r, tier) \/ AnswerLost(r, tier)
          \/ WriteLink(r, tier) \/ LinkSeen(r, tier) \/ LinkMissing(r, tier)
    \/ SubmitDraft(r)

RunStep(r) ==
    \/ SelectDonor(r) \/ RunsOut(r) \/ LoadPassword(r) \/ IssueAppPassword(r)
    \/ StorePassword(r) \/ Capabilities(r) \/ TierStep(r)
    \/ Settle(r) \/ SavePlacement(r) \/ SaveProfile(r)
    \/ Flush(r) \/ (\E applied \in BOOLEAN : FlushFails(r, applied)) \/ End(r)

Request(r) == List(r) \/ Check(r) \/ Queue(r) \/ Refuse(r)

Next ==
    \/ \E r \in Runs : Request(r) \/ Start(r) \/ Cancel(r) \/ Deadline(r) \/ RunStep(r)
    \/ \E d \in Donors : CooledDown(d)
    \/ \E w \in Rows : ClearCell(w)
    \/ Crash

Spec == Init /\ [][Next]_vars

-----------------------------------------------------------------------------
\* Every link and draft on a donor is in the table or the sheet, or in the
\* hands of a run that will put it there, unless an answer, a save, a flush or
\* the process was lost, the donor hid it, the run was cut short, the operator
\* cleared it, or the row had been read before it was known: a later run does
\* not add a second one (PlaceBacklinks' filters), and a run that ends by
\* itself, however early, leaves no draft in memory (placeAll's last flush).
LinksAccounted ==
    /\ TypeOK
    /\ \A d \in Donors : written[d] <= Known(d) + InHand(d) + slips[d]

\* No run reports more placements than it was asked for, and one that was not
\* cut short stops before only when it has no donor left (placeAll).
StopsAtCount ==
    \A r \in Runs :
        /\ run[r].succeeded <= Count
        /\ run[r].phase = "over" /\ ~run[r].cut =>
             run[r].succeeded = Count \/ run[r].todo = {}

-----------------------------------------------------------------------------
(* The inductive invariant behind them. *)

\* What a run's goroutine knows is of one piece: a row is in one place, has one
\* outcome, and is in hand while the loop is with its donor.
RunOK(x) ==
    /\ x.phase = "none" => x = Fresh
    /\ x.phase \in {"listed", "checked", "queued"} =>
         x = [Fresh EXCEPT !.phase = x.phase, !.todo = x.todo]
    /\ RowsOf(x.pending) \cap x.todo = {}
    /\ \A p, q \in x.pending : p[1] = q[1] => p = q
    /\ x.step \notin {"next", "flush", "end"} => x.row \in Rows \ x.todo
    /\ x.step \in {"save", "profile"} => <<x.row, x.got>> \in x.pending
    /\ x.step \notin {"next", "flush", "end", "save", "profile"} => x.row \notin RowsOf(x.pending)

\* The loop goes on only while it lacks something (AfterDonor, RunsOut).
StopOK(x) ==
    /\ x.succeeded <= Count
    /\ x.step \notin {"save", "profile", "flush", "end"} => x.succeeded < Count
    /\ x.step = "end" /\ ~x.cut => x.succeeded = Count \/ x.todo = {}
    /\ x.phase = "over" => x.step = "end"

\* The rows a run has read and not written.
Busy(r) == run[r].phase = "running" /\ run[r].step \notin {"next", "profile", "flush", "end"}

OwnRows(r) ==
    run[r].todo \cup RowsOf(run[r].pending) \cup (IF Busy(r) THEN {run[r].row} ELSE {})

Hand(r, d) == (IF Holds(r, d) THEN 1 ELSE 0) + Cardinality(Unflushed(r, d))

\* What a run may still take from what is known of a donor: a link more where
\* the table has one, and each draft that the sheet has of its rows.
MayDouble(r, d) ==
    IF d \in placed /\ run[r].phase \in {"checked", "queued", "running"}
    THEN Cardinality({w \in run[r].todo : DonorOf[w] = d}) + (IF Visiting(r, d) THEN 1 ELSE 0)
    ELSE 0

MayOverwrite(r, d) ==
    IF InPlay(r) THEN Cardinality({w \in OwnRows(r) : DonorOf[w] = d /\ h[w] = "pending"}) ELSE 0

Backed(d) == MapThenSumSet(LAMBDA r : Hand(r, d) - MayDouble(r, d) - MayOverwrite(r, d), Runs)

\* LinksAccounted has this much to spare: the slips of the links that came first
\* pay for what the runs that did not know of them have yet to do.
Covered(d) == written[d] <= Known(d) + Backed(d) + slips[d]

BacklinksInv ==
    /\ TypeOK
    /\ \A r \in Runs : RunOK(run[r]) /\ StopOK(run[r])
    /\ \A d \in Donors : Covered(d)
=============================================================================
