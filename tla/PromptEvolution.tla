-------------------------- MODULE PromptEvolution --------------------------
(***************************************************************************)
(* The variants of the writer prompt (prompt_variants): two tickers of     *)
(* internal/application/promptevolution promote and retire variants and    *)
(* ask for new candidates, each from statistics read at the start of its   *)
(* run, while articles keep adding outcomes; the boot seeds a champion     *)
(* when there is none.                                                     *)
(*                                                                         *)
(* A variant's statistics are its samples in the selection window and its  *)
(* estimate: the lower bound, the mean and the upper bound of its reward,  *)
(* of which the code only compares the order. What becomes of them is left *)
(* open, since outcomes arrive, age out of the window and are rated.       *)
(***************************************************************************)
EXTENDS Integers, FiniteSets

CONSTANTS
    Variants,           \* variant ids (bounds the variants ever inserted)
    Estimates,          \* the estimates the runs tell apart
    MaxSamples,         \* bound on the samples of a variant
    PromoteMinSamples, CanaryMinSamples, MaxCandidates,
    MaxFailures,        \* bound on failing statements
    MaxCrashes,         \* bound on process crashes
    NoVariant

\* With 1 added to both sums the variance is never zero.
ASSUME EstimateAssumption ==
    Estimates \subseteq {e \in [low: Nat, mean: Nat, high: Nat] :
                            e.low < e.mean /\ e.mean < e.high}

ASSUME SizesAssumption ==
    /\ MaxSamples \in Nat /\ PromoteMinSamples \in Nat /\ CanaryMinSamples \in Nat
    /\ MaxCandidates \in Nat /\ MaxFailures \in Nat /\ MaxCrashes \in Nat
    /\ NoVariant \notin Variants /\ IsFiniteSet(Variants)

VARIABLES
    status,    \* per variant: "none", "candidate", "champion" or "retired"
    stats,     \* per variant: samples and estimate
    promoter,  \* the run of PromotePrompts: what it read and has yet to do
    evolver,   \* the run of GenerateCandidate: has it passed its checks?
    up,        \* is the process running?
    failures, crashes  \* so far

variantVars == <<status, stats, promoter, evolver, up, failures, crashes>>

-----------------------------------------------------------------------------
Stat == [samples: 0..MaxSamples, est: Estimates]

Candidates(st) == {v \in Variants : st[v] = "candidate"}
Champions(st) == {v \in Variants : st[v] = "champion"}

\* pc "idle"; "weak" retires the weak candidates left; "retire" the champion;
\* "promote" the new one.
Resting == [pc |-> "idle", weak |-> {}, best |-> NoVariant, old |-> NoVariant]

VariantInit ==
    /\ \E v \in Variants :
          status = [x \in Variants |-> IF x = v THEN "champion" ELSE "none"]
    /\ stats \in [Variants -> {s \in Stat : s.samples = 0}]
    /\ promoter = Resting
    /\ evolver = "idle"
    /\ up = TRUE /\ failures = 0 /\ crashes = 0

VariantTypeOK ==
    /\ status \in [Variants -> {"none", "candidate", "champion", "retired"}]
    /\ stats \in [Variants -> Stat]
    /\ promoter \in [pc: {"idle", "weak", "retire", "promote"}, weak: SUBSET Variants,
                     best: Variants \cup {NoVariant}, old: Variants \cup {NoVariant}]
    /\ evolver \in {"idle", "insert"}
    /\ up \in BOOLEAN
    /\ failures \in 0..MaxFailures /\ crashes \in 0..MaxCrashes

-----------------------------------------------------------------------------
(* What a run decides from the statistics of the variants not retired.     *)

\* Mutant: without a champion nothing can be promoted.
BarWithoutChampion == IF Champions(status) = {} THEN 100
                      ELSE stats[CHOOSE v \in Champions(status) : TRUE].est.mean

\* The champion's mean, -1 without one.
Bar == IF Champions(status) = {} THEN -1
       ELSE stats[CHOOSE v \in Champions(status) : TRUE].est.mean

\* ShouldRetire.
Weak == {v \in Candidates(status) :
            /\ Champions(status) # {}
            /\ stats[v].samples >= CanaryMinSamples
            /\ stats[v].est.high < Bar}

Beats(v) == stats[v].est.low > Bar

\* ShouldPromote: of the candidates that beat the bar, one with the highest
\* lower bound.
Best == {v \in Candidates(status) :
            /\ stats[v].samples >= PromoteMinSamples
            /\ Beats(v)
            /\ \A w \in Candidates(status) :
                  stats[w].samples >= PromoteMinSamples => stats[w].est.low <= stats[v].est.low}

OldChampion == IF Champions(status) = {} THEN NoVariant
               ELSE CHOOSE v \in Champions(status) : TRUE

-----------------------------------------------------------------------------
(* PromotePrompts.                                                         *)

AfterWeak(best, old) ==
    IF best = NoVariant THEN "idle" ELSE IF old = NoVariant THEN "promote" ELSE "retire"

PromoteTick ==
    /\ up /\ promoter.pc = "idle"
    /\ \E best \in IF Best = {} THEN {NoVariant} ELSE Best :
          promoter' = [pc |-> IF Weak = {} THEN AfterWeak(best, OldChampion) ELSE "weak",
                       weak |-> Weak, best |-> best, old |-> OldChampion]
    /\ UNCHANGED <<status, stats, evolver, up, failures, crashes>>

\* SetVariantStatus, which may fail, applied or not.
SetsStatus(v, s, ok) ==
    /\ ok \/ failures < MaxFailures
    /\ failures' = IF ok THEN failures ELSE failures + 1
    /\ \/ status' = [status EXCEPT ![v] = s]
       \/ ~ok /\ UNCHANGED status

\* A weak candidate is retired; a failure is only logged.
RetireWeak(v, ok) ==
    /\ up /\ promoter.pc = "weak" /\ v \in promoter.weak
    /\ SetsStatus(v, "retired", ok)
    /\ LET left == promoter.weak \ {v} IN
       promoter' = [promoter EXCEPT !.weak = left,
                      !.pc = IF left = {} THEN AfterWeak(promoter.best, promoter.old)
                                          ELSE "weak"]
    /\ UNCHANGED <<stats, evolver, up, crashes>>

\* Mutant: goes on when the old champion could not be retired.
RetiredOrNot(ok) == [promoter EXCEPT !.pc = "promote"]

AfterRetire(ok) == IF ok THEN [promoter EXCEPT !.pc = "promote"] ELSE Resting

RetireChampion(ok) ==
    /\ up /\ promoter.pc = "retire"
    /\ SetsStatus(promoter.old, "retired", ok)
    /\ promoter' = AfterRetire(ok)
    /\ UNCHANGED <<stats, evolver, up, crashes>>

SetChampion(ok) ==
    /\ up /\ promoter.pc = "promote"
    /\ SetsStatus(promoter.best, "champion", ok)
    /\ promoter' = Resting
    /\ UNCHANGED <<stats, evolver, up, crashes>>

-----------------------------------------------------------------------------
(* GenerateCandidate.                                                      *)

\* Mutant: one candidate too many.
RoomForOneMore == Cardinality(Candidates(status)) <= MaxCandidates

CandidateRoom == Cardinality(Candidates(status)) < MaxCandidates

\* The statistics show a champion and room; then the worst outcomes are read
\* and the model asked, for as long as that takes.
EvolveTick ==
    /\ up /\ evolver = "idle"
    /\ Champions(status) # {} /\ CandidateRoom
    /\ evolver' = "insert"
    /\ UNCHANGED <<status, stats, promoter, up, failures, crashes>>

\* No failures to learn from, or no usable answer.
EvolveGivesUp ==
    /\ up /\ evolver = "insert"
    /\ evolver' = "idle"
    /\ UNCHANGED <<status, stats, promoter, up, failures, crashes>>

\* The bound on variant ids leaves one for the seed of every boot to come.
IdsToSpare ==
    Cardinality({v \in Variants : status[v] = "none"}) > MaxCrashes - crashes

\* An insert that reports failure may have been applied.
InsertCandidate(v) ==
    /\ up /\ evolver = "insert"
    /\ status[v] = "none" /\ IdsToSpare
    /\ status' = [status EXCEPT ![v] = "candidate"]
    /\ evolver' = "idle"
    /\ UNCHANGED <<stats, promoter, up, failures, crashes>>

-----------------------------------------------------------------------------
\* Outcomes of articles arrive, are rated, and age out of the window.
Restat(v) ==
    /\ status[v] # "none"
    /\ stats' \in {[stats EXCEPT ![v] = s] : s \in Stat}
    /\ stats' # stats
    /\ UNCHANGED <<status, promoter, evolver, up, failures, crashes>>

ShutDown ==
    /\ up /\ crashes < MaxCrashes
    /\ up' = FALSE /\ crashes' = crashes + 1
    /\ promoter' = Resting /\ evolver' = "idle"
    /\ UNCHANGED <<status, stats, failures>>

NeedsSeed == Champions(status) = {}

\* seedWriterChampion, before the tickers start.
Boot(ok) ==
    /\ ~up
    /\ up' = TRUE
    /\ \/ ~NeedsSeed /\ ok /\ UNCHANGED <<status, failures>>
       \/ /\ NeedsSeed
          /\ IF ok THEN /\ \E v \in Variants :
                              /\ status[v] = "none"
                              /\ status' = [status EXCEPT ![v] = "champion"]
                        /\ UNCHANGED failures
                   ELSE /\ failures < MaxFailures /\ failures' = failures + 1
                        /\ UNCHANGED status
    /\ UNCHANGED <<stats, promoter, evolver, crashes>>

VariantNext ==
    \/ PromoteTick \/ EvolveTick \/ EvolveGivesUp \/ ShutDown
    \/ \E ok \in BOOLEAN : RetireChampion(ok) \/ SetChampion(ok) \/ Boot(ok)
    \/ \E v \in Variants :
          (\E ok \in BOOLEAN : RetireWeak(v, ok)) \/ InsertCandidate(v) \/ Restat(v)

VariantSpec == VariantInit /\ [][VariantNext]_variantVars

\* The promotion ticker goes on ticking and its statements return.
FairSpec ==
    /\ VariantSpec
    /\ WF_variantVars(\/ PromoteTick
               \/ \E ok \in BOOLEAN :
                     \/ \E v \in Variants : RetireWeak(v, ok)
                     \/ RetireChampion(ok) \/ SetChampion(ok))

-----------------------------------------------------------------------------
\* There are never two champions: the code keeps to one without the help of
\* the unique index (PromotePrompts, seedWriterChampion).
OneChampion == Cardinality(Champions(status)) <= 1

\* There are never more candidates than slots, although the slots are counted
\* long before the candidate is inserted (GenerateCandidate).
CandidatesBounded == Cardinality(Candidates(status)) <= MaxCandidates

\* What was retired stays retired: no run promotes a candidate that the same
\* run, with the same numbers, found weak (ShouldRetire, ShouldPromote).
RetiredIsFinal ==
    [][\A v \in Variants : status[v] = "retired" => status'[v] = "retired"]_variantVars

\* The writer is not left without a champion when a promotion failed half way
\* or the process died in it, as long as some candidate has the samples to be
\* promoted and the process is started again whenever it died (PromotePrompts).
ChampionReturns ==
    []<>up /\ <>[](\E v \in Candidates(status) : stats[v].samples >= PromoteMinSamples)
        => []<>(Champions(status) # {})

-----------------------------------------------------------------------------
(* The inductive invariant.                                                *)

\* While a run stands before a statement, what it read still holds of the
\* variants that statement is about: nothing else changes their status.
RunInv ==
    /\ ~up => promoter = Resting /\ evolver = "idle"
    /\ promoter.best # NoVariant => promoter.best \notin promoter.weak
    /\ promoter.pc = "weak" => promoter.weak \subseteq Candidates(status)
    /\ promoter.pc = "weak" /\ promoter.best # NoVariant =>
          status[promoter.best] = "candidate"
    /\ promoter.pc \in {"retire", "promote"} =>
          promoter.best # NoVariant /\ status[promoter.best] = "candidate"
    /\ promoter.pc = "retire" => promoter.old # NoVariant
    /\ promoter.pc \in {"weak", "retire"} =>
          Champions(status) = IF promoter.old = NoVariant THEN {} ELSE {promoter.old}
    /\ promoter.pc = "promote" => Champions(status) = {}

OneChampionInv == \A v, w \in Champions(status) : v = w

\* A run that is about to insert still has room.
RoomInv ==
    /\ CandidatesBounded
    /\ evolver = "insert" => Cardinality(Candidates(status)) < MaxCandidates

VariantInv == VariantTypeOK /\ RunInv /\ OneChampionInv /\ RoomInv
=============================================================================
