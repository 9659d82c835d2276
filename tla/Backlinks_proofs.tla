--------------------------- MODULE Backlinks_proofs ---------------------------
(***************************************************************************)
(* For every sheet, every set of donors and any number of runs: a run      *)
(* stops at its count (StopsAtCount) and no link or draft is lost from     *)
(* sight (LinksAccounted). Both follow from BacklinksInv, which is         *)
(* inductive.                                                              *)
(***************************************************************************)
EXTENDS Backlinks, Sums

-----------------------------------------------------------------------------
(* One run.                                                                *)

\* A finite set of numbers has a smallest one (SelectDonor takes it).
LEMMA MinIn ==
  ASSUME NEW S, IsFiniteSet(S), S # {}, S \subseteq Nat
  PROVE  Min(S) \in S
<1> DEFINE G == {T \in SUBSET S : T = {} \/ \E x \in T : \A y \in T : x <= y}
<1>1. ASSUME NEW T \in SUBSET S, \A U \in SUBSET T : U # T => U \in G
      PROVE  T \in G
  <2> SUFFICES ASSUME T # {}
               PROVE  \E x \in T : \A y \in T : x <= y
    OBVIOUS
  <2>1. PICK z \in T : TRUE
    OBVIOUS
  <2>2. CASE T \ {z} = {}
    BY <2>1, <2>2
  <2>3. CASE T \ {z} # {}
    <3>1. PICK x \in T \ {z} : \A y \in T \ {z} : x <= y
      <4>1. T \ {z} \in G
        BY <1>1, <2>1
      <4>2. QED
        BY <2>3, <4>1
    <3>2. x \in Nat /\ z \in Nat /\ \A y \in T : y \in Nat
      BY <2>1, <3>1
    <3>3. CASE x <= z
      BY <3>1, <3>3
    <3>4. CASE z <= x
      <4>1. \A y \in T : z <= y
        BY <3>1, <3>2, <3>4
      <4>2. QED
        BY <2>1, <4>1
    <3>5. QED
      BY <3>2, <3>3, <3>4
  <2>4. QED
    BY <2>2, <2>3
<1>2. \A T \in SUBSET S : T \in G
  <2> HIDE DEF G
  <2>1. QED
    BY <1>1, FiniteInduct
<1>3. PICK x \in S : \A y \in S : x <= y
  BY <1>2
<1>4. QED
  BY <1>3 DEF Min

\* What a run knows that is right.
RunFine(x) == x \in RunRecord /\ RunOK(x) /\ StopOK(x)

LEMMA FreshFine ==
  RunFine(Fresh) /\ RunFine([Fresh EXCEPT !.phase = "dead"])
  /\ RunFine([Fresh EXCEPT !.phase = "unwritten"])
<1>1. ASSUME NEW p \in {"none", "dead", "unwritten"}, NEW y, y = [Fresh EXCEPT !.phase = p]
      PROVE  RunFine(y)
  <2>1. y = [phase |-> p, cut |-> FALSE, todo |-> {}, row |-> 0, step |-> "next",
             rights |-> {}, worst |-> "", got |-> "error", pending |-> {}, succeeded |-> 0]
    BY <1>1 DEF Fresh
  <2>2. y \in RunRecord
    BY <2>1 DEF RunRecord, Phases, Steps, Outcomes
  <2>3. p = "none" => y = Fresh
    BY <2>1 DEF Fresh
  <2>4. RunOK(y)
    <3>1. y.phase = p /\ y.pending = {} /\ y.todo = {} /\ y.step = "next"
      BY <2>1
    <3>2. RowsOf(y.pending) = {}
      BY <3>1 DEF RowsOf
    <3>3. y.phase \notin {"listed", "checked", "queued"}
      BY <1>1, <3>1
    <3>4. QED
      BY <2>3, <3>1, <3>2, <3>3 DEF RunOK
  <2>5. StopOK(y)
    <3>1. y.phase = p /\ y.succeeded = 0 /\ y.step = "next"
      BY <2>1
    <3>2. QED
      BY <3>1, BacklinksAssumption DEF StopOK
  <2>6. QED
    BY <2>2, <2>4, <2>5 DEF RunFine
<1>2. Fresh = [Fresh EXCEPT !.phase = "none"]
  <2>1. PICK y : y = [Fresh EXCEPT !.phase = "none"]
    OBVIOUS
  <2>2. y = [phase |-> "none", cut |-> FALSE, todo |-> {}, row |-> 0, step |-> "next",
             rights |-> {}, worst |-> "", got |-> "error", pending |-> {}, succeeded |-> 0]
    BY <2>1 DEF Fresh
  <2>3. QED
    BY <2>1, <2>2 DEF Fresh
<1>3. QED
  BY <1>1, <1>2

\* The steps of the loop while it is with a donor.
Visits == LiveSteps \cup {"load", "issue", "store", "caps", "home", "post", "new", "settle"}

\* placeOne changes nothing of a run but what it knows of the donor.
LEMMA VisitFine ==
  ASSUME NEW x, RunFine(x), x.phase = "running", x.step \in Visits,
         NEW y \in RunRecord, y.phase = x.phase, y.cut = x.cut, y.todo = x.todo, y.row = x.row,
         y.pending = x.pending, y.succeeded = x.succeeded, y.step \in Visits
  PROVE  RunFine(y)
  BY DEF RunFine, RunRecord, RunOK, StopOK, Visits, LiveSteps

-----------------------------------------------------------------------------
(* What a run's record is worth to a donor: what it has in hand, less what *)
(* it may yet take from what is known. The state functions of Backlinks    *)
(* read off one record.                                                    *)

Playing == {"listed", "checked", "queued", "running"}

BusyAt(x) == x.phase = "running" /\ x.step \notin {"next", "profile", "flush", "end"}

VisitingAt(x, d) == BusyAt(x) /\ DonorOf[x.row] = d

HoldsAt(x, d) ==
    /\ VisitingAt(x, d)
    /\ \/ x.step \in LiveSteps
       \/ x.step = "settle" /\ x.got \in {"placed", "pending"}
       \/ x.step = "save" /\ x.got = "placed"

HeldAt(x, d) == IF HoldsAt(x, d) THEN 1 ELSE 0

Drafts(x, d) ==
    IF x.phase # "running" THEN {}
    ELSE {p \in x.pending : p[2] = "pending" /\ DonorOf[p[1]] = d}

HandAt(x, d) == HeldAt(x, d) + Cardinality(Drafts(x, d))

RowsAt(x) == x.todo \cup RowsOf(x.pending) \cup (IF BusyAt(x) THEN {x.row} ELSE {})

TodoAt(x, d) == {w \in x.todo : DonorOf[w] = d}

DoubleAt(x, d, table) ==
    IF d \in table /\ x.phase \in {"checked", "queued", "running"}
    THEN Cardinality(TodoAt(x, d)) + (IF VisitingAt(x, d) THEN 1 ELSE 0)
    ELSE 0

MarkedAt(x, d, cells) == {w \in RowsAt(x) : DonorOf[w] = d /\ cells[w] = "pending"}

OverAt(x, d, cells) == IF x.phase \in Playing THEN Cardinality(MarkedAt(x, d, cells)) ELSE 0

Worth(x, d, cells, table) == HandAt(x, d) - DoubleAt(x, d, table) - OverAt(x, d, cells)

LEMMA RecordFinite ==
  ASSUME NEW x, RunFine(x)
  PROVE  /\ x.todo \subseteq Rows /\ IsFiniteSet(x.todo)
         /\ x.pending \subseteq Results /\ IsFiniteSet(x.pending)
         /\ RowsAt(x) \subseteq Rows /\ IsFiniteSet(RowsAt(x))
         /\ RowsOf(x.pending) \subseteq Rows /\ IsFiniteSet(RowsOf(x.pending))
<1>1. x.todo \subseteq Rows /\ x.pending \subseteq Results
  BY DEF RunFine, RunRecord
<1>2. IsFiniteSet(Outcomes)
  <2>1. \A a, b, c, e, f : IsFiniteSet({a, b, c, e, f})
    <3> SUFFICES ASSUME NEW a, NEW b, NEW c, NEW e, NEW f PROVE IsFiniteSet({a, b, c, e, f})
      OBVIOUS
    <3>1. IsFiniteSet({a}) /\ IsFiniteSet({a} \cup {b}) /\ IsFiniteSet({a, b} \cup {c})
      <4>1. IsFiniteSet({a})
        BY FS_Singleton
      <4>2. IsFiniteSet({a} \cup {b})
        BY <4>1, FS_AddElement
      <4>3. {a} \cup {b} = {a, b}
        OBVIOUS
      <4>4. IsFiniteSet({a, b} \cup {c})
        BY <4>2, <4>3, FS_AddElement
      <4>5. QED
        BY <4>1, <4>2, <4>4
    <3>2. {a, b} \cup {c} = {a, b, c} /\ {a, b, c} \cup {e} = {a, b, c, e} /\ {a, b, c, e} \cup {f} = {a, b, c, e, f}
      OBVIOUS
    <3>3. IsFiniteSet({a, b, c} \cup {e})
      BY <3>1, <3>2, FS_AddElement
    <3>4. IsFiniteSet({a, b, c, e} \cup {f})
      BY <3>2, <3>3, FS_AddElement
    <3>5. QED
      BY <3>2, <3>4
  <2>2. QED
    BY <2>1 DEF Outcomes
<1>3. IsFiniteSet(Results)
  BY <1>2, BacklinksAssumption, FS_Product DEF Results
<1>4. RowsOf(x.pending) \subseteq Rows
  BY <1>1 DEF RowsOf, Results
<1>5. RowsAt(x) \subseteq Rows
  BY <1>1, <1>4 DEF RowsAt, BusyAt, RunFine, RunOK
<1>6. QED
  BY <1>1, <1>3, <1>4, <1>5, BacklinksAssumption, FS_Subset

LEMMA WorthType ==
  ASSUME NEW x, RunFine(x), NEW d, NEW cells, NEW table
  PROVE  /\ HandAt(x, d) \in Nat /\ DoubleAt(x, d, table) \in Nat /\ OverAt(x, d, cells) \in Nat
         /\ Worth(x, d, cells, table) \in Int
         /\ IsFiniteSet(Drafts(x, d)) /\ Cardinality(Drafts(x, d)) \in Nat
         /\ IsFiniteSet(TodoAt(x, d)) /\ Cardinality(TodoAt(x, d)) \in Nat
         /\ IsFiniteSet(MarkedAt(x, d, cells)) /\ Cardinality(MarkedAt(x, d, cells)) \in Nat
<1>1. Drafts(x, d) \subseteq x.pending /\ TodoAt(x, d) \subseteq x.todo /\ MarkedAt(x, d, cells) \subseteq RowsAt(x)
  BY DEF Drafts, TodoAt, MarkedAt
<1>2. IsFiniteSet(Drafts(x, d)) /\ IsFiniteSet(TodoAt(x, d)) /\ IsFiniteSet(MarkedAt(x, d, cells))
  BY <1>1, RecordFinite, FS_Subset
<1>3. Cardinality(Drafts(x, d)) \in Nat /\ Cardinality(TodoAt(x, d)) \in Nat /\ Cardinality(MarkedAt(x, d, cells)) \in Nat
  BY <1>2, FS_CardinalityType
<1>4. HandAt(x, d) \in Nat /\ DoubleAt(x, d, table) \in Nat /\ OverAt(x, d, cells) \in Nat
  BY <1>3 DEF HandAt, HeldAt, DoubleAt, OverAt
<1>5. QED
  BY <1>2, <1>3, <1>4 DEF Worth

\* A run takes no more than before when it has no more to do and is with no
\* other donor.
LEMMA NoMoreDouble ==
  ASSUME NEW x, NEW y, RunFine(x), RunFine(y), NEW d, NEW table,
         y.phase \in {"checked", "queued", "running"} =>
           /\ x.phase \in {"checked", "queued", "running"}
           /\ y.todo \subseteq x.todo
           /\ VisitingAt(y, d) => VisitingAt(x, d)
  PROVE  DoubleAt(y, d, table) <= DoubleAt(x, d, table)
<1>1. CASE y.phase \in {"checked", "queued", "running"} /\ d \in table
  <2>1. TodoAt(y, d) \subseteq TodoAt(x, d)
    BY <1>1 DEF TodoAt
  <2>2. Cardinality(TodoAt(y, d)) <= Cardinality(TodoAt(x, d))
    BY <2>1, WorthType, FS_Subset
  <2>3. QED
    BY <1>1, <2>2, WorthType DEF DoubleAt
<1>2. CASE ~(y.phase \in {"checked", "queued", "running"} /\ d \in table)
  <2>1. DoubleAt(y, d, table) = 0
    BY <1>2 DEF DoubleAt
  <2>2. DoubleAt(x, d, table) \in Nat
    BY WorthType
  <2>3. QED
    BY <2>1, <2>2
<1>3. QED
  BY <1>1, <1>2

LEMMA NoMoreOver ==
  ASSUME NEW x, NEW y, RunFine(x), RunFine(y), NEW d, NEW cells,
         y.phase \in Playing => x.phase \in Playing /\ MarkedAt(y, d, cells) \subseteq MarkedAt(x, d, cells)
  PROVE  OverAt(y, d, cells) <= OverAt(x, d, cells)
<1>1. CASE y.phase \in Playing
  <2>1. Cardinality(MarkedAt(y, d, cells)) <= Cardinality(MarkedAt(x, d, cells))
    BY <1>1, WorthType, FS_Subset
  <2>2. QED
    BY <1>1, <2>1 DEF OverAt
<1>2. CASE y.phase \notin Playing
  <2>1. OverAt(y, d, cells) = 0
    BY <1>2 DEF OverAt
  <2>2. OverAt(x, d, cells) \in Nat
    BY WorthType
  <2>3. QED
    BY <2>1, <2>2
<1>3. QED
  BY <1>1, <1>2

\* While a run is with a donor its worth is what it holds.
LEMMA VisitWorth ==
  ASSUME NEW x, RunFine(x), x.phase = "running", x.step \in Visits,
         NEW y \in RunRecord, y.phase = x.phase, y.cut = x.cut, y.todo = x.todo, y.row = x.row,
         y.pending = x.pending, y.succeeded = x.succeeded, y.step \in Visits,
         NEW d, NEW cells, NEW table
  PROVE  Worth(y, d, cells, table) - Worth(x, d, cells, table) = HeldAt(y, d) - HeldAt(x, d)
<1>1. RunFine(y)
  BY VisitFine
<1>2. BusyAt(x) /\ BusyAt(y)
  BY DEF BusyAt, Visits, LiveSteps
<1>3. VisitingAt(x, d) <=> VisitingAt(y, d)
  BY <1>2 DEF VisitingAt
<1>4. Drafts(x, d) = Drafts(y, d) /\ TodoAt(x, d) = TodoAt(y, d) /\ RowsAt(x) = RowsAt(y)
  BY <1>2 DEF Drafts, TodoAt, RowsAt
<1>5. MarkedAt(x, d, cells) = MarkedAt(y, d, cells)
  BY <1>4 DEF MarkedAt
<1>6. DoubleAt(x, d, table) = DoubleAt(y, d, table)
  BY <1>3, <1>4 DEF DoubleAt
<1>7. OverAt(x, d, cells) = OverAt(y, d, cells)
  BY <1>5 DEF OverAt
<1>8. PICK n, a, b : n = Cardinality(Drafts(x, d)) /\ a = DoubleAt(x, d, table) /\ b = OverAt(x, d, cells)
  OBVIOUS
<1>9. n \in Nat /\ a \in Nat /\ b \in Nat
  BY <1>8, WorthType
<1>10. HeldAt(x, d) \in Nat /\ HeldAt(y, d) \in Nat
  BY DEF HeldAt
<1>11. Worth(x, d, cells, table) = HeldAt(x, d) + n - a - b /\ Worth(y, d, cells, table) = HeldAt(y, d) + n - a - b
  <2>1. HandAt(x, d) = HeldAt(x, d) + n /\ HandAt(y, d) = HeldAt(y, d) + n
    BY <1>4, <1>8 DEF HandAt
  <2>2. DoubleAt(y, d, table) = a /\ OverAt(y, d, cells) = b
    BY <1>6, <1>7, <1>8
  <2>3. QED
    BY <1>8, <1>9, <1>10, <2>1, <2>2 DEF Worth
<1>12. QED
  BY <1>9, <1>10, <1>11

-----------------------------------------------------------------------------
(* The steps of one run that leave the table and the sheet alone.          *)

\* A step of one run that pays for itself: what it writes it has in hand, and
\* what it no longer has in hand is a slip.
Pays(r) ==
    /\ RunFine(run'[r]) /\ run' = [run EXCEPT ![r] = run'[r]]
    /\ h' = h /\ placed' = placed
    /\ cooling' \subseteq Donors /\ stored' \subseteq Donors /\ faults' \in Nat
    /\ written' \in [Donors -> Nat] /\ slips' \in [Donors -> Nat]
    /\ \A d \in Donors :
         written'[d] + slips[d] + Worth(run[r], d, h, placed)
           <= written[d] + slips'[d] + Worth(run'[r], d, h, placed)

LEMMA SelectDonorPays ==
  ASSUME TypeOK, NEW r \in Runs, RunFine(run[r]), SelectDonor(r)
  PROVE  Pays(r)
<1>1. PICK x \in RunRecord : x = run[r]
  BY DEF RunFine
<1>2. PICK y : y = run'[r]
  OBVIOUS
<1>3. x.todo # {} /\ x.phase = "running" /\ x.step = "next" /\ RunFine(x) /\ ~x.cut
  BY <1>1 DEF SelectDonor, At
<1>4. PICK m : m = Min(x.todo)
  OBVIOUS
<1>5. m \in x.todo /\ m \in Rows
  <2>1. x.todo \subseteq Rows /\ IsFiniteSet(x.todo)
    BY <1>3, RecordFinite
  <2>2. QED
    BY <1>3, <1>4, <2>1, BacklinksAssumption, MinIn
<1>6. y = [x EXCEPT !.row = m, !.todo = x.todo \ {m}, !.step = "load"] /\ run' = [run EXCEPT ![r] = y]
  BY <1>1, <1>2, <1>4 DEF SelectDonor, TypeOK, RunRecord
<1>7. y \in RunRecord /\ y.row = m /\ y.todo = x.todo \ {m} /\ y.step = "load" /\ y.phase = x.phase
      /\ y.cut = x.cut /\ y.pending = x.pending /\ y.succeeded = x.succeeded
  BY <1>5, <1>6 DEF RunRecord, Steps
<1>8. RunFine(y)
  <2>1. RunOK(y)
    BY <1>3, <1>5, <1>7, ZenonT(40) DEF RunFine, RunOK, RunRecord, RowsOf, Results
  <2>2. StopOK(y)
    BY <1>3, <1>7 DEF RunFine, StopOK
  <2>3. QED
    BY <1>7, <2>1, <2>2 DEF RunFine
<1>9. ASSUME NEW d \in Donors
      PROVE  Worth(y, d, h, placed) = Worth(x, d, h, placed)
  <2>1. ~BusyAt(x) /\ BusyAt(y)
    BY <1>3, <1>7 DEF BusyAt
  <2>2. RowsAt(x) = RowsAt(y)
    BY <1>5, <1>7, <2>1 DEF RowsAt
  <2>3. OverAt(x, d, h) = OverAt(y, d, h)
    BY <1>7, <2>2 DEF OverAt, MarkedAt
  <2>4. HandAt(x, d) = HandAt(y, d)
    BY <1>3, <1>7, <2>1 DEF HandAt, HeldAt, HoldsAt, VisitingAt, Drafts, LiveSteps
  <2>5. DoubleAt(x, d, placed) = DoubleAt(y, d, placed)
    <3>1. IsFiniteSet(TodoAt(x, d)) /\ Cardinality(TodoAt(x, d)) \in Nat
      BY <1>3, WorthType
    <3>2. CASE DonorOf[m] = d
      <4>1. TodoAt(y, d) = TodoAt(x, d) \ {m} /\ m \in TodoAt(x, d)
        BY <1>5, <1>7, <3>2 DEF TodoAt
      <4>2. Cardinality(TodoAt(y, d)) = Cardinality(TodoAt(x, d)) - 1
        BY <3>1, <4>1, FS_RemoveElement
      <4>3. VisitingAt(y, d) /\ ~VisitingAt(x, d)
        BY <1>7, <2>1, <3>2 DEF VisitingAt
      <4>4. QED
        BY <1>7, <3>1, <4>2, <4>3 DEF DoubleAt
    <3>3. CASE DonorOf[m] # d
      <4>1. TodoAt(y, d) = TodoAt(x, d)
        BY <1>5, <1>7, <3>3 DEF TodoAt
      <4>2. ~VisitingAt(y, d) /\ ~VisitingAt(x, d)
        BY <1>7, <2>1, <3>3 DEF VisitingAt
      <4>3. QED
        BY <1>7, <4>1, <4>2 DEF DoubleAt
    <3>4. QED
      BY <3>2, <3>3
  <2>6. QED
    BY <2>3, <2>4, <2>5 DEF Worth
<1>10. UNCHANGED <<h, placed, cooling, stored, written, slips, faults>>
  BY DEF SelectDonor, stores, history
<1>11. \A d \in Donors : Worth(x, d, h, placed) \in Int
  BY <1>3, WorthType
<1>12. QED
  BY <1>1, <1>2, <1>6, <1>8, <1>9, <1>10, <1>11 DEF Pays, TypeOK

\* The run goes on with its donor.
Stays(r) ==
    LET x == run[r]  y == run'[r] IN
    /\ run' = [run EXCEPT ![r] = y]
    /\ y \in RunRecord /\ y.phase = x.phase /\ y.cut = x.cut /\ y.todo = x.todo /\ y.row = x.row
    /\ y.pending = x.pending /\ y.succeeded = x.succeeded /\ y.step \in Visits

AtDonor(r) == run[r].phase = "running" /\ run[r].step \in Visits

LEMMA StaysPays ==
  ASSUME TypeOK, NEW r \in Runs, RunFine(run[r]), AtDonor(r), Stays(r),
         h' = h, placed' = placed, cooling' \subseteq Donors, stored' \subseteq Donors, faults' \in Nat,
         written' \in [Donors -> Nat], slips' \in [Donors -> Nat],
         \A d \in Donors : written'[d] + slips[d] + HeldAt(run[r], d)
                             <= written[d] + slips'[d] + HeldAt(run'[r], d)
  PROVE  Pays(r)
<1>1. PICK x : x = run[r]
  OBVIOUS
<1>2. PICK y : y = run'[r]
  OBVIOUS
<1>3. RunFine(x) /\ x.phase = "running" /\ x.step \in Visits
  BY <1>1 DEF AtDonor
<1>4. y \in RunRecord /\ y.phase = x.phase /\ y.cut = x.cut /\ y.todo = x.todo /\ y.row = x.row
      /\ y.pending = x.pending /\ y.succeeded = x.succeeded /\ y.step \in Visits
  BY <1>1, <1>2 DEF Stays
<1>5. RunFine(y)
  BY <1>3, <1>4, VisitFine
<1>6. ASSUME NEW d \in Donors
      PROVE  written'[d] + slips[d] + Worth(x, d, h, placed) <= written[d] + slips'[d] + Worth(y, d, h, placed)
  <2>1. PICK a, b, m, n : a = Worth(x, d, h, placed) /\ b = Worth(y, d, h, placed)
                          /\ m = HeldAt(x, d) /\ n = HeldAt(y, d)
    OBVIOUS
  <2>2. a \in Int /\ b \in Int /\ m \in Int /\ n \in Int
    BY <1>3, <1>5, <2>1, WorthType DEF HeldAt
  <2>3. b - a = n - m
    BY <1>3, <1>4, <2>1, VisitWorth
  <2>4. written'[d] \in Nat /\ slips[d] \in Nat /\ written[d] \in Nat /\ slips'[d] \in Nat
    BY DEF TypeOK
  <2>5. written'[d] + slips[d] + m <= written[d] + slips'[d] + n
    BY <1>1, <1>2, <2>1
  <2>6. written'[d] + slips[d] + a <= written[d] + slips'[d] + b
    BY <2>2, <2>3, <2>4, <2>5
  <2>7. QED
    BY <2>1, <2>6
<1>7. QED
  BY <1>1, <1>2, <1>5, <1>6 DEF Pays, Stays

LEMMA HereIn ==
  ASSUME NEW x, RunFine(x), x.phase = "running", x.step \in Visits \cup {"save", "profile"}
  PROVE  x.row \in Rows /\ x.row \notin x.todo /\ DonorOf[x.row] \in Donors
<1>1. x.row \in Rows \ x.todo
  BY DEF RunFine, RunOK, Visits, LiveSteps
<1>2. QED
  BY <1>1, BacklinksAssumption

\* placeOne's verdicts and the way from one tier to the next.
LEMMA GiveUpStays ==
  ASSUME TypeOK, NEW r \in Runs, RunFine(run[r]), NEW outcome \in Outcomes, GiveUp(r, outcome)
  PROVE  Stays(r) /\ run'[r].step = "settle" /\ run'[r].got = outcome
<1>1. PICK x \in RunRecord : x = run[r]
  BY DEF RunFine
<1>2. PICK y : y = run'[r]
  OBVIOUS
<1>3. y = [x EXCEPT !.step = "settle", !.got = outcome, !.rights = {}, !.worst = ""] /\ run' = [run EXCEPT ![r] = y]
  BY <1>1, <1>2 DEF GiveUp, TypeOK, RunRecord
<1>4. y \in RunRecord
  BY <1>3 DEF RunRecord, Steps
<1>5. y.step = "settle" /\ y.got = outcome /\ y.phase = x.phase /\ y.cut = x.cut /\ y.todo = x.todo
      /\ y.row = x.row /\ y.pending = x.pending /\ y.succeeded = x.succeeded
  BY <1>3 DEF RunRecord
<1>6. QED
  BY <1>1, <1>2, <1>3, <1>4, <1>5 DEF Stays, Visits

LEMMA AfterStays ==
  ASSUME TypeOK, NEW r \in Runs, RunFine(run[r]), NEW tier \in Tiers, NEW worst \in {"", "missing", "hard"},
         After(r, tier, worst)
  PROVE  Stays(r) /\ \A d : HeldAt(run'[r], d) = 0
<1>1. PICK x \in RunRecord : x = run[r]
  BY DEF RunFine
<1>2. PICK y : y = run'[r]
  OBVIOUS
<1>3. CASE tier = "new"
  <2>1. PICK outcome \in {"permanent", "cooled"} : outcome = NoPlacement(worst)
    BY DEF NoPlacement
  <2>2. Stays(r) /\ y.step = "settle" /\ y.got = outcome
    BY <1>2, <1>3, <2>1, GiveUpStays DEF After, Outcomes
  <2>3. QED
    BY <1>2, <2>2 DEF HeldAt, HoldsAt, LiveSteps
<1>4. CASE tier # "new"
  <2>1. PICK step \in {"post", "new"} : step = IF tier = "home" THEN "post" ELSE "new"
    OBVIOUS
  <2>2. y = [x EXCEPT !.worst = worst, !.step = step] /\ run' = [run EXCEPT ![r] = y]
    BY <1>1, <1>2, <1>4, <2>1 DEF After, TypeOK, RunRecord
  <2>3. y \in RunRecord
    BY <2>2 DEF RunRecord, Steps
  <2>4. y.step = step /\ y.phase = x.phase /\ y.cut = x.cut /\ y.todo = x.todo
        /\ y.row = x.row /\ y.pending = x.pending /\ y.succeeded = x.succeeded
    BY <2>2 DEF RunRecord
  <2>5. Stays(r)
    BY <1>1, <1>2, <2>2, <2>3, <2>4 DEF Stays, Visits
  <2>6. QED
    BY <1>2, <2>4, <2>5 DEF HeldAt, HoldsAt, LiveSteps
<1>5. QED
  BY <1>3, <1>4

\* A change of step alone.
LEMMA StepStays ==
  ASSUME TypeOK, NEW r \in Runs, RunFine(run[r]), NEW step \in Visits,
         run' = [run EXCEPT ![r].step = step]
  PROVE  Stays(r) /\ run'[r].step = step /\ run'[r].got = run[r].got
<1>1. PICK x \in RunRecord : x = run[r]
  BY DEF RunFine
<1>2. PICK y : y = run'[r]
  OBVIOUS
<1>3. y = [x EXCEPT !.step = step] /\ run' = [run EXCEPT ![r] = y]
  BY <1>1, <1>2 DEF TypeOK, RunRecord
<1>4. y \in RunRecord
  BY <1>3 DEF RunRecord, Steps, Visits
<1>5. y.step = step /\ y.got = x.got /\ y.phase = x.phase /\ y.cut = x.cut /\ y.todo = x.todo
      /\ y.row = x.row /\ y.pending = x.pending /\ y.succeeded = x.succeeded
  BY <1>3 DEF RunRecord
<1>6. QED
  BY <1>1, <1>2, <1>3, <1>4, <1>5 DEF Stays

\* Nothing written, nothing in hand before or after.
LEMMA IdlePays ==
  ASSUME TypeOK, NEW r \in Runs, RunFine(run[r]), AtDonor(r), Stays(r),
         h' = h, placed' = placed, cooling' = cooling, stored' \subseteq Donors,
         UNCHANGED history,
         \A d : HeldAt(run'[r], d) = HeldAt(run[r], d)
  PROVE  Pays(r)
<1>1. ASSUME NEW d \in Donors
      PROVE  written'[d] + slips[d] + HeldAt(run[r], d) <= written[d] + slips'[d] + HeldAt(run'[r], d)
  <2>1. PICK m \in Nat : m = HeldAt(run[r], d)
    BY DEF HeldAt
  <2>2. written'[d] = written[d] /\ slips'[d] = slips[d] /\ written[d] \in Nat /\ slips[d] \in Nat
    BY DEF history, TypeOK
  <2>3. m = HeldAt(run'[r], d)
    BY <2>1
  <2>4. QED
    BY <2>1, <2>2, <2>3
<1>2. QED
  BY <1>1, StaysPays DEF history, TypeOK

LEMMA LoadPasswordPays ==
  ASSUME TypeOK, NEW r \in Runs, RunFine(run[r]), LoadPassword(r)
  PROVE  Pays(r)
<1>1. AtDonor(r) /\ run[r].step = "load" /\ \A d : HeldAt(run[r], d) = 0
  BY DEF LoadPassword, At, AtDonor, Visits, HeldAt, HoldsAt, LiveSteps
<1>2. Stays(r) /\ \A d : HeldAt(run'[r], d) = 0
  <2>1. CASE GiveUp(r, "error")
    <3>1. Stays(r) /\ run'[r].step = "settle" /\ run'[r].got = "error"
      BY <2>1, GiveUpStays DEF Outcomes
    <3>2. QED
      BY <3>1 DEF HeldAt, HoldsAt, LiveSteps
  <2>2. CASE ~GiveUp(r, "error")
    <3>1. PICK step \in {"caps", "issue"} : step = IF Here(r) \in stored THEN "caps" ELSE "issue"
      OBVIOUS
    <3>2. run' = [run EXCEPT ![r].step = step]
      BY <2>2, <3>1 DEF LoadPassword
    <3>3. Stays(r) /\ run'[r].step = step
      BY <3>2, StepStays DEF Visits
    <3>4. QED
      BY <3>3 DEF HeldAt, HoldsAt, LiveSteps
  <2>3. QED
    BY <2>1, <2>2
<1>3. QED
  BY <1>1, <1>2, IdlePays DEF LoadPassword, stores, TypeOK

LEMMA IssueAppPasswordPays ==
  ASSUME TypeOK, NEW r \in Runs, RunFine(run[r]), IssueAppPassword(r)
  PROVE  Pays(r)
<1>1. AtDonor(r) /\ run[r].step = "issue" /\ \A d : HeldAt(run[r], d) = 0
  BY DEF IssueAppPassword, At, AtDonor, Visits, HeldAt, HoldsAt, LiveSteps
<1>2. Stays(r) /\ \A d : HeldAt(run'[r], d) = 0
  <2>1. CASE \E outcome \in {"permanent", "cooled"} : GiveUp(r, outcome)
    <3>1. PICK outcome \in {"permanent", "cooled"} : GiveUp(r, outcome)
      BY <2>1
    <3>2. Stays(r) /\ run'[r].step = "settle" /\ run'[r].got = outcome
      BY <3>1, GiveUpStays DEF Outcomes
    <3>3. QED
      BY <3>2 DEF HeldAt, HoldsAt, LiveSteps
  <2>2. CASE run' = [run EXCEPT ![r].step = "store"]
    <3>1. Stays(r) /\ run'[r].step = "store"
      BY <2>2, StepStays DEF Visits
    <3>2. QED
      BY <3>1 DEF HeldAt, HoldsAt, LiveSteps
  <2>3. QED
    BY <2>1, <2>2 DEF IssueAppPassword
<1>3. QED
  BY <1>1, <1>2, IdlePays DEF IssueAppPassword, stores, TypeOK

LEMMA StorePasswordPays ==
  ASSUME TypeOK, NEW r \in Runs, RunFine(run[r]), StorePassword(r)
  PROVE  Pays(r)
<1>1. AtDonor(r) /\ run[r].step = "store" /\ \A d : HeldAt(run[r], d) = 0
  BY DEF StorePassword, At, AtDonor, Visits, HeldAt, HoldsAt, LiveSteps
<1>2. Stays(r) /\ (\A d : HeldAt(run'[r], d) = 0) /\ stored' \subseteq Donors
  <2>1. CASE GiveUp(r, "error") /\ UNCHANGED stored
    <3>1. Stays(r) /\ run'[r].step = "settle" /\ run'[r].got = "error"
      BY <2>1, GiveUpStays DEF Outcomes
    <3>2. QED
      BY <2>1, <3>1 DEF HeldAt, HoldsAt, LiveSteps, TypeOK
  <2>2. CASE stored' = stored \cup {Here(r)} /\ run' = [run EXCEPT ![r].step = "caps"]
    <3>1. Stays(r) /\ run'[r].step = "caps"
      BY <2>2, StepStays DEF Visits
    <3>2. Here(r) \in Donors
      BY <1>1, HereIn DEF AtDonor, Here
    <3>3. QED
      BY <2>2, <3>1, <3>2 DEF HeldAt, HoldsAt, LiveSteps, TypeOK
  <2>3. QED
    BY <2>1, <2>2 DEF StorePassword
<1>3. QED
  BY <1>1, <1>2, IdlePays DEF StorePassword

LEMMA CapabilitiesPays ==
  ASSUME TypeOK, NEW r \in Runs, RunFine(run[r]), Capabilities(r)
  PROVE  Pays(r)
<1>1. AtDonor(r) /\ run[r].step = "caps" /\ \A d : HeldAt(run[r], d) = 0
  BY DEF Capabilities, At, AtDonor, Visits, HeldAt, HoldsAt, LiveSteps
<1>2. PICK x \in RunRecord : x = run[r]
  BY DEF RunFine
<1>3. PICK y : y = run'[r]
  OBVIOUS
<1>4. PICK rights \in SUBSET AllRights : run' = [run EXCEPT ![r].step = "home", ![r].rights = rights]
  <2>1. Here(r) \in Donors
    BY <1>1, HereIn DEF AtDonor, Here
  <2>2. RightsOf[Here(r)] \in SUBSET AllRights
    BY <2>1, BacklinksAssumption
  <2>3. QED
    BY <2>2 DEF Capabilities
<1>5. y = [x EXCEPT !.step = "home", !.rights = rights] /\ run' = [run EXCEPT ![r] = y]
  BY <1>2, <1>3, <1>4 DEF TypeOK, RunRecord
<1>6. y \in RunRecord
  BY <1>5 DEF RunRecord, Steps
<1>7. y.step = "home" /\ y.phase = x.phase /\ y.cut = x.cut /\ y.todo = x.todo
      /\ y.row = x.row /\ y.pending = x.pending /\ y.succeeded = x.succeeded
  BY <1>5 DEF RunRecord
<1>8. Stays(r) /\ \A d : HeldAt(y, d) = 0
  BY <1>2, <1>3, <1>5, <1>6, <1>7 DEF Stays, Visits, HeldAt, HoldsAt, LiveSteps
<1>9. QED
  BY <1>1, <1>3, <1>8, IdlePays DEF Capabilities, stores, TypeOK

-----------------------------------------------------------------------------
(* The tiers.                                                              *)

LEMMA AtTier ==
  ASSUME NEW r, NEW tier \in Tiers, At(r, tier)
  PROVE  AtDonor(r) /\ \A d : HeldAt(run[r], d) = 0
  BY DEF Tiers, At, AtDonor, Visits, HeldAt, HoldsAt, LiveSteps

\* What a run holds is held for its donor.
LEMMA HeldLive ==
  ASSUME NEW x, x.phase = "running", x.step \in LiveSteps
  PROVE  \A d : HeldAt(x, d) = IF d = DonorOf[x.row] THEN 1 ELSE 0
  BY DEF HeldAt, HoldsAt, VisitingAt, BusyAt, LiveSteps

LEMMA HeldFor ==
  ASSUME NEW x, x.phase = "running", x.step = "settle", x.got \in {"placed", "pending"}
  PROVE  \A d : HeldAt(x, d) = IF d = DonorOf[x.row] THEN 1 ELSE 0
  BY DEF HeldAt, HoldsAt, VisitingAt, BusyAt, LiveSteps

LEMMA PassOverPays ==
  ASSUME TypeOK, NEW r \in Runs, RunFine(run[r]), NEW tier \in Tiers, PassOver(r, tier)
  PROVE  Pays(r)
<1>1. AtDonor(r) /\ \A d : HeldAt(run[r], d) = 0
  BY AtTier DEF PassOver
<1>2. Stays(r) /\ \A d : HeldAt(run'[r], d) = 0
  <2>1. run[r].worst \in {"", "missing", "hard"}
    BY DEF RunFine, RunRecord
  <2>2. QED
    BY <2>1, AfterStays DEF PassOver
<1>3. QED
  BY <1>1, <1>2, IdlePays DEF PassOver, stores, TypeOK

LEMMA TierFailsPays ==
  ASSUME TypeOK, NEW r \in Runs, RunFine(run[r]), NEW tier \in Tiers, TierFails(r, tier)
  PROVE  Pays(r)
<1>1. AtDonor(r) /\ \A d : HeldAt(run[r], d) = 0
  BY AtTier DEF TierFails
<1>2. Stays(r) /\ \A d : HeldAt(run'[r], d) = 0
  BY AfterStays DEF TierFails
<1>3. QED
  BY <1>1, <1>2, IdlePays DEF TierFails, stores, TypeOK

\* A link or a draft on the run's donor is in hand, or a slip.
LEMMA WrittenPays ==
  ASSUME TypeOK, NEW r \in Runs, RunFine(run[r]), NEW tier \in Tiers, Write(r, tier), Stays(r),
         faults' \in Nat, slips' \in [Donors -> Nat],
         \A d \in Donors : slips[d] + (IF d = Here(r) THEN 1 ELSE 0) <= slips'[d] + HeldAt(run'[r], d)
  PROVE  Pays(r)
<1>1. AtDonor(r) /\ \A d : HeldAt(run[r], d) = 0
  BY AtTier DEF Write
<1>2. \A d \in Donors : written'[d] = written[d] + (IF d = Here(r) THEN 1 ELSE 0)
  BY DEF Write, TypeOK
<1>3. written' \in [Donors -> Nat]
  <2>1. PICK e \in Donors : e = Here(r)
    BY <1>1, HereIn DEF AtDonor, Here
  <2>2. written' = [written EXCEPT ![e] = @ + 1]
    BY <2>1 DEF Write
  <2>3. QED
    BY <2>2 DEF TypeOK
<1>4. ASSUME NEW d \in Donors
      PROVE  written'[d] + slips[d] + HeldAt(run[r], d) <= written[d] + slips'[d] + HeldAt(run'[r], d)
  <2>1. PICK n \in Nat : n = HeldAt(run'[r], d)
    BY DEF HeldAt
  <2>2. PICK k \in Nat : k = IF d = Here(r) THEN 1 ELSE 0
    OBVIOUS
  <2>3. slips[d] + k <= slips'[d] + n /\ written'[d] = written[d] + k /\ HeldAt(run[r], d) = 0
    BY <1>1, <1>2, <2>1, <2>2
  <2>4. slips[d] \in Nat /\ slips'[d] \in Nat /\ written[d] \in Nat
    BY DEF TypeOK
  <2>5. QED
    BY <2>1, <2>3, <2>4
<1>5. QED
  BY <1>1, <1>3, <1>4, StaysPays DEF Write, stores, TypeOK

\* One slip more for the run's donor.
LEMMA SlipsOne ==
  ASSUME TypeOK, NEW d \in Donors, NEW n \in Nat, Slip(d, n)
  PROVE  /\ slips' \in [Donors -> Nat]
         /\ \A e \in Donors : slips'[e] = slips[e] + (IF e = d THEN n ELSE 0)
<1>1. slips' = [slips EXCEPT ![d] = @ + n]
  BY DEF Slip
<1>2. slips' \in [Donors -> Nat]
  BY <1>1 DEF TypeOK
<1>3. QED
  BY <1>1, <1>2 DEF TypeOK

LEMMA AnswerLostPays ==
  ASSUME TypeOK, NEW r \in Runs, RunFine(run[r]), NEW tier \in Tiers, AnswerLost(r, tier)
  PROVE  Pays(r)
<1>1. AtDonor(r) /\ Write(r, tier) /\ Slip(Here(r), 1)
  BY AtTier DEF AnswerLost, Write
<1>2. Stays(r) /\ \A d : HeldAt(run'[r], d) = 0
  BY AfterStays DEF AnswerLost
<1>3. Here(r) \in Donors
  BY <1>1, HereIn DEF AtDonor, Here
<1>4. slips' \in [Donors -> Nat] /\ \A d \in Donors : slips'[d] = slips[d] + (IF d = Here(r) THEN 1 ELSE 0)
  BY <1>1, <1>3, SlipsOne
<1>5. faults' \in Nat
  BY DEF AnswerLost, Fault, TypeOK
<1>6. \A d \in Donors : slips[d] + (IF d = Here(r) THEN 1 ELSE 0) <= slips'[d] + HeldAt(run'[r], d)
  BY <1>2, <1>4 DEF TypeOK
<1>7. QED
  BY <1>1, <1>2, <1>4, <1>5, <1>6, WrittenPays

LEMMA WriteLinkPays ==
  ASSUME TypeOK, NEW r \in Runs, RunFine(run[r]), NEW tier \in Tiers, WriteLink(r, tier)
  PROVE  Pays(r)
<1>1. AtDonor(r) /\ Write(r, tier)
  BY AtTier DEF WriteLink, Write
<1>2. PICK step \in LiveSteps : step = LiveOf(tier)
  BY DEF LiveOf, LiveSteps
<1>3. Stays(r) /\ run'[r].step = step
  BY <1>2, StepStays DEF WriteLink, Visits
<1>4. \A d : HeldAt(run'[r], d) = IF d = Here(r) THEN 1 ELSE 0
  <2>1. run'[r].phase = "running" /\ run'[r].row = run[r].row
    BY <1>1, <1>3 DEF Stays, AtDonor
  <2>2. PICK y : y = run'[r]
    OBVIOUS
  <2>3. y.phase = "running" /\ y.step \in LiveSteps /\ DonorOf[y.row] = Here(r)
    BY <1>3, <2>1, <2>2 DEF Here
  <2>4. QED
    BY <2>2, <2>3, HeldLive
<1>5. slips' = slips /\ faults' = faults
  BY DEF WriteLink
<1>6. \A d \in Donors : slips[d] + (IF d = Here(r) THEN 1 ELSE 0) <= slips'[d] + HeldAt(run'[r], d)
  BY <1>4, <1>5 DEF TypeOK
<1>7. QED
  BY <1>1, <1>3, <1>5, <1>6, WrittenPays DEF TypeOK

LEMMA SubmitDraftPays ==
  ASSUME TypeOK, NEW r \in Runs, RunFine(run[r]), SubmitDraft(r)
  PROVE  Pays(r)
<1>1. AtDonor(r) /\ Write(r, "new") /\ "new" \in Tiers
  BY AtTier DEF SubmitDraft, Write, Tiers
<1>2. Stays(r) /\ run'[r].step = "settle" /\ run'[r].got = "pending"
  BY GiveUpStays DEF SubmitDraft, Outcomes
<1>3. \A d : HeldAt(run'[r], d) = IF d = Here(r) THEN 1 ELSE 0
  <2>1. run'[r].phase = "running" /\ run'[r].row = run[r].row
    BY <1>1, <1>2 DEF Stays, AtDonor
  <2>2. QED
    BY <1>2, <2>1, HeldFor DEF Here
<1>4. slips' = slips /\ faults' = faults
  BY DEF SubmitDraft
<1>5. \A d \in Donors : slips[d] + (IF d = Here(r) THEN 1 ELSE 0) <= slips'[d] + HeldAt(run'[r], d)
  BY <1>3, <1>4 DEF TypeOK
<1>6. QED
  BY <1>1, <1>2, <1>4, <1>5, WrittenPays DEF TypeOK

LEMMA AtLive ==
  ASSUME NEW r, NEW tier \in Tiers, At(r, LiveOf(tier))
  PROVE  AtDonor(r) /\ \A d : HeldAt(run[r], d) = IF d = Here(r) THEN 1 ELSE 0
<1>1. run[r].phase = "running" /\ run[r].step \in LiveSteps
  BY DEF At, LiveOf, LiveSteps
<1>2. PICK x : x = run[r]
  OBVIOUS
<1>3. \A d : HeldAt(x, d) = IF d = DonorOf[x.row] THEN 1 ELSE 0
  BY <1>1, <1>2, HeldLive
<1>4. QED
  BY <1>1, <1>2, <1>3 DEF AtDonor, Visits, Here

LEMMA LinkSeenPays ==
  ASSUME TypeOK, NEW r \in Runs, RunFine(run[r]), NEW tier \in Tiers, LinkSeen(r, tier)
  PROVE  Pays(r)
<1>1. AtDonor(r) /\ \A d : HeldAt(run[r], d) = IF d = Here(r) THEN 1 ELSE 0
  BY AtLive DEF LinkSeen
<1>2. Stays(r) /\ run'[r].step = "settle" /\ run'[r].got = "placed"
  BY GiveUpStays DEF LinkSeen, Outcomes
<1>3. \A d : HeldAt(run'[r], d) = IF d = Here(r) THEN 1 ELSE 0
  <2>1. run'[r].phase = "running" /\ run'[r].row = run[r].row
    BY <1>1, <1>2 DEF Stays, AtDonor
  <2>2. QED
    BY <1>2, <2>1, HeldFor DEF Here
<1>4. QED
  BY <1>1, <1>2, <1>3, IdlePays DEF LinkSeen, stores, TypeOK

LEMMA LinkMissingPays ==
  ASSUME TypeOK, NEW r \in Runs, RunFine(run[r]), NEW tier \in Tiers, LinkMissing(r, tier)
  PROVE  Pays(r)
<1>1. AtDonor(r) /\ \A d : HeldAt(run[r], d) = IF d = Here(r) THEN 1 ELSE 0
  BY AtLive DEF LinkMissing
<1>2. Stays(r) /\ \A d : HeldAt(run'[r], d) = 0
  <2>1. PICK worst \in {"", "missing", "hard"} : worst = IF run[r].worst = "hard" THEN "hard" ELSE "missing"
    OBVIOUS
  <2>2. After(r, tier, worst)
    BY <2>1 DEF LinkMissing
  <2>3. QED
    BY <2>2, AfterStays
<1>3. Here(r) \in Donors
  BY <1>1, HereIn DEF AtDonor, Here
<1>4. slips' \in [Donors -> Nat] /\ \A d \in Donors : slips'[d] = slips[d] + (IF d = Here(r) THEN 1 ELSE 0)
  BY <1>3, SlipsOne DEF LinkMissing
<1>5. faults' \in Nat
  BY DEF LinkMissing, Fault, TypeOK
<1>6. written' = written /\ h' = h /\ placed' = placed /\ cooling' = cooling /\ stored' = stored
  BY DEF LinkMissing, stores
<1>7. ASSUME NEW d \in Donors
      PROVE  written'[d] + slips[d] + HeldAt(run[r], d) <= written[d] + slips'[d] + HeldAt(run'[r], d)
  <2>1. PICK k \in Nat : k = IF d = Here(r) THEN 1 ELSE 0
    OBVIOUS
  <2>2. HeldAt(run[r], d) = k /\ HeldAt(run'[r], d) = 0 /\ slips'[d] = slips[d] + k /\ written'[d] = written[d]
    BY <1>1, <1>2, <1>4, <1>6, <2>1
  <2>3. slips[d] \in Nat /\ written[d] \in Nat
    BY DEF TypeOK
  <2>4. QED
    BY <2>2, <2>3
<1>8. QED
  BY <1>1, <1>2, <1>4, <1>5, <1>6, <1>7, StaysPays DEF TypeOK

-----------------------------------------------------------------------------
(* Requests.                                                               *)

\* A request's record: what it has read so far.
Asked(phase, todo) ==
    [phase |-> phase, cut |-> FALSE, todo |-> todo, row |-> 0, step |-> "next",
     rights |-> {}, worst |-> "", got |-> "error", pending |-> {}, succeeded |-> 0]

LEMMA AskedFine ==
  ASSUME NEW p \in {"listed", "checked", "queued"}, NEW t \in SUBSET Rows
  PROVE  RunFine(Asked(p, t))
<1>1. PICK y : y = Asked(p, t)
  OBVIOUS
<1>2. y = [phase |-> p, cut |-> FALSE, todo |-> t, row |-> 0, step |-> "next",
           rights |-> {}, worst |-> "", got |-> "error", pending |-> {}, succeeded |-> 0]
  BY <1>1 DEF Asked
<1>3. y \in RunRecord
  BY <1>2 DEF RunRecord, Phases, Steps, Outcomes
<1>4. y.phase = p /\ y.pending = {} /\ y.todo = t /\ y.step = "next" /\ y.succeeded = 0
  BY <1>2
<1>5. RunOK(y)
  <2>1. y = [Fresh EXCEPT !.phase = p, !.todo = t]
    <3>1. PICK z : z = [Fresh EXCEPT !.phase = p, !.todo = t]
      OBVIOUS
    <3>2. z = Asked(p, t)
      BY <3>1 DEF Fresh, Asked
    <3>3. QED
      BY <1>1, <3>1, <3>2
  <2>2. RowsOf(y.pending) = {}
    BY <1>4 DEF RowsOf
  <2>3. y.phase # "none"
    BY <1>4
  <2>4. y = [Fresh EXCEPT !.phase = y.phase, !.todo = y.todo]
    BY <1>4, <2>1
  <2>5. QED
    BY <1>4, <2>2, <2>3, <2>4 DEF RunOK
<1>6. StopOK(y)
  <2>1. y.phase # "over"
    BY <1>4
  <2>2. QED
    BY <1>4, <2>1, BacklinksAssumption DEF StopOK
<1>7. QED
  BY <1>1, <1>3, <1>5, <1>6 DEF RunFine

LEMMA AskedIs ==
  ASSUME NEW x, RunFine(x), x.phase \in {"listed", "checked", "queued"}
  PROVE  x = Asked(x.phase, x.todo)
<1>1. PICK p, t : p = x.phase /\ t = x.todo
  OBVIOUS
<1>2. x = [Fresh EXCEPT !.phase = p, !.todo = t]
  BY <1>1 DEF RunFine, RunOK
<1>3. x = Asked(p, t)
  BY <1>2 DEF Fresh, Asked
<1>4. QED
  BY <1>1, <1>3

LEMMA AskedWorth ==
  ASSUME NEW p \in {"listed", "checked", "queued"}, NEW t \in SUBSET Rows, NEW d,
         NEW y, y = Asked(p, t)
  PROVE  /\ HandAt(y, d) = 0 /\ RowsAt(y) = t /\ TodoAt(y, d) = {w \in t : DonorOf[w] = d}
         /\ y.phase = p /\ y.todo = t /\ ~VisitingAt(y, d)
<1>1. PICK z : z = Asked(p, t)
  OBVIOUS
<1>2. y.phase = p /\ y.pending = {} /\ y.todo = t /\ y.step = "next"
  <2>1. z.phase = p /\ z.pending = {} /\ z.todo = t /\ z.step = "next"
    BY <1>1 DEF Asked
  <2>2. QED
    BY <1>1, <2>1
<1>3. ~BusyAt(y)
  BY <1>2 DEF BusyAt
<1>4. RowsAt(y) = t
  BY <1>2, <1>3 DEF RowsAt, RowsOf
<1>5. Drafts(y, d) = {} /\ ~VisitingAt(y, d)
  BY <1>2, <1>3 DEF Drafts, VisitingAt
<1>6. HandAt(y, d) = 0
  BY <1>5, FS_EmptySet DEF HandAt, HeldAt, HoldsAt
<1>7. QED
  BY <1>1, <1>2, <1>4, <1>5, <1>6 DEF TodoAt

LEMMA WorthKept ==
  ASSUME NEW x, NEW y, RunFine(x), RunFine(y), NEW d, NEW cells, NEW table, NEW k \in Nat,
         HandAt(x, d) <= HandAt(y, d) + k,
         DoubleAt(y, d, table) <= DoubleAt(x, d, table),
         OverAt(y, d, cells) <= OverAt(x, d, cells)
  PROVE  Worth(x, d, cells, table) <= Worth(y, d, cells, table) + k
<1>1. PICK a, b, c, e, f, g : /\ a = HandAt(x, d) /\ b = HandAt(y, d)
                              /\ c = DoubleAt(x, d, table) /\ e = DoubleAt(y, d, table)
                              /\ f = OverAt(x, d, cells) /\ g = OverAt(y, d, cells)
  OBVIOUS
<1>2. a \in Nat /\ b \in Nat /\ c \in Nat /\ e \in Nat /\ f \in Nat /\ g \in Nat
  BY <1>1, WorthType
<1>3. a - c - f <= b - e - g + k
  BY <1>1, <1>2
<1>4. QED
  BY <1>1, <1>3 DEF Worth

\* A step that writes to no donor.
LEMMA KeptPays ==
  ASSUME TypeOK, NEW r \in Runs, RunFine(run[r]), NEW y, RunFine(y), run' = [run EXCEPT ![r] = y],
         h' = h, placed' = placed, cooling' \subseteq Donors, stored' \subseteq Donors, faults' \in Nat,
         written' = written, slips' \in [Donors -> Nat],
         \A d \in Donors : slips[d] + Worth(run[r], d, h, placed) <= slips'[d] + Worth(y, d, h, placed)
  PROVE  Pays(r)
<1>1. y = run'[r]
  BY DEF TypeOK
<1>2. ASSUME NEW d \in Donors
      PROVE  written'[d] + slips[d] + Worth(run[r], d, h, placed) <= written[d] + slips'[d] + Worth(y, d, h, placed)
  <2>1. PICK x : x = run[r]
    OBVIOUS
  <2>2. PICK a, b : a = Worth(x, d, h, placed) /\ b = Worth(y, d, h, placed)
    OBVIOUS
  <2>3. a \in Int /\ b \in Int
    BY <2>1, <2>2, WorthType
  <2>4. written'[d] \in Nat /\ slips[d] \in Nat /\ written'[d] = written[d] /\ slips'[d] \in Nat
    BY DEF TypeOK
  <2>5. slips[d] + a <= slips'[d] + b
    BY <2>1, <2>2
  <2>6. QED
    BY <2>1, <2>2, <2>3, <2>4, <2>5
<1>3. QED
  BY <1>1, <1>2 DEF Pays, TypeOK

\* A step that loses nothing.
LEMMA QuietPays ==
  ASSUME TypeOK, NEW r \in Runs, RunFine(run[r]), NEW y, RunFine(y), run' = [run EXCEPT ![r] = y],
         h' = h, placed' = placed, cooling' \subseteq Donors, stored' \subseteq Donors, UNCHANGED history,
         \A d \in Donors : /\ HandAt(run[r], d) <= HandAt(y, d)
                           /\ DoubleAt(y, d, placed) <= DoubleAt(run[r], d, placed)
                           /\ OverAt(y, d, h) <= OverAt(run[r], d, h)
  PROVE  Pays(r)
<1>1. ASSUME NEW d \in Donors
      PROVE  slips[d] + Worth(run[r], d, h, placed) <= slips'[d] + Worth(y, d, h, placed)
  <2>1. PICK x : x = run[r]
    OBVIOUS
  <2>2. PICK a, b : a = Worth(x, d, h, placed) /\ b = Worth(y, d, h, placed)
    OBVIOUS
  <2>3. a \in Int /\ b \in Int
    BY <2>1, <2>2, WorthType
  <2>4. HandAt(x, d) <= HandAt(y, d) + 0
    <3>1. HandAt(x, d) <= HandAt(y, d) /\ HandAt(y, d) \in Nat
      BY <2>1, WorthType
    <3>2. QED
      BY <3>1
  <2>5. a <= b + 0
    BY <2>1, <2>2, <2>4, WorthKept
  <2>6. slips'[d] = slips[d] /\ slips[d] \in Nat
    BY DEF history, TypeOK
  <2>7. QED
    BY <2>1, <2>2, <2>3, <2>5, <2>6
<1>2. QED
  BY <1>1, KeptPays DEF history, TypeOK

LEMMA ListPays ==
  ASSUME TypeOK, NEW r \in Runs, RunFine(run[r]), List(r)
  PROVE  Pays(r)
<1>1. PICK x \in RunRecord : x = run[r]
  BY DEF RunFine
<1>2. x = Fresh /\ RunFine(x)
  BY <1>1 DEF List, RunFine, RunOK
<1>3. PICK t \in SUBSET Rows : t = {w \in Rows : ~IsPermanentStatus(h[w])}
  OBVIOUS
<1>4. PICK y : y = Asked("listed", t)
  OBVIOUS
<1>5. run' = [run EXCEPT ![r] = y]
  <2>1. y = [x EXCEPT !.phase = "listed", !.todo = t]
    <3>1. PICK z : z = [x EXCEPT !.phase = "listed", !.todo = t]
      OBVIOUS
    <3>2. z = Asked("listed", t)
      BY <1>2, <3>1 DEF Fresh, Asked
    <3>3. QED
      BY <1>4, <3>1, <3>2
  <2>2. QED
    BY <1>1, <1>3, <2>1 DEF List, TypeOK
<1>6. RunFine(y)
  BY <1>4, AskedFine
<1>7. ASSUME NEW d \in Donors
      PROVE  /\ HandAt(x, d) <= HandAt(y, d)
             /\ DoubleAt(y, d, placed) <= DoubleAt(x, d, placed)
             /\ OverAt(y, d, h) <= OverAt(x, d, h)
  <2>1. HandAt(x, d) = 0
    <3>1. x.phase = "none"
      BY <1>2 DEF Fresh
    <3>2. Drafts(x, d) = {} /\ HeldAt(x, d) = 0
      BY <3>1 DEF Drafts, HeldAt, HoldsAt, VisitingAt, BusyAt
    <3>3. QED
      BY <3>2, FS_EmptySet DEF HandAt
  <2>2. HandAt(y, d) = 0 /\ RowsAt(y) = t /\ y.phase = "listed"
    BY <1>4, AskedWorth
  <2>3. DoubleAt(y, d, placed) = 0
    BY <2>2 DEF DoubleAt
  <2>4. MarkedAt(y, d, h) = {}
    BY <1>3, <2>2 DEF MarkedAt, IsPermanentStatus
  <2>5. OverAt(y, d, h) = 0
    BY <2>4, FS_EmptySet DEF OverAt
  <2>6. DoubleAt(x, d, placed) \in Nat /\ OverAt(x, d, h) \in Nat
    BY <1>2, WorthType
  <2>7. QED
    BY <2>1, <2>2, <2>3, <2>5, <2>6
<1>8. QED
  BY <1>1, <1>5, <1>6, <1>7, QuietPays DEF List, stores, TypeOK

\* A request that has gone on and reads less.
LEMMA AskedPays ==
  ASSUME TypeOK, NEW r \in Runs, RunFine(run[r]),
         NEW p \in {"checked", "queued"}, NEW t \in SUBSET Rows,
         run[r].phase \in {"listed", "checked"}, t \subseteq run[r].todo,
         p = "queued" => run[r].phase = "checked",
         p = "checked" => \A w \in t : DonorOf[w] \notin placed,
         run' = [run EXCEPT ![r].phase = p, ![r].todo = t], UNCHANGED <<stores, history>>
  PROVE  Pays(r)
<1>1. PICK x \in RunRecord : x = run[r]
  BY DEF RunFine
<1>2. PICK y : y = Asked(p, t)
  OBVIOUS
<1>3. PICK q \in {"listed", "checked"}, u \in SUBSET Rows : q = x.phase /\ u = x.todo
  BY <1>1 DEF RunRecord
<1>4. x = Asked(q, u) /\ RunFine(x) /\ t \subseteq u
  BY <1>1, <1>3, AskedIs
<1>5. run' = [run EXCEPT ![r] = y]
  <2>1. y = [x EXCEPT !.phase = p, !.todo = t]
    <3>1. PICK z : z = [x EXCEPT !.phase = p, !.todo = t]
      OBVIOUS
    <3>2. z = Asked(p, t)
      BY <1>4, <3>1 DEF Asked
    <3>3. QED
      BY <1>2, <3>1, <3>2
  <2>2. QED
    BY <1>1, <2>1 DEF TypeOK
<1>6. RunFine(y)
  BY <1>2, AskedFine
<1>7. ASSUME NEW d \in Donors
      PROVE  /\ HandAt(x, d) <= HandAt(y, d)
             /\ DoubleAt(y, d, placed) <= DoubleAt(x, d, placed)
             /\ OverAt(y, d, h) <= OverAt(x, d, h)
  <2>1. HandAt(x, d) = 0 /\ RowsAt(x) = u /\ x.phase = q /\ x.todo = u
    <3>1. q \in {"listed", "checked", "queued"}
      OBVIOUS
    <3>2. QED
      BY <1>4, <3>1, AskedWorth
  <2>2. HandAt(y, d) = 0 /\ RowsAt(y) = t /\ y.phase = p /\ y.todo = t /\ ~VisitingAt(y, d)
        /\ TodoAt(y, d) = {w \in t : DonorOf[w] = d}
    <3>1. p \in {"listed", "checked", "queued"}
      OBVIOUS
    <3>2. QED
      BY <1>2, <3>1, AskedWorth
  <2>3. OverAt(y, d, h) <= OverAt(x, d, h)
    <3>1. MarkedAt(y, d, h) \subseteq MarkedAt(x, d, h)
      BY <1>4, <2>1, <2>2 DEF MarkedAt
    <3>2. x.phase \in Playing
      BY <2>1 DEF Playing
    <3>3. QED
      BY <1>4, <1>6, <3>1, <3>2, NoMoreOver
  <2>4. DoubleAt(y, d, placed) <= DoubleAt(x, d, placed)
    <3>1. CASE p = "queued"
      <4>1. x.phase = "checked" /\ y.todo \subseteq x.todo
        BY <1>1, <1>4, <2>1, <2>2, <3>1
      <4>2. QED
        BY <1>4, <1>6, <2>2, <4>1, NoMoreDouble
    <3>2. CASE p = "checked"
      <4>1. d \in placed => TodoAt(y, d) = {}
        BY <2>2, <3>2
      <4>2. DoubleAt(y, d, placed) = 0
        BY <2>2, <4>1, FS_EmptySet DEF DoubleAt
      <4>3. DoubleAt(x, d, placed) \in Nat
        BY <1>4, WorthType
      <4>4. QED
        BY <4>2, <4>3
    <3>3. QED
      BY <3>1, <3>2
  <2>5. QED
    BY <2>1, <2>2, <2>3, <2>4
<1>8. QED
  BY <1>1, <1>5, <1>6, <1>7, QuietPays DEF stores, TypeOK

LEMMA CheckPays ==
  ASSUME TypeOK, NEW r \in Runs, RunFine(run[r]), Check(r)
  PROVE  Pays(r)
<1>1. PICK t : t = {w \in run[r].todo : DonorOf[w] \notin PlacedDonors}
  OBVIOUS
<1>2. t \in SUBSET Rows /\ t \subseteq run[r].todo /\ \A w \in t : DonorOf[w] \notin placed
  BY <1>1, RecordFinite DEF PlacedDonors
<1>3. run' = [run EXCEPT ![r].phase = "checked", ![r].todo = t]
  BY <1>1 DEF Check, TypeOK, RunRecord
<1>4. QED
  BY <1>2, <1>3, AskedPays DEF Check

LEMMA QueuePays ==
  ASSUME TypeOK, NEW r \in Runs, RunFine(run[r]), Queue(r)
  PROVE  Pays(r)
<1>1. PICK t : t = {w \in run[r].todo : DonorOf[w] \notin cooling}
  OBVIOUS
<1>2. t \in SUBSET Rows /\ t \subseteq run[r].todo
  BY <1>1, RecordFinite
<1>3. run' = [run EXCEPT ![r].phase = "queued", ![r].todo = t]
  BY <1>1 DEF Queue, TypeOK, RunRecord
<1>4. QED
  BY <1>2, <1>3, AskedPays DEF Queue

\* A run that is not in play has nothing and takes nothing.
LEMMA IdleWorth ==
  ASSUME NEW y, y.phase \notin Playing, NEW d, NEW cells, NEW table
  PROVE  HandAt(y, d) = 0 /\ DoubleAt(y, d, table) = 0 /\ OverAt(y, d, cells) = 0 /\ Worth(y, d, cells, table) = 0
<1>1. Drafts(y, d) = {} /\ HeldAt(y, d) = 0
  BY DEF Drafts, HeldAt, HoldsAt, VisitingAt, BusyAt, Playing
<1>2. HandAt(y, d) = 0
  BY <1>1, FS_EmptySet DEF HandAt
<1>3. DoubleAt(y, d, table) = 0 /\ OverAt(y, d, cells) = 0
  BY DEF DoubleAt, OverAt, Playing
<1>4. QED
  BY <1>2, <1>3 DEF Worth

LEMMA RefusePays ==
  ASSUME TypeOK, NEW r \in Runs, RunFine(run[r]), Refuse(r)
  PROVE  Pays(r)
<1>1. PICK x \in RunRecord : x = run[r]
  BY DEF RunFine
<1>2. x.phase \in {"listed", "checked", "queued"} /\ RunFine(x)
  BY <1>1 DEF Refuse
<1>3. PICK p, t : p = x.phase /\ t = x.todo
  OBVIOUS
<1>4. x = Asked(p, t) /\ p \in {"listed", "checked", "queued"} /\ t \in SUBSET Rows
  BY <1>2, <1>3, AskedIs DEF RunRecord
<1>5. Fresh.phase \notin Playing
  BY DEF Fresh, Playing
<1>6. ASSUME NEW d \in Donors
      PROVE  /\ HandAt(x, d) <= HandAt(Fresh, d)
             /\ DoubleAt(Fresh, d, placed) <= DoubleAt(x, d, placed)
             /\ OverAt(Fresh, d, h) <= OverAt(x, d, h)
  <2>1. HandAt(x, d) = 0
    BY <1>4, AskedWorth
  <2>2. HandAt(Fresh, d) = 0 /\ DoubleAt(Fresh, d, placed) = 0 /\ OverAt(Fresh, d, h) = 0
    BY <1>5, IdleWorth
  <2>3. DoubleAt(x, d, placed) \in Nat /\ OverAt(x, d, h) \in Nat
    BY <1>2, WorthType
  <2>4. QED
    BY <2>1, <2>2, <2>3
<1>7. RunFine(Fresh)
  BY FreshFine
<1>8. QED
  BY <1>1, <1>6, <1>7, QuietPays DEF Refuse, stores, TypeOK

LEMMA StartPays ==
  ASSUME TypeOK, NEW r \in Runs, RunFine(run[r]), Start(r)
  PROVE  Pays(r)
<1>1. PICK x \in RunRecord : x = run[r]
  BY DEF RunFine
<1>2. PICK t \in SUBSET Rows : t = x.todo
  BY DEF RunRecord
<1>3. x.phase = "queued" /\ RunFine(x)
  BY <1>1 DEF Start
<1>4. x = Asked("queued", t)
  BY <1>2, <1>3, AskedIs
<1>5. x.pending = {} /\ x.todo = t /\ x.step = "next" /\ x.succeeded = 0 /\ ~x.cut
  BY <1>4 DEF Asked
<1>6. PICK y : y = [x EXCEPT !.phase = "running"]
  OBVIOUS
<1>7. y \in RunRecord
  BY <1>6 DEF RunRecord, Phases
<1>8. y.phase = "running" /\ y.pending = {} /\ y.todo = t /\ y.step = "next" /\ y.succeeded = 0
  BY <1>5, <1>6 DEF RunRecord
<1>9. RunFine(y)
  <2>1. RowsOf(y.pending) = {}
    BY <1>8 DEF RowsOf
  <2>2. RunOK(y)
    BY <1>8, <2>1 DEF RunOK
  <2>3. StopOK(y)
    BY <1>8, BacklinksAssumption DEF StopOK
  <2>4. QED
    BY <1>7, <2>2, <2>3 DEF RunFine
<1>10. ASSUME NEW d \in Donors
      PROVE  /\ HandAt(x, d) <= HandAt(y, d)
             /\ DoubleAt(y, d, placed) <= DoubleAt(x, d, placed)
             /\ OverAt(y, d, h) <= OverAt(x, d, h)
  <2>1. HandAt(x, d) = 0 /\ HandAt(y, d) \in Nat
    BY <1>4, <1>9, AskedWorth, WorthType
  <2>2. ~VisitingAt(y, d) /\ ~BusyAt(y) /\ ~BusyAt(x)
    BY <1>5, <1>8 DEF VisitingAt, BusyAt
  <2>3. DoubleAt(y, d, placed) <= DoubleAt(x, d, placed)
    BY <1>3, <1>5, <1>8, <1>9, <2>2, NoMoreDouble
  <2>4. RowsAt(y) = RowsAt(x)
    BY <1>5, <1>8, <2>2 DEF RowsAt
  <2>5. MarkedAt(y, d, h) \subseteq MarkedAt(x, d, h) /\ x.phase \in Playing
    BY <1>3, <2>4 DEF MarkedAt, Playing
  <2>6. OverAt(y, d, h) <= OverAt(x, d, h)
    BY <1>3, <1>9, <2>5, NoMoreOver
  <2>7. QED
    BY <2>1, <2>3, <2>6
<1>11. run' = [run EXCEPT ![r] = y]
  BY <1>1, <1>6 DEF Start, TypeOK
<1>12. QED
  BY <1>1, <1>9, <1>10, <1>11, QuietPays DEF Start, stores, TypeOK

\* A run that stays with what it has: its context ends, or its loop does.
LEMMA SameWorth ==
  ASSUME NEW x, NEW y, x.phase = "running", y.phase = "running", x.todo = y.todo, x.pending = y.pending,
         \/ x.step = y.step /\ x.row = y.row /\ x.got = y.got
         \/ ~BusyAt(x) /\ ~BusyAt(y),
         NEW d, NEW cells, NEW table
  PROVE  /\ HandAt(x, d) = HandAt(y, d) /\ DoubleAt(y, d, table) = DoubleAt(x, d, table)
         /\ OverAt(y, d, cells) = OverAt(x, d, cells)
<1>1. BusyAt(x) <=> BusyAt(y)
  BY DEF BusyAt
<1>2. (VisitingAt(x, d) <=> VisitingAt(y, d)) /\ HeldAt(x, d) = HeldAt(y, d)
  BY <1>1 DEF VisitingAt, HeldAt, HoldsAt
<1>3. Drafts(x, d) = Drafts(y, d) /\ TodoAt(x, d) = TodoAt(y, d) /\ RowsAt(x) = RowsAt(y)
  BY <1>1 DEF Drafts, TodoAt, RowsAt, BusyAt
<1>4. QED
  BY <1>2, <1>3 DEF HandAt, DoubleAt, OverAt, MarkedAt

LEMMA SamePays ==
  ASSUME TypeOK, NEW r \in Runs, RunFine(run[r]), NEW y, RunFine(y), run' = [run EXCEPT ![r] = y],
         run[r].phase = "running", y.phase = "running", run[r].todo = y.todo, run[r].pending = y.pending,
         \/ run[r].step = y.step /\ run[r].row = y.row /\ run[r].got = y.got
         \/ ~BusyAt(run[r]) /\ ~BusyAt(y),
         h' = h, placed' = placed, cooling' \subseteq Donors, stored' \subseteq Donors, UNCHANGED history
  PROVE  Pays(r)
<1>1. PICK x : x = run[r]
  OBVIOUS
<1>2. ASSUME NEW d \in Donors
      PROVE  /\ HandAt(x, d) <= HandAt(y, d)
             /\ DoubleAt(y, d, placed) <= DoubleAt(x, d, placed)
             /\ OverAt(y, d, h) <= OverAt(x, d, h)
  <2>1. /\ HandAt(x, d) = HandAt(y, d) /\ DoubleAt(y, d, placed) = DoubleAt(x, d, placed)
        /\ OverAt(y, d, h) = OverAt(x, d, h)
    BY <1>1, SameWorth
  <2>2. HandAt(x, d) \in Nat /\ DoubleAt(x, d, placed) \in Nat /\ OverAt(x, d, h) \in Nat
    BY <1>1, WorthType
  <2>3. QED
    BY <2>1, <2>2
<1>3. QED
  BY <1>1, <1>2, QuietPays

LEMMA CutPays ==
  ASSUME TypeOK, NEW r \in Runs, RunFine(run[r]), Cut(r)
  PROVE  Pays(r)
<1>1. PICK x \in RunRecord : x = run[r]
  BY DEF RunFine
<1>2. x.phase = "running" /\ RunFine(x)
  BY <1>1 DEF Cut
<1>3. PICK y : y = [x EXCEPT !.cut = TRUE]
  OBVIOUS
<1>4. y \in RunRecord
  BY <1>3 DEF RunRecord
<1>5. y.phase = x.phase /\ y.pending = x.pending /\ y.todo = x.todo /\ y.step = x.step /\ y.got = x.got
      /\ y.row = x.row /\ y.succeeded = x.succeeded /\ y.cut
  BY <1>3 DEF RunRecord
<1>6. RunFine(y)
  BY <1>2, <1>4, <1>5 DEF RunFine, RunOK, StopOK
<1>7. run' = [run EXCEPT ![r] = y]
  BY <1>1, <1>3 DEF Cut, TypeOK
<1>8. QED
  BY <1>1, <1>2, <1>5, <1>6, <1>7, SamePays DEF Cut, stores, TypeOK

LEMMA RunsOutPays ==
  ASSUME TypeOK, NEW r \in Runs, RunFine(run[r]), RunsOut(r)
  PROVE  Pays(r)
<1>1. PICK x \in RunRecord : x = run[r]
  BY DEF RunFine
<1>2. x.phase = "running" /\ RunFine(x) /\ x.step = "next" /\ (x.cut \/ x.todo = {})
  BY <1>1 DEF RunsOut, At
<1>3. PICK y : y = [x EXCEPT !.step = "end"]
  OBVIOUS
<1>4. y \in RunRecord
  BY <1>3 DEF RunRecord, Steps
<1>5. y.phase = x.phase /\ y.pending = x.pending /\ y.todo = x.todo /\ y.step = "end" /\ y.got = x.got
      /\ y.row = x.row /\ y.succeeded = x.succeeded /\ y.cut = x.cut
  BY <1>3 DEF RunRecord
<1>6. RunFine(y)
  <2>1. RunOK(y)
    BY <1>2, <1>5 DEF RunFine, RunOK
  <2>2. StopOK(y)
    BY <1>2, <1>5 DEF RunFine, StopOK
  <2>3. QED
    BY <1>4, <2>1, <2>2 DEF RunFine
<1>7. run' = [run EXCEPT ![r] = y]
  BY <1>1, <1>3 DEF RunsOut, TypeOK
<1>8. ~BusyAt(x) /\ ~BusyAt(y)
  BY <1>2, <1>5 DEF BusyAt
<1>9. QED
  BY <1>1, <1>2, <1>5, <1>6, <1>7, <1>8, SamePays DEF RunsOut, stores, TypeOK

LEMMA EndPays ==
  ASSUME TypeOK, NEW r \in Runs, RunFine(run[r]), End(r)
  PROVE  Pays(r)
<1>1. PICK x \in RunRecord : x = run[r]
  BY DEF RunFine
<1>2. x.phase = "running" /\ RunFine(x) /\ x.step = "end" /\ x.pending = {}
  BY <1>1 DEF End, At, AllFlushed
<1>3. PICK y : y = [x EXCEPT !.phase = "over"]
  OBVIOUS
<1>4. y \in RunRecord
  BY <1>3 DEF RunRecord, Phases
<1>5. y.phase = "over" /\ y.pending = x.pending /\ y.todo = x.todo /\ y.step = "end"
      /\ y.row = x.row /\ y.succeeded = x.succeeded /\ y.cut = x.cut
  BY <1>2, <1>3 DEF RunRecord
<1>6. RunFine(y)
  BY <1>2, <1>4, <1>5 DEF RunFine, RunOK, StopOK
<1>7. run' = [run EXCEPT ![r] = y]
  BY <1>1, <1>3 DEF End, TypeOK
<1>8. ASSUME NEW d \in Donors
      PROVE  /\ HandAt(x, d) <= HandAt(y, d)
             /\ DoubleAt(y, d, placed) <= DoubleAt(x, d, placed)
             /\ OverAt(y, d, h) <= OverAt(x, d, h)
  <2>1. HandAt(y, d) = 0 /\ DoubleAt(y, d, placed) = 0 /\ OverAt(y, d, h) = 0
    BY <1>5, IdleWorth DEF Playing
  <2>2. Drafts(x, d) = {} /\ HeldAt(x, d) = 0
    BY <1>2 DEF Drafts, HeldAt, HoldsAt, VisitingAt, BusyAt
  <2>3. HandAt(x, d) = 0
    BY <2>2, FS_EmptySet DEF HandAt
  <2>4. DoubleAt(x, d, placed) \in Nat /\ OverAt(x, d, h) \in Nat
    BY <1>2, WorthType
  <2>5. QED
    BY <2>1, <2>3, <2>4
<1>9. QED
  BY <1>1, <1>6, <1>7, <1>8, QuietPays DEF End, stores, TypeOK

\* A run leaves its donor, and what it held there, if anything, is a slip.
LEMMA LeavesPays ==
  ASSUME TypeOK, NEW r \in Runs, RunFine(run[r]), NEW y, RunFine(y), run' = [run EXCEPT ![r] = y],
         run[r].phase = "running", y.phase = "running", run[r].todo = y.todo, run[r].pending = y.pending,
         ~BusyAt(y),
         h' = h, placed' = placed, cooling' = cooling, stored' = stored, written' = written, faults' = faults,
         slips' \in [Donors -> Nat], \A d \in Donors : slips[d] + HeldAt(run[r], d) <= slips'[d]
  PROVE  Pays(r)
<1>1. PICK x : x = run[r]
  OBVIOUS
<1>2. ASSUME NEW d \in Donors
      PROVE  slips[d] + Worth(x, d, h, placed) <= slips'[d] + Worth(y, d, h, placed)
  <2>1. PICK k \in Nat : k = HeldAt(x, d)
    BY DEF HeldAt
  <2>2. ~VisitingAt(y, d) /\ HeldAt(y, d) = 0
    BY DEF VisitingAt, HeldAt, HoldsAt
  <2>3. Drafts(x, d) = Drafts(y, d)
    BY <1>1 DEF Drafts
  <2>4. HandAt(x, d) <= HandAt(y, d) + k
    <3>1. PICK n : n = Cardinality(Drafts(x, d))
      OBVIOUS
    <3>2. n \in Nat
      BY <1>1, <3>1, WorthType
    <3>3. HandAt(x, d) = k + n /\ HandAt(y, d) = 0 + n
      BY <2>1, <2>2, <2>3, <3>1 DEF HandAt
    <3>4. QED
      BY <3>2, <3>3
  <2>5. DoubleAt(y, d, placed) <= DoubleAt(x, d, placed)
    BY <1>1, <2>2, NoMoreDouble
  <2>6. OverAt(y, d, h) <= OverAt(x, d, h)
    <3>1. RowsAt(y) \subseteq RowsAt(x)
      BY <1>1 DEF RowsAt
    <3>2. MarkedAt(y, d, h) \subseteq MarkedAt(x, d, h) /\ x.phase \in Playing
      BY <1>1, <3>1 DEF MarkedAt, Playing
    <3>3. QED
      BY <1>1, <3>2, NoMoreOver
  <2>7. PICK a, b : a = Worth(x, d, h, placed) /\ b = Worth(y, d, h, placed)
    OBVIOUS
  <2>8. a \in Int /\ b \in Int
    BY <1>1, <2>7, WorthType
  <2>9. a <= b + k
    BY <1>1, <2>4, <2>5, <2>6, <2>7, WorthKept
  <2>10. slips[d] \in Nat /\ slips'[d] \in Nat /\ slips[d] + k <= slips'[d]
    BY <1>1, <2>1 DEF TypeOK
  <2>11. QED
    BY <2>7, <2>8, <2>9, <2>10
<1>3. QED
  BY <1>1, <1>2, KeptPays DEF TypeOK

\* What a run holds, by its donor.
LEMMA HeldHere ==
  ASSUME NEW x, NEW d
  PROVE  HeldAt(x, d) = IF d = DonorOf[x.row] /\ HoldsAt(x, d) THEN 1 ELSE 0
  BY DEF HeldAt, HoldsAt, VisitingAt

LEMMA SettlePays ==
  ASSUME TypeOK, NEW r \in Runs, RunFine(run[r]), Settle(r)
  PROVE  Pays(r)
<1>1. PICK x \in RunRecord : x = run[r]
  BY DEF RunFine
<1>2. x.phase = "running" /\ RunFine(x) /\ x.step = "settle"
  BY <1>1 DEF Settle, At
<1>3. x.row \in Rows /\ x.row \notin x.todo /\ DonorOf[x.row] \in Donors /\ x.row \notin RowsOf(x.pending)
  <2>1. x.step \in Visits
    BY <1>2 DEF Visits
  <2>2. x.row \notin RowsOf(x.pending)
    BY <1>2 DEF RunFine, RunOK
  <2>3. QED
    BY <1>2, <2>1, <2>2, HereIn
<1>4. CASE x.cut
  <2>1. PICK y : y = [x EXCEPT !.step = "end", !.row = 0, !.got = "error"]
    OBVIOUS
  <2>2. run' = [run EXCEPT ![r] = y]
    BY <1>1, <1>4, <2>1 DEF Settle, TypeOK, RunRecord
  <2>3. y \in RunRecord
    BY <2>1 DEF RunRecord, Steps, Outcomes
  <2>4. y.phase = x.phase /\ y.pending = x.pending /\ y.todo = x.todo /\ y.step = "end"
        /\ y.succeeded = x.succeeded /\ y.cut
    BY <1>4, <2>1 DEF RunRecord
  <2>5. RunFine(y)
    BY <1>2, <2>3, <2>4 DEF RunFine, RunOK, StopOK
  <2>6. ~BusyAt(y)
    BY <2>4 DEF BusyAt
  <2>7. PICK n \in {0, 1} : n = IF Holds(r, Here(r)) THEN 1 ELSE 0
    OBVIOUS
  <2>8. Slip(Here(r), n) /\ n \in Nat
    BY <1>1, <1>4, <2>7 DEF Settle
  <2>9. Here(r) \in Donors /\ Here(r) = DonorOf[x.row]
    BY <1>1, <1>3 DEF Here
  <2>10. slips' \in [Donors -> Nat] /\ \A d \in Donors : slips'[d] = slips[d] + (IF d = Here(r) THEN n ELSE 0)
    BY <2>8, <2>9, SlipsOne
  <2>11. Holds(r, Here(r)) <=> HoldsAt(x, Here(r))
    BY <1>1 DEF Holds, HoldsAt, Visiting, VisitingAt, BusyAt, Here
  <2>12. ASSUME NEW d \in Donors
         PROVE  slips[d] + HeldAt(x, d) <= slips'[d]
    <3>1. HeldAt(x, d) = IF d = Here(r) THEN n ELSE 0
      BY <2>7, <2>9, <2>11, HeldHere
    <3>2. slips'[d] = slips[d] + (IF d = Here(r) THEN n ELSE 0) /\ slips[d] \in Nat
      BY <2>10 DEF TypeOK
    <3>3. QED
      BY <2>8, <3>1, <3>2
  <2>13. UNCHANGED <<h, placed, cooling, stored, written, faults>>
    BY DEF Settle, stores
  <2>14. QED
    BY <1>1, <1>2, <2>2, <2>4, <2>5, <2>6, <2>10, <2>12, <2>13, LeavesPays
<1>5. CASE ~x.cut
  <2>1. PICK p, n : p = x.pending \cup {<<x.row, x.got>>} /\ n = IF x.got = "placed" THEN x.succeeded + 1 ELSE x.succeeded
    OBVIOUS
  <2>2. PICK y : y = [x EXCEPT !.step = "save", !.pending = p, !.succeeded = n]
    OBVIOUS
  <2>3. run' = [run EXCEPT ![r] = y]
    BY <1>1, <1>5, <2>1, <2>2 DEF Settle, TypeOK, RunRecord
  <2>4. p \in SUBSET Results /\ n \in Nat /\ x.got \in Outcomes
    <3>1. x.got \in Outcomes /\ x.pending \subseteq Results /\ x.succeeded \in Nat
      BY DEF RunRecord
    <3>2. <<x.row, x.got>> \in Results
      BY <1>3, <3>1 DEF Results
    <3>3. QED
      BY <2>1, <3>1, <3>2
  <2>5. y \in RunRecord
    BY <2>2, <2>4 DEF RunRecord, Steps
  <2>6. y.phase = x.phase /\ y.pending = p /\ y.todo = x.todo /\ y.step = "save"
        /\ y.succeeded = n /\ y.cut = x.cut /\ y.row = x.row /\ y.got = x.got
    BY <2>2 DEF RunRecord
  <2>7. RowsOf(p) = RowsOf(x.pending) \cup {x.row}
    <3>1. PICK g : g = <<x.row, x.got>>
      OBVIOUS
    <3>2. g[1] = x.row /\ p = x.pending \cup {g}
      BY <2>1, <3>1
    <3>3. QED
      BY <3>2 DEF RowsOf
  <2>8. RunFine(y)
    <3>1. RunOK(y)
      <4>1. \A q \in x.pending : q[1] # x.row
        BY <1>3 DEF RowsOf
      <4>2. \A q, u \in p : q[1] = u[1] => q = u
        BY <1>2, <2>1, <4>1 DEF RunFine, RunOK
      <4>3. RowsOf(p) \cap x.todo = {}
        BY <1>2, <1>3, <2>7 DEF RunFine, RunOK
      <4>4. <<x.row, x.got>> \in p
        BY <2>1
      <4>5. QED
        BY <1>2, <1>3, <2>6, <4>2, <4>3, <4>4 DEF RunOK
    <3>2. StopOK(y)
      <4>1. x.succeeded < Count /\ x.succeeded \in Nat
        BY <1>2 DEF RunFine, StopOK, RunRecord
      <4>2. n <= Count
        BY <2>1, <4>1, BacklinksAssumption
      <4>3. QED
        BY <1>2, <2>6, <4>2 DEF StopOK
    <3>3. QED
      BY <2>5, <3>1, <3>2 DEF RunFine
  <2>9. BusyAt(x) /\ BusyAt(y)
    BY <1>2, <2>6 DEF BusyAt
  <2>10. ASSUME NEW d \in Donors
         PROVE  /\ HandAt(x, d) <= HandAt(y, d)
                /\ DoubleAt(y, d, placed) <= DoubleAt(x, d, placed)
                /\ OverAt(y, d, h) <= OverAt(x, d, h)
    <3>1. (VisitingAt(x, d) <=> d = DonorOf[x.row]) /\ (VisitingAt(y, d) <=> d = DonorOf[x.row])
      BY <2>6, <2>9 DEF VisitingAt
    <3>2. DoubleAt(y, d, placed) <= DoubleAt(x, d, placed)
      BY <1>2, <2>6, <2>8, <3>1, NoMoreDouble
    <3>3. OverAt(y, d, h) <= OverAt(x, d, h)
      <4>1. RowsAt(y) = RowsAt(x)
        BY <2>6, <2>7, <2>9 DEF RowsAt
      <4>2. MarkedAt(y, d, h) \subseteq MarkedAt(x, d, h) /\ x.phase \in Playing
        BY <1>2, <4>1 DEF MarkedAt, Playing
      <4>3. QED
        BY <1>2, <2>8, <4>2, NoMoreOver
    <3>4. HandAt(x, d) <= HandAt(y, d)
      <4>1. IsFiniteSet(Drafts(x, d)) /\ Cardinality(Drafts(x, d)) \in Nat
            /\ IsFiniteSet(Drafts(y, d)) /\ Cardinality(Drafts(y, d)) \in Nat
        BY <1>2, <2>8, WorthType
      <4>2. Drafts(x, d) \subseteq Drafts(y, d)
        BY <1>2, <2>1, <2>6 DEF Drafts
      <4>3. Cardinality(Drafts(x, d)) <= Cardinality(Drafts(y, d))
        BY <4>1, <4>2, FS_Subset
      <4>4. CASE d = DonorOf[x.row] /\ x.got = "pending"
        <5>1. Drafts(y, d) = Drafts(x, d) \cup {<<x.row, x.got>>}
          BY <1>2, <2>1, <2>6, <4>4 DEF Drafts
        <5>2. <<x.row, x.got>> \notin Drafts(x, d)
          BY <1>3 DEF Drafts, RowsOf
        <5>3. Cardinality(Drafts(y, d)) = Cardinality(Drafts(x, d)) + 1
          BY <4>1, <5>1, <5>2, FS_AddElement
        <5>4. HeldAt(x, d) \in {0, 1} /\ HeldAt(y, d) \in {0, 1}
          BY DEF HeldAt
        <5>5. PICK a, b, c : a = HeldAt(x, d) /\ b = HeldAt(y, d) /\ c = Cardinality(Drafts(x, d))
          OBVIOUS
        <5>6. HandAt(x, d) = a + c /\ HandAt(y, d) = b + (c + 1)
          BY <5>3, <5>5 DEF HandAt
        <5>7. QED
          BY <4>1, <5>4, <5>5, <5>6
      <4>5. CASE ~(d = DonorOf[x.row] /\ x.got = "pending")
        <5>1. HeldAt(x, d) = HeldAt(y, d)
          BY <1>2, <2>6, <3>1, <4>5 DEF HeldAt, HoldsAt, LiveSteps
        <5>2. PICK a, b, c : a = HeldAt(x, d) /\ b = Cardinality(Drafts(x, d)) /\ c = Cardinality(Drafts(y, d))
          OBVIOUS
        <5>3. a \in Nat
          BY <5>2 DEF HeldAt
        <5>4. HandAt(x, d) = a + b /\ HandAt(y, d) = a + c
          BY <5>1, <5>2 DEF HandAt
        <5>5. QED
          BY <4>1, <4>3, <5>2, <5>3, <5>4
      <4>6. QED
        BY <4>4, <4>5
    <3>5. QED
      BY <3>2, <3>3, <3>4
  <2>11. UNCHANGED <<stores, history>>
    BY <1>1, <1>5 DEF Settle, history
  <2>12. QED
    BY <1>1, <2>3, <2>8, <2>10, <2>11, QuietPays DEF stores, TypeOK
<1>6. QED
  BY <1>4, <1>5

\* What SavePlacement does to the run.
LEMMA SavePlacementLeaves ==
  ASSUME TypeOK, NEW r \in Runs, RunFine(run[r]), SavePlacement(r)
  PROVE  \E y : /\ RunFine(y) /\ run' = [run EXCEPT ![r] = y] /\ ~BusyAt(y)
                /\ y.phase = "running" /\ run[r].phase = "running"
                /\ run[r].todo = y.todo /\ run[r].pending = y.pending
<1>1. PICK x \in RunRecord : x = run[r]
  BY DEF RunFine
<1>2. x.phase = "running" /\ RunFine(x) /\ x.step = "save"
  BY <1>1 DEF SavePlacement, At
<1>3. PICK y : y = [x EXCEPT !.step = "profile"]
  OBVIOUS
<1>4. y \in RunRecord
  BY <1>3 DEF RunRecord, Steps
<1>5. y.phase = x.phase /\ y.pending = x.pending /\ y.todo = x.todo /\ y.step = "profile" /\ y.got = x.got
      /\ y.row = x.row /\ y.succeeded = x.succeeded /\ y.cut = x.cut
  BY <1>3 DEF RunRecord
<1>6. RunFine(y)
  BY <1>2, <1>4, <1>5 DEF RunFine, RunOK, StopOK
<1>7. run' = [run EXCEPT ![r] = y]
  BY <1>1, <1>3 DEF SavePlacement, TypeOK
<1>8. ~BusyAt(y)
  BY <1>5 DEF BusyAt
<1>9. QED
  BY <1>1, <1>2, <1>5, <1>6, <1>7, <1>8

\* The link is in the table already, or the statement fails, or there is none.
LEMMA SavePlacementPays ==
  ASSUME TypeOK, NEW r \in Runs, RunFine(run[r]), SavePlacement(r), placed' = placed,
         slips' \in [Donors -> Nat], \A d \in Donors : slips[d] + HeldAt(run[r], d) <= slips'[d]
  PROVE  Pays(r)
<1>1. PICK y : /\ RunFine(y) /\ run' = [run EXCEPT ![r] = y] /\ ~BusyAt(y)
               /\ y.phase = "running" /\ run[r].phase = "running"
               /\ run[r].todo = y.todo /\ run[r].pending = y.pending
  BY SavePlacementLeaves
<1>2. QED
  BY <1>1, LeavesPays DEF SavePlacement

LEMMA SaveProfilePays ==
  ASSUME TypeOK, NEW r \in Runs, RunFine(run[r]), SaveProfile(r)
  PROVE  Pays(r)
<1>1. PICK x \in RunRecord : x = run[r]
  BY DEF RunFine
<1>2. x.phase = "running" /\ RunFine(x) /\ x.step = "profile"
  BY <1>1 DEF SaveProfile, At
<1>3. PICK step \in {"flush", "end", "next"} :
        step = IF Cardinality(run[r].pending) >= Chunk THEN "flush" ELSE AfterDonor(r)
  BY DEF AfterDonor
<1>4. PICK y : y = [x EXCEPT !.step = step, !.row = 0, !.got = "error"]
  OBVIOUS
<1>5. run' = [run EXCEPT ![r] = y]
  BY <1>1, <1>3, <1>4 DEF SaveProfile, TypeOK, RunRecord
<1>6. y \in RunRecord
  BY <1>4 DEF RunRecord, Steps, Outcomes
<1>7. y.phase = x.phase /\ y.pending = x.pending /\ y.todo = x.todo /\ y.step = step
      /\ y.succeeded = x.succeeded /\ y.cut = x.cut
  BY <1>4 DEF RunRecord
<1>8. RunFine(y)
  <2>1. RunOK(y)
    BY <1>2, <1>7 DEF RunFine, RunOK
  <2>2. x.succeeded <= Count /\ x.succeeded \in Nat
    BY <1>2 DEF RunFine, StopOK, RunRecord
  <2>3. (step = "next" => x.succeeded < Count) /\ (step = "end" => x.succeeded = Count)
    BY <1>1, <1>3, <2>2, BacklinksAssumption DEF AfterDonor, Enough
  <2>4. StopOK(y)
    BY <1>2, <1>7, <2>2, <2>3 DEF StopOK
  <2>5. QED
    BY <1>6, <2>1, <2>4 DEF RunFine
<1>9. ~BusyAt(x) /\ ~BusyAt(y)
  BY <1>2, <1>7 DEF BusyAt
<1>10. cooling' \subseteq Donors
  <2>1. Here(r) \in Donors
    BY <1>1, <1>2, HereIn DEF Here
  <2>2. QED
    BY <2>1 DEF SaveProfile, TypeOK
<1>11. UNCHANGED <<h, placed, stored, history>>
  BY DEF SaveProfile
<1>12. QED
  BY <1>1, <1>2, <1>5, <1>7, <1>8, <1>9, <1>10, <1>11, SamePays DEF TypeOK

-----------------------------------------------------------------------------
(* The sheet.                                                              *)

\* A run that has drafts to write is with no donor.
LEMMA FlushWorth ==
  ASSUME NEW x, RunFine(x), x.phase = "running", x.step \in {"flush", "end"}, NEW d, NEW table
  PROVE  /\ HandAt(x, d) = Cardinality(Drafts(x, d)) /\ ~BusyAt(x) /\ ~VisitingAt(x, d)
         /\ RowsAt(x) = x.todo \cup RowsOf(x.pending)
         /\ DoubleAt(x, d, table) = IF d \in table THEN Cardinality(TodoAt(x, d)) ELSE 0
<1>1. ~BusyAt(x) /\ ~VisitingAt(x, d)
  BY DEF BusyAt, VisitingAt
<1>2. HeldAt(x, d) = 0
  BY <1>1 DEF HeldAt, HoldsAt
<1>3. Cardinality(Drafts(x, d)) \in Nat /\ Cardinality(TodoAt(x, d)) \in Nat
  BY WorthType
<1>4. QED
  BY <1>1, <1>2, <1>3 DEF HandAt, RowsAt, DoubleAt

LEMMA DraftsAre ==
  ASSUME NEW r, NEW d
  PROVE  Unflushed(r, d) = Drafts(run[r], d)
  BY DEF Unflushed, Drafts

\* A write of the sheet that fails and was not applied.
LEMMA FlushLostPays ==
  ASSUME TypeOK, NEW r \in Runs, RunFine(run[r]), FlushFails(r, FALSE)
  PROVE  Pays(r)
<1>1. PICK x \in RunRecord : x = run[r]
  BY DEF RunFine
<1>2. x.phase = "running" /\ RunFine(x) /\ x.step \in {"flush", "end"}
  BY <1>1 DEF FlushFails, At
<1>3. PICK y : y = [Fresh EXCEPT !.phase = "unwritten"]
  OBVIOUS
<1>4. RunFine(y) /\ y.phase \notin Playing
  BY <1>3, FreshFine DEF Fresh, Playing
<1>5. run' = [run EXCEPT ![r] = y] /\ h' = h /\ slips' = [d \in Donors |-> slips[d] + Cardinality(Drafts(x, d))]
  BY <1>1, <1>3, DraftsAre DEF FlushFails
<1>6. \A d \in Donors : Cardinality(Drafts(x, d)) \in Nat
  BY <1>2, WorthType
<1>7. slips' \in [Donors -> Nat]
  BY <1>5, <1>6 DEF TypeOK
<1>8. ASSUME NEW d \in Donors
      PROVE  slips[d] + Worth(x, d, h, placed) <= slips'[d] + Worth(y, d, h, placed)
  <2>1. Worth(y, d, h, placed) = 0
    BY <1>4, IdleWorth
  <2>2. PICK a, b, n : a = DoubleAt(x, d, placed) /\ b = OverAt(x, d, h) /\ n = Cardinality(Drafts(x, d))
    OBVIOUS
  <2>3. a \in Nat /\ b \in Nat /\ n \in Nat
    BY <1>2, <2>2, WorthType
  <2>4. Worth(x, d, h, placed) = n - a - b
    BY <1>2, <2>2, FlushWorth DEF Worth
  <2>5. slips'[d] = slips[d] + n /\ slips[d] \in Nat
    BY <1>5, <2>2 DEF TypeOK
  <2>6. QED
    BY <2>1, <2>3, <2>4, <2>5
<1>9. faults' \in Nat
  BY DEF FlushFails, Fault, TypeOK
<1>10. QED
  BY <1>1, <1>4, <1>5, <1>7, <1>8, <1>9, KeptPays DEF FlushFails, TypeOK

-----------------------------------------------------------------------------
(* All runs.                                                               *)

WorthOf(d) == [r \in Runs |-> Worth(run[r], d, h, placed)]

LEMMA WorthIs ==
  ASSUME NEW r, NEW d
  PROVE  Hand(r, d) - MayDouble(r, d) - MayOverwrite(r, d) = Worth(run[r], d, h, placed)
<1>1. PICK x : x = run[r]
  OBVIOUS
<1>2. (Visiting(r, d) <=> VisitingAt(x, d)) /\ (Busy(r) <=> BusyAt(x)) /\ (InPlay(r) <=> x.phase \in Playing)
  BY <1>1 DEF Visiting, VisitingAt, Busy, BusyAt, InPlay, Playing, Here
<1>3. (Holds(r, d) <=> HoldsAt(x, d)) /\ Unflushed(r, d) = Drafts(x, d)
  BY <1>1, <1>2 DEF Holds, HoldsAt, Unflushed, Drafts
<1>4. OwnRows(r) = RowsAt(x)
  BY <1>1, <1>2 DEF OwnRows, RowsAt
<1>5. Hand(r, d) = HandAt(x, d)
  BY <1>3 DEF Hand, HandAt, HeldAt
<1>6. MayDouble(r, d) = DoubleAt(x, d, placed)
  BY <1>1, <1>2 DEF MayDouble, DoubleAt, TodoAt
<1>7. MayOverwrite(r, d) = OverAt(x, d, h)
  BY <1>2, <1>4 DEF MayOverwrite, OverAt, MarkedAt
<1>8. QED
  BY <1>1, <1>5, <1>6, <1>7 DEF Worth

LEMMA BackedIs == \A d : Backed(d) = SumOf(WorthOf(d), Runs)
<1> SUFFICES ASSUME NEW d PROVE Backed(d) = SumOf(WorthOf(d), Runs)
  OBVIOUS
<1> DEFINE P(i) == i = [s \in SUBSET Runs |->
                          IF s = {} THEN 0
                          ELSE LET x == CHOOSE x \in s : TRUE
                               IN (Hand(x, d) - MayDouble(x, d) - MayOverwrite(x, d)) + i[s \ {x}]]
<1>1. IsFiniteSet(Runs)
  BY BacklinksAssumption
<1>2. ASSUME NEW i
      PROVE  P(i) <=> IsSum(i, WorthOf(d), Runs)
  <2>1. ASSUME NEW s \in SUBSET Runs, s # {}
        PROVE  WorthOf(d)[Chosen(s)] = Hand(Chosen(s), d) - MayDouble(Chosen(s), d) - MayOverwrite(Chosen(s), d)
    <3>1. PICK c \in Runs : c = Chosen(s)
      BY <2>1, ChosenIn
    <3>2. WorthOf(d)[c] = Worth(run[c], d, h, placed)
      BY DEF WorthOf
    <3>3. QED
      BY <3>1, <3>2, WorthIs
  <2>2. \A s \in SUBSET Runs :
          (IF s = {} THEN 0 ELSE WorthOf(d)[Chosen(s)] + i[s \ {Chosen(s)}])
          = (IF s = {} THEN 0
             ELSE (Hand(Chosen(s), d) - MayDouble(Chosen(s), d) - MayOverwrite(Chosen(s), d)) + i[s \ {Chosen(s)}])
    BY <2>1
  <2>3. IsSum(i, WorthOf(d), Runs) <=>
          i = [s \in SUBSET Runs |-> IF s = {} THEN 0
                 ELSE (Hand(Chosen(s), d) - MayDouble(Chosen(s), d) - MayOverwrite(Chosen(s), d)) + i[s \ {Chosen(s)}]]
    BY <2>2 DEF IsSum
  <2>4. QED
    BY <2>3 DEF Chosen
<1>3. \E i : P(i)
  <2> HIDE DEF P
  <2>1. QED
    BY <1>1, <1>2, SumExists
<1>4. Backed(d) = (CHOOSE i : P(i))[Runs]
  BY DEF Backed, MapThenSumSet, MapThenFoldSet
<1>5. PICK j : j = CHOOSE i : P(i)
  OBVIOUS
<1>6. P(j)
  <2> HIDE DEF P
  <2>1. QED
    BY <1>3, <1>5
<1>7. j[Runs] = SumOf(WorthOf(d), Runs)
  <2> HIDE DEF P
  <2>1. IsSum(j, WorthOf(d), Runs)
    BY <1>2, <1>6
  <2>2. QED
    BY <1>1, <2>1, SumFound
<1>8. QED
  <2> HIDE DEF P
  <2>1. QED
    BY <1>4, <1>5, <1>7

LEMMA BackedIsNext == \A d : (Backed(d))' = SumOf(WorthOf(d)', Runs)
<1>1. [](\A d : Backed(d) = SumOf(WorthOf(d), Runs))
  BY BackedIs, PTL
<1>2. (\A d : Backed(d) = SumOf(WorthOf(d), Runs))'
  BY <1>1, PTL
<1>3. QED
  BY <1>2

HandsOf(d) == [r \in Runs |-> HandAt(run[r], d)]

LEMMA HandIs ==
  ASSUME NEW r, NEW d
  PROVE  (IF Holds(r, d) THEN 1 ELSE 0) + Cardinality(Unflushed(r, d)) = HandAt(run[r], d)
<1>1. PICK x : x = run[r]
  OBVIOUS
<1>2. Visiting(r, d) <=> VisitingAt(x, d)
  BY <1>1 DEF Visiting, VisitingAt, BusyAt, Here
<1>3. (Holds(r, d) <=> HoldsAt(x, d)) /\ Unflushed(r, d) = Drafts(x, d)
  BY <1>1, <1>2 DEF Holds, HoldsAt, Unflushed, Drafts
<1>4. QED
  BY <1>1, <1>3 DEF HandAt, HeldAt

LEMMA InHandIs ==
  ASSUME NEW d
  PROVE  InHand(d) = SumOf(HandsOf(d), Runs)
<1> DEFINE P(i) == i = [s \in SUBSET Runs |->
                          IF s = {} THEN 0
                          ELSE LET x == CHOOSE x \in s : TRUE
                               IN ((IF Holds(x, d) THEN 1 ELSE 0) + Cardinality(Unflushed(x, d))) + i[s \ {x}]]
<1>1. IsFiniteSet(Runs)
  BY BacklinksAssumption
<1>2. ASSUME NEW i
      PROVE  P(i) <=> IsSum(i, HandsOf(d), Runs)
  <2>1. ASSUME NEW s \in SUBSET Runs, s # {}
        PROVE  HandsOf(d)[Chosen(s)]
                 = (IF Holds(Chosen(s), d) THEN 1 ELSE 0) + Cardinality(Unflushed(Chosen(s), d))
    <3>1. PICK c \in Runs : c = Chosen(s)
      BY <2>1, ChosenIn
    <3>2. HandsOf(d)[c] = HandAt(run[c], d)
      BY DEF HandsOf
    <3>3. QED
      BY <3>1, <3>2, HandIs
  <2>2. \A s \in SUBSET Runs :
          (IF s = {} THEN 0 ELSE HandsOf(d)[Chosen(s)] + i[s \ {Chosen(s)}])
          = (IF s = {} THEN 0
             ELSE ((IF Holds(Chosen(s), d) THEN 1 ELSE 0) + Cardinality(Unflushed(Chosen(s), d)))
                  + i[s \ {Chosen(s)}])
    BY <2>1
  <2>3. IsSum(i, HandsOf(d), Runs) <=>
          i = [s \in SUBSET Runs |-> IF s = {} THEN 0
                 ELSE ((IF Holds(Chosen(s), d) THEN 1 ELSE 0) + Cardinality(Unflushed(Chosen(s), d)))
                      + i[s \ {Chosen(s)}]]
    BY <2>2 DEF IsSum
  <2>4. QED
    BY <2>3 DEF Chosen
<1>3. \E i : P(i)
  <2> HIDE DEF P
  <2>1. QED
    BY <1>1, <1>2, SumExists
<1>4. InHand(d) = (CHOOSE i : P(i))[Runs]
  BY DEF InHand, MapThenSumSet, MapThenFoldSet
<1>5. PICK j : j = CHOOSE i : P(i)
  OBVIOUS
<1>6. P(j)
  <2> HIDE DEF P
  <2>1. QED
    BY <1>3, <1>5
<1>7. j[Runs] = SumOf(HandsOf(d), Runs)
  <2> HIDE DEF P
  <2>1. IsSum(j, HandsOf(d), Runs)
    BY <1>2, <1>6
  <2>2. QED
    BY <1>1, <2>1, SumFound
<1>8. QED
  <2> HIDE DEF P
  <2>1. QED
    BY <1>4, <1>5, <1>7

\* What overtakes a result of a run: all that the others have in hand for its
\* donor, and what it has itself yet to do.
NotesAt(x, d) == {p \in x.pending : DonorOf[p[1]] = d}

Taken(q, r, d) ==
    LET x == run[q] IN
    IF x.phase \notin Playing THEN 0
    ELSE Cardinality(TodoAt(x, d)) + (IF q # r /\ VisitingAt(x, d) THEN 1 ELSE 0)
         + (IF q = r THEN 0 ELSE Cardinality(NotesAt(x, d)))

TakenOf(r, d) == [q \in Runs |-> Taken(q, r, d)]

LEMMA TakenIs ==
  ASSUME NEW q, NEW r, NEW d
  PROVE  (IF ~InPlay(q) THEN 0
          ELSE Cardinality({w \in run[q].todo : DonorOf[w] = d})
               + (IF q # r /\ Visiting(q, d) THEN 1 ELSE 0)
               + (IF q = r THEN 0 ELSE Cardinality({p \in run[q].pending : DonorOf[p[1]] = d})))
         = Taken(q, r, d)
<1>1. PICK x : x = run[q]
  OBVIOUS
<1>2. (Visiting(q, d) <=> VisitingAt(x, d)) /\ (InPlay(q) <=> x.phase \in Playing)
  BY <1>1 DEF Visiting, VisitingAt, BusyAt, Here, InPlay, Playing
<1>3. TodoAt(x, d) = {w \in run[q].todo : DonorOf[w] = d} /\ NotesAt(x, d) = {p \in run[q].pending : DonorOf[p[1]] = d}
  BY <1>1 DEF TodoAt, NotesAt
<1>4. QED
  BY <1>1, <1>2, <1>3 DEF Taken

LEMMA OvertakenIs ==
  ASSUME NEW r, NEW d
  PROVE  Overtaken(r, d) = SumOf(TakenOf(r, d), Runs)
<1> DEFINE T(q) == IF ~InPlay(q) THEN 0
                   ELSE Cardinality({w \in run[q].todo : DonorOf[w] = d})
                        + (IF q # r /\ Visiting(q, d) THEN 1 ELSE 0)
                        + (IF q = r THEN 0 ELSE Cardinality({p \in run[q].pending : DonorOf[p[1]] = d}))
           P(i) == i = [s \in SUBSET Runs |->
                          IF s = {} THEN 0
                          ELSE LET x == CHOOSE x \in s : TRUE IN T(x) + i[s \ {x}]]
<1>1. IsFiniteSet(Runs)
  BY BacklinksAssumption
<1>2. ASSUME NEW i
      PROVE  P(i) <=> IsSum(i, TakenOf(r, d), Runs)
  <2>0. \A q : T(q) = Taken(q, r, d)
    BY TakenIs
  <2> HIDE DEF T
  <2>1. ASSUME NEW s \in SUBSET Runs, s # {}
        PROVE  TakenOf(r, d)[Chosen(s)] = T(Chosen(s))
    <3>1. PICK c \in Runs : c = Chosen(s)
      BY <2>1, ChosenIn
    <3>2. TakenOf(r, d)[c] = Taken(c, r, d)
      BY DEF TakenOf
    <3>3. QED
      BY <2>0, <3>1, <3>2
  <2>2. \A s \in SUBSET Runs :
          (IF s = {} THEN 0 ELSE TakenOf(r, d)[Chosen(s)] + i[s \ {Chosen(s)}])
          = (IF s = {} THEN 0 ELSE T(Chosen(s)) + i[s \ {Chosen(s)}])
    BY <2>1
  <2>3. IsSum(i, TakenOf(r, d), Runs) <=>
          i = [s \in SUBSET Runs |-> IF s = {} THEN 0 ELSE T(Chosen(s)) + i[s \ {Chosen(s)}]]
    BY <2>2 DEF IsSum
  <2>4. QED
    BY <2>3 DEF Chosen
<1>3. \E i : P(i)
  <2> HIDE DEF P
  <2>1. QED
    BY <1>1, <1>2, SumExists
<1>4. Overtaken(r, d) = (CHOOSE i : P(i))[Runs]
  BY DEF Overtaken, MapThenSumSet, MapThenFoldSet
<1>5. PICK j : j = CHOOSE i : P(i)
  OBVIOUS
<1>6. P(j)
  <2> HIDE DEF P
  <2>1. QED
    BY <1>3, <1>5
<1>7. j[Runs] = SumOf(TakenOf(r, d), Runs)
  <2> HIDE DEF P
  <2>1. IsSum(j, TakenOf(r, d), Runs)
    BY <1>2, <1>6
  <2>2. QED
    BY <1>1, <2>1, SumFound
<1>8. QED
  <2> HIDE DEF P
  <2>1. QED
    BY <1>4, <1>5, <1>7

-----------------------------------------------------------------------------
(* A step covers a donor when what it puts there, with what the runs then  *)
(* hold less or may take more, is known or slips.                          *)

Marks(d, cells) == {w \in Rows : DonorOf[w] = d /\ cells[w] = "pending"}

KnownIn(d, cells, table) == (IF d \in table THEN 1 ELSE 0) + Cardinality(Marks(d, cells))

LEMMA KnownType ==
  ASSUME NEW d, NEW cells, NEW table
  PROVE  /\ KnownIn(d, cells, table) \in Nat
         /\ IsFiniteSet(Marks(d, cells)) /\ Cardinality(Marks(d, cells)) \in Nat
<1>1. IsFiniteSet(Marks(d, cells))
  BY BacklinksAssumption, FS_Subset DEF Marks
<1>2. Cardinality(Marks(d, cells)) \in Nat
  BY <1>1, FS_CardinalityType
<1>3. QED
  BY <1>1, <1>2 DEF KnownIn

LEMMA BackedType ==
  ASSUME \A r \in Runs : RunFine(run[r]), NEW d
  PROVE  Backed(d) \in Int
<1>1. PICK f : f = WorthOf(d)
  OBVIOUS
<1>2. ASSUME NEW r \in Runs
      PROVE  f[r] \in Int
  <2>1. PICK x : x = run[r]
    OBVIOUS
  <2>2. f[r] = Worth(x, d, h, placed)
    BY <1>1, <2>1 DEF WorthOf
  <2>3. QED
    BY <2>1, <2>2, WorthType
<1>3. SumOf(f, Runs) \in Int
  BY <1>2, SumType, BacklinksAssumption
<1>4. QED
  BY <1>1, <1>3, BackedIs

LEMMA CoversNext ==
  ASSUME TypeOK, \A r \in Runs : RunFine(run[r]), NEW d \in Donors, Covered(d),
         \A r \in Runs : RunFine(run'[r]),
         written'[d] \in Nat, slips'[d] \in Nat,
         NEW k, \A r \in Runs : k[r] \in Int,
         \A r \in Runs : Worth(run[r], d, h, placed) <= Worth(run'[r], d, h', placed') + k[r],
         written'[d] + slips[d] + KnownIn(d, h, placed) + SumOf(k, Runs)
           <= written[d] + slips'[d] + KnownIn(d, h', placed')
  PROVE  (Covered(d))'
<1>1. PICK f, g : f = WorthOf(d) /\ g = [r \in Runs |-> Worth(run'[r], d, h', placed')]
  OBVIOUS
<1>2. ASSUME NEW r \in Runs
      PROVE  f[r] \in Int /\ g[r] \in Int /\ k[r] \in Int /\ f[r] <= g[r] + k[r]
  <2>1. PICK x, y, a, b : /\ x = run[r] /\ y = run'[r]
                          /\ a = Worth(x, d, h, placed) /\ b = Worth(y, d, h', placed')
    OBVIOUS
  <2>2. a \in Int /\ b \in Int
    BY <2>1, WorthType
  <2>3. f[r] = a /\ g[r] = b
    BY <1>1, <2>1 DEF WorthOf
  <2>4. a <= b + k[r]
    BY <2>1
  <2>5. QED
    BY <2>2, <2>3, <2>4
<1>3. SumOf(f, Runs) <= SumOf(g, Runs) + SumOf(k, Runs)
  BY <1>2, SumsFall, BacklinksAssumption
<1>4. PICK a, b, c : a = SumOf(f, Runs) /\ b = SumOf(g, Runs) /\ c = SumOf(k, Runs)
  OBVIOUS
<1>5. a \in Int /\ b \in Int /\ c \in Int
  BY <1>2, <1>4, SumType, BacklinksAssumption
<1>6. Backed(d) = a /\ (Backed(d))' = b
  <2>1. Backed(d) = SumOf(f, Runs)
    BY <1>1, BackedIs
  <2>2. (Backed(d))' = SumOf(WorthOf(d)', Runs)
    BY BackedIsNext
  <2>3. WorthOf(d)' = g
    BY <1>1 DEF WorthOf
  <2>4. QED
    BY <1>4, <2>1, <2>2, <2>3
<1>7. PICK m, n : m = KnownIn(d, h, placed) /\ n = KnownIn(d, h', placed')
  OBVIOUS
<1>8. m \in Nat /\ n \in Nat
  BY <1>7, KnownType
<1>9. Known(d) = m /\ (Known(d))' = n
  BY <1>7 DEF Known, KnownIn, Marks
<1>10. written[d] <= m + a + slips[d]
  BY <1>6, <1>9 DEF Covered
<1>11. written'[d] + slips[d] + m + c <= written[d] + slips'[d] + n
  BY <1>4, <1>7
<1>12. written'[d] <= n + b + slips'[d]
  <2>1. written[d] \in Nat /\ slips[d] \in Nat
    BY DEF TypeOK
  <2>2. a <= b + c
    BY <1>3, <1>4
  <2>3. QED
    BY <1>5, <1>8, <1>10, <1>11, <2>1, <2>2
<1>13. QED
  BY <1>6, <1>9, <1>12 DEF Covered

Fine == TypeOK /\ (\A r \in Runs : RunFine(run[r])) /\ \A d \in Donors : Covered(d)

LEMMA FineIs == BacklinksInv <=> Fine
  BY DEF BacklinksInv, Fine, RunFine, TypeOK

LEMMA PaysKeeps ==
  ASSUME Fine, NEW r \in Runs, Pays(r)
  PROVE  Fine'
<1>1. \A q \in Runs : q # r => run'[q] = run[q]
  BY DEF Pays, Fine, TypeOK
<1>2. \A q \in Runs : RunFine(run'[q])
  BY <1>1 DEF Pays, Fine
<1>3. TypeOK'
  <2>1. run' \in [Runs -> RunRecord]
    BY DEF Pays, Fine, TypeOK, RunFine
  <2>2. QED
    BY <2>1 DEF Pays, Fine, TypeOK
<1>4. ASSUME NEW d \in Donors
      PROVE  (Covered(d))'
  <2>1. PICK x, y, a, b : /\ x = run[r] /\ y = run'[r]
                          /\ a = Worth(x, d, h, placed) /\ b = Worth(y, d, h, placed)
    OBVIOUS
  <2>2. a \in Int /\ b \in Int
    BY <1>2, <2>1, WorthType DEF Fine
  <2>3. PICK k : k = [q \in Runs |-> IF q = r THEN a - b ELSE 0]
    OBVIOUS
  <2>4. SumOf(k, Runs) = a - b
    <3>1. k[r] = a - b /\ k[r] \in Int /\ \A q \in Runs \ {r} : k[q] = 0
      BY <2>2, <2>3
    <3>2. QED
      BY <3>1, SumOne, BacklinksAssumption
  <2>5. ASSUME NEW q \in Runs
        PROVE  k[q] \in Int /\ Worth(run[q], d, h, placed) <= Worth(run'[q], d, h', placed') + k[q]
    <3>1. CASE q = r
      BY <2>1, <2>2, <2>3, <3>1 DEF Pays
    <3>2. CASE q # r
      <4>1. PICK z, c : z = run[q] /\ c = Worth(z, d, h, placed)
        OBVIOUS
      <4>2. c \in Int
        BY <4>1, WorthType DEF Fine
      <4>3. run'[q] = z /\ k[q] = 0 /\ h' = h /\ placed' = placed
        BY <1>1, <2>3, <3>2, <4>1 DEF Pays
      <4>4. QED
        BY <4>1, <4>2, <4>3
    <3>3. QED
      BY <3>1, <3>2
  <2>6. PICK m : m = KnownIn(d, h, placed)
    OBVIOUS
  <2>7. m \in Nat
    BY <2>6, KnownType
  <2>8. KnownIn(d, h', placed') = m
    BY <2>6 DEF Pays
  <2>9. written'[d] + slips[d] + a <= written[d] + slips'[d] + b
    BY <2>1 DEF Pays
  <2>10. written'[d] \in Nat /\ slips'[d] \in Nat /\ written[d] \in Nat /\ slips[d] \in Nat
    BY DEF Pays, Fine, TypeOK
  <2>11. written'[d] + slips[d] + KnownIn(d, h, placed) + SumOf(k, Runs)
           <= written[d] + slips'[d] + KnownIn(d, h', placed')
    BY <2>2, <2>4, <2>6, <2>7, <2>8, <2>9, <2>10
  <2>12. QED
    BY <1>2, <2>5, <2>10, <2>11, CoversNext DEF Fine
<1>5. QED
  BY <1>2, <1>3, <1>4 DEF Fine

LEMMA TakenType ==
  ASSUME NEW q, NEW r, NEW d, RunFine(run[q])
  PROVE  Taken(q, r, d) \in Nat
<1>1. PICK x : x = run[q]
  OBVIOUS
<1>2. NotesAt(x, d) \subseteq x.pending /\ IsFiniteSet(x.pending)
  BY <1>1, RecordFinite DEF NotesAt
<1>3. Cardinality(NotesAt(x, d)) \in Nat
  BY <1>2, FS_Subset, FS_CardinalityType
<1>4. Cardinality(TodoAt(x, d)) \in Nat
  BY <1>1, WorthType
<1>5. QED
  BY <1>1, <1>3, <1>4 DEF Taken

\* A link that becomes known in the table: those that do not know of it are
\* slips.
LEMMA TableKeeps ==
  ASSUME Fine, NEW r \in Runs, SavePlacement(r), run[r].got = "placed", Here(r) \notin placed,
         placed' = placed \cup {Here(r)}, Slip(Here(r), Overtaken(r, Here(r)))
  PROVE  Fine'
<1>1. TypeOK /\ RunFine(run[r])
  BY DEF Fine
<1>2. PICK x : x = run[r]
  OBVIOUS
<1>3. PICK y : /\ RunFine(y) /\ run' = [run EXCEPT ![r] = y] /\ ~BusyAt(y)
               /\ y.phase = "running" /\ x.phase = "running"
               /\ x.todo = y.todo /\ x.pending = y.pending
  BY <1>1, <1>2, SavePlacementLeaves
<1>4. x.step = "save" /\ x.got = "placed" /\ RunFine(x)
  BY <1>1, <1>2 DEF SavePlacement, At
<1>5. PICK e \in Donors : e = Here(r) /\ e = DonorOf[x.row]
  BY <1>2, <1>3, <1>4, HereIn DEF Here
<1>6. run'[r] = y /\ \A q \in Runs : q # r => run'[q] = run[q]
  BY <1>1, <1>3 DEF TypeOK
<1>7. \A q \in Runs : RunFine(run'[q])
  BY <1>3, <1>6 DEF Fine
<1>8. h' = h /\ cooling' = cooling /\ stored' = stored /\ written' = written /\ faults' = faults
  BY DEF SavePlacement
<1>9. \A q \in Runs : Taken(q, r, e) \in Nat
  BY TakenType DEF Fine
<1>10. PICK n : n = Overtaken(r, e)
  OBVIOUS
<1>11. n \in Nat
  <2>1. PICK f, z : f = TakenOf(r, e) /\ z = [q \in Runs |-> 0]
    OBVIOUS
  <2>2. \A q \in Runs : f[q] \in Int /\ z[q] \in Int /\ z[q] <= f[q] /\ z[q] = 0
    <3>1. \A q \in Runs : f[q] = Taken(q, r, e) /\ z[q] = 0
      BY <2>1 DEF TakenOf
    <3>2. QED
      BY <1>9, <3>1
  <2>3. SumOf(z, Runs) = 0 /\ SumOf(z, Runs) <= SumOf(f, Runs) /\ SumOf(f, Runs) \in Int
    BY <2>2, SumZero, SumsCompare, SumType, BacklinksAssumption
  <2>4. n = SumOf(f, Runs)
    BY <1>10, <2>1, OvertakenIs
  <2>5. QED
    BY <2>3, <2>4
<1>12. slips' \in [Donors -> Nat] /\ \A d \in Donors : slips'[d] = slips[d] + (IF d = e THEN n ELSE 0)
  BY <1>1, <1>5, <1>10, <1>11, SlipsOne
<1>13. TypeOK'
  <2>1. run' \in [Runs -> RunRecord]
    BY <1>1, <1>3 DEF TypeOK, RunFine
  <2>2. placed' \subseteq Donors
    BY <1>1, <1>5 DEF TypeOK
  <2>3. QED
    BY <1>1, <1>8, <1>12, <2>1, <2>2 DEF TypeOK
<1>14. ASSUME NEW d \in Donors
       PROVE  (Covered(d))'
  <2>1. PICK m \in Nat : m = HeldAt(x, d)
    BY DEF HeldAt
  <2>2. m = IF d = e THEN 1 ELSE 0
    BY <1>3, <1>4, <1>5, <2>1 DEF HeldAt, HoldsAt, VisitingAt, BusyAt
  <2>3. PICK k : k = [q \in Runs |-> (IF d = e THEN Taken(q, r, e) ELSE 0) + (IF q = r THEN m ELSE 0)]
    OBVIOUS
  <2>4. \A q \in Runs : k[q] = (IF d = e THEN Taken(q, r, e) ELSE 0) + (IF q = r THEN m ELSE 0) /\ k[q] \in Int
    BY <1>9, <2>3
  <2>5. SumOf(k, Runs) = (IF d = e THEN n ELSE 0) + m
    <3>1. PICK f : f = [q \in Runs |-> IF d = e THEN Taken(q, r, e) ELSE 0]
      OBVIOUS
    <3>2. \A q \in Runs : f[q] = (IF d = e THEN Taken(q, r, e) ELSE 0) /\ f[q] \in Int
      BY <1>9, <3>1
    <3>3. SumOf(f, Runs) = IF d = e THEN n ELSE 0
      <4>1. CASE d = e
        <5>1. f = TakenOf(r, e)
          BY <3>1, <4>1 DEF TakenOf
        <5>2. QED
          BY <1>10, <4>1, <5>1, OvertakenIs
      <4>2. CASE d # e
        <5>1. \A q \in Runs : f[q] = 0
          BY <3>2, <4>2
        <5>2. QED
          BY <4>2, <5>1, SumZero, BacklinksAssumption
      <4>3. QED
        BY <4>1, <4>2
    <3>4. SumOf(k, Runs) = SumOf(f, Runs) - f[r] + k[r]
      <4>1. \A q \in Runs \ {r} : k[q] = f[q]
        <5>1. ASSUME NEW q \in Runs \ {r} PROVE k[q] = f[q]
          <6>1. k[q] = f[q] + 0 /\ f[q] \in Int
            BY <2>4, <3>2
          <6>2. QED
            BY <6>1
        <5>2. QED
          BY <5>1
      <4>2. QED
        BY <2>4, <3>2, <4>1, SumChanges, BacklinksAssumption
    <3>5. PICK a, s : a = f[r] /\ s = SumOf(f, Runs)
      OBVIOUS
    <3>6. a \in Int /\ s \in Int /\ k[r] = a + m
      BY <1>11, <2>4, <3>2, <3>3, <3>5
    <3>7. QED
      BY <3>3, <3>4, <3>5, <3>6
  <2>6. ASSUME NEW q \in Runs
        PROVE  Worth(run[q], d, h, placed) <= Worth(run'[q], d, h', placed') + k[q]
    <3>1. PICK z, u : z = run[q] /\ u = run'[q]
      OBVIOUS
    <3>2. RunFine(z) /\ RunFine(u)
      BY <1>7, <3>1 DEF Fine
    <3>3. u.todo = z.todo /\ u.pending = z.pending /\ u.phase = z.phase /\ (VisitingAt(u, d) => VisitingAt(z, d))
          /\ RowsAt(u) \subseteq RowsAt(z)
      <4>1. CASE q = r
        BY <1>2, <1>3, <1>6, <3>1, <4>1 DEF VisitingAt, RowsAt
      <4>2. CASE q # r
        BY <1>6, <3>1, <4>2
      <4>3. QED
        BY <4>1, <4>2
    <3>4. PICK t \in Nat, w \in Nat : t = (IF d = e THEN Taken(q, r, e) ELSE 0) /\ w = (IF q = r THEN m ELSE 0)
      BY <1>9
    <3>5. HandAt(z, d) <= HandAt(u, d) + w
      <4>1. CASE q = r
        <5>1. PICK c : c = Cardinality(Drafts(z, d))
          OBVIOUS
        <5>2. c \in Nat
          BY <3>2, <5>1, WorthType
        <5>3. Drafts(u, d) = Drafts(z, d) /\ HeldAt(u, d) = 0
          BY <1>3, <1>6, <3>1, <3>3, <4>1 DEF Drafts, HeldAt, HoldsAt, VisitingAt
        <5>4. HandAt(z, d) = m + c /\ HandAt(u, d) = 0 + c
          BY <1>2, <2>1, <3>1, <4>1, <5>1, <5>3 DEF HandAt
        <5>5. QED
          BY <3>4, <4>1, <5>2, <5>4
      <4>2. CASE q # r
        <5>1. z = u /\ w = 0 /\ HandAt(z, d) \in Nat
          BY <1>6, <3>1, <3>2, <3>4, <4>2, WorthType
        <5>2. QED
          BY <5>1
      <4>3. QED
        BY <4>1, <4>2
    <3>6. OverAt(u, d, h) <= OverAt(z, d, h)
      <4>1. MarkedAt(u, d, h) \subseteq MarkedAt(z, d, h)
        BY <3>3 DEF MarkedAt
      <4>2. QED
        BY <3>2, <3>3, <4>1, NoMoreOver
    <3>7. DoubleAt(u, d, placed') <= DoubleAt(z, d, placed) + t
      <4>1. CASE d = e
        <5>1. TodoAt(u, d) = TodoAt(z, d)
          BY <3>3 DEF TodoAt
        <5>2. q = r => ~VisitingAt(u, d)
          BY <1>3, <1>6, <3>1 DEF VisitingAt
        <5>3. PICK c : c = Cardinality(TodoAt(z, d))
          OBVIOUS
        <5>4. PICK j : j = IF q = r THEN 0 ELSE Cardinality(NotesAt(z, d))
          OBVIOUS
        <5>5. c \in Nat /\ j \in Nat
          <6>1. NotesAt(z, d) \subseteq z.pending /\ IsFiniteSet(z.pending)
            BY <3>2, RecordFinite DEF NotesAt
          <6>2. Cardinality(NotesAt(z, d)) \in Nat
            BY <6>1, FS_Subset, FS_CardinalityType
          <6>3. QED
            BY <3>2, <5>3, <5>4, <6>2, WorthType
        <5>6. PICK v \in Nat : v = IF VisitingAt(u, d) THEN 1 ELSE 0
          OBVIOUS
        <5>7. u.phase \in {"checked", "queued", "running"} => t >= c + v
          <6>1. SUFFICES ASSUME u.phase \in {"checked", "queued", "running"} PROVE t >= c + v
            OBVIOUS
          <6>2. z.phase \in Playing
            BY <3>3, <6>1 DEF Playing
          <6>3. PICK i \in Nat : i = IF q # r /\ VisitingAt(z, d) THEN 1 ELSE 0
            OBVIOUS
          <6>4. t = c + i + j
            BY <3>1, <3>4, <4>1, <5>3, <5>4, <6>2, <6>3 DEF Taken
          <6>5. v <= i
            BY <3>3, <5>2, <5>6, <6>3
          <6>6. QED
            BY <5>5, <6>4, <6>5
        <5>8. DoubleAt(u, d, placed') = (IF u.phase \in {"checked", "queued", "running"} THEN c + v ELSE 0)
          BY <1>5, <4>1, <5>1, <5>3, <5>6 DEF DoubleAt
        <5>9. DoubleAt(z, d, placed) \in Nat
          BY <3>2, WorthType
        <5>10. QED
          BY <5>5, <5>7, <5>8, <5>9
      <4>2. CASE d # e
        <5>1. DoubleAt(u, d, placed) <= DoubleAt(z, d, placed)
          BY <3>2, <3>3, NoMoreDouble
        <5>2. DoubleAt(u, d, placed') = DoubleAt(u, d, placed)
          BY <1>5, <4>2 DEF DoubleAt
        <5>3. DoubleAt(u, d, placed) \in Nat /\ DoubleAt(z, d, placed) \in Nat
          BY <3>2, WorthType
        <5>4. QED
          BY <3>4, <5>1, <5>2, <5>3
      <4>3. QED
        BY <4>1, <4>2
    <3>8. k[q] = t + w
      BY <2>4, <3>4
    <3>9. PICK a, b, c, i, f, g : /\ a = HandAt(z, d) /\ b = HandAt(u, d)
                                  /\ c = DoubleAt(z, d, placed) /\ i = DoubleAt(u, d, placed')
                                  /\ f = OverAt(z, d, h) /\ g = OverAt(u, d, h)
      OBVIOUS
    <3>10. a \in Nat /\ b \in Nat /\ c \in Nat /\ i \in Nat /\ f \in Nat /\ g \in Nat
      BY <3>2, <3>9, WorthType
    <3>11. a - c - f <= b - i - g + (t + w)
      BY <3>4, <3>5, <3>6, <3>7, <3>9, <3>10
    <3>12. Worth(z, d, h, placed) = a - c - f /\ Worth(u, d, h', placed') = b - i - g
      BY <1>8, <3>9 DEF Worth
    <3>13. QED
      BY <3>1, <3>8, <3>11, <3>12
  <2>7. KnownIn(d, h', placed') = KnownIn(d, h, placed) + m
    <3>1. PICK c : c = Cardinality(Marks(d, h))
      OBVIOUS
    <3>2. c \in Nat
      BY <3>1, KnownType
    <3>3. (d \in placed' <=> d \in placed \/ d = e) /\ e \notin placed
      BY <1>5
    <3>4. QED
      BY <1>8, <2>2, <3>1, <3>2, <3>3 DEF KnownIn
  <2>8. PICK a, i : a = KnownIn(d, h, placed) /\ i = IF d = e THEN n ELSE 0
    OBVIOUS
  <2>9. a \in Nat /\ i \in Nat /\ slips'[d] = slips[d] + i /\ written'[d] = written[d]
        /\ slips[d] \in Nat /\ written[d] \in Nat
    BY <1>1, <1>8, <1>11, <1>12, <2>8, KnownType DEF TypeOK
  <2>10. written'[d] + slips[d] + KnownIn(d, h, placed) + SumOf(k, Runs)
           <= written[d] + slips'[d] + KnownIn(d, h', placed')
    BY <2>1, <2>5, <2>7, <2>8, <2>9
  <2>11. written'[d] \in Nat /\ slips'[d] \in Nat
    BY <2>9
  <2>12. QED
    BY <1>7, <2>4, <2>6, <2>10, <2>11, CoversNext DEF Fine
<1>15. QED
  BY <1>7, <1>13, <1>14 DEF Fine

LEMMA SavePlacementKeeps ==
  ASSUME Fine, NEW r \in Runs, SavePlacement(r)
  PROVE  Fine'
<1>1. TypeOK /\ RunFine(run[r])
  BY DEF Fine
<1>2. PICK x : x = run[r]
  OBVIOUS
<1>3. PICK e \in Donors : e = Here(r) /\ e = DonorOf[x.row]
  <2>1. x.phase = "running" /\ x.step = "save"
    BY <1>2 DEF SavePlacement, At
  <2>2. QED
    BY <1>1, <1>2, <2>1, HereIn DEF Here
<1>4. \A d \in Donors : HeldAt(x, d) \in Nat /\ HeldAt(x, d) <= IF d = e THEN 1 ELSE 0
  BY <1>3 DEF HeldAt, HoldsAt, VisitingAt
<1>5. CASE x.got # "placed"
  <2>1. slips' = slips /\ placed' = placed
    BY <1>2, <1>5 DEF SavePlacement
  <2>2. x.step = "save"
    BY <1>2 DEF SavePlacement, At
  <2>3. \A d \in Donors : HeldAt(x, d) = 0
    BY <1>5, <2>2 DEF HeldAt, HoldsAt, LiveSteps
  <2>4. \A d \in Donors : slips[d] + HeldAt(x, d) <= slips'[d]
    BY <1>1, <2>1, <2>3 DEF TypeOK
  <2>5. Pays(r)
    BY <1>1, <1>2, <2>1, <2>4, SavePlacementPays DEF TypeOK
  <2>6. QED
    BY <2>5, PaysKeeps
<1>6. CASE Slip(e, 1) /\ placed' = placed
  <2>1. slips' \in [Donors -> Nat] /\ \A d \in Donors : slips'[d] = slips[d] + (IF d = e THEN 1 ELSE 0)
    BY <1>1, <1>6, SlipsOne
  <2>2. \A d \in Donors : slips[d] + HeldAt(x, d) <= slips'[d]
    BY <1>1, <1>4, <2>1 DEF TypeOK
  <2>3. Pays(r)
    BY <1>1, <1>2, <1>6, <2>1, <2>2, SavePlacementPays
  <2>4. QED
    BY <2>3, PaysKeeps
<1>7. CASE x.got = "placed" /\ placed' = placed \cup {e} /\ Slip(e, IF e \in placed THEN 0 ELSE Overtaken(r, e))
  <2>1. CASE e \notin placed
    <3>1. run[r].got = "placed" /\ Here(r) \notin placed /\ placed' = placed \cup {Here(r)}
          /\ Slip(Here(r), Overtaken(r, Here(r)))
      BY <1>2, <1>3, <1>7, <2>1
    <3>2. QED
      BY <3>1, TableKeeps
  <2>2. CASE e \in placed
    <3>1. UNCHANGED <<cooling, stored, written, h>> /\ placed' = placed
      BY <1>7, <2>2 DEF SavePlacement
    <3>2. PICK y : /\ RunFine(y) /\ run' = [run EXCEPT ![r] = y] /\ ~BusyAt(y)
                   /\ y.phase = "running" /\ x.phase = "running"
                   /\ x.todo = y.todo /\ x.pending = y.pending
      BY <1>1, <1>2, SavePlacementLeaves
    <3>3. slips' \in [Donors -> Nat] /\ \A d \in Donors : slips'[d] = slips[d]
      <4>1. slips' \in [Donors -> Nat] /\ \A d \in Donors : slips'[d] = slips[d] + (IF d = e THEN 0 ELSE 0)
        BY <1>1, <1>7, <2>2, SlipsOne
      <4>2. QED
        BY <1>1, <4>1 DEF TypeOK
    <3>4. x.step = "save"
      BY <1>2 DEF SavePlacement, At
    <3>5. ASSUME NEW d \in Donors
          PROVE  /\ Worth(x, d, h, placed) <= Worth(y, d, h, placed)
                 /\ Worth(x, d, h, placed) \in Int /\ Worth(y, d, h, placed) \in Int
      <4>1. BusyAt(x) /\ ~VisitingAt(y, d)
        BY <3>2, <3>4 DEF BusyAt, VisitingAt
      <4>2. PICK c : c = Cardinality(Drafts(x, d))
        OBVIOUS
      <4>3. PICK i : i = Cardinality(TodoAt(x, d))
        OBVIOUS
      <4>4. c \in Nat /\ i \in Nat
        BY <1>1, <1>2, <4>2, <4>3, WorthType
      <4>5. PICK v \in {0, 1} : v = IF d = e THEN 1 ELSE 0
        OBVIOUS
      <4>6. HeldAt(x, d) = v /\ (VisitingAt(x, d) <=> d = e)
        BY <1>3, <1>7, <3>4, <4>1, <4>5 DEF HeldAt, HoldsAt, VisitingAt
      <4>7. HandAt(x, d) = v + c
        BY <4>2, <4>6 DEF HandAt
      <4>8. HandAt(y, d) = c
        <5>1. Drafts(y, d) = Drafts(x, d) /\ HeldAt(y, d) = 0
          BY <3>2, <4>1 DEF Drafts, HeldAt, HoldsAt
        <5>2. QED
          BY <4>2, <4>4, <5>1 DEF HandAt
      <4>9. DoubleAt(x, d, placed) = (IF d \in placed THEN i + v ELSE 0)
        BY <3>2, <4>3, <4>5, <4>6 DEF DoubleAt
      <4>10. DoubleAt(y, d, placed) = (IF d \in placed THEN i ELSE 0)
        <5>1. TodoAt(y, d) = TodoAt(x, d)
          BY <3>2 DEF TodoAt
        <5>2. QED
          BY <3>2, <4>1, <4>3, <4>4, <5>1 DEF DoubleAt
      <4>11. OverAt(y, d, h) <= OverAt(x, d, h)
        <5>1. RowsAt(y) \subseteq RowsAt(x)
          BY <3>2 DEF RowsAt
        <5>2. MarkedAt(y, d, h) \subseteq MarkedAt(x, d, h) /\ x.phase \in Playing
          BY <3>2, <5>1 DEF MarkedAt, Playing
        <5>3. QED
          BY <1>1, <1>2, <3>2, <5>2, NoMoreOver
      <4>12. PICK f, g : f = OverAt(x, d, h) /\ g = OverAt(y, d, h)
        OBVIOUS
      <4>13. f \in Nat /\ g \in Nat /\ g <= f
        BY <1>1, <1>2, <3>2, <4>11, <4>12, WorthType
      <4>14. PICK a, b : a = DoubleAt(x, d, placed) /\ b = DoubleAt(y, d, placed)
        OBVIOUS
      <4>15. a \in Nat /\ b \in Nat /\ a >= b /\ a - b >= v
        BY <2>2, <4>4, <4>5, <4>9, <4>10, <4>14
      <4>16. Worth(x, d, h, placed) = (v + c) - a - f /\ Worth(y, d, h, placed) = c - b - g
        BY <4>7, <4>8, <4>12, <4>14 DEF Worth
      <4>17. QED
        BY <4>4, <4>13, <4>15, <4>16
    <3>6. Pays(r)
      <4>1. ASSUME NEW d \in Donors
            PROVE  slips[d] + Worth(run[r], d, h, placed) <= slips'[d] + Worth(y, d, h, placed)
        <5>1. PICK a, b : a = Worth(x, d, h, placed) /\ b = Worth(y, d, h, placed)
          OBVIOUS
        <5>2. a \in Int /\ b \in Int /\ a <= b
          BY <3>5, <5>1
        <5>3. slips'[d] = slips[d] /\ slips[d] \in Nat
          BY <1>1, <3>3 DEF TypeOK
        <5>4. QED
          BY <1>2, <5>1, <5>2, <5>3
      <4>2. faults' \in Nat /\ written' = written
        BY <1>1 DEF SavePlacement, TypeOK
      <4>3. QED
        BY <1>1, <3>1, <3>2, <3>3, <4>1, <4>2, KeptPays DEF TypeOK
    <3>7. QED
      BY <3>6, PaysKeeps
  <2>3. QED
    BY <2>1, <2>2
<1>8. QED
  BY <1>2, <1>3, <1>5, <1>6, <1>7 DEF SavePlacement

\* A draft the operator clears from the sheet is a slip.
LEMMA ClearCellKeeps ==
  ASSUME Fine, NEW w \in Rows, ClearCell(w)
  PROVE  Fine'
<1>1. TypeOK
  BY DEF Fine
<1>2. PICK e \in Donors : e = DonorOf[w]
  BY BacklinksAssumption
<1>3. PICK n \in {0, 1} : n = IF h[w] = "pending" THEN 1 ELSE 0
  OBVIOUS
<1>4. h' = [h EXCEPT ![w] = ""] /\ Slip(e, n) /\ n \in Nat
      /\ UNCHANGED <<placed, cooling, stored, run, written>>
  BY <1>2, <1>3 DEF ClearCell
<1>5. slips' \in [Donors -> Nat] /\ \A d \in Donors : slips'[d] = slips[d] + (IF d = e THEN n ELSE 0)
  BY <1>1, <1>4, SlipsOne
<1>6. h' \in [Rows -> Cells] /\ \A v \in Rows : h'[v] = IF v = w THEN "" ELSE h[v]
  BY <1>1, <1>4 DEF TypeOK, Cells
<1>7. TypeOK'
  <2>1. faults' \in Nat
    <3>1. Fault
      BY DEF ClearCell
    <3>2. QED
      BY <1>1, <3>1 DEF Fault, TypeOK
  <2>2. QED
    BY <1>1, <1>4, <1>5, <1>6, <2>1 DEF TypeOK
<1>8. \A r \in Runs : RunFine(run'[r])
  BY <1>4 DEF Fine
<1>9. ASSUME NEW d \in Donors
      PROVE  (Covered(d))'
  <2>1. PICK k : k = [r \in Runs |-> 0]
    OBVIOUS
  <2>2. SumOf(k, Runs) = 0 /\ \A r \in Runs : k[r] = 0
    BY <2>1, SumZero, BacklinksAssumption
  <2>3. ASSUME NEW r \in Runs
        PROVE  Worth(run[r], d, h, placed) <= Worth(run'[r], d, h', placed') + k[r]
    <3>1. PICK x : x = run[r]
      OBVIOUS
    <3>2. RunFine(x) /\ RowsAt(x) \subseteq Rows
      BY <3>1, RecordFinite DEF Fine
    <3>3. MarkedAt(x, d, h') \subseteq MarkedAt(x, d, h)
      BY <1>6, <3>2 DEF MarkedAt
    <3>4. Cardinality(MarkedAt(x, d, h')) <= Cardinality(MarkedAt(x, d, h))
      BY <3>2, <3>3, WorthType, FS_Subset
    <3>5. OverAt(x, d, h') <= OverAt(x, d, h)
      BY <3>4 DEF OverAt
    <3>6. PICK a, b, f, g : /\ a = HandAt(x, d) /\ b = DoubleAt(x, d, placed)
                            /\ f = OverAt(x, d, h) /\ g = OverAt(x, d, h')
      OBVIOUS
    <3>7. a \in Nat /\ b \in Nat /\ f \in Nat /\ g \in Nat /\ g <= f
      BY <3>2, <3>5, <3>6, WorthType
    <3>8. Worth(x, d, h, placed) = a - b - f /\ Worth(x, d, h', placed') = a - b - g
      BY <1>4, <3>6 DEF Worth
    <3>9. run'[r] = x /\ k[r] = 0
      BY <1>4, <2>2, <3>1
    <3>10. a - b - f <= a - b - g + 0
      BY <3>7
    <3>11. QED
      BY <3>1, <3>8, <3>9, <3>10
  <2>4. PICK m \in Nat : m = IF d \in placed THEN 1 ELSE 0
    OBVIOUS
  <2>5. PICK a, b, i : a = Cardinality(Marks(d, h)) /\ b = Cardinality(Marks(d, h')) /\ i = IF d = e THEN n ELSE 0
    OBVIOUS
  <2>6. a \in Nat /\ b \in Nat /\ i \in Nat /\ a <= b + i
    <3>1. a \in Nat /\ b \in Nat /\ i \in Nat /\ IsFiniteSet(Marks(d, h))
      BY <1>4, <2>5, KnownType
    <3>2. CASE w \in Marks(d, h)
      <4>1. Marks(d, h') = Marks(d, h) \ {w}
        BY <1>6 DEF Marks
      <4>2. b = a - 1
        BY <2>5, <3>1, <3>2, <4>1, FS_RemoveElement
      <4>3. i = 1
        BY <1>2, <1>3, <2>5, <3>2 DEF Marks
      <4>4. QED
        BY <3>1, <4>2, <4>3
    <3>3. CASE w \notin Marks(d, h)
      <4>1. Marks(d, h') = Marks(d, h)
        BY <1>6, <3>3 DEF Marks
      <4>2. QED
        BY <2>5, <3>1, <4>1
    <3>4. QED
      BY <3>2, <3>3
  <2>7. KnownIn(d, h, placed) = m + a /\ KnownIn(d, h', placed') = m + b
    BY <1>4, <2>4, <2>5 DEF KnownIn
  <2>8. slips'[d] = slips[d] + i /\ slips[d] \in Nat /\ written'[d] = written[d] /\ written[d] \in Nat
    BY <1>1, <1>4, <1>5, <2>5 DEF TypeOK
  <2>9. written'[d] + slips[d] + KnownIn(d, h, placed) + SumOf(k, Runs)
          <= written[d] + slips'[d] + KnownIn(d, h', placed')
    BY <2>2, <2>4, <2>6, <2>7, <2>8
  <2>10. written'[d] \in Nat /\ slips'[d] \in Nat
    BY <2>6, <2>8
  <2>11. QED
    BY <1>8, <2>2, <2>3, <2>9, <2>10, CoversNext DEF Fine
<1>10. QED
  BY <1>7, <1>8, <1>9 DEF Fine

\* What the process had in hand is a slip.
LEMMA CrashKeeps ==
  ASSUME Fine, Crash
  PROVE  Fine'
<1>1. TypeOK
  BY DEF Fine
<1>2. PICK dead : dead = [Fresh EXCEPT !.phase = "dead"]
  OBVIOUS
<1>3. RunFine(dead) /\ dead.phase \notin Playing
  BY <1>2, FreshFine DEF Fresh, Playing
<1>4. \A r \in Runs : run'[r] = (IF run[r].phase \in Playing THEN dead ELSE run[r])
  BY <1>2 DEF Crash, InPlay, Playing
<1>5. \A r \in Runs : RunFine(run'[r]) /\ run'[r].phase \notin Playing
  BY <1>3, <1>4 DEF Fine
<1>6. h' = h /\ placed' = placed /\ cooling' = cooling /\ stored' = stored /\ written' = written
  BY DEF Crash, stores
<1>7. ASSUME NEW d \in Donors
      PROVE  /\ InHand(d) \in Nat
             /\ slips'[d] = slips[d] + InHand(d)
             /\ InHand(d) = SumOf(HandsOf(d), Runs)
             /\ \A r \in Runs : HandsOf(d)[r] = HandAt(run[r], d) /\ HandsOf(d)[r] \in Nat
  <2>1. PICK f, z : f = HandsOf(d) /\ z = [r \in Runs |-> 0]
    OBVIOUS
  <2>2. ASSUME NEW r \in Runs
        PROVE  f[r] = HandAt(run[r], d) /\ f[r] \in Nat /\ z[r] = 0 /\ z[r] <= f[r]
    <3>1. PICK x : x = run[r]
      OBVIOUS
    <3>2. HandAt(x, d) \in Nat
      BY <3>1, WorthType DEF Fine
    <3>3. f[r] = HandAt(x, d) /\ z[r] = 0
      BY <2>1, <3>1 DEF HandsOf
    <3>4. QED
      BY <3>1, <3>2, <3>3
  <2>3. SumOf(z, Runs) = 0 /\ SumOf(z, Runs) <= SumOf(f, Runs) /\ SumOf(f, Runs) \in Int
    BY <2>2, SumZero, SumsCompare, SumType, BacklinksAssumption
  <2>4. InHand(d) = SumOf(f, Runs)
    BY <2>1, InHandIs
  <2>5. InHand(d) \in Nat
    BY <2>3, <2>4
  <2>6. slips'[d] = slips[d] + InHand(d)
    BY DEF Crash
  <2>7. QED
    BY <2>1, <2>2, <2>4, <2>5, <2>6
<1>8. TypeOK'
  <2>1. run' \in [Runs -> RunRecord]
    <3>1. run' = [r \in Runs |-> run'[r]]
      BY DEF Crash
    <3>2. \A r \in Runs : run'[r] \in RunRecord
      BY <1>5 DEF RunFine
    <3>3. QED
      BY <3>1, <3>2
  <2>2. slips' \in [Donors -> Nat]
    <3>1. slips' = [d \in Donors |-> slips'[d]]
      BY DEF Crash
    <3>2. \A d \in Donors : slips'[d] \in Nat
      BY <1>1, <1>7 DEF TypeOK
    <3>3. QED
      BY <3>1, <3>2
  <2>3. faults' \in Nat
    BY <1>1 DEF Crash, Fault, TypeOK
  <2>4. QED
    BY <1>1, <1>6, <2>1, <2>2, <2>3 DEF TypeOK
<1>9. ASSUME NEW d \in Donors
      PROVE  (Covered(d))'
  <2>1. PICK k : k = HandsOf(d)
    OBVIOUS
  <2>2. PICK n \in Nat : n = InHand(d)
    BY <1>7
  <2>3. SumOf(k, Runs) = n /\ (\A r \in Runs : k[r] = HandAt(run[r], d) /\ k[r] \in Int) /\ slips'[d] = slips[d] + n
    BY <1>7, <2>1, <2>2
  <2>4. ASSUME NEW r \in Runs
        PROVE  Worth(run[r], d, h, placed) <= Worth(run'[r], d, h', placed') + k[r]
    <3>1. PICK x, y : x = run[r] /\ y = run'[r]
      OBVIOUS
    <3>2. Worth(y, d, h', placed') = 0
      BY <1>5, <3>1, IdleWorth
    <3>3. PICK a, b, c : a = HandAt(x, d) /\ b = DoubleAt(x, d, placed) /\ c = OverAt(x, d, h)
      OBVIOUS
    <3>4. a \in Nat /\ b \in Nat /\ c \in Nat
      BY <3>1, <3>3, WorthType DEF Fine
    <3>5. Worth(x, d, h, placed) = a - b - c
      BY <3>3 DEF Worth
    <3>6. QED
      BY <2>3, <3>1, <3>2, <3>3, <3>4, <3>5
  <2>5. PICK m : m = KnownIn(d, h, placed)
    OBVIOUS
  <2>6. m \in Nat /\ KnownIn(d, h', placed') = m
    BY <1>6, <2>5, KnownType
  <2>7. slips[d] \in Nat /\ written'[d] = written[d] /\ written[d] \in Nat
    BY <1>1, <1>6 DEF TypeOK
  <2>8. written'[d] + slips[d] + KnownIn(d, h, placed) + SumOf(k, Runs)
          <= written[d] + slips'[d] + KnownIn(d, h', placed')
    BY <2>2, <2>3, <2>5, <2>6, <2>7
  <2>9. written'[d] \in Nat /\ slips'[d] \in Nat
    BY <2>3, <2>7
  <2>10. QED
    BY <1>5, <2>3, <2>4, <2>8, <2>9, CoversNext DEF Fine
<1>10. QED
  BY <1>5, <1>8, <1>9 DEF Fine

\* The rows of some results are no more than the results, and as many when no
\* row has two.
LEMMA RowsCount ==
  ASSUME NEW P, IsFiniteSet(P)
  PROVE  /\ IsFiniteSet(RowsOf(P)) /\ Cardinality(RowsOf(P)) <= Cardinality(P)
         /\ (\A p, q \in P : p[1] = q[1] => p = q) => Cardinality(RowsOf(P)) = Cardinality(P)
<1>1. PICK f : f = [p \in P |-> p[1]]
  OBVIOUS
<1>2. f \in Surjection(P, RowsOf(P))
  BY <1>1 DEF Surjection, RowsOf
<1>3. (\A p, q \in P : p[1] = q[1] => p = q) => f \in Injection(P, RowsOf(P))
  BY <1>1, <1>2 DEF Injection, IsInjective, Surjection
<1>4. QED
  BY <1>2, <1>3, FS_Surjection

\* WritePlacementStatus writes "pending" for the drafts and for nothing else.
LEMMA PendingWritten ==
  ASSUME NEW x, RunFine(x), NEW w \in RowsOf(x.pending)
  PROVE  ShortStatus(CHOOSE o \in Outcomes : <<w, o>> \in x.pending) = "pending" <=> <<w, "pending">> \in x.pending
<1>1. PICK p \in x.pending : p[1] = w
  BY DEF RowsOf
<1>2. p \in Results
  BY RecordFinite
<1>3. PICK u \in Outcomes : p = <<w, u>>
  BY <1>1, <1>2 DEF Results
<1>4. PICK v : v = CHOOSE o \in Outcomes : <<w, o>> \in x.pending
  OBVIOUS
<1>5. v \in Outcomes /\ <<w, v>> \in x.pending
  BY <1>3, <1>4
<1>6. \A o : <<w, o>> \in x.pending => o = v
  <2>1. ASSUME NEW o, <<w, o>> \in x.pending
        PROVE  o = v
    <3>1. PICK p1, p2 : p1 = <<w, o>> /\ p2 = <<w, v>>
      OBVIOUS
    <3>2. p1 \in x.pending /\ p2 \in x.pending /\ p1[1] = p2[1] /\ p1[2] = o /\ p2[2] = v
      BY <1>5, <2>1, <3>1
    <3>3. p1 = p2
      BY <3>2 DEF RunFine, RunOK
    <3>4. QED
      BY <3>2, <3>3
  <2>2. QED
    BY <2>1
<1>7. ShortStatus(v) = "pending" <=> v = "pending"
  BY DEF ShortStatus
<1>8. QED
  BY <1>4, <1>5, <1>6, <1>7

\* The rows of a donor a run has in hand.
LEMMA RowsTaken ==
  ASSUME NEW q, NEW r, q # r, RunFine(run[q]), run[q].phase \in Playing, NEW d, NEW R, R \subseteq RowsAt(run[q]),
         \A w \in R : DonorOf[w] = d
  PROVE  IsFiniteSet(R) /\ Cardinality(R) <= Taken(q, r, d)
<1>1. PICK x : x = run[q]
  OBVIOUS
<1>2. RunFine(x) /\ IsFiniteSet(RowsAt(x)) /\ IsFiniteSet(x.pending)
  BY <1>1, RecordFinite
<1>3. IsFiniteSet(R)
  BY <1>1, <1>2, FS_Subset
<1>4. PICK A, B, C : /\ A = TodoAt(x, d) /\ B = RowsOf(NotesAt(x, d))
                     /\ C = (IF VisitingAt(x, d) THEN {x.row} ELSE {})
  OBVIOUS
<1>5. PICK v \in {0, 1} : v = IF VisitingAt(x, d) THEN 1 ELSE 0
  OBVIOUS
<1>6. IsFiniteSet(C) /\ Cardinality(C) = v
  BY <1>4, <1>5, FS_Singleton, FS_EmptySet
<1>7. IsFiniteSet(A) /\ Cardinality(A) \in Nat
  BY <1>2, <1>4, WorthType
<1>8. PICK n : n = Cardinality(NotesAt(x, d))
  OBVIOUS
<1>9. IsFiniteSet(NotesAt(x, d)) /\ n \in Nat
  <2>1. NotesAt(x, d) \subseteq x.pending
    BY DEF NotesAt
  <2>2. QED
    BY <1>2, <1>8, <2>1, FS_Subset, FS_CardinalityType
<1>10. IsFiniteSet(B) /\ Cardinality(B) <= n /\ Cardinality(B) \in Nat
  BY <1>4, <1>8, <1>9, RowsCount, FS_CardinalityType
<1>11. R \subseteq (A \cup B) \cup C
  <2>1. ASSUME NEW w \in R
        PROVE  w \in (A \cup B) \cup C
    <3>1. w \in RowsAt(x) /\ DonorOf[w] = d
      BY <1>1
    <3>2. CASE w \in x.todo
      BY <1>4, <3>1, <3>2 DEF TodoAt
    <3>3. CASE w \in RowsOf(x.pending)
      <4>1. PICK p \in x.pending : p[1] = w
        BY <3>3 DEF RowsOf
      <4>2. p \in NotesAt(x, d)
        BY <3>1, <4>1 DEF NotesAt
      <4>3. w \in B
        BY <1>4, <4>1, <4>2 DEF RowsOf
      <4>4. QED
        BY <4>3
    <3>4. CASE BusyAt(x) /\ w = x.row
      BY <1>4, <3>1, <3>4 DEF VisitingAt
    <3>5. QED
      BY <3>1, <3>2, <3>3, <3>4 DEF RowsAt
  <2>2. QED
    BY <2>1
<1>12. IsFiniteSet(A \cup B) /\ Cardinality(A \cup B) <= Cardinality(A) + Cardinality(B) /\ Cardinality(A \cup B) \in Nat
  <2>1. IsFiniteSet(A \cup B) /\ Cardinality(A \cup B) = Cardinality(A) + Cardinality(B) - Cardinality(A \cap B)
    BY <1>7, <1>10, FS_Union
  <2>2. Cardinality(A \cap B) \in Nat /\ Cardinality(A \cup B) \in Nat
    BY <1>7, <2>1, FS_Intersection, FS_CardinalityType
  <2>3. QED
    BY <1>7, <1>10, <2>1, <2>2
<1>13. PICK D : D = A \cup B
  OBVIOUS
<1>14. IsFiniteSet(D \cup C) /\ Cardinality(D \cup C) <= Cardinality(D) + v /\ Cardinality(D \cup C) \in Nat
  <2>1. IsFiniteSet(D \cup C) /\ Cardinality(D \cup C) = Cardinality(D) + Cardinality(C) - Cardinality(D \cap C)
    BY <1>6, <1>12, <1>13, FS_Union
  <2>2. Cardinality(D \cap C) \in Nat /\ Cardinality(D \cup C) \in Nat
    BY <1>12, <1>13, <2>1, FS_Intersection, FS_CardinalityType
  <2>3. QED
    BY <1>6, <1>12, <1>13, <2>1, <2>2
<1>15. Cardinality(R) <= Cardinality(D \cup C) /\ Cardinality(R) \in Nat
  BY <1>3, <1>11, <1>13, <1>14, FS_Subset, FS_CardinalityType
<1>16. PICK a, b, c, e, g : /\ a = Cardinality(A) /\ b = Cardinality(B) /\ c = Cardinality(D)
                            /\ e = Cardinality(D \cup C) /\ g = Cardinality(R)
  OBVIOUS
<1>17. g <= a + v + n
  BY <1>7, <1>9, <1>10, <1>12, <1>13, <1>14, <1>15, <1>16
<1>18. Taken(q, r, d) = a + v + n
  BY <1>1, <1>4, <1>5, <1>8, <1>16 DEF Taken
<1>19. QED
  BY <1>3, <1>16, <1>17, <1>18

\* A write of the sheet, by a run that then has nothing to write.
LEMMA SheetKeeps ==
  ASSUME Fine, NEW r \in Runs, run[r].phase = "running", run[r].step \in {"flush", "end"},
         WritePlacementStatus(r), NEW y, RunFine(y), run' = [run EXCEPT ![r] = y],
         \/ y.phase \notin Playing
         \/ y.phase = "running" /\ ~BusyAt(y) /\ y.todo = run[r].todo /\ y.pending = {},
         placed' = placed, cooling' = cooling, stored' = stored, written' = written, faults' \in Nat
  PROVE  Fine'
<1>1. TypeOK
  BY DEF Fine
<1>2. PICK x : x = run[r]
  OBVIOUS
<1>3. RunFine(x) /\ x.phase = "running" /\ x.step \in {"flush", "end"}
  BY <1>2 DEF Fine
<1>4. run'[r] = y /\ \A q \in Runs : q # r => run'[q] = run[q]
  BY <1>1 DEF TypeOK
<1>5. \A q \in Runs : RunFine(run'[q])
  BY <1>4 DEF Fine
<1>6. PICK P : P = RowsOf(x.pending)
  OBVIOUS
<1>7. P \subseteq Rows /\ P \cap x.todo = {} /\ x.todo \subseteq Rows
  BY <1>3, <1>6, RecordFinite DEF RunFine, RunOK
<1>8. ASSUME NEW w \in Rows
      PROVE  /\ h'[w] \in Cells
             /\ w \notin P => h'[w] = h[w]
             /\ w \in P => (h'[w] = "pending" <=> <<w, "pending">> \in x.pending)
  <2>1. CASE w \notin P
    <3>1. h'[w] = h[w]
      BY <1>2, <1>6, <2>1 DEF WritePlacementStatus
    <3>2. QED
      BY <1>1, <2>1, <3>1 DEF TypeOK
  <2>2. CASE w \in P
    <3>1. h'[w] = ShortStatus(CHOOSE o \in Outcomes : <<w, o>> \in x.pending)
      BY <1>2, <1>6, <2>2 DEF WritePlacementStatus
    <3>2. h'[w] \in Cells
      BY <3>1 DEF ShortStatus, Cells
    <3>3. h'[w] = "pending" <=> <<w, "pending">> \in x.pending
      BY <1>3, <1>6, <2>2, <3>1, PendingWritten
    <3>4. QED
      BY <2>2, <3>2, <3>3
  <2>3. QED
    BY <2>1, <2>2
<1>9. h' \in [Rows -> Cells]
  <2>1. h' = [w \in Rows |-> h'[w]]
    BY DEF WritePlacementStatus
  <2>2. QED
    BY <1>8, <2>1
<1>10. \A q \in Runs, d \in Donors : Taken(q, r, d) \in Nat
  BY TakenType DEF Fine
<1>11. ASSUME NEW d \in Donors
       PROVE  /\ Overtaken(r, d) \in Nat /\ Overtaken(r, d) = SumOf(TakenOf(r, d), Runs)
              /\ slips'[d] = slips[d] + (IF Drafts(x, d) = {} THEN 0 ELSE Overtaken(r, d))
  <2>1. PICK f, z : f = TakenOf(r, d) /\ z = [q \in Runs |-> 0]
    OBVIOUS
  <2>2. \A q \in Runs : f[q] \in Int /\ z[q] \in Int /\ z[q] <= f[q] /\ z[q] = 0
    <3>1. \A q \in Runs : f[q] = Taken(q, r, d) /\ z[q] = 0
      BY <2>1 DEF TakenOf
    <3>2. QED
      BY <1>10, <3>1
  <2>3. SumOf(z, Runs) = 0 /\ SumOf(z, Runs) <= SumOf(f, Runs) /\ SumOf(f, Runs) \in Int
    BY <2>2, SumZero, SumsCompare, SumType, BacklinksAssumption
  <2>4. Overtaken(r, d) = SumOf(f, Runs)
    BY <2>1, OvertakenIs
  <2>5. Overtaken(r, d) \in Nat
    BY <2>3, <2>4
  <2>6. slips'[d] = slips[d] + (IF Drafts(x, d) = {} THEN 0 ELSE Overtaken(r, d))
    BY <1>2, DraftsAre DEF WritePlacementStatus
  <2>7. QED
    BY <2>1, <2>4, <2>5, <2>6
<1>12. slips' \in [Donors -> Nat]
  <2>1. slips' = [d \in Donors |-> slips'[d]]
    BY DEF WritePlacementStatus
  <2>2. \A d \in Donors : slips'[d] \in Nat
    BY <1>1, <1>11 DEF TypeOK
  <2>3. QED
    BY <2>1, <2>2
<1>13. TypeOK'
  <2>1. run' \in [Runs -> RunRecord]
    BY <1>1 DEF TypeOK, RunFine
  <2>2. QED
    BY <1>1, <1>9, <1>12, <2>1 DEF TypeOK
<1>14. ASSUME NEW d \in Donors
       PROVE  (Covered(d))'
  <2>1. PICK U, V, O : /\ U = Drafts(x, d) /\ V = RowsOf(U)
                       /\ O = {w \in P : DonorOf[w] = d /\ h[w] = "pending"}
    OBVIOUS
  <2>2. PICK u, o : u = Cardinality(U) /\ o = Cardinality(O)
    OBVIOUS
  <2>3. IsFiniteSet(U) /\ u \in Nat /\ IsFiniteSet(V) /\ Cardinality(V) = u /\ IsFiniteSet(O) /\ o \in Nat
    <3>1. IsFiniteSet(U) /\ u \in Nat
      BY <1>3, <2>1, <2>2, WorthType
    <3>2. \A p, q \in U : p[1] = q[1] => p = q
      BY <1>3, <2>1 DEF Drafts, RunFine, RunOK
    <3>3. IsFiniteSet(V) /\ Cardinality(V) = u
      BY <2>1, <2>2, <3>1, <3>2, RowsCount
    <3>4. IsFiniteSet(O) /\ o \in Nat
      BY <1>7, <2>1, <2>2, BacklinksAssumption, FS_Subset, FS_CardinalityType
    <3>5. QED
      BY <3>1, <3>3, <3>4
  <2>4. \A w : w \in V <=> w \in P /\ DonorOf[w] = d /\ <<w, "pending">> \in x.pending
    <3>1. ASSUME NEW w, w \in V
          PROVE  w \in P /\ DonorOf[w] = d /\ <<w, "pending">> \in x.pending
      <4>1. PICK p \in U : p[1] = w
        BY <2>1, <3>1 DEF RowsOf
      <4>2. p \in x.pending /\ p[2] = "pending" /\ DonorOf[p[1]] = d
        BY <1>3, <2>1 DEF Drafts
      <4>3. p \in Results
        BY <1>3, <4>2, RecordFinite
      <4>4. p = <<w, "pending">>
        BY <4>1, <4>2, <4>3 DEF Results
      <4>5. QED
        BY <1>6, <4>1, <4>2, <4>4 DEF RowsOf
    <3>2. ASSUME NEW w, w \in P, DonorOf[w] = d, <<w, "pending">> \in x.pending
          PROVE  w \in V
      <4>1. PICK p : p = <<w, "pending">>
        OBVIOUS
      <4>2. p[1] = w /\ p[2] = "pending" /\ p \in x.pending
        BY <3>2, <4>1
      <4>3. p \in U
        BY <1>3, <2>1, <3>2, <4>2 DEF Drafts
      <4>4. QED
        BY <2>1, <4>2, <4>3 DEF RowsOf
    <3>3. QED
      BY <3>1, <3>2
  <2>5. PICK M, N : M = Marks(d, h) /\ N = Marks(d, h')
    OBVIOUS
  <2>6. PICK a, b : a = Cardinality(M) /\ b = Cardinality(N)
    OBVIOUS
  <2>7. IsFiniteSet(M) /\ a \in Nat /\ IsFiniteSet(N) /\ b \in Nat
    BY <2>5, <2>6, KnownType
  <2>8. O \subseteq M /\ N = (M \ O) \cup V /\ (M \ O) \cap V = {}
    <3>1. O \subseteq M
      BY <1>7, <2>1, <2>5 DEF Marks
    <3>2. ASSUME NEW w
          PROVE  w \in N <=> w \in (M \ O) \cup V
      <4>1. CASE w \in P
        <5>1. w \in N <=> DonorOf[w] = d /\ <<w, "pending">> \in x.pending
          BY <1>7, <1>8, <2>5, <4>1 DEF Marks
        <5>2. w \notin M \ O
          BY <2>1, <2>5, <4>1 DEF Marks
        <5>3. QED
          BY <2>4, <4>1, <5>1, <5>2
      <4>2. CASE w \notin P
        <5>1. w \in N <=> w \in M
          BY <1>8, <2>5, <4>2 DEF Marks
        <5>2. w \notin O /\ w \notin V
          BY <2>1, <2>4, <4>2
        <5>3. QED
          BY <5>1, <5>2
      <4>3. QED
        BY <4>1, <4>2
    <3>3. (M \ O) \cap V = {}
      BY <2>1, <2>4, <2>5 DEF Marks
    <3>4. QED
      BY <3>1, <3>2, <3>3
  <2>9. b = a - o + u
    <3>1. PICK L : L = M \ O
      OBVIOUS
    <3>2. IsFiniteSet(L) /\ Cardinality(L) = a - Cardinality(M \cap O)
      BY <2>6, <2>7, <3>1, FS_Difference
    <3>3. M \cap O = O
      BY <2>8
    <3>4. Cardinality(L \cup V) = Cardinality(L) + u - Cardinality(L \cap V)
      BY <2>3, <3>2, FS_Union
    <3>5. L \cap V = {} /\ N = L \cup V
      BY <2>8, <3>1
    <3>6. Cardinality(L \cap V) = 0
      BY <3>5, FS_EmptySet
    <3>7. PICK l : l = Cardinality(L)
      OBVIOUS
    <3>8. l = a - o
      BY <2>2, <3>2, <3>3, <3>7
    <3>9. Cardinality(L \cup V) = l + u - 0
      BY <3>4, <3>6, <3>7
    <3>10. b = l + u - 0
      BY <2>6, <3>5, <3>9
    <3>11. QED
      BY <2>3, <2>7, <3>8, <3>10
  <2>10. PICK late \in Nat : late = IF U = {} THEN 0 ELSE Overtaken(r, d)
    BY <1>11
  <2>11. PICK j : j = [q \in Runs |-> IF U = {} THEN 0 ELSE Taken(q, r, d)]
    OBVIOUS
  <2>12. \A q \in Runs : j[q] = (IF U = {} THEN 0 ELSE Taken(q, r, d)) /\ j[q] \in Nat /\ j[q] \in Int
    BY <1>10, <2>11
  <2>13. SumOf(j, Runs) = late
    <3>1. CASE U = {}
      BY <2>10, <2>12, <3>1, SumZero, BacklinksAssumption
    <3>2. CASE U # {}
      <4>1. j = TakenOf(r, d)
        BY <2>11, <3>2 DEF TakenOf
      <4>2. QED
        BY <1>11, <2>10, <3>2, <4>1
    <3>3. QED
      BY <3>1, <3>2
  <2>14. PICK k : k = [q \in Runs |-> IF q = r THEN j[q] + (u - o) ELSE j[q]]
    OBVIOUS
  <2>15. (\A q \in Runs : k[q] \in Int) /\ k[r] = j[r] + (u - o) /\ (\A q \in Runs \ {r} : k[q] = j[q])
    BY <2>3, <2>12, <2>14
  <2>16. SumOf(k, Runs) = late + (u - o)
    <3>1. SumOf(k, Runs) = SumOf(j, Runs) - j[r] + k[r]
      BY <2>12, <2>15, SumChanges, BacklinksAssumption
    <3>2. PICK e : e = j[r]
      OBVIOUS
    <3>3. e \in Nat
      BY <2>12, <3>2
    <3>4. QED
      BY <2>3, <2>13, <2>15, <3>1, <3>2, <3>3
  <2>17. Worth(x, d, h, placed) <= Worth(y, d, h', placed') + k[r]
    <3>1. PICK T, t : T = {w \in x.todo : DonorOf[w] = d /\ h[w] = "pending"} /\ t = Cardinality(T)
      OBVIOUS
    <3>2. IsFiniteSet(T) /\ t \in Nat
      BY <1>7, <3>1, BacklinksAssumption, FS_Subset, FS_CardinalityType
    <3>3. MarkedAt(x, d, h) = T \cup O /\ T \cap O = {}
      <4>1. RowsAt(x) = x.todo \cup P
        BY <1>3, <1>6, FlushWorth
      <4>2. QED
        BY <1>7, <2>1, <3>1, <4>1 DEF MarkedAt
    <3>4. OverAt(x, d, h) = t + o
      <4>1. Cardinality(T \cup O) = t + o - Cardinality(T \cap O)
        BY <2>2, <2>3, <3>1, <3>2, FS_Union
      <4>2. Cardinality(T \cap O) = 0
        BY <3>3, FS_EmptySet
      <4>3. QED
        BY <1>3, <2>3, <3>2, <3>3, <4>1, <4>2 DEF OverAt, Playing
    <3>5. PICK c : c = DoubleAt(x, d, placed)
      OBVIOUS
    <3>6. c \in Nat
      BY <1>3, <3>5, WorthType
    <3>7. HandAt(x, d) = u
      BY <1>3, <2>1, <2>2, FlushWorth
    <3>8. Worth(x, d, h, placed) = u - c - (t + o)
      BY <3>4, <3>5, <3>7 DEF Worth
    <3>9. PICK e : e = Worth(y, d, h', placed')
      OBVIOUS
    <3>10. e \in Int /\ e >= 0 - c - t
      <4>1. CASE y.phase \notin Playing
        <5>1. e = 0
          BY <3>9, <4>1, IdleWorth
        <5>2. QED
          BY <3>2, <3>6, <5>1
      <4>2. CASE y.phase = "running" /\ ~BusyAt(y) /\ y.todo = x.todo /\ y.pending = {}
        <5>1. RowsAt(y) = x.todo
          BY <4>2 DEF RowsAt, RowsOf
        <5>2. MarkedAt(y, d, h') = T
          <6>1. \A w \in x.todo : h'[w] = h[w]
            BY <1>7, <1>8
          <6>2. QED
            BY <3>1, <5>1, <6>1 DEF MarkedAt
        <5>3. OverAt(y, d, h') = t
          BY <3>1, <4>2, <5>2 DEF OverAt, Playing
        <5>4. Drafts(y, d) = {} /\ HeldAt(y, d) = 0
          BY <4>2 DEF Drafts, HeldAt, HoldsAt, VisitingAt
        <5>5. HandAt(y, d) = 0
          BY <5>4, FS_EmptySet DEF HandAt
        <5>6. DoubleAt(y, d, placed) <= DoubleAt(x, d, placed)
          BY <1>3, <4>2, NoMoreDouble DEF VisitingAt
        <5>7. PICK g : g = DoubleAt(y, d, placed)
          OBVIOUS
        <5>8. g \in Nat /\ g <= c
          BY <3>5, <5>6, <5>7, WorthType
        <5>9. e = 0 - g - t
          BY <3>9, <5>3, <5>5, <5>7 DEF Worth
        <5>10. QED
          BY <3>2, <3>6, <5>8, <5>9
      <4>3. QED
        BY <1>2, <4>1, <4>2
    <3>11. PICK g \in Nat : g = j[r]
      BY <2>12
    <3>12. u - c - (t + o) <= e + (g + (u - o))
      BY <2>3, <3>2, <3>6, <3>10, <3>11
    <3>13. QED
      BY <2>15, <3>8, <3>9, <3>11, <3>12
  <2>18. ASSUME NEW q \in Runs, q # r
         PROVE  Worth(run[q], d, h, placed) <= Worth(run'[q], d, h', placed') + k[q]
    <3>1. PICK z : z = run[q]
      OBVIOUS
    <3>2. RunFine(z) /\ run'[q] = z
      BY <1>4, <2>18, <3>1 DEF Fine
    <3>3. PICK t \in Nat : t = j[q]
      BY <2>12
    <3>4. PICK f, g, a1, b1 : /\ f = OverAt(z, d, h) /\ g = OverAt(z, d, h')
                              /\ a1 = HandAt(z, d) /\ b1 = DoubleAt(z, d, placed)
      OBVIOUS
    <3>5. f \in Nat /\ g \in Nat /\ a1 \in Nat /\ b1 \in Nat
      BY <3>2, <3>4, WorthType
    <3>6. g <= f + t
      <4>1. CASE z.phase \notin Playing
        <5>1. g = 0
          BY <3>4, <4>1 DEF OverAt
        <5>2. QED
          BY <3>5, <5>1
      <4>2. CASE z.phase \in Playing
        <5>1. f = Cardinality(MarkedAt(z, d, h)) /\ g = Cardinality(MarkedAt(z, d, h'))
          BY <3>4, <4>2 DEF OverAt
        <5>2. PICK F, R : F = MarkedAt(z, d, h) /\ R = MarkedAt(z, d, h')
          OBVIOUS
        <5>3. IsFiniteSet(F) /\ IsFiniteSet(R)
          BY <3>2, <5>2, WorthType
        <5>4. R \subseteq RowsAt(z) /\ (\A w \in R : DonorOf[w] = d) /\ RowsAt(z) \subseteq Rows
          BY <3>2, <5>2, RecordFinite DEF MarkedAt
        <5>5. CASE U = {}
          <6>1. V = {}
            BY <2>1, <5>5 DEF RowsOf
          <6>2. ASSUME NEW w \in R
                PROVE  w \in F
            <7>1. w \in Rows /\ w \in RowsAt(z) /\ DonorOf[w] = d /\ h'[w] = "pending"
              BY <5>2, <5>4 DEF MarkedAt
            <7>2. w \notin P
              BY <1>8, <2>4, <6>1, <7>1
            <7>3. h[w] = "pending"
              BY <1>8, <7>1, <7>2
            <7>4. QED
              BY <5>2, <7>1, <7>3 DEF MarkedAt
          <6>3. R \subseteq F
            BY <6>2
          <6>4. Cardinality(R) <= Cardinality(F)
            BY <5>3, <6>3, FS_Subset
          <6>5. QED
            BY <3>5, <5>1, <5>2, <6>4
        <5>6. CASE U # {}
          <6>1. Cardinality(R) <= Taken(q, r, d)
            BY <2>18, <3>1, <3>2, <4>2, <5>4, RowsTaken
          <6>2. t = Taken(q, r, d)
            BY <2>12, <3>3, <5>6
          <6>3. QED
            BY <3>5, <5>1, <5>2, <6>1, <6>2
        <5>7. QED
          BY <5>5, <5>6
      <4>3. QED
        BY <4>1, <4>2
    <3>7. Worth(z, d, h, placed) = a1 - b1 - f /\ Worth(z, d, h', placed') = a1 - b1 - g
      BY <3>4 DEF Worth
    <3>8. a1 - b1 - f <= a1 - b1 - g + t
      BY <3>5, <3>6
    <3>9. k[q] = t
      BY <2>15, <2>18, <3>3
    <3>10. QED
      BY <3>1, <3>2, <3>7, <3>8, <3>9
  <2>19. \A q \in Runs : Worth(run[q], d, h, placed) <= Worth(run'[q], d, h', placed') + k[q]
    BY <1>2, <1>4, <2>17, <2>18
  <2>20. PICK m \in Nat : m = IF d \in placed THEN 1 ELSE 0
    OBVIOUS
  <2>21. KnownIn(d, h, placed) = m + a /\ KnownIn(d, h', placed') = m + b
    BY <2>5, <2>6, <2>20 DEF KnownIn
  <2>22. slips'[d] = slips[d] + late /\ slips[d] \in Nat /\ written'[d] = written[d] /\ written[d] \in Nat
    BY <1>1, <1>11, <2>1, <2>10 DEF TypeOK
  <2>23. written'[d] + slips[d] + KnownIn(d, h, placed) + SumOf(k, Runs)
           <= written[d] + slips'[d] + KnownIn(d, h', placed')
    BY <2>3, <2>7, <2>9, <2>16, <2>21, <2>22
  <2>24. written'[d] \in Nat /\ slips'[d] \in Nat
    BY <2>22
  <2>25. QED
    BY <1>5, <2>15, <2>19, <2>23, <2>24, CoversNext DEF Fine
<1>15. QED
  BY <1>5, <1>13, <1>14 DEF Fine

LEMMA FlushKeeps ==
  ASSUME Fine, NEW r \in Runs, Flush(r)
  PROVE  Fine'
<1>1. TypeOK /\ RunFine(run[r])
  BY DEF Fine
<1>2. PICK x \in RunRecord : x = run[r]
  BY <1>1 DEF RunFine
<1>3. x.phase = "running" /\ x.step \in {"flush", "end"}
  BY <1>2 DEF Flush, At
<1>4. PICK step \in {"end", "next"} : step = IF run[r].step = "end" THEN "end" ELSE AfterDonor(r)
  BY DEF AfterDonor
<1>5. PICK y : y = [x EXCEPT !.pending = {}, !.step = step]
  OBVIOUS
<1>6. run' = [run EXCEPT ![r] = y]
  BY <1>1, <1>2, <1>4, <1>5 DEF Flush, TypeOK, RunRecord
<1>7. y \in RunRecord
  BY <1>5 DEF RunRecord, Steps
<1>8. y.phase = "running" /\ y.pending = {} /\ y.todo = x.todo /\ y.step = step
      /\ y.succeeded = x.succeeded /\ y.cut = x.cut
  BY <1>3, <1>5 DEF RunRecord
<1>9. RunFine(y)
  <2>1. RowsOf(y.pending) = {}
    BY <1>8 DEF RowsOf
  <2>2. RunOK(y)
    BY <1>8, <2>1 DEF RunOK
  <2>3. x.succeeded <= Count /\ x.succeeded \in Nat /\ (x.step = "end" /\ ~x.cut => x.succeeded = Count \/ x.todo = {})
    BY <1>1, <1>2 DEF RunFine, StopOK, RunRecord
  <2>4. StopOK(y)
    <3>1. CASE x.step = "end"
      BY <1>2, <1>4, <1>8, <2>3, <3>1 DEF StopOK
    <3>2. CASE x.step # "end"
      <4>1. (step = "next" => x.succeeded < Count) /\ (step = "end" => x.succeeded = Count)
        BY <1>2, <1>4, <2>3, <3>2, BacklinksAssumption DEF AfterDonor, Enough
      <4>2. QED
        BY <1>8, <2>3, <4>1 DEF StopOK
    <3>3. QED
      BY <3>1, <3>2
  <2>5. QED
    BY <1>7, <2>2, <2>4 DEF RunFine
<1>10. ~BusyAt(y)
  BY <1>8 DEF BusyAt
<1>11. WritePlacementStatus(r) /\ placed' = placed /\ cooling' = cooling /\ stored' = stored
       /\ written' = written /\ faults' \in Nat
  BY <1>1 DEF Flush, TypeOK
<1>12. QED
  BY <1>2, <1>3, <1>6, <1>8, <1>9, <1>10, <1>11, SheetKeeps

LEMMA FlushFailsKeeps ==
  ASSUME Fine, NEW r \in Runs, NEW applied \in BOOLEAN, FlushFails(r, applied)
  PROVE  Fine'
<1>1. TypeOK /\ RunFine(run[r])
  BY DEF Fine
<1>2. CASE applied = FALSE
  BY <1>1, <1>2, FlushLostPays, PaysKeeps
<1>3. CASE applied = TRUE
  <2>1. PICK y : y = [Fresh EXCEPT !.phase = "unwritten"]
    OBVIOUS
  <2>2. RunFine(y) /\ y.phase \notin Playing
    BY <2>1, FreshFine DEF Fresh, Playing
  <2>3. run[r].phase = "running" /\ run[r].step \in {"flush", "end"}
    BY DEF FlushFails, At
  <2>4. WritePlacementStatus(r) /\ placed' = placed /\ cooling' = cooling /\ stored' = stored
        /\ written' = written /\ run' = [run EXCEPT ![r] = y]
    BY <1>3, <2>1 DEF FlushFails
  <2>5. faults' \in Nat
    <3>1. Fault
      BY DEF FlushFails
    <3>2. QED
      BY <1>1, <3>1 DEF Fault, TypeOK
  <2>6. QED
    BY <2>2, <2>3, <2>4, <2>5, SheetKeeps
<1>4. QED
  BY <1>2, <1>3

-----------------------------------------------------------------------------
(* The specification.                                                      *)

LEMMA InitFine == Init => Fine
<1> SUFFICES ASSUME Init
             PROVE  Fine
  OBVIOUS
<1>1. \A r \in Runs : run[r] = Fresh /\ RunFine(run[r])
  BY FreshFine DEF Init
<1>2. TypeOK
  <2>1. Fresh \in RunRecord
    BY FreshFine DEF RunFine
  <2>2. QED
    BY <2>1 DEF Init, TypeOK, Cells
<1>3. ASSUME NEW d \in Donors
      PROVE  Covered(d)
  <2>1. PICK f : f = WorthOf(d)
    OBVIOUS
  <2>2. Fresh.phase \notin Playing
    BY DEF Fresh, Playing
  <2>3. Worth(Fresh, d, h, placed) = 0
    BY <2>2, IdleWorth
  <2>4. \A r \in Runs : f[r] = 0
    BY <1>1, <2>1, <2>3 DEF WorthOf
  <2>5. Backed(d) = 0
    BY <2>1, <2>4, SumZero, BackedIs, BacklinksAssumption
  <2>6. PICK n : n = KnownIn(d, h, placed)
    OBVIOUS
  <2>7. n \in Nat /\ Known(d) = n
    BY <2>6, KnownType DEF Known, KnownIn, Marks
  <2>8. written[d] = 0 /\ slips[d] = 0
    BY DEF Init
  <2>9. QED
    BY <2>5, <2>7, <2>8 DEF Covered
<1>4. QED
  BY <1>1, <1>2, <1>3 DEF Fine

LEMMA SameFine ==
  ASSUME Fine, UNCHANGED <<h, placed, run, written, slips, faults>>, cooling' \subseteq Donors, stored' \subseteq Donors
  PROVE  Fine'
<1>1. TypeOK'
  BY DEF Fine, TypeOK
<1>2. \A r \in Runs : RunFine(run'[r])
  BY DEF Fine
<1>3. ASSUME NEW d \in Donors
      PROVE  (Covered(d))'
  <2>1. (Backed(d))' = Backed(d)
    <3>1. WorthOf(d)' = WorthOf(d)
      BY DEF WorthOf
    <3>2. QED
      BY <3>1, BackedIs, BackedIsNext
  <2>2. (Known(d))' = Known(d)
    BY DEF Known
  <2>3. QED
    BY <2>1, <2>2 DEF Fine, Covered
<1>4. QED
  BY <1>1, <1>2, <1>3 DEF Fine

LEMMA TierStepPays ==
  ASSUME TypeOK, NEW r \in Runs, RunFine(run[r]), TierStep(r)
  PROVE  Pays(r)
<1>1. CASE SubmitDraft(r)
  BY <1>1, SubmitDraftPays
<1>2. CASE ~SubmitDraft(r)
  <2>1. PICK tier \in Tiers : \/ PassOver(r, tier) \/ TierFails(r, tier) \/ AnswerLost(r, tier)
                              \/ WriteLink(r, tier) \/ LinkSeen(r, tier) \/ LinkMissing(r, tier)
    BY <1>2 DEF TierStep
  <2>2. QED
    BY <2>1, PassOverPays, TierFailsPays, AnswerLostPays, WriteLinkPays, LinkSeenPays, LinkMissingPays
<1>3. QED
  BY <1>1, <1>2

LEMMA RunStepKeeps ==
  ASSUME Fine, NEW r \in Runs, RunStep(r)
  PROVE  Fine'
<1>1. TypeOK /\ RunFine(run[r])
  BY DEF Fine
<1>2. CASE SelectDonor(r)
  BY <1>1, <1>2, SelectDonorPays, PaysKeeps
<1>3. CASE RunsOut(r)
  BY <1>1, <1>3, RunsOutPays, PaysKeeps
<1>4. CASE LoadPassword(r)
  BY <1>1, <1>4, LoadPasswordPays, PaysKeeps
<1>5. CASE IssueAppPassword(r)
  BY <1>1, <1>5, IssueAppPasswordPays, PaysKeeps
<1>6. CASE StorePassword(r)
  BY <1>1, <1>6, StorePasswordPays, PaysKeeps
<1>7. CASE Capabilities(r)
  BY <1>1, <1>7, CapabilitiesPays, PaysKeeps
<1>8. CASE TierStep(r)
  BY <1>1, <1>8, TierStepPays, PaysKeeps
<1>9. CASE Settle(r)
  BY <1>1, <1>9, SettlePays, PaysKeeps
<1>10. CASE SavePlacement(r)
  BY <1>10, SavePlacementKeeps
<1>11. CASE SaveProfile(r)
  BY <1>1, <1>11, SaveProfilePays, PaysKeeps
<1>12. CASE Flush(r)
  BY <1>12, FlushKeeps
<1>13. CASE \E applied \in BOOLEAN : FlushFails(r, applied)
  BY <1>13, FlushFailsKeeps
<1>14. CASE End(r)
  BY <1>1, <1>14, EndPays, PaysKeeps
<1>15. QED
  BY <1>2, <1>3, <1>4, <1>5, <1>6, <1>7, <1>8, <1>9, <1>10, <1>11, <1>12, <1>13, <1>14 DEF RunStep

LEMMA NextFine == Fine /\ [Next]_vars => Fine'
<1> SUFFICES ASSUME Fine, [Next]_vars
             PROVE  Fine'
  OBVIOUS
<1>1. ASSUME NEW r \in Runs, Request(r) \/ Start(r) \/ Cancel(r) \/ Deadline(r) \/ RunStep(r)
      PROVE  Fine'
  <2>1. TypeOK /\ RunFine(run[r])
    BY DEF Fine
  <2>2. CASE List(r)
    BY <2>1, <2>2, ListPays, PaysKeeps
  <2>3. CASE Check(r)
    BY <2>1, <2>3, CheckPays, PaysKeeps
  <2>4. CASE Queue(r)
    BY <2>1, <2>4, QueuePays, PaysKeeps
  <2>5. CASE Refuse(r)
    BY <2>1, <2>5, RefusePays, PaysKeeps
  <2>6. CASE Start(r)
    BY <2>1, <2>6, StartPays, PaysKeeps
  <2>7. CASE Cut(r)
    BY <2>1, <2>7, CutPays, PaysKeeps
  <2>8. CASE RunStep(r)
    BY <2>8, RunStepKeeps
  <2>9. QED
    BY <1>1, <2>2, <2>3, <2>4, <2>5, <2>6, <2>7, <2>8 DEF Request, Cancel, Deadline
<1>2. ASSUME NEW d \in Donors, CooledDown(d)
      PROVE  Fine'
  BY <1>2, SameFine DEF CooledDown, history, Fine, TypeOK
<1>3. ASSUME NEW w \in Rows, ClearCell(w)
      PROVE  Fine'
  BY <1>3, ClearCellKeeps
<1>4. CASE Crash
  BY <1>4, CrashKeeps
<1>5. CASE UNCHANGED vars
  BY <1>5, SameFine DEF vars, Fine, TypeOK
<1>6. QED
  BY <1>1, <1>2, <1>3, <1>4, <1>5 DEF Next

\* What the runs' goroutines know stays of one piece, and what was put on the
\* donors is covered by what the stores know, what the runs hold and the slips,
\* with what the runs may yet take from the stores to spare (placeAll).
THEOREM BacklinksCorrect == Spec => []BacklinksInv
<1>1. Fine <=> BacklinksInv
  BY FineIs
<1>2. Spec => []Fine
  BY InitFine, NextFine, PTL DEF Spec
<1>3. QED
  BY <1>1, <1>2, FineIs, PTL

\* No link and no draft is lost from sight (placeAll, PlaceBacklinks), however
\* many requests overlap, and wherever a run is cut short.
THEOREM NoLinkIsLost == Spec => []LinksAccounted
<1>1. Fine => LinksAccounted
  <2> SUFFICES ASSUME Fine
               PROVE  LinksAccounted
    OBVIOUS
  <2>1. TypeOK
    BY DEF Fine
  <2>2. ASSUME NEW d \in Donors
        PROVE  written[d] <= Known(d) + InHand(d) + slips[d]
    <3>1. PICK f, g : f = WorthOf(d) /\ g = HandsOf(d)
      OBVIOUS
    <3>2. ASSUME NEW r \in Runs
          PROVE  f[r] \in Int /\ g[r] \in Int /\ f[r] <= g[r]
      <4>1. PICK x, a, b, c : x = run[r] /\ a = HandAt(x, d) /\ b = DoubleAt(x, d, placed) /\ c = OverAt(x, d, h)
        OBVIOUS
      <4>2. a \in Nat /\ b \in Nat /\ c \in Nat
        BY <4>1, WorthType DEF Fine
      <4>3. f[r] = a - b - c /\ g[r] = a
        BY <3>1, <4>1 DEF WorthOf, HandsOf, Worth
      <4>4. QED
        BY <4>2, <4>3
    <3>3. SumOf(f, Runs) <= SumOf(g, Runs) /\ SumOf(f, Runs) \in Int /\ SumOf(g, Runs) \in Int
      BY <3>2, SumsCompare, SumType, BacklinksAssumption
    <3>4. Backed(d) = SumOf(f, Runs) /\ InHand(d) = SumOf(g, Runs)
      BY <3>1, BackedIs, InHandIs
    <3>5. PICK n : n = KnownIn(d, h, placed)
      OBVIOUS
    <3>6. n \in Nat /\ Known(d) = n
      BY <3>5, KnownType DEF Known, KnownIn, Marks
    <3>7. PICK a, b : a = SumOf(f, Runs) /\ b = SumOf(g, Runs)
      OBVIOUS
    <3>8. written[d] <= n + a + slips[d] /\ written[d] \in Nat /\ slips[d] \in Nat
      BY <2>1, <3>4, <3>6, <3>7 DEF Fine, Covered, TypeOK
    <3>9. written[d] <= n + b + slips[d]
      BY <3>3, <3>6, <3>7, <3>8
    <3>10. QED
      BY <3>4, <3>6, <3>7, <3>9
  <2>3. QED
    BY <2>1, <2>2 DEF LinksAccounted
<1>2. QED
  BY <1>1, BacklinksCorrect, FineIs, PTL

\* No run reports more placements than were asked for, and one that ends by
\* itself before has no donor left (AfterDonor, RunsOut).
THEOREM RunsStopAtCount == Spec => []StopsAtCount
<1>1. Fine => StopsAtCount
  BY DEF Fine, StopsAtCount, RunFine, StopOK
<1>2. QED
  BY <1>1, BacklinksCorrect, FineIs, PTL
=============================================================================
