----------------------------- MODULE ClientStats -----------------------------
(***************************************************************************)
(* What the dashboards read from the client base: the lead statistics of a *)
(* range of days (leadstats), a dozen queries each with its own filter and *)
(* grouping; the segments page, which derives from the counts of each      *)
(* client what he is to the firm; and the client card. The panels claim to *)
(* show the same rows from different sides.                                *)
(***************************************************************************)
EXTENDS ClientBase

CONSTANTS
    Sessions, \* of the site, per day, as GA4 has them
    Ranges    \* of days somebody asks for, the whole of them besides

ASSUME ClientStatsAssumption ==
    /\ Sessions \in [Days -> Nat]
    /\ Ranges \subseteq {r \in Days \X Days : r[1] <= r[2]}

-----------------------------------------------------------------------------
(* LeadStatsRepository: ranges of days, both ends included.                *)

LeadsIn(from, to) == {m \in DOMAIN leads : leads[m].day \in from .. to}
ConsultsIn(from, to) == {i \in DOMAIN consults : consults[i].created \in from .. to}
CasesIn(from, to) == {i \in DOMAIN cases : cases[i].created \in from .. to}

Sum(f(_), S) == SumFunction([k \in S |-> f(k)])
Worth(i) == consults[i].price
Agreed(i) == cases[i].fee
Received(i) == cases[i].paid
Outstanding(i) == Max({cases[i].fee - cases[i].paid, 0})

\* Mutant: held is enough.
HeldIsEarned(S) == {i \in S : consults[i].price > 0 /\ consults[i].status = "completed"}

\* Held and not marked unpaid.
EarnedOf(S) == {i \in S : /\ consults[i].price > 0 /\ consults[i].status = "completed"
                          /\ consults[i].paid # "no"}

Booked(S) == {i \in S : consults[i].price > 0}
Lost(S) == {i \in S : consults[i].price > 0 /\ consults[i].status \in {"cancelled", "no_show"}}

Totals(from, to) ==
    LET C == ConsultsIn(from, to)
        K == CasesIn(from, to)
    IN  [leads |-> Cardinality(LeadsIn(from, to)),
         clients |-> Cardinality({leads[m].client : m \in LeadsIn(from, to)} \ {0}),
         consultations |-> Cardinality(C),
         booked |-> Sum(Worth, Booked(C)), earned |-> Sum(Worth, EarnedOf(C)),
         lost |-> Sum(Worth, Lost(C)),
         completed |-> Cardinality({i \in K : cases[i].status = "completed"}),
         contracted |-> Sum(Agreed, K), paid |-> Sum(Received, K),
         inProgress |-> Cardinality({i \in DOMAIN cases : cases[i].status = "in_progress"}),
         owed |-> Sum(Outstanding, DOMAIN cases)]

\* Days on which there was a lead or a consultation.
Trend(from, to) ==
    [d \in {leads[m].day : m \in LeadsIn(from, to)}
           \cup {consults[i].created : i \in ConsultsIn(from, to)} |->
        [leads |-> Cardinality(LeadsIn(d, d)),
         consultations |-> Cardinality(ConsultsIn(d, d)),
         earned |-> Sum(Worth, EarnedOf(ConsultsIn(d, d)))]]

\* Only the trend's days take their sessions, and only those are in the total.
SiteSessions(from, to) == Sum(LAMBDA d : Sessions[d], DOMAIN Trend(from, to))

ByConsultationStatus(from, to) ==
    [s \in {consults[i].status : i \in ConsultsIn(from, to)} |->
        Cardinality({i \in ConsultsIn(from, to) : consults[i].status = s})]

ByCreator(from, to) ==
    [b \in {consults[i].by : i \in ConsultsIn(from, to)} |->
        LET own == {i \in ConsultsIn(from, to) : consults[i].by = b}
        IN  [bookings |-> Cardinality(own), earned |-> Sum(Worth, EarnedOf(own))]]

ByLeadPracticeArea(from, to) ==
    [a \in {leads[m].area : m \in LeadsIn(from, to)} |->
        Cardinality({m \in LeadsIn(from, to) : leads[m].area = a})]

\* A client belongs to the range his first lead is in.
FirstLeadDay(c) == Min({leads[m].day : m \in {k \in DOMAIN leads : leads[k].client = c}})

Cohort(from, to) ==
    {c \in {leads[m].client : m \in DOMAIN leads} \ {0} : FirstLeadDay(c) \in from .. to}

ConsultsOf(c) == {i \in DOMAIN consults : consults[i].client = c}
CasesOf(c) == {i \in DOMAIN cases : cases[i].client = c}

\* The page of the first lead is the source; the model has one per day.
BySource(from, to) ==
    [d \in {FirstLeadDay(c) : c \in Cohort(from, to)} |->
        LET own == {c \in Cohort(from, to) : FirstLeadDay(c) = d}
        IN  [leads |-> Cardinality(own),
             consulted |-> Cardinality({c \in own : ConsultsOf(c) # {}}),
             cased |-> Cardinality({c \in own : CasesOf(c) # {}})]]

\* The status of the first row by created_at, of several that day any one: in
\* the model the oldest.
FirstOutcome(c) ==
    LET day1 == Min({consults[i].created : i \in ConsultsOf(c)})
    IN  consults[Min({i \in ConsultsOf(c) : consults[i].created = day1})].status

Funnel(from, to) ==
    LET all == Cohort(from, to)
        consulted == {c \in all : ConsultsOf(c) # {}}
    IN  [leads |-> Cardinality(all),
         consulted |-> Cardinality(consulted),
         cased |-> Cardinality({c \in all : CasesOf(c) # {}}),
         outcome |-> [s \in {"completed", "cancelled", "no_show", "scheduled"} |->
                         Cardinality({c \in consulted : FirstOutcome(c) = s})]]

\* Whole days, the last one to its end.
Stats(from, to) ==
    [totals |-> Totals(from, to), sessions |-> SiteSessions(from, to),
     trend |-> Trend(from, to), byStatus |-> ByConsultationStatus(from, to),
     byCreator |-> ByCreator(from, to), byArea |-> ByLeadPracticeArea(from, to),
     bySource |-> BySource(from, to), funnel |-> Funnel(from, to)]

-----------------------------------------------------------------------------
(* The segments page and the client card.                                  *)

Held(S) == {i \in S : consults[i].price > 0 /\ consults[i].status = "completed"}

\* Held consultations count here, paid or not.
Activity(c) ==
    LET own == ConsultsOf(c)
        had == CasesOf(c)
        Count(S) == Cardinality({i \in own : consults[i].status \in S})
    IN  [completed |-> Count({"completed"}), scheduled |-> Count({"scheduled"}),
         lost |-> Count({"cancelled", "no_show"}), consults |-> Cardinality(own),
         revenue |-> Sum(Worth, Held(own)),
         cases |-> Cardinality(had), fee |-> Sum(Agreed, had), paid |-> Sum(Received, had)]

ListActivity == [c \in Live(clients) |-> Activity(c)]

\* The switch of Derive, its last two cases with the reasons they give.
Derived(a) ==
    CASE a.cases >= 2                        -> "repeat"
      [] a.cases = 1                         -> "client"
      [] a.cases = 0 /\ a.completed > 0      -> "consulted"
      [] a.cases = 0 /\ a.completed = 0 /\ a.scheduled > 0 -> "booked"
      [] a.cases = 0 /\ a.completed = 0 /\ a.scheduled = 0 /\ a.consults > 0 -> "lost"
      [] OTHER                               -> "lead"

AutoTags(a) ==
    (IF a.fee > a.paid THEN {"debtor"} ELSE {})
    \cup (IF a.lost >= 2 THEN {"no_show_risk"} ELSE {})

Derive(c, a) ==
    [segment |-> IF clients[c].pin # Blank THEN clients[c].pin ELSE Derived(a),
     tags |-> AutoTags(a), manual |-> {t[2] : t \in {u \in tags : u[1] = c}},
     ltv |-> a.revenue + a.paid]

\* A page of the list, of what ListActivity found; the pills count everybody.
Listed(activity, segment, tag) ==
    LET derived == [c \in DOMAIN activity |-> Derive(c, activity[c])] IN
    [clients |-> {c \in DOMAIN derived : /\ segment # Blank => derived[c].segment = segment
                                        /\ tag # Blank => tag \in derived[c].tags \cup derived[c].manual},
     counts |-> [s \in Segments |-> Cardinality({c \in DOMAIN derived : derived[c].segment = s})]]

\* Mutant: the card sums up what was agreed.
ByFee(c) == Sum(Agreed, CasesOf(c)) + Sum(Worth, Held(ConsultsOf(c)))

RevenueTotal(c) == Sum(Received, CasesOf(c)) + Sum(Worth, Held(ConsultsOf(c)))

-----------------------------------------------------------------------------
SumOver(f, g(_)) == Sum(LAMBDA k : g(f[k]), DOMAIN f)

\* The panels of one range show the same leads, consultations and money: by day,
\* by status, by member of staff, by area (GetStats).
PanelsTie(s) ==
    /\ SumOver(s.trend, LAMBDA b : b.leads) = s.totals.leads
    /\ SumOver(s.trend, LAMBDA b : b.consultations) = s.totals.consultations
    /\ SumOver(s.trend, LAMBDA b : b.earned) = s.totals.earned
    /\ SumOver(s.byStatus, LAMBDA n : n) = s.totals.consultations
    /\ SumOver(s.byCreator, LAMBDA b : b.earned) = s.totals.earned
    /\ SumOver(s.byArea, LAMBDA n : n) = s.totals.leads

\* Whose first consultation is still asked for and not confirmed.
Unanswered(from, to) ==
    {c \in Cohort(from, to) : ConsultsOf(c) # {} /\ FirstOutcome(c) = "requested"}

\* The cohort is one set of clients, whether the funnel follows it or the
\* sources divide it; who was ever consulted is in one of the four outcomes or
\* unanswered, which no outcome counts although they are to "sum to ConsultedEver"
\* (leadstats.Funnel); nobody in it came later than the range.
CohortTies(s, from, to) ==
    /\ SumOver(s.bySource, LAMBDA b : b.leads) = s.funnel.leads
    /\ SumOver(s.bySource, LAMBDA b : b.consulted) = s.funnel.consulted
    /\ SumOver(s.bySource, LAMBDA b : b.cased) = s.funnel.cased
    /\ SumOver(s.funnel.outcome, LAMBDA n : n) + Cardinality(Unanswered(from, to)) = s.funnel.consulted
    /\ s.funnel.leads <= s.totals.clients

\* What was earned over all time is what every client has brought in, but for
\* what is marked unpaid; a client is worth the same on the card and in the list.
LifetimeTies(totals, activity) ==
    /\ \A c \in DOMAIN activity : activity[c].revenue + activity[c].paid = RevenueTotal(c)
    /\ totals.earned = SumOver(activity, LAMBDA a : a.revenue)
                       - Sum(Worth, {i \in Held(DOMAIN consults) : consults[i].paid = "no"})
    /\ totals.paid = SumOver(activity, LAMBDA a : a.paid)

\* The clients of all time are the same to the funnel and to the segments: who
\* has a case there is a client here, whom the page marks as owing something (staff
\* may give a tag of that name too) owes it in the totals, and nobody is in two
\* segments (Derive, Funnel, Totals).
SegmentsTie(all, activity) ==
    LET page == Listed(activity, Blank, "debtor") IN
    /\ Cardinality({c \in Cohort(0, LastDay) : Derived(activity[c]) \in {"client", "repeat"}})
          = all.funnel.cased
    /\ \A c \in page.clients : "debtor" \in Derive(c, activity[c]).tags => all.totals.owed > 0
    /\ SumOver(page.counts, LAMBDA n : n) = Cardinality(Live(clients))

\* What the dashboards read of the one base adds up across their own queries
\* (GetStats, Derive, RevenueTotal).
StatsTie ==
    LET all == Stats(0, LastDay)
        activity == ListActivity
    IN
    /\ PanelsTie(all) /\ CohortTies(all, 0, LastDay)
    /\ LifetimeTies(all.totals, activity) /\ SegmentsTie(all, activity)
    /\ \A r \in Ranges : LET s == Stats(r[1], r[2]) IN PanelsTie(s) /\ CohortTies(s, r[1], r[2])
=============================================================================
