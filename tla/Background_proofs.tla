-------------------------- MODULE Background_proofs --------------------------
(***************************************************************************)
(* What the background work of the process keeps to.                       *)
(*                                                                         *)
(* The pool: workpool.Run keeps its contract (BatchedWork), for any number *)
(* of items and workers and any batch size, whatever the sink answers and  *)
(* whenever the context ends. Its inductive invariant is PoolInv: every    *)
(* result is with its worker, in the batch, or given to the sink once.     *)
(*                                                                         *)
(* The scrape job, that runs the pool over its sites, is cancelled at any  *)
(* time and may die anywhere: JobInv says that every step of a living      *)
(* process is a step of Workpool or leaves it alone, so that PoolInv is    *)
(* kept; SitesInv and RowInv tie the pages and the row to it.              *)
(*                                                                         *)
(* The prompt tickers keep to one champion, to the slots there are for     *)
(* candidates, and never bring a retired variant back, for any number of   *)
(* variants, any statistics and any failing statements: VariantInv says    *)
(* that what a run of a ticker has read is still true of the variants its  *)
(* next statement changes.                                                 *)
(***************************************************************************)
EXTENDS EmailScrape, PromptEvolution, FiniteSetTheorems, TLAPS

-----------------------------------------------------------------------------
(* The pool.                                                               *)

LEMMA InitPool == Init => PoolInv
<1> SUFFICES ASSUME Init PROVE PoolInv
  OBVIOUS
<1>1. TypeOK
  <2>1. next \in 1..(N + 1)
    BY PoolAssumption DEF Init
  <2>2. sinkErr \in BOOLEAN /\ ctxErr \in BOOLEAN
    BY Zenon DEF Init
  <2>3. QED
    BY <2>1, <2>2 DEF Init, TypeOK
<1>2. WorkerInv /\ SinkInv /\ GivenOnce
  BY DEF Init, WorkerInv, SinkInv, GivenOnce, Items
<1>3. PhaseInv
  BY DEF Init, PhaseInv
<1>4. QED
  BY <1>1, <1>2, <1>3 DEF PoolInv

LEMMA DispatchPool ==
  ASSUME PoolInv, Dispatch \/ DispatchEnds \/ Close PROVE PoolInv'
<1> USE DEF PoolInv
<1>1. CASE Dispatch
  <2>1. next \in Items /\ next' = next + 1 /\ next' \in 1..(N + 1)
    BY <1>1, PoolAssumption DEF TypeOK, Dispatch, MoreItems, Items
  <2>2. worker' = [worker EXCEPT ![next] = "working"]
    BY <1>1 DEF Dispatch
  <2>3. TypeOK'
    BY <1>1, <2>1, <2>2 DEF TypeOK, Dispatch
  <2>4. WorkerInv'
    <3> SUFFICES ASSUME NEW i \in Items
                 PROVE  /\ worker'[i] = "none" <=> next' <= i
                        /\ i \in batch' \/ calls'[i] > 0 => worker'[i] = "sent"
                        /\ worker'[i] = "dropped" => Cancelled'
      BY DEF WorkerInv
    <3>1. CASE i = next
      BY <1>1, <2>1, <2>2, <3>1 DEF TypeOK, WorkerInv, Dispatch, Items
    <3>2. CASE i # next
      BY <1>1, <2>1, <2>2, <3>2 DEF TypeOK, WorkerInv, Dispatch, Items, Cancelled
    <3>3. QED
      BY <3>1, <3>2
  <2>5. worker[next] = "none"
    BY <2>1 DEF WorkerInv, TypeOK, Items
  <2>6. SinkInv' /\ GivenOnce'
    BY <1>1, <2>1, <2>2, <2>5 DEF TypeOK, SinkInv, GivenOnce, Dispatch
  <2>7. PhaseInv'
    BY <1>1 DEF PhaseInv, Dispatch
  <2>8. QED
    BY <2>3, <2>4, <2>6, <2>7
<1>2. CASE DispatchEnds
  <2>1. TypeOK' /\ WorkerInv' /\ SinkInv' /\ GivenOnce'
    BY <1>2 DEF TypeOK, WorkerInv, SinkInv, GivenOnce, DispatchEnds, Cancelled
  <2>2. next = N + 1 \/ Cancelled
    <3>1. ~MoreItems => next = N + 1
      BY PoolAssumption DEF TypeOK, MoreItems
    <3>2. QED
      BY <1>2, <3>1 DEF DispatchEnds
  <2>3. Cancelled' = Cancelled /\ Held' = Held
    BY <1>2 DEF DispatchEnds, Cancelled, Held
  <2>4. PhaseInv'
    BY <1>2, <2>2, <2>3 DEF PhaseInv, DispatchEnds
  <2>5. QED
    BY <2>1, <2>4
<1>3. CASE Close
  <2>1. TypeOK' /\ WorkerInv' /\ SinkInv' /\ GivenOnce'
    BY <1>3 DEF TypeOK, WorkerInv, SinkInv, GivenOnce, Close, Cancelled
  <2>2. PhaseInv'
    BY <1>3 DEF TypeOK, PhaseInv, Close, WorkersGone, Held, Cancelled
  <2>3. QED
    BY <2>1, <2>2
<1>4. QED
  BY <1>1, <1>2, <1>3

\* A worker that goes on: only its own item's place changes.
LEMMA WorkerPool ==
  ASSUME PoolInv, NEW i \in Items, NEW w \in {"sending", "nothing", "dropped"},
         worker[i] \in {"working", "sending"},
         worker' = [worker EXCEPT ![i] = w],
         w = "dropped" => Cancelled,
         UNCHANGED <<next, disp, coll, batch, processed, sunk, calls, sinkErr,
                     ctxErr, result>>
  PROVE  PoolInv'
<1> USE DEF PoolInv
<1>1. TypeOK'
  BY DEF TypeOK
<1>2. WorkerInv'
  BY DEF WorkerInv, TypeOK, Cancelled
<1>3. SinkInv' /\ GivenOnce'
  BY DEF SinkInv, GivenOnce, TypeOK
<1>4. disp # "closed"
  BY DEF PhaseInv, Held
<1>5. PhaseInv'
  BY <1>4 DEF PhaseInv, Cancelled
<1>6. QED
  BY <1>1, <1>2, <1>3, <1>5

LEMMA ReceivePool ==
  ASSUME PoolInv, NEW i \in Items, Receive(i) PROVE PoolInv'
<1> USE DEF PoolInv
<1>1. worker' = [worker EXCEPT ![i] = "sent"] /\ worker[i] = "sending"
      /\ coll = "range" /\ UNCHANGED <<next, disp, sunk, calls, sinkErr, ctxErr, result>>
  BY DEF Receive
<1>2. disp # "closed"
  BY <1>1 DEF PhaseInv, Held
<1>3. i \notin batch /\ calls[i] = 0
  BY <1>1 DEF WorkerInv, TypeOK
<1>4. CASE sinkErr
  <2>1. UNCHANGED <<coll, batch, processed>>
    BY <1>4 DEF Receive
  <2>2. TypeOK'
    BY <1>1, <2>1 DEF TypeOK
  <2>3. WorkerInv' /\ SinkInv' /\ GivenOnce'
    BY <1>1, <1>4, <2>1 DEF TypeOK, WorkerInv, SinkInv, GivenOnce, Cancelled
  <2>4. PhaseInv'
    BY <1>1, <1>2, <2>1 DEF PhaseInv, Cancelled
  <2>5. QED
    BY <2>2, <2>3, <2>4
<1>5. CASE ~sinkErr
  <2>1. /\ batch' = batch \cup {i} /\ processed' = processed + 1
        /\ coll' \in {"flush", "range"}
    BY <1>5 DEF Receive
  <2>2. TypeOK'
    BY <1>1, <2>1 DEF TypeOK
  <2>3. WorkerInv'
    BY <1>1, <2>1 DEF TypeOK, WorkerInv, Cancelled
  <2>4. SinkInv' /\ GivenOnce'
    BY <1>1, <1>3, <2>1 DEF TypeOK, SinkInv, GivenOnce
  <2>5. PhaseInv'
    BY <1>1, <1>2, <1>5, <2>1 DEF PhaseInv, Cancelled
  <2>6. QED
    BY <2>2, <2>3, <2>4, <2>5
<1>6. QED
  BY <1>4, <1>5

LEMMA FlushPool ==
  ASSUME PoolInv, Flush PROVE PoolInv'
<1> USE DEF PoolInv
<1>1. /\ coll \in {"flush", "end"} /\ ~sinkErr /\ Given
      /\ coll' = IF coll = "flush" THEN "range" ELSE "final"
      /\ UNCHANGED <<next, disp, worker, processed, ctxErr, result>>
  BY DEF Flush, FlushOk, FlushFails, AfterFlush, PhaseInv
<1>2. /\ \A i \in batch : calls[i] = 0 /\ worker[i] = "sent"
      /\ batch \subseteq Items
  BY <1>1 DEF SinkInv, WorkerInv, TypeOK
<1>3. /\ calls' \in [Items -> Nat]
      /\ \A i \in Items : calls'[i] = IF i \in batch THEN 1 ELSE calls[i]
  BY <1>1, <1>2 DEF Given, TypeOK
<1>4. GivenOnce'
  BY <1>3 DEF GivenOnce, TypeOK
<1>5. CASE FlushOk
  <2>1. batch' = {} /\ sunk' = sunk \cup batch /\ sinkErr' = sinkErr
    BY <1>5 DEF FlushOk
  <2>2. TypeOK'
    BY <1>1, <1>2, <1>3, <2>1 DEF TypeOK
  <2>3. WorkerInv'
    BY <1>1, <1>2, <1>3, <2>1 DEF WorkerInv, TypeOK, Cancelled
  <2>4. SinkInv'
    BY <1>1, <1>2, <1>3, <2>1 DEF SinkInv, TypeOK
  <2>5. PhaseInv'
    BY <1>1, <2>1 DEF PhaseInv, Cancelled, Held
  <2>6. QED
    BY <1>4, <2>2, <2>3, <2>4, <2>5
<1>6. ASSUME NEW applied \in BOOLEAN, FlushFails(applied) PROVE PoolInv'
  <2>1. batch' = batch /\ sunk' \in {sunk, sunk \cup batch} /\ sinkErr' = TRUE
    BY <1>6 DEF FlushFails
  <2>2. TypeOK'
    BY <1>1, <1>2, <1>3, <2>1 DEF TypeOK
  <2>3. WorkerInv'
    BY <1>1, <1>2, <1>3, <2>1 DEF WorkerInv, TypeOK, Cancelled
  <2>4. SinkInv'
    BY <1>1, <1>2, <1>3, <2>1 DEF SinkInv, TypeOK
  <2>5. PhaseInv'
    BY <1>1, <2>1 DEF PhaseInv, Cancelled, Held
  <2>6. QED
    BY <1>4, <2>2, <2>3, <2>4, <2>5
<1>7. QED
  BY <1>5, <1>6 DEF Flush

\* The caller's steps that touch neither the workers nor the sink.
LEMMA CallerPool ==
  ASSUME PoolInv, ChannelClosed \/ NothingToFlush \/ Return \/ CtxDone PROVE PoolInv'
<1> USE DEF PoolInv
<1>1. UNCHANGED <<next, disp, worker, batch, processed, sunk, calls, sinkErr>>
  BY DEF ChannelClosed, NothingToFlush, Return, CtxDone
<1>2. SinkInv' /\ GivenOnce'
  BY <1>1 DEF SinkInv, GivenOnce
<1>3. ctxErr' \in BOOLEAN /\ (ctxErr => ctxErr')
  BY Zenon DEF ChannelClosed, NothingToFlush, Return, CtxDone, TypeOK
<1>4. WorkerInv' /\ (Cancelled => Cancelled')
  BY <1>1, <1>3 DEF WorkerInv, Cancelled
<1>5. TypeOK'
  BY <1>1, <1>3 DEF TypeOK, ChannelClosed, NothingToFlush, Return, CtxDone, RangeEnds,
                    Outcome
<1>6. PhaseInv'
  BY <1>1, <1>4 DEF PhaseInv, TypeOK, ChannelClosed, NothingToFlush, Return, CtxDone,
                    RangeEnds, Outcome, Held
<1>7. QED
  BY <1>2, <1>4, <1>5, <1>6

LEMMA NextPool == PoolInv /\ [Next]_vars => PoolInv'
<1> SUFFICES ASSUME PoolInv, [Next]_vars PROVE PoolInv'
  OBVIOUS
<1>1. CASE UNCHANGED vars
  BY <1>1 DEF vars, PoolInv, TypeOK, WorkerInv, SinkInv, GivenOnce, PhaseInv, Held,
              Cancelled
<1>2. CASE Dispatch \/ DispatchEnds \/ Close
  BY <1>2, DispatchPool
<1>3. ASSUME NEW i \in Items, NEW ok \in BOOLEAN, WorkEnds(i, ok) PROVE PoolInv'
  BY <1>3, WorkerPool DEF WorkEnds
<1>4. ASSUME NEW i \in Items, Drop(i) PROVE PoolInv'
  BY <1>4, WorkerPool DEF Drop
<1>5. ASSUME NEW i \in Items, Receive(i) PROVE PoolInv'
  BY <1>5, ReceivePool
<1>6. CASE Flush
  BY <1>6, FlushPool
<1>7. CASE ChannelClosed \/ NothingToFlush \/ Return \/ CtxDone
  BY <1>7, CallerPool
<1>8. QED
  BY <1>1, <1>2, <1>3, <1>4, <1>5, <1>6, <1>7 DEF Next, PoolStep

\* Every state of a run is of its type, for any number of items and workers.
THEOREM PoolCorrect == Spec => []PoolInv
<1>1. Init => PoolInv
  BY InitPool
<1>2. PoolInv /\ [Next]_vars => PoolInv'
  BY NextPool
<1>3. QED
  BY <1>1, <1>2, PTL DEF Spec

\* The sink is given a result at most once.
THEOREM SinkGivenOnce == Spec => []GivenOnce
<1>1. PoolInv => GivenOnce
  BY DEF PoolInv
<1>2. QED
  BY <1>1, PoolCorrect, PTL

\* Nothing sends on the closed channel, and Run leaves no goroutine behind.
THEOREM NoneLeftBehind == Spec => []NothingLeftBehind
<1>1. PoolInv => NothingLeftBehind
  BY DEF PoolInv, PhaseInv, TypeOK, NothingLeftBehind
<1>2. QED
  BY <1>1, PoolCorrect, PTL

-----------------------------------------------------------------------------
(* The contract.                                                           *)

LEMMA InitContract == Init => Contract!Init
  BY DEF Init, Contract!Init, Tried, Yielded

LEMMA WorkerContract ==
  ASSUME PoolInv, PoolInv',
         \/ Dispatch
         \/ \E i \in Items : (\E ok \in BOOLEAN : WorkEnds(i, ok)) \/ Drop(i) \/ Receive(i)
  PROVE  [Contract!Next]_<<Tried, Yielded, sunk, result>>
<1> USE DEF PoolInv
<1>1. CASE Dispatch
  <2>1. next \in Items /\ worker[next] = "none" /\ result = "running"
        /\ worker' = [worker EXCEPT ![next] = "working"]
    BY <1>1, PoolAssumption
    DEF Dispatch, MoreItems, TypeOK, WorkerInv, PhaseInv, Items
  <2>2. Tried' = Tried \cup {next} /\ next \in Items \ Tried /\ Yielded' = Yielded
    BY <2>1 DEF Tried, Yielded, TypeOK
  <2>3. UNCHANGED <<sunk, result>>
    BY <1>1 DEF Dispatch
  <2>4. QED
    BY <2>1, <2>2, <2>3 DEF Contract!Next, Contract!Try
<1>2. ASSUME NEW i \in Items, WorkEnds(i, TRUE)
      PROVE  [Contract!Next]_<<Tried, Yielded, sunk, result>>
  <2>1. worker' = [worker EXCEPT ![i] = "sending"] /\ worker[i] = "working"
        /\ UNCHANGED <<sunk, result>>
    BY <1>2 DEF WorkEnds
  <2>2. result = "running"
    BY <2>1 DEF PhaseInv, Held, TypeOK
  <2>3. i \in Tried \ Yielded /\ Yielded' = Yielded \cup {i} /\ Tried' = Tried
    BY <2>1 DEF Tried, Yielded, TypeOK
  <2>4. QED
    BY <2>1, <2>2, <2>3 DEF Contract!Next, Contract!Yield
<1>3. ASSUME NEW i \in Items, WorkEnds(i, FALSE) \/ Drop(i) \/ Receive(i)
      PROVE  UNCHANGED <<Tried, Yielded, sunk, result>>
  <2>1. UNCHANGED <<sunk, result>>
    BY <1>3 DEF WorkEnds, Drop, Receive
  <2>2. \/ worker[i] = "working" /\ worker' = [worker EXCEPT ![i] = "nothing"]
        \/ worker[i] = "sending" /\ worker' = [worker EXCEPT ![i] = "dropped"]
        \/ worker[i] = "sending" /\ worker' = [worker EXCEPT ![i] = "sent"]
    BY <1>3 DEF WorkEnds, Drop, Receive
  <2>3. Tried' = Tried /\ Yielded' = Yielded
    BY <2>2 DEF Tried, Yielded, TypeOK
  <2>4. QED
    BY <2>1, <2>3
<1>4. QED
  BY <1>1, <1>2, <1>3

LEMMA SinkContract ==
  ASSUME PoolInv, Flush PROVE [Contract!Next]_<<Tried, Yielded, sunk, result>>
<1> USE DEF PoolInv
<1>1. /\ coll \in {"flush", "end"} /\ ~sinkErr
      /\ sunk' \in {sunk, sunk \cup batch}
      /\ worker' = worker /\ result' = result
  BY DEF Flush, FlushOk, FlushFails, PhaseInv
<1>2. result = "running"
  BY <1>1 DEF PhaseInv, TypeOK
<1>3. batch \subseteq Yielded \ sunk
  BY <1>1 DEF TypeOK, WorkerInv, SinkInv, Yielded
<1>4. Tried' = Tried /\ Yielded' = Yielded
  BY <1>1 DEF Tried, Yielded
<1>5. QED
  BY <1>1, <1>2, <1>3, <1>4 DEF Contract!Next, Contract!Sink

LEMMA ReturnContract ==
  ASSUME PoolInv, Return PROVE [Contract!Next]_<<Tried, Yielded, sunk, result>>
<1> USE DEF PoolInv
<1>1. /\ coll = "final" /\ disp = "closed" /\ Held = {} /\ result = "running"
      /\ result' = Outcome /\ UNCHANGED <<worker, sunk>>
  BY DEF Return, PhaseInv
<1>2. Tried' = Tried /\ Yielded' = Yielded
  BY <1>1 DEF Tried, Yielded
<1>3. CASE Cancelled
  BY <1>1, <1>2, <1>3 DEF Outcome, Cancelled, Contract!Next, Contract!ReturnError
<1>4. CASE ~Cancelled
  <2>1. next = N + 1 /\ batch = {} /\ result' = "ok"
    BY <1>1, <1>4 DEF PhaseInv, Outcome, Cancelled
  <2>2. \A i \in Items : worker[i] \in {"sent", "nothing"}
    BY <1>1, <1>4, <2>1, PoolAssumption DEF WorkerInv, TypeOK, Held, Items
  <2>3. Tried = Items
    BY <2>2 DEF Tried
  <2>4. sunk = Yielded
    BY <1>4, <2>1, <2>2 DEF Yielded, SinkInv, WorkerInv, TypeOK, Cancelled
  <2>5. QED
    BY <1>1, <1>2, <2>1, <2>3, <2>4 DEF Contract!Next, Contract!ReturnOk
<1>5. QED
  BY <1>3, <1>4

LEMMA NextContract ==
  ASSUME PoolInv, PoolInv', [Next]_vars
  PROVE  [Contract!Next]_<<Tried, Yielded, sunk, result>>
<1>1. CASE Flush
  BY <1>1, SinkContract
<1>2. CASE Return
  BY <1>2, ReturnContract
<1>3. CASE \/ Dispatch
           \/ \E i \in Items :
                 (\E ok \in BOOLEAN : WorkEnds(i, ok)) \/ Drop(i) \/ Receive(i)
  BY <1>3, WorkerContract
<1>4. ASSUME UNCHANGED <<worker, sunk, result>>
      PROVE  UNCHANGED <<Tried, Yielded, sunk, result>>
  BY <1>4 DEF Tried, Yielded
<1>5. QED
  BY <1>1, <1>2, <1>3, <1>4
  DEF Next, PoolStep, vars, DispatchEnds, Close, ChannelClosed, NothingToFlush, CtxDone

\* Run keeps the contract its callers rely on: every step of the pool is a
\* step of BatchedWork or changes nothing of it.
THEOREM PoolKeepsContract == Spec => ImplementsContract
<1>1. Init => Contract!Init
  BY InitContract
<1>2. PoolInv /\ PoolInv' /\ [Next]_vars => [Contract!Next]_(Contract!vars)
  BY NextContract DEF Contract!vars
<1>3. QED
  BY <1>1, <1>2, PoolCorrect, PTL DEF Spec, ImplementsContract, Contract!Spec

-----------------------------------------------------------------------------
(* The job.                                                                *)

\* Sets of sites can be counted.
LEMMA SitesCounted ==
  ASSUME NEW B \in SUBSET Items, NEW A \in SUBSET B
  PROVE  Cardinality(A) \in Nat /\ Cardinality(B) \in Nat /\ Cardinality(A) <= Cardinality(B)
<1>1. IsFiniteSet(Items)
  BY FS_Interval, PoolAssumption DEF Items
<1>2. IsFiniteSet(A) /\ IsFiniteSet(B)
  BY <1>1, FS_Subset
<1>3. QED
  BY <1>2, FS_Subset, FS_CardinalityType

\* What a living process does to the pool is a step of Workpool or none.
LEMMA JobStepsPool ==
  ASSUME JobInv, JobNext, ~Crash PROVE phase # "dead" /\ phase' # "dead" /\ [Next]_vars
<1>1. CASE ScrapeEmails \/ Start \/ Finish
  BY <1>1 DEF ScrapeEmails, Start, Finish
<1>2. CASE Dispatcher
  BY <1>2 DEF Dispatcher, Live, jobVars, Next, PoolStep
<1>3. CASE Collector
  BY <1>3 DEF Collector, Live, jobVars, Next, PoolStep
<1>4. CASE SinkStep
  BY <1>4 DEF SinkStep, WriteBatch, WriteBatchFails, Live, Next, PoolStep, Flush
<1>5. ASSUME NEW i \in Items, SiteStep(i) PROVE phase # "dead" /\ phase' # "dead" /\ [Next]_vars
  <2>1. CASE Fetch(i) \/ Refuse(i)
    BY <2>1 DEF Fetch, Refuse, Live
  <2>2. CASE ScrapeOne(i)
    <3>1. Cancelled \in BOOLEAN
      BY DEF Cancelled
    <3>2. QED
      BY <2>2, <3>1 DEF ScrapeOne, Live, jobVars, Next, PoolStep
  <2>3. CASE DropResult(i)
    BY <2>3 DEF DropResult, Live, jobVars, Next, PoolStep
  <2>4. QED
    BY <1>5, <2>1, <2>2, <2>3 DEF SiteStep
<1>6. CASE Cancel
  <2>1. phase # "dead" /\ ctxErr \in BOOLEAN /\ phase' = phase
    BY <1>6 DEF Cancel, JobInv, PoolInv, TypeOK
  <2>2. CASE phase = "running" /\ ~ctxErr
    BY <1>6, <2>2, <2>1 DEF Cancel, CtxDone, Next
  <2>3. CASE ~(phase = "running" /\ ~ctxErr)
    <3>1. ctxErr' = ctxErr
      BY <1>6, <2>1, <2>3, Zenon DEF Cancel
    <3>2. QED
      BY <1>6, <2>1, <3>1 DEF Cancel, vars
  <2>4. QED
    BY <2>2, <2>3
<1>7. CASE Deadline
  BY <1>7 DEF Deadline, jobVars, Next
<1>8. QED
  BY <1>1, <1>2, <1>3, <1>4, <1>5, <1>6, <1>7 DEF JobNext

LEMMA InitJob == JobInit => JobInv
<1> SUFFICES ASSUME JobInit PROVE JobInv
  OBVIOUS
<1>1. PoolInv
  BY InitPool DEF JobInit
<1>2. SitesInv
  BY DEF JobInit, Init, SitesInv
<1>3. RowInv
  <2>1. Cardinality(sunk) \in Nat
    BY SitesCounted DEF JobInit, Init
  <2>2. QED
    BY <2>1 DEF JobInit, Init, RowInv
<1>4. QED
  BY <1>1, <1>2, <1>3 DEF JobInv, PoolInv

\* A run that returns without an error left no site out.
LEMMA OkMeansAll ==
  ASSUME PoolInv, SitesInv, coll = "final", ~Cancelled
  PROVE  \A i \in Items : i \in fetched \cup refused /\ i \in sunk
<1> USE DEF PoolInv
<1>1. next = N + 1 /\ Held = {} /\ batch = {} /\ ~sinkErr
  BY DEF PhaseInv, Cancelled
<1> SUFFICES ASSUME NEW i \in Items PROVE i \in fetched \cup refused /\ i \in sunk
  OBVIOUS
<1>2. worker[i] # "none"
  BY <1>1, PoolAssumption DEF WorkerInv, Items
<1>3. worker[i] \notin {"working", "sending"}
  BY <1>1 DEF Held
<1>4. worker[i] = "sent"
  BY <1>2, <1>3 DEF SitesInv, WorkerInv, TypeOK
<1>5. QED
  BY <1>1, <1>4 DEF SitesInv, SinkInv

LEMMA SitesKept ==
  ASSUME JobInv, JobNext, ~Crash PROVE SitesInv'
<1>1. PoolInv /\ SitesInv /\ RowInv
  BY JobStepsPool DEF JobInv
<1> USE DEF SitesInv
<1>2. CASE ScrapeEmails \/ Start \/ Finish
  BY <1>1, <1>2 DEF ScrapeEmails, Start, Finish, vars, Cancelled
<1>3. CASE Dispatcher
  <2>1. UNCHANGED <<fetched, refused, sunk, result, ctxErr, sinkErr>>
    BY <1>3 DEF Dispatcher, Dispatch, DispatchEnds, Close, jobVars
  <2>2. worker' \in {worker, [worker EXCEPT ![next] = "working"]}
    BY <1>3 DEF Dispatcher, Dispatch, DispatchEnds, Close
  <2>3. QED
    BY <1>1, <2>1, <2>2 DEF PoolInv, TypeOK, Cancelled
<1>4. CASE Collector
  <2>1. UNCHANGED <<fetched, refused, sunk, ctxErr, sinkErr>>
    BY <1>4 DEF Collector, Receive, ChannelClosed, NothingToFlush, Return, jobVars
  <2>2. ASSUME NEW i \in Items, Receive(i) PROVE SitesInv'
    <3>1. worker[i] = "sending" /\ worker' = [worker EXCEPT ![i] = "sent"] /\ result' = result
      BY <2>2 DEF Receive
    <3>2. QED
      BY <1>1, <2>1, <3>1 DEF PoolInv, TypeOK, Cancelled
  <2>3. CASE ChannelClosed \/ NothingToFlush
    BY <1>1, <2>1, <2>3 DEF ChannelClosed, NothingToFlush, Cancelled
  <2>4. CASE Return
    <3>1. worker' = worker /\ coll = "final" /\ result' = Outcome
      BY <2>4 DEF Return
    <3>2. result' = "ok" => ~Cancelled
      BY <3>1 DEF Outcome, Cancelled
    <3>3. result' = "ok" => \A i \in Items : i \in fetched \cup refused /\ i \in sunk
      BY <1>1, <3>1, <3>2, OkMeansAll
    <3>4. QED
      BY <1>1, <2>1, <3>1, <3>3 DEF Cancelled
  <2>5. QED
    BY <1>4, <2>2, <2>3, <2>4 DEF Collector
<1>5. CASE SinkStep
  <2>1. UNCHANGED <<fetched, refused, worker, result>> /\ sunk' \in {sunk, sunk \cup batch}
        /\ (Cancelled => Cancelled')
    BY <1>5 DEF SinkStep, WriteBatch, WriteBatchFails, FlushOk, FlushFails, Cancelled
  <2>2. QED
    BY <1>1, <2>1
<1>6. ASSUME NEW i \in Items, SiteStep(i) PROVE SitesInv'
  <2>1. UNCHANGED <<sunk, result, ctxErr, sinkErr>>
    BY <1>6 DEF SiteStep, Fetch, Refuse, ScrapeOne, DropResult, WorkEnds, Drop, vars
  <2>2. CASE Fetch(i) \/ Refuse(i)
    BY <1>1, <2>1, <2>2 DEF Fetch, Refuse, vars, Cancelled
  <2>3. CASE ScrapeOne(i)
    BY <1>1, <2>1, <2>3 DEF ScrapeOne, WorkEnds, jobVars, PoolInv, TypeOK, Cancelled
  <2>4. CASE DropResult(i)
    BY <1>1, <2>1, <2>4 DEF DropResult, Drop, jobVars, PoolInv, TypeOK, Cancelled
  <2>5. QED
    BY <1>6, <2>2, <2>3, <2>4 DEF SiteStep
<1>7. CASE Cancel \/ Deadline
  <2>1. UNCHANGED <<fetched, refused, sunk, worker, result, sinkErr>>
    BY <1>7 DEF Cancel, Deadline, CtxDone, jobVars
  <2>2. ctxErr => ctxErr'
    BY <1>7, Zenon DEF Cancel, Deadline, CtxDone
  <2>3. Cancelled => Cancelled'
    BY <2>1, <2>2 DEF Cancelled
  <2>4. QED
    BY <1>1, <2>1, <2>3
<1>8. QED
  BY <1>2, <1>3, <1>4, <1>5, <1>6, <1>7 DEF JobNext

LEMMA RowKept ==
  ASSUME JobInv, JobNext, ~Crash PROVE RowInv'
<1>1. PoolInv /\ SitesInv /\ RowInv /\ PoolInv'
  BY JobStepsPool, NextPool DEF JobInv
<1> USE DEF RowInv
<1>2. CASE ScrapeEmails \/ Start
  BY <1>1, <1>2 DEF ScrapeEmails, Start, vars
<1>3. CASE Finish
  <2>1. UNCHANGED <<progress, sunk, fetched, refused, coll, result>> /\ coll = "returned"
        /\ phase = "running"
    BY <1>3 DEF Finish, vars, RunOver
  <2>2. state' = state \/ (phase' = "over" /\ state' \in FinalStates)
    BY <1>3 DEF Finish
  <2>3. phase' \in {"over", "lost"}
    BY <1>3 DEF Finish
  <2>4. result \in {"ok", "sink", "ctx"}
    BY <1>1, <2>1 DEF PoolInv, TypeOK, PhaseInv
  <2>5. state' \in FinalStates =>
          state' \in {"done", "failed", "canceled"} /\ (state' = "done" => result = "ok")
    BY <2>4 DEF FinalStates
  <2>6. state' = state => state' \in {"none", "running"}
    BY <1>1, <2>1
  <2>7. QED
    BY <1>1, <2>1, <2>2, <2>3, <2>5, <2>6
<1>4. CASE Dispatcher \/ Collector \/ \E i \in Items : SiteStep(i)
  <2>1. UNCHANGED <<state, progress, phase, sunk>>
    BY <1>4 DEF Dispatcher, Dispatch, DispatchEnds, Close, Collector, Receive, ChannelClosed,
                NothingToFlush, Return, SiteStep, Fetch, Refuse, ScrapeOne, DropResult, WorkEnds,
                Drop, jobVars, vars
  <2>2. fetched' \subseteq Items /\ refused' \subseteq Items
    BY <1>1, <1>4 DEF Dispatcher, Collector, SiteStep, Fetch, Refuse, ScrapeOne, DropResult, jobVars
  <2>3. coll = "returned" => coll' = "returned" /\ result' = result
    BY <1>4 DEF Dispatcher, Dispatch, DispatchEnds, Close, Collector, Receive, ChannelClosed,
                NothingToFlush, Return, SiteStep, Fetch, Refuse, ScrapeOne, DropResult, WorkEnds,
                Drop, jobVars, vars
  <2>4. QED
    BY <1>1, <2>1, <2>2, <2>3
<1>5. CASE SinkStep
  <2>1. UNCHANGED <<state, phase, fetched, refused>> /\ coll \in {"flush", "end"}
        /\ sunk' \in {sunk, sunk \cup batch}
        /\ progress' \in {progress, Cardinality(sunk')}
    BY <1>5 DEF SinkStep, WriteBatch, WriteBatchFails, FlushOk, FlushFails, ProgressOnFailure
  <2>2. sunk' \subseteq Items /\ sunk \subseteq sunk'
    BY <1>1, <2>1 DEF PoolInv, TypeOK
  <2>3. Cardinality(sunk) \in Nat /\ Cardinality(sunk') \in Nat
        /\ Cardinality(sunk) <= Cardinality(sunk')
    BY <2>2, SitesCounted
  <2>4. progress' \in Nat /\ progress' <= Cardinality(sunk')
    BY <1>1, <2>1, <2>3
  <2>5. state \in {"none", "running"}
    BY <1>1, <2>1
  <2>6. QED
    BY <1>1, <2>1, <2>2, <2>4, <2>5
<1>6. CASE Cancel \/ Deadline
  BY <1>1, <1>6 DEF Cancel, Deadline, CtxDone, jobVars
<1>7. QED
  BY <1>2, <1>3, <1>4, <1>5, <1>6 DEF JobNext

\* The process dies, with the write under way applied or not.
LEMMA CrashJob ==
  ASSUME JobInv, Crash PROVE JobInv'
<1>1. phase' = "dead" /\ sunk' \in {sunk, sunk \cup batch}
      /\ UNCHANGED <<worker, coll, calls, sinkErr, ctxErr, result, state, progress, fetched, refused>>
  BY DEF Crash
<1>2. PoolInv /\ SitesInv /\ RowInv
  BY DEF JobInv, Crash
<1>3. sunk' \subseteq Items /\ sunk \subseteq sunk'
  BY <1>1, <1>2 DEF PoolInv, TypeOK
<1>4. GivenOnce'
  BY <1>1, <1>2 DEF PoolInv, GivenOnce
<1>5. SitesInv'
  BY <1>1, <1>2, <1>3 DEF SitesInv, Cancelled
<1>6. RowInv'
  <2>1. Cardinality(sunk) \in Nat /\ Cardinality(sunk') \in Nat
        /\ Cardinality(sunk) <= Cardinality(sunk')
    BY <1>3, SitesCounted
  <2>2. QED
    BY <1>1, <1>2, <1>3, <2>1 DEF RowInv
<1>7. QED
  BY <1>1, <1>4, <1>5, <1>6 DEF JobInv

LEMMA NextJob == JobInv /\ [JobNext]_allVars => JobInv'
<1> SUFFICES ASSUME JobInv, [JobNext]_allVars PROVE JobInv'
  OBVIOUS
<1>1. CASE UNCHANGED allVars
  <2>1. UNCHANGED vars /\ UNCHANGED jobVars
    BY <1>1 DEF allVars
  <2>2. PoolInv => PoolInv'
    BY <2>1, NextPool
  <2>3. SitesInv' /\ RowInv' /\ GivenOnce' /\ phase' = phase
    BY <2>1 DEF JobInv, SitesInv, RowInv, GivenOnce, vars, jobVars, Cancelled
  <2>4. QED
    BY <2>2, <2>3 DEF JobInv
<1>2. CASE Crash
  BY <1>2, CrashJob
<1>3. CASE JobNext /\ ~Crash
  <2>1. PoolInv'
    BY <1>3, JobStepsPool, NextPool DEF JobInv
  <2>2. QED
    BY <1>3, <2>1, SitesKept, RowKept DEF JobInv, PoolInv
<1>4. QED
  BY <1>1, <1>2, <1>3

\* Every state of a job is of its type, and its row, its sheet and its pool of
\* workers agree, for any number of sites and workers.
THEOREM JobCorrect == JobSpec => []JobInv
<1>1. JobInit => JobInv
  BY InitJob
<1>2. JobInv /\ [JobNext]_allVars => JobInv'
  BY NextJob
<1>3. QED
  BY <1>1, <1>2, PTL DEF JobSpec

\* The row of a job says no more than was done: "done" means that every site was
\* asked, or refused its turn by the limiter, and its result is in the sheet, and the
\* progress is never ahead of the sheet (scrapeAll, UpdateProgress, Finish).
THEOREM RowIsTrue == JobSpec => []RowTellsTruth
<1>1. JobInv => RowTellsTruth
  BY DEF JobInv, SitesInv, RowInv, RowTellsTruth, DoneMeansAll, ProgressInSheet
<1>2. QED
  BY <1>1, JobCorrect, PTL

\* The sheet is given the result of a site at most once, whatever fails and
\* wherever the process dies (WriteResults under workpool.Run).
THEOREM SheetGivenOnce == JobSpec => []GivenOnce
<1>1. JobInv => GivenOnce
  BY DEF JobInv
<1>2. QED
  BY <1>1, JobCorrect, PTL

-----------------------------------------------------------------------------
LEMMA ClosedStays ==
  ASSUME JobInv, [JobNext]_allVars, state \notin {"none", "running"}
  PROVE  UNCHANGED <<state, progress, sunk, fetched, refused>>
<1>1. phase \in {"over", "dead"} /\ coll = "returned"
  BY DEF JobInv, RowInv
<1>2. CASE UNCHANGED allVars
  BY <1>2 DEF allVars, vars, jobVars
<1>3. CASE Crash
  BY <1>1, <1>3 DEF Crash
<1>4. CASE JobNext /\ ~Crash
  <2>1. phase = "over" /\ PoolInv
    BY <1>1, <1>4, JobStepsPool DEF JobInv
  <2>2. Held = {}
    BY <1>1, <2>1 DEF PoolInv, PhaseInv
  <2>3. CASE ScrapeEmails \/ Start \/ Finish
    BY <2>1, <2>3 DEF ScrapeEmails, Start, Finish
  <2>4. CASE Dispatcher \/ Collector
    BY <2>4 DEF Dispatcher, Dispatch, DispatchEnds, Close, Collector, Receive, ChannelClosed,
                NothingToFlush, Return, jobVars
  <2>5. CASE SinkStep
    BY <1>1, <2>5 DEF SinkStep, WriteBatch, WriteBatchFails, FlushOk, FlushFails
  <2>6. ASSUME NEW i \in Items, SiteStep(i) PROVE FALSE
    BY <2>2, <2>6 DEF SiteStep, Fetch, Refuse, ScrapeOne, DropResult, WorkEnds, Drop, Held
  <2>7. CASE Cancel \/ Deadline
    BY <2>7 DEF Cancel, Deadline, CtxDone, jobVars
  <2>8. QED
    BY <1>4, <2>3, <2>4, <2>5, <2>6, <2>7 DEF JobNext
<1>5. QED
  BY <1>2, <1>3, <1>4

\* A job that is closed is over: nothing of it changes the row or the sheet or
\* asks for a page any more (Finish comes after Run has returned).
THEOREM ClosedJobIsFinal == JobSpec => ClosedIsFinal
<1>1. JobInv /\ [JobNext]_allVars =>
        [state \notin {"none", "running"} => UNCHANGED <<state, progress, sunk, fetched, refused>>]_allVars
  BY ClosedStays
<1>2. QED
  BY <1>1, JobCorrect, PTL DEF JobSpec, ClosedIsFinal

-----------------------------------------------------------------------------
LEMMA JobContract ==
  ASSUME JobInv, JobInv', [JobNext]_allVars
  PROVE  [Contract!Next]_<<Tried, Yielded, sunk, result>>
<1>1. CASE UNCHANGED allVars
  BY <1>1 DEF allVars, vars, Tried, Yielded
<1>2. CASE Crash
  <2>1. PoolInv /\ worker' = worker /\ result' = result
    BY <1>2 DEF JobInv, Crash
  <2>2. Tried' = Tried /\ Yielded' = Yielded
    BY <2>1 DEF Tried, Yielded
  <2>3. sunk' = sunk \/ (coll \in {"flush", "end"} /\ sunk' = sunk \cup batch)
    BY <1>2 DEF Crash
  <2>4. CASE coll \in {"flush", "end"} /\ sunk' = sunk \cup batch
    <3>1. result = "running" /\ ~sinkErr
      BY <2>1, <2>4 DEF PoolInv, PhaseInv, TypeOK
    <3>2. batch \subseteq Yielded \ sunk
      BY <2>1, <3>1 DEF PoolInv, TypeOK, WorkerInv, SinkInv, Yielded
    <3>3. QED
      BY <2>1, <2>2, <2>4, <3>1, <3>2 DEF Contract!Next, Contract!Sink
  <2>5. QED
    BY <2>1, <2>2, <2>3, <2>4
<1>3. CASE JobNext /\ ~Crash
  <2>1. PoolInv /\ PoolInv' /\ [Next]_vars
    BY <1>3, JobStepsPool DEF JobInv
  <2>2. QED
    BY <2>1, NextContract
<1>4. QED
  BY <1>1, <1>2, <1>3

\* A whole job, with its deadline, its cancellations and the death of its
\* process, keeps the contract of workpool.Run: no site is tried twice, nothing
\* is written twice, and no error means that all that was found is written.
THEOREM JobKeepsContract == JobSpec => ImplementsContract
<1>1. JobInit => Contract!Init
  BY InitContract DEF JobInit
<1>2. JobInv /\ JobInv' /\ [JobNext]_allVars => [Contract!Next]_(Contract!vars)
  BY JobContract DEF Contract!vars
<1>3. QED
  BY <1>1, <1>2, JobCorrect, PTL DEF JobSpec, ImplementsContract, Contract!Spec

-----------------------------------------------------------------------------
(* The prompt variants.                                                    *)

\* A weak candidate does not beat the champion it is weaker than.
LEMMA WeakDoesNotBeat ==
  ASSUME VariantTypeOK, NEW v \in Weak PROVE ~Beats(v)
<1>1. v \in Variants /\ stats[v].est \in Estimates /\ stats[v].est.high < Bar
  BY DEF Weak, Candidates, VariantTypeOK, Stat
<1>2. stats[v].est.low < stats[v].est.mean /\ stats[v].est.mean < stats[v].est.high
      /\ stats[v].est.low \in Nat /\ stats[v].est.mean \in Nat /\ stats[v].est.high \in Nat
  BY <1>1, EstimateAssumption
<1>3. Champions(status) # {}
  BY DEF Weak
<1>4. PICK c \in Variants : Bar = stats[c].est.mean
  BY <1>3 DEF Bar, Champions
<1>5. stats[c].est \in Estimates
  BY DEF VariantTypeOK, Stat
<1>6. Bar \in Nat
  BY <1>4, <1>5, EstimateAssumption
<1>7. QED
  BY <1>1, <1>2, <1>6 DEF Beats

LEMMA OldIsChampion ==
  Champions(status) # {} => OldChampion \in Champions(status)
  BY DEF OldChampion

LEMMA FiniteCandidates ==
  IsFiniteSet(Candidates(status)) /\ IsFiniteSet(Candidates(status)')
<1>1. Candidates(status) \subseteq Variants /\ Candidates(status)' \subseteq Variants
  BY DEF Candidates
<1>2. QED
  BY <1>1, SizesAssumption, FS_Subset

\* Candidates that only become fewer keep the room there is.
LEMMA FewerCandidates ==
  ASSUME RoomInv,
         Candidates(status)' \subseteq Candidates(status),
         evolver' = "insert" => evolver = "insert"
  PROVE  RoomInv'
<1>1. /\ Cardinality(Candidates(status)') <= Cardinality(Candidates(status))
      /\ Cardinality(Candidates(status)) \in Nat
      /\ Cardinality(Candidates(status)') \in Nat
  BY FiniteCandidates, FS_Subset, FS_CardinalityType
<1>2. MaxCandidates \in Nat
  BY SizesAssumption
<1>3. QED
  BY <1>1, <1>2 DEF RoomInv, CandidatesBounded

-----------------------------------------------------------------------------
LEMMA InitVariants == VariantInit => VariantInv
<1> SUFFICES ASSUME VariantInit PROVE VariantInv
  OBVIOUS
<1>1. PICK v \in Variants :
        status = [x \in Variants |-> IF x = v THEN "champion" ELSE "none"]
  BY DEF VariantInit
<1>2. Candidates(status) = {} /\ OneChampionInv
  BY <1>1 DEF Candidates, Champions, OneChampionInv
<1>3. failures \in 0..MaxFailures /\ crashes \in 0..MaxCrashes
  BY SizesAssumption DEF VariantInit
<1>4. VariantTypeOK
  <2>1. up \in BOOLEAN
    BY Zenon DEF VariantInit
  <2>2. QED
    BY <1>1, <1>3, <2>1 DEF VariantInit, VariantTypeOK, Resting
<1>5. RunInv
  BY DEF VariantInit, RunInv, Resting
<1>6. RoomInv
  <2>1. Cardinality(Candidates(status)) = 0
    BY <1>2, FS_EmptySet
  <2>2. evolver # "insert"
    BY DEF VariantInit
  <2>3. QED
    BY <2>1, <2>2, SizesAssumption DEF RoomInv, CandidatesBounded
<1>7. QED
  BY <1>2, <1>4, <1>5, <1>6 DEF VariantInv

\* What a statement of the promoter does to the statuses.
LEMMA SetsStatusType ==
  ASSUME VariantTypeOK, NEW v \in Variants, NEW s \in {"retired", "champion"},
         NEW ok \in BOOLEAN, SetsStatus(v, s, ok)
  PROVE  /\ failures' \in 0..MaxFailures
         /\ status' \in [Variants -> {"none", "candidate", "champion", "retired"}]
         /\ \A x \in Variants \ {v} : status'[x] = status[x]
         /\ status'[v] \in {status[v], s}
         /\ ok => status'[v] = s
<1>1. failures' \in 0..MaxFailures
  BY SizesAssumption DEF SetsStatus, VariantTypeOK
<1>2. QED
  BY <1>1 DEF SetsStatus, VariantTypeOK

LEMMA TickVariants ==
  ASSUME VariantInv, PromoteTick PROVE VariantInv'
<1> USE DEF VariantInv
<1>1. PICK best \in (IF Best = {} THEN {NoVariant} ELSE Best) :
        promoter' = [pc |-> IF Weak = {} THEN AfterWeak(best, OldChampion) ELSE "weak",
                     weak |-> Weak, best |-> best, old |-> OldChampion]
  BY DEF PromoteTick
<1>2. up /\ UNCHANGED <<status, stats, evolver, up, failures, crashes>>
  BY DEF PromoteTick
<1>3. Weak \subseteq Candidates(status) /\ Candidates(status) \subseteq Variants
  BY DEF Weak, Candidates
<1>4. best # NoVariant => best \in Candidates(status) \ Weak
  <2>1. ASSUME best # NoVariant PROVE best \in Candidates(status) /\ Beats(best)
    BY <2>1 DEF Best
  <2>2. QED
    BY <2>1, WeakDoesNotBeat
<1>5. Champions(status) = IF OldChampion = NoVariant THEN {} ELSE {OldChampion}
  <2>1. CASE Champions(status) = {}
    BY <2>1 DEF OldChampion
  <2>2. CASE Champions(status) # {}
    BY <2>2, OldIsChampion, SizesAssumption DEF OneChampionInv, Champions
  <2>3. QED
    BY <2>1, <2>2
<1>6. OldChampion \in Variants \cup {NoVariant}
  BY OldIsChampion DEF OldChampion, Champions
<1>7. VariantTypeOK'
  BY <1>1, <1>2, <1>3, <1>4, <1>6 DEF VariantTypeOK, AfterWeak
<1>8. promoter'.pc = (IF Weak = {} THEN AfterWeak(best, OldChampion) ELSE "weak")
      /\ promoter'.weak = Weak /\ promoter'.best = best /\ promoter'.old = OldChampion
  BY <1>1
<1>9. RunInv'
  BY <1>2, <1>3, <1>4, <1>5, <1>8 DEF RunInv, AfterWeak, Candidates
<1>10. OneChampionInv' /\ RoomInv'
  BY <1>2 DEF OneChampionInv, RoomInv, CandidatesBounded
<1>11. QED
  BY <1>7, <1>9, <1>10

LEMMA WeakVariants ==
  ASSUME VariantInv, NEW v \in Variants, NEW ok \in BOOLEAN, RetireWeak(v, ok)
  PROVE  VariantInv' /\ \A x \in Variants : status[x] = "retired" => status'[x] = "retired"
<1> USE DEF VariantInv
<1> DEFINE left == promoter.weak \ {v}
<1>1. /\ up /\ promoter.pc = "weak" /\ v \in promoter.weak
      /\ SetsStatus(v, "retired", ok)
      /\ promoter' = [promoter EXCEPT !.weak = left,
                        !.pc = IF left = {} THEN AfterWeak(promoter.best, promoter.old)
                                            ELSE "weak"]
      /\ UNCHANGED <<stats, evolver, up, crashes>>
  BY DEF RetireWeak
<1>2. /\ failures' \in 0..MaxFailures
      /\ status' \in [Variants -> {"none", "candidate", "champion", "retired"}]
      /\ \A x \in Variants \ {v} : status'[x] = status[x]
      /\ status'[v] \in {status[v], "retired"}
  BY <1>1, SetsStatusType
<1>3. status[v] = "candidate"
  BY <1>1 DEF RunInv, Candidates
<1>4. Champions(status)' = Champions(status)
      /\ Candidates(status)' \subseteq Candidates(status)
  BY <1>2, <1>3 DEF Champions, Candidates
<1>5. /\ promoter'.weak = left /\ promoter'.best = promoter.best
      /\ promoter'.old = promoter.old
      /\ promoter'.pc = IF left = {} THEN AfterWeak(promoter.best, promoter.old) ELSE "weak"
  BY <1>1 DEF VariantTypeOK
<1>6. VariantTypeOK'
  BY <1>1, <1>2 DEF VariantTypeOK, AfterWeak
<1>7. promoter.best # NoVariant => status'[promoter.best] = "candidate"
  BY <1>1, <1>2 DEF RunInv, VariantTypeOK
<1>8. left \subseteq Candidates(status)'
  BY <1>1, <1>2 DEF RunInv, Candidates
<1>9. RunInv'
  BY <1>1, <1>4, <1>5, <1>7, <1>8 DEF RunInv, AfterWeak
<1>10. OneChampionInv' /\ RoomInv'
  BY <1>1, <1>4, FewerCandidates DEF OneChampionInv
<1>11. QED
  BY <1>2, <1>3, <1>6, <1>9, <1>10

LEMMA ChampionVariants ==
  ASSUME VariantInv, NEW ok \in BOOLEAN, RetireChampion(ok) \/ SetChampion(ok)
  PROVE  VariantInv' /\ \A x \in Variants : status[x] = "retired" => status'[x] = "retired"
<1> USE DEF VariantInv
<1>1. CASE RetireChampion(ok)
  <2>1. /\ up /\ promoter.pc = "retire" /\ SetsStatus(promoter.old, "retired", ok)
        /\ promoter' = AfterRetire(ok)
        /\ UNCHANGED <<stats, evolver, up, crashes>>
    BY <1>1 DEF RetireChampion
  <2>2. /\ promoter.old \in Variants /\ Champions(status) = {promoter.old}
        /\ promoter.best \in Variants /\ status[promoter.best] = "candidate"
    BY <2>1 DEF RunInv, VariantTypeOK
  <2>3. status[promoter.old] = "champion" /\ promoter.old # promoter.best
    BY <2>2 DEF Champions
  <2>4. /\ failures' \in 0..MaxFailures
        /\ status' \in [Variants -> {"none", "candidate", "champion", "retired"}]
        /\ \A x \in Variants \ {promoter.old} : status'[x] = status[x]
        /\ status'[promoter.old] \in {status[promoter.old], "retired"}
        /\ ok => status'[promoter.old] = "retired"
    BY <2>1, <2>2, SetsStatusType
  <2>5. Champions(status)' \subseteq Champions(status)
        /\ Candidates(status)' \subseteq Candidates(status)
        /\ (ok => Champions(status)' = {})
    BY <2>2, <2>3, <2>4 DEF Champions, Candidates
  <2>6. promoter' = (IF ok THEN [promoter EXCEPT !.pc = "promote"] ELSE Resting)
    BY <2>1 DEF AfterRetire
  <2>7. VariantTypeOK'
    BY <2>1, <2>4, <2>6 DEF VariantTypeOK, Resting
  <2>8. RunInv'
    <3>1. CASE ok
      <4>1. /\ promoter'.pc = "promote" /\ promoter'.best = promoter.best
            /\ promoter'.weak = promoter.weak
        BY <2>6, <3>1 DEF VariantTypeOK
      <4>2. status'[promoter.best] = "candidate"
        BY <2>2, <2>3, <2>4
      <4>3. QED
        BY <2>1, <2>5, <3>1, <4>1, <4>2 DEF RunInv
    <3>2. CASE ~ok
      BY <2>1, <2>6, <3>2 DEF RunInv, Resting
    <3>3. QED
      BY <3>1, <3>2
  <2>9. OneChampionInv' /\ RoomInv'
    BY <2>1, <2>5, FewerCandidates DEF OneChampionInv
  <2>10. QED
    BY <2>3, <2>4, <2>7, <2>8, <2>9
<1>2. CASE SetChampion(ok)
  <2>1. /\ up /\ promoter.pc = "promote" /\ SetsStatus(promoter.best, "champion", ok)
        /\ promoter' = Resting
        /\ UNCHANGED <<stats, evolver, up, crashes>>
    BY <1>2 DEF SetChampion
  <2>2. /\ Champions(status) = {}
        /\ promoter.best \in Variants /\ status[promoter.best] = "candidate"
    BY <2>1 DEF RunInv, VariantTypeOK
  <2>3. /\ failures' \in 0..MaxFailures
        /\ status' \in [Variants -> {"none", "candidate", "champion", "retired"}]
        /\ \A x \in Variants \ {promoter.best} : status'[x] = status[x]
        /\ status'[promoter.best] \in {status[promoter.best], "champion"}
    BY <2>1, <2>2, SetsStatusType
  <2>4. Champions(status)' \subseteq {promoter.best}
        /\ Candidates(status)' \subseteq Candidates(status)
    BY <2>2, <2>3 DEF Champions, Candidates
  <2>5. VariantTypeOK'
    BY <2>1, <2>3 DEF VariantTypeOK, Resting
  <2>6. RunInv'
    BY <2>1 DEF RunInv, Resting
  <2>7. OneChampionInv' /\ RoomInv'
    BY <2>1, <2>4, FewerCandidates DEF OneChampionInv
  <2>8. QED
    BY <2>2, <2>3, <2>5, <2>6, <2>7
<1>3. QED
  BY <1>1, <1>2

LEMMA EvolverVariants ==
  ASSUME VariantInv,
         EvolveTick \/ EvolveGivesUp \/ \E v \in Variants : InsertCandidate(v)
  PROVE  VariantInv' /\ \A x \in Variants : status[x] = "retired" => status'[x] = "retired"
<1> USE DEF VariantInv
<1>1. CASE EvolveTick \/ EvolveGivesUp
  <2>1. UNCHANGED <<status, stats, promoter, up, failures, crashes>>
        /\ up /\ evolver' \in {"idle", "insert"}
        /\ (evolver' = "insert" => CandidateRoom)
    BY <1>1 DEF EvolveTick, EvolveGivesUp
  <2>2. VariantTypeOK' /\ OneChampionInv'
    BY <2>1 DEF VariantTypeOK, OneChampionInv
  <2>3. RunInv'
    BY <2>1 DEF RunInv
  <2>4. RoomInv'
    BY <2>1 DEF RoomInv, CandidatesBounded, CandidateRoom
  <2>5. QED
    BY <2>1, <2>2, <2>3, <2>4
<1>2. ASSUME NEW v \in Variants, InsertCandidate(v)
      PROVE  VariantInv' /\ \A x \in Variants : status[x] = "retired" => status'[x] = "retired"
  <2>1. /\ status[v] = "none" /\ status' = [status EXCEPT ![v] = "candidate"]
        /\ evolver = "insert" /\ evolver' = "idle" /\ up
        /\ UNCHANGED <<stats, promoter, up, failures, crashes>>
    BY <1>2 DEF InsertCandidate
  <2>2. Champions(status)' = Champions(status)
        /\ Candidates(status)' = Candidates(status) \cup {v}
    BY <2>1 DEF Champions, Candidates, VariantTypeOK
  <2>3. VariantTypeOK' /\ OneChampionInv'
    BY <2>1, <2>2 DEF VariantTypeOK, OneChampionInv
  <2>4. \A x \in Variants : status[x] = "candidate" => status'[x] = "candidate"
    BY <2>1 DEF VariantTypeOK
  <2>5. RunInv'
    BY <2>1, <2>2, <2>4 DEF RunInv, VariantTypeOK
  <2>6. RoomInv'
    <3> DEFINE before == Cardinality(Candidates(status))
               after == Cardinality(Candidates(status) \cup {v})
    <3>1. before < MaxCandidates
      BY <2>1 DEF RoomInv
    <3>2. v \notin Candidates(status)
      BY <2>1 DEF Candidates
    <3>3. after = before + 1
      BY <3>2, FiniteCandidates, FS_AddElement
    <3>4. before \in Nat
      BY FiniteCandidates, FS_CardinalityType
    <3>5. after <= MaxCandidates
      <4> HIDE DEF before, after
      <4>1. QED
        BY <3>1, <3>3, <3>4, SizesAssumption
    <3>6. Cardinality(Candidates(status))' = after
      BY <2>2
    <3>7. evolver' # "insert"
      BY <2>1
    <3>8. CandidatesBounded'
      BY <3>5, <3>6 DEF CandidatesBounded
    <3>9. QED
      BY <3>7, <3>8 DEF RoomInv
  <2>7. QED
    BY <2>1, <2>3, <2>5, <2>6 DEF VariantTypeOK
<1>3. QED
  BY <1>1, <1>2

LEMMA ProcessVariants ==
  ASSUME VariantInv, ShutDown \/ \E ok \in BOOLEAN : Boot(ok)
  PROVE  VariantInv' /\ \A x \in Variants : status[x] = "retired" => status'[x] = "retired"
<1> USE DEF VariantInv
<1>1. CASE ShutDown
  <2>1. UNCHANGED <<status, stats, failures>> /\ promoter' = Resting /\ evolver' = "idle"
        /\ crashes < MaxCrashes /\ crashes' = crashes + 1
    BY <1>1 DEF ShutDown
  <2>2. up' \in BOOLEAN
    BY <1>1, Zenon DEF ShutDown
  <2>3. crashes' \in 0..MaxCrashes
    BY <2>1, SizesAssumption DEF VariantTypeOK
  <2>4. VariantTypeOK'
    <3>1. /\ status' \in [Variants -> {"none", "candidate", "champion", "retired"}]
          /\ stats' \in [Variants -> Stat] /\ failures' \in 0..MaxFailures
      BY <2>1 DEF VariantTypeOK
    <3>2. /\ evolver' \in {"idle", "insert"}
          /\ promoter' \in [pc: {"idle", "weak", "retire", "promote"},
                            weak: SUBSET Variants, best: Variants \cup {NoVariant},
                            old: Variants \cup {NoVariant}]
      BY <2>1 DEF Resting
    <3>3. QED
      BY <2>2, <2>3, <3>1, <3>2, Zenon DEF VariantTypeOK
  <2>5. OneChampionInv'
    BY <2>1 DEF OneChampionInv
  <2>6. RunInv'
    BY <2>1 DEF RunInv, Resting
  <2>7. Candidates(status)' \subseteq Candidates(status)
    BY <2>1
  <2>8. RoomInv'
    BY <2>1, <2>7, FewerCandidates
  <2>9. QED
    BY <2>1, <2>4, <2>5, <2>6, <2>8
<1>2. ASSUME NEW ok \in BOOLEAN, Boot(ok)
      PROVE  VariantInv' /\ \A x \in Variants : status[x] = "retired" => status'[x] = "retired"
  <2>1. ~up /\ up' /\ UNCHANGED <<stats, promoter, evolver, crashes>>
        /\ promoter = Resting /\ evolver = "idle"
    BY <1>2, Zenon DEF Boot, RunInv
  <2>2. failures' \in 0..MaxFailures
    BY <1>2, SizesAssumption DEF Boot, VariantTypeOK
  <2>3. \/ status' = status
        \/ /\ Champions(status) = {}
           /\ \E v \in Variants : /\ status[v] = "none"
                                  /\ status' = [status EXCEPT ![v] = "champion"]
    BY <1>2 DEF Boot, NeedsSeed
  <2>4. up' \in BOOLEAN
    BY <1>2, Zenon DEF Boot
  <2>5. VariantTypeOK'
    BY <2>1, <2>2, <2>3, <2>4 DEF VariantTypeOK
  <2>6. OneChampionInv' /\ Candidates(status)' \subseteq Candidates(status)
    BY <2>3 DEF OneChampionInv, Champions, Candidates, VariantTypeOK
  <2>7. RunInv'
    BY <2>1 DEF RunInv, Resting
  <2>8. RoomInv'
    BY <2>1, <2>6, FewerCandidates
  <2>9. QED
    BY <2>3, <2>5, <2>6, <2>7, <2>8 DEF VariantTypeOK
<1>3. QED
  BY <1>1, <1>2

LEMMA NextVariants ==
  ASSUME VariantInv, [VariantNext]_variantVars
  PROVE  VariantInv' /\ \A x \in Variants : status[x] = "retired" => status'[x] = "retired"
<1>1. CASE UNCHANGED variantVars
  BY <1>1 DEF variantVars, VariantInv, VariantTypeOK, RunInv, OneChampionInv, RoomInv, CandidatesBounded
<1>2. CASE PromoteTick
  BY <1>2, TickVariants DEF PromoteTick
<1>3. ASSUME NEW v \in Variants, Restat(v)
      PROVE  VariantInv' /\ status' = status
  <2>1. stats' \in [Variants -> Stat] /\ UNCHANGED <<status, promoter, evolver, up, failures, crashes>>
    BY <1>3 DEF Restat, VariantInv, VariantTypeOK
  <2>2. QED
    BY <2>1 DEF VariantInv, VariantTypeOK, RunInv, OneChampionInv, RoomInv, CandidatesBounded
<1>4. QED
  BY <1>1, <1>2, <1>3, WeakVariants, ChampionVariants, EvolverVariants, ProcessVariants
  DEF VariantNext

THEOREM VariantsCorrect == VariantSpec => []VariantInv
<1>1. VariantInit => VariantInv
  BY InitVariants
<1>2. VariantInv /\ [VariantNext]_variantVars => VariantInv'
  BY NextVariants
<1>3. QED
  BY <1>1, <1>2, PTL DEF VariantSpec

\* There are never two champions.
THEOREM NeverTwoChampions == VariantSpec => []OneChampion
<1>1. VariantInv => OneChampion
  <2> SUFFICES ASSUME VariantInv PROVE Cardinality(Champions(status)) <= 1
    BY DEF OneChampion
  <2>1. CASE Champions(status) = {}
    BY <2>1, FS_EmptySet
  <2>2. CASE Champions(status) # {}
    <3>1. PICK v \in Champions(status) : Champions(status) = {v}
      BY <2>2 DEF VariantInv, OneChampionInv
    <3>2. Cardinality(Champions(status)) = 1
      BY <3>1, FS_Singleton, Zenon
    <3>3. QED
      BY <3>2
  <2>3. QED
    BY <2>1, <2>2
<1>2. QED
  BY <1>1, VariantsCorrect, PTL

\* There are never more candidates than slots.
THEOREM SlotsSuffice == VariantSpec => []CandidatesBounded
<1>1. VariantInv => CandidatesBounded
  BY DEF VariantInv, RoomInv
<1>2. QED
  BY <1>1, VariantsCorrect, PTL

\* A retired variant never comes back.
THEOREM RetiredForGood == VariantSpec => RetiredIsFinal
<1>1. VariantInv /\ [VariantNext]_variantVars =>
        [\A v \in Variants : status[v] = "retired" => status'[v] = "retired"]_variantVars
  BY NextVariants
<1>2. QED
  BY <1>1, VariantsCorrect, PTL DEF VariantSpec, RetiredIsFinal
=============================================================================
