------------------------------ MODULE Workpool ------------------------------
(***************************************************************************)
(* workpool.Run: a dispatcher goroutine hands the items in order to at     *)
(* most Concurrency worker goroutines, the workers send what they yield on *)
(* an unbuffered channel, and the caller collects it and flushes it to the *)
(* sink in batches. A failed flush cancels the work; so does the caller's  *)
(* context. A worker's release of the semaphore and its wg.Done are one    *)
(* step: nothing looks at one between the two.                             *)
(***************************************************************************)
EXTENDS Integers, FiniteSets

CONSTANTS
    N,            \* number of items
    Concurrency,  \* opts.Concurrency once <= 0 was read as 1
    FlushEvery    \* opts.FlushEvery, 0 flushes only once at the end

ASSUME PoolAssumption ==
    N \in Nat /\ Concurrency \in Nat \ {0} /\ FlushEvery \in Nat

VARIABLES
    next,       \* the dispatcher's loop index
    disp,       \* "loop", "wait" (wg.Wait) or "closed" (close(resultsCh))
    worker,     \* per item: its worker
    coll,       \* the caller: "range", "flush", "end", "final" or "returned"
    batch,      \* results collected and not flushed
    processed,  \* results collected
    sunk,       \* results the sink has applied
    calls,      \* history: how often the sink was given each result
    sinkErr,    \* did a flush fail?
    ctxErr,     \* is the caller's context cancelled or past its deadline?
    result      \* "running", or what Run returned

vars == <<next, disp, worker, coll, batch, processed, sunk, calls, sinkErr,
          ctxErr, result>>

-----------------------------------------------------------------------------
Items == 1..N

\* Mutant: the semaphore is not released.
HeldForever == {i \in Items : worker[i] # "none"}

\* "working" and "sending" hold the semaphore.
Held == {i \in Items : worker[i] \in {"working", "sending"}}

\* workCtx is done: its parent is, or a flush called cancel().
Cancelled == ctxErr \/ sinkErr

TypeOK ==
    /\ next \in 1..(N + 1)
    /\ disp \in {"loop", "wait", "closed"}
    /\ worker \in [Items -> {"none", "working", "sending", "sent", "dropped", "nothing"}]
    /\ coll \in {"range", "flush", "end", "final", "returned"}
    /\ batch \in SUBSET Items
    /\ processed \in Nat
    /\ sunk \in SUBSET Items
    /\ calls \in [Items -> Nat]
    /\ sinkErr \in BOOLEAN /\ ctxErr \in BOOLEAN
    /\ result \in {"running", "ok", "sink", "ctx"}

Init ==
    /\ next = 1 /\ disp = "loop"
    /\ worker = [i \in Items |-> "none"]
    /\ coll = "range" /\ batch = {} /\ processed = 0
    /\ sunk = {} /\ calls = [i \in Items |-> 0]
    /\ sinkErr = FALSE /\ ctxErr = FALSE
    /\ result = "running"

-----------------------------------------------------------------------------
(* The dispatcher. When the semaphore is free and the context done, select *)
(* may take either branch.                                                 *)

MoreItems == next <= N

Dispatch ==
    /\ disp = "loop" /\ MoreItems
    /\ Cardinality(Held) < Concurrency
    /\ worker' = [worker EXCEPT ![next] = "working"]
    /\ next' = next + 1
    /\ UNCHANGED <<disp, coll, batch, processed, sunk, calls, sinkErr, ctxErr, result>>

DispatchEnds ==
    /\ disp = "loop"
    /\ ~MoreItems \/ Cancelled
    /\ disp' = "wait"
    /\ UNCHANGED <<next, worker, coll, batch, processed, sunk, calls, sinkErr, ctxErr, result>>

\* wg.Wait returns.
WorkersGone == disp = "wait" /\ Held = {}

Close ==
    /\ WorkersGone
    /\ disp' = "closed"
    /\ UNCHANGED <<next, worker, coll, batch, processed, sunk, calls, sinkErr, ctxErr, result>>

-----------------------------------------------------------------------------
(* A worker.                                                               *)

\* work returns (r, ok).
WorkEnds(i, ok) ==
    /\ worker[i] = "working"
    /\ worker' = [worker EXCEPT ![i] = IF ok THEN "sending" ELSE "nothing"]
    /\ UNCHANGED <<next, disp, coll, batch, processed, sunk, calls, sinkErr, ctxErr, result>>

\* Its select finds the context done before the caller is ready to receive.
Drop(i) ==
    /\ worker[i] = "sending" /\ Cancelled
    /\ worker' = [worker EXCEPT ![i] = "dropped"]
    /\ UNCHANGED <<next, disp, coll, batch, processed, sunk, calls, sinkErr, ctxErr, result>>

-----------------------------------------------------------------------------
(* The caller.                                                             *)

\* Receives a result; after a failed flush it only drains the channel.
Receive(i) ==
    /\ coll = "range" /\ worker[i] = "sending"
    /\ worker' = [worker EXCEPT ![i] = "sent"]
    /\ IF sinkErr
         THEN UNCHANGED <<coll, batch, processed>>
         ELSE /\ batch' = batch \cup {i}
              /\ processed' = processed + 1
              /\ coll' = IF FlushEvery > 0 /\ Cardinality(batch') >= FlushEvery
                           THEN "flush" ELSE "range"
    /\ UNCHANGED <<next, disp, sunk, calls, sinkErr, ctxErr, result>>

\* Where flush() returns to.
AfterFlush == IF coll = "flush" THEN "range" ELSE "final"

Given == calls' = [i \in Items |-> IF i \in batch THEN calls[i] + 1 ELSE calls[i]]

\* flush() on a batch that is not empty.
FlushOk ==
    /\ coll \in {"flush", "end"} /\ batch # {}
    /\ sunk' = sunk \cup batch
    /\ Given
    /\ batch' = {}
    /\ coll' = AfterFlush
    /\ UNCHANGED <<next, disp, worker, processed, sinkErr, ctxErr, result>>

\* The sink fails, with the batch applied or not; the batch is kept.
FlushFails(applied) ==
    /\ coll \in {"flush", "end"} /\ batch # {}
    /\ sunk' = IF applied THEN sunk \cup batch ELSE sunk
    /\ Given
    /\ sinkErr' = TRUE
    /\ coll' = AfterFlush
    /\ UNCHANGED <<next, disp, worker, batch, processed, ctxErr, result>>

\* Mutant: a run whose flush failed goes on to a last flush.
EndsAlways == "end"

\* After the channel is closed: a failed run returns, the others flush what
\* is left.
RangeEnds == IF sinkErr THEN "final" ELSE "end"

ChannelClosed ==
    /\ coll = "range" /\ disp = "closed"
    /\ coll' = RangeEnds
    /\ UNCHANGED <<next, disp, worker, batch, processed, sunk, calls, sinkErr, ctxErr, result>>

\* The last flush() finds the batch empty.
NothingToFlush ==
    /\ coll = "end" /\ batch = {}
    /\ coll' = "final"
    /\ UNCHANGED <<next, disp, worker, batch, processed, sunk, calls, sinkErr, ctxErr, result>>

\* Mutant: the context's error is not looked at.
OutcomeWithoutCtx == IF sinkErr THEN "sink" ELSE "ok"

Outcome == IF sinkErr THEN "sink" ELSE IF ctxErr THEN "ctx" ELSE "ok"

Return ==
    /\ coll = "final"
    /\ coll' = "returned" /\ result' = Outcome
    /\ UNCHANGED <<next, disp, worker, batch, processed, sunk, calls, sinkErr, ctxErr>>

\* The caller's context is cancelled, or its deadline passes.
CtxDone ==
    /\ ~ctxErr
    /\ ctxErr' = TRUE
    /\ UNCHANGED <<next, disp, worker, coll, batch, processed, sunk, calls, sinkErr, result>>

-----------------------------------------------------------------------------
Flush == FlushOk \/ \E applied \in BOOLEAN : FlushFails(applied)

PoolStep ==
    \/ Dispatch \/ DispatchEnds \/ Close
    \/ \E i \in Items :
          (\E ok \in BOOLEAN : WorkEnds(i, ok)) \/ Drop(i) \/ Receive(i)
    \/ Flush \/ ChannelClosed \/ NothingToFlush \/ Return

Next == PoolStep \/ CtxDone

Spec == Init /\ [][Next]_vars

-----------------------------------------------------------------------------
(* Run implements the contract its callers rely on.                        *)

Tried == {i \in Items : worker[i] # "none"}

Yielded == {i \in Items : worker[i] \in {"sending", "sent", "dropped"}}

Contract == INSTANCE BatchedWork
            WITH tried <- Tried, yielded <- Yielded

\* Every behaviour of the pool is one of the contract: no item tried twice,
\* nothing sunk twice, no error only when all that was yielded is sunk, and
\* nothing left running behind the return (Run).
ImplementsContract == Contract!Spec

\* The sink is given a result at most once, even after it failed: a batch it
\* may have applied is not handed to it again (flush, the drain loop).
GivenOnce == \A i \in Items : calls[i] <= 1

\* Nothing sends on the closed channel, and when Run returns no goroutine of
\* its is left to call work or the sink (wg.Add before go, close after Wait).
NothingLeftBehind ==
    disp = "closed" \/ result # "running" => Held = {} /\ disp # "loop"

-----------------------------------------------------------------------------
(* The inductive invariant.                                                *)

\* Items are dispatched in order; what was collected was sent; the rest of
\* the items are with their workers.
WorkerInv ==
    \A i \in Items :
        /\ worker[i] = "none" <=> next <= i
        /\ i \in batch \/ calls[i] > 0 => worker[i] = "sent"
        /\ worker[i] = "dropped" => Cancelled

\* Until a flush fails, what was collected is either in the batch or was
\* given to the sink once, and what was given is sunk.
SinkInv ==
    /\ sunk \subseteq {i \in Items : calls[i] > 0}
    /\ ~sinkErr =>
          /\ \A i \in batch : calls[i] = 0
          /\ \A i \in Items : worker[i] = "sent" => i \in batch \cup sunk

\* How far the dispatcher and the caller are.
PhaseInv ==
    /\ disp # "loop" => next = N + 1 \/ Cancelled
    /\ disp = "closed" => Held = {}
    /\ coll \in {"end", "final", "returned"} => disp = "closed"
    /\ coll \in {"flush", "end"} => ~sinkErr
    /\ coll = "final" /\ ~sinkErr => batch = {}
    /\ result = "running" <=> coll # "returned"

PoolInv == TypeOK /\ WorkerInv /\ SinkInv /\ GivenOnce /\ PhaseInv

=============================================================================
