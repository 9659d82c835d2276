---------------------------- MODULE BatchedWork ----------------------------
(***************************************************************************)
(* What workpool.Run promises its callers, whatever the order its workers  *)
(* finish in: the work function is tried on each item at most once, what   *)
(* it yields reaches the sink in batches and at most once, nothing happens *)
(* after Run has returned, and Run returns no error only when every item   *)
(* was tried and all that was yielded is with the sink.                    *)
(***************************************************************************)
CONSTANT Items

VARIABLES
    tried,    \* items the work function was called on
    yielded,  \* items it returned (r, true) for
    sunk,     \* items whose result reached the sink
    result    \* "running", or what Run returned: "ok", "sink" or "ctx"

vars == <<tried, yielded, sunk, result>>

Init == tried = {} /\ yielded = {} /\ sunk = {} /\ result = "running"

Try ==
    /\ result = "running"
    /\ \E i \in Items \ tried : tried' = tried \cup {i}
    /\ UNCHANGED <<yielded, sunk, result>>

Yield ==
    /\ result = "running"
    /\ \E i \in tried \ yielded : yielded' = yielded \cup {i}
    /\ UNCHANGED <<tried, sunk, result>>

Sink ==
    /\ result = "running"
    /\ \E batch \in SUBSET (yielded \ sunk) : sunk' = sunk \cup batch
    /\ UNCHANGED <<tried, yielded, result>>

ReturnOk ==
    /\ result = "running"
    /\ tried = Items /\ sunk = yielded
    /\ result' = "ok"
    /\ UNCHANGED <<tried, yielded, sunk>>

ReturnError ==
    /\ result = "running"
    /\ result' \in {"sink", "ctx"}
    /\ UNCHANGED <<tried, yielded, sunk>>

Next == Try \/ Yield \/ Sink \/ ReturnOk \/ ReturnError

Spec == Init /\ [][Next]_vars
=============================================================================
