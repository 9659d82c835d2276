----------------------------- MODULE MCBooking -----------------------------
(* Instances of Booking for TLC. *)
EXTENDS Booking, FiniteSets, TLC

Symmetry == Permutations(Requests) \cup Permutations(People) \cup Permutations(Phones)

\* Nothing was reminded of and nothing went wrong with it.
NoReminders == rem = Resting /\ faults = 0 /\ \A i \in 1..MaxRows : sends[i] = [k \in Kinds |-> 0]

\* There is one client, who submits one request at a time.
OneClient ==
    /\ Cardinality({r \in Requests : req[r].pc # "idle"}) <= 1
    /\ \E f \in Phones :
          /\ \A i \in 1..Len(rows) : rows[i].client = f
          /\ \A g \in Phones \ {f} : chat[g] = Nobody
          /\ \A r \in Requests : req[r].phone \in {f, Nobody}

\* Clients compete without reminders, or one is reminded: bounds the product.
Focus == NoReminders \/ OneClient
=============================================================================
