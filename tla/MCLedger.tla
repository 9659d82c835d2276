------------------------------ MODULE MCLedger ------------------------------
(* Months of two days; two lines of one month's sheet. *)
EXTENDS LedgerRuns, TLC

CONSTANTS adv, cl

Leads == (cl :> 1)

Lines == {[tab |-> 1, line |-> 2, day |-> 1, amount |-> 100],
          [tab |-> 1, line |-> 3, day |-> 2, amount |-> 200]}

Totals == (1 :> {300, 310})

CompanyTotals == (1 :> 500)
=============================================================================
