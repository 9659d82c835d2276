--------------------------- MODULE MCAdvocateView ---------------------------
(* Months of one day; every client's first lead is of the first. *)
EXTENDS AdvocateView, TLC

CONSTANTS ann, bea, cli, dan, boss, owner, fst, snd

Leads == (cli :> 1) @@ (dan :> 1)

Alike ==
    Permutations({ann, bea}) \cup Permutations({cli, dan}) \cup Permutations({boss, owner})
    \cup Permutations({fst, snd})
=============================================================================
