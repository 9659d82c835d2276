---------------------------- MODULE MCBacklinks ----------------------------
(* An editor's account on d1, an author's on d2. *)
EXTENDS Backlinks, TLC

CONSTANTS d1, d2

DonorOfRow == (1 :> d1) @@ (2 :> d2)

Rights == (d1 :> AllRights) @@ (d2 :> {"create", "publish"})

Symmetry == Permutations(Runs)
=============================================================================
