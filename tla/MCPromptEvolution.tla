------------------------- MODULE MCPromptEvolution -------------------------
(* Four variants, so that a champion, two candidates and a seed meet; two  *)
(* estimates, one clearly above the other, equal ones tie.                  *)
EXTENDS PromptEvolution, TLC

MCEstimates == {[low |-> 0, mean |-> 1, high |-> 2],
                [low |-> 3, mean |-> 4, high |-> 5]}

Symmetry == Permutations(Variants)
=============================================================================
