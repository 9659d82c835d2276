---------------------------- MODULE MCAdminBot ----------------------------
EXTENDS AdminBot, TLC

Symmetry == Permutations(Clients) \cup Permutations(Advocates)
=============================================================================
