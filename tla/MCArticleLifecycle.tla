------------------------- MODULE MCArticleLifecycle -------------------------
(* Instances of ArticleLifecycle for TLC. *)
EXTENDS ArticleEnds, TLC

\* Articles, posts and clients are interchangeable (safety runs only).
Symmetry == Permutations(Articles) \cup Permutations(Posts) \cup Permutations(Clients)

Auto   == {TRUE, FALSE}
Manual == {FALSE}
None   == {}
=============================================================================
