------------------------- MODULE MCArticlePipeline -------------------------
(* Two jobs beside each other; a score on either side of the threshold.     *)
EXTENDS ArticlePipeline, TLC

\* Articles, posts, clients and raters are interchangeable.
Symmetry == Permutations(Articles) \cup Permutations(Posts)
            \cup Permutations(Clients) \cup Permutations(Raters)

Auto == {TRUE, FALSE}

MCMarks == {499, 500}

\* A text at every limit, and one a word short of the least.
Fit == [min |-> 100, max |-> 200, words |-> 90, h2 |-> 5, startsWithH1 |-> TRUE,
        faq |-> TRUE, keywordMissing |-> FALSE, keywordBold |-> FALSE,
        title |-> 60, desc |-> 150, images |-> 0]
MCShapes == {Fit, [Fit EXCEPT !.words = 89, !.images = 1]}

MCAsked == {-1, 1}
MCFocuses == {"article", "ratings", "checker"}
=============================================================================
