------------------------------- MODULE MCSearch -------------------------------
EXTENDS Search

\* Episodes 1, 2 and 4 of the owner, 3 of somebody else; fact 11 is of episode 1.
MCEpisodes == {1, 2, 3, 4}
MCFacts == {11, 12, 21, 31, 41}
MCMine == Rows \ {3, 31}
MCTopKs == {1, 2, -1}
MCParentOf == [f \in MCFacts |-> f \div 10]

\* Two sessions.
Session1 == {1, 11, 12, 3, 31}
Session2 == {2, 21, 4, 41}
Leaf(S) == [preds |-> <<S>>, all |-> <<>>, any |-> <<>>]
Nothing == [preds |-> <<>>, all |-> <<>>, any |-> <<>>]
MCNodes ==
    {Nothing,
     [preds |-> <<>>, all |-> <<>>, any |-> <<Leaf(Session1), Nothing, Leaf(Session2 \ {21})>>],
     [preds |-> <<Rows \ {12}>>, all |-> <<Leaf(Session1)>>, any |-> <<Leaf({1, 11}), Leaf({3, 12})>>]}

\* The scores of four of the owner's rows in every order, and a BM25 hit on
\* one of the owner's episodes.
MCScorings ==
    {[cos |-> [r \in Rows |-> CASE r = 3 -> 9 [] r = 31 -> 8 [] r = 12 -> 1
                                [] r = 4 -> 3 [] r = 41 -> 6 [] OTHER -> order[r]],
      bm25 |-> [e \in Episodes |-> CASE e = hit -> 9 [] e = 3 -> 10 [] OTHER -> 0]] :
        order \in {o \in [{1, 2, 11, 21} -> {2, 4, 5, 7}] : IsInjective(o)},
        hit \in {1, 2}}
=============================================================================
