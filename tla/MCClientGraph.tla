---------------------------- MODULE MCClientGraph ----------------------------
EXTENDS ClientGraph
CONSTANTS h1, h2, h3, c0, c1, c2
HomeOf == [h \in Headers |-> IF h = h3 THEN 2 ELSE 1]
SecondDirect == {2}
RunnerOf == [k \in 0..NumConns |-> IF k = 0 THEN c0 ELSE IF k = 1 THEN c1 ELSE c2]
\* What follows a rash call is not explored: there every property holds by its first
\* disjunct, whatever happens.
NotRash == ~rash
=============================================================================
