--------------------------- MODULE MCVcosEventFlags ---------------------------
EXTENDS VcosEventFlags

Get(bits, all, consume, suspend) ==
  [bits |-> bits, all |-> all, consume |-> consume, suspend |-> suspend]

\* One event that is consumed, both of two, either of two; with a timeout,
\* without one, and not waiting at all.
SomeRequests == {Get({1}, FALSE, TRUE, "timed"), Get({1, 2}, TRUE, TRUE, "forever"),
                 Get({1, 2}, FALSE, FALSE, "timed"), Get({2}, TRUE, TRUE, "no")}
TwoBits == {1, 2}
=============================================================================
