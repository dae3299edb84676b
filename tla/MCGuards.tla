------------------------------ MODULE MCGuards ------------------------------
EXTENDS Guards, TLC

CONSTANTS ta, tb, c1, c2

Limit(kind, window, max) == [kind |-> kind, window |-> window, max |-> max]

\* The chain of the repository's README.
ReadmeChain == <<"fraud", "mode", "velocity", "budget">>

\* Two rules of one window; and the two rules of the README, scaled down.
OneWindow  == <<Limit("count", 1, 2), Limit("amount", 1, 3)>>
TwoWindows == <<Limit("count", 1, 2), Limit("amount", 3, 3)>>

Symmetry == Permutations(Threads) \cup Permutations(Conversations)
=============================================================================
