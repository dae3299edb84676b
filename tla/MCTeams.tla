------------------------------- MODULE MCTeams -------------------------------
EXTENDS Teams, TLC

CONSTANTS ann, bob, cid, i1, i2, w1, w2

\* viewer is like developer: neither is a managing role.
Roles == {"admin", "developer"}

Symmetry == Permutations(Workers) \cup Permutations(Invites) \cup Permutations(Users \ {Founder})
=============================================================================
