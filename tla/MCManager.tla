----------------------------- MODULE MCManager -----------------------------
(* TLC instances of Manager. *)
EXTENDS Manager, TLC

CONSTANTS g1, g2, g3, p1, p2, a1, a2, a3, a4

TwoClients   == {g1, g2}
ThreeClients == {g1, g2, g3}
OneProfile   == {p1}
TwoProfiles  == {p1, p2}
ThreeAgents  == {a1, a2, a3}
FourAgents   == {a1, a2, a3, a4}

\* Goroutines, profiles and processes are interchangeable.
PoolSymmetry ==
    Permutations(ThreeClients) \cup Permutations(TwoProfiles) \cup Permutations(FourAgents)
=============================================================================
