--------------------------- MODULE MCAgentClient ---------------------------
(* TLC instances of AgentClient. *)
EXTENDS AgentClient, TLC

CONSTANTS g1, g2   \* goroutines of the host program

OneCaller  == {g1}
TwoCallers == {g1, g2}

\* The goroutines are interchangeable: nothing orders them.
CallerSymmetry == Permutations({g1, g2})
=============================================================================
