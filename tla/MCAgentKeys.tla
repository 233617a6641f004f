---------------------------- MODULE MCAgentKeys ----------------------------
(***************************************************************************)
(* A small instance of AgentKeys: two agent ids that could claim one key,  *)
(* two keys of which the first can also be spelled in upper case.          *)
(***************************************************************************)
EXTENDS AgentKeys, TLC

CONSTANTS r1, r2, r3, r4, a1, a2, k1, k2, k1lower, k1upper, k2lower, n1, n2

MCRequests == {r1, r2, r3, r4}
MCAgents == {a1, a2}
MCKeys == {k1, k2}
MCHexes == {k1lower, k1upper, k2lower}
MCKeyOf == k1lower :> k1 @@ k1upper :> k1 @@ k2lower :> k2
MCCanonical == k1 :> k1lower @@ k2 :> k2lower
MCRegistrations == {[agent |-> a1, key |-> k1], [agent |-> a2, key |-> k1]}
MCNonces == {n1, n2}

Symmetry == Permutations(MCRequests) \cup Permutations(MCNonces)
              \cup Permutations(MCAgents)
=============================================================================
