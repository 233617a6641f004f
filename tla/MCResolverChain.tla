-------------------------- MODULE MCResolverChain --------------------------
(***************************************************************************)
(* Small instances of ResolverChain: two handles in a cache of one entry,  *)
(* and one whose scheme has no resolver.                                   *)
(***************************************************************************)
EXTENDS ResolverChain, TLC

CONSTANTS r1, r2, r3, h1, h2, h3

MCRequests == {r1, r2, r3}
MCTwoRequests == {r1, r2}
MCHandles == {h1, h2, h3}
MCResolvable == {h1, h2}
MCOneHandle == {h1}

Symmetry == Permutations(MCRequests) \cup Permutations(MCResolvable)
=============================================================================
