---------------------------- MODULE MCTransfers ----------------------------
(***************************************************************************)
(* Small instances of Transfers: two agents, one intent the policy allows  *)
(* and one it denies before the scan, an https and an iroh endpoint.       *)
(***************************************************************************)
EXTENDS Transfers, Sequences, TLC

CONSTANTS r1, r2, r3, t1, t2, alice, bob, n1, n2, h1, i1

MCRequests == {r1, r2, r3}
MCTransferIds == {t1, t2}
MCAgents == {alice, bob}
MCNonces == {n1, n2}

Allowed == [sender |-> alice, recipient |-> bob, kind |-> "spize_native",
            size |-> 1, mime |-> "ordinary", nonce |-> n1]

Oversize == [sender |-> alice, recipient |-> bob, kind |-> "spize_native",
             size |-> 101, mime |-> "absent", nonce |-> n2]

MCIntents == {Allowed, Oversize}
MCReachableLists == {<<i1, h1>>}
MCEndpoints == {h1, i1}
MCHttpsEndpoints == {h1}
MCIrohEndpoints == {i1}

MCTrackedEvents == {"rejected", "accepted", "delivered"}

Symmetry == Permutations(MCRequests) \cup Permutations(MCTransferIds)
=============================================================================
