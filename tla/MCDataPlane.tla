---------------------------- MODULE MCDataPlane ----------------------------
(***************************************************************************)
(* A small instance of DataPlane: one id with a preloaded blob and one     *)
(* that is pushed by the admin endpoint; one payload of exactly the limit  *)
(* that is suspicious and sent all the same, one that two scanners object  *)
(* to, the malicious verdict not being the last.                           *)
(***************************************************************************)
EXTENDS DataPlane, TLC

CONSTANTS r1, r2, r3, t1, t2, u1, u2, n1, n2

MCRequests == {r1, r2}
MCTransferIds == {t1, t2}
good == [size |-> 2, magic |-> "riff", mime |-> "webp",
         eicar |-> FALSE, injection |-> FALSE]
bad == [size |-> 1, magic |-> "none", mime |-> "octet_stream",
        eicar |-> TRUE, injection |-> TRUE]
MCContents == {good, bad}
MCPreloaded == [t \in TransferIds |-> IF t = t1 THEN good ELSE Null]
MCUrls == {u1, u2}
MCTickets == {n1, n2}

Symmetry == Permutations(MCRequests) \cup Permutations(MCTickets)
              \cup Permutations(MCUrls)
=============================================================================
