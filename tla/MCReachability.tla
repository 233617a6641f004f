--------------------------- MODULE MCReachability ---------------------------
(***************************************************************************)
(* A small instance of Reachability: two transfers, each with an endpoint  *)
(* that is probed, submitted without health, and an iroh endpoint whose    *)
(* sender has written counters at the limit of their type beside it.       *)
(***************************************************************************)
EXTENDS Reachability

CONSTANTS t1, t2, e1, i1

MCTransferIds == {t1, t2}
MCEndpoints == {e1, i1}
MCIrohEndpoints == {i1}
MCReachableLists == {<<i1, e1>>}

MCSubmitted ==
    {[e \in Endpoints |->
        IF e = e1 THEN NoHealth
        ELSE [status |-> "unhealthy", fails |-> U8Max, successes |-> U8Max]]}
=============================================================================
