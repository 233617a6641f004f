------------------------------- MODULE Outbound -------------------------------
(***************************************************************************)
(* What the control plane asks of the network: decisions on their way to a *)
(* sink, retried operations, batches of endpoint probes on one clock, and  *)
(* the cards of the agents whose messages it verifies.                     *)
(***************************************************************************)
EXTENDS OutboundCalls, EndpointValidator, PeerCalls

CONSTANTS
    Loads,      \* the sets of calls and batches that are made together
    MaxTime     \* bound on the clock, for model checking

ASSUME LoadsAssumption ==
    Loads \subseteq SUBSET (Jobs \cup Batches \cup PeerJobs) /\ MaxTime \in Nat

vars == <<clock, load, calls, validator, peerCalls>>

Init == clock = 0 /\ load \in Loads /\ InitCalls /\ InitValidator /\ InitPeers

\* Verifying a peer sets no timer that matters to the others.
Tick ==
    /\ clock < MaxTime /\ load \cap PeerJobs = {}
    /\ Elapse(CallTimers \cup ProbeTimers)
    /\ UNCHANGED <<calls, validator, peerCalls>>

Next ==
    \/ NextCalls /\ UNCHANGED <<validator, peerCalls>>
    \/ Rebind /\ UNCHANGED <<clock, load, validator, peerCalls>>
    \/ NextValidator /\ UNCHANGED <<calls, peerCalls>>
    \/ NextPeers /\ UNCHANGED <<calls, validator>>
    \/ Tick

Spec == Init /\ [][Next]_vars

\* The fetch of a card never reaches an internal address, whatever its host's
\* records do meanwhile.  A webhook's call does not on its own: only where the
\* operator allows it, where the host's record changed after the check, or
\* where the host, chosen by the operator, redirects it.  The endpoint probes
\* check no address at all (endpoint_validator.rs:177) and are not spoken of.
StaysOutside == FetchesStayOutside /\ PostsStayOutside
=============================================================================
