--------------------------- MODULE EndpointValidator ---------------------------
(***************************************************************************)
(* EndpointValidator::validate_all: the endpoints of a batch are probed in *)
(* parallel behind one semaphore of the process, which tokio serves in     *)
(* order of arrival.  The remaining budget is read before the permit is    *)
(* awaited, so a probe that waits still has all of it.                     *)
(***************************************************************************)
EXTENDS Workload, Sequences, FiniteSets

CONSTANTS
    Batches,         \* concurrent calls of validate_all
    Probes,          \* Probes[b]: the endpoint kinds of batch b, in order
    Permits,         \* DEFAULT_PERMITS
    Budget,          \* DEFAULT_BUDGET
    RequestTimeout   \* HTTP_REQUEST_TIMEOUT

ASSUME ProbesAssumption ==
    IsFiniteSet(Batches) /\ Probes \in [Batches -> Seq({"http", "iroh", "unknown"})]
ASSUME ValidatorAssumption ==
    Permits \in Nat \ {0} /\ Budget \in Nat /\ RequestTimeout \in Nat

VARIABLES
    batch,     \* "new", "running", "done" or "dropped"
    arrival,   \* when validate_all was called
    probe,     \* per probe: [pc, due, healthy]
    place,     \* each probe's place in the semaphore's queue
    asked,     \* how many probes have asked for a permit
    ahead      \* history: probes before each one when it began to wait

validator == <<batch, arrival, probe, place, asked, ahead>>

-----------------------------------------------------------------------------

ProbeIds == UNION {{b} \X DOMAIN Probes[b] : b \in Batches}

Kind(p) == Probes[p[1]][p[2]]

InitValidator ==
    /\ batch = [b \in Batches |-> "new"]
    /\ arrival = [b \in Batches |-> 0]
    /\ probe = [p \in ProbeIds |-> [pc |-> "new", due |-> 0, healthy |-> FALSE]]
    /\ place = [p \in ProbeIds |-> 0]
    /\ asked = 0
    /\ ahead = [p \in ProbeIds |-> 0]

Probing == {p \in ProbeIds : probe[p].pc = "probing"}
Waiting == {p \in ProbeIds : probe[p].pc = "waiting"}

\* The probes that hold a permit or are to be given one before p.
AheadOf(p) == Probing \cup {q \in Waiting : place[q] < place[p]}

\* What a probe may take: the budget it read, or the client's timeout.
ProbeTimeout == IF Budget < RequestTimeout THEN Budget ELSE RequestTimeout

\* join_all polls every probe of the batch: with a budget each asks for its
\* permit, in order; without one each is unhealthy at once.
ValidateAll(b) ==
    /\ b \in load /\ batch[b] = "new"
    /\ batch' = [batch EXCEPT ![b] = "running"]
    /\ arrival' = [arrival EXCEPT ![b] = clock]
    /\ \/ /\ Budget > 0
          /\ place' = [p \in ProbeIds |-> IF p[1] = b THEN asked + p[2] ELSE place[p]]
          /\ asked' = asked + Len(Probes[b])
          /\ probe' = [p \in ProbeIds |->
                         IF p[1] = b THEN [probe[p] EXCEPT !.pc = "waiting"] ELSE probe[p]]
          /\ ahead' = [p \in ProbeIds |->
                         IF p[1] = b THEN Cardinality(AheadOf(p)') ELSE ahead[p]]
       \/ /\ Budget = 0
          /\ probe' = [p \in ProbeIds |->
                         IF p[1] = b THEN [probe[p] EXCEPT !.pc = "done"] ELSE probe[p]]
          /\ UNCHANGED <<place, asked, ahead>>

\* The semaphore serves first who asked first.
IsNext(p) == p \in Waiting /\ \A q \in Waiting : place[p] <= place[q]

\* Faulty variant: the request has no timeout of its own or of the budget's.
GrantUntimed(p) ==
    /\ IsNext(p)
    /\ Cardinality(Probing) < Permits
    /\ probe' = [probe EXCEPT ![p] = [pc |-> IF Kind(p) = "http" THEN "probing" ELSE "done",
                                      due |-> clock + 2 * Budget,
                                      healthy |-> Kind(p) = "iroh"]]
    /\ UNCHANGED <<batch, arrival, place, asked, ahead>>

\* A permit is free for the first in the queue.  An http probe is under the
\* budget it read and the client's timeout; iroh is taken for healthy and an
\* unknown kind is not, both without a probe and with the permit back at once.
Grant(p) ==
    /\ IsNext(p)
    /\ Cardinality(Probing) < Permits
    /\ probe' = [probe EXCEPT ![p] =
          [pc |-> IF Kind(p) = "http" THEN "probing" ELSE "done",
           due |-> clock + ProbeTimeout,
           healthy |-> Kind(p) = "iroh"]]
    /\ UNCHANGED <<batch, arrival, place, asked, ahead>>

\* /healthz answers 2xx, another status or not at all.
Answered(p, healthy) ==
    /\ probe[p].pc = "probing"
    /\ probe' = [probe EXCEPT ![p].pc = "done", ![p].healthy = healthy]
    /\ UNCHANGED <<batch, arrival, place, asked, ahead>>

\* join_all has every result.
Report(b) ==
    /\ batch[b] = "running"
    /\ \A p \in ProbeIds : p[1] = b => probe[p].pc = "done"
    /\ batch' = [batch EXCEPT ![b] = "done"]
    /\ UNCHANGED <<arrival, probe, place, asked, ahead>>

\* The handler is dropped by the request timeout: its permits and its places
\* in the queue go with it.
DropBatch(b) ==
    /\ batch[b] = "running"
    /\ batch' = [batch EXCEPT ![b] = "dropped"]
    /\ probe' = [p \in ProbeIds |->
                   IF p[1] = b THEN [probe[p] EXCEPT !.pc = "done"] ELSE probe[p]]
    /\ UNCHANGED <<arrival, place, asked, ahead>>

NextValidator ==
    /\ \/ \E b \in Batches : ValidateAll(b) \/ Report(b) \/ DropBatch(b)
       \/ \E p \in ProbeIds : Grant(p) \/ \E healthy \in BOOLEAN : Answered(p, healthy)
    /\ UNCHANGED <<clock, load>>

\* What cannot wait: a probe's deadline, a permit that can be handed on, a
\* report that is complete.
ProbeTimers ==
    {probe[p].due : p \in Probing}
      \cup (IF Waiting # {} /\ Cardinality(Probing) < Permits THEN {clock} ELSE {})
      \cup (IF \E b \in Batches : batch[b] = "running"
                   /\ \A p \in ProbeIds : p[1] = b => probe[p].pc = "done"
            THEN {clock} ELSE {})

-----------------------------------------------------------------------------
(* Properties *)

\* A batch takes longer than one probe only by the probes before it: with k
\* of them waiting or running it is answered within 1 + k / Permits rounds of
\* the probe timeout, however late its own probes start, since each of them
\* still has a whole budget.
OverrunBounded ==
    \A p \in ProbeIds :
        probe[p].pc \in {"waiting", "probing"} =>
            clock <= arrival[p[1]] + (1 + ahead[p] \div Permits) * ProbeTimeout

\* What the module's doc says (endpoint_validator.rs:8) and ADR-0014 repeats:
\* the budget is that of the whole array, by the wall clock.
WithinBudget == \A b \in Batches : batch[b] = "running" => clock <= arrival[b] + Budget
=============================================================================
