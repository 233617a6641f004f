------------------------- MODULE TransferLifecycle --------------------------
(***************************************************************************)
(* What the control plane promises about a transfer, whatever requests run *)
(* concurrently, are replayed or are cut short: the state machine of the   *)
(* transfers table (migrations/20260420000002_transfers.sql; awaiting_scan *)
(* exists only inside the create request), bytes that leave only for a     *)
(* transfer that has been accepted, and at most one delivery receipt in    *)
(* the audit log, for a delivered transfer.                                *)
(***************************************************************************)
EXTENDS Naturals

CONSTANT TransferIds

VARIABLES
    state,     \* state[t]: the state column, or "absent"
    released,  \* transfers whose bytes a recipient has received
    receipts   \* receipts[t]: delivery receipts in the audit log

lifecycleVars == <<state, released, receipts>>

States == {"absent", "ready_for_pickup", "accepted", "delivered", "rejected"}

Init ==
    /\ state = [t \in TransferIds |-> "absent"]
    /\ released = {}
    /\ receipts = [t \in TransferIds |-> 0]

Move(t, from, to) ==
    /\ state[t] \in from
    /\ state' = [state EXCEPT ![t] = to]
    /\ UNCHANGED <<released, receipts>>

Create(t) == Move(t, {"absent"}, "ready_for_pickup")

Reject(t) == Move(t, {"absent"}, "rejected")

Accept(t) == Move(t, {"ready_for_pickup"}, "accepted")

\* A recipient may acknowledge without a download through the control plane.
Deliver(t) == Move(t, {"ready_for_pickup", "accepted"}, "delivered")

Release(t) ==
    /\ state[t] \in {"accepted", "delivered"}
    /\ released' = released \cup {t}
    /\ UNCHANGED <<state, receipts>>

Receipt(t) ==
    /\ state[t] = "delivered"
    /\ receipts[t] = 0
    /\ receipts' = [receipts EXCEPT ![t] = 1]
    /\ UNCHANGED <<state, released>>

Next ==
    \E t \in TransferIds :
        \/ Create(t) \/ Reject(t) \/ Accept(t) \/ Deliver(t)
        \/ Release(t) \/ Receipt(t)

Spec == Init /\ [][Next]_lifecycleVars
=============================================================================
