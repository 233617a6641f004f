------------------------------ MODULE MCTunnels ------------------------------
(***************************************************************************)
(* One provider of every kind, two of them with the same priority, the     *)
(* most preferred one last in the list.                                    *)
(***************************************************************************)
EXTENDS Tunnels

MCEntries == <<
    [kind |-> "quick", priority |-> 1],
    [kind |-> "frp", priority |-> 1],
    [kind |-> "named", priority |-> 2],
    [kind |-> "tailscale", priority |-> 1],
    [kind |-> "iroh", priority |-> 0],
    [kind |-> "stub", priority |-> 0] >>
=============================================================================
