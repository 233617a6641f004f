------------------------------- MODULE Workload -------------------------------
(***************************************************************************)
(* What the modules about timed calls share: the clock, and the calls a    *)
(* behaviour makes.  A module gives the instants its timers are set to;    *)
(* time does not pass one that is due, as tokio wakes a task when its      *)
(* timer fires.                                                            *)
(***************************************************************************)
EXTENDS Naturals

VARIABLES
    clock,
    load       \* the calls and batches this behaviour may make

\* Time passes by one unit, unless a timer set to an instant of due has fired.
Elapse(due) ==
    /\ \A t \in due : clock < t
    /\ clock' = clock + 1
    /\ UNCHANGED load
=============================================================================
