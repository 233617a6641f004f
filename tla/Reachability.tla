---------------------------- MODULE Reachability ----------------------------
(***************************************************************************)
(* The background health loop of the control plane (health_monitor.rs) and *)
(* the debounced health it keeps in transfers.reachable_at (EndpointHealth *)
(* in aex-core's endpoint.rs).  One task loads the transfers that wait for *)
(* pickup, probes their endpoints one by one and writes each transfer's    *)
(* list back; transfers are created and picked up, endpoints fail and come *)
(* back, statements fail and the process is stopped or dies at any step.   *)
(*                                                                         *)
(* last_probe_unix is left out: nothing reads it.  The monitor has a       *)
(* validator, and so a semaphore, of its own and probes one endpoint at a  *)
(* time: it never waits for a permit.                                      *)
(***************************************************************************)
EXTENDS Naturals, FiniteSets, SequencesExt

CONSTANTS
    TransferIds,
    Endpoints,      \* endpoints of a known kind
    IrohEndpoints,  \* those of kind iroh, for which no probe is sent
    ReachableLists, \* the lists of endpoints senders submit
    Submitted,      \* the health senders submit with their endpoints
    FailThreshold,
    SuccessThreshold,
    U8Max,          \* the largest value of a counter
    Limit           \* LIMIT of load_in_flight_transfers

Status == {"healthy", "unhealthy"}

EndpointHealth ==
    [status : Status, fails : 0 .. U8Max, successes : 0 .. U8Max]

\* health: None
NoHealth == [status |-> "unknown", fails |-> 0, successes |-> 0]

ASSUME EndpointsAssumption ==
    /\ IrohEndpoints \subseteq Endpoints
    /\ \A list \in ReachableLists :
          list \in Seq(Endpoints) /\ list # <<>> /\ IsInjective(list)
    /\ Submitted \subseteq [Endpoints -> EndpointHealth \cup {NoHealth}]
ASSUME ThresholdAssumption ==
    /\ FailThreshold \in 1 .. U8Max
    /\ SuccessThreshold \in 1 .. U8Max
    /\ U8Max \in Nat
ASSUME LimitAssumption == Limit \in Nat \ {0}
ASSUME TransferIdsAssumption == IsFiniteSet(TransferIds)

VARIABLES
    state,     \* state[t]: "absent", "ready_for_pickup" or "taken"
    reachable, \* reachable[t]: the reachable_at column
    created,   \* created[t]: the created_at column
    up,        \* the endpoints that answer
    pc,        \* where the monitor's task is
    batch,     \* the rows a tick has loaded and not yet written back
    updated,   \* the endpoints of the first of them that have been probed
    interval,  \* what the tick has chosen to sleep for, while it sleeps
    server,    \* main: "down", "serving" or "joining"
    shutdown,  \* the value in the watch channel
    probed,    \* history: the outcomes behind updated
    recent,    \* history: recent[t][e], the streak of equal outcomes written last
    preset     \* history: the <<t, e>> that were submitted with a health

table == <<state, reachable, created>>
monitor == <<pc, batch, updated, probed, interval>>
process == <<server, shutdown>>
history == <<recent, preset>>

vars == <<state, reachable, created, up, pc, batch, updated, interval,
          server, shutdown, probed, recent, preset>>

Endpoint == [name : Endpoints, health : EndpointHealth \cup {NoHealth}]

Row == [tx : TransferIds, endpoints : Seq(Endpoint)]

ProbeOutcome == {"success", "failure"}

NoStreak == [outcome |-> "success", length |-> 0]

Init ==
    /\ state = [t \in TransferIds |-> "absent"]
    /\ reachable = [t \in TransferIds |-> <<>>]
    /\ created = [t \in TransferIds |-> 0]
    /\ up = Endpoints
    /\ pc = "load" /\ batch = <<>> /\ updated = <<>> /\ probed = <<>>
    /\ interval = "none"
    /\ server = "serving" /\ shutdown = FALSE
    /\ recent = [t \in TransferIds |-> [e \in Endpoints |-> NoStreak]]
    /\ preset = {}

-----------------------------------------------------------------------------
(* EndpointHealth *)

FreshHealthy == [status |-> "healthy", fails |-> 0, successes |-> 0]

AtMost(bound, n) == IF n > bound THEN bound ELSE n

SaturatingIncrement(n) == AtMost(U8Max, n + 1)

\* Faulty variant: a success leaves the count of failures as it is.
OnProbeSuccessKeepsFails(health) ==
    LET successes == SaturatingIncrement(health.successes) IN
    IF health.status = "unhealthy" /\ successes >= SuccessThreshold
    THEN [FreshHealthy EXCEPT !.fails = health.fails]
    ELSE [health EXCEPT !.successes = AtMost(SuccessThreshold, successes)]

\* on_probe_success
OnProbeSuccess(health) ==
    LET successes == SaturatingIncrement(health.successes) IN
    CASE health.status = "unhealthy" /\ successes >= SuccessThreshold ->
            FreshHealthy
      [] health.status = "unhealthy" /\ successes < SuccessThreshold ->
            [health EXCEPT !.fails = 0, !.successes = successes]
      [] health.status = "healthy" ->
            [health EXCEPT !.fails = 0,
                           !.successes = AtMost(SuccessThreshold, successes)]

\* Faulty variant: one more failure than the threshold is needed.
OnProbeFailureLate(health) ==
    LET fails == SaturatingIncrement(health.fails) IN
    IF health.status = "healthy" /\ fails > FailThreshold
    THEN [status |-> "unhealthy", fails |-> 0, successes |-> 0]
    ELSE [health EXCEPT !.successes = 0, !.fails = fails]

\* on_probe_failure
OnProbeFailure(health) ==
    LET fails == SaturatingIncrement(health.fails) IN
    CASE health.status = "healthy" /\ fails >= FailThreshold ->
            [status |-> "unhealthy", fails |-> 0, successes |-> 0]
      [] health.status = "healthy" /\ fails < FailThreshold ->
            [health EXCEPT !.successes = 0, !.fails = fails]
      [] health.status = "unhealthy" ->
            [health EXCEPT !.successes = 0, !.fails = AtMost(FailThreshold, fails)]

\* fold_health: an endpoint without health was healthy when it was admitted.
FoldHealth(endpoint, outcome) ==
    LET current == IF endpoint.health = NoHealth THEN FreshHealthy ELSE endpoint.health
    IN [endpoint EXCEPT !.health =
           IF outcome = "success" THEN OnProbeSuccess(current) ELSE OnProbeFailure(current)]

-----------------------------------------------------------------------------
(* Transfers and endpoints *)

\* What create_transfer may leave of a list: the endpoints that pass its probe,
\* as an iroh endpoint always does, in their order and at least one of them.
Admitted(list) ==
    UNION {{[k \in 1 .. n |-> list[at[k]]] :
              at \in {f \in [1 .. n -> DOMAIN list] :
                        /\ \A k, l \in 1 .. n : k < l => f[k] < f[l]
                        /\ \A i \in DOMAIN list :
                              list[i] \in IrohEndpoints => \E k \in 1 .. n : f[k] = i}} :
           n \in 1 .. Len(list)}

\* A transfer is admitted with those of its endpoints that passed the probe
\* of create_transfer, and with the health their sender wrote beside them.
Admit(t) ==
    /\ server = "serving"
    /\ state[t] = "absent"
    /\ \E list \in ReachableLists, health \in Submitted : \E kept \in Admitted(list) :
          /\ reachable' = [reachable EXCEPT ![t] =
                [i \in DOMAIN kept |-> [name |-> kept[i], health |-> health[kept[i]]]]]
          /\ preset' = preset \cup
                {<<t, e>> : e \in {f \in ToSet(kept) : health[f] # NoHealth}}
    /\ state' = [state EXCEPT ![t] = "ready_for_pickup"]
    /\ created' = [created EXCEPT ![t] = Cardinality({u \in TransferIds : state[u] # "absent"})]
    /\ UNCHANGED <<up, monitor, process, recent>>

\* mark_accepted or mark_delivered
PickUp(t) ==
    /\ server = "serving"
    /\ state[t] = "ready_for_pickup"
    /\ state' = [state EXCEPT ![t] = "taken"]
    /\ UNCHANGED <<reachable, created, up, monitor, process, history>>

\* A tunnel dies or comes back.
Toggle(e) ==
    /\ up' = IF e \in up THEN up \ {e} ELSE up \cup {e}
    /\ UNCHANGED <<table, monitor, process, history>>

-----------------------------------------------------------------------------
(* HealthMonitor *)

InFlight == {t \in TransferIds : state[t] = "ready_for_pickup"}

\* The oldest transfers that wait, Limit of them at most.
Watched ==
    {t \in InFlight : Cardinality({u \in InFlight : created[u] < created[t]}) < Limit}

\* The tick ends and the loop goes to its select.
EndTick(result) ==
    /\ pc' = "sleep" /\ interval' = result
    /\ batch' = <<>> /\ updated' = <<>> /\ probed' = <<>>

\* load_in_flight_transfers; with nothing to probe the tick is over.
Load ==
    /\ pc = "load"
    /\ \/ Watched = {} /\ EndTick("at_rest")
       \/ /\ Watched # {}
          /\ pc' = "probe"
          /\ \E ids \in [1 .. Cardinality(Watched) -> Watched] :
                /\ \A i, j \in DOMAIN ids : i < j => created[ids[i]] < created[ids[j]]
                /\ batch' = [i \in DOMAIN ids |->
                                [tx |-> ids[i], endpoints |-> reachable[ids[i]]]]
          /\ UNCHANGED <<updated, probed, interval>>
    /\ UNCHANGED <<table, up, process, history>>

\* One probe: an endpoint that is down fails, an iroh endpoint passes, and one
\* that is up passes or is too slow.
Probe ==
    /\ pc = "probe"
    /\ LET todo == Head(batch).endpoints
           endpoint == todo[Len(updated) + 1]
           outcomes == IF endpoint.name \in IrohEndpoints THEN {"success"}
                       ELSE IF endpoint.name \in up THEN ProbeOutcome ELSE {"failure"}
       IN \E outcome \in outcomes :
             /\ updated' = Append(updated, FoldHealth(endpoint, outcome))
             /\ probed' = Append(probed, outcome)
             /\ pc' = IF Len(updated') = Len(todo) THEN "persist" ELSE "probe"
    /\ UNCHANGED <<table, up, batch, interval, process, history>>

LongStreak ==
    IF FailThreshold > SuccessThreshold THEN FailThreshold ELSE SuccessThreshold

\* A streak one probe longer, or a new one; counted as far as a flip needs.
Continued(streak, outcome) ==
    IF streak.outcome = outcome
    THEN [streak EXCEPT !.length = AtMost(LongStreak, @ + 1)]
    ELSE [outcome |-> outcome, length |-> 1]

\* The probes of the first row of the batch have been written back.
Recorded(t) ==
    recent' = [recent EXCEPT ![t] = [e \in Endpoints |->
        IF \E i \in DOMAIN updated : updated[i].name = e
        THEN Continued(@[e], probed[CHOOSE i \in DOMAIN updated : updated[i].name = e])
        ELSE @[e]]]

\* The loop over the batch goes on, or the tick ends with a transfer touched.
NextRow ==
    \/ Len(batch) = 1 /\ EndTick("in_flight")
    \/ /\ Len(batch) > 1
       /\ pc' = "probe" /\ batch' = Tail(batch) /\ updated' = <<>> /\ probed' = <<>>
       /\ UNCHANGED interval

\* Faulty variant: the counters are not part of what is written.
PersistStatusOnly ==
    LET t == Head(batch).tx IN
    /\ pc = "persist"
    /\ reachable' = [reachable EXCEPT ![t] =
          [i \in DOMAIN updated |->
              [updated[i] EXCEPT !.health.fails = 0, !.health.successes = 0]]]
    /\ Recorded(t)
    /\ NextRow
    /\ UNCHANGED <<state, created, up, process, preset>>

\* persist_reachable_at, whatever has become of the transfer since the load.
Persist ==
    LET t == Head(batch).tx IN
    /\ pc = "persist"
    /\ reachable' = [reachable EXCEPT ![t] = updated]
    /\ Recorded(t)
    /\ NextRow
    /\ UNCHANGED <<state, created, up, process, preset>>

\* A statement fails: the rest of the batch is left to the next tick.
StatementFails ==
    /\ pc \in {"load", "persist"}
    /\ EndTick("at_rest")
    /\ UNCHANGED <<table, up, process, history>>

\* The interval is over; a shutdown that was signalled before is seen first.
Wake ==
    /\ pc = "sleep" /\ ~shutdown
    /\ pc' = "load" /\ interval' = "none"
    /\ UNCHANGED <<table, up, batch, updated, probed, process, history>>

\* The loop sees the signal and returns; main, which waits for it, exits.
Return ==
    /\ pc = "sleep" /\ shutdown
    /\ pc' = "off" /\ interval' = "none"
    /\ server' = "down" /\ shutdown' = FALSE
    /\ UNCHANGED <<table, up, batch, updated, probed, history>>

-----------------------------------------------------------------------------
(* The process *)

\* Faulty variant: the signal reaches the loop only if it is waiting for it.
ShutdownUnlatched ==
    /\ server = "serving"
    /\ server' = "joining" /\ shutdown' = (pc = "sleep")
    /\ UNCHANGED <<table, up, monitor, history>>

\* main: the server has stopped; shutdown() signals the monitor and joins it.
Shutdown ==
    /\ server = "serving"
    /\ server' = "joining" /\ shutdown' = TRUE
    /\ UNCHANGED <<table, up, monitor, history>>

Crash ==
    /\ server # "down"
    /\ server' = "down" /\ shutdown' = FALSE
    /\ pc' = "off" /\ interval' = "none"
    /\ batch' = <<>> /\ updated' = <<>> /\ probed' = <<>>
    /\ UNCHANGED <<table, up, history>>

\* spawn
Spawn ==
    /\ server = "down"
    /\ server' = "serving" /\ pc' = "load"
    /\ UNCHANGED <<table, up, batch, updated, probed, interval, shutdown, history>>

Run == Load \/ Probe \/ Persist \/ Wake \/ Return

Next ==
    \/ Run \/ StatementFails
    \/ \E t \in TransferIds : Admit(t) \/ PickUp(t)
    \/ \E e \in Endpoints \ IrohEndpoints : Toggle(e)
    \/ Shutdown \/ Crash \/ Spawn

SafetySpec == Init /\ [][Next]_vars

\* The runtime polls the monitor's task; every probe ends at its timeout.
Fairness == WF_vars(Run)

Spec == SafetySpec /\ Fairness

-----------------------------------------------------------------------------
(* Properties *)

HealthOf(t, e) ==
    {reachable[t][i].health : i \in {j \in DOMAIN reachable[t] : reachable[t][j].name = e}}

\* The last n outcomes written back for e were all the given one.
LastOutcomes(t, e, n, outcome) ==
    recent[t][e].length >= n /\ recent[t][e].outcome = outcome

\* Every variable has its type; the counters the monitor itself has written
\* are bounded by the thresholds.
TypeOK ==
    /\ state \in [TransferIds -> {"absent", "ready_for_pickup", "taken"}]
    /\ reachable \in [TransferIds -> Seq(Endpoint)]
    /\ created \in [TransferIds -> Nat]
    /\ up \subseteq Endpoints
    /\ pc \in {"off", "load", "probe", "persist", "sleep"}
    /\ batch \in Seq(Row)
    /\ updated \in Seq(Endpoint)
    /\ interval \in {"none", "in_flight", "at_rest"}
    /\ server \in {"down", "serving", "joining"}
    /\ shutdown \in BOOLEAN
    /\ \A t \in TransferIds, e \in Endpoints : \A h \in HealthOf(t, e) :
          recent[t][e].length > 0 =>
              h.fails <= FailThreshold /\ h.successes <= SuccessThreshold

\* The status is what the last probes say: FailThreshold failures in a row make
\* an endpoint unhealthy and SuccessThreshold successes make it healthy again,
\* whatever was submitted with it and however ticks were interrupted.
StatusFollowsProbes ==
    \A t \in TransferIds, e \in Endpoints : \A h \in HealthOf(t, e) :
        /\ LastOutcomes(t, e, FailThreshold, "failure") => h.status = "unhealthy"
        /\ LastOutcomes(t, e, SuccessThreshold, "success") => h.status = "healthy"

\* Nothing less flips it: not a failed tick, a restart or a flapping endpoint.
\* (An endpoint submitted with counters of its own may flip earlier.)
NoSpuriousFlip ==
    [][\A t \in TransferIds, e \in Endpoints :
          \A h \in HealthOf(t, e), g \in HealthOf(t, e)' :
              <<t, e>> \notin preset /\ h.status # g.status =>
                  \/ g.status = "unhealthy" /\ LastOutcomes(t, e, FailThreshold, "failure")'
                  \/ g.status = "healthy" /\ h.status = "unknown"
                  \/ g.status = "healthy" /\ LastOutcomes(t, e, SuccessThreshold, "success")'
       ]_vars

\* An endpoint that stays down is found out, for the transfers that stay among
\* the Limit oldest, once the process stays up and statements succeed.
DownIsNoticed ==
    <>[][~StatementFails]_vars =>
        \A t \in TransferIds, e \in Endpoints :
            <>[](/\ t \in Watched
                 /\ HealthOf(t, e) # {} /\ e \notin up \cup IrohEndpoints
                 /\ pc # "off")
                => <>[](\A h \in HealthOf(t, e) : h.status = "unhealthy")

\* The graceful stop of main ends: the monitor sees the signal at the end of
\* its tick, wherever it was when the signal came.
StopIsReached == server = "joining" ~> server # "joining"
=============================================================================
