------------------------- MODULE ReachabilityProofs -------------------------
(***************************************************************************)
(* Proofs about Reachability.  The health written beside an endpoint is    *)
(* tied to the streak of equal outcomes behind it: a healthy endpoint has  *)
(* counted every failure of the streak and fewer than FailThreshold, an    *)
(* unhealthy one every success and fewer than SuccessThreshold.  The       *)
(* monitor works on a copy of the row, so the argument also needs that the *)
(* copy is still what the table holds when it is written back.             *)
(***************************************************************************)
EXTENDS Reachability, FiniteSetTheorems, TLAPS

Streaks == [outcome : ProbeOutcome, length : 0 .. LongStreak]

\* What a streak says of the health, whatever the health was to begin with.
Follows(h, s) ==
    s.length >= 1 =>
        /\ h.status \in Status /\ h.fails <= FailThreshold /\ h.successes <= SuccessThreshold
        /\ s.outcome = "failure" =>
              /\ h.successes = 0
              /\ h.status = "healthy" => s.length <= h.fails /\ h.fails < FailThreshold
        /\ s.outcome = "success" =>
              /\ h.fails = 0
              /\ h.status = "unhealthy" => s.length <= h.successes /\ h.successes < SuccessThreshold

\* The counters that lead to a flip count nothing but the streak.
CountsStreak(h, s) ==
    /\ h.status = "healthy" /\ h.fails > 0 => s.outcome = "failure" /\ h.fails <= s.length
    /\ h.status = "unhealthy" /\ h.successes > 0 => s.outcome = "success" /\ h.successes <= s.length

\* An endpoint submitted without health has none until its first probe.
OwnHealth(h, s) == (s.length = 0 => h = NoHealth) /\ CountsStreak(h, s)

-----------------------------------------------------------------------------
(* The debounce *)

\* The thresholds, as numbers.
LEMMA Thresholds ==
    /\ FailThreshold \in Nat /\ SuccessThreshold \in Nat /\ U8Max \in Nat /\ LongStreak \in Nat
    /\ FailThreshold >= 1 /\ SuccessThreshold >= 1
    /\ FailThreshold <= U8Max /\ SuccessThreshold <= U8Max
    /\ FailThreshold <= LongStreak /\ SuccessThreshold <= LongStreak
BY ThresholdAssumption DEF LongStreak

\* A streak grows to LongStreak at most, which is enough for either threshold.
LEMMA ContinuedStreak ==
    ASSUME NEW s \in Streaks, NEW outcome \in ProbeOutcome
    PROVE  /\ Continued(s, outcome) \in Streaks
           /\ Continued(s, outcome).outcome = outcome
           /\ Continued(s, outcome).length \in Nat
           /\ Continued(s, outcome).length >= 1
           /\ Continued(s, outcome).length =
                 IF s.outcome # outcome THEN 1
                 ELSE IF s.length + 1 > LongStreak THEN LongStreak ELSE s.length + 1
<1>1. s.length \in Nat /\ s.length <= LongStreak /\ s.outcome \in ProbeOutcome
      /\ s = [outcome |-> s.outcome, length |-> s.length]
  BY Thresholds DEF Streaks
<1>2. CASE s.outcome # outcome
  BY <1>1, <1>2, Thresholds DEF Continued, Streaks
<1>3. CASE s.outcome = outcome
  <2>1. AtMost(LongStreak, s.length + 1) \in 1 .. LongStreak
    BY <1>1, Thresholds DEF AtMost
  <2>2. Continued(s, outcome) = [outcome |-> outcome, length |-> AtMost(LongStreak, s.length + 1)]
    BY <1>1, <1>3 DEF Continued
  <2>. QED
    BY <1>1, <1>3, <2>1, <2>2, Thresholds DEF Streaks, AtMost
<1>. QED
  BY <1>2, <1>3

\* What a probe adds to a counter.
LEMMA Incremented ==
    ASSUME NEW n \in 0 .. U8Max, NEW bound \in 1 .. U8Max
    PROVE  /\ SaturatingIncrement(n) \in 1 .. U8Max
           /\ SaturatingIncrement(n) <= n + 1
           /\ SaturatingIncrement(n) >= bound \/ SaturatingIncrement(n) = n + 1
           /\ AtMost(bound, SaturatingIncrement(n)) \in 0 .. bound
BY Thresholds DEF SaturatingIncrement, AtMost

\* The parts of a health.
LEMMA HealthParts ==
    ASSUME NEW h \in EndpointHealth
    PROVE  /\ h.status = "healthy" \/ h.status = "unhealthy"
           /\ h.fails \in 0 .. U8Max /\ h.successes \in 0 .. U8Max
           /\ h.fails \in Nat /\ h.successes \in Nat
           /\ h = [status |-> h.status, fails |-> h.fails, successes |-> h.successes]
BY Thresholds DEF EndpointHealth, Status

\* on_probe_success keeps health and streak together.
LEMMA SuccessFollows ==
    ASSUME NEW h \in EndpointHealth, NEW s \in Streaks, Follows(h, s),
           NEW c \in Streaks, c = Continued(s, "success"), NEW g, g = OnProbeSuccess(h)
    PROVE  /\ g \in EndpointHealth
           /\ Follows(g, c)
           /\ CountsStreak(h, s) =>
                 /\ CountsStreak(g, c)
                 /\ g.status # h.status =>
                       g.status = "healthy" /\ c.outcome = "success" /\ c.length >= SuccessThreshold
<1>1. /\ c.outcome = "success" /\ c.length \in Nat /\ c.length >= 1
      /\ c.length = IF s.outcome # "success" THEN 1
                    ELSE IF s.length + 1 > LongStreak THEN LongStreak ELSE s.length + 1
  BY ContinuedStreak DEF ProbeOutcome
<1>2. s.length \in Nat /\ s.length <= LongStreak /\ s.outcome \in {"success", "failure"}
  BY Thresholds DEF Streaks, ProbeOutcome
<1>3. PICK n : n = SaturatingIncrement(h.successes)
  OBVIOUS
<1>4. /\ n \in 1 .. U8Max /\ n \in Nat /\ n >= 1 /\ n <= U8Max /\ n <= h.successes + 1
      /\ n >= SuccessThreshold \/ n = h.successes + 1
      /\ AtMost(SuccessThreshold, n) \in 0 .. SuccessThreshold
  BY <1>3, HealthParts, Incremented, ThresholdAssumption, Thresholds
<1>5. CASE h.status = "unhealthy" /\ n >= SuccessThreshold
  <2>1. g = [status |-> "healthy", fails |-> 0, successes |-> 0]
    BY <1>3, <1>4, <1>5, Thresholds DEF OnProbeSuccess, FreshHealthy
  <2>2. g \in EndpointHealth
    BY <2>1, Thresholds DEF EndpointHealth, Status
  <2>3. Follows(g, c) /\ CountsStreak(g, c)
    BY <1>1, <2>1, Thresholds DEF Follows, CountsStreak, Status
  <2>4. CountsStreak(h, s) => c.length >= SuccessThreshold
    BY <1>1, <1>2, <1>4, <1>5, HealthParts, Thresholds DEF CountsStreak
  <2>. QED
    BY <1>1, <2>1, <2>2, <2>3, <2>4
<1>6. CASE h.status = "unhealthy" /\ n < SuccessThreshold
  <2>1. g = [status |-> "unhealthy", fails |-> 0, successes |-> n]
    <3>1. g = [h EXCEPT !.fails = 0, !.successes = n]
      BY <1>3, <1>4, <1>6, Thresholds DEF OnProbeSuccess
    <3>2. h = [status |-> h.status, fails |-> h.fails, successes |-> h.successes]
      BY HealthParts
    <3>. QED
      BY <1>6, <3>1, <3>2
  <2>2. g \in EndpointHealth
    BY <1>4, <2>1, Thresholds DEF EndpointHealth, Status
  <2>3. c.length <= n
    BY <1>1, <1>2, <1>4, <1>6, HealthParts, Thresholds DEF Follows
  <2>4. Follows(g, c)
    BY <1>1, <1>4, <1>6, <2>1, <2>3, Thresholds DEF Follows, Status
  <2>5. CountsStreak(h, s) => CountsStreak(g, c)
    BY <1>1, <1>2, <1>4, <1>6, <2>1, HealthParts, Thresholds DEF CountsStreak
  <2>. QED
    BY <1>6, <2>1, <2>2, <2>4, <2>5
<1>7. CASE h.status = "healthy"
  <2>1. g = [status |-> "healthy", fails |-> 0, successes |-> AtMost(SuccessThreshold, n)]
    <3>1. g = [h EXCEPT !.fails = 0, !.successes = AtMost(SuccessThreshold, n)]
      BY <1>3, <1>4, <1>7, Thresholds DEF OnProbeSuccess
    <3>2. h = [status |-> h.status, fails |-> h.fails, successes |-> h.successes]
      BY HealthParts
    <3>. QED
      BY <1>7, <3>1, <3>2
  <2>2. AtMost(SuccessThreshold, n) \in 0 .. SuccessThreshold
    BY <1>4
  <2>3. g \in EndpointHealth
    BY <2>1, <2>2, Thresholds DEF EndpointHealth, Status
  <2>4. Follows(g, c) /\ CountsStreak(g, c)
    BY <1>1, <2>1, <2>2, Thresholds DEF Follows, CountsStreak, Status
  <2>. QED
    BY <1>7, <2>1, <2>3, <2>4
<1>. QED
  BY <1>4, <1>5, <1>6, <1>7, HealthParts, Thresholds

\* on_probe_failure keeps them together too.
LEMMA FailureFollows ==
    ASSUME NEW h \in EndpointHealth, NEW s \in Streaks, Follows(h, s),
           NEW c \in Streaks, c = Continued(s, "failure"), NEW g, g = OnProbeFailure(h)
    PROVE  /\ g \in EndpointHealth
           /\ Follows(g, c)
           /\ CountsStreak(h, s) =>
                 /\ CountsStreak(g, c)
                 /\ g.status # h.status =>
                       g.status = "unhealthy" /\ c.outcome = "failure" /\ c.length >= FailThreshold
<1>1. /\ c.outcome = "failure" /\ c.length \in Nat /\ c.length >= 1
      /\ c.length = IF s.outcome # "failure" THEN 1
                    ELSE IF s.length + 1 > LongStreak THEN LongStreak ELSE s.length + 1
  BY ContinuedStreak DEF ProbeOutcome
<1>2. s.length \in Nat /\ s.length <= LongStreak /\ s.outcome \in {"success", "failure"}
  BY Thresholds DEF Streaks, ProbeOutcome
<1>3. PICK n : n = SaturatingIncrement(h.fails)
  OBVIOUS
<1>4. /\ n \in 1 .. U8Max /\ n \in Nat /\ n >= 1 /\ n <= U8Max /\ n <= h.fails + 1
      /\ n >= FailThreshold \/ n = h.fails + 1
      /\ AtMost(FailThreshold, n) \in 0 .. FailThreshold
  BY <1>3, HealthParts, Incremented, ThresholdAssumption, Thresholds
<1>5. CASE h.status = "healthy" /\ n >= FailThreshold
  <2>1. g = [status |-> "unhealthy", fails |-> 0, successes |-> 0]
    BY <1>3, <1>4, <1>5, Thresholds DEF OnProbeFailure, FreshHealthy
  <2>2. g \in EndpointHealth
    BY <2>1, Thresholds DEF EndpointHealth, Status
  <2>3. Follows(g, c) /\ CountsStreak(g, c)
    BY <1>1, <2>1, Thresholds DEF Follows, CountsStreak, Status
  <2>4. CountsStreak(h, s) => c.length >= FailThreshold
    BY <1>1, <1>2, <1>4, <1>5, HealthParts, Thresholds DEF CountsStreak
  <2>. QED
    BY <1>1, <2>1, <2>2, <2>3, <2>4
<1>6. CASE h.status = "healthy" /\ n < FailThreshold
  <2>1. g = [status |-> "healthy", fails |-> n, successes |-> 0]
    <3>1. g = [h EXCEPT !.successes = 0, !.fails = n]
      BY <1>3, <1>4, <1>6, Thresholds DEF OnProbeFailure
    <3>2. h = [status |-> h.status, fails |-> h.fails, successes |-> h.successes]
      BY HealthParts
    <3>. QED
      BY <1>6, <3>1, <3>2
  <2>2. g \in EndpointHealth
    BY <1>4, <2>1, Thresholds DEF EndpointHealth, Status
  <2>3. c.length <= n
    BY <1>1, <1>2, <1>4, <1>6, HealthParts, Thresholds DEF Follows
  <2>4. Follows(g, c)
    BY <1>1, <1>4, <1>6, <2>1, <2>3, Thresholds DEF Follows, Status
  <2>5. CountsStreak(h, s) => CountsStreak(g, c)
    BY <1>1, <1>2, <1>4, <1>6, <2>1, HealthParts, Thresholds DEF CountsStreak
  <2>. QED
    BY <1>6, <2>1, <2>2, <2>4, <2>5
<1>7. CASE h.status = "unhealthy"
  <2>1. g = [status |-> "unhealthy", fails |-> AtMost(FailThreshold, n), successes |-> 0]
    <3>1. g = [h EXCEPT !.successes = 0, !.fails = AtMost(FailThreshold, n)]
      BY <1>3, <1>4, <1>7, Thresholds DEF OnProbeFailure
    <3>2. h = [status |-> h.status, fails |-> h.fails, successes |-> h.successes]
      BY HealthParts
    <3>. QED
      BY <1>7, <3>1, <3>2
  <2>2. AtMost(FailThreshold, n) \in 0 .. FailThreshold
    BY <1>4
  <2>3. g \in EndpointHealth
    BY <2>1, <2>2, Thresholds DEF EndpointHealth, Status
  <2>4. Follows(g, c) /\ CountsStreak(g, c)
    BY <1>1, <2>1, <2>2, Thresholds DEF Follows, CountsStreak, Status
  <2>. QED
    BY <1>7, <2>1, <2>3, <2>4
<1>. QED
  BY <1>4, <1>5, <1>6, <1>7, HealthParts, Thresholds

\* What a written probe may do to the status of an endpoint.
Flipped(h, g, c) ==
    \/ g.status = "unhealthy" /\ c.outcome = "failure" /\ c.length >= FailThreshold
    \/ g.status = "healthy" /\ h.status = "unknown"
    \/ g.status = "healthy" /\ c.outcome = "success" /\ c.length >= SuccessThreshold

\* fold_health, the endpoint without health included.
LEMMA FoldFollows ==
    ASSUME NEW endpoint \in Endpoint, NEW outcome \in ProbeOutcome, NEW s \in Streaks,
           Follows(endpoint.health, s),
           NEW f, f = FoldHealth(endpoint, outcome), NEW c, c = Continued(s, outcome)
    PROVE  /\ f \in Endpoint /\ f.name = endpoint.name
           /\ Follows(f.health, c)
           /\ OwnHealth(endpoint.health, s) =>
                 /\ OwnHealth(f.health, c)
                 /\ f.health.status # endpoint.health.status => Flipped(endpoint.health, f.health, c)
<1>1. PICK current : current = IF endpoint.health = NoHealth THEN FreshHealthy ELSE endpoint.health
  OBVIOUS
<1>2. PICK g : g = IF outcome = "success" THEN OnProbeSuccess(current) ELSE OnProbeFailure(current)
  OBVIOUS
<1>3. current \in EndpointHealth
  <2>1. FreshHealthy \in EndpointHealth
    BY Thresholds DEF FreshHealthy, EndpointHealth, Status
  <2>. QED
    BY <1>1, <2>1 DEF Endpoint
<1>4. endpoint.health = NoHealth => endpoint.health.status = "unknown" /\ s.length = 0
  BY Thresholds DEF Follows, NoHealth, Status, Streaks
<1>5. Follows(current, s)
  BY <1>1, <1>4 DEF Follows
<1>6. OwnHealth(endpoint.health, s) => CountsStreak(current, s)
  BY <1>1 DEF OwnHealth, CountsStreak, FreshHealthy
<1>7. c \in Streaks /\ c.outcome = outcome /\ c.length >= 1 /\ c.length \in Nat
  BY ContinuedStreak
<1>8. /\ g \in EndpointHealth
      /\ Follows(g, c)
      /\ CountsStreak(current, s) =>
            /\ CountsStreak(g, c)
            /\ g.status # current.status =>
                  \/ g.status = "unhealthy" /\ c.outcome = "failure" /\ c.length >= FailThreshold
                  \/ g.status = "healthy" /\ c.outcome = "success" /\ c.length >= SuccessThreshold
  <2>1. CASE outcome = "success"
    BY <1>2, <1>3, <1>5, <1>7, <2>1, SuccessFollows
  <2>2. CASE outcome = "failure"
    BY <1>2, <1>3, <1>5, <1>7, <2>2, FailureFollows
  <2>. QED
    BY <2>1, <2>2 DEF ProbeOutcome
<1>9. f = [endpoint EXCEPT !.health = g]
  BY <1>1, <1>2 DEF FoldHealth
<1>10. f.health = g /\ f.name = endpoint.name /\ f \in Endpoint
  BY <1>8, <1>9 DEF Endpoint
<1>11. CountsStreak(g, c) => OwnHealth(g, c)
  BY <1>7 DEF OwnHealth
<1>12. /\ endpoint.health = NoHealth => current.status = "healthy"
       /\ endpoint.health # NoHealth => endpoint.health.status = current.status
       /\ g.status \in {"healthy", "unhealthy"}
  BY <1>1, <1>8 DEF FreshHealthy, EndpointHealth, Status
<1>13. ASSUME OwnHealth(endpoint.health, s), g.status # endpoint.health.status
       PROVE  Flipped(endpoint.health, g, c)
  BY <1>4, <1>6, <1>8, <1>12, <1>13 DEF Flipped
<1>. QED
  BY <1>6, <1>8, <1>10, <1>11, <1>13

-----------------------------------------------------------------------------
(* What the monitor holds *)

\* Everything has its type, the history of outcomes included.
Typed ==
    /\ state \in [TransferIds -> {"absent", "ready_for_pickup", "taken"}]
    /\ reachable \in [TransferIds -> Seq(Endpoint)]
    /\ created \in [TransferIds -> Nat]
    /\ up \subseteq Endpoints
    /\ pc \in {"off", "load", "probe", "persist", "sleep"}
    /\ batch \in Seq(Row)
    /\ updated \in Seq(Endpoint)
    /\ interval \in {"none", "in_flight", "at_rest"}
    /\ server \in {"down", "serving", "joining"}
    /\ shutdown \in BOOLEAN
    /\ probed \in Seq(ProbeOutcome)
    /\ recent \in [TransferIds -> [Endpoints -> Streaks]]

\* A transfer has endpoints, each of them once, from its admission on, and no
\* probe before.
Listed ==
    \A t \in TransferIds :
        /\ state[t] = "absent" => reachable[t] = <<>> /\ \A e \in Endpoints : recent[t][e].length = 0
        /\ state[t] # "absent" => reachable[t] # <<>>
        /\ \A i, j \in DOMAIN reachable[t] : reachable[t][i].name = reachable[t][j].name => i = j

\* The rows a tick holds are those of the table, each of them once: nobody
\* but the monitor writes the column.
RowsCurrent ==
    /\ \A k \in DOMAIN batch :
          /\ state[batch[k].tx] # "absent"
          /\ batch[k].endpoints = reachable[batch[k].tx]
    /\ \A k, l \in DOMAIN batch : batch[k].tx = batch[l].tx => k = l

\* The endpoints probed so far are the first of the row, folded with their
\* outcomes.
Folded ==
    /\ pc \in {"off", "load", "sleep"} => batch = <<>> /\ updated = <<>> /\ probed = <<>>
    /\ pc \in {"probe", "persist"} => batch # <<>> /\ Len(updated) = Len(probed)
    /\ pc = "probe" => Len(updated) < Len(batch[1].endpoints)
    /\ pc = "persist" => Len(updated) = Len(batch[1].endpoints)
    /\ \A i \in DOMAIN updated : updated[i] = FoldHealth(batch[1].endpoints[i], probed[i])

\* Health and streak stay together for every endpoint in the table.
Debounced ==
    \A t \in TransferIds : \A i \in DOMAIN reachable[t] :
        /\ Follows(reachable[t][i].health, recent[t][reachable[t][i].name])
        /\ <<t, reachable[t][i].name>> \notin preset =>
              OwnHealth(reachable[t][i].health, recent[t][reachable[t][i].name])

MonitorInv == Typed /\ Listed /\ RowsCurrent /\ Folded /\ Debounced

\* The initial state.
LEMMA MonitorInit == Init => MonitorInv
<1>. SUFFICES ASSUME Init PROVE MonitorInv
  OBVIOUS
<1>1. NoStreak \in Streaks /\ NoStreak.length = 0
  BY Thresholds DEF NoStreak, Streaks, ProbeOutcome
<1>2. Typed
  <2>1. <<>> \in Seq(Endpoint) /\ <<>> \in Seq(Row) /\ <<>> \in Seq(ProbeOutcome)
    OBVIOUS
  <2>2. recent \in [TransferIds -> [Endpoints -> Streaks]]
    BY <1>1 DEF Init
  <2>3. created \in [TransferIds -> Nat] /\ reachable \in [TransferIds -> Seq(Endpoint)]
    BY <2>1 DEF Init
  <2>. QED
    BY <2>1, <2>2, <2>3 DEF Init, Typed
<1>3. Listed /\ RowsCurrent /\ Folded /\ Debounced
  BY <1>1 DEF Init, Listed, RowsCurrent, Folded, Debounced
<1>. QED
  BY <1>2, <1>3 DEF MonitorInv

\* Steps that touch neither the table nor what the monitor holds.
LEMMA TableKept ==
    ASSUME MonitorInv, UNCHANGED <<reachable, recent, preset>>,
           state' \in [TransferIds -> {"absent", "ready_for_pickup", "taken"}],
           \A t \in TransferIds : state'[t] = "absent" <=> state[t] = "absent"
    PROVE  Listed' /\ Debounced'
BY DEF MonitorInv, Typed, Listed, Debounced

\* What a transfer is admitted with: endpoints of the list, each once.
LEMMA AdmittedLists ==
    ASSUME NEW list \in ReachableLists, NEW kept \in Admitted(list)
    PROVE  kept \in Seq(Endpoints) /\ kept # <<>> /\ IsInjective(kept)
<1>1. list \in Seq(Endpoints) /\ IsInjective(list)
  BY EndpointsAssumption
<1>2. PICK n \in 1 .. Len(list) : \E at \in [1 .. n -> DOMAIN list] :
        /\ \A k, l \in 1 .. n : k < l => at[k] < at[l]
        /\ kept = [k \in 1 .. n |-> list[at[k]]]
  BY DEF Admitted
<1>6. PICK at \in [1 .. n -> DOMAIN list] :
        /\ \A k, l \in 1 .. n : k < l => at[k] < at[l]
        /\ kept = [k \in 1 .. n |-> list[at[k]]]
  BY <1>2
<1>3. n \in Nat /\ n >= 1
  BY <1>1
<1>4. kept \in Seq(Endpoints) /\ kept # <<>>
  BY <1>1, <1>3, <1>6
<1>5. ASSUME NEW k \in DOMAIN kept, NEW l \in DOMAIN kept, kept[k] = kept[l] PROVE k = l
  <2>1. k \in 1 .. n /\ l \in 1 .. n /\ list[at[k]] = list[at[l]]
    BY <1>5, <1>6
  <2>2. at[k] \in DOMAIN list /\ at[l] \in DOMAIN list
    BY <1>6, <2>1
  <2>3. at[k] = at[l]
    BY <1>1, <2>1, <2>2 DEF IsInjective
  <2>4. at[k] \in Nat
    BY <1>1, <2>2
  <2>. QED
    BY <1>3, <1>6, <2>1, <2>3, <2>4
<1>. QED
  BY <1>4, <1>5 DEF IsInjective

\* The sequences a tick begins and ends with.
LEMMA NothingHeld ==
    /\ <<>> \in Seq(Endpoint) /\ <<>> \in Seq(Row) /\ <<>> \in Seq(ProbeOutcome)
    /\ DOMAIN <<>> = {} /\ Len(<<>>) = 0
OBVIOUS

\* create_transfer adds a row that the monitor does not hold.
LEMMA AdmitStep ==
    ASSUME MonitorInv, NEW t \in TransferIds, Admit(t)
    PROVE  MonitorInv'
<1>1. PICK list \in ReachableLists, health \in Submitted : \E kept \in Admitted(list) :
        /\ reachable' = [reachable EXCEPT ![t] =
              [i \in DOMAIN kept |-> [name |-> kept[i], health |-> health[kept[i]]]]]
        /\ preset' = preset \cup {<<t, e>> : e \in {f \in ToSet(kept) : health[f] # NoHealth}}
  BY DEF Admit
<1>2. PICK kept \in Admitted(list) :
        /\ reachable' = [reachable EXCEPT ![t] =
              [i \in DOMAIN kept |-> [name |-> kept[i], health |-> health[kept[i]]]]]
        /\ preset' = preset \cup {<<t, e>> : e \in {f \in ToSet(kept) : health[f] # NoHealth}}
  BY <1>1
<1>3. kept \in Seq(Endpoints) /\ kept # <<>> /\ IsInjective(kept)
  BY AdmittedLists
<1>4. \A e \in Endpoints : health[e] \in EndpointHealth \cup {NoHealth}
  BY EndpointsAssumption
<1>5. PICK row : row = [i \in DOMAIN kept |-> [name |-> kept[i], health |-> health[kept[i]]]]
  OBVIOUS
<1>6. /\ row \in Seq(Endpoint) /\ row # <<>> /\ DOMAIN row = DOMAIN kept
      /\ \A i \in DOMAIN row : row[i].name = kept[i] /\ row[i].health = health[kept[i]]
                               /\ kept[i] \in Endpoints
  <2>1. PICK n \in Nat : DOMAIN kept = 1 .. n /\ n >= 1
    BY <1>3
  <2>2. \A i \in 1 .. n : kept[i] \in Endpoints
    BY <1>3, <2>1
  <2>3. row = [i \in 1 .. n |-> [name |-> kept[i], health |-> health[kept[i]]]]
    BY <1>5, <2>1
  <2>4. \A i \in 1 .. n : [name |-> kept[i], health |-> health[kept[i]]] \in Endpoint
    BY <1>4, <2>2 DEF Endpoint
  <2>5. row \in Seq(Endpoint)
    BY <2>3, <2>4
  <2>. QED
    BY <2>1, <2>2, <2>3, <2>5
<1>7. /\ state[t] = "absent" /\ state' = [state EXCEPT ![t] = "ready_for_pickup"]
      /\ reachable' = [reachable EXCEPT ![t] = row]
      /\ UNCHANGED <<up, pc, batch, updated, probed, interval, server, shutdown, recent>>
  BY <1>2, <1>5 DEF Admit, monitor, process
<1>8. Typed'
  <2>1. Cardinality({u \in TransferIds : state[u] # "absent"}) \in Nat
    BY TransferIdsAssumption, FS_Subset, FS_CardinalityType
  <2>2. created' \in [TransferIds -> Nat]
    BY <2>1 DEF Admit, MonitorInv, Typed
  <2>. QED
    BY <1>6, <1>7, <2>2 DEF MonitorInv, Typed
<1>9. Listed'
  <2>1. ASSUME NEW u \in TransferIds
        PROVE  /\ state'[u] = "absent" =>
                     reachable'[u] = <<>> /\ \A e \in Endpoints : recent'[u][e].length = 0
               /\ state'[u] # "absent" => reachable'[u] # <<>>
               /\ \A i, j \in DOMAIN reachable'[u] :
                     reachable'[u][i].name = reachable'[u][j].name => i = j
    <3>1. CASE u = t
      <4>1. state'[u] = "ready_for_pickup" /\ reachable'[u] = row
        BY <1>7, <3>1 DEF MonitorInv, Typed
      <4>. QED
        BY <1>3, <1>6, <4>1 DEF IsInjective
    <3>2. CASE u # t
      BY <1>7, <3>2 DEF MonitorInv, Typed, Listed
    <3>. QED
      BY <3>1, <3>2
  <2>. QED
    BY <2>1 DEF Listed
<1>10. \A k \in DOMAIN batch : batch[k].tx \in TransferIds /\ batch[k].tx # t
  <2>1. ASSUME NEW k \in DOMAIN batch PROVE batch[k].tx \in TransferIds /\ batch[k].tx # t
    <3>1. batch[k] \in Row
      BY <2>1 DEF MonitorInv, Typed
    <3>2. state[batch[k].tx] # "absent"
      BY <2>1 DEF MonitorInv, RowsCurrent
    <3>. QED
      BY <1>7, <3>1, <3>2 DEF Row
  <2>. QED
    BY <2>1
<1>11. RowsCurrent'
  BY <1>7, <1>10 DEF MonitorInv, Typed, RowsCurrent
<1>12. Folded'
  BY <1>7 DEF MonitorInv, Folded
<1>13. Debounced'
  <2>1. ASSUME NEW u \in TransferIds, NEW i \in DOMAIN reachable'[u]
        PROVE  /\ Follows(reachable'[u][i].health, recent'[u][reachable'[u][i].name])
               /\ <<u, reachable'[u][i].name>> \notin preset' =>
                     OwnHealth(reachable'[u][i].health, recent'[u][reachable'[u][i].name])
    <3>1. CASE u = t
      <4>1. reachable'[u] = row /\ i \in DOMAIN kept /\ kept[i] \in Endpoints
        BY <1>6, <1>7, <2>1, <3>1 DEF MonitorInv, Typed
      <4>2. row[i].name = kept[i] /\ row[i].health = health[kept[i]]
        BY <1>6, <4>1
      <4>3. recent'[u][kept[i]].length = 0
        BY <1>7, <3>1, <4>1 DEF MonitorInv, Listed
      <4>4. <<t, kept[i]>> \notin preset' => health[kept[i]] = NoHealth
        BY <1>2, <4>1 DEF ToSet
      <4>5. CountsStreak(NoHealth, recent'[u][kept[i]])
        BY DEF CountsStreak, NoHealth
      <4>6. Follows(health[kept[i]], recent'[u][kept[i]])
        BY <4>3 DEF Follows
      <4>. QED
        BY <3>1, <4>1, <4>2, <4>3, <4>4, <4>5, <4>6 DEF OwnHealth
    <3>2. CASE u # t
      <4>1. reachable'[u] = reachable[u]
        BY <1>7, <3>2 DEF MonitorInv, Typed
      <4>2. \A e : <<u, e>> \notin preset' => <<u, e>> \notin preset
        BY <1>2
      <4>. QED
        BY <1>7, <2>1, <4>1, <4>2 DEF MonitorInv, Debounced
    <3>. QED
      BY <3>1, <3>2
  <2>. QED
    BY <2>1 DEF Debounced
<1>. QED
  BY <1>8, <1>9, <1>11, <1>12, <1>13 DEF MonitorInv

\* load_in_flight_transfers copies rows of the table, each once.
LEMMA LoadStep ==
    ASSUME MonitorInv, Load
    PROVE  MonitorInv'
<1>1. UNCHANGED <<state, reachable, created, up, server, shutdown, recent, preset>>
  BY DEF Load, table, process, history
<1>2. Listed' /\ Debounced'
  BY <1>1, TableKept DEF MonitorInv, Typed
<1>3. CASE EndTick("at_rest")
  <2>1. batch' = <<>> /\ updated' = <<>> /\ probed' = <<>> /\ pc' = "sleep" /\ interval' = "at_rest"
    BY <1>3 DEF EndTick
  <2>2. Typed'
    BY <1>1, <2>1, NothingHeld DEF MonitorInv, Typed
  <2>3. RowsCurrent' /\ Folded'
    BY <2>1, NothingHeld DEF RowsCurrent, Folded
  <2>. QED
    BY <1>2, <2>2, <2>3 DEF MonitorInv
<1>4. CASE Watched # {} /\ pc' = "probe"
  <2>1. PICK ids \in [1 .. Cardinality(Watched) -> Watched] :
          /\ \A i, j \in DOMAIN ids : i < j => created[ids[i]] < created[ids[j]]
          /\ batch' = [i \in DOMAIN ids |-> [tx |-> ids[i], endpoints |-> reachable[ids[i]]]]
    BY <1>4 DEF Load, EndTick
  <2>2. UNCHANGED <<updated, probed, interval>> /\ updated = <<>> /\ probed = <<>>
    BY <1>4 DEF Load, EndTick, MonitorInv, Folded
  <2>3. Watched \subseteq TransferIds /\ \A t \in Watched : state[t] # "absent"
    BY DEF Watched, InFlight
  <2>4. Cardinality(Watched) \in Nat /\ Cardinality(Watched) >= 1
    BY <1>4, <2>3, TransferIdsAssumption, FS_Subset, FS_CardinalityType, FS_EmptySet
  <2>5. PICK n \in Nat : n = Cardinality(Watched) /\ n >= 1
    BY <2>4
  <2>6. /\ ids \in [1 .. n -> Watched] /\ DOMAIN batch' = 1 .. n
        /\ batch' = [i \in 1 .. n |-> [tx |-> ids[i], endpoints |-> reachable[ids[i]]]]
    BY <2>1, <2>5
  <2>7. \A i \in 1 .. n : /\ ids[i] \in TransferIds /\ state[ids[i]] # "absent"
                          /\ batch'[i].tx = ids[i] /\ batch'[i].endpoints = reachable[ids[i]]
                          /\ batch'[i] \in Row
    BY <2>3, <2>6 DEF MonitorInv, Typed, Row
  <2>8. batch' \in Seq(Row) /\ batch' # <<>>
    BY <2>5, <2>6, <2>7
  <2>9. Typed'
    BY <1>1, <1>4, <2>2, <2>8 DEF MonitorInv, Typed
  <2>10. RowsCurrent'
    <3>1. ASSUME NEW k \in 1 .. n, NEW l \in 1 .. n, ids[k] = ids[l] PROVE k = l
      <4>1. created[ids[k]] \in Nat
        BY <2>7 DEF MonitorInv, Typed
      <4>2. DOMAIN ids = 1 .. n
        BY <2>6
      <4>3. /\ k < l => created[ids[k]] < created[ids[k]]
            /\ l < k => created[ids[k]] < created[ids[k]]
        BY <2>1, <3>1, <4>2
      <4>4. ~(k < l) /\ ~(l < k)
        BY <4>1, <4>3
      <4>. QED
        BY <2>5, <4>4
    <3>. QED
      BY <1>1, <2>6, <2>7, <3>1 DEF RowsCurrent
  <2>11. Folded'
    <3>1. reachable[ids[1]] # <<>> /\ reachable[ids[1]] \in Seq(Endpoint) /\ 1 \in 1 .. n
      BY <2>5, <2>7 DEF MonitorInv, Typed, Listed
    <3>2. Len(reachable[ids[1]]) > 0 /\ batch'[1].endpoints = reachable[ids[1]]
      BY <2>7, <3>1
    <3>. QED
      BY <1>4, <2>2, <2>8, <3>2, NothingHeld DEF Folded
  <2>. QED
    BY <1>2, <2>9, <2>10, <2>11 DEF MonitorInv
<1>. QED
  BY <1>3, <1>4 DEF Load

\* A probe is folded into the copy.
LEMMA ProbeStep ==
    ASSUME MonitorInv, Probe
    PROVE  MonitorInv'
<1>1. UNCHANGED <<state, reachable, created, up, batch, interval, server, shutdown, recent, preset>>
  BY DEF Probe, table, process, history
<1>2. Listed' /\ Debounced'
  BY <1>1, TableKept DEF MonitorInv, Typed
<1>3. pc = "probe" /\ batch \in Seq(Row) /\ batch # <<>> /\ batch[1] \in Row
      /\ Head(batch) = batch[1]
  BY DEF Probe, MonitorInv, Typed, Folded
<1>4. PICK todo : todo = batch[1].endpoints
  OBVIOUS
<1>5. PICK endpoint : endpoint = todo[Len(updated) + 1]
  OBVIOUS
<1>6. PICK outcome \in ProbeOutcome :
        /\ updated' = Append(updated, FoldHealth(endpoint, outcome))
        /\ probed' = Append(probed, outcome)
        /\ pc' = IF Len(updated') = Len(todo) THEN "persist" ELSE "probe"
  BY <1>3, <1>4, <1>5 DEF Probe, ProbeOutcome
<1>7. /\ updated \in Seq(Endpoint) /\ probed \in Seq(ProbeOutcome)
      /\ Len(updated) = Len(probed) /\ Len(updated) < Len(todo) /\ todo \in Seq(Endpoint)
      /\ todo = reachable[batch[1].tx] /\ batch[1].tx \in TransferIds
      /\ \A i \in DOMAIN updated : updated[i] = FoldHealth(todo[i], probed[i])
  BY <1>3, <1>4 DEF MonitorInv, Typed, Folded, Row, RowsCurrent
<1>8. endpoint \in Endpoint /\ Len(updated) + 1 \in DOMAIN todo
  BY <1>5, <1>7
<1>9. FoldHealth(endpoint, outcome) \in Endpoint
  <2>1. endpoint.name \in Endpoints
    BY <1>8 DEF Endpoint
  <2>2. /\ Follows(endpoint.health, recent[batch[1].tx][endpoint.name])
        /\ recent[batch[1].tx][endpoint.name] \in Streaks
    BY <1>5, <1>7, <1>8, <2>1 DEF MonitorInv, Typed, Debounced
  <2>. QED
    BY <1>8, <2>2, FoldFollows
<1>10. /\ updated' \in Seq(Endpoint) /\ probed' \in Seq(ProbeOutcome)
       /\ Len(updated') = Len(updated) + 1 /\ Len(probed') = Len(updated) + 1
       /\ \A i \in DOMAIN updated' : updated'[i] = FoldHealth(todo[i], probed'[i])
  <2>1. /\ updated' \in Seq(Endpoint) /\ probed' \in Seq(ProbeOutcome)
        /\ Len(updated') = Len(updated) + 1 /\ Len(probed') = Len(updated) + 1
    BY <1>6, <1>7, <1>9
  <2>2. ASSUME NEW i \in DOMAIN updated' PROVE updated'[i] = FoldHealth(todo[i], probed'[i])
    <3>1. CASE i \in DOMAIN updated
      BY <1>6, <1>7, <1>9, <3>1
    <3>2. CASE i = Len(updated) + 1
      BY <1>5, <1>6, <1>7, <1>9, <3>2
    <3>. QED
      BY <1>7, <2>1, <2>2, <3>1, <3>2
  <2>. QED
    BY <2>1, <2>2
<1>11. Typed'
  BY <1>1, <1>6, <1>10 DEF MonitorInv, Typed
<1>12. RowsCurrent'
  BY <1>1 DEF MonitorInv, RowsCurrent
<1>13. Folded'
  BY <1>1, <1>3, <1>4, <1>6, <1>7, <1>10 DEF Folded
<1>. QED
  BY <1>2, <1>11, <1>12, <1>13 DEF MonitorInv

\* The outcome Recorded finds for an endpoint of the row is its own.
LEMMA OutcomeFound ==
    ASSUME NEW i \in DOMAIN updated,
           \A j \in DOMAIN updated : updated[j].name = updated[i].name => j = i
    PROVE  (CHOOSE j \in DOMAIN updated : updated[j].name = updated[i].name) = i
OBVIOUS

\* What the write of a row does to its endpoint at i.
Written(t, i) ==
    LET h == reachable[t][i].health
        e == reachable[t][i].name IN
    /\ e \in Endpoints /\ updated[i].name = e
    /\ Follows(updated[i].health, recent'[t][e])
    /\ <<t, e>> \notin preset =>
          /\ OwnHealth(updated[i].health, recent'[t][e])
          /\ updated[i].health.status # h.status =>
                Flipped(h, updated[i].health, recent'[t][e])

\* What persist_reachable_at writes: the row the tick has loaded, still the one
\* in the table, with one more outcome for each of its endpoints.
LEMMA PersistEffect ==
    ASSUME MonitorInv, Persist
    PROVE  \E t \in TransferIds :
              /\ t = batch[1].tx /\ state[t] # "absent"
              /\ reachable' = [reachable EXCEPT ![t] = updated]
              /\ recent' \in [TransferIds -> [Endpoints -> Streaks]]
              /\ \A u \in TransferIds \ {t} : recent'[u] = recent[u]
              /\ updated \in Seq(Endpoint) /\ DOMAIN updated = DOMAIN reachable[t] /\ updated # <<>>
              /\ \A i \in DOMAIN updated : Written(t, i)
<1>1. batch \in Seq(Row) /\ batch # <<>> /\ pc = "persist" /\ 1 \in DOMAIN batch
      /\ Head(batch) = batch[1] /\ batch[1] \in Row
  BY DEF Persist, MonitorInv, Typed, Folded
<1>2. PICK t : t = batch[1].tx
  OBVIOUS
<1>3. t \in TransferIds /\ state[t] # "absent" /\ batch[1].endpoints = reachable[t]
  BY <1>1, <1>2 DEF Row, MonitorInv, RowsCurrent
<1>4. /\ reachable' = [reachable EXCEPT ![t] = updated]
      /\ recent' = [recent EXCEPT ![t] = [e \in Endpoints |->
            IF \E i \in DOMAIN updated : updated[i].name = e
            THEN Continued(recent[t][e], probed[CHOOSE i \in DOMAIN updated : updated[i].name = e])
            ELSE recent[t][e]]]
  BY <1>1, <1>2 DEF Persist, Recorded
<1>5. /\ updated \in Seq(Endpoint) /\ probed \in Seq(ProbeOutcome) /\ reachable[t] \in Seq(Endpoint)
      /\ Len(updated) = Len(probed) /\ Len(updated) = Len(reachable[t])
      /\ reachable[t] # <<>>
      /\ recent[t] \in [Endpoints -> Streaks]
  BY <1>1, <1>3 DEF MonitorInv, Typed, Folded, Listed
<1>6. DOMAIN updated = DOMAIN reachable[t] /\ updated # <<>> /\ DOMAIN updated = DOMAIN probed
  <2>1. /\ DOMAIN updated = 1 .. Len(updated) /\ DOMAIN probed = 1 .. Len(probed)
        /\ DOMAIN reachable[t] = 1 .. Len(reachable[t])
    <3>1. PICK probes \in Seq(ProbeOutcome), folded \in Seq(Endpoint) :
             probes = probed /\ folded = updated
      BY <1>5
    <3>2. PICK row \in Seq(Endpoint) : row = reachable[t]
      BY <1>5
    <3>. QED
      BY <3>1, <3>2
  <2>2. Len(reachable[t]) # 0
    BY <1>5
  <2>3. updated # <<>>
    BY <1>5, <2>2
  <2>. QED
    BY <1>5, <2>1, <2>3
<1>7. ASSUME NEW i \in DOMAIN updated
      PROVE  /\ reachable[t][i] \in Endpoint /\ reachable[t][i].name \in Endpoints
             /\ probed[i] \in ProbeOutcome
             /\ updated[i] = FoldHealth(reachable[t][i], probed[i])
             /\ recent[t][reachable[t][i].name] \in Streaks
             /\ Follows(reachable[t][i].health, recent[t][reachable[t][i].name])
             /\ updated[i].name = reachable[t][i].name
  <2>1. reachable[t][i] \in Endpoint /\ probed[i] \in ProbeOutcome
    BY <1>5, <1>6, <1>7
  <2>2. reachable[t][i].name \in Endpoints
    BY <2>1 DEF Endpoint
  <2>3. recent[t][reachable[t][i].name] \in Streaks
    BY <1>5, <2>2
  <2>4. updated[i] = FoldHealth(reachable[t][i], probed[i])
    BY <1>3, <1>7 DEF MonitorInv, Folded
  <2>5. Follows(reachable[t][i].health, recent[t][reachable[t][i].name])
    BY <1>3, <1>6, <1>7 DEF MonitorInv, Debounced
  <2>. QED
    BY <2>1, <2>2, <2>3, <2>4, <2>5, FoldFollows
<1>8. ASSUME NEW i \in DOMAIN updated
      PROVE  recent'[t][reachable[t][i].name] =
                Continued(recent[t][reachable[t][i].name], probed[i])
  <2>1. ASSUME NEW j \in DOMAIN updated, updated[j].name = updated[i].name PROVE j = i
    <3>1. reachable[t][j].name = reachable[t][i].name
      BY <1>7, <1>8, <2>1
    <3>. QED
      BY <1>3, <1>6, <1>8, <2>1, <3>1 DEF MonitorInv, Listed
  <2>2. (CHOOSE j \in DOMAIN updated : updated[j].name = updated[i].name) = i
    BY <1>8, <2>1, OutcomeFound
  <2>3. PICK e \in Endpoints : e = updated[i].name
    BY <1>7, <1>8
  <2>4. recent'[t][e] = Continued(recent[t][e], probed[CHOOSE j \in DOMAIN updated : updated[j].name = e])
    BY <1>3, <1>4, <1>8, <2>3 DEF MonitorInv, Typed
  <2>5. recent'[t][e] = Continued(recent[t][e], probed[i])
    BY <2>2, <2>3, <2>4
  <2>. QED
    BY <1>7, <1>8, <2>3, <2>5
<1>9. ASSUME NEW e \in Endpoints PROVE recent'[t][e] \in Streaks
  <2>1. CASE \E i \in DOMAIN updated : updated[i].name = e
    <3>1. PICK i \in DOMAIN updated : updated[i].name = e
      BY <2>1
    <3>2. recent'[t][e] = Continued(recent[t][e], probed[i])
      BY <1>7, <1>8, <3>1
    <3>. QED
      BY <1>5, <1>7, <3>1, <3>2, ContinuedStreak
  <2>2. CASE ~\E i \in DOMAIN updated : updated[i].name = e
    <3>1. recent'[t][e] = recent[t][e]
      BY <1>3, <1>4, <2>2 DEF MonitorInv, Typed
    <3>. QED
      BY <1>5, <3>1
  <2>. QED
    BY <2>1, <2>2
<1>10. /\ recent' \in [TransferIds -> [Endpoints -> Streaks]]
       /\ \A u \in TransferIds \ {t} : recent'[u] = recent[u]
  <2>1. /\ recent' = [recent EXCEPT ![t] = recent'[t]]
        /\ recent'[t] = [e \in Endpoints |-> recent'[t][e]]
    BY <1>3, <1>4 DEF MonitorInv, Typed
  <2>2. recent'[t] \in [Endpoints -> Streaks]
    BY <1>9, <2>1
  <2>. QED
    BY <1>3, <2>1, <2>2 DEF MonitorInv, Typed
<1>11. ASSUME NEW i \in DOMAIN updated
       PROVE  Written(t, i)
  <2>1. <<t, reachable[t][i].name>> \notin preset =>
           OwnHealth(reachable[t][i].health, recent[t][reachable[t][i].name])
    BY <1>3, <1>6, <1>11 DEF MonitorInv, Debounced
  <2>. QED
    BY <1>7, <1>8, <1>11, <2>1, FoldFollows DEF Written
<1>. QED
  BY <1>2, <1>3, <1>4, <1>5, <1>6, <1>10, <1>11

\* The write keeps health and streaks together, and the other rows of the
\* batch are not the one that is written.
LEMMA PersistStep ==
    ASSUME MonitorInv, Persist
    PROVE  MonitorInv'
<1>1. PICK t \in TransferIds :
        /\ t = batch[1].tx /\ state[t] # "absent"
        /\ reachable' = [reachable EXCEPT ![t] = updated]
        /\ recent' \in [TransferIds -> [Endpoints -> Streaks]]
        /\ \A u \in TransferIds \ {t} : recent'[u] = recent[u]
        /\ updated \in Seq(Endpoint) /\ DOMAIN updated = DOMAIN reachable[t] /\ updated # <<>>
        /\ \A i \in DOMAIN updated : Written(t, i)
  BY PersistEffect
<1>9. ASSUME NEW i \in DOMAIN updated
      PROVE  /\ updated[i].name = reachable[t][i].name
             /\ Follows(updated[i].health, recent'[t][updated[i].name])
             /\ <<t, updated[i].name>> \notin preset =>
                   OwnHealth(updated[i].health, recent'[t][updated[i].name])
  BY <1>1, <1>9 DEF Written
<1>2. UNCHANGED <<state, created, up, server, shutdown, preset>>
  BY DEF Persist, process
<1>3. reachable'[t] = updated /\ \A u \in TransferIds \ {t} : reachable'[u] = reachable[u]
  BY <1>1 DEF MonitorInv, Typed
<1>4. Listed'
  <2>1. ASSUME NEW u \in TransferIds
        PROVE  /\ state'[u] = "absent" =>
                     reachable'[u] = <<>> /\ \A e \in Endpoints : recent'[u][e].length = 0
               /\ state'[u] # "absent" => reachable'[u] # <<>>
               /\ \A i, j \in DOMAIN reachable'[u] :
                     reachable'[u][i].name = reachable'[u][j].name => i = j
    <3>1. CASE u = t
      <4>1. reachable'[u] = updated /\ state'[u] # "absent" /\ updated # <<>>
        BY <1>1, <1>2, <1>3, <3>1
      <4>2. ASSUME NEW i \in DOMAIN updated, NEW j \in DOMAIN updated, updated[i].name = updated[j].name
            PROVE  i = j
        <5>1. i \in DOMAIN reachable[t] /\ j \in DOMAIN reachable[t] /\ reachable[t][i].name = reachable[t][j].name
          BY <1>1, <1>9, <4>2
        <5>. QED
          BY <1>1, <5>1 DEF MonitorInv, Listed
      <4>. QED
        BY <4>1, <4>2
    <3>2. CASE u # t
      <4>1. reachable'[u] = reachable[u] /\ state'[u] = state[u] /\ recent'[u] = recent[u]
        BY <1>1, <1>2, <1>3, <3>2
      <4>. QED
        BY <4>1 DEF MonitorInv, Listed
    <3>. QED
      BY <3>1, <3>2
  <2>. QED
    BY <2>1 DEF Listed
<1>5. Debounced'
  <2>1. ASSUME NEW u \in TransferIds, NEW i \in DOMAIN reachable'[u]
        PROVE  /\ Follows(reachable'[u][i].health, recent'[u][reachable'[u][i].name])
               /\ <<u, reachable'[u][i].name>> \notin preset' =>
                     OwnHealth(reachable'[u][i].health, recent'[u][reachable'[u][i].name])
    <3>1. CASE u = t
      BY <1>2, <1>3, <1>9, <2>1, <3>1
    <3>2. CASE u # t
      <4>1. reachable'[u] = reachable[u] /\ preset' = preset /\ recent'[u] = recent[u]
        BY <1>1, <1>2, <1>3, <3>2
      <4>. QED
        BY <2>1, <4>1 DEF MonitorInv, Debounced
    <3>. QED
      BY <3>1, <3>2
  <2>. QED
    BY <2>1 DEF Debounced
<1>6. reachable' \in [TransferIds -> Seq(Endpoint)]
  BY <1>1 DEF MonitorInv, Typed
<1>7. CASE EndTick("in_flight")
  <2>1. batch' = <<>> /\ updated' = <<>> /\ probed' = <<>> /\ pc' = "sleep" /\ interval' = "in_flight"
    BY <1>7 DEF EndTick
  <2>2. Typed'
    BY <1>1, <1>2, <1>6, <2>1, NothingHeld DEF MonitorInv, Typed
  <2>3. RowsCurrent' /\ Folded'
    BY <2>1, NothingHeld DEF RowsCurrent, Folded
  <2>. QED
    BY <1>4, <1>5, <2>2, <2>3 DEF MonitorInv
<1>8. CASE /\ Len(batch) > 1 /\ pc' = "probe" /\ batch' = Tail(batch)
           /\ updated' = <<>> /\ probed' = <<>> /\ UNCHANGED interval
  <2>1. /\ batch \in Seq(Row) /\ batch' \in Seq(Row) /\ batch' # <<>>
        /\ \A k \in DOMAIN batch' : k + 1 \in DOMAIN batch /\ batch'[k] = batch[k + 1]
        /\ 1 \in DOMAIN batch /\ DOMAIN batch' \subseteq Nat \ {0}
    <3>1. batch \in Seq(Row) /\ Len(batch) \in Nat /\ Len(batch) > 1 /\ batch' = Tail(batch)
      BY <1>8 DEF MonitorInv, Typed
    <3>2. /\ batch' \in Seq(Row) /\ Len(batch') = Len(batch) - 1
          /\ \A k \in 1 .. Len(batch) - 1 : batch'[k] = batch[k + 1]
      BY <3>1
    <3>3. DOMAIN batch' = 1 .. Len(batch) - 1 /\ DOMAIN batch = 1 .. Len(batch)
      BY <3>1, <3>2
    <3>4. batch' # <<>>
      <4>1. batch' = <<>> => Len(batch') = 0
        BY NothingHeld
      <4>. QED
        BY <3>1, <3>2, <4>1
    <3>. QED
      BY <3>1, <3>2, <3>3, <3>4
  <2>2. Typed'
    BY <1>1, <1>2, <1>6, <1>8, <2>1, NothingHeld DEF MonitorInv, Typed
  <2>3. ASSUME NEW k \in DOMAIN batch'
        PROVE  /\ batch'[k].tx \in TransferIds /\ batch'[k].tx # t
               /\ state'[batch'[k].tx] # "absent"
               /\ batch'[k].endpoints = reachable'[batch'[k].tx]
    <3>1. k + 1 \in DOMAIN batch /\ k + 1 # 1 /\ batch'[k] = batch[k + 1] /\ batch[k + 1] \in Row
      BY <2>1, <2>3
    <3>2. batch[k + 1].tx # t /\ batch[k + 1].tx \in TransferIds
      BY <1>1, <2>1, <3>1 DEF MonitorInv, RowsCurrent, Row
    <3>. QED
      BY <1>2, <1>3, <3>1, <3>2 DEF MonitorInv, RowsCurrent
  <2>4. RowsCurrent'
    <3>1. ASSUME NEW k \in DOMAIN batch', NEW l \in DOMAIN batch', batch'[k].tx = batch'[l].tx
          PROVE  k = l
      <4>1. k + 1 = l + 1
        BY <2>1, <3>1 DEF MonitorInv, RowsCurrent
      <4>. QED
        BY <2>1, <4>1
    <3>. QED
      BY <2>3, <3>1 DEF RowsCurrent
  <2>5. Folded'
    <3>1. 1 \in DOMAIN batch' /\ batch'[1].endpoints = reachable'[batch'[1].tx]
          /\ batch'[1].tx \in TransferIds /\ state'[batch'[1].tx] # "absent"
      BY <2>1, <2>3
    <3>2. reachable'[batch'[1].tx] # <<>> /\ reachable'[batch'[1].tx] \in Seq(Endpoint)
      BY <1>4, <1>6, <3>1 DEF Listed
    <3>3. Len(batch'[1].endpoints) > 0
      BY <3>1, <3>2
    <3>. QED
      BY <1>8, <2>1, <3>3, NothingHeld DEF Folded
  <2>. QED
    BY <1>4, <1>5, <2>2, <2>4, <2>5 DEF MonitorInv
<1>. QED
  BY <1>7, <1>8 DEF Persist, NextRow

\* A process that is down has no monitor.
Down == server = "down" => pc = "off"

\* Only Return and Crash bring the process down, and they end the monitor.
LEMMA DownStep == Down /\ [Next]_vars => Down'
<1>. SUFFICES ASSUME Down, [Next]_vars PROVE Down'
  OBVIOUS
<1>1. CASE Load \/ Probe \/ Persist \/ StatementFails
  BY <1>1 DEF Load, Probe, Persist, StatementFails, process, Down
<1>2. CASE Wake \/ Return \/ Shutdown \/ Crash \/ Spawn \/ UNCHANGED vars
  BY <1>2 DEF Wake, Return, Shutdown, Crash, Spawn, process, vars, Down
<1>3. CASE (\E t \in TransferIds : Admit(t) \/ PickUp(t)) \/ \E e \in Endpoints : Toggle(e)
  BY <1>3 DEF Admit, PickUp, Toggle, process, monitor, Down
<1>. QED
  BY <1>1, <1>2, <1>3 DEF Next, Run

\* Every step keeps the invariant.
LEMMA MonitorStep ==
    ASSUME MonitorInv, Down, [Next]_vars
    PROVE  MonitorInv'
<1>1. ASSUME NEW t \in TransferIds, PickUp(t) PROVE MonitorInv'
  <2>1. /\ state' \in [TransferIds -> {"absent", "ready_for_pickup", "taken"}]
        /\ \A u \in TransferIds : state'[u] = "absent" <=> state[u] = "absent"
        /\ UNCHANGED <<reachable, created, up, pc, batch, updated, probed, interval,
                       server, shutdown, recent, preset>>
    BY <1>1 DEF PickUp, MonitorInv, Typed, monitor, process, history
  <2>2. Typed'
    BY <2>1 DEF MonitorInv, Typed
  <2>3. \A k \in DOMAIN batch : batch[k].tx \in TransferIds
    <3>1. \A k \in DOMAIN batch : batch[k] \in Row
      BY DEF MonitorInv, Typed
    <3>. QED
      BY <3>1 DEF Row
  <2>4. RowsCurrent' /\ Folded'
    BY <2>1, <2>3 DEF MonitorInv, RowsCurrent, Folded
  <2>. QED
    BY <2>1, <2>2, <2>4, TableKept DEF MonitorInv
<1>2. ASSUME NEW e \in Endpoints, Toggle(e) PROVE MonitorInv'
  <2>1. /\ up' \subseteq Endpoints
        /\ UNCHANGED <<state, reachable, created, pc, batch, updated, probed, interval,
                       server, shutdown, recent, preset>>
    BY <1>2 DEF Toggle, MonitorInv, Typed, table, monitor, process, history
  <2>2. Typed'
    BY <2>1 DEF MonitorInv, Typed
  <2>. QED
    BY <2>1, <2>2 DEF MonitorInv, Listed, RowsCurrent, Folded, Debounced
<1>3. ASSUME UNCHANGED <<state, reachable, created, up, recent, preset>>,
             batch' = <<>>, updated' = <<>>, probed' = <<>>, pc' \in {"off", "load", "sleep"},
             interval' \in {"none", "in_flight", "at_rest"}, server' \in {"down", "serving", "joining"},
             shutdown' \in BOOLEAN
      PROVE  MonitorInv'
  <2>1. Typed'
    BY <1>3, NothingHeld DEF MonitorInv, Typed
  <2>2. Listed' /\ Debounced'
    BY <1>3 DEF MonitorInv, Listed, Debounced
  <2>3. RowsCurrent' /\ Folded'
    BY <1>3, NothingHeld DEF RowsCurrent, Folded
  <2>. QED
    BY <2>1, <2>2, <2>3 DEF MonitorInv
<1>4. CASE StatementFails
  BY <1>3, <1>4 DEF StatementFails, EndTick, table, process, history, MonitorInv, Typed
<1>5. CASE Wake \/ Return
  BY <1>3, <1>5 DEF Wake, Return, table, process, history, MonitorInv, Typed, Folded
<1>6. CASE Crash
  BY <1>3, <1>6 DEF Crash, table, history
<1>7. CASE Spawn
  <2>1. batch = <<>> /\ updated = <<>> /\ probed = <<>>
    BY <1>7 DEF Spawn, Down, MonitorInv, Folded
  <2>. QED
    BY <1>3, <1>7, <2>1 DEF Spawn, table, history, MonitorInv, Typed
<1>8. CASE Shutdown
  <2>1. Typed'
    BY <1>8 DEF Shutdown, table, monitor, history, MonitorInv, Typed
  <2>. QED
    BY <1>8, <2>1 DEF Shutdown, table, monitor, history, MonitorInv, Listed, RowsCurrent, Folded, Debounced
<1>9. CASE UNCHANGED vars
  <2>1. Typed'
    BY <1>9 DEF vars, MonitorInv, Typed
  <2>. QED
    BY <1>9, <2>1 DEF vars, MonitorInv, Listed, RowsCurrent, Folded, Debounced
<1>. QED
  BY <1>1, <1>2, <1>4, <1>5, <1>6, <1>7, <1>8, <1>9, AdmitStep, LoadStep, ProbeStep, PersistStep
     DEF Next, Run

\* The invariant holds in every reachable state.
LEMMA Monitoring == SafetySpec => []MonitorInv
<1>1. Init => MonitorInv /\ Down
  BY MonitorInit DEF Init, Down
<1>2. MonitorInv /\ Down /\ [Next]_vars => MonitorInv' /\ Down'
  BY MonitorStep, DownStep
<1>. QED
  BY <1>1, <1>2, PTL DEF SafetySpec

\* The health of an endpoint, by its place in the list.
LEMMA HealthPlace ==
    ASSUME NEW t, NEW e, NEW h \in HealthOf(t, e)
    PROVE  \E i \in DOMAIN reachable[t] : reachable[t][i].name = e /\ reachable[t][i].health = h
BY DEF HealthOf

\* What the monitor and the table hold has its type, and counters the monitor
\* has written stay within the thresholds although u8 counters saturate at 255.
THEOREM MonitorTypeCorrect == SafetySpec => []TypeOK
<1>1. MonitorInv => TypeOK
  <2>. SUFFICES ASSUME MonitorInv PROVE TypeOK
    OBVIOUS
  <2>1. ASSUME NEW t \in TransferIds, NEW e \in Endpoints, NEW h \in HealthOf(t, e),
               recent[t][e].length > 0
        PROVE  h.fails <= FailThreshold /\ h.successes <= SuccessThreshold
    <3>1. Follows(h, recent[t][e])
      <4>1. PICK i \in DOMAIN reachable[t] : reachable[t][i].name = e /\ reachable[t][i].health = h
        BY <2>1, HealthPlace
      <4>. QED
        BY <2>1, <4>1 DEF MonitorInv, Debounced
    <3>2. recent[t][e] \in Streaks
      BY <2>1 DEF MonitorInv, Typed
    <3>3. recent[t][e].length >= 1
      BY <2>1, <3>2, Thresholds DEF Streaks
    <3>. QED
      BY <3>1, <3>3 DEF Follows
  <2>. QED
    BY <2>1 DEF MonitorInv, Typed, TypeOK
<1>. QED
  BY <1>1, Monitoring, PTL

\* FailThreshold failures in a row leave an endpoint unhealthy and
\* SuccessThreshold successes healthy, whatever was submitted with it and
\* wherever ticks were cut short.
THEOREM StatusIsDebounced == SafetySpec => []StatusFollowsProbes
<1>1. MonitorInv => StatusFollowsProbes
  <2>. SUFFICES ASSUME MonitorInv, NEW t \in TransferIds, NEW e \in Endpoints, NEW h \in HealthOf(t, e)
                PROVE  /\ LastOutcomes(t, e, FailThreshold, "failure") => h.status = "unhealthy"
                       /\ LastOutcomes(t, e, SuccessThreshold, "success") => h.status = "healthy"
    BY DEF StatusFollowsProbes
  <2>1. Follows(h, recent[t][e])
    <3>1. PICK i \in DOMAIN reachable[t] : reachable[t][i].name = e /\ reachable[t][i].health = h
      BY HealthPlace
    <3>. QED
      BY <3>1 DEF MonitorInv, Debounced
  <2>2. PICK s \in Streaks : s = recent[t][e]
    BY DEF MonitorInv, Typed
  <2>3. s.length \in Nat
    BY Thresholds DEF Streaks
  <2>4. PICK i \in DOMAIN reachable[t] : reachable[t][i].health = h
    BY HealthPlace
  <2>5. h \in EndpointHealth \cup {NoHealth}
    <3>1. reachable[t][i] \in Endpoint
      BY <2>4 DEF MonitorInv, Typed
    <3>. QED
      BY <2>4, <3>1 DEF Endpoint
  <2>6. h.fails \in Nat /\ h.successes \in Nat
    BY <2>5, HealthParts DEF NoHealth
  <2>. QED
    BY <2>1, <2>2, <2>3, <2>6, Thresholds DEF LastOutcomes, Follows, Status
<1>. QED
  BY <1>1, Monitoring, PTL

\* An endpoint whose health is the monitor's own flips only after a whole
\* streak of outcomes: no failed statement, restart or flapping flips it.
THEOREM FlipsAreEarned == SafetySpec => NoSpuriousFlip
<1>. DEFINE Earned ==
       \A t \in TransferIds, e \in Endpoints :
          \A h \in HealthOf(t, e), g \in HealthOf(t, e)' :
              <<t, e>> \notin preset /\ h.status # g.status =>
                  \/ g.status = "unhealthy" /\ LastOutcomes(t, e, FailThreshold, "failure")'
                  \/ g.status = "healthy" /\ h.status = "unknown"
                  \/ g.status = "healthy" /\ LastOutcomes(t, e, SuccessThreshold, "success")'
<1>1. ASSUME MonitorInv, [Next]_vars PROVE [Earned]_vars
  <2>. SUFFICES ASSUME Next, NEW t \in TransferIds, NEW e \in Endpoints,
                       NEW h \in HealthOf(t, e), NEW g \in HealthOf(t, e)',
                       <<t, e>> \notin preset, h.status # g.status
                PROVE  \/ g.status = "unhealthy" /\ LastOutcomes(t, e, FailThreshold, "failure")'
                       \/ g.status = "healthy" /\ h.status = "unknown"
                       \/ g.status = "healthy" /\ LastOutcomes(t, e, SuccessThreshold, "success")'
    BY <1>1
  <2>1. PICK i \in DOMAIN reachable[t] : reachable[t][i].name = e /\ reachable[t][i].health = h
    BY HealthPlace
  <2>2. PICK j \in DOMAIN reachable'[t] : reachable'[t][j].name = e /\ reachable'[t][j].health = g
    BY DEF HealthOf
  <2>3. ASSUME reachable'[t] = reachable[t] PROVE FALSE
    <3>1. i = j
      BY <1>1, <2>1, <2>2, <2>3 DEF MonitorInv, Listed
    <3>. QED
      BY <2>1, <2>2, <2>3, <3>1
  <2>4. CASE Persist
    <3>1. PICK u \in TransferIds :
            /\ reachable' = [reachable EXCEPT ![u] = updated]
            /\ DOMAIN updated = DOMAIN reachable[u]
            /\ \A k \in DOMAIN updated : Written(u, k)
      BY <1>1, <2>4, PersistEffect
    <3>2. u = t
      BY <1>1, <2>3, <3>1 DEF MonitorInv, Typed
    <3>3. reachable'[t] = updated
      BY <1>1, <3>1, <3>2 DEF MonitorInv, Typed
    <3>4. Written(t, j) /\ j \in DOMAIN reachable[t]
      BY <2>2, <3>1, <3>2, <3>3
    <3>5. i = j
      BY <1>1, <2>1, <2>2, <3>3, <3>4 DEF MonitorInv, Listed, Written
    <3>6. Flipped(h, g, recent'[t][e])
      BY <2>1, <2>2, <3>3, <3>4, <3>5 DEF Written
    <3>. QED
      BY <3>6 DEF Flipped, LastOutcomes
  <2>5. ASSUME NEW u \in TransferIds, Admit(u) PROVE FALSE
    <3>1. u # t
      BY <1>1, <2>1, <2>5 DEF Admit, MonitorInv, Listed
    <3>2. PICK row : reachable' = [reachable EXCEPT ![u] = row]
      BY <2>5 DEF Admit
    <3>3. reachable'[t] = reachable[t]
      BY <1>1, <3>1, <3>2 DEF MonitorInv, Typed
    <3>. QED
      BY <2>3, <3>3
  <2>6. CASE ~Persist /\ ~\E u \in TransferIds : Admit(u)
    <3>1. reachable' = reachable
      BY <2>6 DEF Next, Run, Load, Probe, Wake, Return, StatementFails, PickUp, Toggle, Shutdown,
                  Crash, Spawn, table
    <3>. QED
      BY <2>3, <3>1
  <2>. QED
    BY <2>4, <2>5, <2>6
<1>2. SafetySpec => [][Earned]_vars
  BY <1>1, Monitoring, PTL DEF SafetySpec
<1>. QED
  BY <1>2 DEF NoSpuriousFlip
=============================================================================
