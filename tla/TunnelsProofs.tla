---------------------------- MODULE TunnelsProofs ----------------------------
(***************************************************************************)
(* What the orchestrator promises about the things its providers run       *)
(* outside the process, for every list of transports: nothing runs without *)
(* a handle on it, stop_all leaves nothing, and what is advertised is what *)
(* runs.                                                                   *)
(***************************************************************************)
EXTENDS Tunnels, FiniteSetTheorems, SequenceTheorems, TLAPS

-----------------------------------------------------------------------------
(* The inductive invariant *)

\* The endpoint of p runs and its provider does not have it: not yet, while it
\* is started, or no longer, while it is stopped.
Binding(p) ==
    /\ KindOf(p) = "iroh"
    /\ AtStart(p, "wait") \/ AtStart(p, "close") \/ AtStop(p, "close")

\* What stop_all leaves of a provider it has passed.
Left(p) ==
    \/ /\ ~held[p] /\ url[p] = Null /\ p \notin config
       /\ status[p] = "disconnected"
       /\ alive[p] => p \in escaped
    \/ KindOf(p) = "tailscale" /\ held[p]

\* stop_all has returned, or is past p.
StopPassed(p) == call.op = "stopped" \/ (call.op = "stopping" /\ p < call.at)

\* Where the start or the stop of p can be: only a tailscale command is awaited
\* as such, only an iroh endpoint is bound, only these two are closed, and
\* readiness and closing are awaited with the handle in the provider, except
\* that of an iroh endpoint.
StartOK(p) ==
    /\ AtStart(p, "command") => KindOf(p) = "tailscale"
    /\ AtStart(p, "bind") => KindOf(p) = "iroh"
    /\ AtStart(p, "wait") =>
          KindOf(p) # "stub" /\ (KindOf(p) # "iroh" => held[p])
    /\ AtStart(p, "close") =>
          KindOf(p) \in {"tailscale", "iroh"} /\ (KindOf(p) # "iroh" => held[p])
    /\ AtStop(p, "close") =>
          /\ KindOf(p) \in {"tailscale", "iroh"}
          /\ KindOf(p) = "iroh" <=> ~held[p]

\* What is left running when the providers are dropped.
Abandoned(p) == call.op = "gone" /\ p \notin Children

ProviderOK(p) ==
    /\ alive[p] => held[p] \/ p \in escaped \/ Binding(p) \/ Abandoned(p)
    /\ KindOf(p) = "stub" => ~held[p]
    /\ StartOK(p)
    /\ StopPassed(p) => Left(p)

OwnInv == \A p \in Providers : ProviderOK(p)

ProviderTypes ==
    /\ status \in [Providers -> {"disconnected", "connecting", "connected"}]
    /\ url \in [Providers -> Nat \cup {Null}]
    /\ held \in [Providers -> BOOLEAN] /\ alive \in [Providers -> BOOLEAN]
    /\ config \subseteq {p \in Providers : KindOf(p) = "frp" /\ held[p]}
    /\ escaped \subseteq {p \in Providers : KindOf(p) = "tailscale"}

CallTypes == call \in Calls /\ outcomes \in Seq(Outcome) /\ calls \in Nat

-----------------------------------------------------------------------------
(* Types *)

\* The types of the providers and of the orchestrator's loop are the two parts
\* of the type invariant, before a step and after it.
LEMMA TypeParts ==
    /\ TypeOK <=> ProviderTypes /\ CallTypes
    /\ TypeOK' <=> ProviderTypes' /\ CallTypes'
BY DEF TypeOK, ProviderTypes, CallTypes

\* The providers are numbered from one.
LEMMA ProviderNumbers == Providers = 1..Len(Entries) /\ Len(Entries) \in Nat
BY EntriesAssumption DEF Providers

\* The calls the loop can be in between its steps.
LEMMA CallValues ==
    ASSUME NEW o \in {"idle", "stopped", "starting", "stopping", "gone"}, NEW n \in Nat,
           NEW s \in {"begin", "command", "bind", "wait", "close"}
    PROVE  /\ [op |-> o, at |-> n, step |-> s] \in Calls
           /\ [op |-> o, at |-> n, step |-> s].op = o
           /\ [op |-> o, at |-> n, step |-> s].at = n
           /\ [op |-> o, at |-> n, step |-> s].step = s
BY DEF Calls

\* A provider's outcome is pushed, and the loop goes on or ends.
LEMMA PushStep ==
    ASSUME CallTypes, NEW p \in Providers, NEW o \in Outcome, Push(p, o)
    PROVE  /\ CallTypes'
           /\ \/ call'.op = "idle"
              \/ call'.op = "starting" /\ call'.step = "begin"
<1>1. p \in Nat /\ p + 1 \in Nat
  BY ProviderNumbers
<1>2. outcomes' \in Seq(Outcome) /\ calls' \in Nat
  BY DEF Push, CallTypes
<1>3. CASE call' = [op |-> "idle", at |-> 1, step |-> "begin"]
  BY <1>2, <1>3, CallValues DEF CallTypes
<1>4. CASE call' = [op |-> "starting", at |-> p + 1, step |-> "begin"]
  BY <1>1, <1>2, <1>4, CallValues DEF CallTypes
<1>5. QED
  BY <1>3, <1>4 DEF Push

\* The loop ends the start of p with an error.
LEMMA FailedStep ==
    ASSUME CallTypes, NEW p \in Providers,
           NEW w \in {"already_running", "spawn", "not_ready"}, Failed(p, w)
    PROVE  /\ CallTypes'
           /\ \/ call'.op = "idle"
              \/ call'.op = "starting" /\ call'.step = "begin"
<1>1. [entry |-> p, result |-> "failed", url |-> Null, reason |-> w] \in Outcome
  BY DEF Outcome
<1>2. QED
  BY <1>1, PushStep DEF Failed

\* The loop ends the start of p with the url it has then.
LEMMA StartedStep ==
    ASSUME CallTypes, NEW p \in Providers, url'[p] \in Nat \cup {Null}, Started(p)
    PROVE  /\ CallTypes'
           /\ \/ call'.op = "idle"
              \/ call'.op = "starting" /\ call'.step = "begin"
<1>1. [entry |-> p, result |-> "started", url |-> url'[p], reason |-> "none"] \in Outcome
  BY DEF Outcome
<1>2. QED
  BY <1>1, PushStep DEF Started

\* A start goes on to its next await.
LEMMA AwaitStep ==
    ASSUME CallTypes, NEW s \in {"command", "bind", "wait", "close"}, Await(s)
    PROVE  /\ CallTypes'
           /\ call'.op = call.op /\ call'.at = call.at /\ call'.step = s
BY DEF Await, CallTypes, Calls

-----------------------------------------------------------------------------
(* One provider at a time *)

\* A step changes what one provider has.
OnlyAt(p) ==
    \A q \in Providers \ {p} :
        /\ status'[q] = status[q] /\ url'[q] = url[q]
        /\ held'[q] = held[q] /\ alive'[q] = alive[q]
        /\ q \in config' <=> q \in config
        /\ q \in escaped' <=> q \in escaped

\* A step of the start of p, after which the loop is still at p, has gone on
\* to the next provider or has returned.
StartMoves(p) ==
    /\ call.op = "starting" /\ call.at = p
    /\ \/ call'.op = "idle"
       \/ call'.op = "starting" /\ call'.step = "begin"
       \/ call'.op = "starting" /\ call'.at = p

\* A step of the start of p has only to keep the invariant of p.
LEMMA StartLocal ==
    ASSUME OwnInv, NEW p \in Providers, OnlyAt(p), StartMoves(p), ProviderOK(p)'
    PROVE  OwnInv'
<1> SUFFICES ASSUME NEW q \in Providers, q # p
             PROVE  ProviderOK(q)'
  BY DEF OwnInv
<1>1. /\ status'[q] = status[q] /\ url'[q] = url[q]
      /\ held'[q] = held[q] /\ alive'[q] = alive[q]
      /\ q \in config' <=> q \in config
      /\ q \in escaped' <=> q \in escaped
  BY DEF OnlyAt
<1>2. ProviderOK(q) /\ ~Binding(q)
  BY DEF OwnInv, StartMoves, Binding, AtStart, AtStop
<1>3. ~StopPassed(q)' /\ StartOK(q)' /\ ~Abandoned(q)
  BY DEF StartMoves, StopPassed, StartOK, AtStart, AtStop, Abandoned
<1>4. QED
  BY <1>1, <1>2, <1>3 DEF ProviderOK

\* What a start leaves behind once the loop is no longer waiting for it.
Settled(p) ==
    /\ alive[p] => held[p] \/ p \in escaped
    /\ KindOf(p) = "stub" => ~held[p]

\* A start that has ended, and left its provider settled, keeps the invariant.
LEMMA StartEnds ==
    ASSUME OwnInv, NEW p \in Providers, OnlyAt(p), call.op = "starting", call.at = p,
           call'.op = "idle" \/ (call'.op = "starting" /\ call'.step = "begin"),
           Settled(p)'
    PROVE  OwnInv'
<1>1. StartMoves(p)
  BY DEF StartMoves
<1>2. StartOK(p)' /\ ~StopPassed(p)'
  BY DEF StartOK, StopPassed, AtStart, AtStop
<1>3. ProviderOK(p)'
  BY <1>2 DEF ProviderOK, Settled
<1>4. QED
  BY <1>1, <1>3, StartLocal

\* A provider that is neither binding nor closing an endpoint is settled.
LEMMA SettledBefore ==
    ASSUME OwnInv, NEW p \in Providers, ~Binding(p), call.op # "gone"
    PROVE  Settled(p)
BY DEF OwnInv, ProviderOK, Settled, Abandoned

-----------------------------------------------------------------------------
(* The steps of a start *)

Inv == TypeOK /\ OwnInv

Status == {"disconnected", "connecting", "connected"}

\* The loop has ended the start of p.
Ended(p) ==
    /\ call.op = "starting" /\ call.at = p
    /\ CallTypes'
    /\ call'.op = "idle" \/ (call'.op = "starting" /\ call'.step = "begin")

\* A start that ends having changed at most the status and the url.
LEMMA EndsReported ==
    ASSUME Inv, NEW p \in Providers, Ended(p), ~Binding(p),
           NEW st \in Status, status' = [status EXCEPT ![p] = st],
           NEW u \in Nat \cup {Null}, url' = [url EXCEPT ![p] = u],
           UNCHANGED <<held, alive, config, escaped>>
    PROVE  Inv'
<1>1. ProviderTypes /\ OwnInv
  BY TypeParts DEF Inv
<1>2. ProviderTypes' /\ OnlyAt(p)
  BY <1>1 DEF ProviderTypes, OnlyAt, Status
<1>3. Settled(p)'
  BY <1>1, SettledBefore DEF Settled, Ended
<1>4. QED
  BY <1>1, <1>2, <1>3, StartEnds, TypeParts DEF Inv, Ended

\* As above, when the url is not touched.
LEMMA EndsWithStatus ==
    ASSUME Inv, NEW p \in Providers, Ended(p), ~Binding(p),
           NEW st \in Status, status' = [status EXCEPT ![p] = st],
           UNCHANGED <<url, held, alive, config, escaped>>
    PROVE  Inv'
<1>1. url' = [url EXCEPT ![p] = url[p]] /\ url[p] \in Nat \cup {Null}
  BY DEF Inv, TypeOK
<1>2. QED
  BY <1>1, EndsReported

\* A start that ends with what it ran taken and killed.
LEMMA EndsKilled ==
    ASSUME Inv, NEW p \in Providers, Ended(p),
           NEW st \in Status, status' = [status EXCEPT ![p] = st],
           held' = [held EXCEPT ![p] = FALSE], alive' = [alive EXCEPT ![p] = FALSE],
           config' = config \ {p}, UNCHANGED <<url, escaped>>
    PROVE  Inv'
<1>1. ProviderTypes /\ OwnInv
  BY TypeParts DEF Inv
<1>2. ProviderTypes' /\ OnlyAt(p)
  BY <1>1 DEF ProviderTypes, OnlyAt, Status
<1>3. Settled(p)'
  BY <1>1 DEF Settled, ProviderTypes
<1>4. QED
  BY <1>1, <1>2, <1>3, StartEnds, TypeParts DEF Inv, Ended

\* A call that fails or succeeds at p ends the start of p.
LEMMA EndsCall ==
    ASSUME Inv, NEW p \in Providers, call.op = "starting", call.at = p,
           \/ \E w \in {"already_running", "spawn", "not_ready"} : Failed(p, w)
           \/ url'[p] \in Nat \cup {Null} /\ Started(p)
    PROVE  Ended(p)
<1>1. CallTypes
  BY TypeParts DEF Inv
<1>2. CASE \E w \in {"already_running", "spawn", "not_ready"} : Failed(p, w)
  BY <1>1, <1>2, FailedStep DEF Ended
<1>3. CASE url'[p] \in Nat \cup {Null} /\ Started(p)
  BY <1>1, <1>3, StartedStep DEF Ended
<1>4. QED
  BY <1>2, <1>3

\* start refuses when it holds something already.
LEMMA AlreadyRunningKeeps ==
    ASSUME Inv, NEW p \in Providers, AlreadyRunning(p)
    PROVE  Inv'
<1>1. /\ Ended(p) /\ ~Binding(p)
      /\ UNCHANGED <<status, url, held, alive, config, escaped>>
  BY EndsCall DEF AlreadyRunning, AtStart, AtStop, Binding, provider
<1>2. status' = [status EXCEPT ![p] = status[p]] /\ status[p] \in Status
  BY <1>1 DEF Inv, TypeOK, Status
<1>3. QED
  BY <1>1, <1>2, EndsWithStatus

\* Nothing could be spawned, bound or installed.
LEMMA NotSpawnedKeeps ==
    ASSUME Inv, NEW p \in Providers,
           \/ QuickNotSpawned(p) \/ NamedNotSpawned(p) \/ FrpNotSpawned(p)
           \/ TailscaleNoBinary(p)
    PROVE  Inv'
<1>1. PICK st \in Status :
        /\ AtStart(p, "begin") /\ Failed(p, "spawn")
        /\ status' = [status EXCEPT ![p] = st]
        /\ UNCHANGED <<url, held, alive, config, escaped>>
  BY DEF QuickNotSpawned, NamedNotSpawned, FrpNotSpawned, TailscaleNoBinary,
         Disconnected, Status
<1>2. Ended(p) /\ ~Binding(p)
  BY <1>1, EndsCall DEF AtStart, AtStop, Binding
<1>3. QED
  BY <1>1, <1>2, EndsWithStatus

\* A readiness probe, a url on stderr or a stub: the provider is connected.
LEMMA ReadyKeeps ==
    ASSUME Inv, NEW p \in Providers, KindOf(p) # "iroh",
           ProbeUntilReady(p) \/ QuickUrl(p) \/ StubStart(p)
    PROVE  Inv'
<1>1. PICK u \in Nat :
        /\ call.op = "starting" /\ call.at = p /\ Connected(p, u) /\ Started(p)
        /\ UNCHANGED <<held, alive, config, escaped>>
  BY DEF ProbeUntilReady, QuickUrl, StubStart, AtStart, Inv, TypeOK
<1>2. /\ status' = [status EXCEPT ![p] = "connected"] /\ "connected" \in Status
      /\ url' = [url EXCEPT ![p] = u] /\ url'[p] \in Nat \cup {Null} /\ ~Binding(p)
  BY <1>1 DEF Connected, Status, Binding, Inv, TypeOK
<1>3. Ended(p)
  BY <1>1, <1>2, EndsCall
<1>4. QED
  BY <1>1, <1>2, <1>3, EndsReported

\* The quick tunnel gives up: the child stays in its provider.
LEMMA QuickNoUrlKeeps ==
    ASSUME Inv, NEW p \in Providers, KindOf(p) = "quick", QuickNoUrl(p)
    PROVE  Inv'
<1>1. Ended(p) /\ ~Binding(p)
  BY EndsCall DEF QuickNoUrl, AtStart, AtStop, Binding
<1>2. QED
  BY <1>1, EndsWithStatus DEF QuickNoUrl, Disconnected, Status

\* The named tunnel and frpc give up: the child is killed, its file removed.
LEMMA NotReadyKeeps ==
    ASSUME Inv, NEW p \in Providers,
           \/ KindOf(p) = "named" /\ NamedNotReady(p)
           \/ KindOf(p) = "frp" /\ FrpNotReady(p)
    PROVE  Inv'
<1>1. Ended(p)
  BY EndsCall DEF NamedNotReady, FrpNotReady, AtStart
<1>2. config' = config \ {p}
  BY DEF NamedNotReady, FrpNotReady, Inv, TypeOK
<1>3. QED
  BY <1>1, <1>2, EndsKilled DEF NamedNotReady, FrpNotReady, KillChild, Disconnected, Status

\* A child is spawned, or a rule installed, and its readiness awaited with the
\* handle already in the provider.
LEMMA HeldAwaits ==
    ASSUME Inv, NEW p \in Providers, call.op = "starting", call.at = p,
           KindOf(p) \notin {"stub", "iroh"},
           NEW st \in Status, status' = [status EXCEPT ![p] = st],
           held' = [held EXCEPT ![p] = TRUE], alive' = [alive EXCEPT ![p] = TRUE],
           config' = config \/ (KindOf(p) = "frp" /\ config' = config \cup {p}),
           Await("wait"), UNCHANGED <<url, escaped>>
    PROVE  Inv'
<1>1. ProviderTypes /\ CallTypes /\ OwnInv
  BY TypeParts DEF Inv
<1>2. CallTypes' /\ call'.op = "starting" /\ call'.at = p /\ call'.step = "wait"
  BY <1>1, AwaitStep
<1>3. ProviderTypes' /\ OnlyAt(p)
  BY <1>1 DEF ProviderTypes, OnlyAt, Status
<1>4. held'[p]
  BY <1>1 DEF ProviderTypes
<1>5. ProviderOK(p)'
  BY <1>2, <1>4 DEF ProviderOK, StartOK, StopPassed, AtStart, AtStop
<1>6. QED
  BY <1>1, <1>2, <1>3, <1>5, StartLocal, TypeParts DEF Inv, StartMoves

\* The three providers with a child.
LEMMA SpawnedKeeps ==
    ASSUME Inv, NEW p \in Providers,
           \/ KindOf(p) = "quick" /\ QuickSpawned(p)
           \/ KindOf(p) = "named" /\ NamedSpawned(p)
           \/ KindOf(p) = "frp" /\ FrpSpawned(p)
    PROVE  Inv'
<1>1. call.op = "starting" /\ call.at = p /\ Spawned(p)
  BY DEF QuickSpawned, NamedSpawned, FrpSpawned, AtStart
<1>2. config' = config \/ (KindOf(p) = "frp" /\ config' = config \cup {p})
  BY DEF QuickSpawned, NamedSpawned, FrpSpawned
<1>3. QED
  BY <1>1, <1>2, HeldAwaits DEF Spawned, Status

\* `tailscale funnel' runs, or the endpoint is being bound; the provider has
\* nothing new yet.
LEMMA UnheldAwaits ==
    ASSUME Inv, NEW p \in Providers,
           \/ KindOf(p) = "tailscale" /\ TailscaleCommand(p)
           \/ KindOf(p) = "iroh" /\ IrohBind(p)
    PROVE  Inv'
<1>1. /\ ProviderTypes /\ CallTypes /\ OwnInv
      /\ call.op = "starting" /\ call.at = p /\ ~Binding(p)
  BY TypeParts DEF Inv, TailscaleCommand, IrohBind, AtStart, AtStop, Binding
<1>2. /\ CallTypes' /\ call'.op = "starting" /\ call'.at = p
      /\ \/ call'.step = "command" /\ KindOf(p) = "tailscale"
         \/ call'.step = "bind" /\ KindOf(p) = "iroh"
  BY <1>1, AwaitStep DEF TailscaleCommand, IrohBind
<1>3. ProviderTypes' /\ OnlyAt(p)
  BY <1>1 DEF TailscaleCommand, IrohBind, ProviderTypes, OnlyAt
<1>4. Settled(p)'
  BY <1>1, SettledBefore DEF Settled, TailscaleCommand, IrohBind
<1>5. ProviderOK(p)'
  BY <1>2, <1>4 DEF ProviderOK, StartOK, StopPassed, AtStart, AtStop, Settled
<1>6. QED
  BY <1>1, <1>2, <1>3, <1>5, StartLocal, TypeParts DEF Inv, StartMoves

\* The command ends, with a rule installed or without.
LEMMA TailscaleCommandEndsKeeps ==
    ASSUME Inv, NEW p \in Providers, TailscaleCommandEnds(p)
    PROVE  Inv'
<1>1. /\ call.op = "starting" /\ call.at = p /\ ~Binding(p)
      /\ KindOf(p) = "tailscale"
  BY DEF TailscaleCommandEnds, Inv, OwnInv, ProviderOK, StartOK, AtStart, AtStop, Binding
<1>2. CASE Disconnected(p) /\ Failed(p, "spawn") /\ UNCHANGED <<held, alive>>
  <2>1. Ended(p)
    BY <1>1, <1>2, EndsCall
  <2>2. QED
    BY <1>1, <1>2, <2>1, EndsWithStatus DEF TailscaleCommandEnds, Disconnected, Status
<1>3. CASE /\ held' = [held EXCEPT ![p] = TRUE] /\ alive' = [alive EXCEPT ![p] = TRUE]
           /\ Await("wait") /\ UNCHANGED status
  <2>1. status' = [status EXCEPT ![p] = status[p]] /\ status[p] \in Status
    BY <1>3 DEF Inv, TypeOK, Status
  <2>2. QED
    BY <1>1, <1>3, <2>1, HeldAwaits DEF TailscaleCommandEnds
<1>4. QED
  BY <1>2, <1>3 DEF TailscaleCommandEnds

\* The iroh endpoint is not bound, or its relay is awaited.
LEMMA IrohBoundKeeps ==
    ASSUME Inv, NEW p \in Providers, IrohBound(p)
    PROVE  Inv'
<1>1. /\ ProviderTypes /\ CallTypes /\ OwnInv /\ call.op = "starting" /\ call.at = p
      /\ ~Binding(p) /\ ProviderOK(p) /\ KindOf(p) = "iroh"
  BY TypeParts DEF Inv, OwnInv, ProviderOK, StartOK, IrohBound, AtStart, AtStop, Binding
<1>2. CASE Disconnected(p) /\ Failed(p, "spawn") /\ UNCHANGED alive
  <2>1. Ended(p)
    BY <1>1, <1>2, EndsCall
  <2>2. QED
    BY <1>1, <1>2, <2>1, EndsWithStatus DEF IrohBound, Disconnected, Status
<1>3. CASE alive' = [alive EXCEPT ![p] = TRUE] /\ Await("wait") /\ UNCHANGED status
  <2>1. CallTypes' /\ call'.op = "starting" /\ call'.at = p /\ call'.step = "wait"
    BY <1>1, <1>3, AwaitStep
  <2>2. ProviderTypes' /\ OnlyAt(p)
    BY <1>1, <1>3 DEF IrohBound, ProviderTypes, OnlyAt
  <2>3. ProviderOK(p)'
    BY <1>1, <2>1 DEF ProviderOK, StartOK, StopPassed, AtStart, AtStop, Binding
  <2>4. QED
    BY <1>1, <2>1, <2>2, <2>3, StartLocal, TypeParts DEF Inv, StartMoves
<1>4. QED
  BY <1>2, <1>3 DEF IrohBound

\* A readiness timed out: the rule is about to be removed, the endpoint closed.
LEMMA CloseAwaits ==
    ASSUME Inv, NEW p \in Providers,
           \/ KindOf(p) = "tailscale" /\ TailscaleNotReady(p)
           \/ KindOf(p) = "iroh" /\ IrohNotOnline(p)
    PROVE  Inv'
<1>1. /\ ProviderTypes /\ CallTypes /\ OwnInv /\ AtStart(p, "wait") /\ ProviderOK(p)
      /\ UNCHANGED <<status, url, held, alive, config, escaped>>
      /\ Await("close") /\ KindOf(p) \in {"tailscale", "iroh"}
  BY TypeParts DEF Inv, OwnInv, TailscaleNotReady, IrohNotOnline, provider
<1>2. CallTypes' /\ call'.op = "starting" /\ call'.at = p /\ call'.step = "close"
  BY <1>1, AwaitStep DEF AtStart
<1>3. ProviderTypes' /\ OnlyAt(p)
  BY <1>1 DEF ProviderTypes, OnlyAt
<1>4. ProviderOK(p)'
  BY <1>1, <1>2 DEF ProviderOK, StartOK, StopPassed, AtStart, AtStop, Binding, Abandoned
<1>5. QED
  BY <1>1, <1>2, <1>3, <1>4, StartLocal, TypeParts DEF Inv, StartMoves, AtStart

\* The endpoint is online and the provider takes it.
LEMMA IrohOnlineKeeps ==
    ASSUME Inv, NEW p \in Providers, KindOf(p) = "iroh", IrohOnline(p)
    PROVE  Inv'
<1>1. ProviderTypes /\ CallTypes /\ OwnInv
  BY TypeParts DEF Inv
<1>2. url'[p] \in Nat \cup {Null}
  BY <1>1 DEF IrohOnline, Connected, ProviderTypes, CallTypes
<1>3. Ended(p)
  BY <1>2, EndsCall DEF IrohOnline, AtStart
<1>4. ProviderTypes' /\ OnlyAt(p)
  BY <1>1 DEF IrohOnline, Connected, ProviderTypes, CallTypes, OnlyAt
<1>5. Settled(p)'
  BY <1>1 DEF Settled, IrohOnline, ProviderTypes
<1>6. QED
  BY <1>1, <1>3, <1>4, <1>5, StartEnds, TypeParts DEF Inv, Ended

\* The endpoint is closed and start returns its error.
LEMMA IrohGivenUpKeeps ==
    ASSUME Inv, NEW p \in Providers, KindOf(p) = "iroh", IrohGivenUp(p)
    PROVE  Inv'
<1>1. ProviderTypes /\ CallTypes /\ OwnInv
  BY TypeParts DEF Inv
<1>2. Ended(p)
  BY EndsCall DEF IrohGivenUp, AtStart
<1>3. ProviderTypes' /\ OnlyAt(p)
  BY <1>1 DEF IrohGivenUp, Disconnected, ProviderTypes, OnlyAt
<1>4. Settled(p)'
  BY <1>1 DEF Settled, IrohGivenUp, ProviderTypes
<1>5. QED
  BY <1>1, <1>2, <1>3, <1>4, StartEnds, TypeParts DEF Inv, Ended

-----------------------------------------------------------------------------
(* Stopping *)

\* What stop does to a provider, whatever its kind: it changes that provider
\* alone, and leaves nothing of it that is not accounted for.
LEMMA StopOne ==
    ASSUME Inv, NEW p \in Providers, call.op # "gone",
           \/ KindOf(p) = "quick" /\ StopQuick(p)
           \/ KindOf(p) = "named" /\ StopNamed(p)
           \/ KindOf(p) = "frp" /\ StopFrp(p)
           \/ KindOf(p) = "tailscale" /\ held[p] /\ StopTailscale(p)
           \/ KindOf(p) = "iroh" /\ ~held[p] /\ StopIroh(p)
           \/ KindOf(p) # "frp" /\ ~held[p] /\ ~Binding(p) /\ StopStub(p)
    PROVE  ProviderTypes' /\ OnlyAt(p) /\ Settled(p)' /\ Left(p)'
<1>1. /\ ProviderTypes /\ OwnInv /\ (~Binding(p) => Settled(p))
      /\ KindOf(p) # "iroh" => ~Binding(p)
  BY TypeParts, SettledBefore DEF Inv, Binding
<1>2. CASE \/ KindOf(p) = "quick" /\ StopQuick(p)
           \/ KindOf(p) = "named" /\ StopNamed(p)
           \/ KindOf(p) = "iroh" /\ ~held[p] /\ StopIroh(p)
  <2>1. /\ held' = [held EXCEPT ![p] = FALSE] /\ alive' = [alive EXCEPT ![p] = FALSE]
        /\ url' = [url EXCEPT ![p] = Null]
        /\ status' = [status EXCEPT ![p] = "disconnected"]
        /\ UNCHANGED <<config, escaped>> /\ KindOf(p) # "frp"
    BY <1>1, <1>2 DEF StopQuick, StopNamed, StopIroh, KillChild, Disconnected, ProviderTypes
  <2>2. ProviderTypes' /\ OnlyAt(p)
    BY <1>1, <2>1 DEF ProviderTypes, OnlyAt
  <2>3. /\ ~held'[p] /\ ~alive'[p] /\ url'[p] = Null /\ status'[p] = "disconnected"
        /\ p \notin config'
    BY <1>1, <2>1 DEF ProviderTypes
  <2>4. QED
    BY <2>2, <2>3 DEF Settled, Left
<1>3. CASE KindOf(p) = "frp" /\ StopFrp(p)
  <2>1. /\ held' = [held EXCEPT ![p] = FALSE] /\ alive' = [alive EXCEPT ![p] = FALSE]
        /\ url' = [url EXCEPT ![p] = Null]
        /\ status' = [status EXCEPT ![p] = "disconnected"]
        /\ config' = config \ {p} /\ UNCHANGED escaped
    BY <1>3 DEF StopFrp, KillChild, Disconnected
  <2>2. ProviderTypes' /\ OnlyAt(p)
    BY <1>1, <2>1 DEF ProviderTypes, OnlyAt
  <2>3. /\ ~held'[p] /\ ~alive'[p] /\ url'[p] = Null /\ status'[p] = "disconnected"
        /\ p \notin config'
    BY <1>1, <2>1 DEF ProviderTypes
  <2>4. QED
    BY <2>2, <2>3 DEF Settled, Left
<1>4. CASE KindOf(p) # "frp" /\ ~held[p] /\ ~Binding(p) /\ StopStub(p)
  <2>1. /\ url' = [url EXCEPT ![p] = Null]
        /\ status' = [status EXCEPT ![p] = "disconnected"]
        /\ UNCHANGED <<held, alive, config, escaped>> /\ ~held[p]
    BY <1>4 DEF StopStub, Disconnected
  <2>2. ProviderTypes' /\ OnlyAt(p)
    BY <1>1, <2>1 DEF ProviderTypes, OnlyAt
  <2>3. url'[p] = Null /\ status'[p] = "disconnected" /\ p \notin config'
    BY <1>1, <1>4, <2>1 DEF ProviderTypes
  <2>4. QED
    BY <1>1, <1>4, <2>1, <2>2, <2>3 DEF Settled, Left
<1>5. CASE KindOf(p) = "tailscale" /\ held[p] /\ StopTailscale(p)
  <2>1. p \notin config /\ UNCHANGED config
    BY <1>1, <1>5 DEF ProviderTypes, StopTailscale
  <2>2. CASE UNCHANGED <<url, status, held, alive, escaped>>
    BY <1>1, <1>5, <2>1, <2>2 DEF ProviderTypes, OnlyAt, Settled, Left
  <2>4. CASE /\ held' = [held EXCEPT ![p] = FALSE]
             /\ url' = [url EXCEPT ![p] = Null]
             /\ Disconnected(p)
             /\ \/ alive' = [alive EXCEPT ![p] = FALSE] /\ UNCHANGED escaped
                \/ escaped' = escaped \cup {p} /\ UNCHANGED alive
    <3>1. ProviderTypes' /\ OnlyAt(p)
      BY <1>1, <1>5, <2>1, <2>4 DEF ProviderTypes, OnlyAt, Disconnected
    <3>2. /\ url'[p] = Null /\ status'[p] = "disconnected" /\ ~held'[p]
          /\ alive'[p] => p \in escaped'
      BY <1>1, <2>4 DEF ProviderTypes, Disconnected
    <3>3. QED
      BY <1>5, <2>1, <3>1, <3>2 DEF Settled, Left
  <2>5. QED
    BY <1>5, <2>2, <2>4 DEF StopTailscale
<1>6. QED
  BY <1>2, <1>3, <1>4, <1>5

\* The funnel gives up: start calls stop and ignores what it returns.
LEMMA TailscaleGivenUpKeeps ==
    ASSUME Inv, NEW p \in Providers, KindOf(p) = "tailscale", TailscaleGivenUp(p)
    PROVE  Inv'
<1>1. Ended(p) /\ held[p] /\ call.op # "gone"
  BY EndsCall DEF TailscaleGivenUp, AtStart, Inv, OwnInv, ProviderOK, StartOK
<1>2. ProviderTypes' /\ OnlyAt(p) /\ Settled(p)'
  BY <1>1, StopOne DEF TailscaleGivenUp
<1>3. QED
  BY <1>1, <1>2, StartEnds, TypeParts DEF Inv, Ended

\* Between calls nothing is being bound or closed, and every provider is settled.
LEMMA NotStarting ==
    ASSUME OwnInv, call.op \in {"idle", "stopped"}, NEW p \in Providers
    PROVE  ~Binding(p) /\ Settled(p)
<1>1. ~Binding(p)
  BY DEF Binding, AtStart, AtStop
<1>2. QED
  BY <1>1, SettledBefore

\* A step between calls that touches no provider: a new call begins.
LEMMA BeginCall ==
    ASSUME Inv, call.op \in {"idle", "stopped"}, UNCHANGED provider, CallTypes',
           \/ call'.op = "starting" /\ call'.step = "begin"
           \/ call'.op = "stopping" /\ call'.at = 1 /\ call'.step = "begin"
    PROVE  Inv'
<1>1. ProviderTypes' /\ UNCHANGED <<status, url, held, alive, config, escaped>>
  BY TypeParts DEF Inv, ProviderTypes, provider
<1>2. ASSUME NEW p \in Providers
      PROVE  ProviderOK(p)'
  <2>1. Settled(p)
    BY NotStarting DEF Inv
  <2>2. StartOK(p)'
    BY DEF StartOK, AtStart, AtStop
  <2>3. ~StopPassed(p)'
    BY ProviderNumbers DEF StopPassed
  <2>4. QED
    BY <1>1, <2>1, <2>2, <2>3 DEF ProviderOK, Settled
<1>3. QED
  BY <1>1, <1>2, TypeParts DEF Inv, OwnInv

\* start_all and stop_all begin.
LEMMA CallsKeep ==
    ASSUME Inv, StartAll \/ StopAll
    PROVE  Inv'
<1>1. CASE StartAll
  <2>1. call' = [op |-> "starting", at |-> 1, step |-> "begin"]
    BY <1>1 DEF StartAll
  <2>2. CallTypes' /\ call'.op = "starting" /\ call'.step = "begin"
    <3>1. call' \in Calls /\ call'.op = "starting" /\ call'.step = "begin"
      BY <2>1, CallValues
    <3>2. QED
      BY <1>1, <3>1 DEF StartAll, CallTypes, Inv, TypeOK
  <2>3. QED
    BY <1>1, <2>2, BeginCall DEF StartAll
<1>2. CASE StopAll
  <2>1. call' = [op |-> "stopping", at |-> 1, step |-> "begin"]
    BY <1>2 DEF StopAll
  <2>2. CallTypes' /\ call'.op = "stopping" /\ call'.at = 1 /\ call'.step = "begin"
    <3>1. call' \in Calls /\ call'.op = "stopping" /\ call'.at = 1 /\ call'.step = "begin"
      BY <2>1, CallValues
    <3>2. QED
      BY <1>2, <3>1 DEF StopAll, CallTypes, Inv, TypeOK
  <2>3. QED
    BY <1>2, <2>2, BeginCall DEF StopAll
<1>3. QED
  BY <1>1, <1>2

\* Every provider has one of the kinds.
LEMMA KindsKnown ==
    ASSUME NEW p \in Providers
    PROVE  KindOf(p) \in Kinds
<1> DEFINE Entry == [kind : Kinds, priority : Int]
<1>1. Entries \in Seq(Entry) /\ p \in 1..Len(Entries)
  BY EntriesAssumption, ProviderNumbers
<1> HIDE DEF Entry
<1>2. Entries[p] \in Entry
  BY <1>1
<1>3. QED
  BY <1>2 DEF KindOf, Entry

\* The stopping loop passes a provider it leaves nothing of.
LEMMA StopPasses ==
    ASSUME Inv, NEW p \in Providers, call.op = "stopping", call.at = p, StopNext(p),
           ProviderTypes', OnlyAt(p), Settled(p)', Left(p)'
    PROVE  Inv'
<1>0. CallTypes /\ OwnInv /\ p \in Nat
  BY TypeParts, ProviderNumbers DEF Inv
<1>1. /\ CallTypes' /\ call'.step = "begin"
      /\ \/ call'.op = "stopped" /\ p = Len(Entries)
         \/ call'.op = "stopping" /\ call'.at = p + 1
  <2>1. CASE p = Len(Entries)
    <3>1. call' = [op |-> "stopped", at |-> 1, step |-> "begin"] /\ outcomes' = <<>>
      BY <2>1 DEF StopNext
    <3>2. call' \in Calls /\ call'.op = "stopped" /\ call'.step = "begin"
      BY <3>1, CallValues
    <3>3. QED
      BY <1>0, <2>1, <3>1, <3>2 DEF StopNext, CallTypes
  <2>2. CASE p # Len(Entries)
    <3>1. call' = [op |-> "stopping", at |-> p + 1, step |-> "begin"] /\ UNCHANGED outcomes
      BY <2>2 DEF StopNext
    <3>2. p + 1 \in Nat
      BY <1>0
    <3>3. /\ call' \in Calls /\ call'.op = "stopping" /\ call'.at = p + 1
          /\ call'.step = "begin"
      BY <3>1, <3>2, CallValues
    <3>4. QED
      BY <1>0, <3>1, <3>3 DEF StopNext, CallTypes
  <2>3. QED
    BY <2>1, <2>2
<1>2. ASSUME NEW q \in Providers
      PROVE  ProviderOK(q)'
  <2>1. StartOK(q)'
    BY <1>1 DEF StartOK, AtStart, AtStop
  <2>2. CASE q = p
    BY <2>1, <2>2 DEF ProviderOK, Settled
  <2>3. CASE q # p
    <3>1. ProviderOK(q) /\ ~Binding(q) /\ ~Abandoned(q)
      BY <1>0, <2>3 DEF OwnInv, Binding, AtStart, AtStop, Abandoned
    <3>2. /\ status'[q] = status[q] /\ url'[q] = url[q]
          /\ held'[q] = held[q] /\ alive'[q] = alive[q]
          /\ q \in config' <=> q \in config
          /\ q \in escaped' <=> q \in escaped
      BY <2>3 DEF OnlyAt
    <3>3. StopPassed(q)' => StopPassed(q)
      BY <1>0, <1>1, <2>3, ProviderNumbers DEF StopPassed
    <3>4. QED
      BY <2>1, <3>1, <3>2, <3>3 DEF ProviderOK, Left
  <2>4. QED
    BY <2>2, <2>3
<1>3. QED
  BY <1>1, <1>2, TypeParts DEF Inv, OwnInv

\* A stop that ends at once, and one that ends with its command or close.
LEMMA StopProviderKeeps ==
    ASSUME Inv, NEW p \in Providers, StopProvider(p) \/ StopEnds(p)
    PROVE  Inv'
<1>1. /\ call.op = "stopping" /\ call.at = p /\ StopNext(p) /\ ProviderOK(p)
      /\ KindOf(p) \in Kinds /\ ProviderTypes
  BY KindsKnown, TypeParts DEF Inv, OwnInv, StopProvider, StopEnds, AtStop
<1>2. CASE StopProvider(p)
  <2>1. ~Binding(p)
    BY <1>1, <1>2 DEF StopProvider, AtStop, AtStart, Binding
  <2>2. KindOf(p) \in {"tailscale", "iroh", "stub"} => ~held[p]
    BY <1>1, <1>2 DEF StopProvider, Closes, ProviderOK
  <2>3. \/ KindOf(p) = "quick" /\ StopQuick(p)
        \/ KindOf(p) = "named" /\ StopNamed(p)
        \/ KindOf(p) = "frp" /\ StopFrp(p)
        \/ KindOf(p) # "frp" /\ ~held[p] /\ ~Binding(p) /\ StopStub(p)
    BY <1>1, <1>2, <2>1, <2>2 DEF StopProvider, Kinds
  <2>4. ProviderTypes' /\ OnlyAt(p) /\ Settled(p)' /\ Left(p)'
    BY <1>1, <2>3, StopOne
  <2>5. QED
    BY <1>1, <2>4, StopPasses
<1>3. CASE StopEnds(p)
  <2>1. \/ KindOf(p) = "tailscale" /\ held[p] /\ StopTailscale(p)
        \/ KindOf(p) = "iroh" /\ ~held[p] /\ StopIroh(p)
    BY <1>1, <1>3 DEF StopEnds, ProviderOK, StartOK
  <2>2. ProviderTypes' /\ OnlyAt(p) /\ Settled(p)' /\ Left(p)'
    BY <1>1, <2>1, StopOne
  <2>3. QED
    BY <1>1, <2>2, StopPasses
<1>4. QED
  BY <1>2, <1>3

\* A stop that has to wait begins: the endpoint is out of its provider.
LEMMA StopBeginsKeeps ==
    ASSUME Inv, NEW p \in Providers, StopBegins(p)
    PROVE  Inv'
<1>1. /\ ProviderTypes /\ CallTypes /\ OwnInv
      /\ call.op = "stopping" /\ call.at = p /\ p \in Nat
      /\ KindOf(p) \in {"tailscale", "iroh"} /\ Await("close")
      /\ held' = [held EXCEPT ![p] = KindOf(p) = "tailscale"]
      /\ UNCHANGED <<status, url, alive, config, escaped>>
  BY TypeParts, ProviderNumbers DEF Inv, StopBegins, Closes, AtStop
<1>2. CallTypes' /\ call'.op = "stopping" /\ call'.at = p /\ call'.step = "close"
  BY <1>1, AwaitStep
<1>3. /\ held' \in [Providers -> BOOLEAN]
      /\ held'[p] <=> KindOf(p) = "tailscale"
      /\ \A q \in Providers \ {p} : held'[q] = held[q]
  BY <1>1 DEF ProviderTypes
<1>4. ProviderTypes'
  BY <1>1, <1>3 DEF ProviderTypes
<1>5. ProviderOK(p)'
  BY <1>1, <1>2, <1>3 DEF ProviderOK, StartOK, StopPassed, AtStart, AtStop, Binding
<1>6. ASSUME NEW q \in Providers, q # p
      PROVE  ProviderOK(q)'
  <2>1. ProviderOK(q) /\ ~Binding(q) /\ ~Abandoned(q)
    BY <1>1, <1>6 DEF OwnInv, Binding, AtStart, AtStop, Abandoned
  <2>2. StartOK(q)' /\ (StopPassed(q)' => StopPassed(q))
    BY <1>1, <1>2, <1>6 DEF StartOK, StopPassed, AtStart, AtStop
  <2>3. QED
    BY <1>1, <1>3, <1>6, <2>1, <2>2 DEF ProviderOK, Left
<1>7. QED
  BY <1>2, <1>4, <1>5, <1>6, TypeParts DEF Inv, OwnInv

-----------------------------------------------------------------------------
(* Around the orchestrator *)

\* What runs outside goes away by itself.
LEMMA DieKeeps ==
    ASSUME Inv, NEW p \in Providers, Die(p)
    PROVE  Inv'
<1>1. TypeOK'
  BY DEF Die, Inv, TypeOK
<1>2. ASSUME NEW q \in Providers
      PROVE  ProviderOK(q)'
  <2>1. /\ UNCHANGED <<status, url, held, config, call, escaped>>
        /\ alive'[q] => alive[q]
    BY DEF Die, Inv, TypeOK
  <2>2. ProviderOK(q)
    BY DEF Inv, OwnInv
  <2>3. QED
    BY <2>1, <2>2 DEF ProviderOK, Binding, Abandoned, StartOK, AtStart, AtStop, StopPassed, Left
<1>3. QED
  BY <1>1, <1>2 DEF Inv, OwnInv

\* start_all is dropped at an await.
LEMMA DropStartKeeps ==
    ASSUME Inv, NEW p \in Providers, DropStart(p)
    PROVE  Inv'
<1>0. /\ ProviderTypes /\ CallTypes /\ OwnInv
      /\ call.op = "starting" /\ call.at = p /\ call.step # "begin"
      /\ ProviderOK(p)
  BY TypeParts DEF Inv, OwnInv, DropStart, CallTypes, Calls
<1>1. CallTypes' /\ call'.op = "idle"
  <2>1. call' = [op |-> "idle", at |-> 1, step |-> "begin"]
    BY DEF DropStart
  <2>2. call' \in Calls /\ call'.op = "idle"
    BY <2>1, CallValues
  <2>3. QED
    BY <1>0, <2>2 DEF DropStart, CallTypes
<1>2. call.step = "command" => KindOf(p) = "tailscale"
  BY <1>0 DEF ProviderOK, StartOK, AtStart
<1>3. ProviderTypes' /\ OnlyAt(p)
  BY <1>0, <1>2 DEF DropStart, ProviderTypes, OnlyAt
<1>4. Settled(p)'
  <2>1. UNCHANGED held
    BY DEF DropStart
  <2>2. CASE p \in escaped'
    BY <1>0, <2>1, <2>2 DEF Settled, ProviderOK
  <2>3. CASE alive' = [alive EXCEPT ![p] = FALSE]
    BY <1>0, <2>1, <2>3 DEF Settled, ProviderOK, ProviderTypes
  <2>4. CASE KindOf(p) # "iroh" /\ UNCHANGED <<alive, escaped>>
    BY <1>0, <2>1, <2>4 DEF Settled, ProviderOK, Binding, Abandoned
  <2>5. QED
    BY <2>2, <2>3, <2>4 DEF DropStart
<1>5. QED
  BY <1>0, <1>1, <1>3, <1>4, StartEnds, TypeParts DEF Inv

\* The orchestrator is dropped.
LEMMA DropAllKeeps ==
    ASSUME Inv, DropAll
    PROVE  Inv'
<1>0. TypeOK /\ OwnInv /\ call.op \in {"idle", "stopped"}
  BY DEF Inv, DropAll
<1>1. call'.op = "gone" /\ call' \in Calls
  BY <1>0 DEF DropAll, TypeOK, Calls
<1>2. TypeOK'
  BY <1>0, <1>1 DEF DropAll, TypeOK
<1>3. ASSUME NEW p \in Providers
      PROVE  ProviderOK(p)'
  <2>1. ~held'[p] /\ (alive'[p] => p \notin Children)
    BY DEF DropAll
  <2>2. StartOK(p)' /\ ~StopPassed(p)'
    BY <1>1 DEF StartOK, StopPassed, AtStart, AtStop
  <2>3. QED
    BY <1>1, <2>1, <2>2 DEF ProviderOK, Abandoned
<1>4. QED
  BY <1>2, <1>3 DEF Inv, OwnInv

-----------------------------------------------------------------------------
(* The theorems *)

\* The invariant holds in every reachable state, whichever starts fail, are
\* dropped or outlive what they started.
LEMMA Invariance == Spec => []Inv
<1>1. Init => Inv
  <2> SUFFICES ASSUME Init PROVE Inv
    OBVIOUS
  <2>1. call \in Calls /\ call.op = "idle"
    BY CallValues DEF Init
  <2>2. TypeOK
    <3>1. outcomes \in Seq(Outcome)
      BY DEF Init
    <3>2. QED
      BY <2>1, <3>1 DEF Init, TypeOK
  <2>3. OwnInv
    BY <2>1 DEF Init, OwnInv, ProviderOK, StartOK, StopPassed, AtStart, AtStop
  <2>4. QED
    BY <2>2, <2>3 DEF Inv
<1>2. ASSUME Inv, [Next]_vars
      PROVE  Inv'
  <2>1. ASSUME NEW p \in Providers, BeginStart(p)
        PROVE  Inv'
    BY <1>2, <2>1, AlreadyRunningKeeps, NotSpawnedKeeps, SpawnedKeeps,
       UnheldAwaits, ReadyKeeps DEF BeginStart, Is
  <2>2. ASSUME NEW p \in Providers, BecomeReady(p)
        PROVE  Inv'
    BY <1>2, <2>2, ReadyKeeps, IrohOnlineKeeps DEF BecomeReady, Is
  <2>3. ASSUME NEW p \in Providers, TimeOut(p)
        PROVE  Inv'
    BY <1>2, <2>3, QuickNoUrlKeeps, NotReadyKeeps, CloseAwaits DEF TimeOut, Is
  <2>4. CASE UNCHANGED vars
    BY <1>2, <2>4 DEF vars, Inv, TypeOK, OwnInv, ProviderOK, Binding, Abandoned, StartOK,
                      AtStart, AtStop, StopPassed, Left
  <2>5. QED
    BY <1>2, <2>1, <2>2, <2>3, <2>4, CallsKeep, DropAllKeeps, StopProviderKeeps,
       StopBeginsKeeps, DieKeeps, DropStartKeeps, TailscaleCommandEndsKeeps,
       IrohBoundKeeps, TailscaleGivenUpKeeps, IrohGivenUpKeeps DEF Next, GiveUp, Is
<1>3. QED
  BY <1>1, <1>2, PTL DEF Spec

\* Statuses, urls, handles, config files and outcomes keep their types; a
\* config file exists only with the frpc child that reads it.
THEOREM TypeCorrect == Spec => []TypeOK
<1>1. Inv => TypeOK
  BY DEF Inv
<1>2. QED
  BY <1>1, Invariance, PTL

\* Whatever a provider runs is held by it or belongs to the call under way, for
\* every list of transports; the exceptions are a funnel rule whose removal
\* failed or whose command was cut, and the funnel rules and iroh endpoints
\* that outlive an orchestrator dropped without stop_all.
THEOREM NothingRunsUnowned == Spec => []RunningIsOwned
<1>1. Inv => RunningIsOwned
  BY DEF Inv, OwnInv, ProviderOK, Binding, Abandoned, AtStart, AtStop, RunningIsOwned
<1>2. QED
  BY <1>1, Invariance, PTL

\* When stop_all has returned no provider has a url, a handle, a config file or
\* anything running, except a funnel whose binary is gone.
THEOREM StopAllLeavesNothing == Spec => []StopLeavesNothing
<1>1. Inv => StopLeavesNothing
  BY DEF Inv, OwnInv, ProviderOK, StopPassed, Left, StopLeavesNothing
<1>2. QED
  BY <1>1, Invariance, PTL

-----------------------------------------------------------------------------
(* What is advertised *)

\* The outcome of the i-th provider is the i-th, and tells what it has now.
Reported(i) ==
    /\ outcomes[i].entry = i
    /\ outcomes[i].result = "started" =>
          outcomes[i].url = url[i] /\ status[i] = "connected"

\* Except while it stops, the orchestrator's outcomes are those of the
\* providers it has passed.
ReportsInv ==
    call.op \in {"idle", "stopped", "starting"} =>
        /\ call.op = "starting" => Len(outcomes) + 1 = call.at
        /\ \A i \in DOMAIN outcomes : Reported(i)

\* A step leaves the urls and statuses of the other providers alone.
Elsewhere(p) == \A q \in Providers \ {p} : status'[q] = status[q] /\ url'[q] = url[q]

\* The loop is at p: the outcomes so far are those of the providers before it.
LEMMA ReportsBefore ==
    ASSUME Inv, ReportsInv, NEW p \in Providers, call.op = "starting", call.at = p,
           Elsewhere(p)
    PROVE  /\ outcomes \in Seq(Outcome) /\ Len(outcomes) + 1 = p
           /\ \A i \in DOMAIN outcomes :
                 /\ outcomes[i].entry = i
                 /\ outcomes[i].result = "started" =>
                       outcomes[i].url = url'[i] /\ status'[i] = "connected"
<1>1. outcomes \in Seq(Outcome) /\ Len(outcomes) + 1 = p
  BY DEF Inv, TypeOK, ReportsInv
<1>2. ASSUME NEW i \in DOMAIN outcomes
      PROVE  /\ outcomes[i].entry = i
             /\ outcomes[i].result = "started" =>
                   outcomes[i].url = url'[i] /\ status'[i] = "connected"
  <2>1. Reported(i) /\ i # p /\ i \in Providers
    <3>1. Reported(i)
      BY DEF ReportsInv
    <3>2. outcomes[i] \in Outcome /\ i # p
      BY <1>1
    <3>. QED
      BY <3>1, <3>2 DEF Reported, Outcome
  <2>. QED
    BY <2>1 DEF Reported, Elsewhere
<1>. QED
  BY <1>1, <1>2

\* The outcome of p is pushed, and tells what p has.
LEMMA PushReports ==
    ASSUME Inv, ReportsInv, NEW p \in Providers, call.op = "starting", call.at = p,
           Elsewhere(p), NEW o \in Outcome, Push(p, o), o.entry = p,
           o.result = "started" => o.url = url'[p] /\ status'[p] = "connected"
    PROVE  ReportsInv'
<1>1. /\ outcomes \in Seq(Outcome) /\ Len(outcomes) + 1 = p
      /\ \A i \in DOMAIN outcomes :
            /\ outcomes[i].entry = i
            /\ outcomes[i].result = "started" =>
                  outcomes[i].url = url'[i] /\ status'[i] = "connected"
  BY ReportsBefore
<1>2. outcomes' = Append(outcomes, o)
  BY DEF Push
<1>3. ASSUME NEW i \in DOMAIN outcomes' PROVE Reported(i)'
  <2>1. CASE i \in DOMAIN outcomes
    <3>1. outcomes'[i] = outcomes[i]
      BY <1>1, <1>2, <2>1
    <3>. QED
      BY <1>1, <2>1, <3>1 DEF Reported
  <2>2. CASE i \notin DOMAIN outcomes
    <3>1. i = p /\ outcomes'[i] = o
      BY <1>1, <1>2, <2>2
    <3>. QED
      BY <3>1 DEF Reported
  <2>. QED
    BY <2>1, <2>2
<1>4. call'.op = "starting" => Len(outcomes') + 1 = call'.at
  <2>1. Len(outcomes') = p /\ p + 1 \in Nat
    BY <1>1, <1>2, ProviderNumbers
  <2>2. call' = [op |-> "idle", at |-> 1, step |-> "begin"]
        \/ call' = [op |-> "starting", at |-> p + 1, step |-> "begin"]
    BY DEF Push
  <2>. QED
    BY <2>1, <2>2
<1>. QED
  BY <1>3, <1>4 DEF ReportsInv

LEMMA FailedReports ==
    ASSUME Inv, ReportsInv, NEW p \in Providers, call.op = "starting", call.at = p,
           Elsewhere(p), NEW w \in {"already_running", "spawn", "not_ready"}, Failed(p, w)
    PROVE  ReportsInv'
<1>1. PICK o : o = [entry |-> p, result |-> "failed", url |-> Null, reason |-> w]
  OBVIOUS
<1>2. o \in Outcome /\ o.entry = p /\ o.result # "started"
  BY <1>1 DEF Outcome
<1>. QED
  BY <1>1, <1>2, PushReports DEF Failed

LEMMA StartedReports ==
    ASSUME Inv, ReportsInv, NEW p \in Providers, call.op = "starting", call.at = p,
           NEW u \in Nat, Connected(p, u), Started(p)
    PROVE  ReportsInv'
<1>1. /\ status'[p] = "connected" /\ url'[p] = u /\ Elsewhere(p)
  BY DEF Inv, TypeOK, Connected, Elsewhere
<1>2. PICK o : o = [entry |-> p, result |-> "started", url |-> url'[p], reason |-> "none"]
  OBVIOUS
<1>3. o \in Outcome /\ o.entry = p /\ o.url = url'[p]
  BY <1>1, <1>2 DEF Outcome
<1>. QED
  BY <1>1, <1>2, <1>3, PushReports DEF Started

LEMMA AwaitReports ==
    ASSUME Inv, ReportsInv, NEW p \in Providers, call.op = "starting", call.at = p,
           Elsewhere(p), NEW s \in {"command", "bind", "wait", "close"}, Await(s)
    PROVE  ReportsInv'
<1>1. /\ Len(outcomes) + 1 = p
      /\ \A i \in DOMAIN outcomes :
            /\ outcomes[i].entry = i
            /\ outcomes[i].result = "started" =>
                  outcomes[i].url = url'[i] /\ status'[i] = "connected"
  BY ReportsBefore
<1>2. call'.op = "starting" /\ call'.at = p /\ outcomes' = outcomes
  BY AwaitStep, TypeParts DEF Inv, Await
<1>. QED
  BY <1>1, <1>2 DEF ReportsInv, Reported

\* The status and the url of one provider are all that a start changes.
LEMMA OneStatus ==
    ASSUME Inv, NEW p \in Providers, NEW st,
           status' = status \/ status' = [status EXCEPT ![p] = st],
           url' = url \/ url' = [url EXCEPT ![p] = Null]
    PROVE  Elsewhere(p)
BY DEF Inv, TypeOK, Elsewhere

LEMMA BeginReports ==
    ASSUME Inv, ReportsInv, NEW p \in Providers, BeginStart(p)
    PROVE  ReportsInv'
<1>1. call.op = "starting" /\ call.at = p
  BY DEF BeginStart, AlreadyRunning, QuickNotSpawned, QuickSpawned, NamedNotSpawned,
         NamedSpawned, FrpNotSpawned, FrpSpawned, TailscaleNoBinary, TailscaleCommand,
         IrohBind, StubStart, AtStart
<1>2. CASE AlreadyRunning(p)
  BY <1>1, <1>2, FailedReports, OneStatus DEF AlreadyRunning, provider
<1>3. CASE \/ QuickNotSpawned(p) \/ NamedNotSpawned(p) \/ FrpNotSpawned(p)
           \/ TailscaleNoBinary(p)
  <2>1. Failed(p, "spawn") /\ url' = url
    BY <1>3 DEF QuickNotSpawned, NamedNotSpawned, FrpNotSpawned, TailscaleNoBinary
  <2>2. \E st : status' = [status EXCEPT ![p] = st]
    BY <1>3 DEF QuickNotSpawned, NamedNotSpawned, FrpNotSpawned, TailscaleNoBinary,
                Disconnected
  <2>. QED
    BY <1>1, <2>1, <2>2, FailedReports, OneStatus
<1>4. CASE \/ QuickSpawned(p) \/ NamedSpawned(p) \/ FrpSpawned(p)
           \/ TailscaleCommand(p) \/ IrohBind(p)
  <2>1. (Await("wait") \/ Await("command") \/ Await("bind")) /\ url' = url
    BY <1>4 DEF QuickSpawned, NamedSpawned, FrpSpawned, Spawned, TailscaleCommand, IrohBind
  <2>2. status' = [status EXCEPT ![p] = "connecting"]
    BY <1>4 DEF QuickSpawned, NamedSpawned, FrpSpawned, Spawned, TailscaleCommand, IrohBind
  <2>. QED
    BY <1>1, <2>1, <2>2, AwaitReports, OneStatus
<1>5. CASE StubStart(p)
  BY <1>1, <1>5, StartedReports DEF StubStart
<1>. QED
  BY <1>2, <1>3, <1>4, <1>5 DEF BeginStart

LEMMA ReadyReports ==
    ASSUME Inv, ReportsInv, NEW p \in Providers, BecomeReady(p)
    PROVE  ReportsInv'
<1>1. call.op = "starting" /\ call.at = p
  BY DEF BecomeReady, QuickUrl, ProbeUntilReady, IrohOnline, AtStart
<1>2. \E u \in Nat : Connected(p, u) /\ Started(p)
  <2>1. calls \in Nat
    BY DEF Inv, TypeOK
  <2>. QED
    BY <2>1 DEF BecomeReady, QuickUrl, ProbeUntilReady, IrohOnline
<1>. QED
  BY <1>1, <1>2, StartedReports

LEMMA TimeOutReports ==
    ASSUME Inv, ReportsInv, NEW p \in Providers, TimeOut(p) \/ GiveUp(p)
    PROVE  ReportsInv'
<1>1. call.op = "starting" /\ call.at = p /\ (Failed(p, "not_ready") \/ Await("close"))
  BY DEF TimeOut, GiveUp, QuickNoUrl, NamedNotReady, FrpNotReady, TailscaleNotReady,
         IrohNotOnline, TailscaleGivenUp, IrohGivenUp, AtStart
<1>2. /\ status' = status \/ status' = [status EXCEPT ![p] = "disconnected"]
      /\ url' = url \/ url' = [url EXCEPT ![p] = Null]
  BY DEF TimeOut, GiveUp, QuickNoUrl, NamedNotReady, FrpNotReady, TailscaleNotReady,
         IrohNotOnline, TailscaleGivenUp, IrohGivenUp, StopTailscale, Disconnected, provider
<1>. QED
  BY <1>1, <1>2, FailedReports, AwaitReports, OneStatus

LEMMA CommandReports ==
    ASSUME Inv, ReportsInv, NEW p \in Providers, TailscaleCommandEnds(p) \/ IrohBound(p)
    PROVE  ReportsInv'
<1>1. call.op = "starting" /\ call.at = p /\ url' = url
  BY DEF TailscaleCommandEnds, IrohBound, AtStart
<1>2. CASE Await("wait") /\ status' = status
  BY <1>1, <1>2, AwaitReports, OneStatus
<1>3. CASE Disconnected(p) /\ Failed(p, "spawn")
  BY <1>1, <1>3, FailedReports, OneStatus DEF Disconnected
<1>. QED
  BY <1>2, <1>3 DEF TailscaleCommandEnds, IrohBound

\* What the other steps do to the outcomes: nothing, or forget them all.
LEMMA OtherReports ==
    ASSUME Inv, ReportsInv,
           \/ StartAll \/ StopAll \/ DropAll
           \/ \E p \in Providers : \/ StopProvider(p) \/ StopBegins(p) \/ StopEnds(p)
                                  \/ Die(p) \/ DropStart(p)
    PROVE  ReportsInv'
<1>1. CASE StartAll
  BY <1>1 DEF StartAll, ReportsInv
<1>2. CASE StopAll
  BY <1>2 DEF StopAll, ReportsInv
<1>3. CASE DropAll
  <2>1. call'.op = "gone"
    BY <1>3 DEF DropAll, Inv, TypeOK, Calls
  <2>. QED
    BY <2>1 DEF ReportsInv
<1>4. ASSUME NEW p \in Providers, StopProvider(p) \/ StopEnds(p) PROVE ReportsInv'
  <2>1. StopNext(p)
    BY <1>4 DEF StopProvider, StopEnds
  <2>2. CASE p = Len(Entries)
    BY <2>1, <2>2 DEF StopNext, ReportsInv
  <2>3. CASE p # Len(Entries)
    <3>1. call'.op = "stopping"
      BY <2>1, <2>3 DEF StopNext
    <3>. QED
      BY <3>1 DEF ReportsInv
  <2>. QED
    BY <2>2, <2>3
<1>7. ASSUME NEW p \in Providers, StopBegins(p) PROVE ReportsInv'
  <2>1. call'.op = "stopping"
    BY <1>7, AwaitStep, TypeParts DEF StopBegins, AtStop, Inv
  <2>. QED
    BY <2>1 DEF ReportsInv
<1>5. ASSUME NEW p \in Providers, Die(p) PROVE ReportsInv'
  BY <1>5 DEF Die, ReportsInv, Reported
<1>6. ASSUME NEW p \in Providers, DropStart(p) PROVE ReportsInv'
  BY <1>6 DEF DropStart, ReportsInv, Reported
<1>. QED
  BY <1>1, <1>2, <1>3, <1>4, <1>5, <1>6, <1>7

LEMMA ReportsKeep == Inv /\ ReportsInv /\ [Next]_vars => ReportsInv'
<1>. SUFFICES ASSUME Inv, ReportsInv, [Next]_vars PROVE ReportsInv'
  OBVIOUS
<1>1. CASE UNCHANGED vars
  BY <1>1 DEF vars, ReportsInv, Reported
<1>2. CASE Next
  BY <1>2, BeginReports, ReadyReports, TimeOutReports, CommandReports, OtherReports DEF Next
<1>. QED
  BY <1>1, <1>2

-----------------------------------------------------------------------------
(* The sort of endpoints() *)

\* The started outcomes are finitely many.
LEMMA StartedFinite ==
    ASSUME Inv, NEW S \in SUBSET StartedAt
    PROVE  IsFiniteSet(S) /\ Cardinality(S) \in Nat
<1>1. PICK n \in Int : n = Len(outcomes) /\ DOMAIN outcomes = 1 .. n
  <2>1. outcomes \in Seq(Outcome)
    BY DEF Inv, TypeOK
  <2>. QED
    BY <2>1
<1>2. IsFiniteSet(1 .. n) /\ S \subseteq 1 .. n
  BY <1>1, FS_Interval DEF StartedAt
<1>. QED
  BY <1>2, FS_Subset, FS_CardinalityType

\* By priority and index, one of two comes first, and before the second comes
\* all that comes before the first.
LEMMA SortIsTotal ==
    ASSUME Inv
    PROVE  \A i, k, l \in StartedAt :
              /\ ~ SortsBefore(i, i)
              /\ SortsBefore(i, k) /\ SortsBefore(k, l) => SortsBefore(i, l)
              /\ i # k => SortsBefore(i, k) \/ SortsBefore(k, i)
<1>1. ASSUME NEW i \in StartedAt
      PROVE  i \in Int /\ Entries[outcomes[i].entry].priority \in Int
  <2>1. outcomes \in Seq(Outcome) /\ i \in DOMAIN outcomes
    BY DEF Inv, TypeOK, StartedAt
  <2>2. i \in Int /\ outcomes[i] \in Outcome
    BY <2>1
  <2>3. outcomes[i].entry \in DOMAIN Entries
    BY <2>2 DEF Outcome, Providers
  <2>4. Entries[outcomes[i].entry] \in [kind : Kinds, priority : Int]
    <3>1. PICK E : E = [kind : Kinds, priority : Int]
      OBVIOUS
    <3>2. Entries \in Seq(E)
      BY <3>1, EntriesAssumption
    <3>3. Entries[outcomes[i].entry] \in E
      BY <2>3, <3>2
    <3>. QED
      BY <3>1, <3>3
  <2>. QED
    BY <2>2, <2>4
<1>. QED
  BY <1>1 DEF SortsBefore

LEMMA PositionsGrow ==
    ASSUME Inv, NEW i \in StartedAt, NEW k \in StartedAt, SortsBefore(i, k)
    PROVE  Position(i) < Position(k)
<1>1. PICK A, B : /\ A = {l \in StartedAt : SortsBefore(l, i)}
                  /\ B = {l \in StartedAt : SortsBefore(l, k)}
  OBVIOUS
<1>2. A \subseteq B /\ i \in B /\ i \notin A /\ B \subseteq StartedAt
  BY <1>1, SortIsTotal
<1>3. IsFiniteSet(B) /\ Cardinality(A) \in Nat /\ Cardinality(B) \in Nat
  BY <1>2, StartedFinite
<1>4. Cardinality(A) <= Cardinality(B) /\ Cardinality(A) # Cardinality(B)
  BY <1>2, <1>3, FS_Subset
<1>. QED
  BY <1>1, <1>3, <1>4 DEF Position

\* Every position is somebody's.
LEMMA PositionsTaken ==
    ASSUME Inv, NEW n \in 1 .. Cardinality(StartedAt)
    PROVE  \E i \in StartedAt : Position(i) = n
<1>1. PICK N \in Nat : N = Cardinality(StartedAt)
  BY StartedFinite
<1>2. ASSUME NEW i \in StartedAt PROVE Position(i) \in 1 .. N
  <2>1. PICK A : A = {l \in StartedAt : SortsBefore(l, i)}
    OBVIOUS
  <2>2. A \subseteq StartedAt /\ i \notin A
    BY <2>1, SortIsTotal
  <2>3. IsFiniteSet(StartedAt) /\ Cardinality(A) \in Nat
    BY <2>2, StartedFinite
  <2>4. Cardinality(A) <= N /\ Cardinality(A) # N
    BY <1>1, <2>2, <2>3, FS_Subset
  <2>. QED
    BY <2>1, <2>3, <2>4 DEF Position
<1>3. PICK f : f = [i \in StartedAt |-> Position(i)]
  OBVIOUS
<1>4. f \in Injection(StartedAt, 1 .. N)
  <2>1. f \in [StartedAt -> 1 .. N]
    BY <1>2, <1>3
  <2>2. ASSUME NEW i \in StartedAt, NEW k \in StartedAt, f[i] = f[k] PROVE i = k
    <3>1. Position(i) = Position(k) /\ Position(i) \in Int
      BY <1>2, <1>3, <2>2
    <3>2. ~ (Position(i) < Position(k)) /\ ~ (Position(k) < Position(i))
      BY <3>1
    <3>. QED
      BY <3>2, SortIsTotal, PositionsGrow
  <2>. QED
    BY <2>1, <2>2 DEF Injection, IsInjective
<1>5. IsFiniteSet(1 .. N) /\ Cardinality(1 .. N) = N
  <2>1. 1 \in Int /\ N \in Int
    OBVIOUS
  <2>2. IsFiniteSet(1 .. N) /\ Cardinality(1 .. N) = IF 1 > N THEN 0 ELSE N - 1 + 1
    BY <2>1, FS_Interval
  <2>. QED
    BY <2>2
<1>6. f \in Surjection(StartedAt, 1 .. N)
  BY <1>1, <1>4, <1>5, FS_Injection
<1>7. \E i \in StartedAt : f[i] = n
  BY <1>1, <1>6 DEF Surjection
<1>. QED
  BY <1>3, <1>7

\* What endpoints() gives: the outcome at each position.
LEMMA EndpointAt ==
    ASSUME Inv, NEW n \in DOMAIN Endpoints
    PROVE  \E i \in StartedAt : Position(i) = n /\ Endpoints[n] = outcomes[i]
<1>1. n \in 1 .. Cardinality(StartedAt)
  BY DEF Endpoints
<1>2. Endpoints[n] = outcomes[CHOOSE i \in StartedAt : Position(i) = n]
  BY <1>1 DEF Endpoints
<1>3. \E i \in StartedAt : Position(i) = n
  BY <1>1, PositionsTaken
<1>4. PICK c : c = CHOOSE i \in StartedAt : Position(i) = n
  OBVIOUS
<1>5. c \in StartedAt /\ Position(c) = n
  BY <1>3, <1>4
<1>. QED
  BY <1>2, <1>4, <1>5

LEMMA EndpointsFollow ==
    ASSUME Inv, ReportsInv PROVE EndpointsCurrent
<1>. SUFFICES ASSUME call.op \in {"idle", "stopped"} PROVE EndpointsCurrent
  BY DEF EndpointsCurrent
<1>1. ASSUME NEW n \in DOMAIN Endpoints
      PROVE  /\ Endpoints[n].url = url[Endpoints[n].entry]
             /\ status[Endpoints[n].entry] = "connected"
  <2>1. PICK i \in StartedAt : Endpoints[n] = outcomes[i]
    BY EndpointAt
  <2>2. Reported(i) /\ outcomes[i].result = "started"
    BY DEF ReportsInv, StartedAt
  <2>. QED
    BY <2>1, <2>2 DEF Reported
<1>2. ASSUME NEW n \in DOMAIN Endpoints, NEW m \in DOMAIN Endpoints, n < m
      PROVE  \/ Entries[Endpoints[n].entry].priority < Entries[Endpoints[m].entry].priority
             \/ /\ Entries[Endpoints[n].entry].priority = Entries[Endpoints[m].entry].priority
                /\ Endpoints[n].entry < Endpoints[m].entry
  <2>1. PICK i \in StartedAt : Position(i) = n /\ Endpoints[n] = outcomes[i]
    BY EndpointAt
  <2>2. PICK k \in StartedAt : Position(k) = m /\ Endpoints[m] = outcomes[k]
    BY EndpointAt
  <2>3. n \in Int /\ m \in Int
    BY DEF Endpoints
  <2>4. SortsBefore(i, k)
    <3>1. i # k /\ ~ (Position(k) < Position(i))
      BY <1>2, <2>1, <2>2, <2>3
    <3>. QED
      BY <3>1, SortIsTotal, PositionsGrow
  <2>5. outcomes[i].entry = i /\ outcomes[k].entry = k
    BY DEF ReportsInv, Reported, StartedAt
  <2>. QED
    BY <2>1, <2>2, <2>4, <2>5 DEF SortsBefore
<1>. QED
  BY <1>1, <1>2 DEF EndpointsCurrent

\* Between calls every advertised endpoint is the url its provider has now, in
\* the order of endpoints(), whichever starts failed, were cut or were refused
\* because an earlier one still runs, for every list of transports.
THEOREM AdvertisedIsCurrent == Spec => []EndpointsCurrent
<1>1. Init => ReportsInv
  BY DEF Init, ReportsInv
<1>2. Inv /\ ReportsInv => EndpointsCurrent
  BY EndpointsFollow
<1>. QED
  BY <1>1, <1>2, Invariance, ReportsKeep, PTL DEF Spec
=============================================================================
