------------------------------- MODULE Tunnels -------------------------------
(***************************************************************************)
(* The transports of a sender (aex-tunnel): six kinds of TunnelProvider    *)
(* and the orchestrator that starts and stops a list of them, one after    *)
(* the other.  A provider drives something outside the process: a child    *)
(* (cloudflared, frpc), a funnel rule kept by tailscaled, or a bound iroh  *)
(* endpoint.  held is the provider's handle on it (child, active,          *)
(* endpoint), alive is whether it really runs; the two part when a start   *)
(* fails half way, the thing dies, or the caller drops start_all.          *)
(*                                                                         *)
(* Every await of a start is a step of its own.  Urls are numbers: 0 is a  *)
(* configured url, n > 0 the url handed out in the n-th start_all.         *)
(* Left out: is_alive, which the orchestrator cannot call through the      *)
(* trait; the streams the iroh endpoint proxies once it is online; and a   *)
(* stop_all that is dropped half way, after which outcomes names providers *)
(* that have already stopped.                                              *)
(***************************************************************************)
EXTENDS Integers, Sequences, FiniteSets

CONSTANTS
    Entries,     \* Vec<TransportEntry>: a sequence of [kind, priority]
    MaxCalls,    \* bound on the calls of start_all, for model checking
    Null

Kinds == {"quick", "named", "frp", "tailscale", "iroh", "stub"}

\* Both loops are over at once for an empty list, which is left out.
ASSUME EntriesAssumption ==
    Entries \in Seq([kind : Kinds, priority : Int]) /\ Entries # <<>>
ASSUME BoundsAssumption == MaxCalls \in Nat /\ Null \notin Nat

VARIABLES
    status,      \* TunnelStatus of each provider
    url,         \* public_url / cached_url
    held,        \* the handle is Some (child, endpoint) or active is set
    alive,       \* the process, rule or endpoint exists
    config,      \* the providers whose frpc config file exists
    call,        \* the orchestrator's call under way: [op, at, step]
    outcomes,    \* Vec<TransportStartOutcome>
    calls,       \* history: calls of start_all so far
    escaped      \* history: rules whose removal failed, or whose install was cut

vars == <<status, url, held, alive, config, call, outcomes, calls, escaped>>
provider == <<status, url, held, alive, config, escaped>>

Providers == DOMAIN Entries
KindOf(p) == Entries[p].kind
Children == {p \in Providers : KindOf(p) \in {"quick", "named", "frp"}}

-----------------------------------------------------------------------------
(* State *)

Outcome == [entry : Providers, result : {"started", "failed"}, url : Nat \cup {Null},
            reason : {"none", "already_running", "spawn", "not_ready"}]

Calls == [op : {"idle", "stopped", "starting", "stopping", "gone"},
          at : Nat, step : {"begin", "command", "bind", "wait", "close"}]

Init ==
    /\ status = [p \in Providers |-> "disconnected"]
    /\ url = [p \in Providers |-> Null]
    /\ held = [p \in Providers |-> FALSE]
    /\ alive = [p \in Providers |-> FALSE]
    /\ config = {}
    /\ call = [op |-> "idle", at |-> 1, step |-> "begin"]
    /\ outcomes = <<>>
    /\ calls = 0
    /\ escaped = {}

-----------------------------------------------------------------------------
(* The orchestrator's loop *)

AtStart(p, step) == call.op = "starting" /\ call.at = p /\ call.step = step

AtStop(p, step) == call.op = "stopping" /\ call.at = p /\ call.step = step

Await(step) ==
    /\ call' = [call EXCEPT !.step = step]
    /\ UNCHANGED <<outcomes, calls>>

\* The loop pushes the outcome of its provider and goes on with the next.
Push(p, outcome) ==
    /\ outcomes' = Append(outcomes, outcome)
    /\ call' = IF p = Len(Entries) THEN [op |-> "idle", at |-> 1, step |-> "begin"]
               ELSE [op |-> "starting", at |-> p + 1, step |-> "begin"]
    /\ UNCHANGED calls

\* start returned Ok: the outcome carries what public_url then answers.
Started(p) ==
    Push(p, [entry |-> p, result |-> "started", url |-> url'[p], reason |-> "none"])

Failed(p, why) ==
    Push(p, [entry |-> p, result |-> "failed", url |-> Null, reason |-> why])

\* Faulty variant: the outcomes of the last call are kept.
StartAllUncleared ==
    /\ call.op \in {"idle", "stopped"}
    /\ calls < MaxCalls
    /\ calls' = calls + 1
    /\ call' = [op |-> "starting", at |-> 1, step |-> "begin"]
    /\ UNCHANGED <<provider, outcomes>>

StartAll ==
    /\ call.op \in {"idle", "stopped"}
    /\ calls < MaxCalls
    /\ calls' = calls + 1
    /\ call' = [op |-> "starting", at |-> 1, step |-> "begin"]
    /\ outcomes' = <<>>
    /\ UNCHANGED provider

-----------------------------------------------------------------------------
(* What the starts share *)

Disconnected(p) == status' = [status EXCEPT ![p] = "disconnected"]

Connected(p, u) ==
    /\ status' = [status EXCEPT ![p] = "connected"]
    /\ url' = [url EXCEPT ![p] = u]

AlreadyRunning(p) ==
    /\ AtStart(p, "begin")
    /\ held[p]
    /\ Failed(p, "already_running")
    /\ UNCHANGED provider

\* The child is kept in the provider before its readiness is awaited.
Spawned(p) ==
    /\ status' = [status EXCEPT ![p] = "connecting"]
    /\ held' = [held EXCEPT ![p] = TRUE]
    /\ alive' = [alive EXCEPT ![p] = TRUE]
    /\ Await("wait")
    /\ UNCHANGED <<url, escaped>>

KillChild(p) ==
    /\ held' = [held EXCEPT ![p] = FALSE]
    /\ alive' = [alive EXCEPT ![p] = FALSE]

\* GET /healthz through the tunnel is answered 2xx within ready_timeout.
ProbeUntilReady(p) ==
    /\ AtStart(p, "wait")
    /\ alive[p]
    /\ Connected(p, 0)
    /\ Started(p)
    /\ UNCHANGED <<held, alive, config, escaped>>

-----------------------------------------------------------------------------
(* CloudflareQuickTunnel *)

\* cloudflared is not found, or spawn fails: `?' leaves the status Connecting.
QuickNotSpawned(p) ==
    /\ AtStart(p, "begin")
    /\ ~held[p]
    /\ status' = [status EXCEPT ![p] = "connecting"]
    /\ Failed(p, "spawn")
    /\ UNCHANGED <<url, held, alive, config, escaped>>

QuickSpawned(p) ==
    /\ AtStart(p, "begin")
    /\ ~held[p]
    /\ Spawned(p)
    /\ UNCHANGED config

\* A line of stderr holds an https url of trycloudflare.com.
QuickUrl(p) ==
    /\ AtStart(p, "wait")
    /\ alive[p]
    /\ Connected(p, calls)
    /\ Started(p)
    /\ UNCHANGED <<held, alive, config, escaped>>

\* Faulty variant: nothing bounds the wait for the url.
QuickNoUrlUntimed(p) ==
    /\ AtStart(p, "wait")
    /\ ~alive[p]
    /\ Disconnected(p)
    /\ Failed(p, "not_ready")
    /\ UNCHANGED <<url, held, alive, config, escaped>>

\* stderr closes, or 30 s pass: an error, and the child stays in the provider.
QuickNoUrl(p) ==
    /\ AtStart(p, "wait")
    /\ Disconnected(p)
    /\ Failed(p, "not_ready")
    /\ UNCHANGED <<url, held, alive, config, escaped>>

StopQuick(p) ==
    /\ KillChild(p)
    /\ url' = [url EXCEPT ![p] = Null]
    /\ Disconnected(p)
    /\ UNCHANGED <<config, escaped>>

-----------------------------------------------------------------------------
(* NamedCloudflareTunnel *)

NamedNotSpawned(p) ==
    /\ AtStart(p, "begin")
    /\ ~held[p]
    /\ Disconnected(p)
    /\ Failed(p, "spawn")
    /\ UNCHANGED <<url, held, alive, config, escaped>>

NamedSpawned(p) ==
    /\ AtStart(p, "begin")
    /\ ~held[p]
    /\ Spawned(p)
    /\ UNCHANGED config

\* Faulty variant: the handle is let go of without killing the child.
NamedNotReadyForgotten(p) ==
    /\ AtStart(p, "wait")
    /\ Disconnected(p)
    /\ held' = [held EXCEPT ![p] = FALSE]
    /\ Failed(p, "not_ready")
    /\ UNCHANGED <<url, alive, config, escaped>>

\* ready_timeout passes: the child is taken and killed.
NamedNotReady(p) ==
    /\ AtStart(p, "wait")
    /\ Disconnected(p)
    /\ KillChild(p)
    /\ Failed(p, "not_ready")
    /\ UNCHANGED <<url, config, escaped>>

StopNamed(p) ==
    /\ KillChild(p)
    /\ url' = [url EXCEPT ![p] = Null]
    /\ Disconnected(p)
    /\ UNCHANGED <<config, escaped>>

-----------------------------------------------------------------------------
(* FrpTunnel: as above, with a config file that lives as long as the child *)

\* No binary, no temporary file, a failed write or a failed spawn.
FrpNotSpawned(p) ==
    /\ AtStart(p, "begin")
    /\ ~held[p]
    /\ Disconnected(p)
    /\ Failed(p, "spawn")
    /\ UNCHANGED <<url, held, alive, config, escaped>>

FrpSpawned(p) ==
    /\ AtStart(p, "begin")
    /\ ~held[p]
    /\ Spawned(p)
    /\ config' = config \cup {p}

FrpNotReady(p) ==
    /\ AtStart(p, "wait")
    /\ Disconnected(p)
    /\ KillChild(p)
    /\ config' = config \ {p}
    /\ Failed(p, "not_ready")
    /\ UNCHANGED <<url, escaped>>

StopFrp(p) ==
    /\ KillChild(p)
    /\ config' = config \ {p}
    /\ url' = [url EXCEPT ![p] = Null]
    /\ Disconnected(p)
    /\ UNCHANGED escaped

-----------------------------------------------------------------------------
(* TailscaleFunnelTunnel *)

TailscaleNoBinary(p) ==
    /\ AtStart(p, "begin")
    /\ ~held[p]
    /\ Disconnected(p)
    /\ Failed(p, "spawn")
    /\ UNCHANGED <<url, held, alive, config, escaped>>

\* `tailscale funnel --bg' runs; no timeout bounds it.
TailscaleCommand(p) ==
    /\ AtStart(p, "begin")
    /\ ~held[p]
    /\ status' = [status EXCEPT ![p] = "connecting"]
    /\ Await("command")
    /\ UNCHANGED <<url, held, alive, config, escaped>>

\* The command ends; exit status zero means that the rule is installed.
TailscaleCommandEnds(p) ==
    /\ AtStart(p, "command")
    /\ \/ /\ held' = [held EXCEPT ![p] = TRUE]
          /\ alive' = [alive EXCEPT ![p] = TRUE]
          /\ Await("wait")
          /\ UNCHANGED status
       \/ /\ Disconnected(p)
          /\ Failed(p, "spawn")
          /\ UNCHANGED <<held, alive>>
    /\ UNCHANGED <<url, config, escaped>>

\* Faulty variant: active is cleared before the binary is looked up.
StopTailscaleEarly(p) ==
    /\ held' = [held EXCEPT ![p] = FALSE]
    /\ alive' \in {alive, [alive EXCEPT ![p] = FALSE]}
    /\ url' = [url EXCEPT ![p] = Null]
    /\ Disconnected(p)
    /\ UNCHANGED <<config, escaped>>

\* stop with a rule installed: no binary is an error that changes nothing; else
\* `funnel off' runs, under no timeout, and its result is ignored, so the rule
\* may outlive the flag.
StopTailscale(p) ==
    /\ \/ UNCHANGED <<url, status, held, alive, escaped>>
       \/ /\ held' = [held EXCEPT ![p] = FALSE]
          /\ url' = [url EXCEPT ![p] = Null]
          /\ Disconnected(p)
          /\ \/ alive' = [alive EXCEPT ![p] = FALSE] /\ UNCHANGED escaped
             \/ alive[p] /\ escaped' = escaped \cup {p} /\ UNCHANGED alive
    /\ UNCHANGED config

\* ready_timeout passes: start calls stop,
TailscaleNotReady(p) ==
    /\ AtStart(p, "wait")
    /\ Await("close")
    /\ UNCHANGED provider

\* and ignores what it returns.
TailscaleGivenUp(p) ==
    /\ AtStart(p, "close")
    /\ StopTailscale(p)
    /\ Failed(p, "not_ready")

-----------------------------------------------------------------------------
(* IrohTunnel *)

IrohBind(p) ==
    /\ AtStart(p, "begin")
    /\ ~held[p]
    /\ status' = [status EXCEPT ![p] = "connecting"]
    /\ Await("bind")
    /\ UNCHANGED <<url, held, alive, config, escaped>>

\* bind().await ends, under no timeout: with an error, or with an endpoint
\* whose relay is awaited; the provider has no handle on it yet.
IrohBound(p) ==
    /\ AtStart(p, "bind")
    /\ \/ /\ Disconnected(p)
          /\ Failed(p, "spawn")
          /\ UNCHANGED alive
       \/ /\ alive' = [alive EXCEPT ![p] = TRUE]
          /\ Await("wait")
          /\ UNCHANGED status
    /\ UNCHANGED <<url, held, config, escaped>>

IrohOnline(p) ==
    /\ AtStart(p, "wait")
    /\ alive[p]
    /\ Connected(p, calls)
    /\ held' = [held EXCEPT ![p] = TRUE]
    /\ Started(p)
    /\ UNCHANGED <<alive, config, escaped>>

\* online_timeout passes: close().await, under no timeout,
IrohNotOnline(p) ==
    /\ AtStart(p, "wait")
    /\ Await("close")
    /\ UNCHANGED provider

\* then the error.
IrohGivenUp(p) ==
    /\ AtStart(p, "close")
    /\ alive' = [alive EXCEPT ![p] = FALSE]
    /\ Disconnected(p)
    /\ Failed(p, "not_ready")
    /\ UNCHANGED <<url, held, config, escaped>>

\* The end of stop, once the endpoint it took is closed.
StopIroh(p) ==
    /\ alive' = [alive EXCEPT ![p] = FALSE]
    /\ url' = [url EXCEPT ![p] = Null]
    /\ Disconnected(p)
    /\ UNCHANGED <<held, config, escaped>>

-----------------------------------------------------------------------------
(* StubTunnel *)

StubStart(p) ==
    /\ AtStart(p, "begin")
    /\ Connected(p, 0)
    /\ Started(p)
    /\ UNCHANGED <<held, alive, config, escaped>>

\* Also the stop of a funnel or an endpoint that is not held.
StopStub(p) ==
    /\ url' = [url EXCEPT ![p] = Null]
    /\ Disconnected(p)
    /\ UNCHANGED <<held, alive, config, escaped>>

-----------------------------------------------------------------------------
(* Stopping *)

StopAll ==
    /\ call.op \in {"idle", "stopped"}
    /\ call' = [op |-> "stopping", at |-> 1, step |-> "begin"]
    /\ UNCHANGED <<provider, outcomes, calls>>

\* An error is logged and the loop goes on; the outcomes go at its end.
StopNext(p) ==
    /\ IF p = Len(Entries)
       THEN /\ call' = [op |-> "stopped", at |-> 1, step |-> "begin"]
            /\ outcomes' = <<>>
       ELSE /\ call' = [op |-> "stopping", at |-> p + 1, step |-> "begin"]
            /\ UNCHANGED outcomes
    /\ UNCHANGED calls

\* The stops that wait for a command or for the endpoint's peers.
Closes(p) == held[p] /\ KindOf(p) \in {"tailscale", "iroh"}

StopProvider(p) ==
    /\ AtStop(p, "begin")
    /\ ~Closes(p)
    /\ CASE KindOf(p) = "quick" -> StopQuick(p)
         [] KindOf(p) = "named" -> StopNamed(p)
         [] KindOf(p) = "frp" -> StopFrp(p)
         [] OTHER -> StopStub(p)
    /\ StopNext(p)

\* The endpoint is taken out of its provider first; active stays set.
StopBegins(p) ==
    /\ AtStop(p, "begin")
    /\ Closes(p)
    /\ held' = [held EXCEPT ![p] = KindOf(p) = "tailscale"]
    /\ Await("close")
    /\ UNCHANGED <<status, url, alive, config, escaped>>

StopEnds(p) ==
    /\ AtStop(p, "close")
    /\ CASE KindOf(p) = "tailscale" -> StopTailscale(p)
         [] OTHER -> StopIroh(p)
    /\ StopNext(p)

-----------------------------------------------------------------------------
(* Around the orchestrator *)

\* The process, rule or endpoint goes away by itself; nobody is told.
Die(p) ==
    /\ alive[p]
    /\ call.op # "gone"
    /\ alive' = [alive EXCEPT ![p] = FALSE]
    /\ UNCHANGED <<status, url, held, config, call, outcomes, calls, escaped>>

\* The caller drops start_all at an await: a child is in its provider by
\* then, an endpoint that no provider has is dropped with the future, a
\* running tailscale command is not killed and may still install its rule, and
\* a `funnel off' under way leaves active set.
DropStart(p) ==
    /\ call.op = "starting" /\ call.at = p /\ call.step # "begin"
    /\ call' = [op |-> "idle", at |-> 1, step |-> "begin"]
    /\ \/ /\ call.step = "command"
          /\ alive' = [alive EXCEPT ![p] = TRUE]
          /\ escaped' = escaped \cup {p}
       \/ /\ KindOf(p) = "iroh"
          /\ alive' = [alive EXCEPT ![p] = FALSE]
          /\ UNCHANGED escaped
       \/ /\ KindOf(p) # "iroh"
          /\ UNCHANGED <<alive, escaped>>
    /\ UNCHANGED <<status, url, held, config, outcomes, calls>>

\* The orchestrator and its providers are dropped without stop_all:
\* kill_on_drop ends the children, tailscaled keeps its rule, and the detached
\* accept loop keeps its clone of the iroh endpoint and goes on proxying.
DropAll ==
    /\ call.op \in {"idle", "stopped"}
    /\ call' = [call EXCEPT !.op = "gone"]
    /\ held' = [p \in Providers |-> FALSE]
    /\ alive' = [p \in Providers |-> alive[p] /\ p \notin Children]
    /\ config' = {}
    /\ UNCHANGED <<status, url, outcomes, calls, escaped>>

-----------------------------------------------------------------------------

Is(p, kind) == KindOf(p) = kind

BeginStart(p) ==
    \/ ~Is(p, "stub") /\ AlreadyRunning(p)
    \/ Is(p, "quick") /\ (QuickNotSpawned(p) \/ QuickSpawned(p))
    \/ Is(p, "named") /\ (NamedNotSpawned(p) \/ NamedSpawned(p))
    \/ Is(p, "frp") /\ (FrpNotSpawned(p) \/ FrpSpawned(p))
    \/ Is(p, "tailscale") /\ (TailscaleNoBinary(p) \/ TailscaleCommand(p))
    \/ Is(p, "iroh") /\ IrohBind(p)
    \/ Is(p, "stub") /\ StubStart(p)

BecomeReady(p) ==
    \/ Is(p, "quick") /\ QuickUrl(p)
    \/ KindOf(p) \in {"named", "frp", "tailscale"} /\ ProbeUntilReady(p)
    \/ Is(p, "iroh") /\ IrohOnline(p)

TimeOut(p) ==
    \/ Is(p, "quick") /\ QuickNoUrl(p)
    \/ Is(p, "named") /\ NamedNotReady(p)
    \/ Is(p, "frp") /\ FrpNotReady(p)
    \/ Is(p, "tailscale") /\ TailscaleNotReady(p)
    \/ Is(p, "iroh") /\ IrohNotOnline(p)

GiveUp(p) ==
    \/ Is(p, "tailscale") /\ TailscaleGivenUp(p)
    \/ Is(p, "iroh") /\ IrohGivenUp(p)

Next ==
    \/ StartAll \/ StopAll \/ DropAll
    \/ \E p \in Providers :
          \/ BeginStart(p) \/ BecomeReady(p) \/ TimeOut(p)
          \/ TailscaleCommandEnds(p) \/ IrohBound(p) \/ GiveUp(p)
          \/ StopProvider(p) \/ StopBegins(p) \/ StopEnds(p)
          \/ Die(p) \/ DropStart(p)

Spec == Init /\ [][Next]_vars

\* start first looks for the binary by running it with --version, blocking.
LooksUp(p) == KindOf(p) \in {"quick", "named", "frp", "tailscale"} /\ ~held[p]

\* The loop runs while it is polled, a readiness is awaited under a tokio
\* timeout, and a killed child is reaped.  Nothing bounds the lookup of a
\* binary, the two tailscale commands, or iroh's bind and close.
FairSpec ==
    /\ Spec
    /\ \A p \in Providers :
          /\ WF_vars(~LooksUp(p) /\ BeginStart(p))
          /\ WF_vars(TimeOut(p))
          /\ WF_vars(StopProvider(p))
          /\ WF_vars(StopBegins(p))

-----------------------------------------------------------------------------
(* Properties *)

\* endpoints(): the outcomes that started, by priority and then by index: the
\* n-th is the one with n - 1 of them before it.
StartedAt == {i \in DOMAIN outcomes : outcomes[i].result = "started"}

SortsBefore(i, k) ==
    LET Priority(o) == Entries[o.entry].priority
    IN  \/ Priority(outcomes[i]) < Priority(outcomes[k])
        \/ Priority(outcomes[i]) = Priority(outcomes[k]) /\ i < k

Position(i) == 1 + Cardinality({k \in StartedAt : SortsBefore(k, i)})

Endpoints ==
    [n \in 1 .. Cardinality(StartedAt) |->
        outcomes[CHOOSE i \in StartedAt : Position(i) = n]]

\* Everything has its type; a config file exists only with frpc's child.
TypeOK ==
    /\ status \in [Providers -> {"disconnected", "connecting", "connected"}]
    /\ url \in [Providers -> Nat \cup {Null}]
    /\ held \in [Providers -> BOOLEAN] /\ alive \in [Providers -> BOOLEAN]
    /\ config \subseteq {p \in Providers : KindOf(p) = "frp" /\ held[p]}
    /\ call \in Calls
    /\ outcomes \in Seq(Outcome)
    /\ calls \in Nat
    /\ escaped \subseteq {p \in Providers : KindOf(p) = "tailscale"}

\* Whatever a provider runs is reachable through its handle, so that stop or
\* Drop ends it, or belongs to the call under way.  The exceptions are a funnel
\* rule whose removal failed or whose command was cut, and what survives the
\* drop of the whole orchestrator: funnel rules and iroh endpoints.
RunningIsOwned ==
    \A p \in Providers :
        alive[p] =>
            \/ held[p] \/ p \in escaped
            \/ call.op \in {"starting", "stopping"} /\ call.at = p
            \/ call.op = "gone" /\ p \notin Children

\* When stop_all has returned no provider has a url, a handle or anything
\* running, whichever starts failed, were cut or died before; only a funnel
\* whose binary is gone keeps what it had.
StopLeavesNothing ==
    call.op = "stopped" =>
        \A p \in Providers :
            \/ /\ ~held[p] /\ url[p] = Null /\ p \notin config
               /\ status[p] = "disconnected"
               /\ alive[p] => p \in escaped
            \/ KindOf(p) = "tailscale" /\ held[p]

\* Between calls every advertised endpoint is the url its provider has now,
\* each provider is advertised once, lower priorities first and ties in entry
\* order: a url of an earlier start never survives into reachable_at.
EndpointsCurrent ==
    call.op \in {"idle", "stopped"} =>
        LET eps == Endpoints
            Priority(i) == Entries[eps[i].entry].priority
        IN  /\ \A i \in DOMAIN eps : /\ eps[i].url = url[eps[i].entry]
                                     /\ status[eps[i].entry] = "connected"
            /\ \A i, j \in DOMAIN eps :
                  i < j => \/ Priority(i) < Priority(j)
                           \/ Priority(i) = Priority(j) /\ eps[i].entry < eps[j].entry

\* The loop waits for something the code sets no limit to.
Untimed ==
    \/ call.step \in {"command", "bind", "close"}
    \/ call.op = "starting" /\ call.step = "begin" /\ LooksUp(call.at)

\* start_all and stop_all return, whatever the providers meet, or hang for ever
\* in a wait that the code sets no limit to: no other wait is without an end.
CallsReturn ==
    call.op \in {"starting", "stopping"} ~>
        \/ call.op \in {"idle", "stopped"}
        \/ []Untimed
=============================================================================
