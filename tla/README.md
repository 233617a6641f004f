# AEX in TLA+

AEX (Agent Exchange) moves files between agents. A **control plane** keeps the
agents, their keys and the transfers in a database, and audits what happens; the
bytes either travel through its blob store or are fetched from the sender's own
**data plane** with a ticket the control plane signs. This directory holds TLA+
models of the parts of the Rust workspace in which several tasks share state,
TLC configurations that check them, and TLAPS proofs of every safety property
the runs check. `PROJECT.json` lists, for every definition, the source lines it
models.

## Inventory

| component | state | operations | module |
|---|---|---|---|
| transfer endpoints (`aex-control-plane/routes/transfers.rs`, `db/transfers.rs`, `blob.rs`) | `transfers` and `transfer_intent_nonces` tables, blob store, audit events, tickets | create (blob, tunnel, reachable), download, ack, ticket | `Transfers`, `TransferLifecycle` |
| tier policy (`aex-policy/tier.rs`) | none | `evaluate`, before and after the scan | `Policy` |
| agents and keys (`routes/agents.rs`, `db/agents.rs`, `db/agent_keys.rs`, `verify.rs`) | `agents`, `agent_keys`, two nonce tables, the clock | register, rotate, verify a signed action | `AgentKeys` |
| data plane (`aex-data-plane/server.rs`, `ticket.rs`, `main.rs`) | blobs, used nonces, scan cache, all in memory; the tunnel child and the server task | start, advertise, stop, admin insert, serve; the start-up sequence of `main` | `DataPlane`, `DataPlaneBoot` |
| scanner pipeline (`aex-scanner`) | none | four scanners, `aggregate`, `is_blocking` | `Scanner` |
| audit log (`aex-audit/file_log.rs`, `rekor.rs`) | the file, head and length in memory, the mutex | open, append, verify_chain, anchoring loop | `AuditLog` |
| resolver chain (`aex-identity/resolver_chain.rs`) | cache, in-flight map | resolve, invalidate | `ResolverChain` |
| endpoint health (`health_monitor.rs`, `aex-core/endpoint.rs`) | `reachable_at` with debounce counters | tick, stop | `Reachability` |
| endpoint validator (`endpoint_validator.rs`) | the semaphore | `validate_all` | `EndpointValidator` |
| tunnels (`aex-tunnel`) | child processes, funnel rules, endpoints, public urls, outcomes | `start_all`, `stop_all`, `endpoints`; start and stop of six providers | `Tunnels` |
| policy webhooks (`aex-policy/sink`) and retries (`aex-net/retry.rs`) | attempts | `submit`, `retry_with_backoff` | `OutboundCalls` |
| network client (`aex-net`) | none | `safe_get`, captive-portal detection | `SafeHttp`, `PeerCalls`, `DataPlaneBoot` |
| identities (`aex-identity`, `aex-jws`, `aex-core/types.rs`) | known peer keys | `verify_peer` of four providers, tokens, ids | `PeerCalls`, `Jws`, `AgentIds` |
| wire formats (`aex-core/wire.rs`, `wire_v2.rs`) | none | canonical bytes of twelve messages | `WireFormats` |
| A2A bridge (`aex-a2a-bridge`) | none | `a2a_task_to_aex_intent` | `PeerCalls` |
| api keys and admin, inbox, agent card, v2 routes, billing, CLI, conformance, configuration, metrics, errors | see `PROJECT.json` | single statements, read-only queries, stubs, rendering | not modelled |

How the parts interact:

- Every route of the control plane is an asynchronous handler under one 60 s
  `TimeoutLayer`. Handlers share the database, the blob store and the audit log,
  and are suspended at each call of one. The timeout, or a client that hangs up,
  drops a handler's future at such a point; what it wrote before stays.
- Signed requests are verified with `verify_with_valid_keys` against the key
  ledger. Nonces in the database are to make intents, registrations and rotations
  single-use; a recipient's receipt has a time but no nonce that is recorded.
- A ticket is signed by the control plane and checked by the data plane, which
  shares nothing with it but the public key: the ticket's expiry, url and nonce
  are all it can check.
- Audit appends go through one async mutex; the Rekor loop reads the log beside
  them.
- Peers resolve agent ids through the resolver chain, and believe each other
  through `verify_peer` over the canonical bytes of a message.
- The data-plane process owns a cloudflared child and tells its parent on stdout
  when it can be reached; other senders hold several tunnels in an orchestrator.
- create requests and the health monitor share the validator's permits.

What is hard, and what correctness means:

- **transfers**: requests on one transfer interleave between reading a row and
  writing it, and are cut between two stores. Correct: one transfer per signed
  intent; bytes only for what the policy allowed; a row that promises bytes has
  them; states only move forward; one delivery receipt; no bytes left behind.
- **keys**: rotations race each other and the requests signed with the key they
  replace. Correct: exactly one current key, replaced only with its own
  signature; no lockout; no superseded key beyond its grace.
- **data plane**: two requests with one ticket; a blob replaced while it is
  scanned or sent; restarts that forget the used nonces.
- **audit log**: appends dropped at an await, torn writes, crashes, readers that
  take the mutex late. Correct: a chain; receipts for one event each, whose bytes
  are on disk; sound verification. (Whether its line can still be read is another
  matter, see the known deviations.)
- **health monitor**: ticks that fail or die half way, saturating counters, a stop
  in the middle of a tick. Correct: a status that is what the last probes say.
- **resolver chain**: leaders and waiters on a multi-threaded runtime, dropped
  leaders, eviction, invalidation. Correct: one fetch at a time, every waiter
  answered, no return to an older record.
- **tunnels**: a start fails half way, is dropped, or finds what an earlier one
  left; some waits have no limit. Correct: nothing runs that no handle reaches, a
  stop leaves nothing, no url of an earlier start is advertised, and a call that
  does not return hangs in one of those waits.
- **start-up of the data plane**: failures and signals at any point, probes whose
  client follows a portal's redirects. Correct: no announcement without a server,
  no portal hidden by the other probes, an end.
- **outbound calls**: lost answers, zero limits, queues, records that change
  between check and use, redirects. Correct: bounded time and repetition; no card
  fetched from an internal address, and no webhook call to one but by the
  operator's leave, a changed record or a redirect; nothing accepted that its
  peer's key has not signed as it stands.

`PROJECT.json` lists the individual hazards with the line each one bites at.

## Modules

Common conventions. A handler is a program counter `pc[r]` and a record
`ctx[r]` of its local variables; each database statement or transaction, blob
call, audit append or critical section is one action, and everything the code
does between two of them belongs to the action before or after. A request that
fails a check before it has changed anything has no action, since it leaves the
state as it was. Variables marked *history* record what happened so that a
property can speak about it; guards use them only to keep minted ids distinct
and the number of process starts bounded. Definitions
marked *faulty variant* are plausible defects of the operation defined after
them; no specification uses them, and each one breaks a property (`mutants` in
`PROJECT.json`).

**`Transfers`** has the three paths of `create_transfer` (blob; `tunnel_url`;
`reachable_at[]`), `download_transfer`, `ack_transfer` and `issue_ticket`.
`StartCreate` stands for the checks up to the nonce; then, on the blob path,
`ConsumeNonce`, `AuditInitiated`, `PrePolicy`, `Scan`, `PostPolicy`, `PutBlob`,
`InsertReady`, or `PersistRejected` and `AuditRejected`. The data-plane paths
call `ConsumeNonceUnchecked`, which has the code's swapped arguments and its
discarded result, and go straight to the insert. `Cut` ends a request at any
suspension point. `Scan` may return any verdict: the scanners' byte patterns are
data. `ProbeOutcomes` is the outcome of `validate_all`: any subset of the probed
endpoints answers, iroh endpoints are taken unprobed, unknown kinds dropped.

**`Policy`** is `TierPolicy::evaluate` as operators, rules in the code's order;
`Transfers` calls it through `Denied` with no verdict and with the scan's.

**`TransferLifecycle`** is the abstract specification: what the control plane
promises about the state column, the bytes handed out and the delivery
receipts. `Transfers!ImplementsLifecycle` maps its variables to the table, to
the bytes sent and to the audit log.

**`AgentKeys`** has one discrete clock in units of which the grace window
(24 h), the clock skew and the request timeout are multiples. Keys and their hex
spellings are distinct, because the code compares spellings where the database
constrains them. A rotation is its nonce and then the transaction of
`insert_rotation` with its unique-index outcomes. A signed action reads the
clock and checks the skew (`CheckSkew`), reads the clock again for the key lookup
(`ReadClock`), which in `create_transfer` is after the endpoint probes, and looks
the valid keys up in a third step (`Verify`); all within the request timeout.

**`DataPlane`** has the process lives (`Start`, `Advertise`, `Stop`), the admin
push, and `serve` in its six steps: ticket, metadata, cache, read for the scan,
write of the verdict, second read and send. Tickets come from `IssueTicket`, the
control plane's side.

**`Scanner`** has the four scanners and the aggregation as operators over a
payload reduced to what they can tell of it: size, announced format, declared
MIME type, EICAR, injection. `DataPlane` calls `Scan` and `IsBlocking`; its
properties compare them with a direct definition of a blocking content.

**`DataPlaneBoot`** is one life of the process: `FromEnv`, `Bind`,
`ResolvePublicUrl`, `LoadBlobSource`, `SpawnServer`, `VerifyAttempt`, the three
lines on stdout and `Join`. Returning drops the guard and kills the child. The
server task installs its signal handlers when it is first polled, so a signal
before that ends the process and drops nothing, so that cloudflared goes on
running. Beside main run the three captive-portal probes, whose classification
and consensus are operators. The client they are given follows redirects
(`Followed`): the classifiers see the page a portal's redirect led to, and a 3xx
only when it names no usable target.

**`AuditLog`** models tokio's `File` from how `append` uses it: `write_all` hands
the line to a blocking thread and returns, `flush` waits. `Open` replays the
file and refuses a broken one. A hash is the append that produced it. The file is
the sequence of writes: a write that fails or is interrupted leaves a prefix of
its record, or all of it but the newline (`Cuts`), and since the file is opened
for appending the next record continues that line. `Replays` reads lines, not
writes: a record without its newline is read at the end of the file, and glued to
the next one it is not.

**`ResolverChain`** has one action per critical section of the cache and of the
in-flight map. tokio's `Notify` is modelled from its contract: `notify_waiters`
wakes the `Notified` futures that exist and keeps nothing for later ones. A
record is its version; the TTL is a flag that `Expire` clears in the order of the
insertion instants. The instant of an entry is read before the cache is locked,
so `WithEntry` may place it before entries stored since.

**`Reachability`** is the health monitor: `Load` (the oldest `Limit` transfers
that wait for pickup), `Probe` (one endpoint), `Persist` (one transfer's list,
whatever has become of the transfer), `StatementFails`, and the select between
the interval (`Wake`) and the shutdown signal (`Return`). `OnProbeSuccess` and
`OnProbeFailure` are the debounce of `EndpointHealth` with its saturating
counters; the reference it is compared with is `recent`, the streak of equal
outcomes written last. Transfers enter with the endpoints that passed the
admission probe (`Admitted`: any sublist, in order, that keeps the iroh ones) and
with whatever health their sender wrote beside them, which `create_transfer`
stores as it is. `created` is the column the page of a tick is ordered by.

**`Tunnels`** is the orchestrator with one provider of each kind. For each provider
`held` is its handle and `alive` is whether the process, funnel rule or endpoint
exists. Every await of a start or a stop is a step: `BeginStart`,
`TailscaleCommandEnds`, `IrohBound`, `BecomeReady`, `TimeOut`, `GiveUp` (the
`funnel off` or the close after a timeout), and `StopBegins` and `StopEnds` around
the same waits of a stop. `Die` ends what runs without telling anyone,
`DropStart` drops `start_all` at an await and `DropAll` the orchestrator, which
ends the children but neither tailscaled's rules nor the iroh endpoints, of which
the detached accept loop holds a clone.
`Endpoints` is `endpoints()` without an algorithm for its sort: the n-th endpoint
is the started outcome that has n - 1 before it by priority and index.

**`Outbound`** composes three modules over the clock of `Workload`.
`OutboundCalls` has the sinks of a deferred decision and `retry_with_backoff`:
the webhook's host check (`SubmitWebhook`, `HostChecked`, however long the lookup
between them takes), attempts, timeouts, pauses with jitter, requests that are
processed though their answer is lost, a host whose record changes, and one that
redirects (`Redirected`): its client goes on with the same POST after 307 and 308
and with a GET after 301, 302 and 303, and asks any address it is sent to. `EndpointValidator` has
`validate_all` with its FIFO semaphore and the budget that is read before the
permit is awaited. `PeerCalls` has `verify_peer` of the four providers, for
did:web in four steps (lookup, connection, card, decision) around which cards,
records and other calls change, and the bridge. It uses `WireFormats`, `AgentIds`, `Jws`
and `SafeHttp`, in which a text is a sequence of pieces with separators and line
feeds as pieces of their own, a token is what its segments decode to, and an
address is the range it lies in. `WireFormats!Message` is every message of the
seven kinds, in both versions, whatever its fields hold; `Claimed` is the peer a
message is verified for: the agent a registration names, `ControlPlane` for a
ticket, otherwise the sender the message itself names. Time does not pass an instant at which a timer
is due, and the calls of a behaviour are one of `Loads`, so that unrelated calls
are not interleaved for nothing.

`MC*` modules give the constants small values.

## Runs

| run | states | shows |
|---|---|---|
| `transfers` | 148,996 | table, blobs, tickets and audit events agree, policy before storage, one blob transfer per intent, the refinement of `TransferLifecycle`; under fairness, minted ids get a row and delivered bytes are freed, unless the request is cut |
| `transfers_replay` | **violated** | `IntentOnce`: on a data-plane path one signed intent yields two transfers |
| `agent_keys` | 1,300,753 | one current key, no lockout, the grace window, rotation only by the current key |
| `data_plane` | 1,933,525 | single use of tickets within a life; unreplaced blobs leave as scanned, and the cache says of them what the scanners would |
| `audit_log` | 2,511,047 | a receipt stands for one event whose bytes are on disk; a chain that anchors cover; sound verification |
| `resolver` | 871,038 | single flight, slots always released, no return to an older record |
| `resolver_wakeup` | **violated** | `WaitersAnswered`: a leader that notifies too early leaves a waiter waiting for ever |
| `reachability` | 207,194 | the status of an endpoint is what its last probes say, across failed ticks and restarts; a dead endpoint is noticed; a graceful stop ends |
| `tunnels` | 502,967 | what runs is owned, a stop leaves nothing, endpoints are those of the last start, calls return or hang in a wait without a limit |
| `data_plane_boot` | 793,865 | READY only with a server, no portal hidden by the other probes, a stopped server ends the process |
| `outbound` | 472,163 | bounded calls and probes, how an internal address can be reached, what is accepted was signed as it stands, hops signed by their senders |
| `validator_budget` | **violated** | `WithinBudget`: behind another batch, a batch takes longer than its 15 s |

The three violated runs are disagreements between the code and what its comments
or documents say; `findings` in `PROJECT.json` quotes both sides.

Where a property has an exception, the exception is the smallest the code
supports and is itself part of the result: `BlobAccounted` and the two liveness
properties excuse transfers on which a request was cut; `ReuseNeedsRestart` says
that only a restart under an unchanged url lets a ticket work twice;
`SentAsScanned` and `CacheMatchesBlob` excuse replaced blobs; `ChainIntact`
excuses dropped appends and writes that were cut off, and `ReceiptRecorded` asks
for the bytes of the event, not for a line that replays; `SlotOwned` excuses a
dropped leader, whose slot in fact stays; `RunningIsOwned` and
`StopLeavesNothing` excuse a funnel rule whose removal failed or whose command
was cut, the first also what survives a dropped orchestrator, the second a funnel
whose binary is gone; `CallsReturn` lets a call hang for ever in a wait the code
sets no limit to; `PortalNotMissed` is about what the classifiers can tell once
redirects were followed; `CallsAreBounded` counts from the first attempt, since
the host check has no limit, and lets a redirected call be accepted unprocessed;
`StaysOutside` has no exception for card fetches, and for webhooks the operator's
leave, a record that changes after the check, and a redirect.

The endpoint probes of the validator go to the urls a sender gives and check no
address; no property speaks of where they go.

### Known deviations

Behaviour met while modelling that a reader of the code should know of. The
first three are runs. The next three break a promise of a comment as well, and
the models have the behaviour; the properties are stated so that they hold of it,
with the exception named. The others show in the exceptions above or in the
models' comments.

- `transfers_replay` (`routes/transfers.rs:223`): swapped arguments and a
  discarded result let one intent be submitted twice on the data-plane paths.
- `resolver_wakeup` (`resolver_chain.rs:201`): a lost wake-up.
- `validator_budget` (`endpoint_validator.rs:134`): the remaining budget is read
  before the permit is awaited. `OverrunBounded` says how late a probe can be:
  one round of the probe timeout for each full set of permits before it, and its
  own. ADR-0014 and the module's own comment promise 15 s for the whole array.
- A record cut off before its newline, by a full disk or a crash, has the next one
  written behind it on its line (`file_log.rs:121`); that one gets a receipt, and
  no later start can replay the file. `aex-audit/src/lib.rs:52-53` calls the
  receipt "proof the event is recorded"; `ReceiptRecorded` asks for the bytes only.
- The captive-portal probes' client follows redirects (`aex-data-plane/src/main.rs:559`,
  `aex-net/src/http.rs:36`), the classifiers are written for one that does not, and
  their tests build such a one (`captive.rs:395`). `captive.rs:39-40` has
  `CaptivePortal` mean that "at least one probe saw a redirect or a login-page
  body". A portal that redirects to its page is still found by the two probes
  that read the body; one that only the Google probe meets, or whose redirect
  leads back or nowhere, is not.
- The webhook client follows redirects too (`webhook.rs:112`), and takes the answer
  to the GET that 301 and 302 turn its POST into for the decider's
  (`webhook.rs:165`). `sink/mod.rs:140-142` says "On success the sink has accepted
  responsibility for producing a response".
- `GET /v1/agents/:agent_id` (`routes/agents.rs:202`) answers with the key of the
  agents table, which a rotation does not update; after the grace window it is a
  key that verifies nothing.
- `serve` (`server.rs:143`) reads the blob again after the scan, and
  `admin_insert_blob` (`main.rs:358`) leaves the scan cache alone: a blob replaced
  under its id is sent under the old verdict.
- An audit append dropped at its flush (`file_log.rs:122`) leaves a line the
  in-memory head does not know; the next one forks the chain, and the file is
  refused at the next start.
- A quick tunnel that times out keeps its child until `stop`, and a `start_all`
  after that reports it as already running. The tailscale commands, iroh's bind and
  close, and the blocking lookup of a binary have no timeout.
- An `IrohTunnel` that is dropped without `stop` goes on accepting and proxying.
- A signal that comes before the server task was polled ends the data plane
  without dropping anything, and leaves cloudflared running.
- The `did:web` card's `agent_id` is compared with its own `kid`, not with the id
  that was asked for, so ids with one host share a card; its key is kept for the
  life of the provider.
- The bridge compares neither `hop.to` with the next `hop.from` nor a token's
  payload with its hop.
- A webhook's host is checked once per call, and resolved again by every attempt;
  a redirect's target is not checked. The check looks the host up on the async
  thread, without a timeout.
- `did:web:a@b` is fetched from b: what stands before an `@` becomes user
  information of the url (`did_web.rs:109`).

### Bounds

- `transfers`: three requests on two ids, an intent the dev tier allows and one it
  denies before the scan, one https and one iroh endpoint. Every pair of handlers
  can meet on one transfer after a third has created it, the same intent can be
  submitted twice on any pair of paths, and the verdict after the scan can be any
  of the scanner's results. There is no symmetry, as the run checks liveness too.
- `agent_keys`: four requests, two agent ids that could claim one key, two keys
  and a second spelling of the first, grace 4, skew 1, timeout 1, times up to 5.
  Two rotations and a signed request on either side of a window's end fit.
- `data_plane`: two requests, two tickets, two lives, a preloaded blob and a
  pushed one, two urls; a content of exactly the size limit that one scanner
  finds suspicious, and one that two scanners object to, the malicious verdict
  not being the last.
- `audit_log`: four appends and three lives. Forking the chain takes two appends
  and noticing it a third; the fourth covers appends after a restart.
- `resolver`: three calls, two resolvable handles and one without a resolver, a
  cache of one entry, records that change twice.
- `reachability`: the real thresholds (3 failures, 2 successes), two transfers in
  one tick, one probed endpoint and one of kind iroh submitted with counters at
  255. Failing statements, crashes and restarts are not bounded at all.
  `DownIsNoticed` is stated for the `Limit` oldest transfers, because for the
  others it is false: nothing expires a transfer that is never picked up.
- `tunnels`: one provider of each kind, two pairs with equal priorities, two
  calls of `start_all`: the second meets whatever the first left behind.
- `data_plane_boot`: an environment for each way the options can be refused, and
  the two that can succeed; two rounds of the readiness check. One signal.
- `outbound`: a webhook with two attempts and one configured with none, two
  attempts with jitter for the retry; two batches behind one permit, so that one
  waits for the other; three changes around the verifier, enough for a card, a
  signature and a change of card or record during a fetch. Messages include pairs
  that would read alike if a field could hold a line feed, ids include one with an
  `@`, chains include a cycle and one that is too deep. `validator_budget` has a
  batch of one endpoint behind one of three.

Symmetry is declared only for sets whose members the instance does not tell
apart, and not in a run that checks a liveness property. Deadlock is not
checked: requests are handled once, and when all have ended the system may stop.

### Fairness

`Transfers!Fairness` and `ResolverChain!Fairness` are weak fairness of each
started handler's own steps: the tokio runtime polls every task that can make
progress, and database, blob, audit and http calls return, if only with an error
or at a timeout. `Reachability!Fairness` is the same for the monitor's task;
`DownIsNoticed` says in its own premise that statements eventually succeed and
that the process stays up. `Tunnels!FairSpec` has the loop polled, a wait for
readiness end at its timeout, and a killed child reaped; nothing is assumed of
the waits that have no limit (the tailscale commands, iroh's bind and close, the
lookup of a binary) nor of a tunnel coming up. `DataPlaneBoot!BootSpec` is weak
fairness of main once it has spawned its server, where its waits before the join
are all under timeouts, of the first poll of the server task and of the probes'
timeouts; that clients let go of a draining
server is not assumed, and `StopIsFollowed` starts where it has stopped. No client is obliged to send, retry or acknowledge anything, no
fairness is assumed of `Cut`, `Drop`, `Crash`, of the environment's `Publish`,
`Expire`, `Invalidate` or `Toggle`.

## Proofs

The theorems hold for every set of requests, ids, agents, keys, handles and
endpoints, every list of transports, and every value of the bounds that the runs
fix. They are about the safety part of a component's specification: `Spec`, or
`SafetySpec` in `Transfers`, `ResolverChain` and `Reachability` and `BootSafety`
in `DataPlaneBoot`.

| module | theorem | says |
|---|---|---|
| `TransfersProofs` | `TypeCorrect` | `TypeOK` |
| | `IntentYieldsOneBlobTransfer` | `BlobIntentOnce`: one blob transfer per signed intent |
| | `PickupsHaveBlobs` | `PickupHasBlob`: a row that promises bytes has them |
| | `StoredOnlyIfAllowed` | `AllowedBeforeStored`: on the blob path, bytes stored or released only for what was scanned and allowed |
| | `AuditIsTruthful` | `AuditTruthful`: an event reports what the transfer went through |
| | `BytesAccounted` | `BlobAccounted`: stored bytes are promised, in hand, or left by a cut request |
| | `TicketsAreBacked` | `TicketsBacked`: a ticket names an endpoint of its row that answered |
| | `HandlersImplementLifecycle` | `SafetySpec => TransferLifecycle!Spec` under the refinement mapping |
| `AgentKeysProofs` | `TypeCorrect` | `TypeOK` |
| | `CurrentKeyUnique` | `OneCurrentKey` |
| | `FreshSignaturesVerify` | `NoLockout`: a rotation locks no fresh request out |
| | `RetiredKeysExpire` | `GraceEnforced` |
| | `OnlyTheCurrentKeyRotates` | `RotatedByCurrent`, an action property |
| `ResolverChainProofs` | `TypeCorrect` | `TypeOK`, one cache entry per handle included |
| | `OneFetchPerHandle` | `SingleFlight` |
| | `SlotsHaveOwners` | `SlotOwned` |
| | `RecordsNeverGoBack` | `NeverBackwards`: no answer older than an earlier one |
| `DataPlaneProofs` | `TypeCorrect` | `TypeOK` |
| | `TicketsSpentOncePerLife` | `ReuseNeedsRestart` |
| | `OnlyScannedBytesLeave` | `SentAsScanned` |
| | `VerdictsMatchBlobs` | `CacheMatchesBlob` |
| | `BootTypeCorrect` | `BootTypeOK` of `DataPlaneBoot` |
| | `ReadyMeansServed` | `ReadyIsServed` |
| | `PortalsAreReported` | `PortalNotMissed`: what the classifiers can tell after redirects |
| `AuditLogProofs` | `TypeCorrect` | `TypeOK`, the mutex's owner included |
| | `ReceiptsAreBacked` | `ReceiptRecorded`: the event's bytes are on disk, one event per position |
| | `ChainStaysIntact` | `ChainIntact` |
| | `VerifyIsSound` | `VerifySound`, an action property |
| `TunnelsProofs` | `TypeCorrect` | `TypeOK` |
| | `NothingRunsUnowned` | `RunningIsOwned`, with the exceptions above |
| | `StopAllLeavesNothing` | `StopLeavesNothing` |
| | `AdvertisedIsCurrent` | `EndpointsCurrent`: no url of an earlier start, in the order of `endpoints()` |
| `ReachabilityProofs` | `MonitorTypeCorrect` | `TypeOK`, the bounds of the counters included |
| | `StatusIsDebounced` | `StatusFollowsProbes` |
| | `FlipsAreEarned` | `NoSpuriousFlip`, an action property |
| `OutboundProofs` | `CallsEnd` | `CallsAreBounded`: for every policy, in time and in repetitions, from the first attempt on |
| | `ProbesAreOverInTime` | `OverrunBounded`: for any number of batches, probes and permits |
| | `RequestsStayOutside` | `StaysOutside`: card fetches never, webhooks only in the three ways above |
| | `CanonicalBytesAreInjective` | two messages with the same canonical bytes are one message |
| | `AcceptedMessagesWereSigned` | `AcceptedWasSigned` |
| | `BridgedHopsWereSigned` | `HopsWereSigned` |

Assumptions are the ones each module states beside its constants, and TLC
evaluates them on every run. These carry weight:

- `Transfers` has nonces (hex) distinct from agent ids, which share a column
  because of the swapped arguments.
- `AgentKeys!TimesAssumption` has `Skew + 2 * Timeout < Grace`, 300 s and 60 s
  against 24 h in the code: `NoLockout` depends on it. The handler's time counts
  twice, because a signed action reads its clock a second time up to a timeout
  after the skew check, and a rotation commits up to a timeout after it read the
  clock that its window starts from.
- `WireFormats!NonceAssumption`: a hexadecimal digit is not a line break. The
  injectivity of the canonical bytes depends on it, and on nothing else.
- `AgentIds!KeysAssumption`: a key that is missing is told from every key.
- `PeerCalls!PeersAssumption` and `ClaimsAssumption` say that the sets that bound
  an instance belong together: its messages are messages, the peers they are
  verified for are among `Peers`, their did:web hosts among `Hosts`.
- `OutboundCalls!PowerAssumption` is not about a constant: it is what the proof of
  `CallsAreBounded` uses of powers of two (each doubles the one before, larger
  exponents give larger powers), which takes induction that the provers at hand
  do not do. TLC evaluates it up to the instance's number of attempts.

The rest are typing (a known tier, registrations made of agents and keys, a
nonempty list of transports of known kinds, thresholds that fit in a byte, at
least one permit, a positive cache capacity), finiteness of the transfers in the
table and of the batches under way, and `Null` outside the data.

An invariant that TLC can evaluate was tried on the instance of its run before
it was proved.

### Transfers

1. Types alone are not inductive, because a handler reads local variables that
   an earlier step set. `ContextOK` says which are set at which location;
   `TypeOK /\ ContextOK` is inductive (lemma `Typing`).
2. For `BlobIntentOnce`, `NonceRecorded` is added: the nonce of a blob transfer
   is in the table. A step that mints for the blob path finds the nonce absent
   (`MintStep`), so no earlier blob transfer had it. The data-plane paths only
   add rows to the nonce table, so they cannot disturb it.
3. `Safe` is the invariant for the stores. Per handler (`RequestSafe`): the id a
   create request owns has no row and its bytes are stored exactly between put
   and insert; what is about to be stored was allowed with its verdict; what a
   download or an ack has established about its row still holds. Across
   handlers, `OwnedAlone`: no two create requests own one id. Over the stores
   (`StoresSafe`): unminted ids are untouched, a row that promises bytes was
   cleared by the policy, blobs belong to such rows, released bytes come from
   accepted or delivered ones. Each action has a lemma for the way it touches the
   stores (`MintSafe`, `InsertSafe`, `ForwardSafe`, `PutBlobSafe`,
   `DeleteBlobSafe`, `AuditAcceptedSafe`; the others are `Quiet`).
4. The refinement adds `OneReceipt`: at most one request is between the update
   that delivers a transfer and its audit event. It holds because
   `mark_delivered` updates only rows that are not delivered yet. Steps then
   split into those that touch nothing the lifecycle sees and five that are each
   one of its steps (`InsertRefines`, `MarkAcceptedRefines`,
   `AuditAcceptedRefines`, `MarkDeliveredRefines`, `AuditDeliveredRefines`).

5. `AuditTruthful` adds `RejectionWritten`: a handler on its way to the rejection
   event has inserted the rejected row. Rows only move forward (`RowStep`), so an
   outcome that holds when the update is made still holds when the event is
   written.
6. `BlobAccounted` is inductive relative to `Safe`. A step of one handler can
   only add to the store what it then holds itself; another handler's blob stays
   accounted for because the row that accounts for it goes forward, to
   `delivered` only with a handler that is to delete it, or through a cut, which
   the model records.
7. `TicketsBacked` rests on `AddressInv`: the addresses a create request has
   validated, the ones its row has, and the url a ticket request has chosen
   agree. A row's addresses never change once it is inserted (`UrlKept`).

`Transfers!IInv` is the conjunction of the parts up to the refinement; TLC
confirms it on the instance of the `transfers` run.

### AgentKeys

`IInv` is `TablesOK` (types, `OneCurrentKey`, and `RowsOK`: the rows of the
ledger and the history of retirements agree) and `RequestOK` of each request.
`NoLockout` and `GraceEnforced` speak of one request at the moment it looks up
its keys, and the ledger may change between its readings; what must survive is
that a fresh request has a row that verifies it at whatever time, within the skew
and the handler's own time, it is looked up for (`FreshBacked`), and that a key it has accepted was in its grace period at the
clock it read (`InGrace`). `WindowsKept` is what the two transactions, register
and rotate, owe the requests in flight: a row is closed one grace period ahead,
never at once.

### ResolverChain

`LeadersHoldSlots`: a call that fetches is the one its handle's slot names;
`SingleFlight` follows since a slot names one. `NeverBackwards` needs the order
`answered <= cached <= published` for each handle (`Ordered`); that what a leader
is about to store is no older than what is cached or was returned, and what it
has stored and not returned yet no newer than what is cached (`CallOK`); and
`StoredInOrder`, which relates the two when one leader has given up the slot,
not returned yet, and the next one is about to store. An eviction, an expiry or
an invalidation only removes entries, and a fetch then reads what is published.

### DataPlane

`TicketInv`: a ticket's nonce is consumed before the request that presents it
goes on, so within one life of the process one request at most is past it, and
what was sent before was sent in an earlier life. `ScanInv`: unless the blob was
replaced, the bytes, the cached verdict and the verdict a request carries are of
one blob. It uses that the pipeline's verdict does not depend on the declared
type (`ScanIgnoresMime`), because only the size limit and the EICAR scanner can
block and no merge of verdicts hides or adds up to a malicious one
(`ScanBlocks`).

### DataPlaneBoot

`ReadyIsServed` needs `ServedInv`: which locations of main come
before the spawn of the server and which after it, and that a server past its
spawn stops only after a signal. `PortalNotMissed` is about a line that stays on
stdout while the probes' answers stay too: once the line is written no probe is
pending, and the consensus of the three answers, redirects followed, is what it
says (`ConsensusAnswers`).

### AuditLog

`TypeOK /\ Alive` comes first: what is in memory belongs to the running
process. `ReceiptInv`: memory never counts a line that is not in the file, an
append at its flush has its record on disk whole, and receipts are below the
length; a position is thus acknowledged once, even when a dropped append has left
an orphan line or a cut write a fragment. Nothing is said of the record before
it, which is what may spoil the line. `ChainInv`: as long as nothing was dropped
or cut, the file replays and memory
is at its end, or exactly one line behind it during a flush; what the anchoring
loop read as head is still counted by the length it reads later. `Replayed`
gives `VerifySound`: the file only grows (`Kept`), so what `verify_chain` read
is a prefix of what is there when it compares with memory; a fragment stays one
(`TornStays`).

### Tunnels

`ProviderOK(p)`: what is alive is held by p, has escaped, is an iroh endpoint in
the hands of the start or stop under way (`Binding`), or survives the drop of the
orchestrator (`Abandoned`); `StartOK` says which waits a start
can be in with which handle; and every provider that `stop_all` has passed is
left clean (`StopPassed(p) => Left(p)`), which makes `StopLeavesNothing`
inductive while the loop runs. A step of one provider leaves the others alone
(`OnlyAt`), so each lemma looks at one.

`ReportsInv` is for `EndpointsCurrent`: except while it stops, the orchestrator has
the outcomes of the providers it has passed, the i-th of provider i, and a started
one tells the url and status that provider still has. A step changes the url and
status of the provider the loop is at (`Elsewhere`), whose outcome is not there
yet. The sort needs one fact about counting: the positions 1 + (how many come
before) are distinct, as the order is total, so each of 1 .. n is somebody's
(`PositionsTaken`, by comparing cardinalities).

### Reachability

`MonitorInv`. The health beside an endpoint is tied to the streak of equal
outcomes written last (`Follows`): under a streak of failures a healthy endpoint
has counted all of them and fewer than `FailThreshold`, and the same with
successes. That gives `StatusFollowsProbes` whatever counters the sender
submitted. `NoSpuriousFlip` needs the converse, for endpoints submitted without
any: a counter counts nothing but the streak (`CountsStreak`). Because the
monitor works on a copy, `RowsCurrent` says that the copy is still what the table
holds, since nobody else writes the column of an admitted transfer, and `Folded`
that what it will write is that copy folded with the outcomes of this tick; a
failed statement or a crash throws both away together.

### Outbound

Five invariants, one per question; they share only the clock.

- `CallsInv`: a call at its n-th attempt ends no later than n timeouts and the
  sleeps before it after its first attempt left (`Spent`). It has been processed
  fewer than n times while that attempt is still a POST, and at most n times once
  a redirect made it a GET, so that no answer takes the count past the limit
  (`OnItsWay`). The sleeps add up by `UnitsGrow`, for the webhook's shift that
  stops at five, and by the doubling of the retry policy.
- `QueueInv` is for `OverrunBounded`, where the bound is on the time a probe waits
  and what can be kept is about the queue. For a probe that still waits, with k
  probes before it when it arrived, `Served` says: for each round j of the probe
  timeout that has begun since, j full sets of permits and the probes that still
  delay it beyond that round's start add up to at most k. A grant, an answer or a
  dropped batch only takes away from those that delay it, and a new batch joins
  behind. When time passes while somebody waits, every permit is held by a probe
  that is over within one timeout, so that a round that begins has used up a
  further set. Hence a probe waits for at most k \div Permits rounds, and its own
  is one more (`WaitEnds`).
- `PostsInv` and `FetchInv` are for `StaysOutside`. A webhook under way has passed
  its check, and the record has not changed or the change is on record, as is every
  redirect; a fetch
  about to connect has pinned an address out of an answer that was allowed as a
  whole, so later answers do not matter.
- `PeersInv` is for `AcceptedWasSigned` and `HopsWereSigned`: every key that is
  held speaks for its peer, every card that can be fetched was served by its
  host, a fetch under way is for a did:web peer and its body came from that host,
  and what is signed is a message whose bytes the wire functions let through.
  Keys, cards and signatures only accumulate in the histories (`Growing`), so a
  fetch that overlaps a change keeps what it rests on.
- Verification compares bytes, and the theorem is about messages. `Peel` and
  `LinesAgree` take two texts apart line by line: a line's value holds no line
  feed, because every field was checked or is a number, so the first line feed of
  two equal texts is in one place, and what follows it is equal again. The title
  line tells the kind and version (`TitlesDiffer`), the number of lines is that
  of the kind, and for each of the seven kinds the lines give back the fields
  (`RegistrationReads` and its like). Without the check of one optional field the
  run `outbound` finds two messages that share their bytes.

### Only model-checked

- Liveness (`MintedIsResolved`, `DeliveredIsFreed`, `DownIsNoticed`,
  `StopIsReached`, `CallsReturn`, `StopIsFollowed`): the prover does not treat
  fairness.
- The three runs that expect a violation.

## Not modelled, and abstractions to keep in mind

- Cryptography: a signature verifies or it does not, hashes do not collide, and
  random ids and nonces are distinct where the code draws them at random.
- One clock in `AgentKeys`. The first ledger row takes its start from the
  database's clock; a database ahead of the application refuses a fresh agent
  until they meet.
- Byte patterns of the scanners, base58 and base64, JSON: data. What the code
  decides by them is in `Scanner`, `AgentIds` and `Jws`.
- `get_transfer`, inbox, agent card, health endpoints: they change nothing.
- API keys: create, list and revoke are single statements behind a shared token,
  and nothing authenticates with a key yet.
- `/v2/intents` answers 501; the skew window of wire v2 has no caller.
- Of the tunnels: `is_alive` (not part of the trait the orchestrator uses), the
  streams an iroh endpoint proxies, and a dropped `stop_all`, after which the
  outcomes name providers that have stopped.
- Of the data plane's exit: that a returning main kills its child is tokio's
  `kill_on_drop`, taken as it is.
- Redirects of the tunnels' and the validator's `/healthz` probes: what answers
  2xx is healthy, whichever host it is.
- DNS and TLS: a host answers for its own name, and an address is its range.

## Order of work

The models came first, the most shared state first: transfers and their
lifecycle, keys, data plane, audit log, resolver chain, health monitor; then
tunnels, start-up, and what goes out. Proofs followed in the same order, and every
invariant and action property that a run checks is now a theorem. What would
extend the project is more of the system rather than more about these models: the
api keys once something authenticates with one, the v2 routes once they do more
than answer 501, and the streams of the iroh endpoint.

## Running

    tlc -config MCTransfers.cfg MCTransfers
    tlapm TransfersProofs.tla

Each run of `PROJECT.json` names its module and configuration. Proofs are checked
module by module; each proof module extends the modules it is about and no other
proof module (`DataPlaneProofs` is about `DataPlane` and `DataPlaneBoot`,
`OutboundProofs` about `Outbound` and all it composes).
