------------------------------ MODULE Transfers ------------------------------
(***************************************************************************)
(* The transfer endpoints of the control plane (routes/transfers.rs) over  *)
(* the state they share: the transfers and nonce tables (db/transfers.rs), *)
(* the blob store (blob.rs) and the audit log.  A request is an            *)
(* asynchronous task that is suspended at every database, blob and audit   *)
(* call, so each such call is one action and the requests interleave       *)
(* between them.  A request may be cut at any of these points: the 60 s    *)
(* TimeoutLayer and a client that hangs up drop the handler's future, a    *)
(* storage error returns early, and a crash drops all of them.             *)
(*                                                                         *)
(* A request that fails a check before it has changed anything has no      *)
(* action: it leaves the state as it is.  Read-only endpoints              *)
(* (get_transfer, inbox) have none either.                                 *)
(***************************************************************************)
EXTENDS Policy, Sequences

CONSTANTS
    Requests,       \* the requests of a behaviour, each handled once
    TransferIds,    \* random transfer_ids, each minted at most once
    Agents,         \* registered agents
    Recipients,     \* recipient addresses, agents or not
    Nonces,
    Endpoints,
    HttpsEndpoints, \* endpoints whose url starts with https://
    IrohEndpoints,  \* endpoints of kind iroh, which are not probed
    UnknownEndpoints, \* endpoints of a kind the control plane does not know
    Intents,        \* transfer intents senders may submit
    SignedIntents,  \* those whose signature verifies for their sender
    ReachableLists, \* the reachable_at[] lists senders submit
    Tier,           \* the tier the TierPolicy was built for
    TrackedEvents,  \* the kinds of audit event the instance keeps count of
    Null

\* How the bytes travel: through the control plane, or from the sender's data
\* plane at one url (tunnel_url) or at any of a list (reachable_at).
Path == {"blob", "tunnel", "reachable"}

\* The fields transfer_intent_bytes covers (filename left out: nothing reads
\* it) and the class classify_recipient gives the recipient.
Intent == [sender : Agents, recipient : Recipients, kind : RecipientKind,
           size : Nat, mime : Mime, nonce : Nonces]

ASSUME TierAssumption == Tier \in TierName
ASSUME AgentsAssumption == Agents \subseteq Recipients
ASSUME IntentsAssumption == Intents \subseteq Intent /\ SignedIntents \subseteq Intents
ASSUME TrackedAssumption == "delivered" \in TrackedEvents
ASSUME EndpointsAssumption ==
    /\ HttpsEndpoints \subseteq Endpoints
    /\ IrohEndpoints \cap UnknownEndpoints = {}
ASSUME ListsAssumption == ReachableLists \subseteq Seq(Endpoints)
ASSUME NullAssumption ==
    /\ Null \notin TransferIds \cup Recipients \cup Endpoints
    /\ Null \notin Intents
    /\ Null \notin Path
\* A nonce is hex and an agent id is not, so the two never collide in the
\* nonce column.
ASSUME NoncesAssumption == Nonces \cap Agents = {}

VARIABLES
    rows,     \* the transfers table
    nonces,   \* the primary-key column of transfer_intent_nonces
    blobs,    \* the transfers whose bytes the blob store holds
    audit,    \* audit[t][k]: events of kind k the log holds for transfer t
    tickets,  \* data-plane tickets issued
    pc,       \* where each request is
    ctx,      \* the local variables of each request
    origin,   \* history: the intent and path each id was minted for
    released, \* history: transfers whose bytes were sent in a 200 response
    cut       \* history: transfers some request on which was cut short

vars == <<rows, nonces, blobs, audit, tickets, pc, ctx, origin, released, cut>>

-----------------------------------------------------------------------------
(* State *)

\* EventKind of the audit events about a transfer.
EventKind == {"initiated", "policy_decision", "scanner_verdict", "rejected",
              "accepted", "delivered"}

TransferState ==
    {"absent", "ready_for_pickup", "accepted", "delivered", "rejected"}

\* The columns a later step reads; reachable_at as a set, since a reader
\* sorts it by priority.
TransferRow ==
    [state : TransferState, recipient : Recipients \cup {Null},
     url : HttpsEndpoints \cup {Null}, reachable : SUBSET Endpoints,
     sha : BOOLEAN, verdict : ScanResult \cup {NotScanned}]

NoRow == [state |-> "absent", recipient |-> Null, url |-> Null,
          reachable |-> {}, sha |-> FALSE, verdict |-> NotScanned]

Context ==
    [tx : TransferIds \cup {Null}, intent : Intents \cup {Null},
     path : Path \cup {Null}, url : HttpsEndpoints \cup {Null},
     reachable : SUBSET Endpoints, verdict : ScanResult \cup {NotScanned}]

NoContext == [tx |-> Null, intent |-> Null, path |-> Null, url |-> Null,
              reachable |-> {}, verdict |-> NotScanned]

NoOrigin == [intent |-> Null, path |-> Null]

Init ==
    /\ rows = [t \in TransferIds |-> NoRow]
    /\ nonces = {}
    /\ blobs = {}
    /\ audit = [t \in TransferIds |-> [k \in EventKind |-> 0]]
    /\ tickets = {}
    /\ pc = [r \in Requests |-> "new"]
    /\ ctx = [r \in Requests |-> NoContext]
    /\ origin = [t \in TransferIds |-> NoOrigin]
    /\ released = {}
    /\ cut = {}

-----------------------------------------------------------------------------
(* Helpers *)

Goto(r, from, to) ==
    /\ pc[r] = from
    /\ pc' = [pc EXCEPT ![r] = to]

\* The handler returns: its future and its local variables are gone.
Return(r) ==
    /\ pc' = [pc EXCEPT ![r] = "done"]
    /\ ctx' = [ctx EXCEPT ![r] = NoContext]

Logged(t, kind) ==
    IF kind \in TrackedEvents THEN [audit EXCEPT ![t][kind] = @ + 1] ELSE audit

\* audit_warn: an append that fails is logged and swallowed.
AuditWarn(t, kind) == audit' = Logged(t, kind) \/ audit' = audit

\* The policy's denial of an intent, before (NotScanned) or after the scan.
Denied(intent, verdict) ==
    Evaluate(TierPolicy(Tier), intent.size, intent.kind, intent.mime, verdict)
        # "allow"

\* EndpointValidator::validate_all: the sets of listed endpoints that may turn
\* out healthy.
ProbeOutcomes(list) ==
    LET listed == {list[i] : i \in DOMAIN list}
    IN  {healthy \in SUBSET listed :
            /\ listed \cap IrohEndpoints \subseteq healthy
            /\ healthy \cap UnknownEndpoints = {}}

\* Faulty variant: picks the legacy url before the failed endpoints are dropped.
LegacyTunnelUrlUnprobed(list, healthy) ==
    LET https == {i \in DOMAIN list : list[i] \in HttpsEndpoints}
    IN  IF https = {} THEN {Null} ELSE {list[i] : i \in https}

\* The backward-compatible tunnel_url: the first healthy https endpoint in
\* the order the sender listed them, if there is one.
LegacyTunnelUrl(list, healthy) ==
    LET https == {i \in DOMAIN list : list[i] \in healthy \cap HttpsEndpoints}
    IN  IF https = {} THEN {Null}
        ELSE {list[i] : i \in {j \in https : \A k \in https : j <= k}}

\* db insert
InsertTransfer(t, intent, state, url, reachable, sha, verdict) ==
    rows' = [rows EXCEPT ![t] =
                [state |-> state, recipient |-> intent.recipient, url |-> url,
                 reachable |-> reachable, sha |-> sha, verdict |-> verdict]]

Minted(t) == origin[t] # NoOrigin

Mint(t, intent, path) ==
    /\ ~Minted(t)
    /\ origin' = [origin EXCEPT ![t] = [intent |-> intent, path |-> path]]

-----------------------------------------------------------------------------
(* POST /v1/transfers: create_transfer *)

\* Everything up to the nonce: shape, skew and signature checks, and on the
\* two data-plane paths the probe of the sender's endpoints, which must find
\* one that answers; endpoints that fail it are dropped.
StartCreate(r, intent, path, url, reachable) ==
    /\ Goto(r, "new", "consume_nonce")
    /\ ctx' = [ctx EXCEPT ![r] =
                [tx |-> Null, intent |-> intent, path |-> path, url |-> url,
                 reachable |-> reachable, verdict |-> NotScanned]]
    /\ UNCHANGED <<rows, nonces, blobs, audit, tickets, origin, released, cut>>

CreateBlob(r) ==
    \E intent \in SignedIntents : StartCreate(r, intent, "blob", Null, {})

CreateTunnel(r) ==
    \E intent \in SignedIntents, url \in HttpsEndpoints :
        StartCreate(r, intent, "tunnel", url, {url})

CreateReachable(r) ==
    \E intent \in SignedIntents, list \in ReachableLists :
    \E healthy \in ProbeOutcomes(list) \ {{}} :
    \E url \in LegacyTunnelUrl(list, healthy) :
        StartCreate(r, intent, "reachable", url, healthy)

\* Faulty variant: the Boolean of consume_intent_nonce is ignored.
ConsumeNonceStale(r) ==
    /\ ctx[r].path = "blob"
    /\ Goto(r, "consume_nonce", "audit_initiated")
    /\ nonces' = nonces \cup {ctx[r].intent.nonce}
    /\ \E t \in TransferIds :
          /\ Mint(t, ctx[r].intent, "blob")
          /\ ctx' = [ctx EXCEPT ![r].tx = t]
    /\ UNCHANGED <<rows, blobs, audit, tickets, released, cut>>

\* The blob path: a nonce that is already in the table answers 409.
ConsumeNonce(r) ==
    /\ pc[r] = "consume_nonce"
    /\ ctx[r].path = "blob"
    /\ nonces' = nonces \cup {ctx[r].intent.nonce}
    /\ \/ /\ ctx[r].intent.nonce \notin nonces
          /\ \E t \in TransferIds :
                /\ Mint(t, ctx[r].intent, "blob")
                /\ ctx' = [ctx EXCEPT ![r].tx = t]
          /\ pc' = [pc EXCEPT ![r] = "audit_initiated"]
       \/ /\ ctx[r].intent.nonce \in nonces
          /\ Return(r)
          /\ UNCHANGED origin
    /\ UNCHANGED <<rows, blobs, audit, tickets, released, cut>>

\* The data-plane paths call consume_intent_nonce(pool, nonce, agent_id) with
\* the sender as the nonce, and do not look at the Boolean it returns.
ConsumeNonceUnchecked(r) ==
    /\ ctx[r].path # "blob"
    /\ Goto(r, "consume_nonce", "insert")
    /\ nonces' = nonces \cup {ctx[r].intent.sender}
    /\ \E t \in TransferIds :
          /\ Mint(t, ctx[r].intent, ctx[r].path)
          /\ ctx' = [ctx EXCEPT ![r].tx = t]
    /\ UNCHANGED <<rows, blobs, audit, tickets, released, cut>>

AuditInitiated(r) ==
    /\ Goto(r, "audit_initiated", "pre_policy")
    /\ AuditWarn(ctx[r].tx, "initiated")
    /\ UNCHANGED <<rows, nonces, blobs, tickets, ctx, origin, released, cut>>

\* Faulty variant: a pre-scan denial returns without persisting the rejection.
PrePolicyUnpersisted(r) ==
    /\ Goto(r, "pre_policy",
            IF Denied(ctx[r].intent, NotScanned) THEN "done" ELSE "scan")
    /\ AuditWarn(ctx[r].tx, "policy_decision")
    /\ UNCHANGED <<rows, nonces, blobs, tickets, ctx, origin, released, cut>>

PrePolicy(r) ==
    /\ Goto(r, "pre_policy",
            IF Denied(ctx[r].intent, NotScanned) THEN "persist_rejected" ELSE "scan")
    /\ AuditWarn(ctx[r].tx, "policy_decision")
    /\ UNCHANGED <<rows, nonces, blobs, tickets, ctx, origin, released, cut>>

\* The pipeline's verdict depends on the bytes alone: any of the four.
Scan(r) ==
    /\ Goto(r, "scan", "post_policy")
    /\ \E verdict \in ScanResult : ctx' = [ctx EXCEPT ![r].verdict = verdict]
    /\ AuditWarn(ctx[r].tx, "scanner_verdict")
    /\ UNCHANGED <<rows, nonces, blobs, tickets, origin, released, cut>>

\* Faulty variant: the post-scan call is made with the pre-scan request.
PostPolicyUnscanned(r) ==
    /\ Goto(r, "post_policy",
            IF Denied(ctx[r].intent, NotScanned) THEN "persist_rejected" ELSE "put_blob")
    /\ AuditWarn(ctx[r].tx, "policy_decision")
    /\ UNCHANGED <<rows, nonces, blobs, tickets, ctx, origin, released, cut>>

PostPolicy(r) ==
    /\ Goto(r, "post_policy",
            IF Denied(ctx[r].intent, ctx[r].verdict) THEN "persist_rejected"
                                                     ELSE "put_blob")
    /\ AuditWarn(ctx[r].tx, "policy_decision")
    /\ UNCHANGED <<rows, nonces, blobs, tickets, ctx, origin, released, cut>>

PersistRejected(r) ==
    /\ Goto(r, "persist_rejected", "audit_rejected")
    /\ InsertTransfer(ctx[r].tx, ctx[r].intent, "rejected", Null, {}, FALSE,
                      ctx[r].verdict)
    /\ UNCHANGED <<nonces, blobs, audit, tickets, ctx, origin, released, cut>>

AuditRejected(r) ==
    /\ pc[r] = "audit_rejected"
    /\ AuditWarn(ctx[r].tx, "rejected")
    /\ Return(r)
    /\ UNCHANGED <<rows, nonces, blobs, tickets, origin, released, cut>>

PutBlob(r) ==
    /\ Goto(r, "put_blob", "insert")
    /\ blobs' = blobs \cup {ctx[r].tx}
    /\ UNCHANGED <<rows, nonces, audit, tickets, ctx, origin, released, cut>>

InsertReady(r) ==
    /\ pc[r] = "insert"
    /\ InsertTransfer(ctx[r].tx, ctx[r].intent, "ready_for_pickup", ctx[r].url,
                      ctx[r].reachable, ctx[r].path = "blob", ctx[r].verdict)
    /\ Return(r)
    /\ UNCHANGED <<nonces, blobs, audit, tickets, origin, released, cut>>

-----------------------------------------------------------------------------
(* POST /v1/transfers/:id/download *)

\* verify_recipient_receipt for a row whose recipient signed the receipt.
\* Receipt nonces are not recorded, so a receipt may be sent again.
VerifiedReceipt(t) == rows[t].state # "absent" /\ rows[t].recipient \in Agents

StartOn(r, t, url, to) ==
    /\ VerifiedReceipt(t)
    /\ Goto(r, "new", to)
    /\ ctx' = [ctx EXCEPT ![r] =
                [tx |-> t, intent |-> Null, path |-> Null, url |-> url,
                 reachable |-> {}, verdict |-> NotScanned]]
    /\ UNCHANGED <<rows, nonces, blobs, audit, tickets, origin, released, cut>>

Download(r) ==
    \E t \in TransferIds :
        /\ rows[t].state \in {"ready_for_pickup", "accepted"}
        /\ StartOn(r, t, Null, "get_blob")

\* A missing blob answers 500.
GetBlob(r) ==
    /\ pc[r] = "get_blob"
    /\ \/ /\ ctx[r].tx \in blobs
          /\ pc' = [pc EXCEPT ![r] = "mark_accepted"]
          /\ UNCHANGED ctx
       \/ /\ ctx[r].tx \notin blobs
          /\ Return(r)
    /\ UNCHANGED <<rows, nonces, blobs, audit, tickets, origin, released, cut>>

\* Faulty variant: the UPDATE has no guard on the state.
MarkAcceptedUnguarded(r) ==
    /\ Goto(r, "mark_accepted", "audit_accepted")
    /\ rows' = [rows EXCEPT ![ctx[r].tx].state = "accepted"]
    /\ UNCHANGED <<nonces, blobs, audit, tickets, ctx, origin, released, cut>>

\* UPDATE ... WHERE state = 'ready_for_pickup'; the row count is not looked at.
MarkAccepted(r) ==
    LET t == ctx[r].tx IN
    /\ Goto(r, "mark_accepted", "audit_accepted")
    /\ rows' = IF rows[t].state = "ready_for_pickup"
               THEN [rows EXCEPT ![t].state = "accepted"]
               ELSE rows
    /\ UNCHANGED <<nonces, blobs, audit, tickets, ctx, origin, released, cut>>

AuditAccepted(r) ==
    /\ pc[r] = "audit_accepted"
    /\ AuditWarn(ctx[r].tx, "accepted")
    /\ released' = released \cup {ctx[r].tx}
    /\ Return(r)
    /\ UNCHANGED <<rows, nonces, blobs, tickets, origin, cut>>

-----------------------------------------------------------------------------
(* POST /v1/transfers/:id/ack *)

\* Faulty variant: the blob is freed before the row is marked delivered.
AckFreesFirst(r) == \E t \in TransferIds : StartOn(r, t, Null, "delete_blob")

Ack(r) == \E t \in TransferIds : StartOn(r, t, Null, "mark_delivered")

\* Faulty variant: the number of updated rows is not looked at.
MarkDeliveredUnchecked(r) ==
    LET t == ctx[r].tx IN
    /\ Goto(r, "mark_delivered", "audit_delivered")
    /\ rows' = IF rows[t].state \in {"accepted", "ready_for_pickup"}
               THEN [rows EXCEPT ![t].state = "delivered"] ELSE rows
    /\ UNCHANGED <<nonces, blobs, audit, tickets, ctx, origin, released, cut>>

\* UPDATE ... WHERE state IN ('accepted','ready_for_pickup'); no row: 409.
MarkDelivered(r) ==
    LET t == ctx[r].tx IN
    /\ pc[r] = "mark_delivered"
    /\ \/ /\ rows[t].state \in {"accepted", "ready_for_pickup"}
          /\ rows' = [rows EXCEPT ![t].state = "delivered"]
          /\ pc' = [pc EXCEPT ![r] = "audit_delivered"]
          /\ UNCHANGED ctx
       \/ /\ rows[t].state \notin {"accepted", "ready_for_pickup"}
          /\ Return(r)
          /\ UNCHANGED rows
    /\ UNCHANGED <<nonces, blobs, audit, tickets, origin, released, cut>>

\* Faulty variant: the handler answers without freeing the blob.
AuditDeliveredKeepsBlob(r) ==
    /\ pc[r] = "audit_delivered"
    /\ audit' = Logged(ctx[r].tx, "delivered")
    /\ Return(r)
    /\ UNCHANGED <<rows, nonces, blobs, tickets, origin, released, cut>>

\* This append is not advisory; when it fails the handler answers 500, which
\* is the request being cut here (Cut).
AuditDelivered(r) ==
    /\ Goto(r, "audit_delivered", "delete_blob")
    /\ audit' = Logged(ctx[r].tx, "delivered")
    /\ UNCHANGED <<rows, nonces, blobs, tickets, ctx, origin, released, cut>>

\* The outcome of the delete is ignored.
DeleteBlob(r) ==
    /\ pc[r] = "delete_blob"
    /\ \/ blobs' = blobs \ {ctx[r].tx} /\ UNCHANGED cut
       \/ cut' = cut \cup {ctx[r].tx} /\ UNCHANGED blobs
    /\ Return(r)
    /\ UNCHANGED <<rows, nonces, audit, tickets, origin, released>>

-----------------------------------------------------------------------------
(* POST /v1/transfers/:id/ticket: issue_ticket *)

\* Faulty variant: a transfer without a data-plane url gets a ticket too.
RequestTicketNoUrl(r) ==
    \E t \in TransferIds :
        /\ rows[t].state = "ready_for_pickup"
        /\ StartOn(r, t, rows[t].url, "insert_ticket")

RequestTicket(r) ==
    \E t \in TransferIds :
        /\ rows[t].state = "ready_for_pickup"
        /\ rows[t].url # Null
        /\ StartOn(r, t, rows[t].url, "insert_ticket")

\* The ticket's random nonce is identified with the request that asked for it.
IssueTicket(r) ==
    /\ pc[r] = "insert_ticket"
    /\ tickets' = tickets \cup {[nonce |-> r, tx |-> ctx[r].tx, url |-> ctx[r].url]}
    /\ Return(r)
    /\ UNCHANGED <<rows, nonces, blobs, audit, origin, released, cut>>

-----------------------------------------------------------------------------

\* A request is dropped at an await, or a storage call returns an error.
Cut(r) ==
    /\ pc[r] \notin {"new", "done"}
    /\ cut' = cut \cup ({ctx[r].tx} \ {Null})
    /\ Return(r)
    /\ UNCHANGED <<rows, nonces, blobs, audit, tickets, origin, released>>

Create(r) == CreateBlob(r) \/ CreateTunnel(r) \/ CreateReachable(r)

\* The steps of a handler that has started.
Step(r) ==
    \/ ConsumeNonce(r) \/ ConsumeNonceUnchecked(r)
    \/ AuditInitiated(r) \/ PrePolicy(r) \/ Scan(r) \/ PostPolicy(r)
    \/ PersistRejected(r) \/ AuditRejected(r) \/ PutBlob(r) \/ InsertReady(r)
    \/ GetBlob(r) \/ MarkAccepted(r) \/ AuditAccepted(r)
    \/ MarkDelivered(r) \/ AuditDelivered(r) \/ DeleteBlob(r)
    \/ IssueTicket(r)

Next ==
    \E r \in Requests :
        \/ Create(r) \/ Download(r) \/ Ack(r) \/ RequestTicket(r)
        \/ Step(r) \/ Cut(r)

SafetySpec == Init /\ [][Next]_vars

\* The runtime polls every task that can make progress; clients owe nothing.
Fairness == \A r \in Requests : WF_vars(Step(r))

Spec == SafetySpec /\ Fairness
-----------------------------------------------------------------------------
(* Properties *)

Location ==
    {"new", "done", "consume_nonce", "audit_initiated", "pre_policy", "scan",
     "post_policy", "persist_rejected", "audit_rejected", "put_blob", "insert",
     "get_blob", "mark_accepted", "audit_accepted", "mark_delivered",
     "audit_delivered", "delete_blob", "insert_ticket"}

\* Every column and local variable of the transfer handlers has its type.
TypeOK ==
    /\ rows \in [TransferIds -> TransferRow]
    /\ nonces \subseteq Nonces \cup Agents
    /\ blobs \subseteq TransferIds
    /\ audit \in [TransferIds -> [EventKind -> Nat]]
    /\ tickets \subseteq [nonce : Requests, tx : TransferIds, url : HttpsEndpoints]
    /\ pc \in [Requests -> Location]
    /\ ctx \in [Requests -> Context]
    /\ origin \in [TransferIds -> [intent : Intents \cup {Null}, path : Path \cup {Null}]]
    /\ released \subseteq TransferIds
    /\ cut \subseteq TransferIds

\* A transfer the recipient is told to pick up from the control plane has its
\* bytes in the blob store, so a download is never answered 500 because of
\* the order in which create_transfer and ack_transfer touch the two stores.
PickupHasBlob ==
    \A t \in TransferIds :
        rows[t].sha /\ rows[t].state \in {"ready_for_pickup", "accepted"}
            => t \in blobs

\* Bytes are kept or handed out only for a transfer that was scanned and that
\* the tier policy allows with that verdict; a rejected one has no bytes.
AllowedBeforeStored ==
    \A t \in blobs \cup released :
        rows[t].state # "absent" =>
            /\ rows[t].sha
            /\ rows[t].state # "rejected"
            /\ rows[t].verdict \in ScanResult
            /\ ~Denied(origin[t].intent, rows[t].verdict)

\* However often and however concurrently a signed intent is submitted on the
\* blob path, it yields one transfer.
BlobIntentOnce ==
    \A t, u \in TransferIds :
        /\ origin[t].path = "blob"
        /\ origin[u].path = "blob"
        /\ origin[t].intent.nonce = origin[u].intent.nonce
        => t = u

\* No bytes are left behind: what the blob store holds can still be picked
\* up, is about to be inserted or deleted by a request in progress, or belongs
\* to a transfer some request on which was cut short.
BlobAccounted ==
    \A t \in blobs :
        \/ rows[t].state \in {"ready_for_pickup", "accepted"}
        \/ t \in cut
        \/ \E r \in Requests :
              /\ ctx[r].tx = t
              /\ pc[r] \in {"insert", "audit_delivered", "delete_blob"}

\* A ticket names a transfer whose bytes stay with the sender, at an endpoint
\* that answered the probe; such a transfer is never "accepted", because no
\* download through the control plane can succeed for it.
TicketsBacked ==
    \A k \in tickets :
        /\ rows[k.tx].url = k.url
        /\ k.url \in rows[k.tx].reachable
        /\ rows[k.tx].state \in {"ready_for_pickup", "delivered"}
        /\ k.tx \notin blobs \cup released

\* The audit log tells the truth about the table, although its events are
\* appended after the update they report and by another task's clock: no
\* event reports an outcome the transfer did not have.
AuditTruthful ==
    \A t \in TransferIds :
        /\ audit[t]["rejected"] > 0 => rows[t].state = "rejected"
        /\ audit[t]["accepted"] > 0 => rows[t].state \in {"accepted", "delivered"}
        /\ audit[t]["delivered"] > 0 => rows[t].state = "delivered"

\* One signed intent yields one transfer, on whatever path it is submitted.
\* The data-plane paths do not keep it: they record the sender in the place of
\* the nonce and ignore that the value was there already.
IntentOnce ==
    \A t, u \in TransferIds :
        /\ Minted(t) /\ Minted(u)
        /\ origin[t].intent = origin[u].intent
        => t = u

\* The state column, the bytes handed out and the delivery receipts follow
\* the lifecycle of TransferLifecycle.
Lifecycle ==
    INSTANCE TransferLifecycle WITH
        state    <- [t \in TransferIds |-> rows[t].state],
        receipts <- [t \in TransferIds |-> audit[t]["delivered"]]

\* The handlers implement the abstract lifecycle: concurrent downloads and
\* acks never move a state backwards, release bytes of a transfer that was not
\* accepted, or log a second delivery.
ImplementsLifecycle == Lifecycle!Spec

\* A transfer_id minted by a create request ends up in the table, ready or
\* rejected, unless the request is cut.
MintedIsResolved ==
    \A t \in TransferIds :
        Minted(t) ~> (rows[t].state # "absent" \/ t \in cut)

\* Once a transfer is delivered its bytes are freed, unless the ack is cut or
\* the delete fails.
DeliveredIsFreed ==
    \A t \in TransferIds :
        (rows[t].state = "delivered" /\ t \in blobs)
            ~> (t \notin blobs \/ t \in cut)

-----------------------------------------------------------------------------
(* The inductive invariant behind the safety properties. *)

\* A create request past its nonce holds a transfer_id no row has yet.
Owning == {"audit_initiated", "pre_policy", "scan", "post_policy",
           "persist_rejected", "put_blob", "insert"}

Creating == Owning \cup {"consume_nonce", "audit_rejected"}

OnRow == {"get_blob", "mark_accepted", "audit_accepted", "mark_delivered",
          "audit_delivered", "delete_blob", "insert_ticket"}

\* The local variables a handler reads are set where it reads them.
LocalOK(l, c) ==
    /\ l \in Creating => c.intent \in Intents /\ c.path \in Path
    /\ l \in Owning \cup OnRow \cup {"audit_rejected"} => c.tx \in TransferIds
    /\ l = "insert_ticket" => c.url \in HttpsEndpoints

ContextOK == \A r \in Requests : LocalOK(pc[r], ctx[r])

\* The id a create request owns is its alone and has no row; its bytes are
\* stored exactly between put and insert.
OwnedFresh ==
    \A r \in Requests :
        pc[r] \in Owning =>
            /\ origin[ctx[r].tx] = [intent |-> ctx[r].intent, path |-> ctx[r].path]
            /\ rows[ctx[r].tx] = NoRow
            /\ pc[r] # "insert" => ctx[r].path = "blob"
            /\ ctx[r].tx \in blobs <=> (pc[r] = "insert" /\ ctx[r].path = "blob")

OwnedAlone ==
    \A r, s \in Requests :
        /\ pc[r] \in Owning
        /\ pc[s] \in Owning
        /\ ctx[r].tx = ctx[s].tx
        => r = s

\* The policy is asked again with the scan's verdict, and only a verdict it let
\* through is about to be stored or inserted.
Cleared ==
    \A r \in Requests :
        /\ pc[r] = "post_policy" => ctx[r].verdict \in ScanResult
        /\ pc[r] = "put_blob" \/ (pc[r] = "insert" /\ ctx[r].path = "blob") =>
              /\ ctx[r].verdict \in ScanResult
              /\ ~Denied(ctx[r].intent, ctx[r].verdict)

UnmintedUntouched ==
    \A t \in TransferIds :
        ~Minted(t) => rows[t] = NoRow /\ t \notin blobs

\* A row that promises bytes was scanned and allowed; an absent one is empty.
RowsCleared ==
    \A t \in TransferIds :
        /\ rows[t].state = "absent" => rows[t] = NoRow
        /\ rows[t].sha =>
            /\ rows[t].state \notin {"absent", "rejected"}
            /\ rows[t].verdict \in ScanResult
            /\ ~Denied(origin[t].intent, rows[t].verdict)

BlobsHaveRows ==
    \A t \in blobs : rows[t].state # "absent" => rows[t].sha

\* What a handler established about the row it works on still holds.
RowStable ==
    \A r \in Requests :
        /\ pc[r] \in OnRow => rows[ctx[r].tx].state # "absent"
        /\ pc[r] \in {"get_blob", "mark_accepted", "audit_accepted"} =>
              rows[ctx[r].tx].state # "rejected"
        /\ pc[r] \in {"mark_accepted", "audit_accepted"} => rows[ctx[r].tx].sha
        /\ pc[r] = "audit_accepted" =>
              rows[ctx[r].tx].state \in {"accepted", "delivered"}
        /\ pc[r] \in {"audit_delivered", "delete_blob"} =>
              rows[ctx[r].tx].state = "delivered"

ReleasedHaveRows ==
    \A t \in released :
        rows[t].sha /\ rows[t].state \in {"accepted", "delivered"}

NonceRecorded ==
    \A t \in TransferIds :
        origin[t].path = "blob" =>
            origin[t].intent \in Intents /\ origin[t].intent.nonce \in nonces

\* At most one ack wins a transfer, and it has not logged its receipt before
\* its audit step.
OneReceipt ==
    /\ \A t \in TransferIds :
          /\ audit[t]["delivered"] \in {0, 1}
          /\ audit[t]["delivered"] = 1 => rows[t].state = "delivered"
    /\ \A r \in Requests :
          pc[r] = "audit_delivered" => audit[ctx[r].tx]["delivered"] = 0
    /\ \A r, s \in Requests :
          /\ pc[r] = "audit_delivered"
          /\ pc[s] = "audit_delivered"
          /\ ctx[r].tx = ctx[s].tx
          => r = s

IInv ==
    /\ TypeOK /\ ContextOK /\ OwnedFresh /\ OwnedAlone /\ Cleared
    /\ UnmintedUntouched /\ RowsCleared /\ BlobsHaveRows /\ RowStable
    /\ ReleasedHaveRows /\ NonceRecorded /\ OneReceipt
    /\ PickupHasBlob /\ BlobIntentOnce
=============================================================================
