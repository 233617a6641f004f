------------------------------ MODULE DataPlane ------------------------------
(***************************************************************************)
(* The sender-side data plane (aex-data-plane): one process that is        *)
(* started behind a tunnel, checks that it is reachable before it          *)
(* advertises its url, and serves GET /blob/:transfer_id to holders of a   *)
(* ticket signed by the control plane.  The nonces it has seen, the cached *)
(* scan verdicts and the blobs live in memory and are lost when the        *)
(* process ends.                                                           *)
(*                                                                         *)
(* serve() awaits the blob source twice and the cache lock twice, so each  *)
(* of those is an action; TicketVerifier::verify is synchronous.           *)
(***************************************************************************)
EXTENDS Scanner

CONSTANTS
    Requests,      \* GET /blob requests of a behaviour
    TransferIds,
    Contents,      \* what a blob may hold: payloads with their declared mime
    MaxTransferBytes,  \* AEX_MAX_TRANSFER_BYTES
    Preloaded,     \* AEX_BLOB_PATH: the blob loaded at start, or Null
    Urls,          \* public urls the tunnel may hand out
    Tickets,       \* the random nonces of issued tickets
    Ttl,           \* TICKET_TTL_SECONDS
    Skew,          \* TicketVerifier::skew_seconds
    MaxTime,       \* bound on the clock, for model checking
    MaxLives,      \* bound on the starts of the process, for model checking
    Null

ASSUME ContentsAssumption ==
    /\ Contents \subseteq Payload
    /\ MaxTransferBytes \in Nat
    /\ Preloaded \in [TransferIds -> Contents \cup {Null}]
    /\ Null \notin Contents \cup Urls \cup Tickets \cup TransferIds
ASSUME TimesAssumption ==
    Ttl \in Nat /\ Skew \in Nat /\ MaxTime \in Nat /\ MaxLives \in Nat

VARIABLES
    clock,
    proc,       \* "down", "probing" (serving, not yet advertised) or "ready"
    url,        \* the public url of this life of the process
    life,       \* history: how often the process was started
    advertised, \* urls printed as AEX_DATA_PLANE_URL, in any life
    blobs,      \* InMemoryBlobSource
    used,       \* TicketVerifier::used_nonces
    cache,      \* scan_cache
    issued,     \* issued[n]: the ticket with nonce n, or Null
    pc, ctx,    \* the GET requests and their local variables
    sent,       \* history: the 200 responses
    replaced    \* history: <<life, id>> whose blob was inserted over another

vars == <<clock, proc, url, life, advertised, blobs, used, cache, issued,
          pc, ctx, sent, replaced>>

process == <<proc, url, life, advertised>>

-----------------------------------------------------------------------------
(* State *)

\* What a payload should meet, stated without the pipeline: too large, or the
\* EICAR string in it.
Blocking == {c \in Contents : c.size > MaxTransferBytes \/ c.eicar}

Ticket == [tx : TransferIds, url : Urls, expires : Nat]

\* What a request knows: its ticket, the metadata it read and what it scanned.
Context == [ticket : Tickets \cup {Null}, tx : TransferIds \cup {Null},
            meta : Contents \cup {Null}, scanned : Contents \cup {Null}]

NoContext == [ticket |-> Null, tx |-> Null, meta |-> Null, scanned |-> Null]

Response == [req : Requests, ticket : Tickets, life : Nat, url : Urls,
             tx : TransferIds, meta : Contents, body : Contents]

NoVerdicts == [t \in TransferIds |-> "none"]

NoBlobs == [t \in TransferIds |-> Null]

Init ==
    /\ clock = 0
    /\ proc = "down" /\ url = Null /\ life = 0 /\ advertised = {}
    /\ blobs = NoBlobs
    /\ used = {}
    /\ cache = NoVerdicts
    /\ issued = [n \in Tickets |-> Null]
    /\ pc = [r \in Requests |-> "new"]
    /\ ctx = [r \in Requests |-> NoContext]
    /\ sent = {}
    /\ replaced = {}

-----------------------------------------------------------------------------
(* The process *)

\* main up to the spawned server: the tunnel hands out a url, AEX_BLOB_PATH is
\* loaded, and the verifier and the cache are empty.
Start ==
    /\ proc = "down"
    /\ life < MaxLives
    /\ proc' = "probing"
    /\ url' \in Urls
    /\ life' = life + 1
    /\ blobs' = Preloaded
    /\ UNCHANGED <<clock, advertised, used, cache, issued, pc, ctx, sent, replaced>>

\* verify_tunnel_reachable succeeds; url, ready line and transports are printed.
Advertise ==
    /\ proc = "probing"
    /\ proc' = "ready"
    /\ advertised' = advertised \cup {url}
    /\ UNCHANGED <<clock, url, life, blobs, used, cache, issued, pc, ctx, sent, replaced>>

\* The readiness deadline passes, a signal arrives or the process dies: what
\* it held in memory is gone, its requests with it.
Stop ==
    /\ proc # "down"
    /\ proc' = "down"
    /\ url' = Null
    /\ blobs' = NoBlobs
    /\ used' = {}
    /\ cache' = NoVerdicts
    /\ pc' = [r \in Requests |-> IF pc[r] = "new" THEN "new" ELSE "done"]
    /\ ctx' = [r \in Requests |-> NoContext]
    /\ UNCHANGED <<clock, life, advertised, issued, sent, replaced>>

\* POST /admin/blob/:transfer_id, when AEX_ADMIN_TOKEN is set: the blob is
\* inserted or replaced, and the cached verdict is left as it is.
AdminInsertBlob(t, content) ==
    /\ proc # "down"
    /\ blobs' = [blobs EXCEPT ![t] = content]
    /\ replaced' = IF blobs[t] \in {Null, content} THEN replaced
                 ELSE replaced \cup {<<life, t>>}
    /\ UNCHANGED <<clock, process, used, cache, issued, pc, ctx, sent>>

-----------------------------------------------------------------------------
(* Tickets *)

\* issue_ticket in the control plane, for a transfer created with this url.
IssueTicket(n, t, u) ==
    /\ issued[n] = Null
    /\ u \in advertised
    /\ issued' = [issued EXCEPT ![n] = [tx |-> t, url |-> u, expires |-> clock + Ttl]]
    /\ UNCHANGED <<clock, process, blobs, used, cache, pc, ctx, sent, replaced>>

\* TicketVerifier::verify, short of recording the nonce.
Verifies(n) ==
    /\ issued[n] # Null
    /\ issued[n].url = url
    /\ clock <= issued[n].expires + Skew
    /\ n \notin used

-----------------------------------------------------------------------------
(* GET /blob/:transfer_id *)

Goto(r, from, to) ==
    /\ pc[r] = from
    /\ pc' = [pc EXCEPT ![r] = to]

Answer(r, from) ==
    /\ Goto(r, from, "done")
    /\ ctx' = [ctx EXCEPT ![r] = NoContext]

\* Faulty variant: verify looks the nonce up and serve records it at the end.
PresentUnrecorded(r) ==
    \E n \in Tickets :
        /\ proc # "down"
        /\ Verifies(n)
        /\ used' = used
        /\ Goto(r, "new", "metadata")
        /\ ctx' = [ctx EXCEPT ![r].ticket = n, ![r].tx = issued[n].tx]
        /\ UNCHANGED <<clock, process, blobs, cache, issued, sent, replaced>>

\* The ticket is verified and its nonce recorded before the id in the path is
\* compared with the ticket's; a mismatch answers 401.
Present(r) ==
    \E n \in Tickets, t \in TransferIds :
        /\ proc # "down"
        /\ Verifies(n)
        /\ used' = used \cup {n}
        /\ \/ /\ issued[n].tx = t
              /\ Goto(r, "new", "metadata")
              /\ ctx' = [ctx EXCEPT ![r].ticket = n, ![r].tx = t]
           \/ /\ issued[n].tx # t
              /\ Answer(r, "new")
        /\ UNCHANGED <<clock, process, blobs, cache, issued, sent, replaced>>

\* No blob under that id answers 404; the ticket is spent.
ReadMetadata(r) ==
    /\ \/ /\ Goto(r, "metadata", "read_cache")
          /\ blobs[ctx[r].tx] # Null
          /\ ctx' = [ctx EXCEPT ![r].meta = blobs[ctx[r].tx]]
       \/ /\ Answer(r, "metadata")
          /\ blobs[ctx[r].tx] = Null
    /\ UNCHANGED <<clock, process, blobs, used, cache, issued, sent, replaced>>

ReadCache(r) ==
    /\ \/ /\ Goto(r, "read_cache", "send")
          /\ cache[ctx[r].tx] = "clean"
          /\ UNCHANGED ctx
       \/ /\ Goto(r, "read_cache", "read_for_scan")
          /\ cache[ctx[r].tx] = "none"
          /\ UNCHANGED ctx
       \/ /\ Answer(r, "read_cache")
          /\ cache[ctx[r].tx] = "blocked"
    /\ UNCHANGED <<clock, process, blobs, used, cache, issued, sent, replaced>>

\* Nothing in this binary removes a blob: it is there.
ReadForScan(r) ==
    /\ Goto(r, "read_for_scan", "write_cache")
    /\ ctx' = [ctx EXCEPT ![r].scanned = blobs[ctx[r].tx]]
    /\ UNCHANGED <<clock, process, blobs, used, cache, issued, sent, replaced>>

\* The verdict of the pipeline on the bytes read before, under the mime of the
\* metadata read before them.
Blocked(r) ==
    IsBlocking(Scan(MaxTransferBytes, [ctx[r].scanned EXCEPT !.mime = ctx[r].meta.mime]))

\* The verdict goes to the cache, and a blocking one answers 403.
WriteCache(r) ==
    /\ \/ /\ Goto(r, "write_cache", "send")
          /\ ~Blocked(r)
          /\ cache' = [cache EXCEPT ![ctx[r].tx] = "clean"]
          /\ UNCHANGED ctx
       \/ /\ Answer(r, "write_cache")
          /\ Blocked(r)
          /\ cache' = [cache EXCEPT ![ctx[r].tx] = "blocked"]
    /\ UNCHANGED <<clock, process, blobs, used, issued, sent, replaced>>

\* The bytes are read once more; the headers are those of the metadata.
Send(r) ==
    /\ Answer(r, "send")
    /\ sent' = sent \cup {[req |-> r, ticket |-> ctx[r].ticket, life |-> life,
                           url |-> url, tx |-> ctx[r].tx, meta |-> ctx[r].meta,
                           body |-> blobs[ctx[r].tx]]}
    /\ UNCHANGED <<clock, process, blobs, used, cache, issued, replaced>>

-----------------------------------------------------------------------------

Tick ==
    /\ clock < MaxTime
    /\ clock' = clock + 1
    /\ UNCHANGED <<process, blobs, used, cache, issued, pc, ctx, sent, replaced>>

Next ==
    \/ Start \/ Advertise \/ Stop \/ Tick
    \/ \E t \in TransferIds, content \in Contents : AdminInsertBlob(t, content)
    \/ \E n \in Tickets, t \in TransferIds, u \in Urls : IssueTicket(n, t, u)
    \/ \E r \in Requests :
          \/ Present(r) \/ ReadMetadata(r) \/ ReadCache(r)
          \/ ReadForScan(r) \/ WriteCache(r) \/ Send(r)

Spec == Init /\ [][Next]_vars

-----------------------------------------------------------------------------
(* Properties *)

\* Everything the process keeps has its type, and its memory is empty while
\* it is down.
TypeOK ==
    /\ clock \in Nat
    /\ proc \in {"down", "probing", "ready"}
    /\ url \in Urls \cup {Null}
    /\ life \in Nat
    /\ advertised \subseteq Urls
    /\ blobs \in [TransferIds -> Contents \cup {Null}]
    /\ used \subseteq Tickets
    /\ cache \in [TransferIds -> {"none", "clean", "blocked"}]
    /\ issued \in [Tickets -> Ticket \cup {Null}]
    /\ pc \in [Requests -> {"new", "metadata", "read_cache", "read_for_scan",
                            "write_cache", "send", "done"}]
    /\ ctx \in [Requests -> Context]
    /\ sent \subseteq Response
    /\ replaced \subseteq Nat \X TransferIds
    /\ proc = "down" => url = Null /\ used = {} /\ blobs = NoBlobs

\* A ticket is answered with bytes twice only across a restart of the process
\* under an unchanged url; concurrent requests with one ticket never are.
ReuseNeedsRestart ==
    \A x, y \in sent :
        x.ticket = y.ticket /\ x # y => x.life # y.life /\ x.url = y.url

\* Unless the blob was replaced under its id, no bytes leave that are too large
\* or carry the EICAR string, whatever the other scanners say of them, and the
\* headers sent with them are theirs, whatever requests race to scan it first.
SentAsScanned ==
    \A s \in sent :
        <<s.life, s.tx>> \notin replaced => s.body \notin Blocking /\ s.meta = s.body

\* Unless the blob was replaced, the cached verdict is that of the blob.
CacheMatchesBlob ==
    \A t \in TransferIds :
        <<life, t>> \notin replaced =>
            /\ cache[t] = "clean" => blobs[t] \notin Blocking
            /\ cache[t] = "blocked" => blobs[t] \in Blocking
=============================================================================
