--------------------------- MODULE DataPlaneProofs ---------------------------
(***************************************************************************)
(* Proofs about DataPlane, for every number of requests, tickets, ids,     *)
(* urls and payloads, and for every limit of the size scanner; and about   *)
(* DataPlaneBoot, for every environment and every readiness timeout.       *)
(***************************************************************************)
EXTENDS DataPlane, DataPlaneBoot, TLAPS

-----------------------------------------------------------------------------
(* The pipeline *)

\* The verdict of the whole pipeline is blocking exactly when the size limit
\* or the EICAR scanner objects: no merge of aggregate's loop hides a
\* malicious verdict and no suspicious one adds up to it.
LEMMA ScanBlocks ==
    ASSUME NEW max \in Nat, NEW p \in Payload
    PROVE  IsBlocking(Scan(max, p)) <=> p.size > max \/ p.eicar
<1>1. p.size \in Nat /\ p.eicar \in BOOLEAN
  BY DEF Payload
<1>2. SizeLimitScanner(max, p) = IF p.size > max THEN "malicious" ELSE "clean"
  BY DEF SizeLimitScanner
<1>3. MagicByteScanner(p) \in {"clean", "suspicious"}
  BY DEF MagicByteScanner
<1>4. EicarScanner(p) = IF p.eicar THEN "malicious" ELSE "clean"
  BY DEF EicarScanner
<1>5. RegexInjectionScanner(p) \in {"clean", "suspicious"}
  BY DEF RegexInjectionScanner
<1>6. ASSUME NEW a, NEW b PROVE Merge(a, b) = "malicious" <=> a = "malicious" \/ b = "malicious"
  BY DEF Merge
<1>7. Scan(max, p) = Merge(Merge(Merge(Merge("clean", SizeLimitScanner(max, p)),
                                       MagicByteScanner(p)), EicarScanner(p)),
                           RegexInjectionScanner(p))
  BY DEF Scan, Verdicts
<1>. QED
  BY <1>1, <1>2, <1>3, <1>4, <1>5, <1>6, <1>7 DEF IsBlocking

\* The declared mime does not change that.
LEMMA ScanIgnoresMime ==
    ASSUME NEW c \in Contents, NEW d \in Contents
    PROVE  IsBlocking(Scan(MaxTransferBytes, [c EXCEPT !.mime = d.mime])) <=> c \in Blocking
<1>. DEFINE p == [c EXCEPT !.mime = d.mime]
<1>1. c \in Payload /\ d \in Payload /\ MaxTransferBytes \in Nat
  BY ContentsAssumption
<1>2. p \in Payload /\ p.size = c.size /\ p.eicar = c.eicar
  BY <1>1 DEF Payload
<1>. HIDE DEF p
<1>3. IsBlocking(Scan(MaxTransferBytes, p)) <=> p.size > MaxTransferBytes \/ p.eicar
  BY <1>1, <1>2, ScanBlocks
<1>. QED
  BY <1>2, <1>3 DEF Blocking, p

-----------------------------------------------------------------------------
(* The invariant *)

Active == {"metadata", "read_cache", "read_for_scan", "write_cache", "send"}

\* The locations from which on the blob was found.
Found == {"read_cache", "read_for_scan", "write_cache", "send"}

LocalsOK(r) ==
    /\ pc[r] \in Active =>
          proc # "down" /\ ctx[r].ticket \in Tickets /\ ctx[r].tx \in TransferIds
    /\ pc[r] \in Found => ctx[r].meta \in Contents /\ blobs[ctx[r].tx] \in Contents
    /\ pc[r] = "write_cache" => ctx[r].scanned \in Contents

Typed ==
    /\ TypeOK
    /\ proc # "down" => url \in Urls
    /\ \A r \in Requests : LocalsOK(r)

\* The ticket of a request in service is recorded, was issued for this url and
\* has not been answered by this life of the process.
TicketOK(r) ==
    pc[r] \in Active =>
        /\ ctx[r].ticket \in used
        /\ issued[ctx[r].ticket] # Null
        /\ issued[ctx[r].ticket].url = url
        /\ \A s \in sent : s.life = life => s.ticket # ctx[r].ticket

\* No two requests are in service with one ticket.
OneRequestPerTicket ==
    \A q, r \in Requests :
        pc[q] \in Active /\ pc[r] \in Active /\ ctx[q].ticket = ctx[r].ticket => q = r

\* A response went to a ticket that was issued for its url, and the life that
\* sent it remembers the ticket as long as it lasts.
SentOK ==
    \A s \in sent :
        /\ s.life <= life
        /\ issued[s.ticket] # Null /\ issued[s.ticket].url = s.url
        /\ proc # "down" /\ s.life = life => s.ticket \in used

TicketInv ==
    /\ \A r \in Requests : TicketOK(r)
    /\ OneRequestPerTicket
    /\ SentOK
    /\ ReuseNeedsRestart

\* Unless the blob was replaced, what a request has read is what is stored,
\* and what it is about to send may be sent.
ScanOK(r) ==
    pc[r] \in Found /\ <<life, ctx[r].tx>> \notin replaced =>
        /\ ctx[r].meta = blobs[ctx[r].tx]
        /\ pc[r] = "write_cache" => ctx[r].scanned = blobs[ctx[r].tx]
        /\ pc[r] = "send" => blobs[ctx[r].tx] \notin Blocking

\* Only stored blobs have a verdict.
VerdictsOfBlobs == \A t \in TransferIds : cache[t] # "none" => blobs[t] # Null

ScanInv ==
    /\ \A r \in Requests : ScanOK(r)
    /\ VerdictsOfBlobs
    /\ CacheMatchesBlob
    /\ SentAsScanned

-----------------------------------------------------------------------------
(* Typing, and what a step of a request changes *)

Location == Active \cup {"new", "done"}

\* The local variables of a request that has been answered are well typed.
LEMMA EmptyContext == NoContext \in Context
BY DEF Context, NoContext

\* The local variables have their types.
LEMMA RequestTypes ==
    ASSUME Typed, NEW r \in Requests
    PROVE  /\ pc[r] \in Location /\ ctx[r] \in Context /\ LocalsOK(r)
           /\ pc[r] \in Active =>
                 proc # "down" /\ url \in Urls /\ ctx[r].ticket \in Tickets /\ ctx[r].tx \in TransferIds
           /\ pc[r] \in Found => ctx[r].meta \in Contents /\ blobs[ctx[r].tx] \in Contents
BY DEF Typed, TypeOK, Location, Active, LocalsOK

\* The step of r leaves the other requests, the process, the blobs and the
\* tickets alone.
Only(r) ==
    /\ \A s \in Requests \ {r} : pc'[s] = pc[s] /\ ctx'[s] = ctx[s]
    /\ UNCHANGED <<clock, proc, url, life, advertised, blobs, issued, replaced>>

\* r goes to a location with new local variables.
Moves(r, to, c) ==
    /\ pc' = [pc EXCEPT ![r] = to]
    /\ ctx' = [ctx EXCEPT ![r] = c]

\* A request that goes on with well-typed local variables stays well typed and
\* disturbs no other.
LEMMA MovesTyped ==
    ASSUME Typed, NEW r \in Requests, NEW to \in Active \cup {"done"}, NEW c \in Context,
           Moves(r, to, c),
           to \in Active => proc # "down" /\ c.ticket \in Tickets /\ c.tx \in TransferIds,
           to \in Found => c.meta \in Contents /\ blobs[c.tx] \in Contents,
           to = "write_cache" => c.scanned \in Contents,
           UNCHANGED <<clock, process, blobs, issued, replaced>>,
           used' \subseteq Tickets, proc = "down" => used' = {},
           cache' \in [TransferIds -> {"none", "clean", "blocked"}],
           sent' \subseteq Response
    PROVE  Typed' /\ Only(r) /\ pc'[r] = to /\ ctx'[r] = c
<1>1. pc'[r] = to /\ ctx'[r] = c
  BY DEF Typed, TypeOK, Moves
<1>2. Only(r)
  BY DEF Typed, TypeOK, Moves, Only, process
<1>3. ASSUME NEW s \in Requests PROVE LocalsOK(s)'
  <2>1. CASE s = r
    BY <1>1, <1>2, <2>1 DEF LocalsOK, Only
  <2>2. CASE s # r
    BY <1>2, <2>2 DEF LocalsOK, Only, Typed
  <2>. QED
    BY <2>1, <2>2
<1>4. TypeOK'
  BY <1>2 DEF Typed, TypeOK, Moves, Only, Active
<1>. QED
  BY <1>1, <1>2, <1>3, <1>4 DEF Typed, Only

\* An answered request.
LEMMA AnswerTyped ==
    ASSUME Typed, NEW r \in Requests, NEW from, Answer(r, from),
           UNCHANGED <<clock, process, blobs, issued, replaced>>,
           used' \subseteq Tickets, proc = "down" => used' = {},
           cache' \in [TransferIds -> {"none", "clean", "blocked"}],
           sent' \subseteq Response
    PROVE  Typed' /\ Only(r) /\ pc[r] = from /\ pc'[r] = "done"
<1>1. Moves(r, "done", NoContext) /\ pc[r] = from
  BY DEF Answer, Goto, Moves
<1>. QED
  BY <1>1, EmptyContext, MovesTyped DEF Active, Found

\* TicketVerifier::verify accepts one ticket, which is recorded whether the
\* request goes on or not.
LEMMA PresentEffect ==
    ASSUME Typed, NEW r \in Requests, Present(r)
    PROVE  /\ Typed' /\ Only(r) /\ UNCHANGED <<cache, sent>>
           /\ \E n \in Tickets :
                 /\ proc # "down" /\ Verifies(n) /\ used' = used \cup {n}
                 /\ \/ pc'[r] = "metadata" /\ ctx'[r].ticket = n
                    \/ pc'[r] = "done"
<1>1. PICK n \in Tickets, t \in TransferIds :
        /\ proc # "down"
        /\ Verifies(n)
        /\ used' = used \cup {n}
        /\ \/ /\ issued[n].tx = t
              /\ Goto(r, "new", "metadata")
              /\ ctx' = [ctx EXCEPT ![r].ticket = n, ![r].tx = t]
           \/ /\ issued[n].tx # t
              /\ Answer(r, "new")
        /\ UNCHANGED <<clock, process, blobs, cache, issued, sent, replaced>>
  BY DEF Present
<1>2. /\ used' \subseteq Tickets /\ cache' \in [TransferIds -> {"none", "clean", "blocked"}]
      /\ sent' \subseteq Response
  BY <1>1 DEF Typed, TypeOK
<1>3. CASE /\ Goto(r, "new", "metadata")
           /\ ctx' = [ctx EXCEPT ![r].ticket = n, ![r].tx = t]
  <2>. DEFINE c == [ctx[r] EXCEPT !.ticket = n, !.tx = t]
  <2>1. ctx[r] \in Context
    BY RequestTypes
  <2>2. c \in Context /\ c.ticket = n /\ c.tx = t
    BY <2>1 DEF Context
  <2>3. Moves(r, "metadata", c)
    BY <1>3 DEF Goto, Moves, Typed, TypeOK
  <2>. HIDE DEF c
  <2>4. Typed' /\ Only(r) /\ pc'[r] = "metadata" /\ ctx'[r] = c
    BY <1>1, <1>2, <2>2, <2>3, MovesTyped DEF Active, Found
  <2>. QED
    BY <1>1, <2>2, <2>4
<1>4. CASE Answer(r, "new")
  BY <1>1, <1>2, <1>4, AnswerTyped
<1>. QED
  BY <1>1, <1>3, <1>4

\* The request finds a blob under its id, or is answered.
LEMMA ReadMetadataEffect ==
    ASSUME Typed, NEW r \in Requests, ReadMetadata(r)
    PROVE  /\ Typed' /\ Only(r) /\ UNCHANGED <<used, cache, sent>> /\ pc[r] = "metadata"
           /\ \/ pc'[r] = "done"
              \/ /\ pc'[r] = "read_cache" /\ ctx'[r].ticket = ctx[r].ticket
                 /\ ctx'[r].tx = ctx[r].tx /\ ctx'[r].meta = blobs[ctx[r].tx]
<1>1. /\ UNCHANGED <<clock, process, blobs, used, cache, issued, sent, replaced>>
      /\ pc[r] = "metadata"
  BY DEF ReadMetadata, Goto, Answer
<1>2. /\ used' \subseteq Tickets /\ cache' \in [TransferIds -> {"none", "clean", "blocked"}]
      /\ sent' \subseteq Response /\ (proc = "down" => used' = {})
  BY <1>1 DEF Typed, TypeOK
<1>3. CASE /\ Goto(r, "metadata", "read_cache")
           /\ blobs[ctx[r].tx] # Null
           /\ ctx' = [ctx EXCEPT ![r].meta = blobs[ctx[r].tx]]
  <2>. DEFINE c == [ctx[r] EXCEPT !.meta = blobs[ctx[r].tx]]
  <2>1. /\ ctx[r] \in Context /\ ctx[r].tx \in TransferIds /\ ctx[r].ticket \in Tickets
        /\ proc # "down" /\ blobs[ctx[r].tx] \in Contents
    BY <1>1, <1>3, RequestTypes DEF Active, Typed, TypeOK
  <2>2. /\ c \in Context /\ c.ticket = ctx[r].ticket /\ c.tx = ctx[r].tx
        /\ c.meta = blobs[ctx[r].tx]
    BY <2>1 DEF Context
  <2>3. Moves(r, "read_cache", c)
    BY <1>3 DEF Goto, Moves, Typed, TypeOK
  <2>. HIDE DEF c
  <2>4. Typed' /\ Only(r) /\ pc'[r] = "read_cache" /\ ctx'[r] = c
    BY <1>1, <1>2, <2>1, <2>2, <2>3, MovesTyped DEF Active, Found
  <2>. QED
    BY <1>1, <2>2, <2>4
<1>4. CASE Answer(r, "metadata")
  BY <1>1, <1>2, <1>4, AnswerTyped
<1>. QED
  BY <1>3, <1>4 DEF ReadMetadata

\* The request goes on to send a clean blob, to scan one without a verdict,
\* or is answered.
LEMMA ReadCacheEffect ==
    ASSUME Typed, NEW r \in Requests, ReadCache(r)
    PROVE  /\ Typed' /\ Only(r) /\ UNCHANGED <<used, cache, sent>> /\ pc[r] = "read_cache"
           /\ \/ pc'[r] = "done"
              \/ /\ ctx'[r] = ctx[r]
                 /\ \/ pc'[r] = "send" /\ cache[ctx[r].tx] = "clean"
                    \/ pc'[r] = "read_for_scan"
<1>1. /\ UNCHANGED <<clock, process, blobs, used, cache, issued, sent, replaced>>
      /\ pc[r] = "read_cache"
  BY DEF ReadCache, Goto, Answer
<1>2. /\ used' \subseteq Tickets /\ cache' \in [TransferIds -> {"none", "clean", "blocked"}]
      /\ sent' \subseteq Response /\ (proc = "down" => used' = {})
  BY <1>1 DEF Typed, TypeOK
<1>3. /\ ctx[r] \in Context /\ ctx[r].tx \in TransferIds /\ ctx[r].ticket \in Tickets
      /\ proc # "down" /\ ctx[r].meta \in Contents /\ blobs[ctx[r].tx] \in Contents
  BY <1>1, RequestTypes DEF Active, Found
<1>4. ASSUME NEW to \in {"send", "read_for_scan"}, Goto(r, "read_cache", to), UNCHANGED ctx
      PROVE  Typed' /\ Only(r) /\ pc'[r] = to /\ ctx'[r] = ctx[r]
  <2>1. Moves(r, to, ctx[r])
    BY <1>4 DEF Goto, Moves, Typed, TypeOK
  <2>. QED
    BY <1>1, <1>2, <1>3, <2>1, MovesTyped DEF Active
<1>5. CASE Answer(r, "read_cache")
  BY <1>1, <1>2, <1>5, AnswerTyped
<1>. QED
  BY <1>1, <1>4, <1>5 DEF ReadCache

\* The bytes to scan are read.
LEMMA ReadForScanEffect ==
    ASSUME Typed, NEW r \in Requests, ReadForScan(r)
    PROVE  /\ Typed' /\ Only(r) /\ UNCHANGED <<used, cache, sent>> /\ pc[r] = "read_for_scan"
           /\ pc'[r] = "write_cache" /\ ctx'[r].ticket = ctx[r].ticket
           /\ ctx'[r].tx = ctx[r].tx /\ ctx'[r].meta = ctx[r].meta
           /\ ctx'[r].scanned = blobs[ctx[r].tx]
<1>. DEFINE c == [ctx[r] EXCEPT !.scanned = blobs[ctx[r].tx]]
<1>1. /\ UNCHANGED <<clock, process, blobs, used, cache, issued, sent, replaced>>
      /\ pc[r] = "read_for_scan"
  BY DEF ReadForScan, Goto
<1>2. /\ used' \subseteq Tickets /\ cache' \in [TransferIds -> {"none", "clean", "blocked"}]
      /\ sent' \subseteq Response /\ (proc = "down" => used' = {})
  BY <1>1 DEF Typed, TypeOK
<1>3. /\ ctx[r] \in Context /\ ctx[r].tx \in TransferIds /\ ctx[r].ticket \in Tickets
      /\ proc # "down" /\ ctx[r].meta \in Contents /\ blobs[ctx[r].tx] \in Contents
  BY <1>1, RequestTypes DEF Active, Found
<1>4. /\ c \in Context /\ c.ticket = ctx[r].ticket /\ c.tx = ctx[r].tx
      /\ c.meta = ctx[r].meta /\ c.scanned = blobs[ctx[r].tx]
  BY <1>3 DEF Context
<1>5. Moves(r, "write_cache", c)
  BY DEF ReadForScan, Goto, Moves, Typed, TypeOK
<1>. HIDE DEF c
<1>6. Typed' /\ Only(r) /\ pc'[r] = "write_cache" /\ ctx'[r] = c
  BY <1>1, <1>2, <1>3, <1>4, <1>5, MovesTyped DEF Active
<1>. QED
  BY <1>1, <1>4, <1>6

\* The verdict that is cached is that of the bytes that were read.
LEMMA WriteCacheEffect ==
    ASSUME Typed, NEW r \in Requests, WriteCache(r)
    PROVE  /\ Typed' /\ Only(r) /\ UNCHANGED <<used, sent>> /\ pc[r] = "write_cache"
           /\ \/ /\ pc'[r] = "done" /\ ctx[r].scanned \in Blocking
                 /\ cache' = [cache EXCEPT ![ctx[r].tx] = "blocked"]
              \/ /\ pc'[r] = "send" /\ ctx'[r] = ctx[r] /\ ctx[r].scanned \notin Blocking
                 /\ cache' = [cache EXCEPT ![ctx[r].tx] = "clean"]
<1>1. /\ UNCHANGED <<clock, process, blobs, used, issued, sent, replaced>>
      /\ pc[r] = "write_cache"
  BY DEF WriteCache, Goto, Answer
<1>2. /\ used' \subseteq Tickets /\ sent' \subseteq Response /\ (proc = "down" => used' = {})
  BY <1>1 DEF Typed, TypeOK
<1>3. /\ ctx[r] \in Context /\ ctx[r].tx \in TransferIds /\ ctx[r].ticket \in Tickets
      /\ proc # "down" /\ ctx[r].meta \in Contents /\ blobs[ctx[r].tx] \in Contents
      /\ ctx[r].scanned \in Contents
  BY <1>1, RequestTypes DEF Active, Found, LocalsOK
<1>4. Blocked(r) <=> ctx[r].scanned \in Blocking
  BY <1>3, ScanIgnoresMime DEF Blocked
<1>5. cache' \in [TransferIds -> {"none", "clean", "blocked"}]
  BY DEF WriteCache, Typed, TypeOK
<1>6. CASE /\ Goto(r, "write_cache", "send") /\ ~Blocked(r)
           /\ cache' = [cache EXCEPT ![ctx[r].tx] = "clean"] /\ UNCHANGED ctx
  <2>1. Moves(r, "send", ctx[r])
    BY <1>6 DEF Goto, Moves, Typed, TypeOK
  <2>2. Typed' /\ Only(r) /\ pc'[r] = "send" /\ ctx'[r] = ctx[r]
    BY <1>1, <1>2, <1>3, <1>5, <2>1, MovesTyped DEF Active
  <2>. QED
    BY <1>1, <1>4, <1>6, <2>2
<1>7. CASE /\ Answer(r, "write_cache") /\ Blocked(r)
           /\ cache' = [cache EXCEPT ![ctx[r].tx] = "blocked"]
  BY <1>1, <1>2, <1>4, <1>5, <1>7, AnswerTyped
<1>. QED
  BY <1>6, <1>7 DEF WriteCache

\* The response carries the metadata read before and the bytes as they are.
LEMMA SendEffect ==
    ASSUME Typed, NEW r \in Requests, Send(r)
    PROVE  /\ Typed' /\ Only(r) /\ UNCHANGED <<used, cache>>
           /\ pc[r] = "send" /\ pc'[r] = "done"
           /\ \E x \in Response :
                 /\ sent' = sent \cup {x}
                 /\ x.ticket = ctx[r].ticket /\ x.life = life /\ x.url = url
                 /\ x.tx = ctx[r].tx /\ x.meta = ctx[r].meta
                 /\ x.body = blobs[ctx[r].tx]
<1>. DEFINE x == [req |-> r, ticket |-> ctx[r].ticket, life |-> life,
                  url |-> url, tx |-> ctx[r].tx, meta |-> ctx[r].meta,
                  body |-> blobs[ctx[r].tx]]
<1>1. /\ UNCHANGED <<clock, process, blobs, used, cache, issued, replaced>>
      /\ pc[r] = "send" /\ Answer(r, "send") /\ sent' = sent \cup {x}
  BY DEF Send, Goto, Answer
<1>2. /\ ctx[r].tx \in TransferIds /\ ctx[r].ticket \in Tickets /\ url \in Urls
      /\ ctx[r].meta \in Contents /\ blobs[ctx[r].tx] \in Contents /\ life \in Nat
  BY <1>1, RequestTypes DEF Active, Found, Typed, TypeOK
<1>3. /\ x \in Response /\ x.ticket = ctx[r].ticket /\ x.life = life /\ x.url = url
      /\ x.tx = ctx[r].tx /\ x.meta = ctx[r].meta /\ x.body = blobs[ctx[r].tx]
  BY <1>2 DEF Response
<1>. HIDE DEF x
<1>4. /\ used' \subseteq Tickets /\ cache' \in [TransferIds -> {"none", "clean", "blocked"}]
      /\ sent' \subseteq Response /\ (proc = "down" => used' = {})
  BY <1>1, <1>3 DEF Typed, TypeOK
<1>5. Typed' /\ Only(r) /\ pc'[r] = "done"
  BY <1>1, <1>4, AnswerTyped
<1>. QED
  BY <1>1, <1>3, <1>5

\* A step that moves no request keeps the requests well typed if the process
\* stays up and no blob goes away.
LEMMA ProcessTyped ==
    ASSUME Typed, TypeOK', proc' # "down" => url' \in Urls, UNCHANGED <<pc, ctx>>,
           proc # "down" => /\ proc' # "down"
                            /\ \A t \in TransferIds : blobs[t] \in Contents => blobs'[t] \in Contents
    PROVE  Typed'
<1>1. ASSUME NEW s \in Requests PROVE LocalsOK(s)'
  BY RequestTypes DEF LocalsOK, Active, Found
<1>. QED
  BY <1>1 DEF Typed

\* Every step keeps the types.
LEMMA TypedStep ==
    ASSUME Typed, [Next]_vars
    PROVE  Typed'
<1>1. TypeOK /\ (proc # "down" => url \in Urls)
  BY DEF Typed
<1>2. CASE Start
  <2>1. TypeOK'
    BY <1>1, <1>2, ContentsAssumption DEF Start, TypeOK
  <2>. QED
    BY <1>2, <2>1, ProcessTyped DEF Start
<1>3. CASE Advertise
  <2>1. TypeOK'
    BY <1>1, <1>3 DEF Advertise, TypeOK
  <2>. QED
    BY <1>1, <1>3, <2>1, ProcessTyped DEF Advertise
<1>4. CASE Stop
  <2>1. pc' \in [Requests -> {"new", "done"}]
    BY <1>4 DEF Stop
  <2>2. ctx' \in [Requests -> Context]
    BY <1>4, EmptyContext DEF Stop
  <2>3. blobs' \in [TransferIds -> Contents \cup {Null}] /\ blobs' = NoBlobs
    BY <1>4 DEF Stop, NoBlobs
  <2>4. cache' \in [TransferIds -> {"none", "clean", "blocked"}]
    BY <1>4 DEF Stop, NoVerdicts
  <2>5. TypeOK'
    BY <1>1, <1>4, <2>1, <2>2, <2>3, <2>4 DEF Stop, TypeOK, NoBlobs
  <2>6. \A s \in Requests : LocalsOK(s)'
    BY <2>1 DEF LocalsOK, Active, Found
  <2>. QED
    BY <1>4, <2>5, <2>6 DEF Typed, Stop
<1>5. CASE Tick
  <2>1. TypeOK'
    BY <1>1, <1>5 DEF Tick, TypeOK, process
  <2>. QED
    BY <1>1, <1>5, <2>1, ProcessTyped DEF Tick, process
<1>6. ASSUME NEW t \in TransferIds, NEW content \in Contents, AdminInsertBlob(t, content)
      PROVE  Typed'
  <2>1. /\ blobs' \in [TransferIds -> Contents \cup {Null}]
        /\ replaced' \subseteq Nat \X TransferIds
        /\ \A u \in TransferIds : blobs[u] \in Contents => blobs'[u] \in Contents
    BY <1>1, <1>6 DEF AdminInsertBlob, TypeOK
  <2>2. TypeOK'
    BY <1>1, <1>6, <2>1 DEF AdminInsertBlob, TypeOK, process
  <2>. QED
    BY <1>1, <1>6, <2>1, <2>2, ProcessTyped DEF AdminInsertBlob, process
<1>7. ASSUME NEW n \in Tickets, NEW t \in TransferIds, NEW u \in Urls, IssueTicket(n, t, u)
      PROVE  Typed'
  <2>1. [tx |-> t, url |-> u, expires |-> clock + Ttl] \in Ticket
    BY <1>1, TimesAssumption DEF Ticket, TypeOK
  <2>2. issued' \in [Tickets -> Ticket \cup {Null}]
    BY <1>1, <1>7, <2>1 DEF IssueTicket, TypeOK
  <2>3. TypeOK'
    BY <1>1, <1>7, <2>2 DEF IssueTicket, TypeOK, process
  <2>. QED
    BY <1>1, <1>7, <2>3, ProcessTyped DEF IssueTicket, process
<1>8. ASSUME NEW r \in Requests,
             \/ Present(r) \/ ReadMetadata(r) \/ ReadCache(r)
             \/ ReadForScan(r) \/ WriteCache(r) \/ Send(r)
      PROVE  Typed'
  BY <1>8, PresentEffect, ReadMetadataEffect, ReadCacheEffect, ReadForScanEffect,
     WriteCacheEffect, SendEffect
<1>9. CASE UNCHANGED vars
  <2>1. TypeOK'
    BY <1>1, <1>9 DEF vars, TypeOK
  <2>. QED
    BY <1>1, <1>9, <2>1, ProcessTyped DEF vars
<1>. QED
  BY <1>2, <1>3, <1>4, <1>5, <1>6, <1>7, <1>8, <1>9 DEF Next

\* The types hold in every reachable state.
LEMMA Typing == Spec => []Typed
<1>1. Init => Typed
  <2>. SUFFICES ASSUME Init PROVE Typed
    OBVIOUS
  <2>1. TypeOK
    BY EmptyContext DEF Init, TypeOK, NoBlobs, NoVerdicts
  <2>. QED
    BY <2>1 DEF Init, Typed, LocalsOK, Active, Found
<1>2. Typed /\ [Next]_vars => Typed'
  BY TypedStep
<1>. QED
  BY <1>1, <1>2, PTL DEF Spec

\* Everything the process keeps has its type.
THEOREM TypeCorrect == Spec => []TypeOK
<1>1. Typed => TypeOK
  BY DEF Typed
<1>. QED
  BY <1>1, Typing, PTL

-----------------------------------------------------------------------------
(* Tickets *)

\* Steps that present no ticket and send nothing, within one life.
LEMMA TicketKept ==
    ASSUME Typed, TicketInv, sent' = sent, life' = life,
           \A n \in Tickets : issued[n] # Null => issued'[n] = issued[n],
           proc' # "down" => proc # "down" /\ used \subseteq used' /\ url' = url,
           \A s \in Requests :
               pc'[s] \in Active =>
                   /\ proc' # "down" /\ pc[s] \in Active
                   /\ ctx'[s].ticket = ctx[s].ticket
    PROVE  TicketInv'
<1>1. ASSUME NEW s \in Requests PROVE TicketOK(s)'
  BY RequestTypes DEF TicketInv, TicketOK
<1>2. OneRequestPerTicket'
  BY DEF TicketInv, OneRequestPerTicket
<1>3. \A x \in sent : x.ticket \in Tickets
  BY DEF Typed, TypeOK, Response
<1>4. SentOK'
  BY <1>3 DEF TicketInv, SentOK
<1>5. ReuseNeedsRestart'
  BY DEF TicketInv, ReuseNeedsRestart
<1>. QED
  BY <1>1, <1>2, <1>4, <1>5 DEF TicketInv

\* A ticket that verifies is not in service and was not answered in this life.
LEMMA PresentTicket ==
    ASSUME Typed, TicketInv, NEW r \in Requests, Present(r)
    PROVE  TicketInv'
<1>1. /\ Typed' /\ Only(r) /\ UNCHANGED <<cache, sent>>
      /\ \E n \in Tickets :
            /\ proc # "down" /\ Verifies(n) /\ used' = used \cup {n}
            /\ \/ pc'[r] = "metadata" /\ ctx'[r].ticket = n
               \/ pc'[r] = "done"
  BY PresentEffect
<1>2. PICK n \in Tickets :
         /\ proc # "down" /\ Verifies(n) /\ used' = used \cup {n}
         /\ \/ pc'[r] = "metadata" /\ ctx'[r].ticket = n
            \/ pc'[r] = "done"
  BY <1>1
<1>3. n \notin used /\ issued[n] # Null /\ issued[n].url = url
  BY <1>2 DEF Verifies
<1>4. UNCHANGED <<proc, url, life, issued, sent>>
  BY <1>1 DEF Only
<1>5. ASSUME NEW s \in Requests PROVE TicketOK(s)'
  <2>1. CASE s = r
    BY <1>2, <1>3, <1>4, <2>1 DEF TicketOK, Active, TicketInv, SentOK
  <2>2. CASE s # r
    BY <1>1, <1>2, <1>4, <2>2 DEF TicketOK, TicketInv, Only
  <2>. QED
    BY <2>1, <2>2
<1>6. ASSUME NEW q \in Requests, NEW s \in Requests,
             pc'[q] \in Active, pc'[s] \in Active, ctx'[q].ticket = ctx'[s].ticket
      PROVE  q = s
  <2>1. \A z \in Requests \ {r} :
           pc'[z] \in Active => pc[z] \in Active /\ ctx'[z].ticket = ctx[z].ticket /\ ctx[z].ticket # n
    BY <1>1, <1>3 DEF Only, TicketInv, TicketOK
  <2>2. pc'[r] \in Active => ctx'[r].ticket = n
    BY <1>2 DEF Active
  <2>. QED
    BY <1>6, <2>1, <2>2 DEF TicketInv, OneRequestPerTicket
<1>7. SentOK'
  BY <1>2, <1>4 DEF TicketInv, SentOK
<1>8. ReuseNeedsRestart'
  BY <1>4 DEF TicketInv, ReuseNeedsRestart
<1>. QED
  BY <1>5, <1>6, <1>7, <1>8 DEF TicketInv, OneRequestPerTicket

\* A response is the first of its life to its ticket.
LEMMA SendTicket ==
    ASSUME Typed, TicketInv, NEW r \in Requests, Send(r)
    PROVE  TicketInv'
<1>1. /\ Only(r) /\ UNCHANGED <<used, cache>> /\ pc[r] = "send" /\ pc'[r] = "done"
  BY SendEffect
<1>2. PICK x \in Response :
         /\ sent' = sent \cup {x}
         /\ x.ticket = ctx[r].ticket /\ x.life = life /\ x.url = url
  BY SendEffect
<1>3. UNCHANGED <<proc, url, life, issued>> /\ life \in Nat
  BY <1>1 DEF Only, Typed, TypeOK
<1>4. /\ x.ticket \in used /\ issued[x.ticket] # Null /\ issued[x.ticket].url = x.url
      /\ \A y \in sent : y.life = life => y.ticket # x.ticket
  BY <1>1, <1>2 DEF TicketInv, TicketOK, Active
<1>5. ASSUME NEW s \in Requests PROVE TicketOK(s)'
  <2>1. CASE s = r
    BY <1>1, <2>1 DEF TicketOK, Active
  <2>2. CASE s # r
    <3>1. pc'[s] = pc[s] /\ ctx'[s] = ctx[s]
      BY <1>1, <2>2 DEF Only
    <3>2. pc[s] \in Active => ctx[s].ticket # x.ticket
      BY <1>1, <1>2, <2>2 DEF TicketInv, OneRequestPerTicket, Active
    <3>. QED
      BY <1>1, <1>2, <1>3, <3>1, <3>2 DEF TicketOK, TicketInv
  <2>. QED
    BY <2>1, <2>2
<1>6. OneRequestPerTicket'
  <2>1. \A s \in Requests :
           pc'[s] \in Active => pc[s] \in Active /\ ctx'[s] = ctx[s]
    BY <1>1 DEF Only, Active
  <2>. QED
    BY <2>1 DEF TicketInv, OneRequestPerTicket
<1>7. SentOK'
  BY <1>1, <1>2, <1>3, <1>4 DEF TicketInv, SentOK
<1>8. ASSUME NEW y \in sent', NEW z \in sent', y.ticket = z.ticket, y # z
      PROVE  y.life # z.life /\ y.url = z.url
  <2>1. CASE y \in sent /\ z \in sent
    BY <1>8, <2>1 DEF TicketInv, ReuseNeedsRestart
  <2>2. CASE y = x
    BY <1>2, <1>4, <1>8, <2>2 DEF TicketInv, SentOK
  <2>3. CASE z = x
    BY <1>2, <1>4, <1>8, <2>3 DEF TicketInv, SentOK
  <2>. QED
    BY <1>2, <1>8, <2>1, <2>2, <2>3
<1>. QED
  BY <1>5, <1>6, <1>7, <1>8 DEF TicketInv, ReuseNeedsRestart

\* Every step keeps the accounting of tickets.
LEMMA TicketStep ==
    ASSUME Typed, TicketInv, [Next]_vars
    PROVE  TicketInv'
<1>1. CASE Start
  <2>1. /\ proc = "down" /\ life' = life + 1 /\ life \in Nat
        /\ UNCHANGED <<used, issued, pc, ctx, sent>>
    BY <1>1 DEF Start, Typed, TypeOK
  <2>2. \A s \in Requests : pc[s] \notin Active
    BY <2>1, RequestTypes
  <2>3. \A s \in sent : s.life \in Nat /\ s.life <= life
    BY DEF Typed, TypeOK, Response, TicketInv, SentOK
  <2>4. SentOK'
    BY <2>1, <2>3 DEF TicketInv, SentOK
  <2>. QED
    BY <2>1, <2>2, <2>4 DEF TicketInv, TicketOK, OneRequestPerTicket, ReuseNeedsRestart
<1>2. CASE Advertise \/ Tick
  BY <1>2, TicketKept, RequestTypes DEF Advertise, Tick, process
<1>3. CASE Stop
  <2>1. \A s \in Requests : pc'[s] \notin Active
    BY <1>3 DEF Stop, Active
  <2>. QED
    BY <1>3, <2>1, TicketKept DEF Stop
<1>4. ASSUME NEW t \in TransferIds, NEW content \in Contents, AdminInsertBlob(t, content)
      PROVE  TicketInv'
  BY <1>4, TicketKept, RequestTypes DEF AdminInsertBlob, process
<1>5. ASSUME NEW n \in Tickets, NEW t \in TransferIds, NEW u \in Urls, IssueTicket(n, t, u)
      PROVE  TicketInv'
  <2>1. \A m \in Tickets : issued[m] # Null => issued'[m] = issued[m]
    BY <1>5 DEF IssueTicket, Typed, TypeOK
  <2>. QED
    BY <1>5, <2>1, TicketKept, RequestTypes DEF IssueTicket, process
<1>6. ASSUME NEW r \in Requests, Present(r) PROVE TicketInv'
  BY <1>6, PresentTicket
<1>7. ASSUME NEW r \in Requests,
             ReadMetadata(r) \/ ReadCache(r) \/ ReadForScan(r) \/ WriteCache(r)
      PROVE  TicketInv'
  <2>1. /\ Only(r) /\ UNCHANGED <<used, sent>> /\ pc[r] \in Active
        /\ pc'[r] \in Active => ctx'[r].ticket = ctx[r].ticket
    BY <1>7, ReadMetadataEffect, ReadCacheEffect, ReadForScanEffect, WriteCacheEffect
       DEF Active
  <2>. QED
    BY <2>1, TicketKept, RequestTypes DEF Only
<1>8. ASSUME NEW r \in Requests, Send(r) PROVE TicketInv'
  BY <1>8, SendTicket
<1>9. CASE UNCHANGED vars
  BY <1>9, TicketKept, RequestTypes DEF vars
<1>. QED
  BY <1>1, <1>2, <1>3, <1>4, <1>5, <1>6, <1>7, <1>8, <1>9 DEF Next

\* TicketVerifier answers a ticket with bytes twice only across a restart
\* under an unchanged url, however many requests present it at once.
THEOREM TicketsSpentOncePerLife == Spec => []ReuseNeedsRestart
<1>1. Init => TicketInv
  BY DEF Init, TicketInv, TicketOK, OneRequestPerTicket, SentOK, ReuseNeedsRestart, Active
<1>2. Typed /\ TicketInv /\ [Next]_vars => TicketInv'
  BY TicketStep
<1>3. TicketInv => ReuseNeedsRestart
  BY DEF TicketInv
<1>. QED
  BY <1>1, <1>2, <1>3, Typing, PTL DEF Spec

-----------------------------------------------------------------------------
(* Scans *)

\* Nothing is blocking that is not a payload.
LEMMA NullIsNotBlocking == Null \notin Blocking
BY ContentsAssumption DEF Blocking

\* Steps that change no blob and no verdict and send nothing.
LEMMA ScanKept ==
    ASSUME ScanInv, UNCHANGED <<life, blobs, cache, sent, replaced>>,
           \A s \in Requests : ScanOK(s)'
    PROVE  ScanInv'
BY DEF ScanInv, VerdictsOfBlobs, CacheMatchesBlob, SentAsScanned

\* A request that is not touched, while no blob changes.
LEMMA OtherScan ==
    ASSUME ScanInv, NEW s \in Requests, pc'[s] = pc[s], ctx'[s] = ctx[s],
           UNCHANGED <<life, blobs, replaced>>
    PROVE  ScanOK(s)'
BY DEF ScanInv, ScanOK

\* Requests read the stored blob, and a clean verdict is of the stored blob.
LEMMA ReadScan ==
    ASSUME Typed, ScanInv, NEW r \in Requests,
           ReadMetadata(r) \/ ReadCache(r) \/ ReadForScan(r)
    PROVE  ScanInv'
<1>1. Only(r) /\ UNCHANGED <<cache, sent>>
  BY ReadMetadataEffect, ReadCacheEffect, ReadForScanEffect
<1>2. UNCHANGED <<life, blobs, replaced>>
  BY <1>1 DEF Only
<1>3. ScanOK(r)'
  <2>1. CASE ReadMetadata(r)
    BY <1>2, <2>1, ReadMetadataEffect DEF ScanOK, Found
  <2>2. CASE ReadCache(r)
    <3>1. pc[r] = "read_cache" /\ ctx[r].tx \in TransferIds
      BY <2>2, ReadCacheEffect, RequestTypes DEF Active
    <3>2. \/ pc'[r] = "done"
          \/ /\ ctx'[r] = ctx[r]
             /\ \/ pc'[r] = "send" /\ cache[ctx[r].tx] = "clean"
                \/ pc'[r] = "read_for_scan"
      BY <2>2, ReadCacheEffect
    <3>. QED
      BY <1>2, <3>1, <3>2 DEF ScanInv, ScanOK, CacheMatchesBlob, Found
  <2>3. CASE ReadForScan(r)
    BY <1>2, <2>3, ReadForScanEffect DEF ScanInv, ScanOK, Found
  <2>. QED
    BY <2>1, <2>2, <2>3
<1>4. ASSUME NEW s \in Requests, s # r PROVE ScanOK(s)'
  BY <1>1, <1>2, <1>4, OtherScan DEF Only
<1>. QED
  BY <1>1, <1>2, <1>3, <1>4, ScanKept

\* The verdict is cached for the blob it is of.
LEMMA WriteCacheScan ==
    ASSUME Typed, ScanInv, NEW r \in Requests, WriteCache(r)
    PROVE  ScanInv'
<1>. DEFINE t == ctx[r].tx
<1>1. /\ Only(r) /\ sent' = sent /\ pc[r] = "write_cache"
      /\ \/ /\ pc'[r] = "done" /\ ctx[r].scanned \in Blocking
            /\ cache' = [cache EXCEPT ![t] = "blocked"]
         \/ /\ pc'[r] = "send" /\ ctx'[r] = ctx[r] /\ ctx[r].scanned \notin Blocking
            /\ cache' = [cache EXCEPT ![t] = "clean"]
  BY WriteCacheEffect
<1>2. UNCHANGED <<life, blobs, replaced>>
  BY <1>1 DEF Only
<1>3. t \in TransferIds /\ blobs[t] # Null
  BY <1>1, RequestTypes, ContentsAssumption DEF Active, Found
<1>4. /\ <<life, t>> \notin replaced => ctx[r].scanned = blobs[t] /\ ctx[r].meta = blobs[t]
  BY <1>1 DEF ScanInv, ScanOK, Found
<1>5. ScanOK(r)'
  BY <1>1, <1>2, <1>4 DEF ScanOK, Found
<1>6. ASSUME NEW s \in Requests, s # r PROVE ScanOK(s)'
  BY <1>1, <1>2, <1>6, OtherScan DEF Only
<1>7. \A u \in TransferIds : u # t => cache'[u] = cache[u]
  BY <1>1 DEF Typed, TypeOK
<1>8. /\ ctx[r].scanned \in Blocking => cache'[t] = "blocked"
      /\ ctx[r].scanned \notin Blocking => cache'[t] = "clean"
  BY <1>1, <1>3 DEF Typed, TypeOK
<1>9. VerdictsOfBlobs'
  BY <1>2, <1>3, <1>7 DEF ScanInv, VerdictsOfBlobs
<1>10. CacheMatchesBlob'
  BY <1>2, <1>4, <1>7, <1>8 DEF ScanInv, CacheMatchesBlob
<1>11. SentAsScanned'
  BY <1>1, <1>2 DEF ScanInv, SentAsScanned
<1>. QED
  BY <1>5, <1>6, <1>9, <1>10, <1>11 DEF ScanInv

\* What is sent is the stored blob, which may be sent.
LEMMA SendScan ==
    ASSUME Typed, ScanInv, NEW r \in Requests, Send(r)
    PROVE  ScanInv'
<1>1. /\ Only(r) /\ cache' = cache /\ pc[r] = "send" /\ pc'[r] = "done"
  BY SendEffect
<1>2. PICK x \in Response :
         /\ sent' = sent \cup {x}
         /\ x.life = life /\ x.tx = ctx[r].tx /\ x.meta = ctx[r].meta
         /\ x.body = blobs[ctx[r].tx]
  BY SendEffect
<1>3. UNCHANGED <<life, blobs, replaced>>
  BY <1>1 DEF Only
<1>4. <<x.life, x.tx>> \notin replaced => x.body \notin Blocking /\ x.meta = x.body
  BY <1>1, <1>2 DEF ScanInv, ScanOK, Found
<1>5. SentAsScanned'
  BY <1>2, <1>3, <1>4 DEF ScanInv, SentAsScanned
<1>6. ScanOK(r)'
  BY <1>1 DEF ScanOK, Found
<1>7. ASSUME NEW s \in Requests, s # r PROVE ScanOK(s)'
  BY <1>1, <1>3, <1>7, OtherScan DEF Only
<1>. QED
  BY <1>1, <1>3, <1>5, <1>6, <1>7 DEF ScanInv, VerdictsOfBlobs, CacheMatchesBlob

\* The admin endpoint inserts a blob where there is none, repeats the one
\* there is, or replaces it.
LEMMA AdminInsertScan ==
    ASSUME Typed, ScanInv, NEW t \in TransferIds, NEW content \in Contents,
           AdminInsertBlob(t, content)
    PROVE  ScanInv'
<1>1. /\ blobs' = [blobs EXCEPT ![t] = content]
      /\ replaced' = IF blobs[t] \in {Null, content} THEN replaced
                     ELSE replaced \cup {<<life, t>>}
      /\ UNCHANGED <<life, cache, pc, ctx, sent>>
  BY DEF AdminInsertBlob, process
<1>2. /\ blobs'[t] = content /\ \A u \in TransferIds : u # t => blobs'[u] = blobs[u]
      /\ replaced \subseteq replaced'
      /\ <<life, t>> \notin replaced' => blobs[t] \in {Null, content}
      /\ content # Null
  BY <1>1, ContentsAssumption DEF Typed, TypeOK
<1>3. ASSUME NEW s \in Requests PROVE ScanOK(s)'
  <2>. DEFINE u == ctx[s].tx
  <2>. SUFFICES ASSUME pc[s] \in Found, <<life, u>> \notin replaced'
                PROVE  /\ ctx[s].meta = blobs'[u]
                       /\ pc[s] = "write_cache" => ctx[s].scanned = blobs'[u]
                       /\ pc[s] = "send" => blobs'[u] \notin Blocking
    BY <1>1 DEF ScanOK
  <2>1. u \in TransferIds /\ blobs[u] # Null
    BY RequestTypes, ContentsAssumption DEF Active, Found
  <2>2. blobs'[u] = blobs[u]
    BY <1>2, <2>1
  <2>3. <<life, u>> \notin replaced
    BY <1>2
  <2>. QED
    BY <2>2, <2>3 DEF ScanInv, ScanOK
<1>4. VerdictsOfBlobs'
  BY <1>1, <1>2 DEF ScanInv, VerdictsOfBlobs
<1>5. CacheMatchesBlob'
  <2>. SUFFICES ASSUME NEW u \in TransferIds, <<life, u>> \notin replaced'
                PROVE  /\ cache[u] = "clean" => blobs'[u] \notin Blocking
                       /\ cache[u] = "blocked" => blobs'[u] \in Blocking
    BY <1>1 DEF CacheMatchesBlob
  <2>1. cache[u] # "none" => blobs'[u] = blobs[u]
    BY <1>2 DEF ScanInv, VerdictsOfBlobs
  <2>2. <<life, u>> \notin replaced
    BY <1>2
  <2>. QED
    BY <2>1, <2>2 DEF ScanInv, CacheMatchesBlob
<1>6. SentAsScanned'
  BY <1>1, <1>2 DEF ScanInv, SentAsScanned
<1>. QED
  BY <1>3, <1>4, <1>5, <1>6 DEF ScanInv

\* Every step keeps verdicts and blobs together.
LEMMA ScanStep ==
    ASSUME Typed, ScanInv, [Next]_vars
    PROVE  ScanInv'
<1>1. CASE Start
  <2>1. /\ proc = "down" /\ blobs = NoBlobs /\ UNCHANGED <<cache, pc, ctx, sent, replaced>>
    BY <1>1 DEF Start, Typed, TypeOK
  <2>2. \A s \in Requests : pc[s] \notin Found
    BY <2>1, RequestTypes DEF Active, Found
  <2>3. \A t \in TransferIds : cache[t] = "none"
    BY <2>1 DEF ScanInv, VerdictsOfBlobs, NoBlobs
  <2>. QED
    BY <2>1, <2>2, <2>3 DEF ScanInv, ScanOK, VerdictsOfBlobs, CacheMatchesBlob, SentAsScanned
<1>2. CASE Stop
  <2>1. \A s \in Requests : pc'[s] \notin Found
    BY <1>2 DEF Stop, Found
  <2>2. \A t \in TransferIds : cache'[t] = "none"
    BY <1>2 DEF Stop, NoVerdicts
  <2>. QED
    BY <1>2, <2>1, <2>2
       DEF Stop, ScanInv, ScanOK, VerdictsOfBlobs, CacheMatchesBlob, SentAsScanned
<1>3. CASE Advertise \/ Tick
  BY <1>3, ScanKept, OtherScan DEF Advertise, Tick, process
<1>4. ASSUME NEW t \in TransferIds, NEW content \in Contents, AdminInsertBlob(t, content)
      PROVE  ScanInv'
  BY <1>4, AdminInsertScan
<1>5. ASSUME NEW n \in Tickets, NEW t \in TransferIds, NEW u \in Urls, IssueTicket(n, t, u)
      PROVE  ScanInv'
  BY <1>5, ScanKept, OtherScan DEF IssueTicket, process
<1>6. ASSUME NEW r \in Requests, Present(r) PROVE ScanInv'
  <2>1. /\ Only(r) /\ UNCHANGED <<cache, sent>> /\ pc'[r] \notin Found
    BY <1>6, PresentEffect DEF Found
  <2>2. UNCHANGED <<life, blobs, replaced>>
    BY <2>1 DEF Only
  <2>3. ASSUME NEW s \in Requests PROVE ScanOK(s)'
    <3>1. CASE s = r
      BY <2>1, <3>1 DEF ScanOK
    <3>2. CASE s # r
      BY <2>1, <2>2, <3>2, OtherScan DEF Only
    <3>. QED
      BY <3>1, <3>2
  <2>. QED
    BY <2>1, <2>2, <2>3, ScanKept
<1>7. ASSUME NEW r \in Requests, ReadMetadata(r) \/ ReadCache(r) \/ ReadForScan(r)
      PROVE  ScanInv'
  BY <1>7, ReadScan
<1>8. ASSUME NEW r \in Requests, WriteCache(r) PROVE ScanInv'
  BY <1>8, WriteCacheScan
<1>9. ASSUME NEW r \in Requests, Send(r) PROVE ScanInv'
  BY <1>9, SendScan
<1>10. CASE UNCHANGED vars
  BY <1>10, ScanKept, OtherScan DEF vars
<1>. QED
  BY <1>1, <1>2, <1>3, <1>4, <1>5, <1>6, <1>7, <1>8, <1>9, <1>10 DEF Next

\* Verdicts and blobs stay together in every reachable state.
LEMMA Scans == Spec => []ScanInv
<1>1. Init => ScanInv
  BY NullIsNotBlocking
     DEF Init, ScanInv, ScanOK, VerdictsOfBlobs, CacheMatchesBlob, SentAsScanned, Found,
         NoBlobs, NoVerdicts
<1>2. Typed /\ ScanInv /\ [Next]_vars => ScanInv'
  BY ScanStep
<1>. QED
  BY <1>1, <1>2, Typing, PTL DEF Spec

\* Unless its blob was replaced by the admin endpoint, serve sends no bytes
\* that the pipeline would block, and sends them under their own metadata.
THEOREM OnlyScannedBytesLeave == Spec => []SentAsScanned
<1>1. ScanInv => SentAsScanned
  BY DEF ScanInv
<1>. QED
  BY <1>1, Scans, PTL

\* Unless the blob was replaced, the verdict in scan_cache is the one the
\* pipeline gives to the stored blob.
THEOREM VerdictsMatchBlobs == Spec => []CacheMatchesBlob
<1>1. ScanInv => CacheMatchesBlob
  BY DEF ScanInv
<1>. QED
  BY <1>1, Scans, PTL

-----------------------------------------------------------------------------
(* One life of the process *)

\* A line appended to stdout is the last one and leaves the others as they are.
LEMMA OneMoreLine ==
    ASSUME stdout \in Seq(Lines), NEW line \in Lines,
           stdout' = Append(stdout, line)
    PROVE  /\ stdout' \in Seq(Lines)
           /\ DOMAIN stdout' = DOMAIN stdout \cup {Len(stdout) + 1}
           /\ \A i \in DOMAIN stdout : stdout'[i] = stdout[i]
           /\ stdout'[Len(stdout) + 1] = line
OBVIOUS

\* A line answers Printed when it was there or is the new one.
LEMMA PrintedNow ==
    ASSUME stdout \in Seq(Lines), NEW line \in Lines,
           stdout' = Append(stdout, line), NEW what
    PROVE  Printed(what)' <=> Printed(what) \/ line[1] = what
BY OneMoreLine DEF Printed

\* A probe is content with the canonical answer only.
LEMMA ProbesAnswer ==
    ASSUME NEW a \in Answers
    PROVE  "ok" \in {ProbeApple(a), ProbeGoogle(a), ProbeMs(a)} => a = "expected"
<1>1. ProbeApple(a) = "ok" => a = "expected"
  BY DEF Answers, ProbeApple
<1>2. ProbeGoogle(a) = "ok" => a = "expected"
  BY DEF Answers, ProbeGoogle
<1>3. ProbeMs(a) = "ok" => a = "expected"
  BY DEF Answers, ProbeMs
<1>. QED
  BY <1>1, <1>2, <1>3

\* consensus reports a portal that one probe met, whatever the others met, and
\* an open network only when all three agree.
LEMMA ConsensusAnswers ==
    ASSUME NEW results
    PROVE  /\ Consensus(results) \in NetworkState
           /\ "captive" \in results => Consensus(results) = "captive_portal"
           /\ Consensus(results) = "direct" => results = {"ok"}
<1>1. CASE "captive" \in results
  BY <1>1 DEF Consensus, NetworkState
<1>2. CASE "captive" \notin results
  BY <1>2 DEF Consensus, NetworkState
<1>. QED
  BY <1>1, <1>2

\* main before and after it spawns the server task.
Starting == {"from_env", "bind", "resolve", "await_url", "load_blob", "spawn_server"}
Announcing == {"verify", "print_url", "print_ready", "print_transports", "join"}

\* main is at a step of its own, and the probes have not begun before it reads
\* its options.
BootTyped ==
    /\ BootTypeOK
    /\ main \in Starting \cup Announcing \cup {"returned"}
    /\ main = "from_env" => stdout = <<>> /\ answers = [p \in Probers |-> "idle"]

\* The server task exists from the time main spawns it and stops by itself
\* only after a signal; the ready line is printed only from then on.
ServedInv ==
    /\ exit = "none" /\ main \in Starting => server = "none"
    /\ exit = "none" /\ main \in Announcing => server \in {"spawned", "serving"} \/ signalled
    /\ exit = "none" => main # "returned"
    /\ Printed("ready") => main \in {"print_transports", "join", "returned"}

\* Lines that are not about the network change nothing about it.
LEMMA OtherLine ==
    ASSUME BootTyped, NEW line \in Lines, line[1] # "network",
           stdout' = Append(stdout, line)
    PROVE  /\ stdout' \in Seq(Lines)
           /\ \A i \in DOMAIN stdout' :
                 stdout'[i][1] = "network" => i \in DOMAIN stdout /\ stdout'[i] = stdout[i]
BY OneMoreLine DEF BootTyped, BootTypeOK

\* The lines main prints.
LEMMA MainLines ==
    ASSUME BootTyped
    PROVE  /\ <<"url", opts.provider>> \in Lines
           /\ <<"ready", "1">> \in Lines
           /\ <<"transports", TransportKind>> \in Lines
<1>1. opts.provider \in {"cloudflare", "none", "other"}
  BY EnvironmentsAssumption DEF BootTyped, BootTypeOK, Opts
<1>2. TransportKind \in {"cloudflare_quick", "cloudflare_named"}
  BY DEF TransportKind
<1>. QED
  BY <1>1, <1>2 DEF Lines

\* The result of the probes is a state of the network.
LEMMA NetworkLine ==
    ASSUME NEW v \in NetworkState
    PROVE  <<"network", v>> \in Lines
BY DEF NetworkState, Lines

\* Returning from main.
LEMMA ReturnTyped ==
    ASSUME BootTyped, NEW code \in {"ok", "error"}, Return(code),
           UNCHANGED <<opts, now, stdout, signalled>>,
           answers' \in [Probers -> Answers \cup {"idle", "pending"}]
    PROVE  BootTyped'
BY DEF BootTyped, BootTypeOK, Return, Starting, Announcing

\* A step of main that prints nothing.
LEMMA ProceedTyped ==
    ASSUME BootTyped, NEW step \in Starting \cup Announcing, Proceed(step), step # "from_env",
           UNCHANGED <<opts, stdout, signalled>>, now' \in 0 .. ReadinessTimeout,
           child' \in {"none", "running", "ended"},
           server' \in {"none", "spawned", "serving", "draining", "stopped"},
           answers' \in [Probers -> Answers \cup {"idle", "pending"}]
    PROVE  BootTyped'
BY DEF BootTyped, BootTypeOK, Proceed

\* A step beside main that leaves the probes alone.
LEMMA BesideTyped ==
    ASSUME BootTyped, UNCHANGED <<opts, main, now, stdout, answers>>,
           child' \in {"none", "running", "ended"},
           server' \in {"none", "spawned", "serving", "draining", "stopped"},
           exit' \in {"none", "ok", "error", "killed"}, signalled' \in BOOLEAN
    PROVE  BootTyped'
BY DEF BootTyped, BootTypeOK

\* A line of main.
LEMMA WriteTyped ==
    ASSUME BootTyped, NEW step, NEW line \in Lines, line[1] # "network",
           NEW next \in Announcing, WriteLine(step, line, next)
    PROVE  BootTyped'
<1>1. /\ stdout' \in Seq(Lines)
      /\ \A i \in DOMAIN stdout' :
            stdout'[i][1] = "network" => i \in DOMAIN stdout /\ stdout'[i] = stdout[i]
  BY OtherLine DEF WriteLine
<1>. QED
  BY <1>1 DEF BootTyped, BootTypeOK, WriteLine, Proceed, At, Announcing

\* The line of the probes.
LEMMA EmitTyped ==
    ASSUME BootTyped, NEW v \in NetworkState, stdout' = Append(stdout, <<"network", v>>),
           answers # [p \in Probers |-> "idle"],
           UNCHANGED <<opts, main, now, child, server, answers, exit, signalled>>
    PROVE  BootTyped'
<1>1. <<"network", v>> \in Lines
  BY NetworkLine
<1>2. /\ stdout' \in Seq(Lines)
      /\ DOMAIN stdout' = DOMAIN stdout \cup {Len(stdout) + 1}
      /\ \A i \in DOMAIN stdout : stdout'[i] = stdout[i]
      /\ stdout'[Len(stdout) + 1] = <<"network", v>>
  BY <1>1, OneMoreLine DEF BootTyped, BootTypeOK
<1>3. \A i \in DOMAIN stdout' : stdout'[i][1] = "network" => stdout'[i][2] \in NetworkState
  BY <1>2 DEF BootTyped, BootTypeOK
<1>. QED
  BY <1>2, <1>3 DEF BootTyped, BootTypeOK

\* Every step keeps the types.
LEMMA BootTypedStep ==
    ASSUME BootTyped, [NextBoot]_bootVars
    PROVE  BootTyped'
<1>1. /\ answers \in [Probers -> Answers \cup {"idle", "pending"}]
      /\ child \in {"none", "running", "ended"} /\ now \in 0 .. ReadinessTimeout
      /\ server \in {"none", "spawned", "serving", "draining", "stopped"}
      /\ exit \in {"none", "ok", "error", "killed"} /\ signalled \in BOOLEAN
  BY DEF BootTyped, BootTypeOK
<1>2. CASE FromEnv
  <2>1. [p \in Probers |-> "pending"] \in [Probers -> Answers \cup {"idle", "pending"}]
    OBVIOUS
  <2>. QED
    BY <1>1, <1>2, <2>1, ReturnTyped, ProceedTyped DEF FromEnv, Starting
<1>3. CASE Bind
  BY <1>1, <1>3, ReturnTyped, ProceedTyped DEF Bind, Starting
<1>4. CASE ResolvePublicUrl
  BY <1>1, <1>4, ReturnTyped, ProceedTyped DEF ResolvePublicUrl, Starting
<1>5. CASE TunnelUrl
  BY <1>1, <1>5, ProceedTyped DEF TunnelUrl, Starting
<1>6. CASE TunnelNoUrl
  BY <1>1, <1>6, ReturnTyped DEF TunnelNoUrl
<1>7. CASE LoadBlobSource
  BY <1>1, <1>7, ReturnTyped, ProceedTyped DEF LoadBlobSource, Starting
<1>8. CASE SpawnServer
  BY <1>1, <1>8, ReturnTyped, ProceedTyped DEF SpawnServer, Announcing
<1>9. CASE VerifyAttempt
  <2>1. CASE Proceed("print_url") /\ UNCHANGED now
    BY <1>1, <1>9, <2>1, ProceedTyped DEF VerifyAttempt, Announcing
  <2>2. CASE now' = now + 1 /\ UNCHANGED <<main, exit>>
    <3>1. now' \in 0 .. ReadinessTimeout
      BY <1>1, <1>9, <2>2, TimeoutAssumption DEF VerifyAttempt
    <3>. QED
      BY <1>9, <2>2, <3>1 DEF VerifyAttempt, BootTyped, BootTypeOK
  <2>. QED
    BY <1>9, <2>1, <2>2 DEF VerifyAttempt
<1>10. CASE VerifyGivesUp
  BY <1>1, <1>10, ReturnTyped DEF VerifyGivesUp
<1>11. CASE PrintUrl \/ PrintReady \/ PrintTransports
  <2>1. /\ <<"url", opts.provider>>[1] # "network" /\ <<"ready", "1">>[1] # "network"
        /\ <<"transports", TransportKind>>[1] # "network"
        /\ {"print_ready", "print_transports", "join"} \subseteq Announcing
    BY DEF Announcing
  <2>. QED
    BY <1>11, <2>1, MainLines, WriteTyped DEF PrintUrl, PrintReady, PrintTransports
<1>12. CASE Join
  BY <1>1, <1>12, ReturnTyped DEF Join
<1>13. ASSUME NEW p \in Probers, NEW answer \in Answers, Probe(p, answer)
       PROVE  BootTyped'
  <2>1. answers' \in [Probers -> Answers \cup {"idle", "pending"}]
    BY <1>1, <1>13 DEF Probe
  <2>2. main # "from_env"
    BY <1>13 DEF BootTyped, Probe
  <2>. QED
    BY <1>13, <2>1, <2>2 DEF Probe, BootTyped, BootTypeOK
<1>14. CASE EmitNetworkState
  <2>1. PICK results : stdout' = Append(stdout, <<"network", Consensus(results)>>)
    BY <1>14 DEF EmitNetworkState
  <2>2. answers # [p \in Probers |-> "idle"]
    BY <1>14 DEF EmitNetworkState, Probers, Answers, Redirects
  <2>. QED
    BY <1>14, <2>1, <2>2, ConsensusAnswers, EmitTyped DEF EmitNetworkState
<1>15. CASE EmitUnknown
  <2>1. answers # [p \in Probers |-> "idle"] /\ "unknown" \in NetworkState
    BY <1>15 DEF EmitUnknown, Probers, NetworkState
  <2>. QED
    BY <1>15, <2>1, EmitTyped DEF EmitUnknown
<1>16. CASE ServerPolled \/ Signal \/ Drained \/ ChildExits
  BY <1>1, <1>16, BesideTyped DEF ServerPolled, Signal, Drained, ChildExits
<1>17. CASE UNCHANGED bootVars
  BY <1>17 DEF bootVars, BootTyped, BootTypeOK
<1>. QED
  BY <1>2, <1>3, <1>4, <1>5, <1>6, <1>7, <1>8, <1>9, <1>10, <1>11, <1>12, <1>13, <1>14,
     <1>15, <1>16, <1>17 DEF NextBoot, SetUp, Announce

\* The lemma every theorem about a life of the process rests on.
LEMMA BootTyping == BootSafety => []BootTyped
<1>1. InitBoot => BootTyped
  <2>1. <<>> \in Seq(Lines) /\ DOMAIN <<>> = {} /\ 0 \in 0 .. ReadinessTimeout
    BY TimeoutAssumption
  <2>2. [p \in Probers |-> "idle"] \in [Probers -> Answers \cup {"idle", "pending"}]
    OBVIOUS
  <2>. QED
    BY <2>1, <2>2 DEF InitBoot, BootTyped, BootTypeOK, Starting
<1>2. BootTyped /\ [NextBoot]_bootVars => BootTyped'
  BY BootTypedStep
<1>. QED
  BY <1>1, <1>2, PTL DEF BootSafety

\* What main, the tunnel child, the server task and the probes keep has its
\* type, and every network state on stdout is one that emit_network_state has.
THEOREM BootTypeCorrect == BootSafety => []BootTypeOK
<1>1. BootTyped => BootTypeOK
  BY DEF BootTyped
<1>. QED
  BY <1>1, BootTyping, PTL

\* main announces itself only while its server runs, or after a signal.
LEMMA ServedStep ==
    ASSUME BootTyped, ServedInv, [NextBoot]_bootVars
    PROVE  ServedInv'
<1>1. ASSUME NEW code \in {"ok", "error"}, Return(code), UNCHANGED <<stdout, signalled>>
      PROVE  ServedInv'
  BY <1>1 DEF ServedInv, Return, Printed
<1>2. ASSUME NEW step \in Starting, main \in Starting, Proceed(step),
             UNCHANGED <<server, stdout, signalled>>
      PROVE  ServedInv'
  BY <1>2 DEF ServedInv, Proceed, Printed, Starting, Announcing
<1>3. ASSUME NEW line \in Lines, NEW next \in Announcing, NEW step \in Announcing,
             WriteLine(step, line, next),
             line[1] = "ready" \/ step = "print_transports" => next \in {"print_transports", "join"},
             step \in {"print_url", "print_ready", "print_transports"}
      PROVE  ServedInv'
  <2>1. Printed("ready")' <=> Printed("ready") \/ line[1] = "ready"
    BY <1>3, PrintedNow DEF BootTyped, BootTypeOK, WriteLine
  <2>2. main = step /\ main' = next /\ exit = "none" /\ UNCHANGED <<exit, server, signalled>>
    BY <1>3 DEF WriteLine, Proceed, At
  <2>. QED
    BY <1>3, <2>1, <2>2 DEF ServedInv, Starting, Announcing
<1>4. CASE FromEnv \/ Bind \/ ResolvePublicUrl \/ TunnelUrl \/ TunnelNoUrl \/ LoadBlobSource
  BY <1>1, <1>2, <1>4
     DEF FromEnv, Bind, ResolvePublicUrl, TunnelUrl, TunnelNoUrl, LoadBlobSource, At, Starting
<1>5. CASE SpawnServer
  <2>1. CASE server' = "spawned" /\ Proceed("verify")
    BY <1>5, <2>1 DEF SpawnServer, At, Proceed, ServedInv, Printed, Starting, Announcing
  <2>. QED
    BY <1>1, <1>5, <2>1 DEF SpawnServer
<1>6. CASE VerifyAttempt
  BY <1>6 DEF VerifyAttempt, At, Proceed, ServedInv, Printed, Starting, Announcing
<1>7. CASE VerifyGivesUp \/ Join
  BY <1>1, <1>7 DEF VerifyGivesUp, Join
<1>8. CASE PrintUrl
  BY <1>3, <1>8, MainLines DEF PrintUrl, Announcing
<1>9. CASE PrintReady
  BY <1>3, <1>9, MainLines DEF PrintReady, Announcing
<1>10. CASE PrintTransports
  BY <1>3, <1>10, MainLines DEF PrintTransports, Announcing
<1>11. ASSUME NEW p \in Probers, NEW answer \in Answers, Probe(p, answer)
       PROVE  ServedInv'
  BY <1>11 DEF Probe, ServedInv, Printed
<1>12. CASE EmitNetworkState \/ EmitUnknown
  <2>1. PICK v \in NetworkState : stdout' = Append(stdout, <<"network", v>>)
    BY <1>12, ConsensusAnswers DEF EmitNetworkState, EmitUnknown, NetworkState
  <2>2. Printed("ready")' <=> Printed("ready")
    BY <2>1, NetworkLine, PrintedNow DEF BootTyped, BootTypeOK
  <2>. QED
    BY <1>12, <2>2 DEF EmitNetworkState, EmitUnknown, ServedInv
<1>13. CASE ServerPolled \/ Signal \/ Drained \/ ChildExits
  BY <1>13 DEF ServerPolled, Signal, Drained, ChildExits, BootTyped, ServedInv, Printed
<1>14. CASE UNCHANGED bootVars
  BY <1>14 DEF bootVars, ServedInv, Printed
<1>. QED
  BY <1>4, <1>5, <1>6, <1>7, <1>8, <1>9, <1>10, <1>11, <1>12, <1>13, <1>14
     DEF NextBoot, SetUp, Announce

\* The "ready" line is printed only by a process whose server was spawned; that
\* server has not stopped unless a signal told it to.
THEOREM ReadyMeansServed == BootSafety => []ReadyIsServed
<1>1. InitBoot => ServedInv
  BY DEF InitBoot, ServedInv, Printed, Starting, Announcing
<1>2. BootTyped /\ ServedInv /\ [NextBoot]_bootVars => ServedInv'
  BY ServedStep
<1>3. ServedInv => ReadyIsServed
  BY DEF ServedInv, ReadyIsServed, Announcing
<1>. QED
  BY <1>1, <1>2, <1>3, BootTyping, PTL DEF BootSafety

\* A line of main says nothing of the network.
LEMMA PortalKept ==
    ASSUME BootTyped, PortalNotMissed, NEW line \in Lines, line[1] # "network",
           stdout' = Append(stdout, line), UNCHANGED answers
    PROVE  PortalNotMissed'
<1>1. \A i \in DOMAIN stdout' :
        stdout'[i][1] = "network" => i \in DOMAIN stdout /\ stdout'[i] = stdout[i]
  BY OtherLine
<1>2. ASSUME NEW i \in DOMAIN stdout', stdout'[i] = <<"network", "direct">>
      PROVE  stdout'[i][1] = "network"
  BY <1>2
<1>3. ASSUME NEW i \in DOMAIN stdout', stdout'[i] = <<"network", "direct">>
      PROVE  \A p \in Probers : Followed(answers'[p]) = "expected"
  <2>1. i \in DOMAIN stdout /\ stdout[i] = <<"network", "direct">>
    BY <1>1, <1>2, <1>3
  <2>. QED
    BY <2>1 DEF PortalNotMissed
<1>4. ASSUME NEW i \in DOMAIN stdout', stdout'[i][1] = "network",
             \E p \in Probers : MeetsPortal(p)'
      PROVE  stdout'[i][2] = "captive_portal"
  <2>1. i \in DOMAIN stdout /\ stdout'[i] = stdout[i]
    BY <1>1, <1>4
  <2>. QED
    BY <1>4, <2>1 DEF PortalNotMissed, MeetsPortal
<1>. QED
  BY <1>3, <1>4 DEF PortalNotMissed

\* The line of the probes tells what they met.
LEMMA PortalEmitted ==
    ASSUME BootTyped, PortalNotMissed, ~Printed("network"), UNCHANGED answers,
           NEW v \in NetworkState, stdout' = Append(stdout, <<"network", v>>),
           v = "direct" => \A p \in Probers : Followed(answers[p]) = "expected",
           (\E p \in Probers : MeetsPortal(p)) => v = "captive_portal"
    PROVE  PortalNotMissed'
<1>1. /\ DOMAIN stdout' = DOMAIN stdout \cup {Len(stdout) + 1}
      /\ \A i \in DOMAIN stdout : stdout'[i] = stdout[i]
      /\ stdout'[Len(stdout) + 1] = <<"network", v>>
  BY NetworkLine, OneMoreLine DEF BootTyped, BootTypeOK
<1>2. <<"network", v>>[2] = v /\ <<"network", "direct">>[2] = "direct"
  OBVIOUS
<1>3. \A p \in Probers : MeetsPortal(p)' <=> MeetsPortal(p)
  BY DEF MeetsPortal
<1>. QED
  BY <1>1, <1>2, <1>3 DEF PortalNotMissed

\* The three probes and what consensus makes of them.
LEMMA EmittedIsMet ==
    ASSUME BootTyped, EmitNetworkState
    PROVE  \E v \in NetworkState :
              /\ stdout' = Append(stdout, <<"network", v>>)
              /\ v = "direct" => \A p \in Probers : Followed(answers[p]) = "expected"
              /\ (\E p \in Probers : MeetsPortal(p)) =>
                    v = "captive_portal"
<1>. DEFINE results == {ProbeApple(Followed(answers["apple"])),
                        ProbeGoogle(Followed(answers["google"])),
                        ProbeMs(Followed(answers["ms"]))}
<1>1. stdout' = Append(stdout, <<"network", Consensus(results)>>)
  BY DEF EmitNetworkState
<1>2. \A p \in Probers : answers[p] \in Answers /\ Followed(answers[p]) \in Answers
  BY DEF EmitNetworkState, Followed, Answers
<1>3. ASSUME results = {"ok"} PROVE \A p \in Probers : Followed(answers[p]) = "expected"
  <2>1. /\ ProbeApple(Followed(answers["apple"])) = "ok"
        /\ ProbeGoogle(Followed(answers["google"])) = "ok"
        /\ ProbeMs(Followed(answers["ms"])) = "ok"
    BY <1>3
  <2>. QED
    BY <1>2, <2>1, ProbesAnswer DEF Probers
<1>4. ASSUME NEW p \in Probers, MeetsPortal(p)
      PROVE  "captive" \in results
  <2>1. /\ p = "apple" => ProbeApple(Followed(answers[p])) = "captive"
        /\ p = "google" => ProbeGoogle(Followed(answers[p])) = "captive"
        /\ p = "ms" => ProbeMs(Followed(answers[p])) = "captive"
    BY <1>4 DEF MeetsPortal, Followed, ProbeApple, ProbeGoogle, ProbeMs
  <2>. QED
    BY <2>1 DEF Probers
<1>5. /\ Consensus(results) \in NetworkState
      /\ Consensus(results) = "direct" => \A p \in Probers : Followed(answers[p]) = "expected"
      /\ (\E p \in Probers : MeetsPortal(p)) =>
            Consensus(results) = "captive_portal"
  BY <1>3, <1>4, ConsensusAnswers
<1>. HIDE DEF results
<1>. QED
  BY <1>1, <1>5

\* Whatever the three probes met, in whichever order, a portal one of them can
\* tell is reported, and "direct" only when all ended at the canonical answer.
THEOREM PortalsAreReported == BootSafety => []PortalNotMissed
<1>1. InitBoot => PortalNotMissed
  BY DEF InitBoot, PortalNotMissed
<1>2. BootTyped /\ PortalNotMissed /\ [NextBoot]_bootVars => PortalNotMissed'
  <2>. SUFFICES ASSUME BootTyped, PortalNotMissed, [NextBoot]_bootVars PROVE PortalNotMissed'
    OBVIOUS
  <2>1. ASSUME UNCHANGED <<stdout, answers>> PROVE PortalNotMissed'
    BY <2>1 DEF PortalNotMissed, MeetsPortal
  <2>2. CASE FromEnv
    <3>1. stdout = <<>> /\ stdout' = stdout
      BY <2>2 DEF FromEnv, At, BootTyped
    <3>. QED
      BY <3>1 DEF PortalNotMissed
  <2>3. CASE \/ Bind \/ ResolvePublicUrl \/ TunnelUrl \/ TunnelNoUrl \/ LoadBlobSource
             \/ SpawnServer \/ VerifyAttempt \/ VerifyGivesUp \/ Join
    BY <2>1, <2>3
       DEF Bind, ResolvePublicUrl, TunnelUrl, TunnelNoUrl, LoadBlobSource, SpawnServer,
           VerifyAttempt, VerifyGivesUp, Join
  <2>4. CASE ServerPolled \/ Signal \/ Drained \/ ChildExits \/ UNCHANGED bootVars
    BY <2>1, <2>4 DEF ServerPolled, Signal, Drained, ChildExits, bootVars
  <2>5. CASE PrintUrl \/ PrintReady \/ PrintTransports
    <3>1. PICK line \in Lines : stdout' = Append(stdout, line) /\ line[1] # "network"
      BY <2>5, MainLines DEF PrintUrl, PrintReady, PrintTransports, WriteLine
    <3>. QED
      BY <2>5, <3>1, PortalKept DEF PrintUrl, PrintReady, PrintTransports, WriteLine
  <2>6. ASSUME NEW p \in Probers, NEW answer \in Answers, Probe(p, answer)
        PROVE  PortalNotMissed'
    <3>1. stdout' = stdout /\ \A i \in DOMAIN stdout : stdout[i][1] # "network"
      BY <2>6 DEF Probe, Printed
    <3>2. \A i \in DOMAIN stdout : stdout[i] # <<"network", "direct">>
      BY <3>1
    <3>. QED
      BY <3>1, <3>2 DEF PortalNotMissed
  <2>7. CASE EmitNetworkState
    BY <2>7, EmittedIsMet, PortalEmitted DEF EmitNetworkState
  <2>8. CASE EmitUnknown
    <3>1. "unknown" \in NetworkState /\ \A p \in Probers : ~MeetsPortal(p)
      BY <2>8 DEF EmitUnknown, NetworkState, MeetsPortal
    <3>. QED
      BY <2>8, <3>1, PortalEmitted DEF EmitUnknown
  <2>. QED
    BY <2>2, <2>3, <2>4, <2>5, <2>6, <2>7, <2>8 DEF NextBoot, SetUp, Announce
<1>. QED
  BY <1>1, <1>2, BootTyping, PTL DEF BootSafety
=============================================================================
