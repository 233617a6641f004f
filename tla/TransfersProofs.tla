--------------------------- MODULE TransfersProofs ---------------------------
(***************************************************************************)
(* Proofs about the transfer handlers, for every number of requests,       *)
(* transfers, agents and endpoints.  In this order: types; what a signed   *)
(* intent yields; what the blob store holds and what the policy has let    *)
(* through; what the audit log reports, which bytes are left behind and    *)
(* what a ticket names; and that the handlers implement TransferLifecycle. *)
(***************************************************************************)
EXTENDS Transfers, TLAPS

-----------------------------------------------------------------------------
(* Typing *)

\* The fields of a handler's local variables have their types.
LEMMA ContextFields ==
    ASSUME NEW c \in Context
    PROVE  /\ c.tx \in TransferIds \cup {Null}
           /\ c.intent \in Intents \cup {Null}
           /\ c.path \in Path \cup {Null}
           /\ c.url \in HttpsEndpoints \cup {Null}
           /\ c.reachable \in SUBSET Endpoints
           /\ c.verdict \in ScanResult \cup {NotScanned}
BY DEF Context

\* Well-typed fields make well-typed local variables.
LEMMA MakeContext ==
    ASSUME NEW t \in TransferIds \cup {Null}, NEW i \in Intents \cup {Null},
           NEW p \in Path \cup {Null}, NEW u \in HttpsEndpoints \cup {Null},
           NEW s \in SUBSET Endpoints, NEW v \in ScanResult \cup {NotScanned}
    PROVE  [tx |-> t, intent |-> i, path |-> p, url |-> u, reachable |-> s,
            verdict |-> v] \in Context
BY DEF Context

\* The local variables of a request that has not begun are well typed.
LEMMA EmptyContext == NoContext \in Context
BY DEF Context, NoContext

\* Minting an id changes the id alone among a handler's local variables.
LEMMA SetTx ==
    ASSUME NEW c \in Context, NEW t \in TransferIds
    PROVE  /\ [c EXCEPT !.tx = t] \in Context
           /\ [c EXCEPT !.tx = t].tx = t
           /\ [c EXCEPT !.tx = t].intent = c.intent
           /\ [c EXCEPT !.tx = t].path = c.path
           /\ [c EXCEPT !.tx = t].verdict = c.verdict
BY DEF Context

\* The scan changes the verdict alone among a handler's local variables.
LEMMA SetVerdict ==
    ASSUME NEW c \in Context, NEW v \in ScanResult
    PROVE  /\ [c EXCEPT !.verdict = v] \in Context
           /\ [c EXCEPT !.verdict = v].tx = c.tx
           /\ [c EXCEPT !.verdict = v].intent = c.intent
           /\ [c EXCEPT !.verdict = v].path = c.path
           /\ [c EXCEPT !.verdict = v].verdict = v
BY DEF Context

\* Well-typed columns make a row of the transfers table.
LEMMA MakeRow ==
    ASSUME NEW st \in TransferState, NEW a \in Recipients \cup {Null},
           NEW u \in HttpsEndpoints \cup {Null}, NEW s \in SUBSET Endpoints,
           NEW b \in BOOLEAN, NEW v \in ScanResult \cup {NotScanned}
    PROVE  [state |-> st, recipient |-> a, url |-> u, reachable |-> s,
            sha |-> b, verdict |-> v] \in TransferRow
BY DEF TransferRow

\* The row that stands for no row is well typed.
LEMMA EmptyRow == NoRow \in TransferRow
BY DEF TransferRow, NoRow, TransferState

\* An update of the state column keeps a row well typed.
LEMMA SetState ==
    ASSUME NEW w \in TransferRow, NEW st \in TransferState
    PROVE  [w EXCEPT !.state = st] \in TransferRow
BY DEF TransferRow

\* mark_accepted and mark_delivered keep the table well typed.
LEMMA SetRowState ==
    ASSUME TypeOK, NEW t, NEW st \in TransferState
    PROVE  [rows EXCEPT ![t].state = st] \in [TransferIds -> TransferRow]
BY SetState DEF TypeOK

\* A submitted intent has a sender, a recipient and a nonce.
LEMMA IntentFields ==
    ASSUME NEW i \in Intents
    PROVE  /\ i.sender \in Agents
           /\ i.recipient \in Recipients
           /\ i.nonce \in Nonces
           /\ i # Null
BY IntentsAssumption, NullAssumption DEF Intent

\* An append keeps the audit log a count of events.
LEMMA LoggedType ==
    ASSUME TypeOK, NEW t, NEW k \in EventKind
    PROVE  Logged(t, k) \in [TransferIds -> [EventKind -> Nat]]
<1>1. CASE t \in TransferIds
  <2>1. audit[t] \in [EventKind -> Nat]
    BY <1>1 DEF TypeOK
  <2>2. [audit[t] EXCEPT ![k] = audit[t][k] + 1] \in [EventKind -> Nat]
    BY <2>1
  <2>3. QED
    BY <1>1, <2>2 DEF TypeOK, Logged
<1>2. CASE t \notin TransferIds
  BY <1>2 DEF TypeOK, Logged
<1>3. QED
  BY <1>1, <1>2

\* A handler that moves on stays at a location of the program.
LEMMA GotoType ==
    ASSUME TypeOK, NEW r \in Requests, NEW a, NEW b \in Location, Goto(r, a, b)
    PROVE  pc' \in [Requests -> Location] /\ pc[r] = a
BY DEF TypeOK, Goto

\* A handler that returns leaves no local variables behind.
LEMMA ReturnType ==
    ASSUME TypeOK, NEW r \in Requests, Return(r)
    PROVE  pc' \in [Requests -> Location] /\ ctx' \in [Requests -> Context]
BY EmptyContext DEF TypeOK, Return, Location

\* db insert keeps the table well typed.
LEMMA InsertType ==
    ASSUME TypeOK, NEW t \in TransferIds, NEW i \in Intents,
           NEW st \in TransferState, NEW u \in HttpsEndpoints \cup {Null},
           NEW s \in SUBSET Endpoints, NEW b \in BOOLEAN,
           NEW v \in ScanResult \cup {NotScanned},
           InsertTransfer(t, i, st, u, s, b, v)
    PROVE  rows' \in [TransferIds -> TransferRow]
BY MakeRow, IntentFields DEF TypeOK, InsertTransfer

\* The endpoints the validator keeps, and the url taken from them, are endpoints
\* of the list, the url an https one.
LEMMA ProbeType ==
    ASSUME NEW list \in ReachableLists, NEW healthy \in ProbeOutcomes(list),
           NEW url \in LegacyTunnelUrl(list, healthy)
    PROVE  healthy \in SUBSET Endpoints /\ url \in HttpsEndpoints \cup {Null}
<1>1. \A i \in DOMAIN list : list[i] \in Endpoints
  BY ListsAssumption
<1>2. healthy \in SUBSET Endpoints
  BY <1>1 DEF ProbeOutcomes
<1>3. url \in HttpsEndpoints \cup {Null}
  BY DEF LegacyTunnelUrl
<1>4. QED
  BY <1>2, <1>3

\* A step of one handler to l with local variables that are set as l needs
\* them keeps all handlers well typed.
LEMMA StepTyping ==
    ASSUME TypeOK, ContextOK, NEW r \in Requests, NEW l \in Location,
           NEW c \in Context, LocalOK(l, c),
           pc' = [pc EXCEPT ![r] = l], ctx' = [ctx EXCEPT ![r] = c]
    PROVE  /\ pc' \in [Requests -> Location]
           /\ ctx' \in [Requests -> Context]
           /\ ContextOK'
BY DEF TypeOK, ContextOK

\* The return of a handler keeps all handlers well typed.
LEMMA ReturnTyping ==
    ASSUME TypeOK, ContextOK, NEW r \in Requests, Return(r)
    PROVE  /\ pc' \in [Requests -> Location]
           /\ ctx' \in [Requests -> Context]
           /\ ContextOK'
<1>1. LocalOK("done", NoContext) /\ "done" \in Location
  BY DEF LocalOK, Location, Creating, Owning, OnRow
<1>2. QED
  BY <1>1, EmptyContext, StepTyping DEF Return

\* A step that moves on without touching the local variables.
LEMMA GotoTyping ==
    ASSUME TypeOK, ContextOK, NEW r \in Requests, NEW a \in Location,
           NEW b \in Location, Goto(r, a, b), UNCHANGED ctx,
           LocalOK(a, ctx[r]) => LocalOK(b, ctx[r])
    PROVE  /\ pc' \in [Requests -> Location]
           /\ ctx' \in [Requests -> Context]
           /\ ContextOK'
<1>1. LocalOK(b, ctx[r])
  BY DEF Goto, ContextOK
<1>2. ctx[r] \in Context /\ ctx' = [ctx EXCEPT ![r] = ctx[r]]
  BY DEF TypeOK
<1>3. QED
  BY <1>1, <1>2, StepTyping DEF Goto

\* The start of create_transfer keeps the types.
LEMMA StartCreateTyping ==
    ASSUME TypeOK, ContextOK, NEW r \in Requests, NEW i \in SignedIntents,
           NEW p \in Path, NEW u \in HttpsEndpoints \cup {Null},
           NEW s \in SUBSET Endpoints, StartCreate(r, i, p, u, s)
    PROVE  TypeOK' /\ ContextOK'
<1> DEFINE c == [tx |-> Null, intent |-> i, path |-> p, url |-> u,
                 reachable |-> s, verdict |-> NotScanned]
<1>1. i \in Intents
  BY IntentsAssumption
<1>2. c \in Context
  BY <1>1, MakeContext
<1>3. LocalOK("consume_nonce", c) /\ "consume_nonce" \in Location
  BY <1>1 DEF LocalOK, Location, Creating, Owning, OnRow
<1>4. pc' \in [Requests -> Location] /\ ctx' \in [Requests -> Context] /\ ContextOK'
  <2> HIDE DEF c
  <2>1. pc' = [pc EXCEPT ![r] = "consume_nonce"] /\ ctx' = [ctx EXCEPT ![r] = c]
    BY DEF StartCreate, Goto, c
  <2>2. QED
    BY <1>2, <1>3, <2>1, StepTyping
<1>5. QED
  BY <1>4 DEF StartCreate, TypeOK

\* The start of a download, an ack or a ticket request keeps the types.
LEMMA StartOnTyping ==
    ASSUME TypeOK, ContextOK, NEW r \in Requests, NEW t \in TransferIds,
           NEW u \in HttpsEndpoints \cup {Null},
           NEW l \in {"get_blob", "mark_delivered", "insert_ticket"},
           l = "insert_ticket" => u # Null, StartOn(r, t, u, l)
    PROVE  TypeOK' /\ ContextOK'
<1> DEFINE c == [tx |-> t, intent |-> Null, path |-> Null, url |-> u,
                 reachable |-> {}, verdict |-> NotScanned]
<1>1. c \in Context
  BY MakeContext
<1>2. LocalOK(l, c) /\ l \in Location
  BY DEF LocalOK, Location, Creating, Owning, OnRow
<1>3. pc' \in [Requests -> Location] /\ ctx' \in [Requests -> Context] /\ ContextOK'
  <2> HIDE DEF c
  <2>1. pc' = [pc EXCEPT ![r] = l] /\ ctx' = [ctx EXCEPT ![r] = c]
    BY DEF StartOn, Goto, c
  <2>2. QED
    BY <1>1, <1>2, <2>1, StepTyping
<1>4. QED
  BY <1>3 DEF StartOn, TypeOK

\* Typing is inductive together with ContextOK: an insert reads the intent out
\* of the local variables, which have no value in every location.
LEMMA Typing == SafetySpec => [](TypeOK /\ ContextOK)
<1>1. Init => TypeOK /\ ContextOK
  <2>1. Init => TypeOK
    BY EmptyContext, EmptyRow DEF Init, TypeOK, Location, NoOrigin
  <2>2. Init => ContextOK
    BY DEF Init, ContextOK, LocalOK, Creating, Owning, OnRow
  <2>3. QED
    BY <2>1, <2>2
<1>2. TypeOK /\ ContextOK /\ [Next]_vars => TypeOK' /\ ContextOK'
  <2> SUFFICES ASSUME TypeOK, ContextOK, [Next]_vars
               PROVE  TypeOK' /\ ContextOK'
    OBVIOUS
  <2>1. ASSUME NEW r \in Requests, CreateBlob(r) PROVE TypeOK' /\ ContextOK'
    BY <2>1, StartCreateTyping DEF CreateBlob, Path
  <2>2. ASSUME NEW r \in Requests, CreateTunnel(r) PROVE TypeOK' /\ ContextOK'
    BY <2>2, StartCreateTyping, EndpointsAssumption DEF CreateTunnel, Path
  <2>3. ASSUME NEW r \in Requests, CreateReachable(r) PROVE TypeOK' /\ ContextOK'
    <3>1. PICK i \in SignedIntents, list \in ReachableLists :
            \E healthy \in ProbeOutcomes(list) \ {{}} :
            \E url \in LegacyTunnelUrl(list, healthy) :
                StartCreate(r, i, "reachable", url, healthy)
      BY <2>3 DEF CreateReachable
    <3>2. QED
      BY <3>1, ProbeType, StartCreateTyping DEF Path
  <2>4. ASSUME NEW r \in Requests, Download(r) PROVE TypeOK' /\ ContextOK'
    <3>1. PICK t \in TransferIds : StartOn(r, t, Null, "get_blob")
      BY <2>4 DEF Download
    <3>2. QED
      BY <3>1, StartOnTyping
  <2>5. ASSUME NEW r \in Requests, Ack(r) PROVE TypeOK' /\ ContextOK'
    <3>1. PICK t \in TransferIds : StartOn(r, t, Null, "mark_delivered")
      BY <2>5 DEF Ack
    <3>2. QED
      BY <3>1, StartOnTyping
  <2>6. ASSUME NEW r \in Requests, RequestTicket(r) PROVE TypeOK' /\ ContextOK'
    <3>1. PICK t \in TransferIds :
            rows[t].url # Null /\ StartOn(r, t, rows[t].url, "insert_ticket")
      BY <2>6 DEF RequestTicket
    <3>2. rows[t].url \in HttpsEndpoints \cup {Null}
      BY DEF TypeOK, TransferRow
    <3>3. QED
      BY <3>1, <3>2, StartOnTyping
  <2>7. ASSUME NEW r \in Requests, ConsumeNonce(r) PROVE TypeOK' /\ ContextOK'
    <3>1. ctx[r] \in Context /\ ctx[r].intent \in Intents
      BY <2>7 DEF ConsumeNonce, TypeOK, ContextOK, LocalOK, Creating
    <3>2. nonces' \subseteq Nonces \cup Agents
      BY <2>7, <3>1, IntentFields DEF ConsumeNonce, TypeOK
    <3>3. CASE Return(r) /\ UNCHANGED origin
      BY <2>7, <3>2, <3>3, ReturnTyping DEF ConsumeNonce, TypeOK
    <3>4. CASE /\ pc' = [pc EXCEPT ![r] = "audit_initiated"]
               /\ \E t \in TransferIds :
                     /\ Mint(t, ctx[r].intent, "blob")
                     /\ ctx' = [ctx EXCEPT ![r].tx = t]
      <4>1. PICK t \in TransferIds :
              Mint(t, ctx[r].intent, "blob") /\ ctx' = [ctx EXCEPT ![r].tx = t]
        BY <3>4
      <4> DEFINE c == [ctx[r] EXCEPT !.tx = t]
      <4>2. c \in Context /\ c.tx = t /\ c.intent = ctx[r].intent /\ c.path = ctx[r].path
        BY <3>1, SetTx
      <4>3. ctx' = [ctx EXCEPT ![r] = c]
        BY <4>1
      <4> HIDE DEF c
      <4>4. LocalOK("audit_initiated", c) /\ "audit_initiated" \in Location
        BY <2>7, <3>1, <4>2 DEF ConsumeNonce, Path, LocalOK, Location, Creating, Owning, OnRow
      <4>5. pc' \in [Requests -> Location] /\ ctx' \in [Requests -> Context] /\ ContextOK'
        BY <3>4, <4>2, <4>3, <4>4, StepTyping
      <4>6. origin' \in [TransferIds -> [intent : Intents \cup {Null}, path : Path \cup {Null}]]
        BY <3>1, <4>1 DEF Mint, TypeOK, Path
      <4>7. QED
        BY <2>7, <3>2, <4>5, <4>6 DEF ConsumeNonce, TypeOK
    <3>5. QED
      BY <2>7, <3>3, <3>4 DEF ConsumeNonce
  <2>8. ASSUME NEW r \in Requests, ConsumeNonceUnchecked(r) PROVE TypeOK' /\ ContextOK'
    <3>1. ctx[r] \in Context /\ ctx[r].intent \in Intents /\ ctx[r].path \in Path
      BY <2>8 DEF ConsumeNonceUnchecked, Goto, TypeOK, ContextOK, LocalOK, Creating
    <3>2. nonces' \subseteq Nonces \cup Agents
      BY <2>8, <3>1, IntentFields DEF ConsumeNonceUnchecked, TypeOK
    <3>3. PICK t \in TransferIds :
            Mint(t, ctx[r].intent, ctx[r].path) /\ ctx' = [ctx EXCEPT ![r].tx = t]
      BY <2>8 DEF ConsumeNonceUnchecked
    <3> DEFINE c == [ctx[r] EXCEPT !.tx = t]
    <3>4. c \in Context /\ c.tx = t /\ c.intent = ctx[r].intent /\ c.path = ctx[r].path
      BY <3>1, SetTx
    <3>5. ctx' = [ctx EXCEPT ![r] = c] /\ pc' = [pc EXCEPT ![r] = "insert"]
      BY <2>8, <3>3 DEF ConsumeNonceUnchecked, Goto
    <3> HIDE DEF c
    <3>6. LocalOK("insert", c) /\ "insert" \in Location
      BY <3>1, <3>4 DEF LocalOK, Location, Creating, Owning, OnRow
    <3>7. pc' \in [Requests -> Location] /\ ctx' \in [Requests -> Context] /\ ContextOK'
      BY <3>4, <3>5, <3>6, StepTyping
    <3>8. origin' \in [TransferIds -> [intent : Intents \cup {Null}, path : Path \cup {Null}]]
      BY <3>1, <3>3 DEF Mint, TypeOK
    <3>9. QED
      BY <2>8, <3>2, <3>7, <3>8 DEF ConsumeNonceUnchecked, TypeOK
  <2>9. ASSUME NEW r \in Requests, AuditInitiated(r) PROVE TypeOK' /\ ContextOK'
    <3>1. pc' \in [Requests -> Location] /\ ctx' \in [Requests -> Context] /\ ContextOK'
      <4>1. PICK l \in {"pre_policy"} : Goto(r, "audit_initiated", l)
        BY <2>9 DEF AuditInitiated
      <4>2. /\ "audit_initiated" \in Location /\ l \in Location
            /\ LocalOK("audit_initiated", ctx[r]) => LocalOK(l, ctx[r])
        BY DEF LocalOK, Location, Creating, Owning, OnRow
      <4>3. QED
        BY <2>9, <4>1, <4>2, GotoTyping DEF AuditInitiated
    <3>2. audit' \in [TransferIds -> [EventKind -> Nat]]
      BY <2>9, LoggedType DEF AuditInitiated, AuditWarn, EventKind, TypeOK
    <3>3. QED
      BY <2>9, <3>1, <3>2 DEF AuditInitiated, TypeOK
  <2>10. ASSUME NEW r \in Requests, PrePolicy(r) PROVE TypeOK' /\ ContextOK'
    <3>1. pc' \in [Requests -> Location] /\ ctx' \in [Requests -> Context] /\ ContextOK'
      <4>1. PICK l \in {"persist_rejected", "scan"} : Goto(r, "pre_policy", l)
        BY <2>10 DEF PrePolicy
      <4>2. /\ "pre_policy" \in Location /\ l \in Location
            /\ LocalOK("pre_policy", ctx[r]) => LocalOK(l, ctx[r])
        BY DEF LocalOK, Location, Creating, Owning, OnRow
      <4>3. QED
        BY <2>10, <4>1, <4>2, GotoTyping DEF PrePolicy
    <3>2. audit' \in [TransferIds -> [EventKind -> Nat]]
      BY <2>10, LoggedType DEF PrePolicy, AuditWarn, EventKind, TypeOK
    <3>3. QED
      BY <2>10, <3>1, <3>2 DEF PrePolicy, TypeOK
  <2>11. ASSUME NEW r \in Requests, Scan(r) PROVE TypeOK' /\ ContextOK'
    <3>1. PICK v \in ScanResult : ctx' = [ctx EXCEPT ![r].verdict = v]
      BY <2>11 DEF Scan
    <3>2. ctx[r] \in Context /\ LocalOK("scan", ctx[r])
      BY <2>11 DEF Scan, Goto, TypeOK, ContextOK
    <3> DEFINE c == [ctx[r] EXCEPT !.verdict = v]
    <3>3. c \in Context /\ c.tx = ctx[r].tx /\ c.intent = ctx[r].intent /\ c.path = ctx[r].path
      BY <3>2, SetVerdict
    <3>4. ctx' = [ctx EXCEPT ![r] = c] /\ pc' = [pc EXCEPT ![r] = "post_policy"]
      BY <2>11, <3>1 DEF Scan, Goto
    <3> HIDE DEF c
    <3>5. LocalOK("post_policy", c) /\ "post_policy" \in Location
      BY <3>2, <3>3 DEF LocalOK, Location, Creating, Owning, OnRow
    <3>6. pc' \in [Requests -> Location] /\ ctx' \in [Requests -> Context] /\ ContextOK'
      BY <3>3, <3>4, <3>5, StepTyping
    <3>7. audit' \in [TransferIds -> [EventKind -> Nat]]
      BY <2>11, LoggedType DEF Scan, AuditWarn, EventKind, TypeOK
    <3>8. QED
      BY <2>11, <3>6, <3>7 DEF Scan, TypeOK
  <2>12. ASSUME NEW r \in Requests, PostPolicy(r) PROVE TypeOK' /\ ContextOK'
    <3>1. pc' \in [Requests -> Location] /\ ctx' \in [Requests -> Context] /\ ContextOK'
      <4>1. PICK l \in {"persist_rejected", "put_blob"} : Goto(r, "post_policy", l)
        BY <2>12 DEF PostPolicy
      <4>2. /\ "post_policy" \in Location /\ l \in Location
            /\ LocalOK("post_policy", ctx[r]) => LocalOK(l, ctx[r])
        BY DEF LocalOK, Location, Creating, Owning, OnRow
      <4>3. QED
        BY <2>12, <4>1, <4>2, GotoTyping DEF PostPolicy
    <3>2. audit' \in [TransferIds -> [EventKind -> Nat]]
      BY <2>12, LoggedType DEF PostPolicy, AuditWarn, EventKind, TypeOK
    <3>3. QED
      BY <2>12, <3>1, <3>2 DEF PostPolicy, TypeOK
  <2>13. ASSUME NEW r \in Requests, PersistRejected(r) PROVE TypeOK' /\ ContextOK'
    <3>1. pc' \in [Requests -> Location] /\ ctx' \in [Requests -> Context] /\ ContextOK'
      <4>1. /\ "persist_rejected" \in Location /\ "audit_rejected" \in Location
            /\ LocalOK("persist_rejected", ctx[r]) => LocalOK("audit_rejected", ctx[r])
        BY DEF LocalOK, Location, Creating, Owning, OnRow
      <4>2. QED
        BY <2>13, <4>1, GotoTyping DEF PersistRejected
    <3>2. ctx[r].tx \in TransferIds /\ ctx[r].intent \in Intents
      BY <2>13 DEF PersistRejected, Goto, ContextOK, LocalOK, Creating, Owning
    <3>3. ctx[r].verdict \in ScanResult \cup {NotScanned}
      BY ContextFields DEF TypeOK
    <3>4. rows' \in [TransferIds -> TransferRow]
      BY <2>13, <3>2, <3>3, InsertType DEF PersistRejected, TransferState
    <3>5. QED
      BY <2>13, <3>1, <3>4 DEF PersistRejected, TypeOK
  <2>14. ASSUME NEW r \in Requests, AuditRejected(r) PROVE TypeOK' /\ ContextOK'
    <3>1. audit' \in [TransferIds -> [EventKind -> Nat]]
      BY <2>14, LoggedType DEF AuditRejected, AuditWarn, EventKind, TypeOK
    <3>2. QED
      BY <2>14, <3>1, ReturnTyping DEF AuditRejected, TypeOK
  <2>15. ASSUME NEW r \in Requests, PutBlob(r) PROVE TypeOK' /\ ContextOK'
    <3>1. pc' \in [Requests -> Location] /\ ctx' \in [Requests -> Context] /\ ContextOK'
      <4>1. /\ "put_blob" \in Location /\ "insert" \in Location
            /\ LocalOK("put_blob", ctx[r]) => LocalOK("insert", ctx[r])
        BY DEF LocalOK, Location, Creating, Owning, OnRow
      <4>2. QED
        BY <2>15, <4>1, GotoTyping DEF PutBlob
    <3>2. ctx[r].tx \in TransferIds
      BY <2>15 DEF PutBlob, Goto, ContextOK, LocalOK, Creating, Owning
    <3>3. QED
      BY <2>15, <3>1, <3>2 DEF PutBlob, TypeOK
  <2>16. ASSUME NEW r \in Requests, InsertReady(r) PROVE TypeOK' /\ ContextOK'
    <3>1. ctx[r].tx \in TransferIds /\ ctx[r].intent \in Intents
      BY <2>16 DEF InsertReady, ContextOK, LocalOK, Creating, Owning
    <3>2. /\ ctx[r].verdict \in ScanResult \cup {NotScanned}
          /\ ctx[r].url \in HttpsEndpoints \cup {Null}
          /\ ctx[r].reachable \in SUBSET Endpoints
      BY ContextFields DEF TypeOK
    <3>3. rows' \in [TransferIds -> TransferRow]
      BY <2>16, <3>1, <3>2, InsertType DEF InsertReady, TransferState
    <3>4. QED
      BY <2>16, <3>3, ReturnTyping DEF InsertReady, TypeOK
  <2>17. ASSUME NEW r \in Requests, GetBlob(r) PROVE TypeOK' /\ ContextOK'
    <3>1. CASE Return(r)
      <4>1. pc' \in [Requests -> Location] /\ ctx' \in [Requests -> Context] /\ ContextOK'
        BY <3>1, ReturnTyping
      <4>2. rows' \in [TransferIds -> TransferRow]
        BY <2>17, SetState DEF GetBlob, TypeOK, TransferState
      <4>3. QED
        BY <2>17, <4>1, <4>2 DEF GetBlob, TypeOK
    <3>2. CASE pc' = [pc EXCEPT ![r] = "mark_accepted"] /\ UNCHANGED ctx
      <4>1. /\ "get_blob" \in Location /\ "mark_accepted" \in Location
            /\ LocalOK("get_blob", ctx[r]) => LocalOK("mark_accepted", ctx[r])
        BY DEF LocalOK, Location, Creating, Owning, OnRow
      <4>2. Goto(r, "get_blob", "mark_accepted")
        BY <2>17, <3>2 DEF GetBlob, Goto
      <4>3. pc' \in [Requests -> Location] /\ ctx' \in [Requests -> Context] /\ ContextOK'
        BY <3>2, <4>1, <4>2, GotoTyping
      <4>4. rows' \in [TransferIds -> TransferRow]
        BY <2>17, SetState DEF GetBlob, TypeOK, TransferState
      <4>5. QED
        BY <2>17, <4>3, <4>4 DEF GetBlob, TypeOK
    <3>3. QED
      BY <2>17, <3>1, <3>2 DEF GetBlob
  <2>18. ASSUME NEW r \in Requests, MarkAccepted(r) PROVE TypeOK' /\ ContextOK'
    <3>1. pc' \in [Requests -> Location] /\ ctx' \in [Requests -> Context] /\ ContextOK'
      <4>1. /\ "mark_accepted" \in Location /\ "audit_accepted" \in Location
            /\ LocalOK("mark_accepted", ctx[r]) => LocalOK("audit_accepted", ctx[r])
        BY DEF LocalOK, Location, Creating, Owning, OnRow
      <4>2. QED
        BY <2>18, <4>1, GotoTyping DEF MarkAccepted
    <3>2. rows' \in [TransferIds -> TransferRow]
      BY <2>18, SetState DEF MarkAccepted, TypeOK, TransferState
    <3>3. QED
      BY <2>18, <3>1, <3>2 DEF MarkAccepted, TypeOK
  <2>19. ASSUME NEW r \in Requests, AuditAccepted(r) PROVE TypeOK' /\ ContextOK'
    <3>1. audit' \in [TransferIds -> [EventKind -> Nat]]
      BY <2>19, LoggedType DEF AuditAccepted, AuditWarn, EventKind, TypeOK
    <3>2. ctx[r].tx \in TransferIds
      BY <2>19 DEF AuditAccepted, ContextOK, LocalOK, OnRow
    <3>3. QED
      BY <2>19, <3>1, <3>2, ReturnTyping DEF AuditAccepted, TypeOK
  <2>20. ASSUME NEW r \in Requests, MarkDelivered(r) PROVE TypeOK' /\ ContextOK'
    <3>0. rows' \in [TransferIds -> TransferRow]
      <4>1. rows' = rows \/ rows' = [rows EXCEPT ![ctx[r].tx].state = "delivered"]
        BY <2>20 DEF MarkDelivered
      <4>2. [rows EXCEPT ![ctx[r].tx].state = "delivered"] \in [TransferIds -> TransferRow]
        BY SetRowState DEF TransferState
      <4>3. QED
        BY <4>1, <4>2 DEF TypeOK
    <3>1. CASE Return(r)
      <4>1. pc' \in [Requests -> Location] /\ ctx' \in [Requests -> Context] /\ ContextOK'
        BY <3>1, ReturnTyping
      <4>2. QED
        BY <2>20, <3>0, <4>1 DEF MarkDelivered, TypeOK
    <3>2. CASE pc' = [pc EXCEPT ![r] = "audit_delivered"] /\ UNCHANGED ctx
      <4>1. /\ "mark_delivered" \in Location /\ "audit_delivered" \in Location
            /\ LocalOK("mark_delivered", ctx[r]) => LocalOK("audit_delivered", ctx[r])
        BY DEF LocalOK, Location, Creating, Owning, OnRow
      <4>2. Goto(r, "mark_delivered", "audit_delivered")
        BY <2>20, <3>2 DEF MarkDelivered, Goto
      <4>3. pc' \in [Requests -> Location] /\ ctx' \in [Requests -> Context] /\ ContextOK'
        BY <3>2, <4>1, <4>2, GotoTyping
      <4>4. QED
        BY <2>20, <3>0, <4>3 DEF MarkDelivered, TypeOK
    <3>3. QED
      BY <2>20, <3>1, <3>2 DEF MarkDelivered
  <2>21. ASSUME NEW r \in Requests, AuditDelivered(r) PROVE TypeOK' /\ ContextOK'
    <3>1. pc' \in [Requests -> Location] /\ ctx' \in [Requests -> Context] /\ ContextOK'
      <4>1. PICK l \in {"delete_blob"} : Goto(r, "audit_delivered", l)
        BY <2>21 DEF AuditDelivered
      <4>2. /\ "audit_delivered" \in Location /\ l \in Location
            /\ LocalOK("audit_delivered", ctx[r]) => LocalOK(l, ctx[r])
        BY DEF LocalOK, Location, Creating, Owning, OnRow
      <4>3. QED
        BY <2>21, <4>1, <4>2, GotoTyping DEF AuditDelivered
    <3>2. audit' \in [TransferIds -> [EventKind -> Nat]]
      BY <2>21, LoggedType DEF AuditDelivered, AuditWarn, EventKind, TypeOK
    <3>3. QED
      BY <2>21, <3>1, <3>2 DEF AuditDelivered, TypeOK
  <2>22. ASSUME NEW r \in Requests, DeleteBlob(r) PROVE TypeOK' /\ ContextOK'
    <3>1. ctx[r].tx \in TransferIds
      BY <2>22 DEF DeleteBlob, ContextOK, LocalOK, OnRow
    <3>2. QED
      BY <2>22, <3>1, ReturnTyping DEF DeleteBlob, TypeOK
  <2>23. ASSUME NEW r \in Requests, IssueTicket(r) PROVE TypeOK' /\ ContextOK'
    <3>1. ctx[r].tx \in TransferIds /\ ctx[r].url \in HttpsEndpoints
      BY <2>23 DEF IssueTicket, ContextOK, LocalOK, OnRow
    <3>2. QED
      BY <2>23, <3>1, ReturnTyping DEF IssueTicket, TypeOK
  <2>24. ASSUME NEW r \in Requests, Cut(r) PROVE TypeOK' /\ ContextOK'
    <3>1. ctx[r].tx \in TransferIds \cup {Null}
      BY ContextFields DEF TypeOK
    <3>2. QED
      BY <2>24, <3>1, ReturnTyping DEF Cut, TypeOK
  <2>25. CASE UNCHANGED vars
    BY <2>25 DEF vars, TypeOK, ContextOK
  <2>26. QED
    BY <2>1, <2>2, <2>3, <2>4, <2>5, <2>6, <2>7, <2>8, <2>9, <2>10, <2>11, <2>12, <2>13, <2>14, <2>15, <2>16, <2>17, <2>18, <2>19, <2>20, <2>21, <2>22, <2>23, <2>24, <2>25
       DEF Next, Create, Step
<1>3. QED
  BY <1>1, <1>2, PTL DEF SafetySpec

\* Every column and every local variable of the transfer handlers keeps its
\* type, for any number of requests and transfers.
THEOREM TypeCorrect == SafetySpec => []TypeOK
BY Typing, PTL

-----------------------------------------------------------------------------
(* One transfer for one signed intent on the blob path *)

\* A step mints at most one id, for the intent of the request that takes it;
\* on the blob path the intent's nonce was not in the table and now is.
LEMMA MintStep ==
    ASSUME TypeOK, ContextOK, [Next]_vars
    PROVE  /\ nonces \subseteq nonces'
           /\ \/ UNCHANGED origin
              \/ \E t \in TransferIds, i \in Intents, p \in Path :
                    /\ Mint(t, i, p)
                    /\ p = "blob" => i.nonce \in nonces' \ nonces
<1>1. ASSUME NEW r \in Requests, ConsumeNonce(r)
      PROVE  /\ nonces \subseteq nonces'
             /\ \/ UNCHANGED origin
                \/ \E t \in TransferIds, i \in Intents, p \in Path :
                      Mint(t, i, p) /\ (p = "blob" => i.nonce \in nonces' \ nonces)
  <2>1. ctx[r].intent \in Intents /\ "blob" \in Path
    BY <1>1 DEF ConsumeNonce, ContextOK, LocalOK, Creating, Path
  <2>2. QED
    BY <1>1, <2>1 DEF ConsumeNonce
<1>2. ASSUME NEW r \in Requests, ConsumeNonceUnchecked(r)
      PROVE  /\ nonces \subseteq nonces'
             /\ \E t \in TransferIds, i \in Intents, p \in Path :
                   Mint(t, i, p) /\ (p = "blob" => i.nonce \in nonces' \ nonces)
  <2>1. ctx[r].intent \in Intents /\ ctx[r].path \in Path /\ ctx[r].path # "blob"
    BY <1>2 DEF ConsumeNonceUnchecked, Goto, ContextOK, LocalOK, Creating
  <2>2. QED
    BY <1>2, <2>1 DEF ConsumeNonceUnchecked
<1>3. ASSUME NEW r \in Requests, Create(r) \/ Download(r) \/ Ack(r) \/ RequestTicket(r)
      PROVE  UNCHANGED <<nonces, origin>>
  BY <1>3 DEF Create, CreateBlob, CreateTunnel, CreateReachable, StartCreate,
              Download, Ack, RequestTicket, StartOn
<1>4. ASSUME NEW r \in Requests,
             \/ AuditInitiated(r) \/ PrePolicy(r) \/ Scan(r) \/ PostPolicy(r)
             \/ PersistRejected(r) \/ AuditRejected(r) \/ PutBlob(r) \/ InsertReady(r)
      PROVE  UNCHANGED <<nonces, origin>>
  BY <1>4 DEF AuditInitiated, PrePolicy, Scan, PostPolicy, PersistRejected,
              AuditRejected, PutBlob, InsertReady
<1>5. ASSUME NEW r \in Requests,
             \/ GetBlob(r) \/ MarkAccepted(r) \/ AuditAccepted(r) \/ MarkDelivered(r)
             \/ AuditDelivered(r) \/ DeleteBlob(r) \/ IssueTicket(r) \/ Cut(r)
      PROVE  UNCHANGED <<nonces, origin>>
  BY <1>5 DEF GetBlob, MarkAccepted, AuditAccepted, MarkDelivered, AuditDelivered,
              DeleteBlob, IssueTicket, Cut
<1>6. CASE UNCHANGED vars
  BY <1>6 DEF vars
<1>7. QED
  BY <1>1, <1>2, <1>3, <1>4, <1>5, <1>6 DEF Next, Step

\* However often and however concurrently create_transfer is called with one
\* signed intent on the blob path, one transfer is minted for it.  The
\* invariant behind it is that the nonce of every such transfer is recorded.
THEOREM IntentYieldsOneBlobTransfer == SafetySpec => []BlobIntentOnce
<1>1. Init => NonceRecorded /\ BlobIntentOnce
  BY NullAssumption DEF Init, NonceRecorded, BlobIntentOnce, NoOrigin, Path
<1>2. ASSUME TypeOK, ContextOK, [Next]_vars, NonceRecorded, BlobIntentOnce
      PROVE  NonceRecorded' /\ BlobIntentOnce'
  <2>1. nonces \subseteq nonces'
    BY <1>2, MintStep
  <2>2. CASE UNCHANGED origin
    BY <1>2, <2>1, <2>2 DEF NonceRecorded, BlobIntentOnce
  <2>3. ASSUME NEW t \in TransferIds, NEW i \in Intents, NEW p \in Path,
               Mint(t, i, p), p = "blob" => i.nonce \in nonces' \ nonces
        PROVE  NonceRecorded' /\ BlobIntentOnce'
    <3>1. /\ origin'[t].intent = i /\ origin'[t].path = p
          /\ \A u \in TransferIds \ {t} : origin'[u] = origin[u]
      BY <1>2, <2>3 DEF Mint, TypeOK
    <3>2. NonceRecorded'
      BY <1>2, <2>1, <2>3, <3>1 DEF NonceRecorded
    <3>3. BlobIntentOnce'
      BY <1>2, <2>3, <3>1 DEF NonceRecorded, BlobIntentOnce
    <3>4. QED
      BY <3>2, <3>3
  <2>4. QED
    BY <1>2, <2>2, <2>3, MintStep
<1>3. QED
  BY <1>1, <1>2, Typing, PTL DEF SafetySpec

-----------------------------------------------------------------------------
(* The two stores and the policy *)

\* What holds of a request at location l with local variables c.
RequestSafe(l, c) ==
    /\ l \in Owning =>
          /\ origin[c.tx] = [intent |-> c.intent, path |-> c.path]
          /\ rows[c.tx] = NoRow
          /\ l # "insert" => c.path = "blob"
          /\ c.tx \in blobs <=> (l = "insert" /\ c.path = "blob")
    /\ l = "post_policy" => c.verdict \in ScanResult
    /\ l = "put_blob" \/ (l = "insert" /\ c.path = "blob") =>
          /\ c.verdict \in ScanResult
          /\ ~Denied(c.intent, c.verdict)
    /\ l \in OnRow => rows[c.tx].state # "absent"
    /\ l \in {"get_blob", "mark_accepted", "audit_accepted"} =>
          rows[c.tx].state # "rejected"
    /\ l \in {"mark_accepted", "audit_accepted"} => rows[c.tx].sha
    /\ l = "audit_accepted" => rows[c.tx].state \in {"accepted", "delivered"}
    /\ l \in {"audit_delivered", "delete_blob"} => rows[c.tx].state = "delivered"

RequestsSafe == \A r \in Requests : RequestSafe(pc[r], ctx[r])

\* What holds of the two stores whatever the requests do.
StoresSafe ==
    UnmintedUntouched /\ RowsCleared /\ BlobsHaveRows /\ ReleasedHaveRows /\ PickupHasBlob

Safe == RequestsSafe /\ OwnedAlone /\ StoresSafe

\* Stated handler by handler, the invariant is its three named parts.
LEMMA RequestsSafeMeaning == RequestsSafe <=> OwnedFresh /\ Cleared /\ RowStable
<1>1. RequestsSafe => OwnedFresh
  BY DEF RequestsSafe, RequestSafe, OwnedFresh
<1>2. RequestsSafe => Cleared
  BY DEF RequestsSafe, RequestSafe, Cleared
<1>3. RequestsSafe => RowStable
  BY DEF RequestsSafe, RequestSafe, RowStable
<1>4. OwnedFresh /\ Cleared /\ RowStable => RequestsSafe
  BY DEF RequestsSafe, RequestSafe, OwnedFresh, Cleared, RowStable
<1>5. QED
  BY <1>1, <1>2, <1>3, <1>4

\* A step of r that changes neither store nor the minted ids has only to
\* establish what holds of r itself.
LEMMA QuietStep ==
    ASSUME TypeOK, Safe, NEW r \in Requests, NEW l, NEW c,
           pc' = [pc EXCEPT ![r] = l], ctx' = [ctx EXCEPT ![r] = c],
           UNCHANGED <<rows, blobs, origin, released>>,
           RequestSafe(l, c),
           l \in Owning => pc[r] \in Owning /\ c.tx = ctx[r].tx
    PROVE  Safe'
<1>1. \A s \in Requests : /\ pc'[s] = IF s = r THEN l ELSE pc[s]
                          /\ ctx'[s] = IF s = r THEN c ELSE ctx[s]
  BY DEF TypeOK
<1>2. \A k, d : RequestSafe(k, d)' <=> RequestSafe(k, d)
  BY DEF RequestSafe
<1>3. RequestsSafe'
  BY <1>1, <1>2 DEF Safe, RequestsSafe
<1>4. OwnedAlone'
  BY <1>1 DEF Safe, OwnedAlone
<1>5. StoresSafe'
  BY DEF Safe, StoresSafe, UnmintedUntouched, RowsCleared, BlobsHaveRows,
         ReleasedHaveRows, PickupHasBlob, Minted
<1>6. QED
  BY <1>3, <1>4, <1>5 DEF Safe

\* A handler that returns, or that moves on with its local variables.
LEMMA QuietReturn ==
    ASSUME TypeOK, Safe, NEW r \in Requests, Return(r),
           UNCHANGED <<rows, blobs, origin, released>>
    PROVE  Safe'
<1>1. RequestSafe("done", NoContext) /\ "done" \notin Owning
  BY DEF RequestSafe, Owning, OnRow
<1>2. QED
  BY <1>1, QuietStep DEF Return

\* A handler that moves on without touching a store keeps the invariant if it
\* may be at its new location.
LEMMA QuietGoto ==
    ASSUME TypeOK, Safe, NEW r \in Requests, NEW l, NEW m, Goto(r, l, m),
           UNCHANGED <<ctx, rows, blobs, origin, released>>,
           RequestSafe(m, ctx[r]), m \in Owning => l \in Owning
    PROVE  Safe'
<1>1. ctx' = [ctx EXCEPT ![r] = ctx[r]]
  BY DEF TypeOK
<1>2. QED
  BY <1>1, QuietStep DEF Goto

\* The start of create_transfer keeps the invariant: it owns no id yet.
LEMMA StartCreateSafe ==
    ASSUME TypeOK, Safe, NEW r \in Requests, NEW i, NEW p, NEW u, NEW s,
           StartCreate(r, i, p, u, s)
    PROVE  Safe'
<1> DEFINE c == [tx |-> Null, intent |-> i, path |-> p, url |-> u,
                 reachable |-> s, verdict |-> NotScanned]
<1>1. RequestSafe("consume_nonce", c) /\ "consume_nonce" \notin Owning
  BY DEF RequestSafe, Owning, OnRow
<1>2. /\ pc' = [pc EXCEPT ![r] = "consume_nonce"] /\ ctx' = [ctx EXCEPT ![r] = c]
      /\ UNCHANGED <<rows, blobs, origin, released>>
  BY DEF StartCreate, Goto
<1> HIDE DEF c
<1>3. QED
  BY <1>1, <1>2, QuietStep

\* The start of a download, an ack or a ticket request keeps the invariant:
\* what it has read of the row still holds.
LEMMA StartOnSafe ==
    ASSUME TypeOK, Safe, NEW r \in Requests, NEW t \in TransferIds, NEW u,
           NEW l \in {"get_blob", "mark_delivered", "insert_ticket"},
           l = "get_blob" => rows[t].state \in {"ready_for_pickup", "accepted"},
           StartOn(r, t, u, l)
    PROVE  Safe'
<1> DEFINE c == [tx |-> t, intent |-> Null, path |-> Null, url |-> u,
                 reachable |-> {}, verdict |-> NotScanned]
<1>1. c.tx = t
  OBVIOUS
<1>2. /\ pc' = [pc EXCEPT ![r] = l] /\ ctx' = [ctx EXCEPT ![r] = c]
      /\ UNCHANGED <<rows, blobs, origin, released>>
      /\ rows[t].state # "absent"
  BY DEF StartOn, Goto, VerifiedReceipt
<1> HIDE DEF c
<1>3. RequestSafe(l, c) /\ l \notin Owning
  BY <1>1, <1>2 DEF RequestSafe, Owning, OnRow
<1>4. QED
  BY <1>2, <1>3, QuietStep

\* A new id has no row and no bytes, and no request owns it.
LEMMA MintSafe ==
    ASSUME TypeOK, ContextOK, Safe, NEW r \in Requests, NEW t \in TransferIds,
           NEW l \in {"audit_initiated", "insert"},
           pc[r] = "consume_nonce",
           l = "insert" <=> ctx[r].path # "blob",
           Mint(t, ctx[r].intent, ctx[r].path),
           pc' = [pc EXCEPT ![r] = l], ctx' = [ctx EXCEPT ![r].tx = t],
           UNCHANGED <<rows, blobs, released>>
    PROVE  Safe'
<1> DEFINE c == [ctx[r] EXCEPT !.tx = t]
<1>1. ctx[r] \in Context /\ ctx[r].intent \in Intents
  BY DEF TypeOK, ContextOK, LocalOK, Creating
<1>2. c.tx = t /\ c.intent = ctx[r].intent /\ c.path = ctx[r].path
  BY <1>1, SetTx
<1>3. \A s \in Requests : /\ pc'[s] = IF s = r THEN l ELSE pc[s]
                          /\ ctx'[s] = IF s = r THEN c ELSE ctx[s]
  BY DEF TypeOK
<1> HIDE DEF c
<1>4. /\ origin'[t] = [intent |-> c.intent, path |-> c.path]
      /\ \A u \in TransferIds \ {t} : origin'[u] = origin[u]
      /\ ~Minted(t)
  BY <1>2 DEF Mint, TypeOK
<1>5. rows[t] = NoRow /\ t \notin blobs
  BY <1>4 DEF Safe, StoresSafe, UnmintedUntouched
<1>6. \A s \in Requests : pc[s] \in Owning => ctx[s].tx \in TransferIds \ {t}
  <2> SUFFICES ASSUME NEW s \in Requests, pc[s] \in Owning
               PROVE  ctx[s].tx \in TransferIds \ {t}
    OBVIOUS
  <2>1. ctx[s].tx \in TransferIds /\ ctx[s].intent \in Intents
    BY DEF ContextOK, LocalOK, Creating
  <2>2. RequestSafe(pc[s], ctx[s])
    BY DEF Safe, RequestsSafe
  <2>3. Minted(ctx[s].tx)
    BY <2>1, <2>2, IntentFields DEF RequestSafe, Minted, NoOrigin
  <2>4. QED
    BY <1>4, <2>1, <2>3
<1>7. RequestsSafe'
  <2> SUFFICES ASSUME NEW s \in Requests
               PROVE  RequestSafe(pc[s], ctx[s])'
    BY DEF RequestsSafe
  <2>1. CASE s = r
    BY <1>2, <1>3, <1>4, <1>5, <2>1 DEF RequestSafe, Owning, OnRow
  <2>2. CASE s # r
    <3>1. pc'[s] = pc[s] /\ ctx'[s] = ctx[s] /\ RequestSafe(pc[s], ctx[s])
      BY <1>3, <2>2 DEF Safe, RequestsSafe
    <3>2. pc[s] \in Owning => origin'[ctx[s].tx] = origin[ctx[s].tx]
      BY <1>4, <1>6
    <3>3. \A k, d : /\ RequestSafe(k, d)
                    /\ k \in Owning => origin'[d.tx] = origin[d.tx]
                    => RequestSafe(k, d)'
      BY DEF RequestSafe
    <3>4. QED
      BY <3>1, <3>2, <3>3
  <2>3. QED
    BY <2>1, <2>2
<1>8. OwnedAlone'
  BY <1>2, <1>3, <1>6 DEF Safe, OwnedAlone
<1>9. StoresSafe'
  <2>1. rows[t].sha = FALSE
    BY <1>5 DEF NoRow
  <2>2. UnmintedUntouched'
    BY <1>4, <1>5 DEF Safe, StoresSafe, UnmintedUntouched, Minted
  <2>3. RowsCleared'
    BY <1>4, <2>1 DEF Safe, StoresSafe, RowsCleared
  <2>4. QED
    BY <2>2, <2>3 DEF Safe, StoresSafe, BlobsHaveRows, ReleasedHaveRows, PickupHasBlob
<1>10. QED
  BY <1>7, <1>8, <1>9 DEF Safe

\* The row a create request inserts is the first one of an id that is its
\* alone; it promises bytes exactly when they are stored.
LEMMA InsertSafe ==
    ASSUME TypeOK, ContextOK, Safe, NEW r \in Requests, pc[r] \in Owning,
           NEW w \in TransferRow, w.state # "absent",
           w.sha <=> ctx[r].tx \in blobs,
           w.sha => /\ w.state # "rejected"
                    /\ w.verdict \in ScanResult
                    /\ ~Denied(ctx[r].intent, w.verdict),
           NEW l \in {"audit_rejected", "done"}, NEW c,
           pc' = [pc EXCEPT ![r] = l], ctx' = [ctx EXCEPT ![r] = c],
           rows' = [rows EXCEPT ![ctx[r].tx] = w],
           UNCHANGED <<blobs, origin, released>>
    PROVE  Safe'
<1> DEFINE t == ctx[r].tx
<1>1. /\ t \in TransferIds /\ ctx[r].intent \in Intents
      /\ rows[t] = NoRow /\ origin[t] = [intent |-> ctx[r].intent, path |-> ctx[r].path]
  <2>1. RequestSafe(pc[r], ctx[r]) /\ LocalOK(pc[r], ctx[r])
    BY DEF Safe, RequestsSafe, ContextOK
  <2>2. QED
    BY <2>1 DEF RequestSafe, LocalOK, Creating
<1>2. \A s \in Requests \ {r} : /\ pc'[s] = pc[s] /\ ctx'[s] = ctx[s]
                                /\ pc[s] \in Owning => ctx[s].tx # t
  BY DEF TypeOK, Safe, OwnedAlone
<1>3. pc'[r] = l /\ ctx'[r] = c
  BY DEF TypeOK
<1> HIDE DEF t
<1>4. rows'[t] = w /\ \A u : u # t => rows'[u] = rows[u]
  BY <1>1 DEF TypeOK, t
<1>5. rows[t].state = "absent" /\ ~rows[t].sha
  BY <1>1 DEF NoRow
<1>6. RequestsSafe'
  <2> SUFFICES ASSUME NEW s \in Requests
               PROVE  RequestSafe(pc[s], ctx[s])'
    BY DEF RequestsSafe
  <2>1. CASE s = r
    BY <1>3, <2>1 DEF RequestSafe, Owning, OnRow
  <2>2. CASE s # r
    <3>1. RequestSafe(pc[s], ctx[s])
      BY DEF Safe, RequestsSafe
    <3>2. \A k, d : RequestSafe(k, d) /\ d.tx # t => RequestSafe(k, d)'
      BY <1>4 DEF RequestSafe
    <3>3. \A k, d : /\ RequestSafe(k, d) /\ d.tx = t /\ k \notin Owning
                    => RequestSafe(k, d)'
      BY <1>5 DEF RequestSafe, Owning, OnRow
    <3>4. QED
      BY <1>2, <2>2, <3>1, <3>2, <3>3
  <2>3. QED
    BY <2>1, <2>2
<1>7. OwnedAlone'
  BY <1>2, <1>3 DEF Safe, OwnedAlone, Owning
<1>8. StoresSafe'
  <2>1. t \in TransferIds /\ Minted(t)
    BY <1>1, IntentFields DEF Minted, NoOrigin
  <2>2. UnmintedUntouched'
    BY <1>4, <2>1 DEF Safe, StoresSafe, UnmintedUntouched, Minted
  <2>3. RowsCleared'
    <3> SUFFICES ASSUME NEW u \in TransferIds
                 PROVE  /\ rows'[u].state = "absent" => rows'[u] = NoRow
                        /\ rows'[u].sha =>
                              /\ rows'[u].state \notin {"absent", "rejected"}
                              /\ rows'[u].verdict \in ScanResult
                              /\ ~Denied(origin'[u].intent, rows'[u].verdict)
      BY DEF RowsCleared, Denied
    <3>1. CASE u = t
      <4>1. origin'[t].intent = ctx[r].intent
        BY <1>1
      <4>2. QED
        BY <1>4, <3>1, <4>1
    <3>2. CASE u # t
      BY <1>4, <3>2 DEF Safe, StoresSafe, RowsCleared
    <3>3. QED
      BY <3>1, <3>2
  <2>4. BlobsHaveRows'
    BY <1>4 DEF Safe, StoresSafe, BlobsHaveRows, t
  <2>5. ReleasedHaveRows'
    BY <1>4, <1>5 DEF Safe, StoresSafe, ReleasedHaveRows
  <2>6. PickupHasBlob'
    BY <1>4 DEF Safe, StoresSafe, PickupHasBlob, t
  <2>7. QED
    BY <2>2, <2>3, <2>4, <2>5, <2>6 DEF StoresSafe
<1>9. QED
  BY <1>6, <1>7, <1>8 DEF Safe

\* An update of the state column leaves the other columns as they are.
LEMMA RowWithState ==
    ASSUME NEW w \in TransferRow, NEW st
    PROVE  /\ [w EXCEPT !.state = st].state = st
           /\ [w EXCEPT !.state = st].sha = w.sha
           /\ [w EXCEPT !.state = st].verdict = w.verdict
BY DEF TransferRow

\* A row that can be picked up moves forward; whatever another request knew
\* of it stays true.
LEMMA ForwardSafe ==
    ASSUME TypeOK, Safe, NEW r \in Requests, NEW t \in TransferIds,
           NEW st \in {"accepted", "delivered"},
           rows[t].state \in {"ready_for_pickup", "accepted"},
           NEW l, l \notin Owning, pc' = [pc EXCEPT ![r] = l], UNCHANGED ctx,
           rows' = [rows EXCEPT ![t].state = st],
           RequestSafe(l, ctx[r])',
           UNCHANGED <<blobs, origin, released>>
    PROVE  Safe'
<1>1. /\ rows'[t].state = st /\ rows'[t].sha = rows[t].sha
      /\ rows'[t].verdict = rows[t].verdict
      /\ \A u : u # t => rows'[u] = rows[u]
  <2>1. rows[t] \in TransferRow /\ rows'[t] = [rows[t] EXCEPT !.state = st]
    BY DEF TypeOK
  <2>2. QED
    BY <2>1, RowWithState DEF TypeOK
<1>2. rows[t] # NoRow
  BY DEF NoRow
<1>3. \A s \in Requests : pc'[s] = IF s = r THEN l ELSE pc[s]
  BY DEF TypeOK
<1>4. RequestsSafe'
  <2> SUFFICES ASSUME NEW s \in Requests
               PROVE  RequestSafe(pc[s], ctx[s])'
    BY DEF RequestsSafe
  <2>1. CASE s = r
    BY <1>3, <2>1
  <2>2. CASE s # r
    <3>1. RequestSafe(pc[s], ctx[s])
      BY DEF Safe, RequestsSafe
    <3>2. \A k, d : RequestSafe(k, d) /\ d.tx # t => RequestSafe(k, d)'
      BY <1>1 DEF RequestSafe
    <3>3. \A k, d : RequestSafe(k, d) /\ d.tx = t => RequestSafe(k, d)'
      BY <1>1, <1>2 DEF RequestSafe, Owning, OnRow
    <3>4. QED
      BY <1>3, <2>2, <3>1, <3>2, <3>3
  <2>3. QED
    BY <2>1, <2>2
<1>5. OwnedAlone'
  BY <1>3 DEF Safe, OwnedAlone
<1>6. StoresSafe'
  <2>1. Minted(t)
    BY <1>2 DEF Safe, StoresSafe, UnmintedUntouched
  <2>2. UnmintedUntouched'
    BY <1>1, <2>1 DEF Safe, StoresSafe, UnmintedUntouched, Minted
  <2>3. RowsCleared'
    BY <1>1 DEF Safe, StoresSafe, RowsCleared
  <2>4. BlobsHaveRows'
    BY <1>1 DEF Safe, StoresSafe, BlobsHaveRows
  <2>5. ReleasedHaveRows'
    BY <1>1 DEF Safe, StoresSafe, ReleasedHaveRows
  <2>6. PickupHasBlob'
    BY <1>1 DEF Safe, StoresSafe, PickupHasBlob
  <2>7. QED
    BY <2>2, <2>3, <2>4, <2>5, <2>6 DEF StoresSafe
<1>7. QED
  BY <1>4, <1>5, <1>6 DEF Safe

\* The bytes of an id that only r knows are stored.
LEMMA PutBlobSafe ==
    ASSUME TypeOK, ContextOK, Safe, NEW r \in Requests, PutBlob(r)
    PROVE  Safe'
<1> DEFINE t == ctx[r].tx
<1>1. pc[r] = "put_blob" /\ RequestSafe("put_blob", ctx[r])
  BY DEF PutBlob, Goto, Safe, RequestsSafe
<1>2. /\ t \in TransferIds /\ ctx[r].intent \in Intents
      /\ rows[t] = NoRow /\ origin[t] = [intent |-> ctx[r].intent, path |-> ctx[r].path]
  BY <1>1 DEF RequestSafe, ContextOK, LocalOK, Creating, Owning
<1>3. \A s \in Requests : /\ pc'[s] = IF s = r THEN "insert" ELSE pc[s]
                          /\ ctx'[s] = ctx[s]
                          /\ s # r /\ pc[s] \in Owning => ctx[s].tx # t
  BY <1>1 DEF PutBlob, Goto, TypeOK, Safe, OwnedAlone, Owning
<1> HIDE DEF t
<1>4. blobs' = blobs \cup {t} /\ UNCHANGED <<rows, origin, released>>
  BY DEF PutBlob, t
<1>5. RequestsSafe'
  <2> SUFFICES ASSUME NEW s \in Requests
               PROVE  RequestSafe(pc[s], ctx[s])'
    BY DEF RequestsSafe
  <2>1. \A d : RequestSafe("put_blob", d) /\ d.tx = t => RequestSafe("insert", d)'
    BY <1>4 DEF RequestSafe, Owning, OnRow
  <2>2. \A k, d : RequestSafe(k, d) /\ (k \in Owning => d.tx # t) => RequestSafe(k, d)'
    BY <1>4 DEF RequestSafe
  <2>3. CASE s = r
    BY <1>1, <1>3, <2>1, <2>3 DEF t
  <2>4. CASE s # r
    BY <1>3, <2>2, <2>4 DEF Safe, RequestsSafe
  <2>5. QED
    BY <2>3, <2>4
<1>6. OwnedAlone'
  BY <1>1, <1>3 DEF Safe, OwnedAlone, Owning
<1>7. StoresSafe'
  <2>1. Minted(t) /\ rows[t].state = "absent"
    BY <1>2, IntentFields DEF Minted, NoOrigin, NoRow
  <2>2. UnmintedUntouched'
    BY <1>4, <2>1 DEF Safe, StoresSafe, UnmintedUntouched, Minted
  <2>3. RowsCleared' /\ ReleasedHaveRows'
    BY <1>4 DEF Safe, StoresSafe, RowsCleared, ReleasedHaveRows
  <2>4. BlobsHaveRows' /\ PickupHasBlob'
    BY <1>4, <2>1 DEF Safe, StoresSafe, BlobsHaveRows, PickupHasBlob
  <2>5. QED
    BY <2>2, <2>3, <2>4 DEF StoresSafe
<1>8. QED
  BY <1>5, <1>6, <1>7 DEF Safe

\* The bytes that are freed are those of a delivered transfer.
LEMMA DeleteBlobSafe ==
    ASSUME TypeOK, ContextOK, Safe, NEW r \in Requests, DeleteBlob(r)
    PROVE  Safe'
<1> DEFINE t == ctx[r].tx
<1>1. rows[t].state = "delivered"
  <2>1. pc[r] = "delete_blob" /\ RequestSafe("delete_blob", ctx[r])
    BY DEF DeleteBlob, Safe, RequestsSafe
  <2>2. QED
    BY <2>1 DEF RequestSafe
<1>2. CASE UNCHANGED blobs
  BY <1>2, QuietReturn DEF DeleteBlob
<1>3. CASE blobs' = blobs \ {t}
  <2>1. UNCHANGED <<rows, origin, released>>
    BY DEF DeleteBlob
  <2>2. \A s \in Requests : /\ pc'[s] = IF s = r THEN "done" ELSE pc[s]
                            /\ ctx'[s] = IF s = r THEN NoContext ELSE ctx[s]
    BY DEF DeleteBlob, Return, TypeOK
  <2> HIDE DEF t
  <2>3. RequestsSafe'
    <3> SUFFICES ASSUME NEW s \in Requests
                 PROVE  RequestSafe(pc[s], ctx[s])'
      BY DEF RequestsSafe
    <3>1. CASE s = r
      BY <2>2, <3>1 DEF RequestSafe, Owning, OnRow
    <3>2. \A k, d : RequestSafe(k, d) => RequestSafe(k, d)'
      BY <1>1, <1>3, <2>1 DEF RequestSafe, NoRow
    <3>3. CASE s # r
      BY <2>2, <3>2, <3>3 DEF Safe, RequestsSafe
    <3>4. QED
      BY <3>1, <3>3
  <2>4. OwnedAlone'
    BY <2>2 DEF Safe, OwnedAlone, Owning
  <2>5. StoresSafe'
    <3>1. UnmintedUntouched' /\ RowsCleared' /\ BlobsHaveRows' /\ ReleasedHaveRows'
      BY <1>3, <2>1 DEF Safe, StoresSafe, UnmintedUntouched, Minted, RowsCleared,
                        BlobsHaveRows, ReleasedHaveRows
    <3>2. PickupHasBlob'
      BY <1>1, <1>3, <2>1 DEF Safe, StoresSafe, PickupHasBlob
    <3>3. QED
      BY <3>1, <3>2 DEF StoresSafe
  <2>6. QED
    BY <2>3, <2>4, <2>5 DEF Safe
<1>4. QED
  BY <1>2, <1>3 DEF DeleteBlob

\* The bytes that are handed out are those of an accepted transfer.
LEMMA AuditAcceptedSafe ==
    ASSUME TypeOK, ContextOK, Safe, NEW r \in Requests, AuditAccepted(r)
    PROVE  Safe'
<1> DEFINE t == ctx[r].tx
<1>1. rows[t].sha /\ rows[t].state \in {"accepted", "delivered"}
  <2>1. pc[r] = "audit_accepted" /\ RequestSafe("audit_accepted", ctx[r])
    BY DEF AuditAccepted, Safe, RequestsSafe
  <2>2. QED
    BY <2>1 DEF RequestSafe
<1>2. UNCHANGED <<rows, blobs, origin>> /\ released' = released \cup {t}
  BY DEF AuditAccepted
<1>3. \A s \in Requests : /\ pc'[s] = IF s = r THEN "done" ELSE pc[s]
                          /\ ctx'[s] = IF s = r THEN NoContext ELSE ctx[s]
  BY DEF AuditAccepted, Return, TypeOK
<1> HIDE DEF t
<1>4. RequestsSafe'
  <2>1. \A k, d : RequestSafe(k, d) => RequestSafe(k, d)'
    BY <1>2 DEF RequestSafe
  <2>2. RequestSafe("done", NoContext)
    BY DEF RequestSafe, Owning, OnRow
  <2>3. QED
    BY <1>3, <2>1, <2>2 DEF Safe, RequestsSafe
<1>5. OwnedAlone'
  BY <1>3 DEF Safe, OwnedAlone, Owning
<1>6. StoresSafe'
  <2>1. UnmintedUntouched' /\ RowsCleared' /\ BlobsHaveRows' /\ PickupHasBlob'
    BY <1>2 DEF Safe, StoresSafe, UnmintedUntouched, Minted, RowsCleared,
                BlobsHaveRows, PickupHasBlob
  <2>2. ReleasedHaveRows'
    BY <1>1, <1>2 DEF Safe, StoresSafe, ReleasedHaveRows
  <2>3. QED
    BY <2>1, <2>2 DEF StoresSafe
<1>7. QED
  BY <1>4, <1>5, <1>6 DEF Safe

\* Every step of every handler, a cut included, keeps the invariant.
LEMMA SafeStep ==
    ASSUME TypeOK, ContextOK, Safe, [Next]_vars
    PROVE  Safe'
<1>0. \A r \in Requests : /\ ctx[r] \in Context
                          /\ RequestSafe(pc[r], ctx[r])
                          /\ LocalOK(pc[r], ctx[r])
  BY DEF TypeOK, ContextOK, Safe, RequestsSafe
<1>1. ASSUME NEW r \in Requests, Create(r) PROVE Safe'
  BY <1>1, StartCreateSafe DEF Create, CreateBlob, CreateTunnel, CreateReachable
<1>2. ASSUME NEW r \in Requests, Download(r) PROVE Safe'
  BY <1>2, StartOnSafe DEF Download
<1>3. ASSUME NEW r \in Requests, Ack(r) PROVE Safe'
  BY <1>3, StartOnSafe DEF Ack
<1>4. ASSUME NEW r \in Requests, RequestTicket(r) PROVE Safe'
  BY <1>4, StartOnSafe DEF RequestTicket
<1>5. ASSUME NEW r \in Requests, ConsumeNonce(r) PROVE Safe'
  <2>1. CASE Return(r) /\ UNCHANGED origin
    BY <1>5, <2>1, QuietReturn DEF ConsumeNonce
  <2>2. CASE \E t \in TransferIds :
               Mint(t, ctx[r].intent, "blob") /\ ctx' = [ctx EXCEPT ![r].tx = t]
    <3>1. PICK t \in TransferIds :
            Mint(t, ctx[r].intent, ctx[r].path) /\ ctx' = [ctx EXCEPT ![r].tx = t]
      BY <1>5, <2>2 DEF ConsumeNonce
    <3>2. CASE pc' = [pc EXCEPT ![r] = "audit_initiated"]
      BY <1>5, <3>1, <3>2, MintSafe DEF ConsumeNonce
    <3>3. CASE Return(r) /\ UNCHANGED origin
      BY <2>1, <3>3
    <3>4. QED
      BY <1>5, <3>2, <3>3 DEF ConsumeNonce
  <2>3. QED
    BY <1>5, <2>1, <2>2 DEF ConsumeNonce
<1>6. ASSUME NEW r \in Requests, ConsumeNonceUnchecked(r) PROVE Safe'
  BY <1>6, MintSafe DEF ConsumeNonceUnchecked, Goto
<1>7. ASSUME NEW r \in Requests, AuditInitiated(r) PROVE Safe'
  <2>1. RequestSafe("audit_initiated", ctx[r]) => RequestSafe("pre_policy", ctx[r])
    BY DEF RequestSafe, Owning, OnRow
  <2>2. QED
    BY <1>0, <1>7, <2>1, QuietGoto DEF AuditInitiated, Goto, Owning
<1>8. ASSUME NEW r \in Requests, PrePolicy(r) PROVE Safe'
  <2>1. PICK l \in {"persist_rejected", "scan"} : Goto(r, "pre_policy", l)
    BY <1>8 DEF PrePolicy
  <2>2. RequestSafe("pre_policy", ctx[r]) => RequestSafe(l, ctx[r])
    BY DEF RequestSafe, Owning, OnRow
  <2>3. "pre_policy" \in Owning /\ pc[r] = "pre_policy"
    BY <2>1 DEF Goto, Owning
  <2>4. QED
    BY <1>0, <1>8, <2>1, <2>2, <2>3, QuietGoto DEF PrePolicy
<1>9. ASSUME NEW r \in Requests, Scan(r) PROVE Safe'
  <2>1. PICK v \in ScanResult : ctx' = [ctx EXCEPT ![r].verdict = v]
    BY <1>9 DEF Scan
  <2> DEFINE c == [ctx[r] EXCEPT !.verdict = v]
  <2>2. /\ c.tx = ctx[r].tx /\ c.intent = ctx[r].intent /\ c.path = ctx[r].path
        /\ c.verdict = v
    BY <1>0, SetVerdict
  <2>3. ctx' = [ctx EXCEPT ![r] = c] /\ pc' = [pc EXCEPT ![r] = "post_policy"]
    BY <1>9, <2>1 DEF Scan, Goto
  <2> HIDE DEF c
  <2>4. pc[r] = "scan" /\ RequestSafe("scan", ctx[r])
    BY <1>0, <1>9 DEF Scan, Goto
  <2>5. RequestSafe("post_policy", c)
    BY <2>2, <2>4 DEF RequestSafe, Owning, OnRow
  <2>6. QED
    BY <1>9, <2>2, <2>3, <2>4, <2>5, QuietStep DEF Scan, Owning
<1>10. ASSUME NEW r \in Requests, PostPolicy(r) PROVE Safe'
  <2>1. pc[r] = "post_policy" /\ RequestSafe("post_policy", ctx[r])
    BY <1>0, <1>10 DEF PostPolicy, Goto
  <2>2. CASE Denied(ctx[r].intent, ctx[r].verdict)
    <3>1. Goto(r, "post_policy", "persist_rejected")
      BY <1>10, <2>2 DEF PostPolicy
    <3>2. RequestSafe("persist_rejected", ctx[r])
      BY <2>1 DEF RequestSafe, Owning, OnRow
    <3>3. QED
      BY <1>10, <3>1, <3>2, QuietGoto DEF PostPolicy, Owning
  <2>3. CASE ~Denied(ctx[r].intent, ctx[r].verdict)
    <3>1. Goto(r, "post_policy", "put_blob")
      BY <1>10, <2>3 DEF PostPolicy
    <3>2. RequestSafe("put_blob", ctx[r])
      BY <2>1, <2>3 DEF RequestSafe, Owning, OnRow
    <3>3. QED
      BY <1>10, <3>1, <3>2, QuietGoto DEF PostPolicy, Owning
  <2>4. QED
    BY <2>2, <2>3
<1>11. ASSUME NEW r \in Requests, PersistRejected(r) PROVE Safe'
  <2> DEFINE w == [state |-> "rejected", recipient |-> ctx[r].intent.recipient,
                   url |-> Null, reachable |-> {}, sha |-> FALSE,
                   verdict |-> ctx[r].verdict]
  <2>1. pc[r] = "persist_rejected" /\ ctx[r].intent \in Intents /\ ctx[r].tx \notin blobs
    BY <1>0, <1>11 DEF PersistRejected, Goto, RequestSafe, LocalOK, Creating, Owning
  <2>2. w \in TransferRow
    BY <1>0, <2>1, ContextFields, IntentFields, MakeRow DEF TransferState
  <2>3. w.state = "rejected" /\ w.sha = FALSE
    OBVIOUS
  <2>4. /\ rows' = [rows EXCEPT ![ctx[r].tx] = w]
        /\ pc' = [pc EXCEPT ![r] = "audit_rejected"]
        /\ ctx' = [ctx EXCEPT ![r] = ctx[r]]
    BY <1>11 DEF PersistRejected, InsertTransfer, Goto, TypeOK
  <2> HIDE DEF w
  <2>5. QED
    BY <1>11, <2>1, <2>2, <2>3, <2>4, InsertSafe DEF PersistRejected, Owning
<1>12. ASSUME NEW r \in Requests, AuditRejected(r) PROVE Safe'
  BY <1>12, QuietReturn DEF AuditRejected
<1>13. ASSUME NEW r \in Requests, InsertReady(r) PROVE Safe'
  <2> DEFINE w == [state |-> "ready_for_pickup", recipient |-> ctx[r].intent.recipient,
                   url |-> ctx[r].url, reachable |-> ctx[r].reachable,
                   sha |-> ctx[r].path = "blob", verdict |-> ctx[r].verdict]
  <2>1. pc[r] = "insert" /\ ctx[r].intent \in Intents /\ RequestSafe("insert", ctx[r])
    BY <1>0, <1>13 DEF InsertReady, LocalOK, Creating, Owning
  <2>2. w \in TransferRow
    BY <1>0, <2>1, ContextFields, IntentFields, MakeRow DEF TransferState
  <2>3. /\ w.state = "ready_for_pickup" /\ w.verdict = ctx[r].verdict
        /\ w.sha = (ctx[r].path = "blob")
    OBVIOUS
  <2>4. /\ rows' = [rows EXCEPT ![ctx[r].tx] = w]
        /\ pc' = [pc EXCEPT ![r] = "done"]
        /\ ctx' = [ctx EXCEPT ![r] = NoContext]
    BY <1>13 DEF InsertReady, InsertTransfer, Return
  <2> HIDE DEF w
  <2>5. /\ w.sha <=> ctx[r].tx \in blobs
        /\ w.sha => w.verdict \in ScanResult /\ ~Denied(ctx[r].intent, w.verdict)
    BY <2>1, <2>3 DEF RequestSafe, Owning
  <2>6. QED
    BY <1>13, <2>1, <2>2, <2>3, <2>4, <2>5, InsertSafe DEF InsertReady, Owning
<1>14. ASSUME NEW r \in Requests, GetBlob(r) PROVE Safe'
  <2>1. CASE Return(r)
    BY <1>14, <2>1, QuietReturn DEF GetBlob
  <2>2. CASE ctx[r].tx \in blobs /\ pc' = [pc EXCEPT ![r] = "mark_accepted"] /\ UNCHANGED ctx
    <3>1. pc[r] = "get_blob" /\ RequestSafe("get_blob", ctx[r])
      BY <1>0, <1>14 DEF GetBlob
    <3>2. rows[ctx[r].tx].sha
      BY <2>2, <3>1 DEF RequestSafe, OnRow, Safe, StoresSafe, BlobsHaveRows
    <3>3. RequestSafe("mark_accepted", ctx[r]) /\ "mark_accepted" \notin Owning
      BY <3>1, <3>2 DEF RequestSafe, Owning, OnRow
    <3>4. QED
      BY <1>14, <2>2, <3>1, <3>3, QuietGoto DEF GetBlob, Goto
  <2>3. QED
    BY <1>14, <2>1, <2>2 DEF GetBlob
<1>15. ASSUME NEW r \in Requests, MarkAccepted(r) PROVE Safe'
  <2> DEFINE t == ctx[r].tx
  <2>1. /\ pc[r] = "mark_accepted" /\ RequestSafe("mark_accepted", ctx[r])
        /\ t \in TransferIds /\ rows[t] \in TransferRow
    BY <1>0, <1>15 DEF MarkAccepted, Goto, LocalOK, OnRow, TypeOK
  <2>2. "audit_accepted" \notin Owning
    BY DEF Owning
  <2>3. CASE rows[t].state = "ready_for_pickup"
    <3>1. rows' = [rows EXCEPT ![t].state = "accepted"]
      BY <1>15, <2>3 DEF MarkAccepted
    <3>2. rows'[t].state = "accepted" /\ rows'[t].sha = rows[t].sha
      BY <2>1, <3>1, RowWithState DEF TypeOK
    <3>3. RequestSafe("audit_accepted", ctx[r])'
      <4>1. ctx'[r] = ctx[r]
        BY <1>15 DEF MarkAccepted
      <4>2. QED
        BY <2>1, <3>2, <4>1 DEF RequestSafe, Owning, OnRow
    <3>4. QED
      BY <1>15, <2>1, <2>2, <2>3, <3>1, <3>3, ForwardSafe DEF MarkAccepted, Goto
  <2>4. CASE rows[t].state # "ready_for_pickup"
    <3>1. rows[t].state \in TransferState
      BY <2>1 DEF TransferRow
    <3>2. RequestSafe("audit_accepted", ctx[r])
      BY <2>1, <2>4, <3>1 DEF RequestSafe, Owning, OnRow, TransferState
    <3>3. QED
      BY <1>15, <2>2, <2>4, <3>2, QuietGoto DEF MarkAccepted
  <2>5. QED
    BY <2>3, <2>4
<1>16. ASSUME NEW r \in Requests, MarkDelivered(r) PROVE Safe'
  <2> DEFINE t == ctx[r].tx
  <2>1. /\ pc[r] = "mark_delivered" /\ RequestSafe("mark_delivered", ctx[r])
        /\ t \in TransferIds /\ rows[t] \in TransferRow
    BY <1>0, <1>16 DEF MarkDelivered, LocalOK, OnRow, TypeOK
  <2>2. CASE Return(r) /\ UNCHANGED rows
    BY <1>16, <2>2, QuietReturn DEF MarkDelivered
  <2>3. CASE /\ rows[t].state \in {"accepted", "ready_for_pickup"}
             /\ rows' = [rows EXCEPT ![t].state = "delivered"]
             /\ pc' = [pc EXCEPT ![r] = "audit_delivered"]
             /\ UNCHANGED ctx
    <3>1. rows'[t].state = "delivered"
      BY <2>1, <2>3, RowWithState DEF TypeOK
    <3>2. RequestSafe("audit_delivered", ctx[r])' /\ "audit_delivered" \notin Owning
      BY <2>3, <3>1 DEF RequestSafe, Owning, OnRow
    <3>3. QED
      BY <1>16, <2>1, <2>3, <3>2, ForwardSafe DEF MarkDelivered
  <2>4. QED
    BY <1>16, <2>2, <2>3 DEF MarkDelivered
<1>17. ASSUME NEW r \in Requests, AuditDelivered(r) PROVE Safe'
  <2>1. RequestSafe("audit_delivered", ctx[r]) => RequestSafe("delete_blob", ctx[r])
    BY DEF RequestSafe, Owning, OnRow
  <2>2. QED
    BY <1>0, <1>17, <2>1, QuietGoto DEF AuditDelivered, Goto, Owning
<1>18. ASSUME NEW r \in Requests, IssueTicket(r) \/ Cut(r) PROVE Safe'
  BY <1>18, QuietReturn DEF IssueTicket, Cut
<1>19. CASE UNCHANGED vars
  <2>1. \A k, d : RequestSafe(k, d)' <=> RequestSafe(k, d)
    BY <1>19 DEF vars, RequestSafe
  <2>2. RequestsSafe' /\ OwnedAlone'
    BY <1>19, <2>1 DEF vars, Safe, RequestsSafe, OwnedAlone
  <2>3. StoresSafe'
    BY <1>19 DEF vars, Safe, StoresSafe, UnmintedUntouched, RowsCleared,
                 BlobsHaveRows, ReleasedHaveRows, PickupHasBlob, Minted
  <2>4. QED
    BY <2>2, <2>3 DEF Safe
<1>20. QED
  BY <1>1, <1>2, <1>3, <1>4, <1>5, <1>6, <1>7, <1>8, <1>9, <1>10, <1>11, <1>12,
     <1>13, <1>14, <1>15, <1>16, <1>17, <1>18, <1>19, PutBlobSafe, DeleteBlobSafe,
     AuditAcceptedSafe
     DEF Next, Step

\* The invariant holds in every reachable state.
LEMMA Safety == SafetySpec => []Safe
<1>1. Init => Safe
  <2>1. Init => RequestsSafe /\ OwnedAlone
    BY DEF Init, RequestsSafe, RequestSafe, OwnedAlone, Owning, OnRow
  <2>2. Init => StoresSafe
    BY DEF Init, StoresSafe, UnmintedUntouched, RowsCleared, BlobsHaveRows,
           ReleasedHaveRows, PickupHasBlob, NoRow
  <2>3. QED
    BY <2>1, <2>2 DEF Safe
<1>2. TypeOK /\ ContextOK /\ Safe /\ [Next]_vars => Safe'
  BY SafeStep
<1>3. QED
  BY <1>1, <1>2, Typing, PTL DEF SafetySpec

\* A transfer that can be picked up from the control plane has its bytes in
\* the blob store: create_transfer stores before it inserts, ack_transfer
\* marks before it frees, and no interleaving or cut request undoes that.
THEOREM PickupsHaveBlobs == SafetySpec => []PickupHasBlob
<1>1. Safe => PickupHasBlob
  BY DEF Safe, StoresSafe
<1>2. QED
  BY <1>1, Safety, PTL

\* Bytes are kept or handed out only for a transfer that was scanned and that
\* the tier policy allows with the verdict of that scan, whatever the tier.
THEOREM StoredOnlyIfAllowed == SafetySpec => []AllowedBeforeStored
<1>1. TypeOK /\ Safe => AllowedBeforeStored
  <2> SUFFICES ASSUME TypeOK, Safe, NEW t \in blobs \cup released,
                      rows[t].state # "absent"
               PROVE  /\ rows[t].sha
                      /\ rows[t].state # "rejected"
                      /\ rows[t].verdict \in ScanResult
                      /\ ~Denied(origin[t].intent, rows[t].verdict)
    BY DEF AllowedBeforeStored
  <2>1. t \in TransferIds
    BY DEF TypeOK
  <2>2. rows[t].sha
    BY DEF Safe, StoresSafe, BlobsHaveRows, ReleasedHaveRows
  <2>3. QED
    BY <2>1, <2>2 DEF Safe, StoresSafe, RowsCleared
<1>2. QED
  BY <1>1, Safety, TypeCorrect, PTL

-----------------------------------------------------------------------------
(* What a step may do to a row *)

\* The row of t is inserted, by the request that owns t.
RowInserted(t) ==
    /\ rows[t] = NoRow
    /\ \E r \in Requests :
          /\ ctx[r].tx = t
          /\ \/ /\ pc[r] = "persist_rejected"
                /\ rows'[t].state = "rejected" /\ rows'[t].url = Null
             \/ /\ pc[r] = "insert"
                /\ rows'[t].state = "ready_for_pickup"
                /\ rows'[t].url = ctx[r].url /\ rows'[t].reachable = ctx[r].reachable
                /\ rows'[t].sha = (ctx[r].path = "blob")

\* The state of the row of t moves forward; a download moves only rows that
\* promise bytes.
RowForward(t) ==
    /\ \/ /\ rows[t].state = "ready_for_pickup" /\ rows[t].sha
          /\ rows'[t].state = "accepted"
       \/ /\ rows[t].state \in {"ready_for_pickup", "accepted"}
          /\ rows'[t].state = "delivered"
    /\ rows'[t].url = rows[t].url
    /\ rows'[t].reachable = rows[t].reachable
    /\ rows'[t].sha = rows[t].sha

\* An update of the state column keeps the address columns.
LEMMA RowAddress ==
    ASSUME NEW w \in TransferRow, NEW st
    PROVE  /\ [w EXCEPT !.state = st].url = w.url
           /\ [w EXCEPT !.state = st].reachable = w.reachable
BY DEF TransferRow

\* Whatever step is taken, a row is left alone, inserted by the one request
\* that owns its id, or moved forward.
LEMMA RowStep ==
    ASSUME TypeOK, ContextOK, Safe, [Next]_vars
    PROVE  \A t \in TransferIds :
              rows'[t] = rows[t] \/ RowInserted(t) \/ RowForward(t)
<1>0. \A r \in Requests : /\ RequestSafe(pc[r], ctx[r])
                          /\ LocalOK(pc[r], ctx[r])
  BY DEF ContextOK, Safe, RequestsSafe
<1>1. ASSUME NEW r \in Requests, PersistRejected(r)
      PROVE  \A t \in TransferIds : rows'[t] = rows[t] \/ RowInserted(t)
  <2>1. pc[r] = "persist_rejected" /\ rows[ctx[r].tx] = NoRow
    BY <1>0, <1>1 DEF PersistRejected, Goto, RequestSafe, Owning
  <2>2. /\ \A t \in TransferIds : t # ctx[r].tx => rows'[t] = rows[t]
        /\ ctx[r].tx \in TransferIds =>
              rows'[ctx[r].tx].state = "rejected" /\ rows'[ctx[r].tx].url = Null
    BY <1>1 DEF PersistRejected, InsertTransfer, TypeOK
  <2>3. QED
    BY <2>1, <2>2 DEF RowInserted
<1>2. ASSUME NEW r \in Requests, InsertReady(r)
      PROVE  \A t \in TransferIds : rows'[t] = rows[t] \/ RowInserted(t)
  <2>1. pc[r] = "insert" /\ rows[ctx[r].tx] = NoRow
    BY <1>0, <1>2 DEF InsertReady, RequestSafe, Owning
  <2>2. /\ \A t \in TransferIds : t # ctx[r].tx => rows'[t] = rows[t]
        /\ ctx[r].tx \in TransferIds =>
              /\ rows'[ctx[r].tx].state = "ready_for_pickup"
              /\ rows'[ctx[r].tx].url = ctx[r].url
              /\ rows'[ctx[r].tx].reachable = ctx[r].reachable
              /\ rows'[ctx[r].tx].sha = (ctx[r].path = "blob")
    BY <1>2 DEF InsertReady, InsertTransfer, TypeOK
  <2>3. QED
    BY <2>1, <2>2 DEF RowInserted
<1>3. ASSUME NEW r \in Requests, MarkAccepted(r)
      PROVE  \A t \in TransferIds : rows'[t] = rows[t] \/ RowForward(t)
  <2>1. rows[ctx[r].tx].sha
    BY <1>0, <1>3 DEF MarkAccepted, Goto, RequestSafe
  <2>2. CASE rows[ctx[r].tx].state = "ready_for_pickup"
    <3>1. \A t \in TransferIds :
            IF t = ctx[r].tx THEN rows'[t] = [rows[t] EXCEPT !.state = "accepted"]
                             ELSE rows'[t] = rows[t]
      BY <1>3, <2>2 DEF MarkAccepted, TypeOK
    <3>2. \A t \in TransferIds : rows[t] \in TransferRow
      BY DEF TypeOK
    <3>3. ASSUME NEW t \in TransferIds, t = ctx[r].tx
          PROVE  RowForward(t)
      <4>1. rows'[t] = [rows[t] EXCEPT !.state = "accepted"] /\ rows[t] \in TransferRow
        BY <3>1, <3>2, <3>3
      <4>2. /\ rows'[t].state = "accepted" /\ rows'[t].sha = rows[t].sha
            /\ rows'[t].url = rows[t].url /\ rows'[t].reachable = rows[t].reachable
        BY <4>1, RowWithState, RowAddress
      <4>3. QED
        BY <2>1, <2>2, <3>3, <4>2 DEF RowForward
    <3>4. QED
      BY <3>1, <3>3
  <2>3. CASE rows[ctx[r].tx].state # "ready_for_pickup"
    BY <1>3, <2>3 DEF MarkAccepted
  <2>4. QED
    BY <2>2, <2>3
<1>4. ASSUME NEW r \in Requests, MarkDelivered(r)
      PROVE  \A t \in TransferIds : rows'[t] = rows[t] \/ RowForward(t)
  <2>1. CASE UNCHANGED rows
    BY <2>1
  <2>2. CASE /\ rows[ctx[r].tx].state \in {"accepted", "ready_for_pickup"}
             /\ rows' = [rows EXCEPT ![ctx[r].tx].state = "delivered"]
    <3>1. \A t \in TransferIds :
            IF t = ctx[r].tx THEN rows'[t] = [rows[t] EXCEPT !.state = "delivered"]
                             ELSE rows'[t] = rows[t]
      BY <2>2 DEF TypeOK
    <3>2. \A t \in TransferIds : rows[t] \in TransferRow
      BY DEF TypeOK
    <3>3. QED
      BY <2>2, <3>1, <3>2, RowWithState, RowAddress DEF RowForward
  <2>3. QED
    BY <1>4, <2>1, <2>2 DEF MarkDelivered
<1>5. CASE UNCHANGED rows
  BY <1>5
<1>6. ASSUME NEW r \in Requests, Create(r) \/ Download(r) \/ Ack(r) \/ RequestTicket(r)
      PROVE  UNCHANGED rows
  BY <1>6 DEF Create, CreateBlob, CreateTunnel, CreateReachable, StartCreate,
              Download, Ack, RequestTicket, StartOn
<1>7. ASSUME NEW r \in Requests,
             \/ ConsumeNonce(r) \/ ConsumeNonceUnchecked(r) \/ AuditInitiated(r)
             \/ PrePolicy(r) \/ Scan(r) \/ PostPolicy(r) \/ AuditRejected(r) \/ PutBlob(r)
             \/ GetBlob(r) \/ AuditAccepted(r) \/ AuditDelivered(r) \/ DeleteBlob(r)
             \/ IssueTicket(r) \/ Cut(r)
      PROVE  UNCHANGED rows
  BY <1>7 DEF ConsumeNonce, ConsumeNonceUnchecked, AuditInitiated, PrePolicy, Scan,
              PostPolicy, AuditRejected, PutBlob, GetBlob, AuditAccepted,
              AuditDelivered, DeleteBlob, IssueTicket, Cut
<1>8. CASE UNCHANGED vars
  BY <1>8 DEF vars
<1>9. QED
  BY <1>1, <1>2, <1>3, <1>4, <1>5, <1>6, <1>7, <1>8 DEF Next, Step

-----------------------------------------------------------------------------
(* The audit log *)

\* The row a rejection is about to be logged for is rejected.
RejectionWritten ==
    \A r \in Requests :
        pc[r] = "audit_rejected" => rows[ctx[r].tx].state = "rejected"

\* An outcome is logged by a handler that has reached the audit step for it.
Reported(t, k, l) ==
    audit'[t][k] > 0 =>
        audit[t][k] > 0 \/ \E r \in Requests : pc[r] = l /\ ctx[r].tx = t

OutcomesReported ==
    \A t \in TransferIds :
        /\ Reported(t, "rejected", "audit_rejected")
        /\ Reported(t, "accepted", "audit_accepted")
        /\ Reported(t, "delivered", "audit_delivered")

\* An event of kind k for t, or none, is all that an append adds.
LEMMA AppendOne ==
    ASSUME TypeOK, NEW t, NEW k \in EventKind, audit' = Logged(t, k) \/ audit' = audit
    PROVE  \A u \in TransferIds, j \in EventKind : u # t \/ j # k => audit'[u][j] = audit[u][j]
BY DEF TypeOK, Logged

\* Every step logs an outcome only from the audit step for it.
LEMMA AuditStep ==
    ASSUME TypeOK, [Next]_vars
    PROVE  OutcomesReported
<1>0. {"initiated", "policy_decision", "scanner_verdict", "rejected", "accepted",
       "delivered"} \subseteq EventKind
  BY DEF EventKind
<1>1. CASE UNCHANGED audit
  BY <1>1 DEF OutcomesReported, Reported
<1>2. ASSUME NEW r \in Requests, AuditInitiated(r)
      PROVE  OutcomesReported
  BY <1>0, <1>2, AppendOne DEF AuditInitiated, AuditWarn, OutcomesReported, Reported
<1>3. ASSUME NEW r \in Requests, PrePolicy(r) \/ PostPolicy(r)
      PROVE  OutcomesReported
  <2>1. AuditWarn(ctx[r].tx, "policy_decision")
    BY <1>3 DEF PrePolicy, PostPolicy
  <2>2. QED
    BY <1>0, <2>1, AppendOne DEF AuditWarn, OutcomesReported, Reported
<1>4. ASSUME NEW r \in Requests, Scan(r)
      PROVE  OutcomesReported
  BY <1>0, <1>4, AppendOne DEF Scan, AuditWarn, OutcomesReported, Reported
<1>5. ASSUME NEW r \in Requests, AuditRejected(r)
      PROVE  OutcomesReported
  BY <1>0, <1>5, AppendOne DEF AuditRejected, AuditWarn, OutcomesReported, Reported
<1>6. ASSUME NEW r \in Requests, AuditAccepted(r)
      PROVE  OutcomesReported
  BY <1>0, <1>6, AppendOne DEF AuditAccepted, AuditWarn, OutcomesReported, Reported
<1>7. ASSUME NEW r \in Requests, AuditDelivered(r)
      PROVE  OutcomesReported
  BY <1>0, <1>7, AppendOne DEF AuditDelivered, Goto, OutcomesReported, Reported
<1>8. ASSUME NEW r \in Requests, Create(r) \/ Download(r) \/ Ack(r) \/ RequestTicket(r)
      PROVE  UNCHANGED audit
  BY <1>8 DEF Create, CreateBlob, CreateTunnel, CreateReachable, StartCreate,
              Download, Ack, RequestTicket, StartOn
<1>9. ASSUME NEW r \in Requests,
             \/ ConsumeNonce(r) \/ ConsumeNonceUnchecked(r) \/ PersistRejected(r)
             \/ PutBlob(r) \/ InsertReady(r) \/ GetBlob(r) \/ MarkAccepted(r)
             \/ MarkDelivered(r) \/ DeleteBlob(r) \/ IssueTicket(r) \/ Cut(r)
      PROVE  UNCHANGED audit
  BY <1>9 DEF ConsumeNonce, ConsumeNonceUnchecked, PersistRejected, PutBlob,
              InsertReady, GetBlob, MarkAccepted, MarkDelivered, DeleteBlob,
              IssueTicket, Cut
<1>10. CASE UNCHANGED vars
  BY <1>1, <1>10 DEF vars
<1>11. QED
  BY <1>1, <1>2, <1>3, <1>4, <1>5, <1>6, <1>7, <1>8, <1>9, <1>10 DEF Next, Step

\* A request reaches the audit step of a rejection only by writing the row.
LEMMA RejectedBefore ==
    ASSUME TypeOK, ContextOK, [Next]_vars, NEW s \in Requests, pc'[s] = "audit_rejected"
    PROVE  \/ pc[s] = "audit_rejected" /\ ctx'[s] = ctx[s]
           \/ ctx'[s] = ctx[s] /\ rows'[ctx[s].tx].state = "rejected"
<1>1. CASE UNCHANGED vars
  BY <1>1 DEF vars
<1>2. ASSUME NEW r \in Requests, PersistRejected(r)
      PROVE  \/ pc[s] = "audit_rejected" /\ ctx'[s] = ctx[s]
             \/ ctx'[s] = ctx[s] /\ rows'[ctx[s].tx].state = "rejected"
  <2>1. UNCHANGED ctx /\ (s # r => pc'[s] = pc[s])
    BY <1>2 DEF PersistRejected, Goto, TypeOK
  <2>2. s = r => rows'[ctx[s].tx].state = "rejected"
    <3>1. ctx[r].tx \in TransferIds
      BY <1>2 DEF PersistRejected, Goto, ContextOK, LocalOK, Owning
    <3>2. QED
      BY <1>2, <3>1 DEF PersistRejected, InsertTransfer, TypeOK
  <2>3. QED
    BY <2>1, <2>2
<1>3. ASSUME NEW r \in Requests, NEW l, l # "audit_rejected", pc' = [pc EXCEPT ![r] = l],
             NEW c, ctx' = [ctx EXCEPT ![r] = c]
      PROVE  pc[s] = "audit_rejected" /\ ctx'[s] = ctx[s]
  BY <1>3 DEF TypeOK
<1>4. ASSUME NEW r \in Requests, Return(r)
      PROVE  pc[s] = "audit_rejected" /\ ctx'[s] = ctx[s]
  BY <1>3, <1>4 DEF Return
<1>5. ASSUME NEW r \in Requests, NEW m, NEW l, l # "audit_rejected", Goto(r, m, l),
             UNCHANGED ctx
      PROVE  pc[s] = "audit_rejected" /\ ctx'[s] = ctx[s]
  BY <1>5 DEF Goto, TypeOK
<1>6. ASSUME NEW r \in Requests, Create(r) \/ Download(r) \/ Ack(r) \/ RequestTicket(r)
      PROVE  pc[s] = "audit_rejected" /\ ctx'[s] = ctx[s]
  BY <1>3, <1>6 DEF Create, CreateBlob, CreateTunnel, CreateReachable, StartCreate,
                    Download, Ack, RequestTicket, StartOn, Goto
<1>7. ASSUME NEW r \in Requests, ConsumeNonce(r) \/ ConsumeNonceUnchecked(r) \/ Scan(r)
      PROVE  pc[s] = "audit_rejected" /\ ctx'[s] = ctx[s]
  BY <1>4, <1>7 DEF ConsumeNonce, ConsumeNonceUnchecked, Scan, Goto, TypeOK
<1>8. ASSUME NEW r \in Requests,
             \/ AuditInitiated(r) \/ PrePolicy(r) \/ PostPolicy(r)
             \/ PutBlob(r) \/ MarkAccepted(r) \/ AuditDelivered(r)
      PROVE  pc[s] = "audit_rejected" /\ ctx'[s] = ctx[s]
  BY <1>5, <1>8 DEF AuditInitiated, PrePolicy, PostPolicy, PutBlob, MarkAccepted,
                    AuditDelivered
<1>9. ASSUME NEW r \in Requests,
             \/ AuditRejected(r) \/ InsertReady(r) \/ AuditAccepted(r)
             \/ DeleteBlob(r) \/ IssueTicket(r) \/ Cut(r)
      PROVE  pc[s] = "audit_rejected" /\ ctx'[s] = ctx[s]
  BY <1>4, <1>9 DEF AuditRejected, InsertReady, AuditAccepted, DeleteBlob, IssueTicket, Cut
<1>10. ASSUME NEW r \in Requests, GetBlob(r) \/ MarkDelivered(r)
       PROVE  pc[s] = "audit_rejected" /\ ctx'[s] = ctx[s]
  BY <1>4, <1>10 DEF GetBlob, MarkDelivered, TypeOK
<1>11. QED
  BY <1>1, <1>2, <1>6, <1>7, <1>8, <1>9, <1>10 DEF Next, Step

\* The audit log reports no outcome a transfer did not have: an event is
\* appended some steps after the update it is about, and in between no other
\* request takes the outcome back.
THEOREM AuditIsTruthful == SafetySpec => []AuditTruthful
<1>1. Init => RejectionWritten /\ AuditTruthful
  <2>1. \A k \in {"rejected", "accepted", "delivered"} : k \in EventKind
    BY DEF EventKind
  <2>2. QED
    BY <2>1 DEF Init, RejectionWritten, AuditTruthful
<1>2. ASSUME TypeOK, ContextOK, Safe, RejectionWritten, AuditTruthful, [Next]_vars
      PROVE  RejectionWritten' /\ AuditTruthful'
  <2>1. ASSUME NEW t \in TransferIds
        PROVE  /\ rows[t].state = "rejected" => rows'[t].state = "rejected"
               /\ rows[t].state \in {"accepted", "delivered"} =>
                     rows'[t].state \in {"accepted", "delivered"}
               /\ rows[t].state = "delivered" => rows'[t].state = "delivered"
    BY <1>2, RowStep DEF RowInserted, RowForward, NoRow
  <2>2. RejectionWritten'
    <3> SUFFICES ASSUME NEW s \in Requests, pc'[s] = "audit_rejected"
                 PROVE  rows'[ctx'[s].tx].state = "rejected"
      BY DEF RejectionWritten
    <3>1. CASE pc[s] = "audit_rejected" /\ ctx'[s] = ctx[s]
      <4>1. ctx[s].tx \in TransferIds /\ rows[ctx[s].tx].state = "rejected"
        BY <1>2, <3>1 DEF RejectionWritten, ContextOK, LocalOK
      <4>2. QED
        BY <2>1, <3>1, <4>1
    <3>2. QED
      BY <1>2, <3>1, RejectedBefore
  <2>3. AuditTruthful'
    <3> SUFFICES ASSUME NEW t \in TransferIds
                 PROVE  /\ audit'[t]["rejected"] > 0 => rows'[t].state = "rejected"
                        /\ audit'[t]["accepted"] > 0 =>
                              rows'[t].state \in {"accepted", "delivered"}
                        /\ audit'[t]["delivered"] > 0 => rows'[t].state = "delivered"
      BY DEF AuditTruthful
    <3>1. /\ Reported(t, "rejected", "audit_rejected")
          /\ Reported(t, "accepted", "audit_accepted")
          /\ Reported(t, "delivered", "audit_delivered")
      BY <1>2, AuditStep DEF OutcomesReported
    <3>2. \A r \in Requests : ctx[r].tx = t =>
            /\ pc[r] = "audit_rejected" => rows[t].state = "rejected"
            /\ pc[r] = "audit_accepted" => rows[t].state \in {"accepted", "delivered"}
            /\ pc[r] = "audit_delivered" => rows[t].state = "delivered"
      <4> SUFFICES ASSUME NEW r \in Requests, ctx[r].tx = t
                   PROVE  /\ pc[r] = "audit_rejected" => rows[t].state = "rejected"
                          /\ pc[r] = "audit_accepted" =>
                                rows[t].state \in {"accepted", "delivered"}
                          /\ pc[r] = "audit_delivered" => rows[t].state = "delivered"
        OBVIOUS
      <4>1. pc[r] = "audit_rejected" => rows[t].state = "rejected"
        BY <1>2 DEF RejectionWritten
      <4>2. RequestSafe(pc[r], ctx[r])
        BY <1>2 DEF Safe, RequestsSafe
      <4>3. QED
        BY <4>1, <4>2 DEF RequestSafe
    <3>3. QED
      BY <1>2, <2>1, <3>1, <3>2 DEF AuditTruthful, Reported
  <2>4. QED
    BY <2>2, <2>3
<1>3. QED
  BY <1>1, <1>2, Typing, Safety, PTL DEF SafetySpec

-----------------------------------------------------------------------------
(* The blob store *)

\* The locations of a handler that is about to insert the row of the bytes it
\* stored, or to free them.
Holding == {"insert", "audit_delivered", "delete_blob"}

PickUp(t) == rows[t].state \in {"ready_for_pickup", "accepted"}

Accounted(t) ==
    \/ PickUp(t)
    \/ t \in cut
    \/ \E r \in Requests : ctx[r].tx = t /\ pc[r] \in Holding

\* A request that holds no bytes moves: whoever holds them still does.
LEMMA AccountedElsewhere ==
    ASSUME TypeOK, NEW r \in Requests, pc[r] \notin Holding,
           NEW l, pc' = [pc EXCEPT ![r] = l], NEW c, ctx' = [ctx EXCEPT ![r] = c],
           cut \subseteq cut', NEW t, PickUp(t) => PickUp(t)', Accounted(t)
    PROVE  Accounted(t)'
<1>1. \A s \in Requests \ {r} : pc'[s] = pc[s] /\ ctx'[s] = ctx[s]
  BY DEF TypeOK
<1>2. QED
  BY <1>1 DEF Accounted

\* A request that works on another transfer moves.
LEMMA AccountedOther ==
    ASSUME TypeOK, NEW r \in Requests,
           NEW l, pc' = [pc EXCEPT ![r] = l], NEW c, ctx' = [ctx EXCEPT ![r] = c],
           cut \subseteq cut', NEW t, t # ctx[r].tx, PickUp(t) => PickUp(t)', Accounted(t)
    PROVE  Accounted(t)'
<1>1. \A s \in Requests \ {r} : pc'[s] = pc[s] /\ ctx'[s] = ctx[s]
  BY DEF TypeOK
<1>2. QED
  BY <1>1 DEF Accounted

\* Every step leaves the bytes in the store accounted for.
LEMMA AccountedStep ==
    ASSUME TypeOK, ContextOK, Safe, BlobAccounted, [Next]_vars
    PROVE  BlobAccounted'
<1> SUFFICES ASSUME NEW t \in blobs'
             PROVE  Accounted(t)'
  BY DEF BlobAccounted, Accounted, PickUp, Holding
<1>0. /\ t \in blobs => t \in TransferIds /\ Accounted(t)
      /\ \A r \in Requests : RequestSafe(pc[r], ctx[r]) /\ LocalOK(pc[r], ctx[r])
  BY DEF TypeOK, ContextOK, Safe, RequestsSafe, BlobAccounted, Accounted, PickUp, Holding
<1>1. UNCHANGED rows => (PickUp(t) => PickUp(t)')
  BY DEF PickUp
<1>2. ASSUME NEW r \in Requests, Return(r), pc[r] \notin Holding,
             UNCHANGED <<rows, blobs, cut>>
      PROVE  Accounted(t)'
  BY <1>0, <1>1, <1>2, AccountedElsewhere DEF Return
<1>3. ASSUME NEW r \in Requests, NEW m, NEW l, Goto(r, m, l), m \notin Holding,
             NEW c, ctx' = [ctx EXCEPT ![r] = c], UNCHANGED <<rows, blobs, cut>>
      PROVE  Accounted(t)'
  BY <1>0, <1>1, <1>3, AccountedElsewhere DEF Goto
<1>4. \A r \in Requests : UNCHANGED ctx => ctx' = [ctx EXCEPT ![r] = ctx[r]]
  BY DEF TypeOK
<1>5. ASSUME NEW r \in Requests, Create(r) \/ Download(r) \/ Ack(r) \/ RequestTicket(r)
      PROVE  Accounted(t)'
  BY <1>3, <1>5 DEF Create, CreateBlob, CreateTunnel, CreateReachable, StartCreate,
                    Download, Ack, RequestTicket, StartOn, Holding
<1>6. ASSUME NEW r \in Requests, ConsumeNonce(r) \/ ConsumeNonceUnchecked(r)
      PROVE  Accounted(t)'
  <2>1. pc[r] = "consume_nonce" /\ UNCHANGED <<rows, blobs, cut>>
    BY <1>6 DEF ConsumeNonce, ConsumeNonceUnchecked, Goto
  <2>2. CASE Return(r)
    BY <1>2, <2>1, <2>2 DEF Holding
  <2>3. ASSUME NEW u \in TransferIds, ctx' = [ctx EXCEPT ![r].tx = u],
               NEW l, pc' = [pc EXCEPT ![r] = l]
        PROVE  Accounted(t)'
    <3>1. ctx' = [ctx EXCEPT ![r] = [ctx[r] EXCEPT !.tx = u]]
      BY <2>3
    <3>2. QED
      BY <1>3, <2>1, <2>3, <3>1 DEF Goto, Holding
  <2>4. QED
    BY <1>6, <2>2, <2>3 DEF ConsumeNonce, ConsumeNonceUnchecked, Goto
<1>7. ASSUME NEW r \in Requests, AuditInitiated(r) \/ PrePolicy(r) \/ PostPolicy(r)
      PROVE  Accounted(t)'
  BY <1>3, <1>4, <1>7 DEF AuditInitiated, PrePolicy, PostPolicy, Holding
<1>8. ASSUME NEW r \in Requests, Scan(r)
      PROVE  Accounted(t)'
  <2>1. PICK v \in ScanResult : ctx' = [ctx EXCEPT ![r].verdict = v]
    BY <1>8 DEF Scan
  <2>2. ctx' = [ctx EXCEPT ![r] = [ctx[r] EXCEPT !.verdict = v]]
    BY <2>1
  <2>3. QED
    BY <1>3, <1>8, <2>2 DEF Scan, Holding
<1>9. ASSUME NEW r \in Requests, PersistRejected(r)
      PROVE  Accounted(t)'
  <2>1. /\ pc[r] = "persist_rejected" /\ ctx[r].tx \notin blobs
        /\ pc' = [pc EXCEPT ![r] = "audit_rejected"] /\ UNCHANGED <<ctx, blobs, cut>>
    BY <1>0, <1>9 DEF PersistRejected, Goto, RequestSafe, Owning
  <2>2. PickUp(t) => PickUp(t)'
    BY <1>0, <1>9, <2>1 DEF PersistRejected, InsertTransfer, PickUp, TypeOK
  <2>3. QED
    BY <1>0, <1>4, <2>1, <2>2, AccountedElsewhere DEF Holding
<1>10. ASSUME NEW r \in Requests,
              \/ AuditRejected(r) \/ AuditAccepted(r) \/ IssueTicket(r)
       PROVE  Accounted(t)'
  BY <1>2, <1>10 DEF AuditRejected, AuditAccepted, IssueTicket, Holding
<1>11. ASSUME NEW r \in Requests, GetBlob(r)
       PROVE  Accounted(t)'
  BY <1>2, <1>3, <1>4, <1>11 DEF GetBlob, Goto, Holding
<1>12. ASSUME NEW r \in Requests, MarkAccepted(r)
       PROVE  Accounted(t)'
  <2>1. /\ pc[r] = "mark_accepted" /\ pc' = [pc EXCEPT ![r] = "audit_accepted"]
        /\ UNCHANGED <<ctx, blobs, cut>>
    BY <1>12 DEF MarkAccepted, Goto
  <2>2. PickUp(t) => PickUp(t)'
    <3>1. rows'[t] = rows[t] \/ rows'[t] = [rows[t] EXCEPT !.state = "accepted"]
      BY <1>0, <1>12, <2>1 DEF MarkAccepted, TypeOK
    <3>2. rows[t] \in TransferRow
      BY <1>0, <2>1 DEF TypeOK
    <3>3. [rows[t] EXCEPT !.state = "accepted"].state = "accepted"
      BY <3>2, RowWithState
    <3>4. QED
      BY <3>1, <3>3 DEF PickUp
  <2>3. QED
    BY <1>0, <1>4, <2>1, <2>2, AccountedElsewhere DEF Holding
<1>13. ASSUME NEW r \in Requests, PutBlob(r)
       PROVE  Accounted(t)'
  <2>1. /\ pc[r] = "put_blob" /\ pc' = [pc EXCEPT ![r] = "insert"]
        /\ blobs' = blobs \cup {ctx[r].tx} /\ UNCHANGED <<rows, ctx, cut>>
    BY <1>13 DEF PutBlob, Goto
  <2>2. CASE t = ctx[r].tx
    BY <2>1, <2>2 DEF Accounted, Holding, TypeOK
  <2>3. CASE t # ctx[r].tx
    BY <1>0, <1>1, <1>4, <2>1, <2>3, AccountedElsewhere DEF Holding
  <2>4. QED
    BY <2>2, <2>3
<1>14. ASSUME NEW r \in Requests, InsertReady(r)
       PROVE  Accounted(t)'
  <2>1. /\ pc' = [pc EXCEPT ![r] = "done"] /\ ctx' = [ctx EXCEPT ![r] = NoContext]
        /\ UNCHANGED <<blobs, cut>>
    BY <1>14 DEF InsertReady, Return
  <2>2. CASE t = ctx[r].tx
    BY <1>0, <1>14, <2>1, <2>2 DEF InsertReady, InsertTransfer, Accounted, PickUp, TypeOK
  <2>3. CASE t # ctx[r].tx
    <3>1. PickUp(t) => PickUp(t)'
      BY <1>0, <1>14, <2>1, <2>3 DEF InsertReady, InsertTransfer, PickUp, TypeOK
    <3>2. QED
      BY <1>0, <2>1, <2>3, <3>1, AccountedOther
  <2>4. QED
    BY <2>2, <2>3
<1>15. ASSUME NEW r \in Requests, MarkDelivered(r)
       PROVE  Accounted(t)'
  <2>1. pc[r] = "mark_delivered" /\ UNCHANGED <<blobs, cut>>
    BY <1>15 DEF MarkDelivered
  <2>2. CASE Return(r) /\ UNCHANGED rows
    BY <1>2, <2>1, <2>2 DEF Holding
  <2>3. CASE /\ rows' = [rows EXCEPT ![ctx[r].tx].state = "delivered"]
             /\ pc' = [pc EXCEPT ![r] = "audit_delivered"]
             /\ UNCHANGED ctx
    <3>1. CASE t = ctx[r].tx
      BY <2>3, <3>1 DEF Accounted, Holding, TypeOK
    <3>2. CASE t # ctx[r].tx
      <4>1. PickUp(t) => PickUp(t)'
        BY <1>0, <2>1, <2>3, <3>2 DEF PickUp, TypeOK
      <4>2. QED
        BY <1>0, <1>4, <2>1, <2>3, <3>2, <4>1, AccountedOther
    <3>3. QED
      BY <3>1, <3>2
  <2>4. QED
    BY <1>15, <2>2, <2>3 DEF MarkDelivered
<1>16. ASSUME NEW r \in Requests, AuditDelivered(r)
       PROVE  Accounted(t)'
  <2>1. /\ pc' = [pc EXCEPT ![r] = "delete_blob"] /\ UNCHANGED <<rows, blobs, ctx, cut>>
    BY <1>16 DEF AuditDelivered, Goto
  <2>2. CASE t = ctx[r].tx
    BY <2>1, <2>2 DEF Accounted, Holding, TypeOK
  <2>3. CASE t # ctx[r].tx
    BY <1>0, <1>1, <1>4, <2>1, <2>3, AccountedOther
  <2>4. QED
    BY <2>2, <2>3
<1>17. ASSUME NEW r \in Requests, DeleteBlob(r)
       PROVE  Accounted(t)'
  <2>1. /\ pc' = [pc EXCEPT ![r] = "done"] /\ ctx' = [ctx EXCEPT ![r] = NoContext]
        /\ UNCHANGED rows /\ cut \subseteq cut' /\ t \in blobs
        /\ t = ctx[r].tx => t \in cut'
    BY <1>17 DEF DeleteBlob, Return
  <2>2. QED
    BY <1>0, <1>1, <2>1, AccountedOther DEF Accounted
<1>18. ASSUME NEW r \in Requests, Cut(r)
       PROVE  Accounted(t)'
  <2>1. /\ pc' = [pc EXCEPT ![r] = "done"] /\ ctx' = [ctx EXCEPT ![r] = NoContext]
        /\ UNCHANGED <<rows, blobs>> /\ cut' = cut \cup ({ctx[r].tx} \ {Null})
    BY <1>18 DEF Cut, Return
  <2>2. t # Null
    BY <1>0, <2>1, NullAssumption
  <2>3. QED
    BY <1>0, <1>1, <2>1, <2>2, AccountedOther DEF Accounted
<1>19. CASE UNCHANGED vars
  BY <1>0, <1>19 DEF vars, Accounted, PickUp
<1>20. QED
  BY <1>5, <1>6, <1>7, <1>8, <1>9, <1>10, <1>11, <1>12, <1>13, <1>14, <1>15, <1>16,
     <1>17, <1>18, <1>19 DEF Next, Step

\* No bytes are left behind in the blob store: whatever it holds can still be
\* picked up, is in the hands of a handler in progress, or belongs to a
\* transfer on which a request was cut short or a delete failed.
THEOREM BytesAccounted == SafetySpec => []BlobAccounted
<1>1. Init => BlobAccounted
  BY DEF Init, BlobAccounted
<1>2. TypeOK /\ ContextOK /\ Safe /\ BlobAccounted /\ [Next]_vars => BlobAccounted'
  BY AccountedStep
<1>3. QED
  BY <1>1, <1>2, Typing, Safety, PTL DEF SafetySpec

-----------------------------------------------------------------------------
(* Tickets *)

\* A row with a data-plane url has an address of the sender, no bytes here, and
\* can only be waiting or delivered.
RowsAddressed ==
    \A t \in TransferIds :
        rows[t].url # Null =>
            /\ rows[t].url \in rows[t].reachable
            /\ ~rows[t].sha
            /\ rows[t].state \in {"ready_for_pickup", "delivered"}

\* The address a create request will insert answered the probe; the one a
\* ticket request read is still the row's.
Addressed(l, c) ==
    /\ l \in Owning \cup {"consume_nonce"} =>
          /\ c.path = "blob" => c.url = Null
          /\ c.url # Null => c.url \in c.reachable
    /\ l = "insert_ticket" => rows[c.tx].url = c.url

AddressInv ==
    /\ RowsAddressed
    /\ \A r \in Requests : Addressed(pc[r], ctx[r])
    /\ \A k \in tickets : rows[k.tx].url = k.url

\* Neither the id nor the verdict of a handler is part of an address.
LEMMA SameAddress ==
    ASSUME NEW c \in Context, NEW t \in TransferIds, NEW v \in ScanResult
    PROVE  /\ [c EXCEPT !.tx = t].url = c.url
           /\ [c EXCEPT !.tx = t].reachable = c.reachable
           /\ [c EXCEPT !.verdict = v].url = c.url
           /\ [c EXCEPT !.verdict = v].reachable = c.reachable
BY DEF Context

\* The url a row has never changes.
LEMMA UrlKept ==
    ASSUME TypeOK, ContextOK, Safe, [Next]_vars, NEW t \in TransferIds, rows[t].url # Null
    PROVE  rows'[t].url = rows[t].url
BY RowStep DEF RowInserted, RowForward, NoRow

\* The rows stay addressed: only a create request inserts an address, and no
\* download moves a row that has one.
LEMMA RowsAddressedStep ==
    ASSUME TypeOK, ContextOK, Safe, [Next]_vars, AddressInv
    PROVE  RowsAddressed'
<1> SUFFICES ASSUME NEW t \in TransferIds, rows'[t].url # Null
             PROVE  /\ rows'[t].url \in rows'[t].reachable
                    /\ ~rows'[t].sha
                    /\ rows'[t].state \in {"ready_for_pickup", "delivered"}
  BY DEF RowsAddressed
<1>1. CASE rows'[t] = rows[t]
  BY <1>1 DEF AddressInv, RowsAddressed
<1>2. CASE RowInserted(t)
  <2>1. PICK r \in Requests :
          /\ ctx[r].tx = t /\ pc[r] = "insert"
          /\ rows'[t].state = "ready_for_pickup"
          /\ rows'[t].url = ctx[r].url /\ rows'[t].reachable = ctx[r].reachable
          /\ rows'[t].sha = (ctx[r].path = "blob")
    BY <1>2 DEF RowInserted
  <2>2. Addressed("insert", ctx[r])
    BY <2>1 DEF AddressInv
  <2>3. QED
    BY <2>1, <2>2 DEF Addressed, Owning
<1>3. CASE RowForward(t)
  BY <1>3 DEF RowForward, AddressInv, RowsAddressed
<1>4. QED
  BY <1>1, <1>2, <1>3, RowStep

\* A request keeps the address it inserts, and keeps or reads the one it
\* issues a ticket for.
LEMMA RequestsAddressedStep ==
    ASSUME TypeOK, ContextOK, Safe, [Next]_vars, AddressInv
    PROVE  \A s \in Requests : Addressed(pc[s], ctx[s])'
<1> SUFFICES ASSUME NEW s \in Requests
             PROVE  Addressed(pc[s], ctx[s])'
  OBVIOUS
<1>0. Addressed(pc[s], ctx[s]) /\ LocalOK(pc[s], ctx[s]) /\ Null \notin HttpsEndpoints
  BY NullAssumption, EndpointsAssumption DEF AddressInv, ContextOK
<1>1. CASE pc'[s] = pc[s] /\ ctx'[s] = ctx[s]
  <2>1. pc[s] = "insert_ticket" => rows'[ctx[s].tx].url = rows[ctx[s].tx].url
    BY <1>0, UrlKept DEF LocalOK, OnRow, Addressed
  <2>2. QED
    BY <1>0, <1>1, <2>1 DEF Addressed
<1>2. ASSUME NEW r \in Requests, NEW l, l \notin Owning \cup {"consume_nonce", "insert_ticket"},
             pc' = [pc EXCEPT ![r] = l], NEW c, ctx' = [ctx EXCEPT ![r] = c]
      PROVE  Addressed(pc[s], ctx[s])'
  <2>1. s # r => pc'[s] = pc[s] /\ ctx'[s] = ctx[s]
    BY <1>2 DEF TypeOK
  <2>2. s = r => pc'[s] = l
    BY <1>2 DEF TypeOK
  <2>3. QED
    BY <1>1, <1>2, <2>1, <2>2 DEF Addressed
<1>3. ASSUME NEW r \in Requests, pc[r] \in Owning \cup {"consume_nonce"},
             NEW l \in Owning, pc' = [pc EXCEPT ![r] = l],
             NEW c, ctx' = [ctx EXCEPT ![r] = c],
             c.path = ctx[r].path, c.url = ctx[r].url, c.reachable = ctx[r].reachable
      PROVE  Addressed(pc[s], ctx[s])'
  <2>1. s # r => pc'[s] = pc[s] /\ ctx'[s] = ctx[s]
    BY <1>3 DEF TypeOK
  <2>2. s = r => pc'[s] = l /\ ctx'[s] = c
    BY <1>3 DEF TypeOK
  <2>3. QED
    BY <1>0, <1>1, <1>3, <2>1, <2>2 DEF Addressed, Owning
<1>4. \A r \in Requests : UNCHANGED ctx => ctx' = [ctx EXCEPT ![r] = ctx[r]]
  BY DEF TypeOK
<1>5. \A r \in Requests : Return(r) => Addressed(pc[s], ctx[s])'
  BY <1>2 DEF Return, Owning
<1>6. ASSUME NEW r \in Requests, NEW i, NEW p, NEW u, NEW h,
             StartCreate(r, i, p, u, h), p = "blob" => u = Null, u # Null => u \in h
      PROVE  Addressed(pc[s], ctx[s])'
  <2> DEFINE c == [tx |-> Null, intent |-> i, path |-> p, url |-> u,
                   reachable |-> h, verdict |-> NotScanned]
  <2>1. c.path = p /\ c.url = u /\ c.reachable = h
    OBVIOUS
  <2>2. pc' = [pc EXCEPT ![r] = "consume_nonce"] /\ ctx' = [ctx EXCEPT ![r] = c]
    BY <1>6 DEF StartCreate, Goto
  <2> HIDE DEF c
  <2>3. s # r => pc'[s] = pc[s] /\ ctx'[s] = ctx[s]
    BY <2>2 DEF TypeOK
  <2>4. s = r => pc'[s] = "consume_nonce" /\ ctx'[s] = c
    BY <2>2 DEF TypeOK
  <2>5. QED
    BY <1>1, <1>6, <2>1, <2>3, <2>4 DEF Addressed
<1>7. ASSUME NEW r \in Requests, Create(r)
      PROVE  Addressed(pc[s], ctx[s])'
  <2>1. CASE CreateBlob(r) \/ CreateTunnel(r)
    BY <1>6, <2>1 DEF CreateBlob, CreateTunnel
  <2>2. CASE CreateReachable(r)
    <3>1. PICK i \in SignedIntents, list \in ReachableLists :
          \E healthy \in ProbeOutcomes(list) \ {{}} :
          \E url \in LegacyTunnelUrl(list, healthy) :
              StartCreate(r, i, "reachable", url, healthy)
      BY <2>2 DEF CreateReachable
    <3>2. PICK healthy : \E url \in LegacyTunnelUrl(list, healthy) :
              StartCreate(r, i, "reachable", url, healthy)
      BY <3>1
    <3>3. PICK url \in LegacyTunnelUrl(list, healthy) :
              StartCreate(r, i, "reachable", url, healthy)
      BY <3>2
    <3>4. url # Null => url \in healthy
      BY <3>3 DEF LegacyTunnelUrl
    <3>5. QED
      BY <1>6, <3>3, <3>4
  <2>3. QED
    BY <1>7, <2>1, <2>2 DEF Create
<1>8. ASSUME NEW r \in Requests, Download(r) \/ Ack(r)
      PROVE  Addressed(pc[s], ctx[s])'
  BY <1>2, <1>8 DEF Download, Ack, StartOn, Goto, Owning
<1>9. ASSUME NEW r \in Requests, RequestTicket(r)
      PROVE  Addressed(pc[s], ctx[s])'
  <2>1. PICK t \in TransferIds : StartOn(r, t, rows[t].url, "insert_ticket")
    BY <1>9 DEF RequestTicket
  <2> DEFINE c == [tx |-> t, intent |-> Null, path |-> Null, url |-> rows[t].url,
                   reachable |-> {}, verdict |-> NotScanned]
  <2>2. c.tx = t /\ c.url = rows[t].url
    OBVIOUS
  <2>3. /\ pc' = [pc EXCEPT ![r] = "insert_ticket"] /\ ctx' = [ctx EXCEPT ![r] = c]
        /\ UNCHANGED rows
    BY <2>1 DEF StartOn, Goto
  <2> HIDE DEF c
  <2>4. s # r => pc'[s] = pc[s] /\ ctx'[s] = ctx[s]
    BY <2>3 DEF TypeOK
  <2>5. s = r => pc'[s] = "insert_ticket" /\ ctx'[s] = c
    BY <2>3 DEF TypeOK
  <2>6. QED
    BY <1>1, <2>2, <2>3, <2>4, <2>5 DEF Addressed, Owning
<1>10. ASSUME NEW r \in Requests, ConsumeNonce(r) \/ ConsumeNonceUnchecked(r)
       PROVE  Addressed(pc[s], ctx[s])'
  <2>1. CASE Return(r)
    BY <1>5, <2>1
  <2>2. ASSUME NEW t \in TransferIds, ctx' = [ctx EXCEPT ![r].tx = t],
               NEW l \in {"audit_initiated", "insert"}, pc' = [pc EXCEPT ![r] = l]
        PROVE  Addressed(pc[s], ctx[s])'
    <3> DEFINE c == [ctx[r] EXCEPT !.tx = t]
    <3>1. c.path = ctx[r].path /\ c.url = ctx[r].url /\ c.reachable = ctx[r].reachable
      BY SetTx, SameAddress DEF TypeOK, ScanResult
    <3>2. ctx' = [ctx EXCEPT ![r] = c] /\ pc[r] = "consume_nonce" /\ l \in Owning
      BY <1>10, <2>2 DEF ConsumeNonce, ConsumeNonceUnchecked, Goto, Owning
    <3> HIDE DEF c
    <3>3. QED
      BY <1>3, <2>2, <3>1, <3>2
  <2>3. QED
    BY <1>10, <2>1, <2>2 DEF ConsumeNonce, ConsumeNonceUnchecked, Goto
<1>11. ASSUME NEW r \in Requests, AuditInitiated(r) \/ PrePolicy(r) \/ PostPolicy(r) \/ PutBlob(r)
       PROVE  Addressed(pc[s], ctx[s])'
  BY <1>3, <1>4, <1>11 DEF AuditInitiated, PrePolicy, PostPolicy, PutBlob, Goto, Owning
<1>12. ASSUME NEW r \in Requests, Scan(r)
       PROVE  Addressed(pc[s], ctx[s])'
  <2>1. PICK v \in ScanResult : ctx' = [ctx EXCEPT ![r].verdict = v]
    BY <1>12 DEF Scan
  <2> DEFINE c == [ctx[r] EXCEPT !.verdict = v]
  <2>2. c.path = ctx[r].path /\ c.url = ctx[r].url /\ c.reachable = ctx[r].reachable
    BY DEF TypeOK, Context
  <2>3. /\ ctx' = [ctx EXCEPT ![r] = c] /\ pc[r] = "scan"
        /\ pc' = [pc EXCEPT ![r] = "post_policy"]
    BY <1>12, <2>1 DEF Scan, Goto
  <2> HIDE DEF c
  <2>4. QED
    BY <1>3, <2>2, <2>3 DEF Owning
<1>13. ASSUME NEW r \in Requests,
              PersistRejected(r) \/ MarkAccepted(r) \/ AuditDelivered(r)
       PROVE  Addressed(pc[s], ctx[s])'
  BY <1>2, <1>4, <1>13 DEF PersistRejected, MarkAccepted, AuditDelivered, Goto, Owning
<1>14. ASSUME NEW r \in Requests,
              \/ AuditRejected(r) \/ InsertReady(r) \/ AuditAccepted(r)
              \/ DeleteBlob(r) \/ IssueTicket(r) \/ Cut(r)
       PROVE  Addressed(pc[s], ctx[s])'
  BY <1>5, <1>14 DEF AuditRejected, InsertReady, AuditAccepted, DeleteBlob, IssueTicket, Cut
<1>15. ASSUME NEW r \in Requests, GetBlob(r) \/ MarkDelivered(r)
       PROVE  Addressed(pc[s], ctx[s])'
  BY <1>2, <1>4, <1>5, <1>15 DEF GetBlob, MarkDelivered, Owning
<1>16. CASE UNCHANGED vars
  BY <1>1, <1>16 DEF vars
<1>17. QED
  BY <1>7, <1>8, <1>9, <1>10, <1>11, <1>12, <1>13, <1>14, <1>15, <1>16 DEF Next, Step

\* A ticket is issued only from insert_ticket, for the address read there.
LEMMA TicketStep ==
    ASSUME [Next]_vars
    PROVE  \/ UNCHANGED tickets
           \/ \E r \in Requests :
                 /\ pc[r] = "insert_ticket" /\ UNCHANGED rows
                 /\ tickets' = tickets \cup
                                  {[nonce |-> r, tx |-> ctx[r].tx, url |-> ctx[r].url]}
<1>1. ASSUME NEW r \in Requests, Create(r) \/ Download(r) \/ Ack(r) \/ RequestTicket(r)
      PROVE  UNCHANGED tickets
  BY <1>1 DEF Create, CreateBlob, CreateTunnel, CreateReachable, StartCreate,
              Download, Ack, RequestTicket, StartOn
<1>2. ASSUME NEW r \in Requests,
             \/ ConsumeNonce(r) \/ ConsumeNonceUnchecked(r) \/ AuditInitiated(r)
             \/ PrePolicy(r) \/ Scan(r) \/ PostPolicy(r) \/ PersistRejected(r)
             \/ AuditRejected(r) \/ PutBlob(r) \/ InsertReady(r) \/ GetBlob(r)
             \/ MarkAccepted(r) \/ AuditAccepted(r) \/ MarkDelivered(r)
             \/ AuditDelivered(r) \/ DeleteBlob(r) \/ Cut(r)
      PROVE  UNCHANGED tickets
  BY <1>2 DEF ConsumeNonce, ConsumeNonceUnchecked, AuditInitiated, PrePolicy, Scan,
              PostPolicy, PersistRejected, AuditRejected, PutBlob, InsertReady,
              GetBlob, MarkAccepted, AuditAccepted, MarkDelivered, AuditDelivered,
              DeleteBlob, Cut
<1>3. ASSUME UNCHANGED vars
      PROVE  UNCHANGED tickets
  BY <1>3 DEF vars
<1>4. QED
  BY <1>1, <1>2, <1>3 DEF Next, Step, IssueTicket

\* A ticket names a transfer whose bytes stay with the sender, at an endpoint
\* that answered the probe and that the row still has; such a transfer is
\* waiting or delivered, and its bytes are never here.
THEOREM TicketsAreBacked == SafetySpec => []TicketsBacked
<1>1. Init => AddressInv
  BY DEF Init, AddressInv, RowsAddressed, Addressed, Owning, NoRow
<1>2. ASSUME TypeOK, ContextOK, Safe, AddressInv, [Next]_vars
      PROVE  AddressInv'
  <2>1. \A k \in tickets' : rows'[k.tx].url = k.url
    <3>1. ASSUME NEW k \in tickets
          PROVE  rows'[k.tx].url = k.url
      <4>1. k.tx \in TransferIds /\ k.url \in HttpsEndpoints /\ rows[k.tx].url = k.url
        BY <1>2 DEF TypeOK, AddressInv
      <4>2. QED
        BY <1>2, <4>1, UrlKept, NullAssumption, EndpointsAssumption
    <3>2. ASSUME NEW r \in Requests, pc[r] = "insert_ticket", UNCHANGED rows,
                 NEW k, k = [nonce |-> r, tx |-> ctx[r].tx, url |-> ctx[r].url]
          PROVE  rows'[k.tx].url = k.url
      BY <1>2, <3>2 DEF AddressInv, Addressed
    <3>3. QED
      BY <1>2, <3>1, <3>2, TicketStep
  <2>2. QED
    BY <1>2, <2>1, RowsAddressedStep, RequestsAddressedStep DEF AddressInv
<1>3. ASSUME TypeOK, Safe, AddressInv
      PROVE  TicketsBacked
  <2> SUFFICES ASSUME NEW k \in tickets
               PROVE  /\ rows[k.tx].url = k.url
                      /\ k.url \in rows[k.tx].reachable
                      /\ rows[k.tx].state \in {"ready_for_pickup", "delivered"}
                      /\ k.tx \notin blobs \cup released
    BY DEF TicketsBacked
  <2>1. k.tx \in TransferIds /\ k.url # Null /\ rows[k.tx].url = k.url
    BY <1>3, NullAssumption, EndpointsAssumption DEF TypeOK, AddressInv
  <2>2. /\ k.url \in rows[k.tx].reachable /\ ~rows[k.tx].sha
        /\ rows[k.tx].state \in {"ready_for_pickup", "delivered"}
    BY <1>3, <2>1 DEF AddressInv, RowsAddressed
  <2>3. k.tx \notin blobs \cup released
    BY <1>3, <2>2 DEF Safe, StoresSafe, BlobsHaveRows, ReleasedHaveRows
  <2>4. QED
    BY <2>1, <2>2, <2>3
<1>4. QED
  BY <1>1, <1>2, <1>3, Typing, Safety, PTL DEF SafetySpec

-----------------------------------------------------------------------------
(* Delivery receipts *)

\* The delivery receipts the log holds for t.
Receipts(t) == audit[t]["delivered"]

\* A step that writes no receipt, lets no request reach the audit step of
\* ack_transfer and takes no delivered row back.
NoReceipt ==
    /\ \A t \in TransferIds : Receipts(t)' = Receipts(t)
    /\ \A t \in TransferIds :
          rows[t].state = "delivered" => rows'[t].state = "delivered"
    /\ \A s \in Requests :
          pc'[s] = "audit_delivered" =>
              pc[s] = "audit_delivered" /\ ctx'[s].tx = ctx[s].tx

\* An audit event of another kind adds no delivery receipt.
LEMMA LoggedReceipts ==
    ASSUME TypeOK, NEW t, NEW k \in EventKind, k # "delivered", AuditWarn(t, k)
    PROVE  \A u \in TransferIds : Receipts(u)' = Receipts(u)
<1> SUFFICES ASSUME NEW u \in TransferIds
             PROVE  audit'[u]["delivered"] = audit[u]["delivered"]
  BY DEF Receipts
<1>1. "delivered" \in EventKind /\ audit[u] \in [EventKind -> Nat]
  BY DEF EventKind, TypeOK
<1>2. audit' = audit \/ audit' = [audit EXCEPT ![t] = [audit[t] EXCEPT ![k] = audit[t][k] + 1]]
  BY DEF AuditWarn, Logged
<1>3. [audit[u] EXCEPT ![k] = audit[u][k] + 1]["delivered"] = audit[u]["delivered"]
  BY <1>1
<1>4. QED
  BY <1>2, <1>3 DEF TypeOK

\* A step of r alone to a location other than the audit step of ack_transfer.
LEMMA MovesAway ==
    ASSUME TypeOK, NEW r \in Requests, NEW l, l # "audit_delivered",
           pc' = [pc EXCEPT ![r] = l],
           NEW c, ctx' = [ctx EXCEPT ![r] = c] \/ ctx' = ctx
    PROVE  \A s \in Requests :
              pc'[s] = "audit_delivered" =>
                  pc[s] = "audit_delivered" /\ ctx'[s].tx = ctx[s].tx
BY DEF TypeOK

\* A request that returns does not reach the audit step of ack_transfer.
LEMMA ReturnsAway ==
    ASSUME TypeOK, NEW r \in Requests, Return(r)
    PROVE  \A s \in Requests :
              pc'[s] = "audit_delivered" =>
                  pc[s] = "audit_delivered" /\ ctx'[s].tx = ctx[s].tx
BY MovesAway DEF Return

\* The steps that write neither the table nor a receipt.
LEMMA CreateNoReceipt ==
    ASSUME TypeOK, NEW r \in Requests,
           Create(r) \/ Download(r) \/ Ack(r) \/ RequestTicket(r)
    PROVE  NoReceipt /\ UNCHANGED <<rows, released>>
<1>1. ASSUME NEW i, NEW p, NEW u, NEW s, StartCreate(r, i, p, u, s)
      PROVE  NoReceipt /\ UNCHANGED <<rows, released>>
  <2>1. UNCHANGED <<rows, released, audit>>
    BY <1>1 DEF StartCreate
  <2>2. QED
    BY <1>1, <2>1, MovesAway DEF StartCreate, Goto, NoReceipt, Receipts
<1>2. ASSUME NEW t, NEW u, NEW l \in {"get_blob", "mark_delivered", "insert_ticket"},
             StartOn(r, t, u, l)
      PROVE  NoReceipt /\ UNCHANGED <<rows, released>>
  <2>1. UNCHANGED <<rows, released, audit>>
    BY <1>2 DEF StartOn
  <2>2. QED
    BY <1>2, <2>1, MovesAway DEF StartOn, Goto, NoReceipt, Receipts
<1>3. QED
  BY <1>1, <1>2 DEF Create, CreateBlob, CreateTunnel, CreateReachable, Download,
                    Ack, RequestTicket

\* These steps touch neither the table nor the bytes handed out, and write no
\* receipt.
LEMMA QuietNoReceipt ==
    ASSUME TypeOK, NEW r \in Requests,
           \/ ConsumeNonce(r) \/ ConsumeNonceUnchecked(r) \/ AuditInitiated(r)
           \/ PrePolicy(r) \/ Scan(r) \/ PostPolicy(r) \/ AuditRejected(r)
           \/ PutBlob(r) \/ GetBlob(r) \/ DeleteBlob(r) \/ IssueTicket(r) \/ Cut(r)
    PROVE  NoReceipt /\ UNCHANGED <<rows, released>>
<1> DEFINE Away == \A s \in Requests :
                      pc'[s] = "audit_delivered" =>
                          pc[s] = "audit_delivered" /\ ctx'[s].tx = ctx[s].tx
<1>1. CASE ConsumeNonce(r) \/ ConsumeNonceUnchecked(r)
  <2>1. UNCHANGED <<rows, released, audit>>
    BY <1>1 DEF ConsumeNonce, ConsumeNonceUnchecked
  <2>2. CASE Return(r)
    BY <2>1, <2>2, ReturnsAway DEF NoReceipt, Receipts
  <2>3. CASE ~Return(r)
    <3>1. PICK l \in {"audit_initiated", "insert"}, t \in TransferIds :
            pc' = [pc EXCEPT ![r] = l] /\ ctx' = [ctx EXCEPT ![r].tx = t]
      BY <1>1, <2>3 DEF ConsumeNonce, ConsumeNonceUnchecked, Goto
    <3>2. ctx' = [ctx EXCEPT ![r] = [ctx[r] EXCEPT !.tx = t]]
      BY <3>1
    <3>3. Away
      BY <3>1, <3>2, MovesAway
    <3>4. QED
      BY <2>1, <3>3 DEF NoReceipt, Receipts
  <2>4. QED
    BY <2>2, <2>3
<1>2. CASE AuditInitiated(r) \/ PrePolicy(r) \/ PostPolicy(r)
  <2>1. PICK l \in {"pre_policy", "persist_rejected", "scan", "put_blob"} :
          pc' = [pc EXCEPT ![r] = l]
    BY <1>2 DEF AuditInitiated, PrePolicy, PostPolicy, Goto
  <2>2. UNCHANGED <<rows, released, ctx>>
    BY <1>2 DEF AuditInitiated, PrePolicy, PostPolicy
  <2>3. \A u \in TransferIds : Receipts(u)' = Receipts(u)
    BY <1>2, LoggedReceipts DEF AuditInitiated, PrePolicy, PostPolicy, EventKind
  <2>4. Away
    BY <2>1, <2>2, MovesAway
  <2>5. QED
    BY <2>2, <2>3, <2>4 DEF NoReceipt
<1>3. CASE Scan(r)
  <2>1. PICK v \in ScanResult : ctx' = [ctx EXCEPT ![r] = [ctx[r] EXCEPT !.verdict = v]]
    BY <1>3 DEF Scan
  <2>2. pc' = [pc EXCEPT ![r] = "post_policy"] /\ UNCHANGED <<rows, released>>
    BY <1>3 DEF Scan, Goto
  <2>3. \A u \in TransferIds : Receipts(u)' = Receipts(u)
    BY <1>3, LoggedReceipts DEF Scan, EventKind
  <2>4. Away
    BY <2>1, <2>2, MovesAway
  <2>5. QED
    BY <2>2, <2>3, <2>4 DEF NoReceipt
<1>4. CASE AuditRejected(r)
  <2>1. \A u \in TransferIds : Receipts(u)' = Receipts(u)
    BY <1>4, LoggedReceipts DEF AuditRejected, EventKind
  <2>2. QED
    BY <1>4, <2>1, ReturnsAway DEF AuditRejected, NoReceipt
<1>5. CASE PutBlob(r) \/ GetBlob(r)
  <2>1. UNCHANGED <<rows, released, audit>>
    BY <1>5 DEF PutBlob, GetBlob
  <2>2. CASE Return(r)
    BY <2>1, <2>2, ReturnsAway DEF NoReceipt, Receipts
  <2>3. CASE ~Return(r)
    <3>1. PICK l \in {"insert", "mark_accepted"} :
            pc' = [pc EXCEPT ![r] = l] /\ UNCHANGED ctx
      BY <1>5, <2>3 DEF PutBlob, GetBlob, Goto
    <3>2. Away
      BY <3>1, MovesAway
    <3>3. QED
      BY <2>1, <3>2 DEF NoReceipt, Receipts
  <2>4. QED
    BY <2>2, <2>3
<1>6. CASE DeleteBlob(r) \/ IssueTicket(r) \/ Cut(r)
  <2>1. UNCHANGED <<rows, released, audit>> /\ Return(r)
    BY <1>6 DEF DeleteBlob, IssueTicket, Cut
  <2>2. QED
    BY <2>1, ReturnsAway DEF NoReceipt, Receipts
<1>7. QED
  BY <1>1, <1>2, <1>3, <1>4, <1>5, <1>6

\* The state column as TransferLifecycle sees it, when one row is written.
LEMMA RowWritten ==
    ASSUME TypeOK, NEW t \in TransferIds, NEW w, rows' = [rows EXCEPT ![t] = w]
    PROVE  [u \in TransferIds |-> rows'[u].state] =
           [[u \in TransferIds |-> rows[u].state] EXCEPT ![t] = w.state]
BY DEF TypeOK

\* Receipts unchanged, as TransferLifecycle sees them.
LEMMA ReceiptsSame ==
    ASSUME NoReceipt
    PROVE  [t \in TransferIds |-> audit'[t]["delivered"]] =
           [t \in TransferIds |-> audit[t]["delivered"]]
BY DEF NoReceipt, Receipts

\* A step that writes no receipt keeps the count of receipts right.
LEMMA OneReceiptKept ==
    ASSUME TypeOK, ContextOK, OneReceipt, NoReceipt, TypeOK', ContextOK'
    PROVE  OneReceipt'
<1>1. \A t \in TransferIds :
          /\ audit'[t]["delivered"] \in {0, 1}
          /\ audit'[t]["delivered"] = 1 => rows'[t].state = "delivered"
  BY DEF OneReceipt, NoReceipt, Receipts
<1>2. \A r \in Requests : pc[r] = "audit_delivered" => ctx[r].tx \in TransferIds
  BY DEF ContextOK, LocalOK, OnRow
<1>3. \A r \in Requests :
          pc'[r] = "audit_delivered" => audit'[ctx'[r].tx]["delivered"] = 0
  BY <1>2 DEF OneReceipt, NoReceipt, Receipts
<1>4. \A r, s \in Requests :
          /\ pc'[r] = "audit_delivered"
          /\ pc'[s] = "audit_delivered"
          /\ ctx'[r].tx = ctx'[s].tx
          => r = s
  BY DEF OneReceipt, NoReceipt
<1>5. QED
  BY <1>1, <1>3, <1>4 DEF OneReceipt

-----------------------------------------------------------------------------
(* Refinement *)

\* A step that touches nothing the lifecycle sees is a stuttering step of it.
LEMMA StuttersLifecycle ==
    ASSUME NoReceipt, UNCHANGED <<rows, released>>
    PROVE  UNCHANGED Lifecycle!lifecycleVars
BY ReceiptsSame DEF Lifecycle!lifecycleVars

\* A write of one row is a move of the abstract state.
LEMMA MovesLifecycle ==
    ASSUME TypeOK, NoReceipt, NEW t \in TransferIds, NEW w,
           rows' = [rows EXCEPT ![t] = w], UNCHANGED released,
           \/ rows[t].state = "absent" /\ w.state \in {"ready_for_pickup", "rejected"}
           \/ rows[t].state = "ready_for_pickup" /\ w.state = "accepted"
           \/ rows[t].state \in {"ready_for_pickup", "accepted"} /\ w.state = "delivered"
    PROVE  Lifecycle!Next
<1>1. ASSUME NEW from, rows[t].state \in from
      PROVE  Lifecycle!Move(t, from, w.state)
  BY <1>1, RowWritten, ReceiptsSame DEF Lifecycle!Move
<1>2. CASE rows[t].state = "absent" /\ w.state = "ready_for_pickup"
  <2>1. Lifecycle!Create(t)
    BY <1>1, <1>2 DEF Lifecycle!Create
  <2>2. QED
    BY <2>1 DEF Lifecycle!Next
<1>3. CASE rows[t].state = "absent" /\ w.state = "rejected"
  <2>1. Lifecycle!Reject(t)
    BY <1>1, <1>3 DEF Lifecycle!Reject
  <2>2. QED
    BY <2>1 DEF Lifecycle!Next
<1>4. CASE rows[t].state = "ready_for_pickup" /\ w.state = "accepted"
  <2>1. Lifecycle!Accept(t)
    BY <1>1, <1>4 DEF Lifecycle!Accept
  <2>2. QED
    BY <2>1 DEF Lifecycle!Next
<1>5. CASE /\ rows[t].state \in {"ready_for_pickup", "accepted"}
           /\ w.state = "delivered"
  <2>1. Lifecycle!Deliver(t)
    BY <1>1, <1>5 DEF Lifecycle!Deliver
  <2>2. QED
    BY <2>1 DEF Lifecycle!Next
<1>6. QED
  BY <1>2, <1>3, <1>4, <1>5

\* A row is created, ready or rejected, where there was none.
LEMMA InsertRefines ==
    ASSUME TypeOK, ContextOK, Safe, NEW r \in Requests,
           PersistRejected(r) \/ InsertReady(r)
    PROVE  NoReceipt /\ Lifecycle!Next
<1> DEFINE t == ctx[r].tx
<1>1. t \in TransferIds /\ rows[t].state = "absent"
  <2>1. pc[r] \in Owning /\ LocalOK(pc[r], ctx[r]) /\ RequestSafe(pc[r], ctx[r])
    BY DEF PersistRejected, InsertReady, Goto, Owning, ContextOK, Safe, RequestsSafe
  <2>2. QED
    BY <2>1 DEF LocalOK, RequestSafe, NoRow
<1>2. PICK w : rows' = [rows EXCEPT ![t] = w] /\ w.state \in {"ready_for_pickup", "rejected"}
  BY DEF PersistRejected, InsertReady, InsertTransfer
<1>3. UNCHANGED <<audit, released>>
  BY DEF PersistRejected, InsertReady
<1>4. \A s \in Requests :
          pc'[s] = "audit_delivered" =>
              pc[s] = "audit_delivered" /\ ctx'[s].tx = ctx[s].tx
  BY MovesAway, ReturnsAway DEF PersistRejected, InsertReady, Goto
<1> HIDE DEF t
<1>5. NoReceipt
  BY <1>1, <1>2, <1>3, <1>4 DEF NoReceipt, Receipts, TypeOK
<1>6. QED
  BY <1>1, <1>2, <1>3, <1>5, MovesLifecycle

\* mark_accepted moves a ready row to accepted or changes nothing, whatever
\* acks have run since the handler read the row.
LEMMA MarkAcceptedRefines ==
    ASSUME TypeOK, ContextOK, NEW r \in Requests, MarkAccepted(r)
    PROVE  NoReceipt /\ [Lifecycle!Next]_(Lifecycle!lifecycleVars)
<1> DEFINE t == ctx[r].tx
           w == [rows[t] EXCEPT !.state = "accepted"]
<1>1. t \in TransferIds
  BY DEF MarkAccepted, Goto, ContextOK, LocalOK, OnRow
<1>2. \A s \in Requests :
          pc'[s] = "audit_delivered" =>
              pc[s] = "audit_delivered" /\ ctx'[s].tx = ctx[s].tx
  BY MovesAway DEF MarkAccepted, Goto
<1>3. UNCHANGED <<audit, released>>
  BY DEF MarkAccepted
<1>4. CASE rows[t].state = "ready_for_pickup"
  <2>1. rows' = [rows EXCEPT ![t] = w]
    BY <1>4 DEF MarkAccepted
  <2>2. w.state = "accepted"
    BY <1>1, RowWithState DEF TypeOK
  <2> HIDE DEF t, w
  <2>3. NoReceipt
    BY <1>1, <1>2, <1>3, <1>4, <2>1 DEF NoReceipt, Receipts, TypeOK
  <2>4. QED
    BY <1>1, <1>3, <1>4, <2>1, <2>2, <2>3, MovesLifecycle
<1>5. CASE rows[t].state # "ready_for_pickup"
  <2>1. UNCHANGED rows
    BY <1>5 DEF MarkAccepted
  <2>2. NoReceipt
    BY <1>2, <1>3, <2>1 DEF NoReceipt, Receipts
  <2>3. QED
    BY <1>3, <2>1, <2>2, StuttersLifecycle
<1>6. QED
  BY <1>4, <1>5

\* Bytes leave only for a row that is accepted or delivered.
LEMMA AuditAcceptedRefines ==
    ASSUME TypeOK, ContextOK, Safe, NEW r \in Requests, AuditAccepted(r)
    PROVE  NoReceipt /\ Lifecycle!Next
<1> DEFINE t == ctx[r].tx
<1>1. t \in TransferIds /\ rows[t].state \in {"accepted", "delivered"}
  <2>1. /\ pc[r] = "audit_accepted" /\ LocalOK("audit_accepted", ctx[r])
        /\ RequestSafe("audit_accepted", ctx[r])
    BY DEF AuditAccepted, ContextOK, Safe, RequestsSafe
  <2>2. QED
    BY <2>1 DEF LocalOK, RequestSafe, OnRow
<1>2. \A u \in TransferIds : Receipts(u)' = Receipts(u)
  BY LoggedReceipts DEF AuditAccepted, EventKind
<1>3. UNCHANGED rows /\ released' = released \cup {t}
  BY DEF AuditAccepted
<1>4. NoReceipt
  BY <1>2, <1>3, ReturnsAway DEF AuditAccepted, NoReceipt
<1> HIDE DEF t
<1>5. Lifecycle!Release(t)
  BY <1>1, <1>3, <1>4, ReceiptsSame DEF Lifecycle!Release
<1>6. QED
  BY <1>1, <1>4, <1>5 DEF Lifecycle!Next

\* Both steps of an acknowledgement are steps of the lifecycle.
LEMMA AckStep ==
    ASSUME NEW t \in TransferIds, Lifecycle!Deliver(t) \/ Lifecycle!Receipt(t)
    PROVE  Lifecycle!Next
BY DEF Lifecycle!Next

\* Only one ack wins the transfer: the update of the row is its guard.
LEMMA MarkDeliveredRefines ==
    ASSUME TypeOK, ContextOK, Safe, OneReceipt, NEW r \in Requests,
           MarkDelivered(r), TypeOK', ContextOK'
    PROVE  OneReceipt' /\ [Lifecycle!Next]_(Lifecycle!lifecycleVars)
<1>0. PICK t : t = ctx[r].tx
  OBVIOUS
<1> DEFINE w == [rows[t] EXCEPT !.state = "delivered"]
<1>1. t \in TransferIds /\ pc[r] = "mark_delivered"
  BY <1>0 DEF MarkDelivered, ContextOK, LocalOK, OnRow
<1>2. UNCHANGED <<audit, released>>
  BY DEF MarkDelivered
<1>3. CASE Return(r) /\ UNCHANGED rows
  <2>1. NoReceipt
    BY <1>2, <1>3, ReturnsAway DEF NoReceipt, Receipts
  <2>2. QED
    BY <1>2, <1>3, <2>1, OneReceiptKept, StuttersLifecycle
<1>4. CASE /\ rows[t].state \in {"accepted", "ready_for_pickup"}
           /\ rows' = [rows EXCEPT ![t] = w]
           /\ pc' = [pc EXCEPT ![r] = "audit_delivered"]
           /\ UNCHANGED ctx
  <2>1. w.state = "delivered"
    BY <1>1, RowWithState DEF TypeOK
  <2>2. /\ \A u \in TransferIds : audit[u]["delivered"] \in {0, 1}
        /\ audit[t]["delivered"] = 0
    BY <1>1, <1>4 DEF OneReceipt
  <2>3. \A s \in Requests : pc[s] = "audit_delivered" => ctx[s].tx # t
    <3> SUFFICES ASSUME NEW s \in Requests, pc[s] = "audit_delivered"
                 PROVE  rows[ctx[s].tx].state = "delivered"
      BY <1>4
    <3>1. RequestSafe("audit_delivered", ctx[s])
      BY DEF Safe, RequestsSafe
    <3>2. QED
      BY <3>1 DEF RequestSafe
  <2>4. \A s \in Requests : pc'[s] = IF s = r THEN "audit_delivered" ELSE pc[s]
    BY <1>4 DEF TypeOK
  <2>5. t = ctx[r].tx
    BY <1>0
  <2> HIDE DEF w
  <2>6. rows'[t] = w /\ \A u \in TransferIds \ {t} : rows'[u] = rows[u]
    BY <1>1, <1>4 DEF TypeOK
  <2>7. \A u \in TransferIds :
            /\ audit'[u]["delivered"] \in {0, 1}
            /\ audit'[u]["delivered"] = 1 => rows'[u].state = "delivered"
    BY <1>2, <2>1, <2>2, <2>6 DEF OneReceipt
  <2>8. \A s \in Requests :
            pc'[s] = "audit_delivered" => audit'[ctx'[s].tx]["delivered"] = 0
    BY <1>2, <1>4, <2>2, <2>4, <2>5 DEF OneReceipt
  <2>9. \A q, s \in Requests :
            /\ pc'[q] = "audit_delivered"
            /\ pc'[s] = "audit_delivered"
            /\ ctx'[q].tx = ctx'[s].tx
            => q = s
    BY <1>4, <2>3, <2>4, <2>5 DEF OneReceipt
  <2>10. OneReceipt'
    BY <2>7, <2>8, <2>9 DEF OneReceipt
  <2>11. [u \in TransferIds |-> rows'[u].state] =
         [[u \in TransferIds |-> rows[u].state] EXCEPT ![t] = "delivered"]
    BY <1>1, <2>1, <2>6
  <2>12. Lifecycle!Deliver(t)
    BY <1>1, <1>2, <1>4, <2>11 DEF Lifecycle!Deliver, Lifecycle!Move
  <2>13. Lifecycle!Next
    BY <1>1, <2>12, AckStep
  <2>14. QED
    BY <2>10, <2>13
<1>5. QED
  BY <1>0, <1>3, <1>4 DEF MarkDelivered

\* The one ack that delivered the transfer writes its one receipt.
LEMMA AuditDeliveredRefines ==
    ASSUME TypeOK, ContextOK, Safe, OneReceipt, NEW r \in Requests,
           AuditDelivered(r), TypeOK'
    PROVE  OneReceipt' /\ Lifecycle!Next
<1>0. PICK t : t = ctx[r].tx
  OBVIOUS
<1>1. t \in TransferIds /\ rows[t].state = "delivered" /\ audit[t]["delivered"] = 0
  <2>1. /\ pc[r] = "audit_delivered" /\ LocalOK("audit_delivered", ctx[r])
        /\ RequestSafe("audit_delivered", ctx[r])
    BY DEF AuditDelivered, Goto, ContextOK, Safe, RequestsSafe
  <2>2. QED
    BY <1>0, <2>1 DEF LocalOK, RequestSafe, OnRow, OneReceipt
<1>2. UNCHANGED <<rows, released, ctx>> /\ pc' = [pc EXCEPT ![r] = "delete_blob"]
      /\ pc[r] = "audit_delivered"
  BY DEF AuditDelivered, Goto
<1>3. audit' = [audit EXCEPT ![t] =
                  [audit[t] EXCEPT !["delivered"] = audit[t]["delivered"] + 1]]
  BY <1>0, TrackedAssumption DEF AuditDelivered, Logged
<1>5. audit'[t]["delivered"] = 1 /\ \A u \in TransferIds \ {t} : audit'[u] = audit[u]
  <2>1. "delivered" \in EventKind /\ audit[t] \in [EventKind -> Nat]
    BY <1>1 DEF EventKind, TypeOK
  <2>2. [audit[t] EXCEPT !["delivered"] = audit[t]["delivered"] + 1]["delivered"] = 1
    BY <1>1, <2>1
  <2>3. QED
    BY <1>1, <1>3, <2>2 DEF TypeOK
<1>6. \A s \in Requests : pc'[s] = "audit_delivered" =>
                             s # r /\ pc[s] = "audit_delivered"
  BY <1>2 DEF TypeOK
<1>7. OneReceipt'
  <2>1. \A u \in TransferIds :
            /\ audit'[u]["delivered"] \in {0, 1}
            /\ audit'[u]["delivered"] = 1 => rows'[u].state = "delivered"
    BY <1>1, <1>2, <1>5 DEF OneReceipt
  <2>2. \A s \in Requests :
            pc'[s] = "audit_delivered" => audit'[ctx'[s].tx]["delivered"] = 0
    <3> SUFFICES ASSUME NEW s \in Requests, pc'[s] = "audit_delivered"
                 PROVE  audit'[ctx[s].tx]["delivered"] = 0
      BY <1>2
    <3>1. pc[s] = "audit_delivered" /\ ctx[s].tx # t /\ ctx[s].tx \in TransferIds
      BY <1>0, <1>2, <1>6 DEF OneReceipt, ContextOK, LocalOK, OnRow
    <3>2. QED
      BY <1>5, <3>1 DEF OneReceipt
  <2>3. \A q, s \in Requests :
            /\ pc'[q] = "audit_delivered"
            /\ pc'[s] = "audit_delivered"
            /\ ctx'[q].tx = ctx'[s].tx
            => q = s
    BY <1>2, <1>6 DEF OneReceipt
  <2>4. QED
    BY <2>1, <2>2, <2>3 DEF OneReceipt
<1>8. Lifecycle!Receipt(t)
  <2>1. [u \in TransferIds |-> audit'[u]["delivered"]] =
        [[u \in TransferIds |-> audit[u]["delivered"]] EXCEPT ![t] = 1]
    BY <1>1, <1>5
  <2>2. QED
    BY <1>1, <1>2, <2>1 DEF Lifecycle!Receipt
<1>9. Lifecycle!Next
  BY <1>1, <1>8, AckStep
<1>10. QED
  BY <1>7, <1>9

\* Every step of every handler is a step of the lifecycle or a stuttering step.
LEMMA StepRefines ==
    ASSUME TypeOK, ContextOK, Safe, OneReceipt, [Next]_vars, TypeOK', ContextOK'
    PROVE  OneReceipt' /\ [Lifecycle!Next]_(Lifecycle!lifecycleVars)
<1>1. ASSUME NoReceipt, UNCHANGED <<rows, released>>
      PROVE  OneReceipt' /\ [Lifecycle!Next]_(Lifecycle!lifecycleVars)
  BY <1>1, OneReceiptKept, StuttersLifecycle
<1>2. ASSUME NEW r \in Requests, Create(r) \/ Download(r) \/ Ack(r) \/ RequestTicket(r)
      PROVE  OneReceipt' /\ [Lifecycle!Next]_(Lifecycle!lifecycleVars)
  BY <1>1, <1>2, CreateNoReceipt
<1>3. ASSUME NEW r \in Requests,
             \/ ConsumeNonce(r) \/ ConsumeNonceUnchecked(r) \/ AuditInitiated(r)
             \/ PrePolicy(r) \/ Scan(r) \/ PostPolicy(r) \/ AuditRejected(r)
             \/ PutBlob(r) \/ GetBlob(r) \/ DeleteBlob(r) \/ IssueTicket(r) \/ Cut(r)
      PROVE  OneReceipt' /\ [Lifecycle!Next]_(Lifecycle!lifecycleVars)
  BY <1>1, <1>3, QuietNoReceipt
<1>4. ASSUME NEW r \in Requests, PersistRejected(r) \/ InsertReady(r)
      PROVE  OneReceipt' /\ [Lifecycle!Next]_(Lifecycle!lifecycleVars)
  BY <1>4, InsertRefines, OneReceiptKept
<1>5. ASSUME NEW r \in Requests, MarkAccepted(r) \/ AuditAccepted(r)
      PROVE  OneReceipt' /\ [Lifecycle!Next]_(Lifecycle!lifecycleVars)
  BY <1>5, MarkAcceptedRefines, AuditAcceptedRefines, OneReceiptKept
<1>6. ASSUME NEW r \in Requests, MarkDelivered(r) \/ AuditDelivered(r)
      PROVE  OneReceipt' /\ [Lifecycle!Next]_(Lifecycle!lifecycleVars)
  BY <1>6, MarkDeliveredRefines, AuditDeliveredRefines
<1>7. CASE UNCHANGED vars
  <2>1. NoReceipt /\ UNCHANGED <<rows, released>>
    BY <1>7 DEF vars, NoReceipt, Receipts
  <2>2. QED
    BY <1>1, <2>1
<1>8. QED
  BY <1>2, <1>3, <1>4, <1>5, <1>6, <1>7 DEF Next, Step

\* The transfer handlers implement the abstract lifecycle: however downloads,
\* acks and retries interleave and wherever they are cut, no state moves
\* backwards, no bytes leave before the transfer is accepted, and no
\* transfer gets a second delivery receipt.
THEOREM HandlersImplementLifecycle == SafetySpec => ImplementsLifecycle
<1>1. Init => OneReceipt /\ Lifecycle!Init
  <2>1. Init => OneReceipt
    BY DEF Init, OneReceipt, EventKind
  <2>2. Init => Lifecycle!Init
    BY DEF Init, Lifecycle!Init, EventKind, NoRow
  <2>3. QED
    BY <2>1, <2>2
<1>2. TypeOK /\ ContextOK /\ Safe /\ OneReceipt /\ [Next]_vars /\ TypeOK' /\ ContextOK'
        => OneReceipt' /\ [Lifecycle!Next]_(Lifecycle!lifecycleVars)
  BY StepRefines
<1>3. QED
  BY <1>1, <1>2, Typing, Safety, PTL DEF SafetySpec, ImplementsLifecycle, Lifecycle!Spec
=============================================================================
