------------------------------ MODULE MCOutbound ------------------------------
(***************************************************************************)
(* A webhook with two attempts, one configured with zero retries, a        *)
(* decider in the process and a retried operation; two batches of probes   *)
(* behind one permit; one message verified against every kind of identity; *)
(* two messages of one did:web host at the same time.                      *)
(***************************************************************************)
EXTENDS Outbound, TLC

CONSTANTS hook, once, op, local, b1, b2, p0, p1, p2

MCJobs == {hook, once, op, local}
MCJobKind == (hook :> "webhook") @@ (once :> "webhook") @@ (op :> "retry") @@ (local :> "in_process")
MCMaxRetries == [j \in MCJobs |-> IF j = hook THEN 2 ELSE 0]
MCBatches == {b1, b2}
MCProbes == (b1 :> <<"http", "http">>) @@ (b2 :> <<"iroh", "http", "unknown">>)
\* A batch of one endpoint behind a longer one.
BudgetProbes == (b1 :> <<"http", "http", "http">>) @@ (b2 :> <<"http">>)
BudgetLoads == {{b1, b2}}
MCPeerJobs == {p0, p1, p2}
MCLoads == {{hook}, {once}, {local}, {op}, {b1, b2}, {p0}, {p1, p2}}

MCKeyType == ("k1" :> "ed25519") @@ ("k2" :> "ed25519") @@ ("k3" :> "ed25519")
               @@ ("s1" :> "secp256k1")
MCDigest == [k \in DOMAIN MCKeyType |-> "digest of " \o k]

Alice == NativeId("acme", "alice", "k2")
Erin == EthrId("8453", "s1")
Kim == encode_did_key("k1")
Lea == encode_did_key("k3")
Ann == encode_did_key("k2")
Bob == <<"did", ":", "web", ":", "h1", ":", "bob">>
Wes == <<"did", ":", "web", ":", "h1", "#", "wes">>
Uma == <<"did", ":", "web", ":", "uma", "@", "h1">>
MCPeers == {Alice, Erin, Kim, Lea, Ann, Bob, Wes, Uma}

Fresh == <<"0af1">>
Intent(kind, mime, filename) ==
    [kind |-> kind, sender |-> Alice, recipient |-> Bob, size |-> "5", mime |-> mime,
     filename |-> filename, nonce |-> Fresh, ts |-> "7"]
Receipt(kind, by, action) ==
    [kind |-> kind, recipient |-> by, transfer |-> <<"tx_1">>, action |-> <<action>>,
     nonce |-> Fresh, ts |-> "7"]
Response(outcome) ==
    [kind |-> "decision_response", recipient |-> Kim, transfer |-> <<"tx_1">>,
     decision |-> <<"d_1">>, outcome |-> <<outcome>>, reason |-> <<>>, nonce |-> Fresh, ts |-> "7"]

\* Two intents that would read alike if a field could hold a line feed.
Wide1 == Intent("intent", <<"x">>, <<"y", "LF", "filename=", "z">>)
Wide2 == Intent("intent", <<"x", "LF", "filename=", "y">>, <<"z">>)
Plain == Intent("intent", <<"x">>, <<>>)
PlainV2 == Intent("intent_v2", <<"x">>, <<>>)
BobDownloads == Receipt("receipt", Bob, "download")
WesAcks == Receipt("receipt_v2", Wes, "ack")
UmaAcks == Receipt("receipt_v2", Uma, "ack")
Rotation == [kind |-> "rotate_v2", agent |-> Erin, old_pub |-> <<"s1">>, new_pub |-> <<"s2">>,
             nonce |-> Fresh, ts |-> "7"]
Ask == [kind |-> "decision_request", recipient |-> Kim, transfer |-> <<"tx_1">>,
        decision |-> <<"d_1">>, eta |-> "60", nonce |-> Fresh, ts |-> "7"]
Registration(kind) ==
    [kind |-> kind, pub |-> <<"k2">>, org |-> <<"acme">>, name |-> <<"alice">>,
     nonce |-> Fresh, ts |-> "7"]
Ticket(kind) ==
    [kind |-> kind, transfer |-> <<"tx_1">>, recipient |-> Bob, data_plane |-> <<"url">>,
     expires |-> "9", nonce |-> Fresh]

MCMessages ==
    {Wide1, Wide2, Plain, PlainV2, BobDownloads, WesAcks, UmaAcks, Rotation, Ask,
     Response("accepted"), Response("rejected"), Registration("register"), Registration("register_v2"),
     Ticket("ticket"), Ticket("ticket_v2")}
MCInbox == (p0 :> MCMessages) @@ (p1 :> {BobDownloads}) @@ (p2 :> {BobDownloads, WesAcks})
MCSigners ==
    {<<"k2", Wide1>>, <<"k2", Plain>>, <<"k3", PlainV2>>, <<"k1", BobDownloads>>,
     <<"k3", BobDownloads>>, <<"k3", WesAcks>>, <<"k3", UmaAcks>>, <<"s1", Rotation>>,
     <<"k1", Response("rejected")>>, <<"k1", Ask>>, <<"k2", Registration("register")>>, <<"k1", Ticket("ticket_v2")>>}
MCEnrolments == {<<Alice, "k2">>, <<Alice, "k3">>, <<Erin, "s1">>}

\* h1's card with Bob's key, with the next one, signed by another key, with a
\* kid that is not its agent's, and declaring a key of the other algorithm.
Card(key, kid, signer) ==
    [host |-> "h1", agent |-> Bob, key |-> key, kid |-> kid, signer |-> signer]
MCCardPlans ==
    {Card("k1", Bob, "k1"), Card("k3", Bob, "k3"), Card("k1", Bob, "k3"),
     Card("k1", Wes, "k1"), Card("s1", Bob, "s1")}
HopBy(kid, signer) == [kid |-> kid, signer |-> signer]
MCHopPlans == {HopBy(Kim, "k1"), HopBy(Kim, "k3"), HopBy(Alice, "k2"), HopBy(Erin, "s1"),
               HopBy(Lea, "k3"), HopBy(Ann, "k2")}
Hop(from, to) == [from |-> from, to |-> to]
MCTasks ==
    {[hops |-> <<Hop(Kim, Bob)>>, attachment |-> "none"],
     [hops |-> <<Hop(Kim, Alice), Hop(Alice, Bob)>>, attachment |-> "bytes"],
     [hops |-> <<Hop(Kim, Alice), Hop(Kim, Bob)>>, attachment |-> "none"],
     [hops |-> <<Hop(Erin, Kim), Hop(Kim, Bob)>>, attachment |-> "undecodable"],
     [hops |-> <<Hop(Erin, Kim)>>, attachment |-> "none"],
     [hops |-> <<Hop(Kim, Lea), Hop(Lea, Ann), Hop(Ann, Bob)>>, attachment |-> "none"],
     [hops |-> <<Hop(Kim, Lea), Hop(Lea, Ann), Hop(Ann, Kim), Hop(Kim, Bob)>>,
      attachment |-> "none"]}

MCHosts == {"h1"}
MCAnswers == "h1" :> {<<Ipv4("global")>>, <<Ipv6("global"), Ipv4("private")>>,
                      <<Ipv6With("mapped", "loopback")>>, <<>>}
=============================================================================
