------------------------------- MODULE PeerCalls -------------------------------
(***************************************************************************)
(* How one agent believes another (aex-identity, aex-a2a-bridge).  Agents  *)
(* sign the canonical bytes of messages; any signature may reach a         *)
(* verifier late, twice or beside another message.  verify_peer finds the  *)
(* peer's key in a registry (spize, did:ethr), in the id (did:key) or in   *)
(* the card its host serves (did:web), which takes a fetch during which    *)
(* the host's records, its card and the verifier's own cache may change.   *)
(* The bridge turns a chain of signed hops into an intent.                 *)
(***************************************************************************)
EXTENDS Workload, WireFormats, Jws, SafeHttp

CONSTANTS
    Peers,        \* agent ids
    Messages,     \* what is signed and verified
    Hosts,        \* the authorities of did:web ids
    Answers,      \* Answers[h]: the address lists DNS may give for a host
    CardPlans,    \* cards that are made: [host, agent, key, kid, signer]
    HopPlans,     \* hop tokens that are made: [kid, signer]
    Tasks,        \* A2A tasks: [hops, attachment]
    Enrolments,   \* pairs of a peer and a key that may be registered
    PeerJobs,     \* concurrent calls of verify_peer
    Inbox,        \* Inbox[c]: the messages call c may be about
    Signers,      \* pairs of a key and a message that its holder may sign
    ControlPlane, \* the id the verifier holds for the control plane
    MaxChanges    \* bound on what happens around the verifier, for model checking

ASSUME PeersAssumption ==
    /\ Messages \subseteq Message
    /\ \A task \in Tasks : task.hops \in Seq([from : Text, to : Text])
    /\ Enrolments \subseteq Peers \X Keys
    /\ \A h \in Hosts : Answers[h] # {}
    /\ Inbox \in [PeerJobs -> SUBSET Messages]
    /\ Signers \subseteq Keys \X Messages /\ MaxChanges \in Nat

VARIABLES
    changes,      \* how often something has happened around the verifier
    signed,       \* signatures made: [key, m]
    tokens,       \* JWS tokens made
    cards,        \* the card each host serves
    zone,         \* what DNS answers for each host
    known,        \* the key held for each peer: PeerRegistry, EtereCitizenRegistry,
                  \* DidKeyProvider::peers and DidWebProvider::peers
    check,        \* each call of verify_peer
    accepted,     \* history: what verify_peer has accepted, and with which key
    enrolled,     \* history: the pairs that were registered
    served,       \* history: the cards each host has served
    connected,    \* history: the addresses fetches have connected to
    bridged       \* history: the chains the bridge has accepted, with their keys

peerCalls == <<changes, signed, tokens, cards, zone, known, check,
               accepted, enrolled, served, connected, bridged>>

-----------------------------------------------------------------------------

NoCard == [segments |-> 0]
NoIp == Ipv4("none")

Idle == [pc |-> "new", peer |-> <<>>, m |-> "none", sig |-> "none", ip |-> NoIp, body |-> NoCard]

InitPeers ==
    /\ changes = 0 /\ signed = {} /\ tokens = {}
    /\ cards = [h \in Hosts |-> NoCard]
    /\ zone \in [Hosts -> UNION {Answers[h] : h \in Hosts}]
    /\ \A h \in Hosts : zone[h] \in Answers[h]
    /\ load \cap PeerJobs = {} => zone = [h \in Hosts |-> CHOOSE a \in Answers[h] : TRUE]
    /\ known = [p \in Peers |-> NoKey]
    /\ check = [c \in PeerJobs |-> Idle]
    /\ accepted = {} /\ enrolled = {} /\ served = {} /\ connected = {} /\ bridged = {}

\* One more thing happens around the verifier.
Change ==
    /\ PeerJobs \cap load # {}
    /\ changes < MaxChanges
    /\ changes' = changes + 1

\* The id a message is signed for: the one it names, the one a registration
\* asks for, or the control plane's for its tickets.
Claimed(m) ==
    CASE m.kind \in {"intent", "intent_v2"} -> m.sender
      [] m.kind \in {"receipt", "receipt_v2", "decision_request", "decision_response"} ->
            m.recipient
      [] m.kind \in {"rotate", "rotate_v2"} -> m.agent
      [] m.kind \in {"register", "register_v2"} ->
            <<"spize", ":">> \o m.org \o <<"/">> \o m.name \o <<":", Digest[m.pub[1]]>>
      [] OTHER -> ControlPlane

\* The ids that messages are signed for are peers; the did:web ones among the
\* peers, and the cards, belong to the hosts.
ASSUME ClaimsAssumption ==
    /\ \A m \in Messages : Claimed(m) \in Peers
    /\ \A p \in Peers : HasWellKnownUrl(p) => WellKnownHost(p) \in Hosts
    /\ \A plan \in CardPlans : plan.host \in Hosts

\* The algorithm a provider's verify_peer insists on.
Required(p) == IF scheme(p) = "did_ethr" THEN "EcdsaSecp256k1" ELSE "Ed25519"

-----------------------------------------------------------------------------
(* The peers and the world around the verifier *)

\* sign of a provider, over bytes the wire functions let through.
Sign(k, m) ==
    /\ Change
    /\ \E c \in PeerJobs \cap load : m \in Inbox[c]
    /\ Bytes(m) # Refused
    /\ signed' = signed \cup {[key |-> k, m |-> m]}
    /\ UNCHANGED <<tokens, cards, zone, known, check, accepted, enrolled, served, connected,
                   bridged>>

\* An agent signs a hop of an A2A task.
SignHop(plan) ==
    /\ Change
    /\ tokens' = tokens \cup {SignToken("hop", plan.signer, plan.kid)}
    /\ UNCHANGED <<signed, cards, zone, known, check, accepted, enrolled, served, connected,
                   bridged>>

\* A host's card is made, or replaced.
PublishCard(plan) ==
    LET card == SignToken([agent_id |-> plan.agent, key |-> plan.key], plan.signer, plan.kid)
    IN  /\ Change
        /\ cards' = [cards EXCEPT ![plan.host] = card]
        /\ served' = served \cup {[host |-> plan.host, card |-> card]}
        /\ UNCHANGED <<signed, tokens, zone, known, check, accepted, enrolled, connected,
                       bridged>>

ChangeRecords(h, answer) ==
    /\ Change
    /\ zone' = [zone EXCEPT ![h] = answer]
    /\ UNCHANGED <<signed, tokens, cards, known, check, accepted, enrolled, served, connected,
                   bridged>>

\* PeerRegistry::register, EtereCitizenRegistry::register, register_peer.
Register(p, k) ==
    /\ Change
    /\ known' = [known EXCEPT ![p] = k]
    /\ enrolled' = enrolled \cup {<<p, k>>}
    /\ UNCHANGED <<signed, tokens, cards, zone, check, accepted, served, connected, bridged>>

-----------------------------------------------------------------------------
(* verify_peer *)

\* The key is there: the signature is good or it is not.
Decide(c, p, m, sig, key) ==
    IF sig.key = key /\ Bytes(sig.m) = Bytes(m)
    THEN /\ accepted' = accepted \cup {[peer |-> p, m |-> m, key |-> key]}
         /\ check' = [check EXCEPT ![c] = [Idle EXCEPT !.pc = "accepted"]]
    ELSE /\ check' = [check EXCEPT ![c] = [Idle EXCEPT !.pc = "refused"]]
         /\ UNCHANGED accepted

Refuse(c) ==
    /\ check' = [check EXCEPT ![c] = [Idle EXCEPT !.pc = "refused"]]
    /\ UNCHANGED accepted

\* A message arrives with a signature, labelled with an algorithm; the
\* verifier writes its canonical bytes and asks the provider of the scheme.
VerifyPeer(c, m, sig, label) ==
    LET p == Claimed(m)
    IN  /\ c \in load /\ check[c].pc = "new"
        /\ validate_agent_id(p) /\ Bytes(m) # Refused
        /\ \/ /\ label # Required(p)
              /\ Refuse(c) /\ UNCHANGED known
           \/ /\ label = Required(p) /\ known[p] # NoKey
              /\ Decide(c, p, m, sig, known[p]) /\ UNCHANGED known
           \/ /\ label = Required(p) /\ known[p] = NoKey
              /\ scheme(p) = "did_key" /\ decode_pubkey(p) # NoKey
              /\ known' = [known EXCEPT ![p] = decode_pubkey(p)]
              /\ Decide(c, p, m, sig, decode_pubkey(p))
           \/ /\ label = Required(p) /\ known[p] = NoKey
              /\ scheme(p) = "did_web" /\ HasWellKnownUrl(p)
              /\ check' = [check EXCEPT ![c] = [Idle EXCEPT !.pc = "resolving", !.peer = p,
                                                            !.m = m, !.sig = sig]]
              /\ UNCHANGED <<known, accepted>>
           \/ /\ label = Required(p) /\ known[p] = NoKey
              /\ ~(scheme(p) = "did_key" /\ decode_pubkey(p) # NoKey)
              /\ ~(scheme(p) = "did_web" /\ HasWellKnownUrl(p))
              /\ Refuse(c) /\ UNCHANGED known
        /\ UNCHANGED <<changes, signed, tokens, cards, zone, enrolled, served, connected, bridged>>

\* safe_get resolves the host once and pins the first address, or refuses.
Resolve(c) ==
    LET ips == zone[WellKnownHost(check[c].peer)]
    IN  /\ check[c].pc = "resolving"
        /\ \/ /\ Allowed(ips)
              /\ \E i \in DOMAIN ips :
                    /\ ResolvedFirst(ips, i)
                    /\ check' = [check EXCEPT ![c].pc = "connecting", ![c].ip = ips[i]]
              /\ UNCHANGED accepted
           \/ ~Allowed(ips) /\ Refuse(c)
        /\ UNCHANGED <<changes, signed, tokens, cards, zone, known, enrolled, served,
                       connected, bridged>>

\* Faulty variant: the client looks the host up again.
ConnectUnpinned(c) ==
    LET ips == zone[WellKnownHost(check[c].peer)]
    IN  /\ check[c].pc = "connecting"
        /\ connected' = connected \cup {ips[i] : i \in DOMAIN ips}
        /\ Refuse(c)
        /\ UNCHANGED <<changes, signed, tokens, cards, zone, known, enrolled, served, bridged>>

\* The connection goes to the pinned address.  Only the host itself can
\* answer for its name over TLS; a redirect, another status, a body over the
\* cap or a transport error ends the fetch.
Connect(c) ==
    LET host == WellKnownHost(check[c].peer)
    IN  /\ check[c].pc = "connecting"
        /\ connected' = connected \cup {check[c].ip}
        /\ \/ Refuse(c)
           \/ /\ cards[host] # NoCard
              /\ check' = [check EXCEPT ![c].pc = "fetched", ![c].body = cards[host]]
              /\ UNCHANGED accepted
        /\ UNCHANGED <<changes, signed, tokens, cards, zone, known, enrolled, served, bridged>>

\* fetch_and_verify_card: the token is verified with the key its own payload
\* declares, once its kid is the payload's agent_id; the id that was asked
\* for plays no part.
CardKey(card) ==
    LET declared ==
            IF card.payload.agent_id = card.header.kid /\ card.payload.key \in Ed25519Keys
            THEN card.payload.key ELSE NoKey
    IN  IF Verifies(card, declared) /\ card.header.alg = "EdDSA" THEN declared ELSE NoKey

\* A good card's key is stored for the peer, over whatever a call that began
\* beside this one has stored, and decides.
ReadCard(c) ==
    LET call == check[c]
        key == CardKey(call.body)
    IN  /\ call.pc = "fetched"
        /\ \/ /\ key = NoKey
              /\ Refuse(c) /\ UNCHANGED known
           \/ /\ key # NoKey
              /\ known' = [known EXCEPT ![call.peer] = key]
              /\ Decide(c, call.peer, call.m, call.sig, key)
        /\ UNCHANGED <<changes, signed, tokens, cards, zone, enrolled, served, connected, bridged>>

-----------------------------------------------------------------------------
(* a2a_task_to_aex_intent *)

MaxDelegationDepth == 3

\* The caller's key_lookup.
LookupKey(kid) ==
    IF kid \notin Peers THEN NoKey
    ELSE IF known[kid] # NoKey THEN known[kid] ELSE decode_pubkey(kid)

\* Depth, no agent twice as a sender, a token per hop that its sender's key
\* verifies under the sender's own kid, well-formed ids, an attachment that
\* decodes.  hop.to is not compared with the next hop.from, and a token may
\* have been signed for another task.
Bridge(task, jws) ==
    LET hops == task.hops
        KeyFor(i) == IF jws[i].header.kid = hops[i].from THEN LookupKey(hops[i].from)
                     ELSE NoKey
    IN  /\ PeerJobs \cap load # {}
        /\ Len(hops) \in 1 .. MaxDelegationDepth
        /\ \A i, j \in DOMAIN hops : hops[i].from = hops[j].from => i = j
        /\ \A i \in DOMAIN hops : Verifies(jws[i], KeyFor(i))
        /\ \A i \in DOMAIN hops : validate_agent_id(hops[i].from) /\ validate_agent_id(hops[i].to)
        /\ task.attachment # "undecodable"
        /\ bridged' = bridged \cup {[i \in DOMAIN hops |->
                                        [from |-> hops[i].from, key |-> LookupKey(hops[i].from)]]}
        /\ UNCHANGED <<changes, signed, tokens, cards, zone, known, check, accepted, enrolled,
                       served, connected>>

-----------------------------------------------------------------------------

NextPeers ==
    /\ \/ \E pair \in Signers : Sign(pair[1], pair[2])
       \/ \E plan \in HopPlans : SignHop(plan)
       \/ \E plan \in CardPlans : PublishCard(plan)
       \/ \E h \in Hosts : \E answer \in Answers[h] : ChangeRecords(h, answer)
       \/ \E pair \in Enrolments : Register(pair[1], pair[2])
       \/ \E c \in PeerJobs :
             \/ Resolve(c) \/ Connect(c) \/ ReadCard(c)
             \/ \E m \in Inbox[c], sig \in signed, label \in {"Ed25519", "EcdsaSecp256k1"} :
                   VerifyPeer(c, m, sig, label)
       \/ \E task \in Tasks : \E jws \in [DOMAIN task.hops -> tokens \cup {Unsigned}] :
             Bridge(task, jws)
    /\ UNCHANGED <<clock, load>>

-----------------------------------------------------------------------------
(* Properties *)

\* A key speaks for a peer when it was registered for it, is the key in its
\* did:key, or when the host of its did:web served a card that this key
\* signed, declaring itself.
SpeaksFor(k, p) ==
    \/ <<p, k>> \in enrolled
    \/ decode_pubkey(p) = k
    \/ /\ HasWellKnownUrl(p)
       /\ \E s \in served : /\ s.host = WellKnownHost(p)
                            /\ s.card.payload.key = k /\ s.card.sig.key = k
                            /\ s.card.payload.agent_id = s.card.header.kid

\* What verify_peer accepts was signed as it stands, every field of it and
\* under its own kind and version, by a key that speaks for the peer; no two
\* messages share their canonical bytes, and a fetch that overlaps a change of
\* card, of records or of the cache brings no other key in.
AcceptedWasSigned ==
    \A a \in accepted :
        /\ [key |-> a.key, m |-> a.m] \in signed
        /\ SpeaksFor(a.key, a.peer)

\* A fetch of a card connects to no internal address, also when the host's
\* records change between its lookup and its connection.
FetchesStayOutside == \A ip \in connected : ~is_forbidden_ip(ip)

\* Every hop of a chain the bridge accepted carries a token made by a key that
\* speaks for that hop's sender, under the sender's kid, and no sender is in
\* the chain twice.
HopsWereSigned ==
    \A chain \in bridged :
        /\ Len(chain) \in 1 .. 3
        /\ Cardinality({chain[i].from : i \in DOMAIN chain}) = Len(chain)
        /\ \A i \in DOMAIN chain :
              /\ SpeaksFor(chain[i].key, chain[i].from)
              /\ \E t \in tokens : t.sig.key = chain[i].key /\ t.header.kid = chain[i].from
=============================================================================
