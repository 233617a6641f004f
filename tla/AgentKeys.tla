------------------------------ MODULE AgentKeys ------------------------------
(***************************************************************************)
(* Agent registration, key rotation and signature verification in the      *)
(* control plane (routes/agents.rs, db/agents.rs, db/agent_keys.rs,        *)
(* verify.rs): the agents table, the agent_keys rotation ledger with its   *)
(* 24 h grace window, and the two nonce tables.  Each statement or         *)
(* transaction on the database is one action; requests interleave between  *)
(* them and may be dropped there.                                          *)
(*                                                                         *)
(* Time is one clock that never goes back, in a unit that Grace, Skew and  *)
(* Timeout are multiples of.  A request that fails a check before it has   *)
(* changed anything has no action.                                         *)
(***************************************************************************)
EXTENDS Naturals

CONSTANTS
    Requests,      \* the requests of a behaviour, each handled once
    Agents,        \* canonical agent ids
    Keys,          \* Ed25519 public keys
    Hexes,         \* spellings of keys in hex; the code compares spellings
    KeyOf,         \* hex::decode: the key a spelling stands for
    Canonical,     \* hex::encode: the spelling the server itself writes
    Registrations, \* the (agent id, key) pairs register may derive
    Nonces,
    Grace,         \* ROTATION_GRACE_SECS
    Skew,          \* MAX_CLOCK_SKEW_SECS
    Timeout,       \* the TimeoutLayer on every route
    MaxTime,       \* bound on the clock, for model checking
    Null

ASSUME HexAssumption ==
    /\ KeyOf \in [Hexes -> Keys]
    /\ Canonical \in [Keys -> Hexes]
    /\ \A k \in Keys : KeyOf[Canonical[k]] = k
ASSUME RegistrationsAssumption ==
    Registrations \subseteq [agent : Agents, key : Keys]
\* 300 s and twice 60 s against 24 h: the clock is read again after the skew
\* check, and a rotation commits after it has read its own.
ASSUME TimesAssumption ==
    /\ Grace \in Nat /\ Skew \in Nat /\ Timeout \in Nat /\ MaxTime \in Nat
    /\ Skew + 2 * Timeout < Grace
ASSUME NullAssumption == Null \notin Agents \cup Keys \cup Hexes \cup Nonces

VARIABLES
    clock,
    published,    \* agents.public_key by agent id, Null when not registered
    ledger,       \* agent_keys: ledger[a][h], the row of (agent_id, public_key_hex)
    regNonces,    \* registration_nonces
    rotateNonces, \* rotate_key_nonces
    pc,
    ctx,          \* the local variables of each request
    retired       \* history: retired[a][k], when k last ceased to be current

vars == <<clock, published, ledger, regNonces, rotateNonces, pc, ctx, retired>>

tables == <<published, ledger, retired>>

-----------------------------------------------------------------------------
(* State *)

\* valid_to IS NULL is status "current"; a closed row has its valid_to.
KeyRow == [status : {"absent", "current", "closed"}, from : Nat, to : Nat]

NoKeyRow == [status |-> "absent", from |-> 0, to |-> 0]

\* old is the key hex a rotation was verified against, new the hex it asks
\* for; at is the last clock value the handler read.  A signed action has the key
\* that signed it, when (issued_at), and whether it was then the current key.
Context ==
    [agent : Agents \cup {Null}, key : Keys \cup {Null},
     old : Hexes \cup {Null}, new : Hexes \cup {Null},
     nonce : Nonces \cup {Null}, issued : Nat, at : Nat, fresh : BOOLEAN]

NoContext == [agent |-> Null, key |-> Null, old |-> Null, new |-> Null,
              nonce |-> Null, issued |-> 0, at |-> 0, fresh |-> FALSE]

Init ==
    /\ clock = 0
    /\ published = [a \in Agents |-> Null]
    /\ ledger = [a \in Agents |-> [h \in Hexes |-> NoKeyRow]]
    /\ regNonces = {}
    /\ rotateNonces = {}
    /\ pc = [r \in Requests |-> "new"]
    /\ ctx = [r \in Requests |-> NoContext]
    /\ retired = [a \in Agents |-> [k \in Keys |-> 0]]

Goto(r, from, to) ==
    /\ pc[r] = from
    /\ pc' = [pc EXCEPT ![r] = to]

\* The handler returns: its future and its local variables are gone.
Return(r, from) ==
    /\ Goto(r, from, "done")
    /\ ctx' = [ctx EXCEPT ![r] = NoContext]

-----------------------------------------------------------------------------
(* POST /v1/agents/register *)

\* Shape, skew and signature have been checked: the signature is by the key
\* that is being registered.
Register(r) ==
    /\ Goto(r, "new", "register_nonce")
    /\ \E reg \in Registrations, n \in Nonces :
          ctx' = [ctx EXCEPT ![r].agent = reg.agent, ![r].key = reg.key,
                             ![r].nonce = n]
    /\ UNCHANGED <<clock, tables, regNonces, rotateNonces>>

\* consume_nonce: a nonce that is already in the table answers 409.
RegisterNonce(r) ==
    /\ \/ /\ ctx[r].nonce \in regNonces
          /\ Return(r, "register_nonce")
       \/ /\ ctx[r].nonce \notin regNonces
          /\ Goto(r, "register_nonce", "register_insert")
          /\ UNCHANGED ctx
    /\ regNonces' = regNonces \cup {ctx[r].nonce}
    /\ UNCHANGED <<clock, tables, rotateNonces>>

\* agents.agent_id and agents.public_key are UNIQUE.
Registrable(a, k) ==
    /\ published[a] = Null
    /\ \A b \in Agents : published[b] # k

\* Faulty variant: the first ledger row is left to the first rotation.
RegisterInsertUnseeded(r) ==
    LET a == ctx[r].agent  k == ctx[r].key IN
    /\ Return(r, "register_insert")
    /\ published' = IF Registrable(a, k) THEN [published EXCEPT ![a] = k] ELSE published
    /\ UNCHANGED <<clock, ledger, retired, regNonces, rotateNonces>>

\* The agents row and the first ledger row, in one transaction.
RegisterInsert(r) ==
    LET a == ctx[r].agent
        k == ctx[r].key
    IN
    /\ Return(r, "register_insert")
    /\ \/ /\ Registrable(a, k)
          /\ published' = [published EXCEPT ![a] = k]
          /\ ledger' = [ledger EXCEPT ![a] = [@ EXCEPT ![Canonical[k]] =
                          [status |-> "current", from |-> clock, to |-> 0]]]
       \/ /\ ~Registrable(a, k)
          /\ UNCHANGED <<published, ledger>>
    /\ UNCHANGED <<clock, retired, regNonces, rotateNonces>>

-----------------------------------------------------------------------------
(* POST /v1/agents/rotate-key *)

IsCurrent(a, h) == ledger[a][h].status = "current"

\* Some current key is read outside any transaction; the challenge names it
\* and is signed by it.
Rotate(r) ==
    /\ Goto(r, "new", "rotate_nonce")
    /\ \E a \in Agents, n \in Nonces : \E old, new \in Hexes :
          /\ IsCurrent(a, old)
          /\ new # old
          /\ ctx' = [ctx EXCEPT ![r].agent = a, ![r].old = old, ![r].new = new,
                                ![r].nonce = n]
    /\ UNCHANGED <<clock, tables, regNonces, rotateNonces>>

RotateNonce(r) ==
    /\ \/ /\ ctx[r].nonce \in rotateNonces
          /\ Return(r, "rotate_nonce")
       \/ /\ ctx[r].nonce \notin rotateNonces
          /\ Goto(r, "rotate_nonce", "rotate_commit")
          /\ ctx' = [ctx EXCEPT ![r].at = clock]
    /\ rotateNonces' = rotateNonces \cup {ctx[r].nonce}
    /\ UNCHANGED <<clock, tables, regNonces>>

\* The two statements of insert_rotation's transaction.
Rotated(a, old, new, at) ==
    /\ ledger' = [ledger EXCEPT ![a] =
                    [h \in Hexes |->
                        IF h = old THEN [@[h] EXCEPT !.status = "closed", !.to = at + Grace]
                        ELSE IF h = new THEN [status |-> "current", from |-> at, to |-> 0]
                        ELSE @[h]]]
    /\ retired' = [retired EXCEPT ![a] = [@ EXCEPT ![KeyOf[old]] = clock]]

\* Faulty variant: closes whichever key is current at commit time.
RotateCommitAnyCurrent(r) ==
    LET a == ctx[r].agent IN
    /\ Return(r, "rotate_commit")
    /\ clock <= ctx[r].at + Timeout
    /\ \/ \E old \in Hexes :
             /\ IsCurrent(a, old)
             /\ ledger[a][ctx[r].new].status = "absent"
             /\ Rotated(a, old, ctx[r].new, ctx[r].at)
       \/ UNCHANGED <<ledger, retired>>
    /\ UNCHANGED <<clock, published, regNonces, rotateNonces>>

\* Faulty variant: closes the old key at once.
RotateCommitNoGrace(r) ==
    LET a == ctx[r].agent IN
    /\ Return(r, "rotate_commit")
    /\ clock <= ctx[r].at + Timeout
    /\ IF IsCurrent(a, ctx[r].old) /\ ledger[a][ctx[r].new].status = "absent"
       THEN /\ ledger' = [ledger EXCEPT
                            ![a][ctx[r].old].status = "closed",
                            ![a][ctx[r].old].to = ctx[r].at,
                            ![a][ctx[r].new] = [status |-> "current", from |-> ctx[r].at, to |-> 0]]
            /\ retired' = [retired EXCEPT ![a][KeyOf[ctx[r].old]] = clock]
       ELSE UNCHANGED <<ledger, retired>>
    /\ UNCHANGED <<clock, published, regNonces, rotateNonces>>

\* insert_rotation closes the row the signature was verified against, if it is
\* still current, and inserts the new one; a hex the agent has had before
\* violates UNIQUE (agent_id, public_key_hex) and rolls back.  A handler that
\* outlives the timeout has been dropped.
RotateCommit(r) ==
    LET a   == ctx[r].agent
        won == /\ IsCurrent(a, ctx[r].old)
               /\ ledger[a][ctx[r].new].status = "absent"
    IN
    /\ Return(r, "rotate_commit")
    /\ clock <= ctx[r].at + Timeout
    /\ \/ won /\ Rotated(a, ctx[r].old, ctx[r].new, ctx[r].at)
       \/ ~won /\ UNCHANGED <<ledger, retired>>
    /\ UNCHANGED <<clock, published, regNonces, rotateNonces>>

-----------------------------------------------------------------------------
(* Signed actions: download, ack, ticket, inbox, transfer intent *)

\* A client signs with a key the agent has or once had.
Sign(r) ==
    /\ Goto(r, "new", "check_skew")
    /\ \E a \in Agents, h \in Hexes :
          /\ ledger[a][h].status # "absent"
          /\ ctx' = [ctx EXCEPT
                        ![r].agent = a, ![r].key = KeyOf[h], ![r].issued = clock,
                        ![r].fresh = \E g \in Hexes : IsCurrent(a, g) /\ KeyOf[g] = KeyOf[h]]
    /\ UNCHANGED <<clock, tables, regNonces, rotateNonces>>

\* is_within_clock_skew, of the handler's first reading of the clock.
CheckSkew(r) ==
    /\ clock <= ctx[r].issued + Skew
    /\ Goto(r, "check_skew", "read_clock")
    /\ ctx' = [ctx EXCEPT ![r].at = clock]
    /\ UNCHANGED <<clock, tables, regNonces, rotateNonces>>

\* The key lookup takes a second reading, after the queries, the endpoint
\* probes and the nonce in between; a handler that outlives the timeout has
\* been dropped.
ReadClock(r) ==
    /\ clock <= ctx[r].at + Timeout
    /\ Goto(r, "read_clock", "verify")
    /\ ctx' = [ctx EXCEPT ![r].at = clock]
    /\ UNCHANGED <<clock, tables, regNonces, rotateNonces>>

\* Faulty variant: the window is not bounded on the right.
ValidAtUnbounded(row, at) == row.status # "absent" /\ row.from <= at

\* The WHERE clause of valid_keys_at.
ValidAt(row, at) ==
    /\ row.status # "absent"
    /\ row.from <= at
    /\ row.status = "current" \/ row.to > at

\* valid_keys_at over the table as it is when the query runs.
ValidKeysAt(a, at) == {KeyOf[h] : h \in {g \in Hexes : ValidAt(ledger[a][g], at)}}

\* verify_with_valid_keys
Verify(r) ==
    /\ pc[r] = "verify"
    /\ pc' = [pc EXCEPT ![r] =
                IF ctx[r].key \in ValidKeysAt(ctx[r].agent, ctx[r].at)
                THEN "accepted" ELSE "refused"]
    /\ UNCHANGED <<ctx, clock, tables, regNonces, rotateNonces>>

-----------------------------------------------------------------------------

Ended == {"done", "accepted", "refused"}

\* A request is dropped at an await, or a database call fails.
Cut(r) ==
    /\ pc[r] \notin Ended \cup {"new"}
    /\ Return(r, pc[r])
    /\ UNCHANGED <<clock, tables, regNonces, rotateNonces>>

Tick ==
    /\ clock < MaxTime
    /\ clock' = clock + 1
    /\ UNCHANGED <<tables, regNonces, rotateNonces, pc, ctx>>

Next ==
    \/ Tick
    \/ \E r \in Requests :
          \/ Register(r) \/ RegisterNonce(r) \/ RegisterInsert(r)
          \/ Rotate(r) \/ RotateNonce(r) \/ RotateCommit(r)
          \/ Sign(r) \/ CheckSkew(r) \/ ReadClock(r) \/ Verify(r)
          \/ Cut(r)

Spec == Init /\ [][Next]_vars

-----------------------------------------------------------------------------
(* Properties *)

Location == Ended \cup {"new", "register_nonce", "register_insert",
                        "rotate_nonce", "rotate_commit", "check_skew",
                        "read_clock", "verify"}

\* Every table and local variable has its type.
TypeOK ==
    /\ clock \in Nat
    /\ published \in [Agents -> Keys \cup {Null}]
    /\ ledger \in [Agents -> [Hexes -> KeyRow]]
    /\ regNonces \subseteq Nonces
    /\ rotateNonces \subseteq Nonces
    /\ pc \in [Requests -> Location]
    /\ ctx \in [Requests -> Context]
    /\ retired \in [Agents -> [Keys -> Nat]]

\* Whatever registrations and rotations race, a registered agent has exactly
\* one current key and an unregistered one has no ledger row at all: the
\* ledger alone decides, without the partial unique index stepping in.
OneCurrentKey ==
    \A a \in Agents :
        /\ published[a] # Null =>
              \E h \in Hexes : IsCurrent(a, h) /\ \A g \in Hexes : IsCurrent(a, g) => g = h
        /\ published[a] = Null => \A h \in Hexes : ledger[a][h] = NoKeyRow

\* A request signed by the key that was current when it was signed, and
\* received within the skew, verifies, however many rotations commit between
\* the signature, the handler's two clock readings and its key lookup.
NoLockout ==
    \A r \in Requests : pc[r] = "refused" => ~ctx[r].fresh

\* A key is accepted only if it is current or ceased to be less than one
\* grace period before the time the handler verifies at.
GraceEnforced ==
    \A r \in Requests :
        pc[r] = "accepted" =>
            LET a == ctx[r].agent
                k == ctx[r].key
            IN  \/ \E h \in Hexes : IsCurrent(a, h) /\ KeyOf[h] = k
                \/ ctx[r].at < retired[a][k] + Grace

\* The current key of an agent is replaced only by a request that was
\* verified against that very key.
RotatedByCurrent ==
    [][\A a \in Agents, h \in Hexes :
          IsCurrent(a, h) /\ ~IsCurrent(a, h)' =>
              \E r \in Requests :
                  /\ pc[r] = "rotate_commit"
                  /\ pc'[r] = "done"
                  /\ ctx[r].agent = a
                  /\ ctx[r].old = h
                  /\ ledger'[a][ctx[r].new].status = "current"]_vars
=============================================================================
