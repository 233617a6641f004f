--------------------------- MODULE AgentKeysProofs ---------------------------
(***************************************************************************)
(* Proofs about AgentKeys, for every number of requests, agents, keys,     *)
(* spellings and nonces, and for every grace window longer than the clock  *)
(* skew and twice the request timeout together.                            *)
(***************************************************************************)
EXTENDS AgentKeys, TLAPS

-----------------------------------------------------------------------------
(* The inductive invariant *)

\* The columns of the two tables relate to the clock and to the history: no
\* row begins in the future, no key was retired in the future, and a closed
\* row ends at most one grace period after its key was retired.
RowsOK ==
    \A a \in Agents :
        /\ \A k \in Keys : retired[a][k] <= clock
        /\ \A h \in Hexes :
              /\ ledger[a][h].status # "absent" => ledger[a][h].from <= clock
              /\ ledger[a][h].status = "closed" =>
                    ledger[a][h].to <= retired[a][KeyOf[h]] + Grace

TablesOK ==
    /\ clock \in Nat
    /\ published \in [Agents -> Keys \cup {Null}]
    /\ ledger \in [Agents -> [Hexes -> KeyRow]]
    /\ regNonces \subseteq Nonces
    /\ rotateNonces \subseteq Nonces
    /\ retired \in [Agents -> [Keys -> Nat]]
    /\ OneCurrentKey
    /\ RowsOK

\* A row that verifies a signature made at t, whenever within the skew and the
\* timeout it is looked up.
Covers(row, t) ==
    /\ row.status # "absent"
    /\ row.from <= t
    /\ row.status = "current" \/ row.to > t + Skew + Timeout

\* Key k of agent a may be accepted at time t.
InGrace(a, k, t) ==
    \/ \E h \in Hexes : IsCurrent(a, h) /\ KeyOf[h] = k
    \/ t < retired[a][k] + Grace

\* What the local variables of a request hold at each of its locations.
LocalsOK(p, c) ==
    /\ p \in Location
    /\ c \in Context
    /\ p \in {"register_nonce", "register_insert"} =>
          c.agent \in Agents /\ c.key \in Keys /\ c.nonce \in Nonces
    /\ p \in {"rotate_nonce", "rotate_commit"} =>
          c.agent \in Agents /\ c.old \in Hexes /\ c.new \in Hexes /\ c.nonce \in Nonces
    /\ p \in {"check_skew", "read_clock", "verify", "accepted"} =>
          c.agent \in Agents /\ c.key \in Keys
    /\ p = "read_clock" => c.issued <= c.at /\ c.at <= c.issued + Skew
    /\ p = "verify" => c.issued <= c.at /\ c.at <= c.issued + Skew + Timeout

\* A request that was signed by the current key keeps a row that verifies it
\* until it is verified.
FreshBacked(r) ==
    /\ pc[r] \in {"check_skew", "read_clock", "verify"} /\ ctx[r].fresh =>
          \E g \in Hexes :
              /\ KeyOf[g] = ctx[r].key
              /\ Covers(ledger[ctx[r].agent][g], ctx[r].issued)
    /\ pc[r] = "refused" => ~ctx[r].fresh

\* The clock values a request has read are not in the future, and it is
\* accepted only in its key's window.
RequestOK(r) ==
    /\ LocalsOK(pc[r], ctx[r])
    /\ ctx[r].issued <= clock /\ ctx[r].at <= clock
    /\ FreshBacked(r)
    /\ pc[r] = "accepted" => InGrace(ctx[r].agent, ctx[r].key, ctx[r].at)

IInv ==
    /\ TablesOK
    /\ pc = [r \in Requests |-> pc[r]]
    /\ ctx = [r \in Requests |-> ctx[r]]
    /\ \A r \in Requests : RequestOK(r)

-----------------------------------------------------------------------------
(* Local variables *)

\* The fields of a request's local variables have their types.
LEMMA ContextFields ==
    ASSUME NEW c \in Context
    PROVE  /\ c.agent \in Agents \cup {Null} /\ c.key \in Keys \cup {Null}
           /\ c.old \in Hexes \cup {Null} /\ c.new \in Hexes \cup {Null}
           /\ c.nonce \in Nonces \cup {Null}
           /\ c.issued \in Nat /\ c.at \in Nat /\ c.fresh \in BOOLEAN
BY DEF Context

\* A request without local variables is well formed wherever it needs none.
LEMMA EmptyLocals ==
    ASSUME NEW p \in {"new", "done"}
    PROVE  LocalsOK(p, NoContext)
BY DEF LocalsOK, NoContext, Context, Location, Ended

\* Reading the clock changes that reading alone.
LEMMA SetAt ==
    ASSUME NEW c \in Context, NEW t \in Nat, NEW d, d = [c EXCEPT !.at = t]
    PROVE  /\ d \in Context
           /\ d.at = t /\ d.issued = c.issued /\ d.agent = c.agent /\ d.key = c.key
           /\ d.old = c.old /\ d.new = c.new /\ d.nonce = c.nonce /\ d.fresh = c.fresh
BY DEF Context

\* The locals of a signed action.
LEMMA SignLocals ==
    ASSUME NEW c \in Context, NEW a \in Agents, NEW k \in Keys, NEW t \in Nat,
           NEW f \in BOOLEAN,
           NEW d, d = [c EXCEPT !.agent = a, !.key = k, !.issued = t, !.fresh = f]
    PROVE  /\ LocalsOK("check_skew", d)
           /\ d.agent = a /\ d.key = k /\ d.issued = t /\ d.fresh = f /\ d.at = c.at
BY DEF LocalsOK, Context, Location, Ended

-----------------------------------------------------------------------------
(* What a step leaves to the requests it does not belong to *)

\* A request whose own state is untouched stays sound if every row that
\* covers a past signature goes on covering it and every key in its window
\* stays in it.
LEMMA OtherRequest ==
    ASSUME NEW r \in Requests, RequestOK(r), pc'[r] = pc[r], ctx'[r] = ctx[r],
           clock \in Nat, clock' \in Nat, clock <= clock',
           \A a \in Agents, g \in Hexes, t \in Nat :
               t <= clock /\ Covers(ledger[a][g], t) => Covers(ledger'[a][g], t),
           \A a \in Agents, k \in Keys, t \in Nat :
               t <= clock /\ InGrace(a, k, t) => InGrace(a, k, t)'
    PROVE  RequestOK(r)'
<1>. DEFINE p == pc[r]
            c == ctx[r]
<1>1. LocalsOK(p, c) /\ c \in Context /\ c.issued \in Nat /\ c.at \in Nat
  BY ContextFields DEF RequestOK, LocalsOK
<1>2. p \in {"check_skew", "read_clock", "verify", "accepted"} =>
        c.agent \in Agents /\ c.key \in Keys
  BY <1>1 DEF LocalsOK
<1>3. FreshBacked(r)'
  BY <1>1, <1>2 DEF RequestOK, FreshBacked
<1>4. (pc[r] = "accepted" => InGrace(ctx[r].agent, ctx[r].key, ctx[r].at))'
  BY <1>1, <1>2 DEF RequestOK, InGrace, IsCurrent
<1>5. LocalsOK(pc[r], ctx[r])'
  BY <1>1
<1>. QED
  BY <1>1, <1>3, <1>4, <1>5 DEF RequestOK

-----------------------------------------------------------------------------
(* The two transactions *)

\* What both transactions owe the requests in flight.
WindowsKept ==
    /\ \A a \in Agents, g \in Hexes, t \in Nat :
          t <= clock /\ Covers(ledger[a][g], t) => Covers(ledger'[a][g], t)
    /\ \A a \in Agents, k \in Keys, t \in Nat :
          t <= clock /\ InGrace(a, k, t) => InGrace(a, k, t)'

\* The columns of a row have their types.
LEMMA RowFields ==
    ASSUME TablesOK, NEW a \in Agents, NEW h \in Hexes
    PROVE  /\ ledger[a][h] \in KeyRow
           /\ ledger[a][h].status \in {"absent", "current", "closed"}
           /\ ledger[a][h].from \in Nat /\ ledger[a][h].to \in Nat
           /\ retired[a][KeyOf[h]] \in Nat /\ KeyOf[h] \in Keys
BY HexAssumption DEF TablesOK, KeyRow

\* A fresh row is well typed.
LEMMA CurrentRow ==
    ASSUME NEW t \in Nat, NEW w, w = [status |-> "current", from |-> t, to |-> 0]
    PROVE  w \in KeyRow /\ w.status = "current" /\ w.from = t
BY DEF KeyRow

\* Closing a row sets its status and its end alone.
LEMMA ClosedRow ==
    ASSUME NEW w \in KeyRow, NEW t \in Nat
    PROVE  /\ [w EXCEPT !.status = "closed", !.to = t] \in KeyRow
           /\ [w EXCEPT !.status = "closed", !.to = t].status = "closed"
           /\ [w EXCEPT !.status = "closed", !.to = t].from = w.from
           /\ [w EXCEPT !.status = "closed", !.to = t].to = t
BY DEF KeyRow

\* register's transaction seeds the ledger of an agent that had no row.
LEMMA RegisterTables ==
    ASSUME TablesOK, NEW a \in Agents, NEW k \in Keys, Registrable(a, k),
           published' = [published EXCEPT ![a] = k],
           ledger' = [ledger EXCEPT ![a] = [@ EXCEPT ![Canonical[k]] =
                          [status |-> "current", from |-> clock, to |-> 0]]],
           UNCHANGED <<clock, retired, regNonces, rotateNonces>>
    PROVE  TablesOK' /\ WindowsKept
<1>. DEFINE c == Canonical[k]
            w == [status |-> "current", from |-> clock, to |-> 0]
<1>1. c \in Hexes /\ k # Null
  BY HexAssumption, NullAssumption
<1>2. w \in KeyRow /\ w.status = "current" /\ w.from = clock
  BY CurrentRow DEF TablesOK
<1>3. \A h \in Hexes : ledger[a][h] = NoKeyRow /\ ledger[a][h].status = "absent"
  BY DEF TablesOK, OneCurrentKey, Registrable, NoKeyRow
<1>4. /\ ledger' \in [Agents -> [Hexes -> KeyRow]]
      /\ ledger'[a][c] = w
      /\ \A b \in Agents, h \in Hexes :
            b # a \/ h # c => ledger'[b][h] = ledger[b][h]
  BY <1>1, <1>2 DEF TablesOK
<1>5. /\ published' \in [Agents -> Keys \cup {Null}]
      /\ published'[a] = k
      /\ \A b \in Agents : b # a => published'[b] = published[b]
  BY DEF TablesOK
<1>6. OneCurrentKey'
  <2>. SUFFICES ASSUME NEW b \in Agents
                PROVE  /\ published'[b] # Null =>
                             \E h \in Hexes :
                                 /\ ledger'[b][h].status = "current"
                                 /\ \A g \in Hexes : ledger'[b][g].status = "current" => g = h
                       /\ published'[b] = Null => \A h \in Hexes : ledger'[b][h] = NoKeyRow
    BY DEF OneCurrentKey, IsCurrent
  <2>1. CASE b = a
    BY <1>1, <1>2, <1>3, <1>4, <1>5, <2>1
  <2>2. CASE b # a
    BY <1>4, <1>5, <2>2 DEF TablesOK, OneCurrentKey, IsCurrent
  <2>. QED
    BY <2>1, <2>2
<1>7. RowsOK'
  <2>1. RowsOK /\ clock \in Nat
    BY DEF TablesOK
  <2>. QED
    BY <2>1, <1>1, <1>2, <1>4 DEF RowsOK
<1>8. WindowsKept
  <2>1. \A b \in Agents, g \in Hexes :
           ledger[b][g].status # "absent" => ledger'[b][g] = ledger[b][g]
    BY <1>3, <1>4
  <2>. QED
    BY <2>1 DEF WindowsKept, Covers, InGrace, IsCurrent
<1>. QED
  BY <1>4, <1>5, <1>6, <1>7, <1>8 DEF TablesOK

\* insert_rotation's transaction, run within the timeout: the row it closes
\* goes on covering every signature made so far, and the key it retires is
\* retired now.
LEMMA RotateTables ==
    ASSUME TablesOK, NEW a \in Agents, NEW old \in Hexes, NEW new \in Hexes,
           NEW at \in Nat, at <= clock, clock <= at + Timeout,
           IsCurrent(a, old), ledger[a][new].status = "absent",
           Rotated(a, old, new, at),
           UNCHANGED <<clock, published, regNonces, rotateNonces>>
    PROVE  TablesOK' /\ WindowsKept
<1>. DEFINE w == [status |-> "current", from |-> at, to |-> 0]
            v == [ledger[a][old] EXCEPT !.status = "closed", !.to = at + Grace]
            kOld == KeyOf[old]
<1>1. /\ new # old /\ kOld \in Keys /\ ledger[a][old] \in KeyRow /\ clock \in Nat
      /\ Grace \in Nat /\ Skew \in Nat /\ Timeout \in Nat /\ Skew + 2 * Timeout < Grace
      /\ retired \in [Agents -> [Keys -> Nat]]
  BY RowFields, TimesAssumption, HexAssumption DEF IsCurrent, TablesOK
<1>2. w \in KeyRow /\ w.status = "current" /\ w.from = at
  BY CurrentRow
<1>3. v \in KeyRow /\ v.status = "closed" /\ v.from = ledger[a][old].from /\ v.to = at + Grace
  <2>1. at + Grace \in Nat
    BY <1>1
  <2>. QED
    BY <1>1, <2>1, ClosedRow
<1>. HIDE DEF w, v
<1>4. ledger' = [ledger EXCEPT ![a] = [h \in Hexes |->
                    IF h = old THEN v ELSE IF h = new THEN w ELSE ledger[a][h]]]
  BY DEF Rotated, v, w, TablesOK
<1>5. /\ ledger' \in [Agents -> [Hexes -> KeyRow]]
      /\ ledger'[a][old] = v /\ ledger'[a][new] = w
      /\ \A b \in Agents, h \in Hexes :
            b # a \/ h \notin {old, new} => ledger'[b][h] = ledger[b][h]
  BY <1>1, <1>2, <1>3, <1>4 DEF TablesOK
<1>6. /\ retired' \in [Agents -> [Keys -> Nat]]
      /\ retired'[a][kOld] = clock
      /\ \A b \in Agents, k \in Keys :
            b # a \/ k # kOld => retired'[b][k] = retired[b][k]
  BY <1>1 DEF Rotated
<1>. HIDE DEF kOld
<1>7. OneCurrentKey'
  <2>. SUFFICES ASSUME NEW b \in Agents
                PROVE  /\ published[b] # Null =>
                             \E h \in Hexes :
                                 /\ ledger'[b][h].status = "current"
                                 /\ \A g \in Hexes : ledger'[b][g].status = "current" => g = h
                       /\ published[b] = Null => \A h \in Hexes : ledger'[b][h] = NoKeyRow
    BY DEF OneCurrentKey, IsCurrent
  <2>1. CASE b = a
    <3>1. published[a] # Null /\ \A g \in Hexes : ledger[a][g].status = "current" => g = old
      BY DEF TablesOK, OneCurrentKey, IsCurrent, NoKeyRow
    <3>2. \A g \in Hexes : ledger'[a][g].status = "current" => g = new
      BY <1>3, <1>5, <3>1
    <3>. QED
      BY <1>2, <1>5, <2>1, <3>1, <3>2
  <2>2. CASE b # a
    <3>1. \A h \in Hexes : ledger'[b][h] = ledger[b][h]
      BY <1>5, <2>2
    <3>2. OneCurrentKey
      BY DEF TablesOK
    <3>. QED
      BY <3>1, <3>2 DEF OneCurrentKey, IsCurrent
  <2>. QED
    BY <2>1, <2>2
<1>8. \A b \in Agents, k \in Keys : retired[b][k] <= retired'[b][k] /\ retired'[b][k] <= clock
  <2>. SUFFICES ASSUME NEW b \in Agents, NEW k \in Keys
                PROVE  retired[b][k] <= retired'[b][k] /\ retired'[b][k] <= clock
    OBVIOUS
  <2>1. retired[b][k] <= clock /\ retired[b][k] \in Nat
    BY <1>1 DEF TablesOK, RowsOK
  <2>. QED
    BY <1>1, <1>6, <2>1
<1>9. RowsOK'
  <2>. SUFFICES ASSUME NEW b \in Agents, NEW h \in Hexes
                PROVE  /\ ledger'[b][h].status # "absent" => ledger'[b][h].from <= clock
                       /\ ledger'[b][h].status = "closed" =>
                             ledger'[b][h].to <= retired'[b][KeyOf[h]] + Grace
    BY <1>8 DEF RowsOK
  <2>1. RowsOK
    BY DEF TablesOK
  <2>2. CASE b = a /\ h = old
    BY <1>1, <1>3, <1>5, <1>6, <2>1, <2>2 DEF RowsOK, IsCurrent, kOld
  <2>3. CASE b = a /\ h = new
    BY <1>2, <1>5, <2>3
  <2>4. CASE b # a \/ h \notin {old, new}
    <3>1. ledger'[b][h] = ledger[b][h] /\ KeyOf[h] \in Keys /\ ledger[b][h].to \in Nat
      BY <1>5, <2>4, RowFields
    <3>2. /\ retired[b][KeyOf[h]] <= retired'[b][KeyOf[h]]
          /\ retired[b][KeyOf[h]] \in Nat /\ retired'[b][KeyOf[h]] \in Nat
      BY <3>1, <1>1, <1>6, <1>8
    <3>. QED
      BY <1>1, <2>1, <3>1, <3>2 DEF RowsOK
  <2>. QED
    BY <2>2, <2>3, <2>4
<1>10. ASSUME NEW b \in Agents, NEW g \in Hexes, NEW t \in Nat, t <= clock,
              Covers(ledger[b][g], t)
       PROVE  Covers(ledger'[b][g], t)
  <2>1. CASE b = a /\ g = old
    BY <1>1, <1>3, <1>5, <1>10, <2>1 DEF Covers
  <2>2. CASE b = a /\ g = new
    BY <1>10, <2>2 DEF Covers
  <2>3. CASE b # a \/ g \notin {old, new}
    BY <1>5, <1>10, <2>3
  <2>. QED
    BY <2>1, <2>2, <2>3
<1>11. ASSUME NEW b \in Agents, NEW k \in Keys, NEW t \in Nat, t <= clock, InGrace(b, k, t)
       PROVE  InGrace(b, k, t)'
  <2>1. CASE t < retired[b][k] + Grace
    <3>1. /\ retired[b][k] <= retired'[b][k]
          /\ retired[b][k] \in Nat /\ retired'[b][k] \in Nat
      BY <1>1, <1>6, <1>8
    <3>. QED
      BY <1>1, <2>1, <3>1 DEF InGrace
  <2>2. CASE \E h \in Hexes : IsCurrent(b, h) /\ KeyOf[h] = k
    <3>1. PICK h \in Hexes : IsCurrent(b, h) /\ KeyOf[h] = k
      BY <2>2
    <3>2. CASE b = a /\ h = old
      BY <1>1, <1>6, <1>11, <3>1, <3>2 DEF InGrace, kOld
    <3>3. CASE ~(b = a /\ h = old)
      BY <1>2, <1>5, <3>1, <3>3 DEF InGrace, IsCurrent
    <3>. QED
      BY <3>2, <3>3
  <2>. QED
    BY <1>11, <2>1, <2>2 DEF InGrace
<1>. QED
  BY <1>5, <1>6, <1>7, <1>9, <1>10, <1>11 DEF TablesOK, WindowsKept

-----------------------------------------------------------------------------
(* One step of one request *)

\* A step that leaves the rows alone leaves every window as it is; it may
\* record a nonce.
LEMMA QuietTables ==
    ASSUME TablesOK, UNCHANGED <<clock, tables>>,
           regNonces' \subseteq Nonces, rotateNonces' \subseteq Nonces
    PROVE  TablesOK' /\ WindowsKept
BY DEF TablesOK, WindowsKept, tables, OneCurrentKey, RowsOK, IsCurrent, InGrace

\* A step of one request keeps the invariant if it keeps the tables, every
\* window and its own local variables sound.
LEMMA RequestStep ==
    ASSUME IInv, NEW r \in Requests, clock' = clock, TablesOK', WindowsKept,
           pc' = [pc EXCEPT ![r] = pc'[r]], ctx' = [ctx EXCEPT ![r] = ctx'[r]],
           RequestOK(r)'
    PROVE  IInv'
<1>1. pc' = [q \in Requests |-> pc'[q]] /\ ctx' = [q \in Requests |-> ctx'[q]]
  BY DEF IInv
<1>2. ASSUME NEW q \in Requests PROVE RequestOK(q)'
  <2>1. CASE q = r
    BY <2>1
  <2>2. CASE q # r
    <3>1. pc'[q] = pc[q] /\ ctx'[q] = ctx[q]
      BY <2>2 DEF IInv
    <3>2. RequestOK(q) /\ clock \in Nat
      BY DEF IInv, TablesOK
    <3>. QED
      BY <3>1, <3>2, OtherRequest DEF WindowsKept
  <2>. QED
    BY <2>1, <2>2
<1>. QED
  BY <1>1, <1>2 DEF IInv

\* The invariant gives the local variables their types.
LEMMA Locals ==
    ASSUME IInv, NEW r \in Requests
    PROVE  /\ TablesOK /\ clock \in Nat /\ RequestOK(r)
           /\ LocalsOK(pc[r], ctx[r]) /\ ctx[r] \in Context
           /\ ctx[r].issued \in Nat /\ ctx[r].at \in Nat /\ ctx[r].fresh \in BOOLEAN
           /\ pc[r] = "new" => ctx[r].issued <= clock /\ ctx[r].at <= clock
BY ContextFields DEF IInv, TablesOK, RequestOK, LocalsOK

\* A handler that returns has no local variables left to be wrong.
LEMMA Returned ==
    ASSUME IInv, NEW r \in Requests, NEW from, Return(r, from), clock' = clock
    PROVE  /\ RequestOK(r)'
           /\ pc' = [pc EXCEPT ![r] = pc'[r]] /\ ctx' = [ctx EXCEPT ![r] = ctx'[r]]
<1>1. pc'[r] = "done" /\ ctx'[r] = NoContext /\ clock \in Nat
  BY DEF Return, Goto, IInv, TablesOK
<1>2. LocalsOK("done", NoContext)
  BY EmptyLocals
<1>3. NoContext.issued = 0 /\ NoContext.at = 0
  BY DEF NoContext
<1>. QED
  BY <1>1, <1>2, <1>3 DEF Return, Goto, IInv, RequestOK, FreshBacked

\* register
LEMMA RegisterSafe ==
    ASSUME IInv, NEW r \in Requests, Register(r)
    PROVE  IInv'
<1>1. PICK reg \in Registrations, n \in Nonces :
         ctx' = [ctx EXCEPT ![r].agent = reg.agent, ![r].key = reg.key, ![r].nonce = n]
  BY DEF Register
<1>2. ctx'[r] = [ctx[r] EXCEPT !.agent = reg.agent, !.key = reg.key, !.nonce = n]
  BY <1>1 DEF IInv
<1>3. pc[r] = "new" /\ pc'[r] = "register_nonce" /\ pc' = [pc EXCEPT ![r] = pc'[r]]
  BY DEF Register, Goto, IInv
<1>4. ctx' = [ctx EXCEPT ![r] = ctx'[r]]
  BY <1>1 DEF IInv
<1>5. /\ LocalsOK("register_nonce", ctx'[r])
      /\ ctx'[r].issued = ctx[r].issued /\ ctx'[r].at = ctx[r].at
  <2>1. ctx[r] \in Context
    BY Locals
  <2>. QED
    BY <1>2, <2>1, RegistrationsAssumption DEF Context, LocalsOK, Location, Ended
<1>6. UNCHANGED <<clock, tables, regNonces, rotateNonces>>
  BY DEF Register
<1>7. RequestOK(r)'
  BY <1>3, <1>5, <1>6, Locals DEF RequestOK, FreshBacked
<1>. QED
  BY <1>3, <1>4, <1>6, <1>7, Locals, QuietTables, RequestStep DEF TablesOK

\* consume_nonce in register
LEMMA RegisterNonceSafe ==
    ASSUME IInv, NEW r \in Requests, RegisterNonce(r)
    PROVE  IInv'
<1>1. pc[r] = "register_nonce" /\ UNCHANGED <<clock, tables, rotateNonces>>
  BY DEF RegisterNonce, Return, Goto
<1>2. ctx[r].agent \in Agents /\ ctx[r].key \in Keys /\ ctx[r].nonce \in Nonces
  BY <1>1, Locals DEF LocalsOK
<1>3. TablesOK' /\ WindowsKept
  BY <1>1, <1>2, QuietTables, Locals DEF RegisterNonce, TablesOK
<1>4. CASE Return(r, "register_nonce")
  BY <1>1, <1>3, <1>4, Returned, RequestStep
<1>5. CASE Goto(r, "register_nonce", "register_insert") /\ UNCHANGED ctx
  <2>1. /\ pc'[r] = "register_insert" /\ ctx'[r] = ctx[r]
        /\ pc' = [pc EXCEPT ![r] = pc'[r]] /\ ctx' = [ctx EXCEPT ![r] = ctx'[r]]
    BY <1>5 DEF Goto, IInv
  <2>2. LocalsOK("register_insert", ctx[r])
    BY <1>1, <1>2, Locals DEF LocalsOK, Location, Ended
  <2>3. RequestOK(r)'
    BY <1>1, <2>1, <2>2, Locals DEF RequestOK, FreshBacked
  <2>. QED
    BY <1>1, <1>3, <2>1, <2>3, RequestStep
<1>. QED
  BY <1>4, <1>5 DEF RegisterNonce

\* The transaction of register
LEMMA RegisterInsertSafe ==
    ASSUME IInv, NEW r \in Requests, RegisterInsert(r)
    PROVE  IInv'
<1>. DEFINE a == ctx[r].agent
            k == ctx[r].key
<1>1. /\ pc[r] = "register_insert" /\ Return(r, "register_insert")
      /\ UNCHANGED <<clock, retired, regNonces, rotateNonces>>
  BY DEF RegisterInsert, Return, Goto
<1>2. a \in Agents /\ k \in Keys
  BY <1>1, Locals DEF LocalsOK
<1>3. TablesOK' /\ WindowsKept
  <2>1. CASE Registrable(a, k)
    BY <1>1, <1>2, <2>1, RegisterTables, Locals DEF RegisterInsert
  <2>2. CASE ~Registrable(a, k)
    BY <1>1, <2>2, QuietTables, Locals DEF RegisterInsert, TablesOK, tables
  <2>. QED
    BY <2>1, <2>2
<1>. QED
  BY <1>1, <1>3, Returned, RequestStep

\* rotate_key up to the signature
LEMMA RotateSafe ==
    ASSUME IInv, NEW r \in Requests, Rotate(r)
    PROVE  IInv'
<1>1. PICK a \in Agents, n \in Nonces : \E old, new \in Hexes :
         /\ IsCurrent(a, old)
         /\ new # old
         /\ ctx' = [ctx EXCEPT ![r].agent = a, ![r].old = old, ![r].new = new,
                               ![r].nonce = n]
  BY Zenon DEF Rotate
<1>2. PICK old \in Hexes, new \in Hexes :
         ctx' = [ctx EXCEPT ![r].agent = a, ![r].old = old, ![r].new = new,
                            ![r].nonce = n]
  BY <1>1
<1>3. ctx'[r] = [ctx[r] EXCEPT !.agent = a, !.old = old, !.new = new, !.nonce = n]
  BY <1>2 DEF IInv
<1>4. pc[r] = "new" /\ pc'[r] = "rotate_nonce" /\ pc' = [pc EXCEPT ![r] = pc'[r]]
  BY DEF Rotate, Goto, IInv
<1>5. ctx' = [ctx EXCEPT ![r] = ctx'[r]]
  BY <1>2 DEF IInv
<1>6. /\ LocalsOK("rotate_nonce", ctx'[r])
      /\ ctx'[r].issued = ctx[r].issued /\ ctx'[r].at = ctx[r].at
  <2>1. ctx[r] \in Context
    BY Locals
  <2>. QED
    BY <1>3, <2>1 DEF Context, LocalsOK, Location, Ended
<1>7. UNCHANGED <<clock, tables, regNonces, rotateNonces>>
  BY DEF Rotate
<1>8. RequestOK(r)'
  BY <1>4, <1>6, <1>7, Locals DEF RequestOK, FreshBacked
<1>. QED
  BY <1>4, <1>5, <1>7, <1>8, Locals, QuietTables, RequestStep DEF TablesOK

\* consume_nonce in rotate_key, and the handler's reading of the clock
LEMMA RotateNonceSafe ==
    ASSUME IInv, NEW r \in Requests, RotateNonce(r)
    PROVE  IInv'
<1>1. pc[r] = "rotate_nonce" /\ UNCHANGED <<clock, tables, regNonces>>
  BY DEF RotateNonce, Return, Goto
<1>2. /\ ctx[r].agent \in Agents /\ ctx[r].old \in Hexes /\ ctx[r].new \in Hexes
      /\ ctx[r].nonce \in Nonces
  BY <1>1, Locals DEF LocalsOK
<1>3. TablesOK' /\ WindowsKept
  BY <1>1, <1>2, QuietTables, Locals DEF RotateNonce, TablesOK
<1>4. CASE Return(r, "rotate_nonce")
  BY <1>1, <1>3, <1>4, Returned, RequestStep
<1>5. CASE /\ Goto(r, "rotate_nonce", "rotate_commit")
           /\ ctx' = [ctx EXCEPT ![r].at = clock]
  <2>1. /\ pc'[r] = "rotate_commit" /\ ctx'[r] = [ctx[r] EXCEPT !.at = clock]
        /\ pc' = [pc EXCEPT ![r] = pc'[r]] /\ ctx' = [ctx EXCEPT ![r] = ctx'[r]]
    BY <1>5 DEF Goto, IInv
  <2>2. /\ LocalsOK("rotate_commit", ctx'[r])
        /\ ctx'[r].issued = ctx[r].issued /\ ctx'[r].at = clock
    BY <1>2, <2>1, SetAt, Locals DEF LocalsOK, Location, Ended
  <2>3. RequestOK(r)'
    BY <1>1, <2>1, <2>2, Locals DEF RequestOK, FreshBacked
  <2>. QED
    BY <1>1, <1>3, <2>1, <2>3, RequestStep
<1>. QED
  BY <1>4, <1>5 DEF RotateNonce

\* The transaction of rotate_key
LEMMA RotateCommitSafe ==
    ASSUME IInv, NEW r \in Requests, RotateCommit(r)
    PROVE  IInv'
<1>. DEFINE a == ctx[r].agent
            old == ctx[r].old
            new == ctx[r].new
            at == ctx[r].at
<1>1. /\ pc[r] = "rotate_commit" /\ Return(r, "rotate_commit")
      /\ UNCHANGED <<clock, published, regNonces, rotateNonces>>
      /\ clock <= at + Timeout
  BY DEF RotateCommit, Return, Goto
<1>2. a \in Agents /\ old \in Hexes /\ new \in Hexes /\ at \in Nat /\ at <= clock
  BY <1>1, Locals DEF LocalsOK, RequestOK
<1>3. TablesOK' /\ WindowsKept
  <2>1. CASE /\ IsCurrent(a, old) /\ ledger[a][new].status = "absent"
             /\ Rotated(a, old, new, at)
    BY <1>1, <1>2, <2>1, RotateTables, Locals
  <2>2. CASE UNCHANGED <<ledger, retired>>
    BY <1>1, <2>2, QuietTables, Locals DEF TablesOK, tables
  <2>. QED
    BY <2>1, <2>2 DEF RotateCommit
<1>. QED
  BY <1>1, <1>3, Returned, RequestStep

\* A client signs: if the key is current, its row covers the signature.
LEMMA SignSafe ==
    ASSUME IInv, NEW r \in Requests, Sign(r)
    PROVE  IInv'
<1>1. PICK a \in Agents, h \in Hexes :
         /\ ledger[a][h].status # "absent"
         /\ ctx' = [ctx EXCEPT
                        ![r].agent = a, ![r].key = KeyOf[h], ![r].issued = clock,
                        ![r].fresh = \E g \in Hexes : IsCurrent(a, g) /\ KeyOf[g] = KeyOf[h]]
  BY DEF Sign
<1>. DEFINE f == \E g \in Hexes : IsCurrent(a, g) /\ KeyOf[g] = KeyOf[h]
<1>2. f \in BOOLEAN /\ KeyOf[h] \in Keys
  BY HexAssumption
<1>3. ctx' = [ctx EXCEPT ![r].agent = a, ![r].key = KeyOf[h], ![r].issued = clock,
                         ![r].fresh = f]
  BY <1>1
<1>. HIDE DEF f
<1>4. /\ ctx'[r] = [ctx[r] EXCEPT !.agent = a, !.key = KeyOf[h], !.issued = clock, !.fresh = f]
      /\ ctx' = [ctx EXCEPT ![r] = ctx'[r]]
  BY <1>3 DEF IInv
<1>5. pc[r] = "new" /\ pc'[r] = "check_skew" /\ pc' = [pc EXCEPT ![r] = pc'[r]]
  BY DEF Sign, Goto, IInv
<1>6. UNCHANGED <<clock, tables, regNonces, rotateNonces>>
  BY DEF Sign
<1>7. ctx[r] \in Context /\ clock \in Nat /\ ctx[r].at <= clock
  BY <1>5, Locals
<1>8. /\ ctx'[r].agent = a /\ ctx'[r].key = KeyOf[h] /\ ctx'[r].issued = clock
      /\ ctx'[r].fresh = f /\ ctx'[r].at = ctx[r].at
  BY <1>4, <1>7 DEF Context
<1>9. LocalsOK("check_skew", ctx'[r])
  BY <1>2, <1>4, <1>7 DEF Context, LocalsOK, Location, Ended
<1>10. f => \E g \in Hexes : KeyOf[g] = KeyOf[h] /\ Covers(ledger'[a][g], clock)
  BY <1>6, Locals DEF f, IsCurrent, TablesOK, RowsOK, Covers, tables
<1>11. RequestOK(r)'
  BY <1>5, <1>6, <1>7, <1>8, <1>9, <1>10 DEF RequestOK, FreshBacked
<1>. QED
  BY <1>4, <1>5, <1>6, <1>11, Locals, QuietTables, RequestStep DEF TablesOK

\* is_within_clock_skew bounds the handler's first reading of the clock from both
\* sides.
LEMMA CheckSkewSafe ==
    ASSUME IInv, NEW r \in Requests, CheckSkew(r)
    PROVE  IInv'
<1>1. /\ pc[r] = "check_skew" /\ pc'[r] = "read_clock" /\ pc' = [pc EXCEPT ![r] = pc'[r]]
      /\ ctx'[r] = [ctx[r] EXCEPT !.at = clock] /\ ctx' = [ctx EXCEPT ![r] = ctx'[r]]
      /\ clock <= ctx[r].issued + Skew
  BY DEF CheckSkew, Goto, IInv
<1>2. UNCHANGED <<clock, tables, regNonces, rotateNonces>>
  BY DEF CheckSkew
<1>3. /\ ctx[r] \in Context /\ clock \in Nat /\ ctx[r].issued \in Nat
      /\ ctx[r].agent \in Agents /\ ctx[r].key \in Keys /\ ctx[r].issued <= clock
      /\ FreshBacked(r)
  BY <1>1, Locals DEF LocalsOK, RequestOK
<1>4. /\ ctx'[r] \in Context /\ ctx'[r].at = clock /\ ctx'[r].issued = ctx[r].issued
      /\ ctx'[r].agent = ctx[r].agent /\ ctx'[r].key = ctx[r].key
      /\ ctx'[r].fresh = ctx[r].fresh
  BY <1>1, <1>3, SetAt
<1>5. LocalsOK("read_clock", ctx'[r])
  BY <1>1, <1>3, <1>4 DEF LocalsOK, Location, Ended
<1>6. FreshBacked(r)'
  BY <1>1, <1>2, <1>3, <1>4 DEF FreshBacked, tables
<1>7. RequestOK(r)'
  BY <1>1, <1>2, <1>3, <1>4, <1>5, <1>6 DEF RequestOK
<1>. QED
  BY <1>1, <1>2, <1>7, Locals, QuietTables, RequestStep DEF TablesOK

\* The timeout bounds the second reading by the first.
LEMMA ReadClockSafe ==
    ASSUME IInv, NEW r \in Requests, ReadClock(r)
    PROVE  IInv'
<1>1. /\ pc[r] = "read_clock" /\ pc'[r] = "verify" /\ pc' = [pc EXCEPT ![r] = pc'[r]]
      /\ ctx'[r] = [ctx[r] EXCEPT !.at = clock] /\ ctx' = [ctx EXCEPT ![r] = ctx'[r]]
      /\ clock <= ctx[r].at + Timeout
  BY DEF ReadClock, Goto, IInv
<1>2. UNCHANGED <<clock, tables, regNonces, rotateNonces>>
  BY DEF ReadClock
<1>3. /\ ctx[r] \in Context /\ clock \in Nat /\ ctx[r].issued \in Nat
      /\ ctx[r].agent \in Agents /\ ctx[r].key \in Keys /\ ctx[r].issued <= clock
      /\ ctx[r].at \in Nat /\ ctx[r].at <= ctx[r].issued + Skew
      /\ FreshBacked(r) /\ Skew \in Nat /\ Timeout \in Nat
  BY <1>1, Locals, TimesAssumption DEF LocalsOK, RequestOK
<1>4. /\ ctx'[r] \in Context /\ ctx'[r].at = clock /\ ctx'[r].issued = ctx[r].issued
      /\ ctx'[r].agent = ctx[r].agent /\ ctx'[r].key = ctx[r].key
      /\ ctx'[r].fresh = ctx[r].fresh
  BY <1>1, <1>3, SetAt
<1>5. LocalsOK("verify", ctx'[r])
  BY <1>1, <1>3, <1>4 DEF LocalsOK, Location, Ended
<1>6. FreshBacked(r)'
  BY <1>1, <1>2, <1>3, <1>4 DEF FreshBacked, tables
<1>7. RequestOK(r)'
  BY <1>1, <1>2, <1>3, <1>4, <1>5, <1>6 DEF RequestOK
<1>. QED
  BY <1>1, <1>2, <1>7, Locals, QuietTables, RequestStep DEF TablesOK

\* A row that covers the signature is valid at the handler's reading of the
\* clock, and a row that is valid there is in its key's window.
LEMMA VerifySafe ==
    ASSUME IInv, NEW r \in Requests, Verify(r)
    PROVE  IInv'
<1>. DEFINE a == ctx[r].agent
            k == ctx[r].key
            at == ctx[r].at
<1>1. /\ pc[r] = "verify" /\ ctx' = ctx /\ pc' = [pc EXCEPT ![r] = pc'[r]]
      /\ ctx' = [ctx EXCEPT ![r] = ctx'[r]]
      /\ pc'[r] = IF k \in ValidKeysAt(a, at) THEN "accepted" ELSE "refused"
  BY DEF Verify, IInv
<1>2. UNCHANGED <<clock, tables, regNonces, rotateNonces>>
  BY DEF Verify
<1>3. /\ a \in Agents /\ k \in Keys /\ at \in Nat /\ ctx[r].issued \in Nat
      /\ ctx[r].issued <= at /\ at <= ctx[r].issued + Skew + Timeout
      /\ FreshBacked(r) /\ Skew \in Nat /\ Timeout \in Nat /\ Grace \in Nat
      /\ ctx[r].issued <= clock /\ at <= clock /\ TablesOK /\ ctx[r] \in Context
  BY <1>1, Locals, TimesAssumption DEF LocalsOK, RequestOK
<1>4. CASE k \in ValidKeysAt(a, at)
  <2>1. PICK h \in Hexes : KeyOf[h] = k /\ ValidAt(ledger[a][h], at)
    BY <1>4 DEF ValidKeysAt
  <2>2. /\ ledger[a][h].to \in Nat /\ retired[a][k] \in Nat
        /\ ledger[a][h].status \in {"absent", "current", "closed"}
        /\ ledger[a][h].status = "closed" => ledger[a][h].to <= retired[a][k] + Grace
    BY <1>3, <2>1, RowFields DEF TablesOK, RowsOK
  <2>3. InGrace(a, k, at)
    BY <1>3, <2>1, <2>2 DEF InGrace, ValidAt, IsCurrent
  <2>4. LocalsOK("accepted", ctx[r])
    BY <1>3 DEF LocalsOK, Location, Ended
  <2>5. RequestOK(r)'
    BY <1>1, <1>2, <1>3, <1>4, <2>3, <2>4
       DEF RequestOK, FreshBacked, InGrace, IsCurrent, tables
  <2>. QED
    BY <1>1, <1>2, <2>5, Locals, QuietTables, RequestStep DEF TablesOK
<1>5. CASE k \notin ValidKeysAt(a, at)
  <2>1. ASSUME ctx[r].fresh PROVE FALSE
    <3>1. PICK g \in Hexes : KeyOf[g] = k /\ Covers(ledger[a][g], ctx[r].issued)
      BY <1>1, <2>1, <1>3 DEF FreshBacked
    <3>2. ledger[a][g].from \in Nat /\ ledger[a][g].to \in Nat
      BY <1>3, RowFields
    <3>3. ValidAt(ledger[a][g], at)
      BY <1>3, <3>1, <3>2 DEF Covers, ValidAt
    <3>. QED
      BY <1>5, <3>1, <3>3 DEF ValidKeysAt
  <2>2. LocalsOK("refused", ctx[r])
    BY <1>3 DEF LocalsOK, Location, Ended
  <2>3. RequestOK(r)'
    BY <1>1, <1>2, <1>3, <1>5, <2>1, <2>2 DEF RequestOK, FreshBacked
  <2>. QED
    BY <1>1, <1>2, <2>3, Locals, QuietTables, RequestStep DEF TablesOK
<1>. QED
  BY <1>4, <1>5

\* Time passes: no window depends on the clock.
LEMMA TickSafe ==
    ASSUME IInv, Tick
    PROVE  IInv'
<1>1. /\ clock \in Nat /\ clock' = clock + 1 /\ TablesOK
      /\ UNCHANGED <<tables, regNonces, rotateNonces, pc, ctx>>
  BY DEF Tick, IInv, TablesOK
<1>2. RowsOK'
  <2>1. ASSUME NEW a \in Agents, NEW k \in Keys PROVE retired'[a][k] <= clock'
    <3>1. retired[a][k] \in Nat /\ retired[a][k] <= clock
      BY <1>1 DEF TablesOK, RowsOK
    <3>. QED
      BY <1>1, <3>1 DEF tables
  <2>2. ASSUME NEW a \in Agents, NEW h \in Hexes
        PROVE  /\ ledger'[a][h].status # "absent" => ledger'[a][h].from <= clock'
               /\ ledger'[a][h].status = "closed" =>
                     ledger'[a][h].to <= retired'[a][KeyOf[h]] + Grace
    <3>1. ledger[a][h].from \in Nat
      BY <1>1, RowFields
    <3>. QED
      BY <1>1, <3>1 DEF tables, TablesOK, RowsOK
  <2>. QED
    BY <2>1, <2>2 DEF RowsOK
<1>3. TablesOK'
  BY <1>1, <1>2 DEF TablesOK, tables, OneCurrentKey, IsCurrent
<1>4. ASSUME NEW q \in Requests PROVE RequestOK(q)'
  <2>1. RequestOK(q) /\ pc'[q] = pc[q] /\ ctx'[q] = ctx[q]
    BY <1>1 DEF IInv
  <2>2. clock <= clock' /\ clock' \in Nat
    BY <1>1
  <2>3. WindowsKept
    BY <1>1 DEF WindowsKept, tables, InGrace, IsCurrent
  <2>. QED
    BY <1>1, <2>1, <2>2, <2>3, OtherRequest DEF WindowsKept
<1>. QED
  BY <1>1, <1>3, <1>4 DEF IInv

-----------------------------------------------------------------------------
(* The invariant *)

\* Nothing is registered and no request has begun.
LEMMA InitSafe == Init => IInv
<1>. SUFFICES ASSUME Init PROVE IInv
  OBVIOUS
<1>1. NoKeyRow \in KeyRow /\ NoKeyRow.status = "absent"
  BY DEF NoKeyRow, KeyRow
<1>2. /\ published \in [Agents -> Keys \cup {Null}]
      /\ ledger \in [Agents -> [Hexes -> KeyRow]]
      /\ retired \in [Agents -> [Keys -> Nat]]
      /\ clock \in Nat /\ regNonces \subseteq Nonces /\ rotateNonces \subseteq Nonces
  BY <1>1 DEF Init
<1>3. OneCurrentKey /\ RowsOK
  BY <1>1 DEF Init, OneCurrentKey, RowsOK
<1>4. ASSUME NEW r \in Requests PROVE RequestOK(r)
  <2>1. pc[r] = "new" /\ ctx[r] = NoContext /\ clock = 0
    BY DEF Init
  <2>2. LocalsOK("new", NoContext) /\ NoContext.issued = 0 /\ NoContext.at = 0
    BY EmptyLocals DEF NoContext
  <2>. QED
    BY <2>1, <2>2 DEF RequestOK, FreshBacked
<1>. QED
  BY <1>2, <1>3, <1>4 DEF Init, IInv, TablesOK

\* Every step keeps the invariant.
LEMMA StepSafe == IInv /\ [Next]_vars => IInv'
<1>. SUFFICES ASSUME IInv, [Next]_vars PROVE IInv'
  OBVIOUS
<1>1. CASE Tick
  BY <1>1, TickSafe
<1>2. ASSUME NEW r \in Requests, Register(r) PROVE IInv'
  BY <1>2, RegisterSafe
<1>3. ASSUME NEW r \in Requests, RegisterNonce(r) PROVE IInv'
  BY <1>3, RegisterNonceSafe
<1>4. ASSUME NEW r \in Requests, RegisterInsert(r) PROVE IInv'
  BY <1>4, RegisterInsertSafe
<1>5. ASSUME NEW r \in Requests, Rotate(r) PROVE IInv'
  BY <1>5, RotateSafe
<1>6. ASSUME NEW r \in Requests, RotateNonce(r) PROVE IInv'
  BY <1>6, RotateNonceSafe
<1>7. ASSUME NEW r \in Requests, RotateCommit(r) PROVE IInv'
  BY <1>7, RotateCommitSafe
<1>8. ASSUME NEW r \in Requests, Sign(r) PROVE IInv'
  BY <1>8, SignSafe
<1>9. ASSUME NEW r \in Requests, CheckSkew(r) PROVE IInv'
  BY <1>9, CheckSkewSafe
<1>10. ASSUME NEW r \in Requests, ReadClock(r) PROVE IInv'
  BY <1>10, ReadClockSafe
<1>11. ASSUME NEW r \in Requests, Verify(r) PROVE IInv'
  BY <1>11, VerifySafe
<1>12. ASSUME NEW r \in Requests, Cut(r) PROVE IInv'
  <2>1. Return(r, pc[r]) /\ UNCHANGED <<clock, tables, regNonces, rotateNonces>>
    BY <1>12 DEF Cut
  <2>2. /\ pc'[r] = "done" /\ ctx'[r] = NoContext
        /\ pc' = [pc EXCEPT ![r] = pc'[r]] /\ ctx' = [ctx EXCEPT ![r] = ctx'[r]]
    BY <2>1 DEF Return, Goto, IInv
  <2>3. LocalsOK("done", NoContext) /\ NoContext.issued = 0 /\ NoContext.at = 0
    BY EmptyLocals DEF NoContext
  <2>4. RequestOK(r)'
    BY <2>1, <2>2, <2>3, Locals DEF RequestOK, FreshBacked
  <2>. QED
    BY <2>1, <2>2, <2>4, Locals, QuietTables, RequestStep DEF TablesOK
<1>13. CASE UNCHANGED vars
  <2>1. UNCHANGED <<clock, tables, regNonces, rotateNonces, pc, ctx>>
    BY <1>13 DEF vars, tables
  <2>2. TablesOK' /\ WindowsKept
    BY <2>1, QuietTables DEF IInv, TablesOK
  <2>3. ASSUME NEW q \in Requests PROVE RequestOK(q)'
    BY <2>1, <2>2, OtherRequest DEF IInv, TablesOK, WindowsKept
  <2>. QED
    BY <2>1, <2>2, <2>3 DEF IInv
<1>. QED
  BY <1>1, <1>2, <1>3, <1>4, <1>5, <1>6, <1>7, <1>8, <1>9, <1>10,
     <1>11, <1>12, <1>13 DEF Next

\* The invariant holds in every reachable state.
LEMMA Invariant == Spec => []IInv
BY InitSafe, StepSafe, PTL DEF Spec

-----------------------------------------------------------------------------
(* The properties *)

\* Every table and every handler's local variables keep their types.
THEOREM TypeCorrect == Spec => []TypeOK
<1>1. IInv => TypeOK
  <2>. SUFFICES ASSUME IInv PROVE TypeOK
    OBVIOUS
  <2>1. \A r \in Requests : pc[r] \in Location /\ ctx[r] \in Context
    BY DEF IInv, RequestOK, LocalsOK
  <2>. QED
    BY <2>1 DEF IInv, TablesOK, TypeOK
<1>. QED
  BY <1>1, Invariant, PTL

\* However many registrations and rotations race, register and
\* insert_rotation leave a registered agent exactly one current key, and an
\* agent that was never registered no row of agent_keys.
THEOREM CurrentKeyUnique == Spec => []OneCurrentKey
<1>1. IInv => OneCurrentKey
  BY DEF IInv, TablesOK
<1>. QED
  BY <1>1, Invariant, PTL

\* verify_with_valid_keys never refuses a request whose key was current when
\* it was signed, whatever rotations commit before the lookup.
THEOREM FreshSignaturesVerify == Spec => []NoLockout
<1>1. IInv => NoLockout
  BY DEF IInv, RequestOK, FreshBacked, NoLockout
<1>. QED
  BY <1>1, Invariant, PTL

\* verify_with_valid_keys accepts no key that was retired one grace period
\* or more before the time the handler verifies at.
THEOREM RetiredKeysExpire == Spec => []GraceEnforced
<1>1. IInv => GraceEnforced
  BY DEF IInv, RequestOK, GraceEnforced, InGrace
<1>. QED
  BY <1>1, Invariant, PTL

\* Only a rotation that was verified against the current key replaces it:
\* insert_rotation closes no other row and register closes none.
THEOREM OnlyTheCurrentKeyRotates == Spec => RotatedByCurrent
<1>1. IInv /\ [Next]_vars =>
        [\A a \in Agents, h \in Hexes :
            IsCurrent(a, h) /\ ~IsCurrent(a, h)' =>
              \E r \in Requests :
                  /\ pc[r] = "rotate_commit"
                  /\ pc'[r] = "done"
                  /\ ctx[r].agent = a
                  /\ ctx[r].old = h
                  /\ ledger'[a][ctx[r].new].status = "current"]_vars
  <2>. SUFFICES ASSUME IInv, Next, NEW a \in Agents, NEW h \in Hexes,
                       IsCurrent(a, h), ~IsCurrent(a, h)'
                PROVE  \E r \in Requests :
                          /\ pc[r] = "rotate_commit"
                          /\ pc'[r] = "done"
                          /\ ctx[r].agent = a
                          /\ ctx[r].old = h
                          /\ ledger'[a][ctx[r].new].status = "current"
    OBVIOUS
  <2>1. ledger' # ledger
    BY DEF IsCurrent
  <2>2. ASSUME NEW r \in Requests, RegisterInsert(r) PROVE FALSE
    <3>. DEFINE b == ctx[r].agent
                k == ctx[r].key
    <3>1. pc[r] = "register_insert"
      BY <2>2 DEF RegisterInsert, Return, Goto
    <3>2. b \in Agents /\ k \in Keys /\ Canonical[k] \in Hexes /\ TablesOK
      BY <3>1, Locals, HexAssumption DEF LocalsOK
    <3>3. /\ Registrable(b, k)
          /\ ledger' = [ledger EXCEPT ![b] = [@ EXCEPT ![Canonical[k]] =
                          [status |-> "current", from |-> clock, to |-> 0]]]
      BY <2>1, <2>2 DEF RegisterInsert
    <3>. QED
      BY <3>2, <3>3 DEF TablesOK, IsCurrent
  <2>3. PICK r \in Requests : RotateCommit(r)
    BY <2>1, <2>2 DEF Next, Tick, tables, Register, RegisterNonce, Rotate, RotateNonce,
                      Sign, CheckSkew, ReadClock, Verify, Cut
  <2>. DEFINE b == ctx[r].agent
              old == ctx[r].old
              new == ctx[r].new
  <2>4. /\ pc[r] = "rotate_commit" /\ pc'[r] = "done"
    BY <2>3 DEF RotateCommit, Return, Goto, IInv
  <2>5. /\ ledger[b][new].status = "absent" /\ IsCurrent(b, old)
        /\ Rotated(b, old, new, ctx[r].at)
    BY <2>1, <2>3 DEF RotateCommit
  <2>6. b \in Agents /\ old \in Hexes /\ new \in Hexes /\ TablesOK
    BY <2>4, Locals DEF LocalsOK
  <2>7. new # old
    BY <2>5 DEF IsCurrent
  <2>8. ledger'[b][new].status = "current"
    BY <2>5, <2>6, <2>7 DEF Rotated, TablesOK
  <2>9. b = a /\ old = h
    BY <2>5, <2>6 DEF Rotated, TablesOK, IsCurrent
  <2>. QED
    BY <2>4, <2>8, <2>9
<1>. QED
  BY <1>1, Invariant, PTL DEF Spec, RotatedByCurrent
=============================================================================
