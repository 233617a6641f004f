--------------------------- MODULE ResolverChain ---------------------------
(***************************************************************************)
(* The resolver chain of aex-identity (resolver_chain.rs): the bounded     *)
(* cache of agent records with its TTL and ETag revalidation, and the      *)
(* in-flight map that lets one caller fetch while the others wait on a     *)
(* Notify.  Callers are tasks of a multi-threaded runtime: each critical   *)
(* section of the cache or of the in-flight map is one action, and so is   *)
(* each synchronous stretch between two of them that another thread can    *)
(* run against.  A caller's future may be dropped wherever it awaits.      *)
(*                                                                         *)
(* tokio's Notify is modelled from its contract: notify_waiters wakes the  *)
(* Notified futures that exist, and nothing is kept for later ones.        *)
(***************************************************************************)
EXTENDS Naturals, SequencesExt

CONSTANTS
    Requests,   \* calls of resolve, each made once
    Handles,    \* agent ids that parse
    Resolvable, \* those whose scheme has a resolver
    Droppable,  \* calls whose future may be dropped
    Capacity,   \* with_capacity
    MaxVersion, \* bound on the changes of an agent's published record
    Null

ASSUME HandlesAssumption == Resolvable \subseteq Handles /\ Droppable \subseteq Requests
ASSUME CapacityAssumption == Capacity \in Nat \ {0} /\ MaxVersion \in Nat
ASSUME NullAssumption == Null \notin Requests \cup Handles \cup Nat

VARIABLES
    cache,     \* the entries, in the order of their inserted instants
    inflight,  \* inflight[h]: the leader that made the Notify of h, or Null
    published, \* published[h]: version of the record its domain serves
    pc,
    ctx,       \* the local variables of each call
    answered,  \* history: answered[h], the newest version a call has returned
    dropped    \* history: the calls that were dropped

vars == <<cache, inflight, published, pc, ctx, answered, dropped>>

Version == 0 .. MaxVersion

\* A record is known by its version, which its ETag and fingerprint follow;
\* fresh is inserted.elapsed() < ttl.
CacheEntry == [handle : Handles, version : Version, fresh : BOOLEAN]

\* notify is the Notify a waiter found, named after the leader that made it;
\* younger are the handles stored since the call's record arrived; floor is
\* what answered was when the call began.
Context ==
    [handle : Handles \cup {Null}, notify : Requests \cup {Null},
     etag : Version \cup {Null}, result : Version \cup {Null},
     younger : SUBSET Handles, floor : Version]

Init ==
    /\ cache = <<>>
    /\ inflight = [h \in Handles |-> Null]
    /\ published = [h \in Handles |-> 0]
    /\ pc = [r \in Requests |-> "new"]
    /\ ctx = [r \in Requests |-> [handle |-> Null, notify |-> Null, etag |-> Null,
                                  result |-> Null, younger |-> {}, floor |-> 0]]
    /\ answered = [h \in Handles |-> 0]
    /\ dropped = {}

-----------------------------------------------------------------------------
(* The cache *)

\* The cached versions of h: none or one.
Cached(h) == {cache[i].version : i \in {j \in DOMAIN cache : cache[j].handle = h}}

CachedFresh(h) ==
    {cache[i].version : i \in {j \in DOMAIN cache : cache[j].handle = h /\ cache[j].fresh}}

Without(h) ==
    LET at == {i \in DOMAIN cache : cache[i].handle = h}
    IN  IF at = {} THEN cache ELSE RemoveAt(cache, CHOOSE i \in at : TRUE)

\* The inserted instant is read before the cache is locked, so the entries
\* that other calls have stored since the record arrived may be younger: the
\* entry takes its place before some of them, or after all.
WithEntry(r) ==
    LET others == Without(ctx[r].handle)
        entry(i) == [handle |-> ctx[r].handle, version |-> ctx[r].result,
                     fresh |-> \A j \in i .. Len(others) : others[j].fresh]
    IN {InsertAt(others, i, entry(i)) : i \in
           {k \in 1 .. Len(others) + 1 :
               \A j \in k .. Len(others) : others[j].handle \in ctx[r].younger}}

WithNewest(h, version) ==
    Append(Without(h), [handle |-> h, version |-> version, fresh |-> TRUE])

\* The calls that hold a record while r stores its own.
Overtaken(r) == {s \in Requests \ {r} : pc[s] = "insert"}

\* The local variables once r has stored, or extended, its entry.
Stored(r, version) ==
    [s \in Requests |->
        IF s = r THEN [ctx[s] EXCEPT !.result = version, !.younger = {}]
        ELSE IF s \in Overtaken(r) THEN [ctx[s] EXCEPT !.younger = @ \cup {ctx[r].handle}]
        ELSE ctx[s]]

\* The oldest entries in excess of the capacity are dropped.
Evicted(entries) ==
    SubSeq(entries,
           IF Len(entries) > Capacity THEN Len(entries) - Capacity + 1 ELSE 1,
           Len(entries))

Goto(r, from, to) ==
    /\ pc[r] = from
    /\ pc' = [pc EXCEPT ![r] = to]

\* The call returns Ok of this version.
Answer(r, version) ==
    /\ pc' = [pc EXCEPT ![r] = "done"]
    /\ answered' = [answered EXCEPT ![ctx'[r].handle] =
                        IF version > @ THEN version ELSE @]

-----------------------------------------------------------------------------
(* resolve *)

\* The fast path: a fresh entry is returned at once.
Resolve(r) ==
    /\ pc[r] = "new"
    /\ \E h \in Handles :
          \/ /\ CachedFresh(h) = {}
             /\ pc' = [pc EXCEPT ![r] = "claim"]
             /\ ctx' = [ctx EXCEPT ![r].handle = h, ![r].floor = answered[h]]
             /\ UNCHANGED answered
          \/ \E v \in CachedFresh(h) :
                /\ ctx' = [ctx EXCEPT ![r].handle = h, ![r].floor = answered[h],
                                      ![r].result = v]
                /\ Answer(r, v)
    /\ UNCHANGED <<cache, inflight, published, dropped>>

\* Faulty variant: the slot is taken without looking whether it is free.
ClaimAlways(r) ==
    LET h == ctx[r].handle IN
    /\ Goto(r, "claim", "etag")
    /\ inflight' = [inflight EXCEPT ![h] = r]
    /\ UNCHANGED <<cache, published, ctx, answered, dropped>>

\* Claim the slot, or clone the Notify that is in it.
Claim(r) ==
    LET h == ctx[r].handle IN
    /\ pc[r] = "claim"
    /\ \/ /\ inflight[h] = Null
          /\ pc' = [pc EXCEPT ![r] = "etag"]
          /\ inflight' = [inflight EXCEPT ![h] = r]
          /\ UNCHANGED ctx
       \/ /\ inflight[h] # Null
          /\ pc' = [pc EXCEPT ![r] = "subscribe"]
          /\ ctx' = [ctx EXCEPT ![r].notify = inflight[h]]
          /\ UNCHANGED inflight
    /\ UNCHANGED <<cache, published, answered, dropped>>

\* notified(), after the lock has been released: from here the call is woken
\* by a later notify_waiters.
Subscribe(r) ==
    /\ Goto(r, "subscribe", "waiting")
    /\ UNCHANGED <<cache, inflight, published, ctx, answered, dropped>>

\* A woken waiter reads the cache again, and takes an entry of any age; with
\* none it returns an error.
ReadAgain(r) ==
    LET h == ctx[r].handle IN
    /\ pc[r] = "woken"
    /\ \/ \E v \in Cached(h) :
             /\ ctx' = [ctx EXCEPT ![r].result = v]
             /\ Answer(r, v)
       \/ /\ Cached(h) = {}
          /\ pc' = [pc EXCEPT ![r] = "done"]
          /\ UNCHANGED <<ctx, answered>>
    /\ UNCHANGED <<cache, inflight, published, dropped>>

-----------------------------------------------------------------------------
(* fetch_and_update, in the leader *)

\* A handle whose scheme has no resolver is an error; otherwise the cached
\* ETag, if there is an entry, goes into the request.
ReadEtag(r) ==
    LET h == ctx[r].handle IN
    /\ Goto(r, "etag", IF h \in Resolvable THEN "fetch" ELSE "release")
    /\ \E e \in IF Cached(h) = {} THEN {Null} ELSE Cached(h) :
          ctx' = [ctx EXCEPT ![r].etag = e]
    /\ UNCHANGED <<cache, inflight, published, answered, dropped>>

\* Faulty variant: the slot is given up as soon as the record has arrived.
FetchReleasesEarly(r) ==
    LET h == ctx[r].handle IN
    /\ Goto(r, "fetch", "insert")
    /\ ctx' = [ctx EXCEPT ![r].result = published[h]]
    /\ inflight' = [inflight EXCEPT ![h] = Null]
    /\ UNCHANGED <<cache, published, answered, dropped>>

\* Faulty variant: an error returns past the removal of the slot.
FetchFailureReturns(r) ==
    LET h == ctx[r].handle IN
    /\ pc[r] = "fetch"
    /\ \/ /\ pc' = [pc EXCEPT ![r] = "insert"]
          /\ ctx' = [ctx EXCEPT ![r].result = published[h]]
       \/ /\ pc' = [pc EXCEPT ![r] = "done"]
          /\ UNCHANGED ctx
    /\ UNCHANGED <<cache, inflight, published, answered, dropped>>

\* AgentResolver::resolve: the published record, 304 when the ETag is still
\* that of the published record, or an error.
Fetch(r) ==
    LET h == ctx[r].handle IN
    /\ pc[r] = "fetch"
    /\ \/ /\ pc' = [pc EXCEPT ![r] = "insert"]
          /\ ctx' = [ctx EXCEPT ![r].result = published[h]]
       \/ /\ ctx[r].etag = published[h]
          /\ pc' = [pc EXCEPT ![r] = "extend"]
          /\ UNCHANGED ctx
       \/ /\ pc' = [pc EXCEPT ![r] = "release"]
          /\ UNCHANGED ctx
    /\ UNCHANGED <<cache, inflight, published, answered, dropped>>

\* cache_insert
Insert(r) ==
    /\ Goto(r, "insert", "release")
    /\ \E entries \in WithEntry(r) : cache' = Evicted(entries)
    /\ ctx' = Stored(r, ctx[r].result)
    /\ UNCHANGED <<inflight, published, answered, dropped>>

\* cache_extend: the entry becomes the newest; when it is gone, an error.
Extend(r) ==
    LET h == ctx[r].handle IN
    /\ Goto(r, "extend", "release")
    /\ \/ \E v \in Cached(h) :
             /\ cache' = WithNewest(h, v)
             /\ ctx' = Stored(r, v)
       \/ Cached(h) = {} /\ UNCHANGED <<cache, ctx>>
    /\ UNCHANGED <<inflight, published, answered, dropped>>

\* The leader takes its Notify out of the map ...
Release(r) ==
    /\ Goto(r, "release", "notify")
    /\ inflight' = [inflight EXCEPT ![ctx[r].handle] = Null]
    /\ UNCHANGED <<cache, published, ctx, answered, dropped>>

\* ... and, the lock released, wakes the calls that wait on it and returns.
NotifyWaiters(r) ==
    /\ pc[r] = "notify"
    /\ pc' = [s \in Requests |->
                IF s = r THEN "done"
                ELSE IF pc[s] = "waiting" /\ ctx[s].notify = r THEN "woken"
                ELSE pc[s]]
    /\ answered' =
          IF ctx[r].result = Null THEN answered
          ELSE [answered EXCEPT ![ctx[r].handle] =
                   IF ctx[r].result > @ THEN ctx[r].result ELSE @]
    /\ UNCHANGED <<cache, inflight, published, ctx, dropped>>

-----------------------------------------------------------------------------

\* A rotation or revocation event: invalidate(h).
Invalidate(h) ==
    /\ Cached(h) # {}
    /\ cache' = Without(h)
    /\ UNCHANGED <<inflight, published, pc, ctx, answered, dropped>>

\* The oldest entry that is still fresh reaches its TTL.
Expire ==
    /\ \E i \in DOMAIN cache :
          /\ cache[i].fresh
          /\ \A j \in 1 .. i - 1 : ~cache[j].fresh
          /\ cache' = [cache EXCEPT ![i].fresh = FALSE]
    /\ UNCHANGED <<inflight, published, pc, ctx, answered, dropped>>

\* The agent's domain publishes a new record.
Publish(h) ==
    /\ published[h] < MaxVersion
    /\ published' = [published EXCEPT ![h] = @ + 1]
    /\ UNCHANGED <<cache, inflight, pc, ctx, answered, dropped>>

\* The future of a call is dropped at an await; it leaves everything as it is.
\* Between the two locks and the calls of the Notify there is no await.
Drop(r) ==
    /\ r \in Droppable
    /\ pc[r] \notin {"new", "done", "subscribe", "notify"}
    /\ pc' = [pc EXCEPT ![r] = "done"]
    /\ ctx' = [ctx EXCEPT ![r].result = Null, ![r].younger = {}]
    /\ dropped' = dropped \cup {r}
    /\ UNCHANGED <<cache, inflight, published, answered>>

Step(r) ==
    \/ Claim(r) \/ Subscribe(r) \/ ReadAgain(r)
    \/ ReadEtag(r) \/ Fetch(r) \/ Insert(r) \/ Extend(r)
    \/ Release(r) \/ NotifyWaiters(r)

Next ==
    \/ \E r \in Requests : Resolve(r) \/ Step(r) \/ Drop(r)
    \/ \E h \in Handles : Invalidate(h) \/ Publish(h)
    \/ Expire

SafetySpec == Init /\ [][Next]_vars

\* The runtime polls every task that can make progress, and a fetch has the
\* timeout of its http client.
Fairness == \A r \in Requests : WF_vars(Step(r))

Spec == SafetySpec /\ Fairness

-----------------------------------------------------------------------------
(* Properties *)

\* The cache holds at most one entry per handle and every local variable of
\* resolve has its type.
TypeOK ==
    /\ cache \in Seq(CacheEntry)
    /\ \A i, j \in DOMAIN cache : cache[i].handle = cache[j].handle => i = j
    /\ inflight \in [Handles -> Requests \cup {Null}]
    /\ published \in [Handles -> Version]
    /\ pc \in [Requests -> {"new", "claim", "subscribe", "waiting", "woken", "etag",
                            "fetch", "insert", "extend", "release", "notify", "done"}]
    /\ ctx \in [Requests -> Context]
    /\ answered \in [Handles -> Version]
    /\ dropped \subseteq Requests

Leading == {"etag", "fetch", "insert", "extend", "release"}

\* One fetch at a time for a handle, whoever asks for it.
SingleFlight ==
    \A r, s \in Requests :
        /\ pc[r] \in Leading
        /\ pc[s] \in Leading
        /\ ctx[r].handle = ctx[s].handle
        => r = s

\* A slot in the in-flight map belongs to a call that will take it out, on
\* every error path of the fetch; only a dropped leader leaves it behind.
SlotOwned ==
    \A h \in Handles :
        inflight[h] # Null =>
            \/ inflight[h] \in dropped
            \/ pc[inflight[h]] \in Leading /\ ctx[inflight[h]].handle = h

\* Records do not go backwards: a call never returns a version older than one
\* that had been returned for the same handle before the call began, whatever
\* expires, is invalidated or is evicted in between.
NeverBackwards ==
    \A r \in Requests :
        pc[r] = "done" /\ ctx[r].result # Null => ctx[r].result >= ctx[r].floor

\* A call that waits for another call's fetch is answered.  It is not, when
\* the leader has notified between the waiter's look into the in-flight map
\* and its notified(): the Notify is out of the map and nothing wakes it again.
WaitersAnswered ==
    \A r \in Requests : pc[r] = "waiting" ~> pc[r] = "done"
=============================================================================
