------------------------- MODULE ResolverChainProofs -------------------------
(***************************************************************************)
(* Proofs about ResolverChain, for every number of calls and handles, and  *)
(* for every capacity of the cache.                                        *)
(***************************************************************************)
EXTENDS ResolverChain, SequenceTheorems, TLAPS

-----------------------------------------------------------------------------
(* Sequences *)

\* Removing one element moves the later ones one place forward.
LEMMA RemoveAtProperties ==
    ASSUME NEW S, NEW s \in Seq(S), NEW i \in 1 .. Len(s)
    PROVE  /\ RemoveAt(s, i) \in Seq(S)
           /\ Len(RemoveAt(s, i)) = Len(s) - 1
           /\ \A j \in 1 .. Len(s) - 1 :
                 RemoveAt(s, i)[j] = IF j < i THEN s[j] ELSE s[j + 1]
<1>. DEFINE p == SubSeq(s, 1, i - 1)
            q == SubSeq(s, i + 1, Len(s))
<1>1. Len(s) \in Nat
  OBVIOUS
<1>2. p \in Seq(S) /\ Len(p) = i - 1 /\ \A j \in 1 .. i - 1 : p[j] = s[j]
  BY <1>1
<1>3. q \in Seq(S) /\ Len(q) = Len(s) - i /\ \A j \in 1 .. Len(s) - i : q[j] = s[i + j]
  BY <1>1
<1>. HIDE DEF p, q
<1>4. RemoveAt(s, i) = p \o q
  BY DEF p, q, RemoveAt
<1>5. /\ p \o q \in Seq(S)
      /\ Len(p \o q) = Len(p) + Len(q)
      /\ \A j \in 1 .. Len(p) + Len(q) :
            (p \o q)[j] = IF j <= Len(p) THEN p[j] ELSE q[j - Len(p)]
  BY <1>2, <1>3, ConcatProperties
<1>. QED
  BY <1>1, <1>2, <1>3, <1>4, <1>5

\* Inserting one element moves the later ones one place back.
LEMMA InsertAtProperties ==
    ASSUME NEW S, NEW s \in Seq(S), NEW e \in S, NEW i \in 1 .. Len(s) + 1
    PROVE  /\ InsertAt(s, i, e) \in Seq(S)
           /\ Len(InsertAt(s, i, e)) = Len(s) + 1
           /\ \A j \in 1 .. Len(s) + 1 :
                 InsertAt(s, i, e)[j] =
                    IF j < i THEN s[j] ELSE IF j = i THEN e ELSE s[j - 1]
<1>. DEFINE o == SubSeq(s, 1, i - 1)
            p == o \o <<e>>
            q == SubSeq(s, i, Len(s))
<1>1. Len(s) \in Nat
  OBVIOUS
<1>2. o \in Seq(S) /\ Len(o) = i - 1 /\ \A j \in 1 .. i - 1 : o[j] = s[j]
  BY <1>1
<1>3. q \in Seq(S) /\ Len(q) = Len(s) - i + 1 /\ \A j \in 1 .. Len(s) - i + 1 : q[j] = s[i + j - 1]
  BY <1>1
<1>4. p \in Seq(S) /\ Len(p) = i /\ \A j \in 1 .. i : p[j] = IF j < i THEN s[j] ELSE e
  <2>. HIDE DEF o
  <2>. QED
    BY <1>1, <1>2
<1>5. InsertAt(s, i, e) = p \o q
  BY DEF InsertAt
<1>. HIDE DEF p, q
<1>6. /\ p \o q \in Seq(S)
      /\ Len(p \o q) = Len(p) + Len(q)
      /\ \A j \in 1 .. Len(p) + Len(q) :
            (p \o q)[j] = IF j <= Len(p) THEN p[j] ELSE q[j - Len(p)]
  BY <1>3, <1>4, ConcatProperties
<1>. QED
  BY <1>1, <1>3, <1>4, <1>5, <1>6

-----------------------------------------------------------------------------
(* The cache *)

\* A cache of at most one entry per handle.
CacheOK(entries) ==
    /\ entries \in Seq(CacheEntry)
    /\ \A i, j \in DOMAIN entries : entries[i].handle = entries[j].handle => i = j

\* The versions that entries hold for h.
VersionsOf(entries, h) ==
    {entries[i].version : i \in {j \in DOMAIN entries : entries[j].handle = h}}

\* An entry keeps its handle and its version in the domain of the types.
LEMMA EntryFields ==
    ASSUME NEW entries, CacheOK(entries), NEW i \in DOMAIN entries
    PROVE  /\ entries[i] \in CacheEntry
           /\ entries[i].handle \in Handles /\ entries[i].version \in Version
<1>1. entries \in Seq(CacheEntry) /\ i \in 1 .. Len(entries)
  BY DEF CacheOK
<1>2. entries[i] \in CacheEntry
  BY <1>1, ElementOfSeq
<1>. QED
  BY <1>2 DEF CacheEntry

\* A handle has one cached version at most.
LEMMA OneVersion ==
    ASSUME NEW entries, CacheOK(entries), NEW h,
           NEW v \in VersionsOf(entries, h), NEW w \in VersionsOf(entries, h)
    PROVE  v = w /\ v \in Version
BY EntryFields DEF CacheOK, VersionsOf

\* invalidate removes the entry of h and nothing else.
LEMMA WithoutProperties ==
    ASSUME CacheOK(cache), NEW h
    PROVE  /\ CacheOK(Without(h))
           /\ VersionsOf(Without(h), h) = {}
           /\ \A i \in DOMAIN Without(h) : Without(h)[i].handle # h
           /\ \A g : VersionsOf(Without(h), g) \subseteq VersionsOf(cache, g)
<1>. DEFINE at == {i \in DOMAIN cache : cache[i].handle = h}
<1>1. CASE at = {}
  <2>1. Without(h) = cache
    BY <1>1 DEF Without
  <2>. QED
    BY <1>1, <2>1 DEF VersionsOf
<1>2. CASE at # {}
  <2>1. PICK i \in at : Without(h) = RemoveAt(cache, i)
    BY <1>2 DEF Without
  <2>. DEFINE rest == Without(h)
  <2>2. i \in 1 .. Len(cache) /\ cache \in Seq(CacheEntry) /\ Len(cache) \in Nat
    BY DEF CacheOK
  <2>3. /\ rest \in Seq(CacheEntry)
        /\ Len(rest) = Len(cache) - 1
        /\ \A j \in 1 .. Len(cache) - 1 :
              rest[j] = IF j < i THEN cache[j] ELSE cache[j + 1]
    BY <2>1, <2>2, RemoveAtProperties
  <2>. HIDE DEF rest
  <2>4. DOMAIN rest = 1 .. Len(cache) - 1 /\ DOMAIN cache = 1 .. Len(cache)
    BY <2>2, <2>3
  <2>5. \A j \in DOMAIN rest :
           \E k \in DOMAIN cache : k # i /\ (IF j < i THEN k = j ELSE k = j + 1) /\ rest[j] = cache[k]
    BY <2>2, <2>3, <2>4
  <2>6. \A j, k \in DOMAIN rest : rest[j].handle = rest[k].handle => j = k
    BY <2>2, <2>3, <2>4 DEF CacheOK
  <2>7. \A j \in DOMAIN rest : rest[j].handle # h
    BY <2>5, <2>4 DEF CacheOK
  <2>8. \A g : VersionsOf(rest, g) \subseteq VersionsOf(cache, g)
    BY <2>5 DEF VersionsOf
  <2>. QED
    BY <2>3, <2>6, <2>7, <2>8 DEF CacheOK, VersionsOf, rest
<1>. QED
  BY <1>1, <1>2

\* Inserting an entry of a handle that has none adds its version alone.
LEMMA InsertedProperties ==
    ASSUME NEW entries, CacheOK(entries), NEW e \in CacheEntry,
           \A j \in DOMAIN entries : entries[j].handle # e.handle,
           NEW i \in 1 .. Len(entries) + 1
    PROVE  /\ CacheOK(InsertAt(entries, i, e))
           /\ VersionsOf(InsertAt(entries, i, e), e.handle) = {e.version}
           /\ \A g : g # e.handle =>
                 VersionsOf(InsertAt(entries, i, e), g) \subseteq VersionsOf(entries, g)
<1>. DEFINE new == InsertAt(entries, i, e)
<1>1. entries \in Seq(CacheEntry) /\ Len(entries) \in Nat /\ DOMAIN entries = 1 .. Len(entries)
  BY DEF CacheOK
<1>2. /\ new \in Seq(CacheEntry)
      /\ Len(new) = Len(entries) + 1
      /\ \A j \in 1 .. Len(entries) + 1 :
            new[j] = IF j < i THEN entries[j] ELSE IF j = i THEN e ELSE entries[j - 1]
  BY <1>1, InsertAtProperties
<1>. HIDE DEF new
<1>3. DOMAIN new = 1 .. Len(entries) + 1
  BY <1>1, <1>2
<1>4. new[i] = e /\ i \in DOMAIN new
  BY <1>1, <1>2, <1>3
<1>5. ASSUME NEW j \in DOMAIN new, j # i
      PROVE  \E k \in DOMAIN entries : k = (IF j < i THEN j ELSE j - 1) /\ new[j] = entries[k]
  BY <1>1, <1>2, <1>3, <1>5
<1>6. ASSUME NEW j \in DOMAIN new, NEW k \in DOMAIN new, new[j].handle = new[k].handle
      PROVE  j = k
  <2>1. CASE j = i \/ k = i
    BY <1>4, <1>5, <1>6, <2>1
  <2>2. CASE j # i /\ k # i
    BY <1>1, <1>3, <1>5, <1>6, <2>2 DEF CacheOK
  <2>. QED
    BY <2>1, <2>2
<1>7. \A j \in DOMAIN new : j # i => new[j].handle # e.handle
  BY <1>5
<1>8. VersionsOf(new, e.handle) = {e.version}
  BY <1>4, <1>7 DEF VersionsOf
<1>9. \A g : g # e.handle => VersionsOf(new, g) \subseteq VersionsOf(entries, g)
  BY <1>4, <1>5 DEF VersionsOf
<1>. QED
  BY <1>2, <1>6, <1>8, <1>9 DEF CacheOK, new

\* Eviction drops entries and changes none.
LEMMA EvictedProperties ==
    ASSUME NEW entries, CacheOK(entries)
    PROVE  /\ CacheOK(Evicted(entries))
           /\ \A g : VersionsOf(Evicted(entries), g) \subseteq VersionsOf(entries, g)
<1>. DEFINE m == IF Len(entries) > Capacity THEN Len(entries) - Capacity + 1 ELSE 1
            new == Evicted(entries)
<1>1. /\ entries \in Seq(CacheEntry) /\ Len(entries) \in Nat /\ DOMAIN entries = 1 .. Len(entries)
      /\ Capacity \in Nat /\ m \in 1 .. Len(entries) + 1
  BY CapacityAssumption DEF CacheOK
<1>2. new = SubSeq(entries, m, Len(entries))
  BY DEF Evicted
<1>. HIDE DEF m, new
<1>3. /\ new \in Seq(CacheEntry) /\ Len(new) = Len(entries) - m + 1
      /\ \A j \in 1 .. Len(entries) - m + 1 : new[j] = entries[m + j - 1]
  BY <1>1, <1>2
<1>4. DOMAIN new = 1 .. Len(entries) - m + 1
  BY <1>1, <1>3
<1>5. \A j \in DOMAIN new : m + j - 1 \in DOMAIN entries /\ new[j] = entries[m + j - 1]
  <2>. SUFFICES ASSUME NEW j \in 1 .. Len(entries) - m + 1
                PROVE  m + j - 1 \in DOMAIN entries /\ new[j] = entries[m + j - 1]
    BY <1>4
  <2>1. m + j - 1 \in 1 .. Len(entries)
    BY <1>1
  <2>. QED
    BY <1>1, <1>3, <2>1
<1>6. ASSUME NEW j \in DOMAIN new, NEW k \in DOMAIN new, new[j].handle = new[k].handle
      PROVE  j = k
  <2>1. m + j - 1 \in DOMAIN entries /\ m + k - 1 \in DOMAIN entries
    BY <1>5
  <2>2. entries[m + j - 1].handle = entries[m + k - 1].handle
    BY <1>5, <1>6
  <2>3. m + j - 1 = m + k - 1
    BY <2>1, <2>2 DEF CacheOK
  <2>4. j \in Int /\ k \in Int /\ m \in Int
    BY <1>1, <1>4
  <2>. QED
    BY <2>3, <2>4
<1>7. \A g : VersionsOf(new, g) \subseteq VersionsOf(entries, g)
  BY <1>5 DEF VersionsOf
<1>. QED
  BY <1>3, <1>6, <1>7 DEF CacheOK, new

\* cache_extend's entry becomes the newest.
LEMMA AppendedProperties ==
    ASSUME NEW entries, CacheOK(entries), NEW e \in CacheEntry,
           \A j \in DOMAIN entries : entries[j].handle # e.handle
    PROVE  /\ CacheOK(Append(entries, e))
           /\ VersionsOf(Append(entries, e), e.handle) = {e.version}
           /\ \A g : g # e.handle =>
                 VersionsOf(Append(entries, e), g) \subseteq VersionsOf(entries, g)
<1>. DEFINE new == Append(entries, e)
            n == Len(entries)
<1>1. entries \in Seq(CacheEntry) /\ n \in Nat /\ DOMAIN entries = 1 .. n
  BY DEF CacheOK
<1>2. /\ new \in Seq(CacheEntry) /\ Len(new) = n + 1 /\ new[n + 1] = e
      /\ \A j \in 1 .. n : new[j] = entries[j]
  BY <1>1, AppendProperties
<1>. HIDE DEF new, n
<1>3. DOMAIN new = 1 .. n + 1
  BY <1>1, <1>2
<1>4. \A j \in DOMAIN new : j = n + 1 \/ (j \in DOMAIN entries /\ new[j] = entries[j])
  BY <1>1, <1>2, <1>3
<1>5. n + 1 \in DOMAIN new
  BY <1>1, <1>3
<1>6. \A j, k \in DOMAIN new : new[j].handle = new[k].handle => j = k
  BY <1>2, <1>4 DEF CacheOK
<1>7. VersionsOf(new, e.handle) = {e.version}
  BY <1>2, <1>4, <1>5 DEF VersionsOf
<1>8. \A g : g # e.handle => VersionsOf(new, g) \subseteq VersionsOf(entries, g)
  BY <1>2, <1>4 DEF VersionsOf
<1>. QED
  BY <1>2, <1>6, <1>7, <1>8 DEF CacheOK, new

\* An entry that reaches its TTL keeps its handle and its version.
LEMMA ExpiredProperties ==
    ASSUME CacheOK(cache), NEW i \in DOMAIN cache,
           cache' = [cache EXCEPT ![i].fresh = FALSE]
    PROVE  CacheOK(cache') /\ \A g : VersionsOf(cache', g) = VersionsOf(cache, g)
<1>1. cache \in Seq(CacheEntry) /\ cache[i] \in CacheEntry
  BY EntryFields DEF CacheOK
<1>. DEFINE e == [cache[i] EXCEPT !.fresh = FALSE]
<1>2. e \in CacheEntry /\ e.handle = cache[i].handle /\ e.version = cache[i].version
  BY <1>1 DEF CacheEntry
<1>3. cache' = [cache EXCEPT ![i] = e]
  OBVIOUS
<1>. HIDE DEF e
<1>4. cache' \in Seq(CacheEntry) /\ DOMAIN cache' = DOMAIN cache
  <2>1. i \in 1 .. Len(cache)
    BY <1>1
  <2>2. [cache EXCEPT ![i] = e] \in Seq(CacheEntry)
    BY <1>1, <1>2, <2>1, ExceptSeq, Zenon
  <2>3. DOMAIN [cache EXCEPT ![i] = e] = DOMAIN cache
    OBVIOUS
  <2>. QED
    BY <1>3, <2>2, <2>3
<1>5. \A j \in DOMAIN cache :
         cache'[j].handle = cache[j].handle /\ cache'[j].version = cache[j].version
  BY <1>2, <1>3, <1>4
<1>6. CacheOK(cache')
  BY <1>4, <1>5 DEF CacheOK
<1>7. \A g : VersionsOf(cache', g) = VersionsOf(cache, g)
  BY <1>4, <1>5 DEF VersionsOf
<1>. QED
  BY <1>6, <1>7

-----------------------------------------------------------------------------
(* The inductive invariant *)

\* The locations at which a call has no record yet.
Early == {"new", "claim", "subscribe", "waiting", "woken", "etag", "fetch", "extend"}

LocalsOK(r) ==
    /\ pc[r] # "new" => ctx[r].handle \in Handles
    /\ pc[r] \in Early => ctx[r].result = Null
    /\ pc[r] = "insert" => ctx[r].result \in Version

Typed ==
    /\ TypeOK
    /\ \A r \in Requests : LocalsOK(r)

\* A leader holds the slot of its handle.
LeadersHoldSlots ==
    \A r \in Requests : pc[r] \in Leading => inflight[ctx[r].handle] = r

\* What has been returned for a handle is no newer than what is cached for
\* it, and what is cached no newer than what is published.
Ordered(h) ==
    /\ answered[h] <= published[h]
    /\ \A v \in Cached(h) : answered[h] <= v /\ v <= published[h]

\* The leader has stored its record and has not returned it yet.
Pending(r) == pc[r] \in {"release", "notify"} /\ ctx[r].result # Null

\* A record about to be returned is no newer than the cached one; a record
\* about to be stored is no older than the cached one and than any returned.
CallOK(r) ==
    LET h == ctx[r].handle IN
    /\ pc[r] # "new" => ctx[r].floor <= answered[h]
    /\ ctx[r].result # Null => ctx[r].floor <= ctx[r].result
    /\ Pending(r) => /\ ctx[r].result <= published[h]
                     /\ \A v \in Cached(h) : ctx[r].result <= v
    /\ pc[r] = "insert" => /\ answered[h] <= ctx[r].result
                           /\ ctx[r].result <= published[h]
                           /\ \A v \in Cached(h) : v <= ctx[r].result

\* A record about to be stored is no older than one about to be returned.
StoredInOrder ==
    \A r, s \in Requests :
        pc[r] = "insert" /\ Pending(s) /\ ctx[s].handle = ctx[r].handle =>
            ctx[s].result <= ctx[r].result

IInv ==
    /\ Typed
    /\ LeadersHoldSlots
    /\ SlotOwned
    /\ \A h \in Handles : Ordered(h)
    /\ \A r \in Requests : CallOK(r)
    /\ StoredInOrder

-----------------------------------------------------------------------------
(* Types *)

\* The local variables of a call have their types.
LEMMA CallTypes ==
    ASSUME Typed, NEW r \in Requests
    PROVE  /\ ctx[r] \in Context
           /\ ctx[r].handle \in Handles \cup {Null}
           /\ ctx[r].floor \in Version /\ ctx[r].floor \in Nat
           /\ ctx[r].result \in Version \cup {Null}
           /\ ctx[r].result # Null => ctx[r].result \in Version /\ ctx[r].result \in Nat
           /\ ctx[r].younger \in SUBSET Handles
           /\ LocalsOK(r)
BY DEF Typed, TypeOK, Context, Version

\* The versions known for a handle are numbers, and one of them is cached.
LEMMA HandleTypes ==
    ASSUME Typed, NEW h \in Handles
    PROVE  /\ answered[h] \in Version /\ answered[h] \in Nat
           /\ published[h] \in Version /\ published[h] \in Nat
           /\ CacheOK(cache)
           /\ Cached(h) = VersionsOf(cache, h)
           /\ \A v, w \in Cached(h) : v = w /\ v \in Version /\ v \in Nat
<1>1. CacheOK(cache)
  BY DEF Typed, TypeOK, CacheOK
<1>2. Cached(h) = VersionsOf(cache, h)
  BY DEF Cached, VersionsOf
<1>3. \A v, w \in Cached(h) : v = w /\ v \in Version
  BY <1>1, <1>2, OneVersion
<1>. QED
  BY <1>1, <1>2, <1>3 DEF Typed, TypeOK, Version

-----------------------------------------------------------------------------
(* What a step leaves to the calls it does not belong to *)

\* A step of another call changes nothing of s that the invariant reads,
\* except that it may wake it.
Kept(s) ==
    /\ pc'[s] = pc[s] \/ (pc[s] = "waiting" /\ pc'[s] = "woken")
    /\ ctx'[s].handle = ctx[s].handle
    /\ ctx'[s].floor = ctx[s].floor
    /\ ctx'[s].result = ctx[s].result

Others(r) == \A s \in Requests \ {r} : Kept(s)

\* A call that is not touched stays well typed.
LEMMA OtherLocals ==
    ASSUME NEW s \in Requests, LocalsOK(s), Kept(s)
    PROVE  LocalsOK(s)'
BY DEF LocalsOK, Kept, Early

\* Steps that leave the in-flight map alone: the call leads before and after,
\* or neither, or it is dropped.
LEMMA SlotsKept ==
    ASSUME IInv, NEW r \in Requests, Others(r), inflight' = inflight,
           dropped \subseteq dropped',
           \/ pc[r] \in Leading /\ pc'[r] \in Leading /\ ctx'[r].handle = ctx[r].handle
           \/ pc[r] \notin Leading /\ pc'[r] \notin Leading
           \/ r \in dropped' /\ pc'[r] \notin Leading
    PROVE  LeadersHoldSlots' /\ SlotOwned'
<1>1. \A s \in Requests \ {r} :
         /\ pc'[s] \in Leading <=> pc[s] \in Leading
         /\ ctx'[s].handle = ctx[s].handle
  BY DEF Others, Kept, Leading
<1>2. LeadersHoldSlots'
  BY <1>1 DEF IInv, LeadersHoldSlots
<1>3. ASSUME NEW h \in Handles, inflight'[h] # Null
      PROVE  \/ inflight'[h] \in dropped'
             \/ pc'[inflight'[h]] \in Leading /\ ctx'[inflight'[h]].handle = h
  <2>1. inflight[h] \in Requests
    BY <1>3 DEF IInv, Typed, TypeOK
  <2>2. \/ inflight[h] \in dropped
        \/ pc[inflight[h]] \in Leading /\ ctx[inflight[h]].handle = h
    BY <1>3 DEF IInv, SlotOwned
  <2>. QED
    BY <1>1, <2>1, <2>2
<1>. QED
  BY <1>2, <1>3 DEF SlotOwned

\* A call that is not touched keeps its place between what was returned, what
\* is cached and what is published.
LEMMA OtherCall ==
    ASSUME IInv, NEW s \in Requests, Kept(s),
           answered' \in [Handles -> Version], published' \in [Handles -> Version],
           \A h \in Handles : answered[h] <= answered'[h] /\ published[h] <= published'[h],
           pc[s] = "insert" =>
               /\ answered'[ctx[s].handle] <= ctx[s].result
               /\ \A v \in VersionsOf(cache', ctx[s].handle) : v <= ctx[s].result,
           Pending(s) =>
               \A v \in VersionsOf(cache', ctx[s].handle) : ctx[s].result <= v
    PROVE  CallOK(s)'
<1>. DEFINE h == ctx[s].handle
<1>1. CallOK(s) /\ LocalsOK(s) /\ Typed
  BY DEF IInv, Typed
<1>2. /\ ctx[s].floor \in Nat
      /\ ctx[s].result # Null => ctx[s].result \in Nat
      /\ pc[s] # "new" => h \in Handles
      /\ pc[s] = "insert" => ctx[s].result \in Nat
  BY <1>1, CallTypes DEF LocalsOK, Version
<1>3. pc[s] # "new" => /\ answered[h] \in Nat /\ published[h] \in Nat
                       /\ answered'[h] \in Nat /\ published'[h] \in Nat
                       /\ answered[h] <= answered'[h] /\ published[h] <= published'[h]
  BY <1>1, <1>2, HandleTypes DEF Version
<1>4. Cached(h)' = VersionsOf(cache', h')
  BY DEF Cached, VersionsOf
<1>5. /\ h' = h /\ ctx'[s].floor = ctx[s].floor /\ ctx'[s].result = ctx[s].result
      /\ pc'[s] # "new" => pc[s] # "new"
      /\ Pending(s)' => Pending(s)
      /\ pc'[s] = "insert" => pc[s] = "insert"
  BY DEF Kept, Pending
<1>6. (pc[s] # "new" => ctx[s].floor <= answered[h])'
  BY <1>1, <1>2, <1>3, <1>5 DEF CallOK
<1>7. (ctx[s].result # Null => ctx[s].floor <= ctx[s].result)'
  BY <1>1, <1>5 DEF CallOK
<1>8. (Pending(s) => /\ ctx[s].result <= published[h]
                     /\ \A v \in Cached(h) : ctx[s].result <= v)'
  <2>. SUFFICES ASSUME Pending(s)'
                PROVE  /\ ctx[s].result <= published'[h]
                       /\ \A v \in VersionsOf(cache', h) : ctx[s].result <= v
    BY <1>4, <1>5
  <2>1. Pending(s) /\ pc[s] # "new" /\ ctx[s].result # Null
    BY <1>5 DEF Pending
  <2>. QED
    BY <1>1, <1>2, <1>3, <2>1 DEF CallOK
<1>9. (pc[s] = "insert" => /\ answered[h] <= ctx[s].result
                           /\ ctx[s].result <= published[h]
                           /\ \A v \in Cached(h) : v <= ctx[s].result)'
  <2>. SUFFICES ASSUME pc[s] = "insert"
                PROVE  /\ answered'[h] <= ctx[s].result
                       /\ ctx[s].result <= published'[h]
                       /\ \A v \in VersionsOf(cache', h) : v <= ctx[s].result
    BY <1>4, <1>5
  <2>. QED
    BY <1>1, <1>2, <1>3 DEF CallOK
<1>. QED
  BY <1>6, <1>7, <1>8, <1>9 DEF CallOK

\* A handle's versions stay ordered when its cache only loses entries.
LEMMA OrderedKept ==
    ASSUME IInv, NEW h \in Handles, answered'[h] = answered[h],
           published'[h] \in Nat, published[h] <= published'[h],
           VersionsOf(cache', h) \subseteq VersionsOf(cache, h)
    PROVE  Ordered(h)'
<1>1. Ordered(h) /\ Typed
  BY DEF IInv
<1>2. Cached(h)' = VersionsOf(cache', h)
  BY DEF Cached, VersionsOf
<1>. QED
  BY <1>1, <1>2, HandleTypes DEF Ordered

\* A step keeps the order of storing if the call neither comes to hold a
\* record nor stores one.
LEMMA StoredInOrderKept ==
    ASSUME IInv, NEW r \in Requests, Others(r), pc'[r] # "insert",
           Pending(r)' => /\ Pending(r)
                          /\ ctx'[r].result = ctx[r].result
                          /\ ctx'[r].handle = ctx[r].handle
    PROVE  StoredInOrder'
<1>1. ASSUME NEW q \in Requests, NEW s \in Requests, pc'[q] = "insert", Pending(s)',
             ctx'[s].handle = ctx'[q].handle
      PROVE  ctx'[s].result <= ctx'[q].result
  <2>1. q # r /\ pc[q] = "insert"
    BY <1>1 DEF Others, Kept
  <2>2. ctx'[q].handle = ctx[q].handle /\ ctx'[q].result = ctx[q].result
    BY <2>1 DEF Others, Kept
  <2>3. /\ Pending(s)
        /\ ctx'[s].handle = ctx[s].handle /\ ctx'[s].result = ctx[s].result
    BY <1>1 DEF Others, Kept, Pending
  <2>. QED
    BY <1>1, <2>1, <2>2, <2>3 DEF IInv, StoredInOrder
<1>. QED
  BY <1>1 DEF StoredInOrder

\* Steps that return nothing and store nothing.
LEMMA VersionsQuiet ==
    ASSUME IInv, NEW r \in Requests, Others(r),
           answered' = answered, published' = published,
           \A g \in Handles : VersionsOf(cache', g) \subseteq VersionsOf(cache, g),
           CallOK(r)', pc'[r] # "insert",
           Pending(r)' => /\ Pending(r)
                          /\ ctx'[r].result = ctx[r].result
                          /\ ctx'[r].handle = ctx[r].handle
    PROVE  /\ \A h \in Handles : Ordered(h)'
           /\ \A s \in Requests : CallOK(s)'
           /\ StoredInOrder'
<1>1. Typed
  BY DEF IInv
<1>2. \A h \in Handles : Ordered(h)'
  BY <1>1, OrderedKept, HandleTypes
<1>3. ASSUME NEW s \in Requests, s # r PROVE CallOK(s)'
  <2>1. Kept(s) /\ CallOK(s) /\ LocalsOK(s)
    BY <1>3 DEF Others, IInv, Typed
  <2>2. pc[s] # "new" => ctx[s].handle \in Handles /\ Cached(ctx[s].handle) = VersionsOf(cache, ctx[s].handle)
    BY <1>1, <2>1, HandleTypes DEF LocalsOK
  <2>3. /\ answered' \in [Handles -> Version] /\ published' \in [Handles -> Version]
        /\ \A h \in Handles : answered[h] <= answered'[h] /\ published[h] <= published'[h]
    BY <1>1, HandleTypes DEF Typed, TypeOK
  <2>4. pc[s] = "insert" =>
               /\ answered'[ctx[s].handle] <= ctx[s].result
               /\ \A v \in VersionsOf(cache', ctx[s].handle) : v <= ctx[s].result
    BY <2>1, <2>2 DEF CallOK
  <2>5. Pending(s) => \A v \in VersionsOf(cache', ctx[s].handle) : ctx[s].result <= v
    BY <2>1, <2>2 DEF CallOK, Pending
  <2>. QED
    BY <2>1, <2>3, <2>4, <2>5, OtherCall
<1>. QED
  BY <1>2, <1>3, StoredInOrderKept

\* The location of r changes, and its local variables to c.
Moves(r, from, to, c) ==
    /\ pc[r] = from
    /\ pc' = [pc EXCEPT ![r] = to]
    /\ ctx' = [ctx EXCEPT ![r] = c]

\* What a move of r leaves typed, and leaves alone.
LEMMA MovesTyped ==
    ASSUME Typed, NEW r \in Requests, NEW from, NEW c \in Context,
           NEW to \in {"claim", "subscribe", "waiting", "woken", "etag",
                       "fetch", "insert", "extend", "release", "notify", "done"},
           Moves(r, from, to, c),
           c.handle \in Handles,
           to \in Early => c.result = Null,
           to = "insert" => c.result \in Version,
           cache' \in Seq(CacheEntry),
           \A i, j \in DOMAIN cache' : cache'[i].handle = cache'[j].handle => i = j,
           inflight' \in [Handles -> Requests \cup {Null}],
           published' \in [Handles -> Version],
           answered' \in [Handles -> Version],
           dropped' \subseteq Requests
    PROVE  /\ Typed' /\ Others(r) /\ pc'[r] = to /\ ctx'[r] = c
<1>1. pc'[r] = to /\ ctx'[r] = c
  BY DEF Typed, TypeOK, Moves
<1>2. Others(r)
  BY DEF Typed, TypeOK, Moves, Others, Kept
<1>3. LocalsOK(r)'
  BY <1>1 DEF LocalsOK
<1>4. \A s \in Requests : LocalsOK(s)'
  BY <1>2, <1>3, OtherLocals DEF Typed, Others
<1>5. TypeOK'
  BY DEF Typed, TypeOK, Moves
<1>. QED
  BY <1>1, <1>2, <1>4, <1>5 DEF Typed

\* The same for a move that changes no shared state but the history.
LEMMA QuietMove ==
    ASSUME Typed, NEW r \in Requests, NEW from, NEW c \in Context,
           NEW to \in {"claim", "subscribe", "waiting", "woken", "etag",
                       "fetch", "insert", "extend", "release", "notify", "done"},
           Moves(r, from, to, c),
           c.handle \in Handles,
           to \in Early => c.result = Null,
           to = "insert" => c.result \in Version,
           UNCHANGED <<cache, published>>,
           inflight' \in [Handles -> Requests \cup {Null}],
           answered' \in [Handles -> Version],
           dropped' \subseteq Requests
    PROVE  /\ Typed' /\ Others(r) /\ pc'[r] = to /\ ctx'[r] = c
           /\ \A g : VersionsOf(cache', g) = VersionsOf(cache, g)
<1>1. /\ cache' \in Seq(CacheEntry) /\ published' \in [Handles -> Version]
      /\ \A i, j \in DOMAIN cache' : cache'[i].handle = cache'[j].handle => i = j
  BY DEF Typed, TypeOK
<1>. QED
  BY <1>1, MovesTyped

\* A move that changes no shared state keeps the invariant if the call keeps
\* its record, or has none.
LEMMA PrivateMove ==
    ASSUME IInv, NEW r \in Requests, NEW from, NEW c \in Context,
           NEW to \in {"claim", "subscribe", "waiting", "woken", "etag",
                       "fetch", "extend", "release", "done"},
           Moves(r, from, to, c),
           from # "new" => c.handle = ctx[r].handle /\ c.floor = ctx[r].floor,
           from = "new" => c.handle \in Handles /\ c.floor = answered[c.handle],
           c.result = Null,
           UNCHANGED <<cache, published, inflight, answered>>,
           dropped \subseteq dropped', dropped' \subseteq Requests,
           \/ from \in Leading /\ to \in Leading
           \/ from \notin Leading /\ to \notin Leading
           \/ r \in dropped' /\ to \notin Leading
    PROVE  IInv'
<1>1. Typed /\ pc[r] = from
  BY DEF IInv, Moves
<1>2. c.handle \in Handles
  BY <1>1, CallTypes DEF LocalsOK
<1>3. /\ Typed' /\ Others(r) /\ pc'[r] = to /\ ctx'[r] = c
      /\ \A g : VersionsOf(cache', g) = VersionsOf(cache, g)
  BY <1>1, <1>2, QuietMove DEF Typed, TypeOK
<1>4. LeadersHoldSlots' /\ SlotOwned'
  BY <1>1, <1>3, SlotsKept DEF Leading
<1>5. c.floor <= answered[c.handle]
  BY <1>1, <1>2, CallTypes, HandleTypes DEF IInv, CallOK
<1>6. CallOK(r)'
  BY <1>3, <1>5 DEF CallOK, Pending
<1>. QED
  BY <1>3, <1>4, <1>6, VersionsQuiet DEF IInv, Pending

-----------------------------------------------------------------------------
(* One step of one call *)

\* A call returns the cached version, from the fast path or once woken.
LEMMA AnswerSafe ==
    ASSUME IInv, NEW r \in Requests, NEW from \in {"new", "woken"}, NEW c \in Context,
           Moves(r, from, "done", c), NEW h \in Handles, NEW v \in Cached(h),
           c.handle = h, c.result = v, c.floor <= answered[h],
           answered' = [answered EXCEPT ![h] = IF v > answered[h] THEN v ELSE answered[h]],
           UNCHANGED <<cache, inflight, published, dropped>>
    PROVE  IInv'
<1>1. Typed /\ pc[r] = from
  BY DEF IInv, Moves
<1>2. /\ v \in Version /\ v \in Nat /\ \A w \in Cached(h) : w = v
      /\ answered[h] <= v /\ v <= published[h] /\ c.floor \in Nat
      /\ answered[h] \in Nat /\ published[h] \in Nat
  BY <1>1, HandleTypes DEF IInv, Ordered, Context, Version
<1>3. /\ answered' \in [Handles -> Version] /\ answered'[h] = v
      /\ \A g \in Handles : g # h => answered'[g] = answered[g]
  BY <1>1, <1>2 DEF Typed, TypeOK
<1>4. /\ Typed' /\ Others(r) /\ pc'[r] = "done" /\ ctx'[r] = c
      /\ \A g : VersionsOf(cache', g) = VersionsOf(cache, g)
  BY <1>1, <1>3, QuietMove DEF Typed, TypeOK, Early
<1>5. LeadersHoldSlots' /\ SlotOwned'
  BY <1>1, <1>4, SlotsKept DEF Leading
<1>6. ASSUME NEW g \in Handles PROVE Ordered(g)'
  <2>1. CASE g = h
    BY <1>2, <1>3, <2>1 DEF Ordered, Cached
  <2>2. CASE g # h
    BY <1>1, <1>3, <1>4, <2>2, OrderedKept, HandleTypes
  <2>. QED
    BY <2>1, <2>2
<1>7. ASSUME NEW s \in Requests, s # r PROVE CallOK(s)'
  <2>1. Kept(s) /\ CallOK(s) /\ LocalsOK(s)
    BY <1>4, <1>7 DEF Others, IInv, Typed
  <2>2. pc[s] # "new" => /\ ctx[s].handle \in Handles
                         /\ Cached(ctx[s].handle) = VersionsOf(cache, ctx[s].handle)
    BY <1>1, <2>1, HandleTypes DEF LocalsOK
  <2>3. /\ published' \in [Handles -> Version]
        /\ \A g \in Handles : answered[g] <= answered'[g] /\ published[g] <= published'[g]
    BY <1>1, <1>2, <1>3, HandleTypes DEF Typed, TypeOK
  <2>4. pc[s] = "insert" =>
               /\ answered'[ctx[s].handle] <= ctx[s].result
               /\ \A w \in VersionsOf(cache', ctx[s].handle) : w <= ctx[s].result
    BY <1>3, <1>4, <2>1, <2>2 DEF CallOK
  <2>5. Pending(s) => \A w \in VersionsOf(cache', ctx[s].handle) : ctx[s].result <= w
    BY <1>4, <2>1, <2>2 DEF CallOK, Pending
  <2>. QED
    BY <1>3, <2>1, <2>3, <2>4, <2>5, OtherCall
<1>8. CallOK(r)'
  BY <1>2, <1>3, <1>4 DEF CallOK, Pending
<1>9. StoredInOrder'
  BY <1>4, StoredInOrderKept DEF Pending
<1>. QED
  BY <1>4, <1>5, <1>6, <1>7, <1>8, <1>9 DEF IInv

\* resolve's look at the cache
LEMMA ResolveSafe ==
    ASSUME IInv, NEW r \in Requests, Resolve(r)
    PROVE  IInv'
<1>1. /\ pc[r] = "new" /\ Typed /\ ctx[r] \in Context /\ ctx[r].result = Null
      /\ UNCHANGED <<cache, inflight, published, dropped>>
  BY CallTypes DEF IInv, Resolve, LocalsOK, Early
<1>2. PICK h \in Handles :
        \/ /\ CachedFresh(h) = {}
           /\ pc' = [pc EXCEPT ![r] = "claim"]
           /\ ctx' = [ctx EXCEPT ![r].handle = h, ![r].floor = answered[h]]
           /\ UNCHANGED answered
        \/ \E v \in CachedFresh(h) :
              /\ ctx' = [ctx EXCEPT ![r].handle = h, ![r].floor = answered[h],
                                    ![r].result = v]
              /\ Answer(r, v)
  BY DEF Resolve
<1>3. answered[h] \in Version /\ answered[h] \in Nat
  BY <1>1, HandleTypes
<1>4. CASE /\ pc' = [pc EXCEPT ![r] = "claim"]
           /\ ctx' = [ctx EXCEPT ![r].handle = h, ![r].floor = answered[h]]
           /\ UNCHANGED answered
  <2>. DEFINE c == [ctx[r] EXCEPT !.handle = h, !.floor = answered[h]]
  <2>1. c \in Context /\ c.handle = h /\ c.floor = answered[h] /\ c.result = Null
    BY <1>1, <1>3 DEF Context
  <2>2. Moves(r, "new", "claim", c)
    BY <1>1, <1>4 DEF Moves, Typed, TypeOK
  <2>. HIDE DEF c
  <2>. QED
    BY <1>1, <1>4, <2>1, <2>2, PrivateMove DEF Leading, Typed, TypeOK
<1>5. ASSUME NEW v \in CachedFresh(h),
             ctx' = [ctx EXCEPT ![r].handle = h, ![r].floor = answered[h], ![r].result = v],
             Answer(r, v)
      PROVE  IInv'
  <2>. DEFINE c == [ctx[r] EXCEPT !.handle = h, !.floor = answered[h], !.result = v]
  <2>1. v \in Cached(h) /\ v \in Version
    BY <1>1, HandleTypes DEF Cached, CachedFresh
  <2>2. c \in Context /\ c.handle = h /\ c.floor = answered[h] /\ c.result = v
    BY <1>1, <1>3, <2>1 DEF Context
  <2>3. Moves(r, "new", "done", c) /\ ctx'[r] = c
    BY <1>1, <1>5 DEF Moves, Answer, Typed, TypeOK
  <2>. HIDE DEF c
  <2>4. answered' = [answered EXCEPT ![h] = IF v > answered[h] THEN v ELSE answered[h]]
    BY <1>5, <2>2, <2>3 DEF Answer
  <2>5. c.floor <= answered[h]
    BY <1>3, <2>2
  <2>. QED
    BY <1>1, <2>1, <2>2, <2>3, <2>4, <2>5, AnswerSafe
<1>. QED
  BY <1>2, <1>4, <1>5

\* The in-flight map: the caller leads, or waits.
LEMMA ClaimSafe ==
    ASSUME IInv, NEW r \in Requests, Claim(r)
    PROVE  IInv'
<1>. DEFINE h == ctx[r].handle
<1>1. /\ pc[r] = "claim" /\ Typed /\ ctx[r] \in Context /\ ctx[r].result = Null
      /\ h \in Handles /\ UNCHANGED <<cache, published, answered, dropped>>
  BY CallTypes DEF IInv, Claim, LocalsOK, Early
<1>2. CASE /\ inflight[h] = Null
           /\ pc' = [pc EXCEPT ![r] = "etag"]
           /\ inflight' = [inflight EXCEPT ![h] = r]
           /\ UNCHANGED ctx
  <2>1. Moves(r, "claim", "etag", ctx[r])
    BY <1>1, <1>2 DEF Moves, Typed, TypeOK
  <2>2. /\ inflight' \in [Handles -> Requests \cup {Null}] /\ inflight'[h] = r
        /\ \A g \in Handles : g # h => inflight'[g] = inflight[g]
    BY <1>1, <1>2 DEF Typed, TypeOK
  <2>3. /\ Typed' /\ Others(r) /\ pc'[r] = "etag" /\ ctx'[r] = ctx[r]
        /\ \A g : VersionsOf(cache', g) = VersionsOf(cache, g)
    BY <1>1, <2>1, <2>2, QuietMove DEF Typed, TypeOK
  <2>4. \A s \in Requests \ {r} :
           /\ pc'[s] \in Leading <=> pc[s] \in Leading
           /\ ctx'[s].handle = ctx[s].handle
           /\ pc[s] \in Leading => ctx[s].handle \in Handles /\ ctx[s].handle # h
    BY <1>1, <1>2, <2>3, NullAssumption, CallTypes
       DEF Others, Kept, Leading, IInv, LeadersHoldSlots, LocalsOK
  <2>5. LeadersHoldSlots'
    BY <2>2, <2>3, <2>4 DEF IInv, LeadersHoldSlots
  <2>6. ASSUME NEW g \in Handles, inflight'[g] # Null
        PROVE  \/ inflight'[g] \in dropped'
               \/ pc'[inflight'[g]] \in Leading /\ ctx'[inflight'[g]].handle = g
    <3>1. CASE g = h
      BY <2>2, <2>3, <3>1 DEF Leading
    <3>2. CASE g # h
      <4>1. inflight'[g] = inflight[g] /\ inflight[g] \in Requests
        BY <1>1, <2>2, <2>6, <3>2 DEF Typed, TypeOK
      <4>2. \/ inflight[g] \in dropped
            \/ pc[inflight[g]] \in Leading /\ ctx[inflight[g]].handle = g
        BY <2>6, <4>1 DEF IInv, SlotOwned
      <4>3. pc[r] \notin Leading
        BY <1>1 DEF Leading
      <4>. QED
        BY <1>1, <2>4, <4>1, <4>2, <4>3
    <3>. QED
      BY <3>1, <3>2
  <2>7. CallOK(r)'
    BY <1>1, <2>3 DEF IInv, CallOK, Pending
  <2>. QED
    BY <1>1, <2>3, <2>5, <2>6, <2>7, VersionsQuiet DEF IInv, Pending, SlotOwned
<1>3. CASE /\ inflight[h] # Null
           /\ pc' = [pc EXCEPT ![r] = "subscribe"]
           /\ ctx' = [ctx EXCEPT ![r].notify = inflight[h]]
           /\ UNCHANGED inflight
  <2>. DEFINE c == [ctx[r] EXCEPT !.notify = inflight[h]]
  <2>1. inflight[h] \in Requests
    BY <1>1, <1>3 DEF Typed, TypeOK
  <2>2. /\ c \in Context /\ c.handle = h /\ c.floor = ctx[r].floor /\ c.result = Null
    BY <1>1, <2>1 DEF Context
  <2>3. Moves(r, "claim", "subscribe", c)
    BY <1>1, <1>3 DEF Moves, Typed, TypeOK
  <2>. HIDE DEF c
  <2>. QED
    BY <1>1, <1>3, <2>2, <2>3, PrivateMove DEF Leading, Typed, TypeOK
<1>. QED
  BY <1>2, <1>3 DEF Claim

\* notified()
LEMMA SubscribeSafe ==
    ASSUME IInv, NEW r \in Requests, Subscribe(r)
    PROVE  IInv'
<1>1. /\ pc[r] = "subscribe" /\ Typed /\ ctx[r] \in Context /\ ctx[r].result = Null
      /\ UNCHANGED <<cache, inflight, published, ctx, answered, dropped>>
  BY CallTypes DEF IInv, Subscribe, Goto, LocalsOK, Early
<1>2. Moves(r, "subscribe", "waiting", ctx[r])
  BY <1>1 DEF Subscribe, Goto, Moves, Typed, TypeOK
<1>. QED
  BY <1>1, <1>2, PrivateMove DEF Leading, Typed, TypeOK

\* The second look at the cache
LEMMA ReadAgainSafe ==
    ASSUME IInv, NEW r \in Requests, ReadAgain(r)
    PROVE  IInv'
<1>. DEFINE h == ctx[r].handle
<1>1. /\ pc[r] = "woken" /\ Typed /\ ctx[r] \in Context /\ ctx[r].result = Null
      /\ h \in Handles /\ UNCHANGED <<cache, inflight, published, dropped>>
      /\ ctx[r].floor <= answered[h]
  BY CallTypes DEF IInv, ReadAgain, LocalsOK, Early, CallOK
<1>2. ASSUME NEW v \in Cached(h), ctx' = [ctx EXCEPT ![r].result = v], Answer(r, v)
      PROVE  IInv'
  <2>. DEFINE c == [ctx[r] EXCEPT !.result = v]
  <2>1. v \in Version
    BY <1>1, HandleTypes
  <2>2. c \in Context /\ c.handle = h /\ c.floor = ctx[r].floor /\ c.result = v
    BY <1>1, <2>1 DEF Context
  <2>3. Moves(r, "woken", "done", c) /\ ctx'[r] = c
    BY <1>1, <1>2 DEF Moves, Answer, Typed, TypeOK
  <2>. HIDE DEF c
  <2>4. answered' = [answered EXCEPT ![h] = IF v > answered[h] THEN v ELSE answered[h]]
    BY <1>2, <2>2, <2>3 DEF Answer
  <2>. QED
    BY <1>1, <2>2, <2>3, <2>4, AnswerSafe
<1>3. CASE pc' = [pc EXCEPT ![r] = "done"] /\ UNCHANGED <<ctx, answered>>
  <2>1. Moves(r, "woken", "done", ctx[r])
    BY <1>1, <1>3 DEF Moves, Typed, TypeOK
  <2>. QED
    BY <1>1, <1>3, <2>1, PrivateMove DEF Leading, Typed, TypeOK
<1>. QED
  BY <1>2, <1>3 DEF ReadAgain

\* The leader reads the cached ETag.
LEMMA ReadEtagSafe ==
    ASSUME IInv, NEW r \in Requests, ReadEtag(r)
    PROVE  IInv'
<1>. DEFINE h == ctx[r].handle
            to == IF h \in Resolvable THEN "fetch" ELSE "release"
<1>1. /\ pc[r] = "etag" /\ Typed /\ ctx[r] \in Context /\ ctx[r].result = Null
      /\ h \in Handles /\ UNCHANGED <<cache, inflight, published, answered, dropped>>
  BY CallTypes DEF IInv, ReadEtag, Goto, LocalsOK, Early
<1>2. PICK e \in IF Cached(h) = {} THEN {Null} ELSE Cached(h) :
         ctx' = [ctx EXCEPT ![r].etag = e]
  BY DEF ReadEtag
<1>. DEFINE c == [ctx[r] EXCEPT !.etag = e]
<1>3. e \in Version \cup {Null}
  BY <1>1, <1>2, HandleTypes
<1>4. c \in Context /\ c.handle = h /\ c.floor = ctx[r].floor /\ c.result = Null
  BY <1>1, <1>3 DEF Context
<1>5. Moves(r, "etag", to, c)
  BY <1>1, <1>2 DEF ReadEtag, Goto, Moves, Typed, TypeOK
<1>. HIDE DEF c
<1>6. CASE h \in Resolvable
  <2>1. Moves(r, "etag", "fetch", c)
    BY <1>5, <1>6
  <2>. QED
    BY <1>1, <1>4, <2>1, PrivateMove DEF Leading, Typed, TypeOK
<1>7. CASE h \notin Resolvable
  <2>1. Moves(r, "etag", "release", c)
    BY <1>5, <1>7
  <2>. QED
    BY <1>1, <1>4, <2>1, PrivateMove DEF Leading, Typed, TypeOK
<1>. QED
  BY <1>6, <1>7

\* A leader that has received the published record holds the newest version
\* there is; nothing older can be stored after it, as it has the slot.
LEMMA FetchedSafe ==
    ASSUME IInv, NEW r \in Requests, pc[r] = "fetch",
           pc' = [pc EXCEPT ![r] = "insert"],
           ctx' = [ctx EXCEPT ![r].result = published[ctx[r].handle]],
           UNCHANGED <<cache, inflight, published, answered, dropped>>
    PROVE  IInv'
<1>. DEFINE h == ctx[r].handle
            c == [ctx[r] EXCEPT !.result = published[h]]
<1>1. Typed /\ ctx[r] \in Context /\ h \in Handles /\ ctx[r].floor \in Nat
  BY CallTypes DEF IInv, LocalsOK
<1>2. /\ published[h] \in Version /\ published[h] \in Nat /\ answered[h] \in Nat
      /\ answered[h] <= published[h] /\ ctx[r].floor <= answered[h]
      /\ \A v \in Cached(h) : v <= published[h]
      /\ Cached(h) = VersionsOf(cache, h)
  BY <1>1, HandleTypes DEF IInv, Ordered, CallOK
<1>3. c \in Context /\ c.handle = h /\ c.floor = ctx[r].floor /\ c.result = published[h]
  BY <1>1, <1>2 DEF Context
<1>4. Moves(r, "fetch", "insert", c)
  BY <1>1 DEF Moves, Typed, TypeOK
<1>. HIDE DEF c
<1>5. /\ Typed' /\ Others(r) /\ pc'[r] = "insert" /\ ctx'[r] = c
      /\ \A g : VersionsOf(cache', g) = VersionsOf(cache, g)
  <2>1. "insert" \notin Early /\ c.result \in Version
    BY <1>2, <1>3 DEF Early
  <2>2. /\ inflight' \in [Handles -> Requests \cup {Null}]
        /\ answered' \in [Handles -> Version] /\ dropped' \subseteq Requests
    BY <1>1 DEF Typed, TypeOK
  <2>. QED
    BY <1>1, <1>3, <1>4, <2>1, <2>2, QuietMove
<1>6. LeadersHoldSlots' /\ SlotOwned'
  BY <1>3, <1>5, SlotsKept DEF Leading
<1>7. \A g \in Handles : Ordered(g)'
  BY <1>1, <1>5, OrderedKept, HandleTypes
<1>8. published[h] # Null
  BY <1>2, NullAssumption
<1>9. CallOK(r)'
  <2>1. h' = h /\ Cached(h)' = VersionsOf(cache, h)
    BY <1>3, <1>5 DEF Cached, VersionsOf
  <2>2. ctx[r].floor <= published[h]
    BY <1>1, <1>2
  <2>3. ctx'[r].floor = ctx[r].floor /\ ctx'[r].result = published[h] /\ ~Pending(r)'
    BY <1>3, <1>5 DEF Pending
  <2>. QED
    BY <1>2, <1>5, <2>1, <2>2, <2>3 DEF CallOK
<1>10. ASSUME NEW s \in Requests, s # r PROVE CallOK(s)'
  <2>1. Kept(s) /\ CallOK(s) /\ LocalsOK(s)
    BY <1>5, <1>10 DEF Others, IInv, Typed
  <2>2. pc[s] # "new" => /\ ctx[s].handle \in Handles
                         /\ Cached(ctx[s].handle) = VersionsOf(cache, ctx[s].handle)
    BY <1>1, <2>1, HandleTypes DEF LocalsOK
  <2>3. /\ answered' \in [Handles -> Version] /\ published' \in [Handles -> Version]
        /\ \A g \in Handles : answered[g] <= answered'[g] /\ published[g] <= published'[g]
    BY <1>1, HandleTypes DEF Typed, TypeOK
  <2>4. pc[s] = "insert" =>
               /\ answered'[ctx[s].handle] <= ctx[s].result
               /\ \A v \in VersionsOf(cache', ctx[s].handle) : v <= ctx[s].result
    BY <1>5, <2>1, <2>2 DEF CallOK
  <2>5. Pending(s) => \A v \in VersionsOf(cache', ctx[s].handle) : ctx[s].result <= v
    BY <1>5, <2>1, <2>2 DEF CallOK, Pending
  <2>. QED
    BY <2>1, <2>3, <2>4, <2>5, OtherCall
<1>11. ASSUME NEW q \in Requests, NEW s \in Requests, pc'[q] = "insert", Pending(s)',
              ctx'[s].handle = ctx'[q].handle
       PROVE  ctx'[s].result <= ctx'[q].result
  <2>1. s # r
    BY <1>5, <1>11 DEF Pending
  <2>2. /\ Pending(s) /\ ctx'[s].handle = ctx[s].handle
        /\ ctx'[s].result = ctx[s].result
    BY <1>5, <1>11, <2>1 DEF Others, Kept, Pending
  <2>3. CASE q = r
    BY <1>3, <1>5, <1>11, <2>2, <2>3 DEF IInv, CallOK
  <2>4. CASE q # r
    <3>1. /\ pc[q] = "insert" /\ ctx'[q].handle = ctx[q].handle
          /\ ctx'[q].result = ctx[q].result
      BY <1>5, <1>11, <2>4 DEF Others, Kept
    <3>. QED
      BY <1>11, <2>2, <3>1 DEF IInv, StoredInOrder
  <2>. QED
    BY <2>3, <2>4
<1>. QED
  BY <1>5, <1>6, <1>7, <1>9, <1>10, <1>11 DEF IInv, StoredInOrder

\* AgentResolver::resolve
LEMMA FetchSafe ==
    ASSUME IInv, NEW r \in Requests, Fetch(r)
    PROVE  IInv'
<1>1. /\ pc[r] = "fetch" /\ Typed /\ ctx[r] \in Context /\ ctx[r].result = Null
      /\ UNCHANGED <<cache, inflight, published, answered, dropped>>
  BY CallTypes DEF IInv, Fetch, LocalsOK, Early
<1>2. CASE /\ pc' = [pc EXCEPT ![r] = "insert"]
           /\ ctx' = [ctx EXCEPT ![r].result = published[ctx[r].handle]]
  BY <1>1, <1>2, FetchedSafe
<1>3. CASE pc' = [pc EXCEPT ![r] = "extend"] /\ UNCHANGED ctx
  <2>1. Moves(r, "fetch", "extend", ctx[r])
    BY <1>1, <1>3 DEF Moves, Typed, TypeOK
  <2>. QED
    BY <1>1, <2>1, PrivateMove DEF Leading, Typed, TypeOK
<1>4. CASE pc' = [pc EXCEPT ![r] = "release"] /\ UNCHANGED ctx
  <2>1. Moves(r, "fetch", "release", ctx[r])
    BY <1>1, <1>4 DEF Moves, Typed, TypeOK
  <2>. QED
    BY <1>1, <2>1, PrivateMove DEF Leading, Typed, TypeOK
<1>. QED
  BY <1>2, <1>3, <1>4 DEF Fetch

\* The local variables after a store: the calls that hold a record learn of
\* the younger entry.
LEMMA StoredTypes ==
    ASSUME Typed, NEW r \in Requests, ctx[r].handle \in Handles, NEW v \in Version,
           ctx' = Stored(r, v)
    PROVE  /\ ctx' \in [Requests -> Context]
           /\ ctx'[r].handle = ctx[r].handle /\ ctx'[r].floor = ctx[r].floor
           /\ ctx'[r].result = v
           /\ \A s \in Requests \ {r} :
                 /\ ctx'[s].handle = ctx[s].handle /\ ctx'[s].floor = ctx[s].floor
                 /\ ctx'[s].result = ctx[s].result
<1>1. ASSUME NEW s \in Requests, s # r
      PROVE  /\ ctx'[s] \in Context
             /\ ctx'[s].handle = ctx[s].handle /\ ctx'[s].floor = ctx[s].floor
             /\ ctx'[s].result = ctx[s].result
  <2>1. ctx[s] \in Context
    BY CallTypes
  <2>2. CASE s \in Overtaken(r)
    <3>1. ctx'[s] = [ctx[s] EXCEPT !.younger = ctx[s].younger \cup {ctx[r].handle}]
      BY <1>1, <2>2 DEF Stored
    <3>. QED
      BY <2>1, <3>1 DEF Context
  <2>3. CASE s \notin Overtaken(r)
    <3>1. ctx'[s] = ctx[s]
      BY <1>1, <2>3 DEF Stored
    <3>. QED
      BY <2>1, <3>1
  <2>. QED
    BY <2>2, <2>3
<1>2. /\ ctx'[r] \in Context
      /\ ctx'[r].handle = ctx[r].handle /\ ctx'[r].floor = ctx[r].floor
      /\ ctx'[r].result = v
  <2>1. ctx[r] \in Context
    BY CallTypes
  <2>2. ctx'[r] = [ctx[r] EXCEPT !.result = v, !.younger = {}]
    BY DEF Stored
  <2>. QED
    BY <2>1, <2>2 DEF Context
<1>3. ctx' = [s \in Requests |-> ctx'[s]]
  BY DEF Stored
<1>. QED
  BY <1>1, <1>2, <1>3

\* The leader stores v: no other call leads for its handle, so the version it
\* stores is no older than any that was cached, returned or is about to be.
LEMMA StoreSafe ==
    ASSUME IInv, NEW r \in Requests, pc[r] \in {"insert", "extend"},
           pc' = [pc EXCEPT ![r] = "release"], NEW v \in Version, ctx' = Stored(r, v),
           ctx[r].handle \in Handles,
           answered[ctx[r].handle] <= v, v <= published[ctx[r].handle],
           \A s \in Requests :
               Pending(s) /\ ctx[s].handle = ctx[r].handle => ctx[s].result <= v,
           CacheOK(cache'),
           VersionsOf(cache', ctx[r].handle) \subseteq {v},
           \A g \in Handles : g # ctx[r].handle =>
               VersionsOf(cache', g) \subseteq VersionsOf(cache, g),
           UNCHANGED <<inflight, published, answered, dropped>>
    PROVE  IInv'
<1>. DEFINE h == ctx[r].handle
<1>1. Typed /\ v \in Nat /\ v # Null
  BY NullAssumption DEF IInv, Version
<1>2. /\ ctx' \in [Requests -> Context]
      /\ ctx'[r].handle = h /\ ctx'[r].floor = ctx[r].floor /\ ctx'[r].result = v
      /\ \A s \in Requests \ {r} :
            /\ ctx'[s].handle = ctx[s].handle /\ ctx'[s].floor = ctx[s].floor
            /\ ctx'[s].result = ctx[s].result
  BY <1>1, StoredTypes
<1>3. pc'[r] = "release" /\ \A s \in Requests \ {r} : pc'[s] = pc[s]
  BY <1>1 DEF Typed, TypeOK
<1>4. Others(r)
  BY <1>2, <1>3 DEF Others, Kept
<1>5. Typed'
  <2>1. TypeOK'
    BY <1>1, <1>2 DEF Typed, TypeOK, CacheOK
  <2>2. LocalsOK(r)'
    BY <1>2, <1>3 DEF LocalsOK, Early
  <2>. QED
    BY <1>1, <1>4, <2>1, <2>2, OtherLocals DEF Typed, Others
<1>6. LeadersHoldSlots' /\ SlotOwned'
  BY <1>2, <1>3, <1>4, SlotsKept DEF Leading
<1>7. ASSUME NEW g \in Handles PROVE Ordered(g)'
  <2>1. CASE g = h
    <3>1. Cached(g)' = VersionsOf(cache', g)
      BY DEF Cached, VersionsOf
    <3>2. answered[h] <= published[h]
      BY DEF IInv, Ordered
    <3>. QED
      BY <2>1, <3>1, <3>2 DEF Ordered
  <2>2. CASE g # h
    BY <1>1, <2>2, OrderedKept, HandleTypes
  <2>. QED
    BY <2>1, <2>2
<1>8. \A s \in Requests \ {r} : pc[s] \in Leading => ctx[s].handle # h
  BY DEF IInv, LeadersHoldSlots, Leading
<1>9. ASSUME NEW s \in Requests, s # r PROVE CallOK(s)'
  <2>1. Kept(s) /\ CallOK(s) /\ LocalsOK(s)
    BY <1>4, <1>9 DEF Others, IInv, Typed
  <2>2. pc[s] # "new" => /\ ctx[s].handle \in Handles
                         /\ Cached(ctx[s].handle) = VersionsOf(cache, ctx[s].handle)
    BY <1>1, <2>1, HandleTypes DEF LocalsOK
  <2>3. /\ answered' \in [Handles -> Version] /\ published' \in [Handles -> Version]
        /\ \A g \in Handles : answered[g] <= answered'[g] /\ published[g] <= published'[g]
    BY <1>1, HandleTypes DEF Typed, TypeOK
  <2>4. pc[s] = "insert" =>
               /\ answered'[ctx[s].handle] <= ctx[s].result
               /\ \A w \in VersionsOf(cache', ctx[s].handle) : w <= ctx[s].result
    BY <1>8, <1>9, <2>1, <2>2 DEF CallOK, Leading
  <2>5. Pending(s) => \A w \in VersionsOf(cache', ctx[s].handle) : ctx[s].result <= w
    BY <1>9, <2>1, <2>2 DEF CallOK, Pending
  <2>. QED
    BY <2>1, <2>3, <2>4, <2>5, OtherCall
<1>10. CallOK(r)'
  <2>1. Cached(h)' = VersionsOf(cache', h)
    BY <1>2 DEF Cached, VersionsOf
  <2>2. ctx[r].floor <= answered[h] /\ ctx[r].floor \in Nat /\ answered[h] \in Nat
    BY <1>1, CallTypes, HandleTypes DEF IInv, CallOK
  <2>3. ctx[r].floor <= v
    BY <1>1, <2>2
  <2>4. \A w \in VersionsOf(cache', h) : v <= w
    BY <1>1
  <2>. QED
    BY <1>1, <1>2, <1>3, <2>1, <2>2, <2>3, <2>4 DEF CallOK
<1>11. ASSUME NEW q \in Requests, NEW s \in Requests, pc'[q] = "insert", Pending(s)',
              ctx'[s].handle = ctx'[q].handle
       PROVE  ctx'[s].result <= ctx'[q].result
  <2>1. /\ q # r /\ pc[q] = "insert" /\ ctx'[q].handle = ctx[q].handle
        /\ ctx'[q].result = ctx[q].result
    BY <1>2, <1>3, <1>11
  <2>2. ctx[q].handle # h
    BY <1>8, <2>1 DEF Leading
  <2>3. s # r
    BY <1>2, <1>11, <2>1, <2>2
  <2>4. /\ Pending(s) /\ ctx'[s].handle = ctx[s].handle
        /\ ctx'[s].result = ctx[s].result
    BY <1>2, <1>3, <1>11, <2>3 DEF Pending
  <2>. QED
    BY <1>11, <2>1, <2>4 DEF IInv, StoredInOrder
<1>. QED
  BY <1>5, <1>6, <1>7, <1>9, <1>10, <1>11 DEF IInv, StoredInOrder

\* cache_insert
LEMMA InsertSafe ==
    ASSUME IInv, NEW r \in Requests, Insert(r)
    PROVE  IInv'
<1>. DEFINE h == ctx[r].handle
            v == ctx[r].result
            others == Without(h)
<1>1. /\ pc[r] = "insert" /\ Typed /\ h \in Handles /\ v \in Version
      /\ UNCHANGED <<inflight, published, answered, dropped>>
  BY CallTypes DEF IInv, Insert, Goto, LocalsOK
<1>2. /\ CacheOK(cache) /\ CacheOK(others)
      /\ \A j \in DOMAIN others : others[j].handle # h
      /\ \A g : VersionsOf(others, g) \subseteq VersionsOf(cache, g)
  BY <1>1, HandleTypes, WithoutProperties
<1>3. PICK i \in 1 .. Len(others) + 1 :
         cache' = Evicted(InsertAt(others, i,
                    [handle |-> h, version |-> v,
                     fresh |-> \A j \in i .. Len(others) : others[j].fresh]))
  BY DEF Insert, WithEntry
<1>. DEFINE f == \A j \in i .. Len(others) : others[j].fresh
            e == [handle |-> h, version |-> v, fresh |-> f]
            new == InsertAt(others, i, e)
<1>4. e \in CacheEntry /\ e.handle = h /\ e.version = v
  <2>1. f \in BOOLEAN
    OBVIOUS
  <2>. HIDE DEF f
  <2>. QED
    BY <1>1, <2>1 DEF CacheEntry
<1>5. cache' = Evicted(new)
  BY <1>3
<1>. HIDE DEF e, others
<1>6. /\ CacheOK(new) /\ VersionsOf(new, h) = {v}
      /\ \A g : g # h => VersionsOf(new, g) \subseteq VersionsOf(others, g)
  <2>1. \A j \in DOMAIN others : others[j].handle # e.handle
    BY <1>2, <1>4
  <2>2. /\ CacheOK(new) /\ VersionsOf(new, e.handle) = {e.version}
        /\ \A g : g # e.handle => VersionsOf(new, g) \subseteq VersionsOf(others, g)
    BY <1>2, <1>4, <2>1, InsertedProperties, Zenon
  <2>. HIDE DEF new
  <2>. QED
    BY <1>4, <2>2, Zenon
<1>. HIDE DEF new
<1>7. /\ CacheOK(cache') /\ VersionsOf(cache', h) \subseteq {v}
      /\ \A g \in Handles : g # h => VersionsOf(cache', g) \subseteq VersionsOf(cache, g)
  BY <1>2, <1>5, <1>6, EvictedProperties
<1>8. answered[h] <= v /\ v <= published[h]
  BY <1>1 DEF IInv, CallOK
<1>9. \A s \in Requests : Pending(s) /\ ctx[s].handle = h => ctx[s].result <= v
  BY <1>1 DEF IInv, StoredInOrder
<1>10. pc' = [pc EXCEPT ![r] = "release"] /\ ctx' = Stored(r, v)
  BY DEF Insert, Goto
<1>. QED
  BY <1>1, <1>7, <1>8, <1>9, <1>10, StoreSafe

\* cache_extend
LEMMA ExtendSafe ==
    ASSUME IInv, NEW r \in Requests, Extend(r)
    PROVE  IInv'
<1>. DEFINE h == ctx[r].handle
            others == Without(h)
<1>1. /\ pc[r] = "extend" /\ Typed /\ h \in Handles /\ ctx[r] \in Context
      /\ ctx[r].result = Null /\ UNCHANGED <<inflight, published, answered, dropped>>
      /\ pc' = [pc EXCEPT ![r] = "release"]
  BY CallTypes DEF IInv, Extend, Goto, LocalsOK, Early
<1>2. ASSUME NEW v \in Cached(h), cache' = WithNewest(h, v), ctx' = Stored(r, v)
      PROVE  IInv'
  <2>. DEFINE e == [handle |-> h, version |-> v, fresh |-> TRUE]
  <2>1. /\ CacheOK(cache) /\ CacheOK(others) /\ v \in Version
        /\ \A j \in DOMAIN others : others[j].handle # h
        /\ \A g : VersionsOf(others, g) \subseteq VersionsOf(cache, g)
    BY <1>1, HandleTypes, WithoutProperties
  <2>2. e \in CacheEntry /\ e.handle = h /\ e.version = v
    BY <1>1, <2>1 DEF CacheEntry
  <2>3. cache' = Append(others, e)
    BY <1>2 DEF WithNewest
  <2>. HIDE DEF e, others
  <2>4. /\ CacheOK(cache') /\ VersionsOf(cache', h) \subseteq {v}
        /\ \A g \in Handles : g # h => VersionsOf(cache', g) \subseteq VersionsOf(cache, g)
    <3>1. \A j \in DOMAIN others : others[j].handle # e.handle
      BY <2>1, <2>2
    <3>2. /\ CacheOK(Append(others, e))
          /\ VersionsOf(Append(others, e), e.handle) = {e.version}
          /\ \A g : g # e.handle =>
                VersionsOf(Append(others, e), g) \subseteq VersionsOf(others, g)
      BY <2>1, <2>2, <3>1, AppendedProperties
    <3>. QED
      BY <2>1, <2>2, <2>3, <3>2
  <2>5. answered[h] <= v /\ v <= published[h]
    BY <1>1 DEF IInv, Ordered
  <2>6. \A s \in Requests : Pending(s) /\ ctx[s].handle = h => ctx[s].result <= v
    BY DEF IInv, CallOK
  <2>. QED
    BY <1>1, <1>2, <2>1, <2>4, <2>5, <2>6, StoreSafe
<1>3. CASE UNCHANGED <<cache, ctx>>
  <2>1. Moves(r, "extend", "release", ctx[r])
    BY <1>1, <1>3 DEF Moves, Typed, TypeOK
  <2>. QED
    BY <1>1, <1>3, <2>1, PrivateMove DEF Leading, Typed, TypeOK
<1>. QED
  BY <1>2, <1>3 DEF Extend

\* The leader takes its own slot out of the map, and no other.
LEMMA ReleaseSafe ==
    ASSUME IInv, NEW r \in Requests, Release(r)
    PROVE  IInv'
<1>. DEFINE h == ctx[r].handle
<1>1. /\ pc[r] = "release" /\ Typed /\ ctx[r] \in Context /\ h \in Handles
      /\ inflight' = [inflight EXCEPT ![h] = Null]
      /\ UNCHANGED <<cache, published, ctx, answered, dropped>>
  BY CallTypes DEF IInv, Release, Goto, LocalsOK
<1>2. Moves(r, "release", "notify", ctx[r])
  BY <1>1 DEF Release, Goto, Moves, Typed, TypeOK
<1>3. /\ inflight' \in [Handles -> Requests \cup {Null}] /\ inflight'[h] = Null
      /\ \A g \in Handles : g # h => inflight'[g] = inflight[g]
  BY <1>1 DEF Typed, TypeOK
<1>4. /\ Typed' /\ Others(r) /\ pc'[r] = "notify" /\ ctx'[r] = ctx[r]
      /\ \A g : VersionsOf(cache', g) = VersionsOf(cache, g)
  <2>1. /\ "notify" \notin Early /\ answered' \in [Handles -> Version]
        /\ dropped' \subseteq Requests
    BY <1>1 DEF Typed, TypeOK, Early
  <2>. QED
    BY <1>1, <1>2, <1>3, <2>1, QuietMove
<1>5. \A s \in Requests \ {r} :
         /\ pc'[s] \in Leading <=> pc[s] \in Leading
         /\ ctx'[s].handle = ctx[s].handle
         /\ pc[s] \in Leading => ctx[s].handle \in Handles /\ ctx[s].handle # h
  BY <1>1, <1>4, CallTypes DEF Others, Kept, Leading, IInv, LeadersHoldSlots, LocalsOK
<1>6. LeadersHoldSlots'
  BY <1>3, <1>4, <1>5 DEF IInv, LeadersHoldSlots, Leading
<1>7. ASSUME NEW g \in Handles, inflight'[g] # Null
      PROVE  \/ inflight'[g] \in dropped'
             \/ pc'[inflight'[g]] \in Leading /\ ctx'[inflight'[g]].handle = g
  <2>1. g # h /\ inflight'[g] = inflight[g] /\ inflight[g] \in Requests
    BY <1>1, <1>3, <1>7 DEF Typed, TypeOK
  <2>2. \/ inflight[g] \in dropped
        \/ pc[inflight[g]] \in Leading /\ ctx[inflight[g]].handle = g
    BY <1>7, <2>1 DEF IInv, SlotOwned
  <2>. QED
    BY <1>1, <1>5, <2>1, <2>2
<1>8. CallOK(r)'
  BY <1>1, <1>4 DEF IInv, CallOK, Pending, Cached
<1>. QED
  BY <1>1, <1>4, <1>6, <1>7, <1>8, VersionsQuiet DEF IInv, Pending, SlotOwned

\* The leader wakes the calls that wait on it and returns its record, which
\* is no newer than the cached one.
LEMMA NotifyWaitersSafe ==
    ASSUME IInv, NEW r \in Requests, NotifyWaiters(r)
    PROVE  IInv'
<1>. DEFINE h == ctx[r].handle
            v == ctx[r].result
<1>1. /\ pc[r] = "notify" /\ Typed /\ h \in Handles
      /\ v # Null => v \in Version /\ v \in Nat
      /\ answered[h] \in Nat /\ published[h] \in Nat
      /\ UNCHANGED <<cache, inflight, published, ctx, dropped>>
  BY CallTypes, HandleTypes DEF IInv, NotifyWaiters, LocalsOK
<1>2. /\ pc'[r] = "done"
      /\ \A s \in Requests \ {r} :
            pc'[s] = pc[s] \/ (pc[s] = "waiting" /\ pc'[s] = "woken")
      /\ pc' = [s \in Requests |-> pc'[s]]
  BY DEF NotifyWaiters
<1>3. Others(r)
  BY <1>1, <1>2 DEF Others, Kept
<1>4. /\ answered' \in [Handles -> Version]
      /\ \A g \in Handles : answered'[g] = answered[g] \/ (g = h /\ v # Null /\ answered'[g] = v)
      /\ \A g \in Handles : answered[g] <= answered'[g]
  <2>1. CASE v = Null
    BY <1>1, <2>1, HandleTypes DEF NotifyWaiters, Typed, TypeOK
  <2>2. CASE v # Null
    <3>1. answered' = [answered EXCEPT ![h] = IF v > answered[h] THEN v ELSE answered[h]]
      BY <2>2 DEF NotifyWaiters
    <3>2. \A g \in Handles : answered[g] \in Nat
      BY <1>1, HandleTypes
    <3>. QED
      BY <1>1, <2>2, <3>1, <3>2 DEF Typed, TypeOK
  <2>. QED
    BY <2>1, <2>2
<1>5. Typed'
  <2>1. \A s \in Requests : pc[s] \in {"new", "claim", "subscribe", "waiting", "woken",
             "etag", "fetch", "insert", "extend", "release", "notify", "done"}
    BY <1>1 DEF Typed, TypeOK
  <2>2. pc' \in [Requests -> {"new", "claim", "subscribe", "waiting", "woken", "etag",
                              "fetch", "insert", "extend", "release", "notify", "done"}]
    BY <1>2, <2>1
  <2>3. LocalsOK(r)'
    BY <1>1, <1>2 DEF LocalsOK, Early
  <2>4. TypeOK'
    BY <1>1, <1>4, <2>2 DEF Typed, TypeOK
  <2>. QED
    BY <1>1, <1>3, <2>3, <2>4, OtherLocals DEF Typed, Others
<1>6. LeadersHoldSlots' /\ SlotOwned'
  BY <1>1, <1>2, <1>3, SlotsKept DEF Leading
<1>7. v # Null => /\ Pending(r) /\ v <= published[h]
                  /\ \A w \in Cached(h) : v <= w
                  /\ ctx[r].floor <= v
  BY <1>1 DEF IInv, CallOK, Pending
<1>8. ASSUME NEW g \in Handles PROVE Ordered(g)'
  <2>1. CASE answered'[g] = answered[g]
    BY <1>1, <2>1, OrderedKept, HandleTypes
  <2>2. CASE g = h /\ v # Null /\ answered'[g] = v
    <3>1. Cached(g)' = Cached(g) /\ \A w \in Cached(g) : w <= published[g]
      BY <1>1 DEF Cached, IInv, Ordered
    <3>. QED
      BY <1>1, <1>7, <2>2, <3>1 DEF Ordered
  <2>. QED
    BY <1>4, <2>1, <2>2
<1>9. ASSUME NEW s \in Requests, s # r PROVE CallOK(s)'
  <2>1. Kept(s) /\ CallOK(s) /\ LocalsOK(s)
    BY <1>1, <1>3, <1>9 DEF Others, IInv, Typed
  <2>2. pc[s] # "new" => /\ ctx[s].handle \in Handles
                         /\ Cached(ctx[s].handle) = VersionsOf(cache, ctx[s].handle)
    BY <1>1, <2>1, HandleTypes DEF LocalsOK
  <2>3. /\ published' \in [Handles -> Version]
        /\ \A g \in Handles : answered[g] <= answered'[g] /\ published[g] <= published'[g]
    BY <1>1, <1>4, HandleTypes DEF Typed, TypeOK
  <2>4. pc[s] = "insert" =>
               /\ answered'[ctx[s].handle] <= ctx[s].result
               /\ \A w \in VersionsOf(cache', ctx[s].handle) : w <= ctx[s].result
    <3>. SUFFICES ASSUME pc[s] = "insert"
                  PROVE  /\ answered'[ctx[s].handle] <= ctx[s].result
                         /\ \A w \in VersionsOf(cache', ctx[s].handle) : w <= ctx[s].result
      OBVIOUS
    <3>1. ctx[s].handle = h /\ v # Null => v <= ctx[s].result
      BY <1>7 DEF IInv, StoredInOrder
    <3>. QED
      BY <1>1, <1>4, <2>1, <2>2, <3>1 DEF CallOK
  <2>5. Pending(s) => \A w \in VersionsOf(cache', ctx[s].handle) : ctx[s].result <= w
    BY <1>1, <2>1, <2>2 DEF CallOK, Pending
  <2>. QED
    BY <1>4, <2>1, <2>3, <2>4, <2>5, OtherCall
<1>10. CallOK(r)'
  <2>1. ctx[r].floor <= answered'[h]
    BY <1>1, <1>4, CallTypes, HandleTypes DEF IInv, CallOK, Version
  <2>. QED
    BY <1>1, <1>2, <1>7, <2>1 DEF CallOK, Pending
<1>11. StoredInOrder'
  BY <1>2, <1>3, StoredInOrderKept DEF Pending
<1>. QED
  BY <1>5, <1>6, <1>8, <1>9, <1>10, <1>11 DEF IInv

\* A dropped call leaves its slot behind, and no record.
LEMMA DropSafe ==
    ASSUME IInv, NEW r \in Requests, Drop(r)
    PROVE  IInv'
<1>. DEFINE c == [ctx[r] EXCEPT !.result = Null, !.younger = {}]
<1>1. /\ pc[r] # "new" /\ Typed /\ ctx[r] \in Context
      /\ dropped' = dropped \cup {r}
      /\ UNCHANGED <<cache, inflight, published, answered>>
  BY CallTypes DEF IInv, Drop
<1>2. /\ c \in Context /\ c.handle = ctx[r].handle /\ c.floor = ctx[r].floor
      /\ c.result = Null
  BY <1>1 DEF Context
<1>3. Moves(r, pc[r], "done", c)
  BY <1>1 DEF Drop, Moves, Typed, TypeOK
<1>. HIDE DEF c
<1>4. dropped \subseteq dropped' /\ dropped' \subseteq Requests /\ r \in dropped'
  BY <1>1 DEF Typed, TypeOK
<1>5. /\ Typed' /\ Others(r) /\ pc'[r] = "done" /\ ctx'[r] = c
      /\ \A g : VersionsOf(cache', g) = VersionsOf(cache, g)
  <2>1. /\ "done" \notin Early /\ answered' \in [Handles -> Version]
        /\ inflight' \in [Handles -> Requests \cup {Null}]
    BY <1>1 DEF Typed, TypeOK, Early
  <2>2. c.handle \in Handles
    BY <1>1, <1>2, CallTypes DEF LocalsOK
  <2>. QED
    BY <1>1, <1>2, <1>3, <1>4, <2>1, <2>2, QuietMove
<1>6. LeadersHoldSlots' /\ SlotOwned'
  BY <1>1, <1>4, <1>5, SlotsKept DEF Leading
<1>7. CallOK(r)'
  BY <1>1, <1>2, <1>5 DEF IInv, CallOK, Pending
<1>. QED
  BY <1>1, <1>5, <1>6, <1>7, VersionsQuiet DEF IInv, Pending

-----------------------------------------------------------------------------
(* Steps of no call *)

\* Expiry, invalidation and publication keep the invariant: the cache loses
\* entries and what is published grows.
LEMMA EnvironmentSafe ==
    ASSUME IInv, UNCHANGED <<inflight, pc, ctx, answered, dropped>>,
           CacheOK(cache'), published' \in [Handles -> Version],
           \A h \in Handles : published[h] <= published'[h],
           \A g \in Handles : VersionsOf(cache', g) \subseteq VersionsOf(cache, g)
    PROVE  IInv'
<1>1. Typed /\ \A s \in Requests : Kept(s)
  BY DEF IInv, Kept
<1>2. Typed'
  BY <1>1, OtherLocals DEF Typed, TypeOK, CacheOK
<1>3. LeadersHoldSlots' /\ SlotOwned'
  BY DEF IInv, LeadersHoldSlots, SlotOwned
<1>4. \A h \in Handles : Ordered(h)'
  BY OrderedKept DEF Version
<1>5. ASSUME NEW s \in Requests PROVE CallOK(s)'
  <2>1. Kept(s) /\ CallOK(s) /\ LocalsOK(s)
    BY <1>1 DEF IInv, Typed
  <2>2. pc[s] # "new" => /\ ctx[s].handle \in Handles
                         /\ Cached(ctx[s].handle) = VersionsOf(cache, ctx[s].handle)
    BY <1>1, <2>1, HandleTypes DEF LocalsOK
  <2>3. /\ answered' \in [Handles -> Version]
        /\ \A g \in Handles : answered[g] <= answered'[g]
    BY <1>1, HandleTypes DEF Typed, TypeOK
  <2>4. pc[s] = "insert" =>
               /\ answered'[ctx[s].handle] <= ctx[s].result
               /\ \A v \in VersionsOf(cache', ctx[s].handle) : v <= ctx[s].result
    BY <2>1, <2>2 DEF CallOK
  <2>5. Pending(s) => \A v \in VersionsOf(cache', ctx[s].handle) : ctx[s].result <= v
    BY <2>1, <2>2 DEF CallOK, Pending
  <2>. QED
    BY <2>1, <2>3, <2>4, <2>5, OtherCall
<1>6. StoredInOrder'
  BY DEF IInv, StoredInOrder, Pending
<1>. QED
  BY <1>2, <1>3, <1>4, <1>5, <1>6 DEF IInv

-----------------------------------------------------------------------------
(* The invariant *)

\* No call has begun and nothing is cached.
LEMMA InitSafe == Init => IInv
<1>. SUFFICES ASSUME Init PROVE IInv
  OBVIOUS
<1>1. 0 \in Version
  BY CapacityAssumption DEF Version
<1>2. /\ cache \in Seq(CacheEntry) /\ DOMAIN cache = {}
  BY DEF Init
<1>3. ASSUME NEW r \in Requests
      PROVE  /\ pc[r] = "new" /\ ctx[r] \in Context
             /\ ctx[r].handle = Null /\ ctx[r].result = Null
  BY <1>1 DEF Init, Context
<1>4. ctx \in [Requests -> Context]
  BY <1>3 DEF Init
<1>5. TypeOK
  BY <1>1, <1>2, <1>4 DEF Init, TypeOK
<1>6. Typed
  BY <1>3, <1>5 DEF Typed, LocalsOK
<1>7. LeadersHoldSlots /\ SlotOwned
  BY <1>3 DEF Init, LeadersHoldSlots, SlotOwned, Leading
<1>8. \A h \in Handles : Ordered(h)
  BY <1>2 DEF Init, Ordered, Cached
<1>9. (\A r \in Requests : CallOK(r)) /\ StoredInOrder
  BY <1>3 DEF CallOK, Pending, StoredInOrder
<1>. QED
  BY <1>6, <1>7, <1>8, <1>9 DEF IInv

\* Every step keeps the invariant.
LEMMA StepSafe == IInv /\ [Next]_vars => IInv'
<1>. SUFFICES ASSUME IInv, [Next]_vars PROVE IInv'
  OBVIOUS
<1>1. /\ CacheOK(cache) /\ published \in [Handles -> Version]
      /\ \A h \in Handles : published[h] \in Nat
  BY DEF IInv, Typed, TypeOK, CacheOK, Version
<1>2. ASSUME NEW r \in Requests, Resolve(r) PROVE IInv'
  BY <1>2, ResolveSafe
<1>3. ASSUME NEW r \in Requests, Claim(r) PROVE IInv'
  BY <1>3, ClaimSafe
<1>4. ASSUME NEW r \in Requests, Subscribe(r) PROVE IInv'
  BY <1>4, SubscribeSafe
<1>5. ASSUME NEW r \in Requests, ReadAgain(r) PROVE IInv'
  BY <1>5, ReadAgainSafe
<1>6. ASSUME NEW r \in Requests, ReadEtag(r) PROVE IInv'
  BY <1>6, ReadEtagSafe
<1>7. ASSUME NEW r \in Requests, Fetch(r) PROVE IInv'
  BY <1>7, FetchSafe
<1>8. ASSUME NEW r \in Requests, Insert(r) PROVE IInv'
  BY <1>8, InsertSafe
<1>9. ASSUME NEW r \in Requests, Extend(r) PROVE IInv'
  BY <1>9, ExtendSafe
<1>10. ASSUME NEW r \in Requests, Release(r) PROVE IInv'
  BY <1>10, ReleaseSafe
<1>11. ASSUME NEW r \in Requests, NotifyWaiters(r) PROVE IInv'
  BY <1>11, NotifyWaitersSafe
<1>12. ASSUME NEW r \in Requests, Drop(r) PROVE IInv'
  BY <1>12, DropSafe
<1>13. ASSUME NEW h \in Handles, Invalidate(h) PROVE IInv'
  <2>1. /\ cache' = Without(h)
        /\ UNCHANGED <<inflight, published, pc, ctx, answered, dropped>>
    BY <1>13 DEF Invalidate
  <2>2. /\ CacheOK(cache')
        /\ \A g \in Handles : VersionsOf(cache', g) \subseteq VersionsOf(cache, g)
    BY <1>1, <2>1, WithoutProperties
  <2>. QED
    BY <1>1, <2>1, <2>2, EnvironmentSafe
<1>14. ASSUME NEW h \in Handles, Publish(h) PROVE IInv'
  <2>1. /\ published[h] < MaxVersion /\ published' = [published EXCEPT ![h] = @ + 1]
        /\ UNCHANGED <<cache, inflight, pc, ctx, answered, dropped>>
    BY <1>14 DEF Publish
  <2>2. published[h] + 1 \in Version
    BY <1>1, <2>1, CapacityAssumption DEF Version
  <2>3. /\ published' \in [Handles -> Version]
        /\ \A g \in Handles : published[g] <= published'[g]
    BY <1>1, <2>1, <2>2
  <2>4. CacheOK(cache') /\ \A g \in Handles : VersionsOf(cache', g) \subseteq VersionsOf(cache, g)
    BY <1>1, <2>1
  <2>. QED
    BY <2>1, <2>3, <2>4, EnvironmentSafe
<1>15. CASE Expire
  <2>1. PICK i \in DOMAIN cache : cache' = [cache EXCEPT ![i].fresh = FALSE]
    BY <1>15 DEF Expire
  <2>2. /\ CacheOK(cache')
        /\ \A g \in Handles : VersionsOf(cache', g) \subseteq VersionsOf(cache, g)
    BY <1>1, <2>1, ExpiredProperties
  <2>3. UNCHANGED <<inflight, published, pc, ctx, answered, dropped>>
    BY <1>15 DEF Expire
  <2>. QED
    BY <1>1, <2>2, <2>3, EnvironmentSafe
<1>16. CASE UNCHANGED vars
  BY <1>1, <1>16, EnvironmentSafe DEF vars
<1>. QED
  BY <1>2, <1>3, <1>4, <1>5, <1>6, <1>7, <1>8, <1>9, <1>10, <1>11, <1>12, <1>13, <1>14,
     <1>15, <1>16 DEF Next, Step

\* The invariant holds in every reachable state.
LEMMA Invariant == SafetySpec => []IInv
BY InitSafe, StepSafe, PTL DEF SafetySpec

-----------------------------------------------------------------------------
(* The properties *)

\* The cache never holds two entries of one handle, and every local variable
\* of resolve keeps its type.
THEOREM TypeCorrect == SafetySpec => []TypeOK
<1>1. IInv => TypeOK
  BY DEF IInv, Typed
<1>. QED
  BY <1>1, Invariant, PTL

\* However many calls race for a handle, are dropped or fail, resolve has at
\* most one of them in fetch_and_update.
THEOREM OneFetchPerHandle == SafetySpec => []SingleFlight
<1>1. IInv => SingleFlight
  <2>. SUFFICES ASSUME IInv, NEW r \in Requests, NEW s \in Requests,
                       pc[r] \in Leading, pc[s] \in Leading,
                       ctx[r].handle = ctx[s].handle
                PROVE  r = s
    BY DEF SingleFlight
  <2>. QED
    BY DEF IInv, LeadersHoldSlots
<1>. QED
  BY <1>1, Invariant, PTL

\* Every slot of the in-flight map belongs to a leader that will take it out,
\* or to a call that was dropped.
THEOREM SlotsHaveOwners == SafetySpec => []SlotOwned
<1>1. IInv => SlotOwned
  BY DEF IInv
<1>. QED
  BY <1>1, Invariant, PTL

\* No call returns a version older than one that was returned before it
\* began, whatever expires, is invalidated, is evicted or is dropped.
THEOREM RecordsNeverGoBack == SafetySpec => []NeverBackwards
<1>1. IInv => NeverBackwards
  <2>. SUFFICES ASSUME IInv, NEW r \in Requests, ctx[r].result # Null
                PROVE  ctx[r].result >= ctx[r].floor
    BY DEF NeverBackwards
  <2>. QED
    BY CallTypes DEF IInv, CallOK
<1>. QED
  BY <1>1, Invariant, PTL
=============================================================================
