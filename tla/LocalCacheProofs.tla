-------------------------- MODULE LocalCacheProofs --------------------------
(***************************************************************************)
(* LocalCacheUtil keeps its map and its queue in step, and evicts nothing  *)
(* before its time, for any number of threads, keys and clock readings.    *)
(***************************************************************************)
EXTENDS LocalCache, TLAPS

\* What an entry of the map is worth: its node is cached, under its own key.
LEMMA Entry ==
  ASSUME QueueMatchesCache, NEW n \in Cached
  PROVE  n.key \in Keys /\ cache[n.key] = n /\ n # NULL
  BY DEF QueueMatchesCache, Cached

\* Clock readings are natural numbers, and a node's expiry is one.
LEMMA TypeNext == TypeOK /\ FreshInv /\ [Next]_vars => TypeOK'
<1> SUFFICES ASSUME TypeOK, FreshInv, [Next]_vars PROVE TypeOK'
  OBVIOUS
<1> USE ConstantsAssumption, NullAssumption DEF TypeOK
<1>1. CASE Tick
  BY <1>1 DEF Tick
<1>2. ASSUME NEW t \in Threads, CacheBegin(t) PROVE TypeOK'
  BY <1>2 DEF CacheBegin, Nodes
<1>3. ASSUME NEW t \in Threads, CachePut(t) PROVE TypeOK'
  BY <1>3 DEF CachePut, FreshInv
<1>4. ASSUME NEW t \in Threads, FindBegin(t) PROVE TypeOK'
  BY <1>4 DEF FindBegin
<1>5. ASSUME NEW t \in Threads, FindAll(t) PROVE TypeOK'
  BY <1>5 DEF FindAll, Cached, Nodes
<1>6. CASE SweepBegin
  BY <1>6 DEF SweepBegin
<1>7. CASE SweepStep
  BY <1>7 DEF SweepStep, Heads
<1>8. CASE SweepEnd
  BY <1>8 DEF SweepEnd
<1>9. CASE UNCHANGED vars
  BY <1>9 DEF vars
<1> QED
  BY <1>1, <1>2, <1>3, <1>4, <1>5, <1>6, <1>7, <1>8, <1>9 DEF Next, Sweeper

\* The node a thread is about to put is not in the map.
LEMMA NewNode ==
  ASSUME TypeOK, FreshInv, NEW t \in Threads, pc[t] = "caching"
  PROVE  node[t] \in Nodes /\ node[t] # NULL /\ node[t] \notin Cached
<1>1. node[t] \in Pending
  BY DEF Pending
<1> QED BY <1>1 DEF TypeOK, FreshInv

\* What line 44 does to the set of cached nodes.
LEMMA CachedAfterPut ==
  ASSUME TypeOK, FreshInv, QueueMatchesCache, NEW t \in Threads, CachePut(t)
  PROVE  Cached' = (Cached \cup {node[t]}) \ {cache[node[t].key]}
<1> DEFINE n == node[t]
<1>1. n \in Nodes /\ n # NULL /\ n \notin Cached /\ n.key \in Keys
  BY NewNode DEF CachePut, Nodes
<1>2. cache' = [cache EXCEPT ![n.key] = n]
  BY DEF CachePut
<1>3. \A k \in Keys : cache'[k] = IF k = n.key THEN n ELSE cache[k]
  BY <1>1, <1>2 DEF TypeOK
<1>4. \A k \in Keys : k # n.key /\ cache[k] # NULL => cache[k] # cache[n.key]
  BY <1>1 DEF QueueMatchesCache
<1>5. n # cache[n.key]
  BY <1>1 DEF Cached
<1> QED BY <1>1, <1>3, <1>4, <1>5 DEF Cached

\* What lines 61 and 62 do to it: the entry removed by key is the head's.
LEMMA CachedAfterSweep ==
  ASSUME TypeOK, QueueMatchesCache, NEW head \in queue,
         cache' = [cache EXCEPT ![head.key] = NULL]
  PROVE  Cached' = Cached \ {head}
<1>1. head \in Cached /\ head.key \in Keys /\ cache[head.key] = head
  BY Entry DEF QueueMatchesCache
<1>2. \A k \in Keys : cache'[k] = IF k = head.key THEN NULL ELSE cache[k]
  BY <1>1 DEF TypeOK
<1>3. \A k \in Keys : k # head.key /\ cache[k] # NULL => cache[k] # head
  BY DEF QueueMatchesCache
<1> QED BY <1>1, <1>2, <1>3 DEF Cached

\* No step of cache(), findAll() or run() sets the map and the queue apart.
LEMMA MatchNext ==
  TypeOK /\ FreshInv /\ QueueMatchesCache /\ [Next]_vars => QueueMatchesCache'
<1> SUFFICES ASSUME TypeOK, FreshInv, QueueMatchesCache, [Next]_vars
             PROVE  QueueMatchesCache'
  OBVIOUS
<1>1. ASSUME NEW t \in Threads, CachePut(t) PROVE QueueMatchesCache'
  <2>1. queue' = (queue \cup {node[t]}) \ {cache[node[t].key]}
    BY <1>1 DEF CachePut
  <2>2. queue' = Cached'
    BY <1>1, <2>1, CachedAfterPut DEF QueueMatchesCache
  <2>3. cache' = [cache EXCEPT ![node[t].key] = node[t]]
    BY <1>1 DEF CachePut
  <2> QED BY <2>2, <2>3 DEF QueueMatchesCache, TypeOK
<1>2. CASE SweepStep
  <2>1. PICK head \in queue : /\ cache' = [cache EXCEPT ![head.key] = NULL]
                             /\ queue' = queue \ {head}
    BY <1>2 DEF SweepStep, Heads
  <2>2. queue' = Cached'
    BY <2>1, CachedAfterSweep DEF QueueMatchesCache
  <2> QED BY <2>1, <2>2 DEF QueueMatchesCache, TypeOK
<1>3. ASSUME UNCHANGED <<cache, queue>> PROVE QueueMatchesCache'
  BY <1>3 DEF QueueMatchesCache, Cached
<1> QED
  BY <1>1, <1>2, <1>3 DEF Next, vars, Sweeper, Tick, CacheBegin, FindBegin, FindAll,
     SweepBegin, SweepEnd

\* Values stay fresh: a thread takes one that nobody holds, and hands it over.
LEMMA FreshNext ==
  TypeOK /\ FreshInv /\ QueueMatchesCache /\ [Next]_vars => FreshInv'
<1> SUFFICES ASSUME TypeOK, FreshInv, QueueMatchesCache, [Next]_vars PROVE FreshInv'
  OBVIOUS
<1>1. ASSUME NEW t \in Threads, CacheBegin(t) PROVE FreshInv'
  <2>1. PICK n \in Nodes : /\ node' = [node EXCEPT ![t] = n]
                          /\ n.value \notin {m.value : m \in queue \cup Cached \cup Pending}
    <3>1. PICK k \in Keys, s \in Survivals, v \in Values :
            /\ v \notin {m.value : m \in queue \cup Cached \cup Pending}
            /\ node' = [node EXCEPT ![t] = [key |-> k, value |-> v, expireTime |-> now + s]]
      BY <1>1 DEF CacheBegin
    <3>2. [key |-> k, value |-> v, expireTime |-> now + s] \in Nodes
      BY ConstantsAssumption DEF TypeOK, Nodes
    <3> QED BY <3>1, <3>2
  <2>2. Cached' = Cached
    BY <1>1 DEF CacheBegin, Cached
  <2>3. Pending' = Pending \cup {n}
    BY <1>1, <2>1 DEF CacheBegin, Pending, TypeOK
  <2>4. \A m \in Pending' : \A c \in Cached' : m.value # c.value
    BY <2>1, <2>2, <2>3 DEF FreshInv
  <2>5. \A u \in Threads : pc[u] = "caching" => u # t /\ n.value # node[u].value
    BY <1>1, <2>1 DEF CacheBegin, Pending
  <2>6. \A u \in Threads : u # t => node'[u] = node[u] /\ pc'[u] = pc[u]
    BY <1>1, <2>1 DEF CacheBegin, TypeOK
  <2>7. node'[t] = n /\ n # NULL
    BY <2>1, NullAssumption DEF TypeOK
  <2> QED BY <2>4, <2>5, <2>6, <2>7 DEF FreshInv
<1>2. ASSUME NEW t \in Threads, CachePut(t) PROVE FreshInv'
  <2>1. \A u \in Threads :
          pc'[u] = "caching" => u # t /\ pc[u] = "caching" /\ node'[u] = node[u]
    BY <1>2 DEF CachePut, TypeOK
  <2>2. \A m \in Pending' : m \in Pending /\ m.value # node[t].value
    BY <1>2, <2>1 DEF Pending, FreshInv, CachePut
  <2>3. Cached' \subseteq Cached \cup {node[t]}
    BY <1>2, CachedAfterPut
  <2> QED BY <2>1, <2>2, <2>3 DEF FreshInv
<1>3. CASE SweepStep
  <2>1. PICK head \in queue : cache' = [cache EXCEPT ![head.key] = NULL]
    BY <1>3 DEF SweepStep, Heads
  <2>2. Cached' \subseteq Cached
    BY <2>1, CachedAfterSweep
  <2> QED BY <1>3, <2>2 DEF SweepStep, FreshInv, Pending
<1>4. ASSUME NEW t \in Threads, FindBegin(t) \/ FindAll(t) PROVE FreshInv'
  <2>1. \A u \in Threads : pc'[u] = "caching" <=> pc[u] = "caching"
    BY <1>4 DEF FindBegin, FindAll, TypeOK
  <2>2. Pending' = Pending /\ Cached' = Cached /\ node' = node
    BY <1>4, <2>1 DEF FindBegin, FindAll, Pending, Cached
  <2> QED BY <2>1, <2>2 DEF FreshInv
<1>5. ASSUME UNCHANGED <<cache, pc, node>> PROVE FreshInv'
  BY <1>5 DEF FreshInv, Pending, Cached
<1> QED
  BY <1>1, <1>2, <1>3, <1>4, <1>5 DEF Next, vars, Sweeper, Tick, SweepBegin, SweepEnd

\* Whatever is cached was put, and swept is the latest clock reading of a run.
LEMMA HistoryNext == CacheInv /\ [Next]_vars => HistoryInv'
<1> SUFFICES ASSUME CacheInv, [Next]_vars PROVE HistoryInv'
  OBVIOUS
<1> USE DEF CacheInv, HistoryInv
<1>1. ASSUME NEW t \in Threads, CacheBegin(t) PROVE HistoryInv'
  <2>1. PICK v \in Values : /\ v \notin {m.value : m \in queue \cup Cached \cup Pending}
                           /\ stored' = {m \in stored : m.value # v}
    BY <1>1 DEF CacheBegin
  <2>2. Cached' = Cached /\ UNCHANGED <<sweepNow, swept>>
    BY <1>1 DEF CacheBegin, Cached
  <2> QED BY <2>1, <2>2
<1>2. ASSUME NEW t \in Threads, CachePut(t) PROVE HistoryInv'
  <2>1. stored' = (stored \ {cache[node[t].key]}) \cup {node[t]}
    BY <1>2 DEF CachePut
  <2>2. UNCHANGED <<sweepNow, swept>>
    BY <1>2 DEF CachePut
  <2> QED BY <1>2, <2>1, <2>2, CachedAfterPut
<1>3. CASE SweepStep
  <2>1. PICK head \in queue : cache' = [cache EXCEPT ![head.key] = NULL]
    BY <1>3 DEF SweepStep, Heads
  <2>2. Cached' \subseteq Cached
    BY <2>1, CachedAfterSweep
  <2> QED BY <1>3, <2>2 DEF SweepStep
<1>4. CASE SweepBegin
  <2>1. sweepNow' <= swept'
    BY <1>4 DEF SweepBegin, TypeOK
  <2> QED BY <1>4, <2>1 DEF SweepBegin, Cached
<1>5. CASE SweepEnd
  <2>1. sweepNow' <= swept'
    BY <1>5 DEF SweepEnd, TypeOK
  <2> QED BY <1>5, <2>1 DEF SweepEnd, Cached
<1>6. ASSUME UNCHANGED <<cache, stored, sweepNow, swept>> PROVE HistoryInv'
  BY <1>6 DEF Cached
<1> QED
  BY <1>1, <1>2, <1>3, <1>4, <1>5, <1>6 DEF Next, vars, Sweeper, Tick, FindBegin, FindAll

\* A run evicts only what had expired by the clock it read (line 58).
LEMMA AliveNext == CacheInv /\ [Next]_vars => AliveIsCached'
<1> SUFFICES ASSUME CacheInv, [Next]_vars PROVE AliveIsCached'
  OBVIOUS
<1> USE DEF CacheInv, AliveIsCached
<1>1. ASSUME NEW t \in Threads, CacheBegin(t) PROVE AliveIsCached'
  BY <1>1 DEF CacheBegin
<1>2. ASSUME NEW t \in Threads, CachePut(t) PROVE AliveIsCached'
  <2> DEFINE n == node[t]
  <2>1. n \in Nodes /\ n.key \in Keys
    BY <1>2, NewNode DEF CachePut, Nodes
  <2>2. /\ stored' = (stored \ {cache[n.key]}) \cup {n}
        /\ cache' = [cache EXCEPT ![n.key] = n]
        /\ swept' = swept
    BY <1>2 DEF CachePut
  <2>3. ASSUME NEW m \in stored', m.expireTime > swept PROVE cache'[m.key] = m
    <3>1. CASE m = n
      BY <2>1, <2>2, <3>1 DEF TypeOK
    <3>2. CASE m # n
      <4>1. m \in stored /\ m # cache[n.key]
        BY <2>2, <3>2
      <4>2. cache[m.key] = m /\ m.key # n.key
        BY <2>3, <4>1
      <4> QED BY <2>2, <4>2 DEF TypeOK
    <3> QED BY <3>1, <3>2
  <2> QED BY <2>2, <2>3
<1>3. CASE SweepStep
  <2>1. PICK head \in queue : /\ head.expireTime <= sweepNow
                             /\ cache' = [cache EXCEPT ![head.key] = NULL]
    BY <1>3 DEF SweepStep, Heads
  <2>2. head \in Nodes /\ cache[head.key] = head /\ head.expireTime <= swept
    BY <2>1, Entry DEF QueueMatchesCache, TypeOK, HistoryInv, Nodes
  <2>3. ASSUME NEW m \in stored, m.expireTime > swept PROVE cache'[m.key] = m
    <3>1. cache[m.key] = m /\ m \in Nodes
      BY <2>3 DEF TypeOK
    <3>2. m # head
      BY <2>2, <2>3, <3>1 DEF TypeOK, Nodes
    <3>3. m.key # head.key
      BY <2>2, <3>1, <3>2
    <3> QED BY <2>1, <3>1, <3>3 DEF TypeOK
  <2> QED BY <1>3, <2>3 DEF SweepStep
<1>4. CASE SweepBegin
  <2>1. \A m \in stored : m.expireTime > swept' => m.expireTime > swept
    BY <1>4 DEF SweepBegin, TypeOK, Nodes
  <2> QED BY <1>4, <2>1 DEF SweepBegin
<1>5. ASSUME UNCHANGED <<cache, stored, swept>> PROVE AliveIsCached'
  BY <1>5
<1> QED
  BY <1>1, <1>2, <1>3, <1>4, <1>5
  DEF Next, vars, Sweeper, Tick, FindBegin, FindAll, SweepEnd
-----------------------------------------------------------------------------
\* The empty cache satisfies the inductive invariant.
LEMMA InitInv == Init => CacheInv
<1> SUFFICES ASSUME Init PROVE CacheInv
  OBVIOUS
<1>1. Cached = {} /\ Pending = {}
  BY DEF Init, Cached, Pending
<1>2. TypeOK
  BY DEF Init, TypeOK
<1>3. QueueMatchesCache /\ AliveIsCached
  BY <1>1 DEF Init, QueueMatchesCache, AliveIsCached
<1>4. FreshInv /\ HistoryInv
  BY <1>1 DEF Init, FreshInv, HistoryInv
<1> QED BY <1>2, <1>3, <1>4 DEF CacheInv

\* The inductive invariant holds of every state the cache can reach.
THEOREM Invariance == Spec => []CacheInv
<1>1. CacheInv /\ [Next]_vars => CacheInv'
  BY TypeNext, MatchNext, FreshNext, HistoryNext, AliveNext DEF CacheInv
<1> QED BY <1>1, InitInv, PTL DEF Spec

\* The map and the queue never disagree (lines 43 to 49, 61 and 62).
THEOREM MatchHolds == Spec => []QueueMatchesCache
<1>1. CacheInv => QueueMatchesCache
  BY DEF CacheInv
<1> QED BY <1>1, Invariance, PTL

\* No value is evicted before its time, though each run reads the clock before
\* it enters the monitor and the clock may go back (lines 54 to 63).
THEOREM AliveHolds == Spec => []AliveIsCached
<1>1. CacheInv => AliveIsCached
  BY DEF CacheInv
<1> QED BY <1>1, Invariance, PTL

\* findAll returns what is alive by the clock it read (lines 27 to 37).
THEOREM FindAllHolds == Spec => FindAllSound
<1>1. ASSUME CacheInv, [Next]_vars, NEW t \in Threads, pc[t] = "finding", pc'[t] = "idle"
      PROVE  LET alive == {n \in stored : n.expireTime > nowTime[t]}
             IN  /\ result'[t] \subseteq {n.value : n \in alive}
                 /\ {n.value : n \in {m \in alive : m.expireTime > swept}} \subseteq result'[t]
  <2>1. FindAll(t)
    BY <1>1 DEF CacheInv, TypeOK, Next, vars, Sweeper, Tick, CacheBegin, CachePut,
       FindBegin, FindAll, SweepBegin, SweepStep, SweepEnd
  <2>2. result'[t] = {n.value : n \in {m \in Cached : m.expireTime > nowTime[t]}}
    BY <1>1, <2>1 DEF CacheInv, TypeOK, FindAll
  <2>3. Cached \subseteq stored
    BY <1>1 DEF CacheInv, HistoryInv
  <2>4. \A m \in stored : m.expireTime > swept => m \in Cached
    BY <1>1, NullAssumption DEF CacheInv, AliveIsCached, TypeOK, Cached, Nodes
  <2> QED BY <2>2, <2>3, <2>4
<1>2. CacheInv /\ [Next]_vars =>
        [\A t \in Threads : pc[t] = "finding" /\ pc'[t] = "idle" =>
           LET alive == {n \in stored : n.expireTime > nowTime[t]}
           IN  /\ result'[t] \subseteq {n.value : n \in alive}
               /\ {n.value : n \in {m \in alive : m.expireTime > swept}} \subseteq result'[t]
        ]_vars
  BY <1>1
<1> QED BY <1>2, Invariance, PTL DEF Spec, FindAllSound

\* A run leaves nothing behind that had expired when it began (lines 56 to 64).
THEOREM ThoroughHolds == Spec => SweepIsThorough
<1>1. ASSUME CacheInv, [Next]_vars, sweeping, ~sweeping', NEW n \in Cached
      PROVE  n.expireTime > sweepNow
  <2>1. SweepEnd
    BY <1>1 DEF CacheInv, TypeOK, Next, vars, Sweeper, Tick, CacheBegin, CachePut,
       FindBegin, FindAll, SweepBegin, SweepStep, SweepEnd
  <2>2. n \in queue
    BY <1>1 DEF CacheInv, QueueMatchesCache
  <2>3. PICK head \in Heads : head.expireTime > sweepNow
    BY <2>1, <2>2 DEF SweepEnd
  <2>4. head.expireTime <= n.expireTime
    BY <2>2 DEF Heads
  <2> QED BY <1>1, <2>2, <2>3, <2>4 DEF CacheInv, TypeOK, Heads, Nodes
<1>2. CacheInv /\ [Next]_vars =>
        [sweeping /\ ~sweeping' => \A n \in Cached : n.expireTime > sweepNow]_vars
  BY <1>1
<1> QED BY <1>2, Invariance, PTL DEF Spec, SweepIsThorough
=============================================================================
