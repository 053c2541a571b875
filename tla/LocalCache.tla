----------------------------- MODULE LocalCache -----------------------------
(***************************************************************************)
(* LocalCacheUtil: values that live for a given time, kept in a map by key *)
(* and in a priority queue by expiry, both under the monitor of the cache. *)
(* Callers add with cache() and read with findAll(); a scheduled thread    *)
(* evicts with run().  All three read the wall clock BEFORE they enter the *)
(* monitor, so each acts on a time that may be old by then.                *)
(*                                                                         *)
(* A synchronized block is one action.  A node stands for the object: its  *)
(* value is fresh, so two nodes are never equal by accident (Node does not *)
(* define equals, queue.remove compares identities).                       *)
(***************************************************************************)
EXTENDS Integers, FiniteSets

CONSTANTS
    Keys,               \* the UUIDs; the code allows for a second use of one
    Values,             \* the cached objects
    Threads,            \* the threads that call cache() and findAll()
    Survivals,          \* the survival times they ask for
    MaxTime,            \* bound: the last reading of the clock
    ClockMayStepBack,   \* currentTimeMillis is a wall clock
    NULL

ASSUME ConstantsAssumption ==
    /\ Survivals \subseteq Nat
    /\ MaxTime \in Nat
    /\ ClockMayStepBack \in BOOLEAN

Nodes == [key : Keys, value : Values, expireTime : Nat]

ASSUME NullAssumption == NULL \notin Nodes

VARIABLES
    now,        \* System.currentTimeMillis()
    cache,      \* the map
    queue,      \* the priority queue
    pc,         \* "idle", "caching" (about to lock at 43), "finding" (at 29)
    node,       \* newNode of a thread inside cache()
    nowTime,    \* nowTime of a thread inside findAll()
    result,     \* the values a thread's findAll has just returned
    sweeping,   \* the scheduled thread is inside run()
    sweepNow,   \* nowTime of the run in progress, or -1
    stored,     \* history: the nodes put and not overwritten since; an evicted
                \* one is forgotten when its value stands for a new object
    swept       \* history: the latest nowTime of any run

vars == <<now, cache, queue, pc, node, nowTime, result, sweeping, sweepNow, stored, swept>>

Cached == {cache[k] : k \in Keys} \ {NULL}

Init ==
    /\ now = 0
    /\ cache = [k \in Keys |-> NULL]
    /\ queue = {}
    /\ pc = [t \in Threads |-> "idle"]
    /\ node = [t \in Threads |-> NULL]
    /\ nowTime = [t \in Threads |-> 0]
    /\ result = [t \in Threads |-> {}]
    /\ sweeping = FALSE
    /\ sweepNow = -1
    /\ stored = {}
    /\ swept = -1

\* Time passes, in any stride; a clock that is corrected may also go back.
Tick ==
    /\ now' \in (IF ClockMayStepBack THEN 0 ELSE now) .. MaxTime
    /\ now' # now
    /\ UNCHANGED <<cache, queue, pc, node, nowTime, result, sweeping, sweepNow, stored, swept>>

Pending == {node[t] : t \in {u \in Threads : pc[u] = "caching"}}

\* lines 40 to 42
CacheBegin(t) ==
    /\ pc[t] = "idle"
    /\ \E k \in Keys, s \in Survivals, v \in Values :
         /\ v \notin {n.value : n \in queue \cup Cached \cup Pending}
         /\ node' = [node EXCEPT ![t] = [key |-> k, value |-> v, expireTime |-> now + s]]
         /\ stored' = {n \in stored : n.value # v}
    /\ pc' = [pc EXCEPT ![t] = "caching"]
    /\ result' = [result EXCEPT ![t] = {}]
    /\ UNCHANGED <<now, cache, queue, nowTime, sweeping, sweepNow, swept>>

\* mutant of CachePut: the overwritten node stays in the queue
CachePutKeepsOld(t) ==
    /\ pc[t] = "caching"
    /\ LET n == node[t]
           old == cache[n.key]
       IN  /\ cache' = [cache EXCEPT ![n.key] = n]
           /\ queue' = queue \cup {n}
           /\ stored' = (stored \ {old}) \cup {n}
    /\ pc' = [pc EXCEPT ![t] = "idle"]
    /\ node' = [node EXCEPT ![t] = NULL]
    /\ UNCHANGED <<now, nowTime, result, sweeping, sweepNow, swept>>

\* lines 43 to 49
CachePut(t) ==
    /\ pc[t] = "caching"
    /\ LET n == node[t]
           old == cache[n.key]
       IN  /\ cache' = [cache EXCEPT ![n.key] = n]
           /\ queue' = (queue \cup {n}) \ {old}
           /\ stored' = (stored \ {old}) \cup {n}
    /\ pc' = [pc EXCEPT ![t] = "idle"]
    /\ node' = [node EXCEPT ![t] = NULL]
    /\ UNCHANGED <<now, nowTime, result, sweeping, sweepNow, swept>>

\* line 28
FindBegin(t) ==
    /\ pc[t] = "idle"
    /\ pc' = [pc EXCEPT ![t] = "finding"]
    /\ nowTime' = [nowTime EXCEPT ![t] = now]
    /\ result' = [result EXCEPT ![t] = {}]
    /\ UNCHANGED <<now, cache, queue, node, sweeping, sweepNow, stored, swept>>

\* mutant of FindAll: no filter on the expiry
FindAllUnfiltered(t) ==
    /\ pc[t] = "finding"
    /\ result' = [result EXCEPT ![t] = {n.value : n \in Cached}]
    /\ pc' = [pc EXCEPT ![t] = "idle"]
    /\ nowTime' = [nowTime EXCEPT ![t] = 0]
    /\ UNCHANGED <<now, cache, queue, node, sweeping, sweepNow, stored, swept>>

\* lines 29 to 36
FindAll(t) ==
    /\ pc[t] = "finding"
    /\ result' = [result EXCEPT ![t] =
                    {n.value : n \in {m \in Cached : m.expireTime > nowTime[t]}}]
    /\ pc' = [pc EXCEPT ![t] = "idle"]
    /\ nowTime' = [nowTime EXCEPT ![t] = 0]
    /\ UNCHANGED <<now, cache, queue, node, sweeping, sweepNow, stored, swept>>

\* line 54
SweepBegin ==
    /\ ~sweeping
    /\ sweeping' = TRUE
    /\ sweepNow' = now
    /\ swept' = IF now > swept THEN now ELSE swept
    /\ UNCHANGED <<now, cache, queue, pc, node, nowTime, result, stored>>

\* mutant of Heads: a queue in order of arrival, or no order at all
HeadsUnordered == queue

\* What peek may return: a node of least expiry (Node.compareTo).
Heads == {n \in queue : \A m \in queue : n.expireTime <= m.expireTime}

\* mutant of SweepStep: the map entry is removed, the head is only peeked
SweepStepWithoutPoll ==
    /\ sweeping
    /\ \E head \in Heads :
         /\ head.expireTime <= sweepNow
         /\ cache' = [cache EXCEPT ![head.key] = NULL]
    /\ UNCHANGED <<now, queue, pc, node, nowTime, result, sweeping, sweepNow, stored, swept>>

\* mutant of SweepStep: the head is polled, its map entry stays
SweepStepWithoutRemove ==
    /\ sweeping
    /\ \E head \in Heads :
         /\ head.expireTime <= sweepNow
         /\ queue' = queue \ {head}
    /\ UNCHANGED <<now, cache, pc, node, nowTime, result, sweeping, sweepNow, stored, swept>>

\* lines 56 to 63, one turn of the loop: the map is emptied by key
SweepStep ==
    /\ sweeping
    /\ \E head \in Heads :
         /\ head.expireTime <= sweepNow
         /\ cache' = [cache EXCEPT ![head.key] = NULL]
         /\ queue' = queue \ {head}
    /\ UNCHANGED <<now, pc, node, nowTime, result, sweeping, sweepNow, stored, swept>>

\* lines 56 to 60, the last turn
SweepEnd ==
    /\ sweeping
    /\ queue = {} \/ \E head \in Heads : head.expireTime > sweepNow
    /\ sweeping' = FALSE
    /\ sweepNow' = -1
    /\ UNCHANGED <<now, cache, queue, pc, node, nowTime, result, stored, swept>>

Sweeper == SweepBegin \/ SweepStep \/ SweepEnd

Next ==
    \/ \E t \in Threads : CacheBegin(t) \/ CachePut(t) \/ FindBegin(t) \/ FindAll(t)
    \/ Sweeper
    \/ Tick

Spec == Init /\ [][Next]_vars

\* scheduleWithFixedDelay runs run() again and again; callers owe nothing.
FairSpec == Spec /\ WF_vars(Sweeper)
-----------------------------------------------------------------------------
\* The type invariant, the first conjunct of the inductive one.
TypeOK ==
    /\ now \in Nat
    /\ cache \in [Keys -> Nodes \cup {NULL}]
    /\ queue \subseteq Nodes
    /\ pc \in [Threads -> {"idle", "caching", "finding"}]
    /\ node \in [Threads -> Nodes \cup {NULL}]
    /\ nowTime \in [Threads -> Nat]
    /\ result \in [Threads -> SUBSET Values]
    /\ sweeping \in BOOLEAN
    /\ sweepNow \in Nat \cup {-1}
    /\ stored \subseteq Nodes
    /\ swept \in Nat \cup {-1}

\* The map and the queue hold the same nodes, each under its own key: otherwise
\* the sweeper, which takes nodes from the queue and removes map entries by key
\* (lines 61 and 62), would evict another thread's value or leave one for ever.
QueueMatchesCache ==
    /\ queue = Cached
    /\ \A k \in Keys : cache[k] # NULL => cache[k].key = k

\* A value is not evicted before its time, whatever the clock does and however
\* long a thread stands between reading the clock and its lock: as long as no
\* run() has read a clock at or past its expiry, a value put and not
\* overwritten is in the map.
AliveIsCached == \A n \in stored : n.expireTime > swept => cache[n.key] = n

\* findAll() answers for the moment it read the clock (line 28): it returns no
\* value expired by then or overwritten before its lock, and misses only values
\* that a sweep with a later clock has evicted in between.
FindAllSound ==
    [][\A t \in Threads : pc[t] = "finding" /\ pc'[t] = "idle" =>
         LET alive == {n \in stored : n.expireTime > nowTime[t]}
         IN  /\ result'[t] \subseteq {n.value : n \in alive}
             /\ {n.value : n \in {m \in alive : m.expireTime > swept}} \subseteq result'[t]
      ]_vars

\* When run() returns, nothing that had expired when it began is left, also not
\* what was put while it ran: the head it stops at is the least (line 58).
SweepIsThorough ==
    [][sweeping /\ ~sweeping' => \A n \in Cached : n.expireTime > sweepNow]_vars

-----------------------------------------------------------------------------
\* A thread inside cache() holds a node, and no value is held twice.
FreshInv ==
    /\ \A t \in Threads : pc[t] = "caching" => node[t] # NULL
    /\ \A n \in Pending : \A m \in Cached : n.value # m.value
    /\ \A t, u \in Threads :
         pc[t] = "caching" /\ pc[u] = "caching" /\ t # u => node[t].value # node[u].value

\* History and sweeper: what is in the map was put, and no run() is ahead of swept.
HistoryInv ==
    /\ Cached \subseteq stored
    /\ sweepNow <= swept

\* The inductive invariant: that map and queue agree after line 47 rests on the
\* new node being a different object from the one it overwrites.
CacheInv == TypeOK /\ QueueMatchesCache /\ AliveIsCached /\ FreshInv /\ HistoryInv
-----------------------------------------------------------------------------
\* An expired value is evicted, or its key reused: the cache does not leak. It
\* need not be when the clock goes back behind what run() has read: then the rest
\* of the queue expires only when the clock catches up.
ExpiredIsEvicted ==
    \A k \in Keys :
        LET expired == cache[k] # NULL /\ cache[k].expireTime <= now
        IN  expired ~> (~expired \/ now < sweepNow)

\* run() comes to an end although callers keep adding: what is added after it
\* read the clock expires later, as long as the clock is not behind that reading.
SweepTerminates == sweeping ~> (~sweeping \/ now < sweepNow)
=============================================================================
