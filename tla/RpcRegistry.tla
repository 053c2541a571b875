---------------------------- MODULE RpcRegistry -----------------------------
(***************************************************************************)
(* How the RPC client learns of its providers.  An RpcServer binds its     *)
(* port and creates an ephemeral ZooKeeper node named after its address;   *)
(* the client's PathChildrenCache compares the nodes with those it knows   *)
(* and hands the differences, in order, to the listener of                 *)
(* RpcRemoteClientUtil, which opens and closes one RpcClient per node.     *)
(*                                                                         *)
(* A provider that is started again is a new boot of the same service: it  *)
(* has another ZooKeeper session, and channels to an older boot are dead.  *)
(***************************************************************************)
EXTENDS Naturals, Sequences

CONSTANTS
    Services,       \* the provider addresses, also the names of the nodes
    MaxBoots,       \* bound: starts per provider
    MaxLosses       \* bound: ZooKeeper sessions lost by a running provider

ASSUME RegistryAssumption == MaxBoots \in Nat /\ MaxLosses \in Nat

VARIABLES
    boot,       \* the number of starts of each provider
    up,         \* the providers whose port is bound
    reported,   \* the providers whose run() has got past line 60
    node,       \* the boot whose session owns the node, 0 if there is none
    seen,       \* the same as of the last refresh of the PathChildrenCache
    events,     \* what its listener has still to handle
    client,     \* rpcClientMap: the boot the entry's channel was opened to, or 0
    shut,       \* the entries whose channel the client itself has closed
    destroyed,  \* the client's destroy() has run
    refused,    \* history: nodes added to which the connection failed
    replaced,   \* history: nodes known under an owner that has changed since
    unlisted,   \* history: providers whose registration failed and left no node
    orphaned,   \* history: running providers whose session was lost
    losses,     \* history: how many sessions were lost
    leaked      \* history: how many channels putIfAbsent has dropped unclosed

provider == <<boot, up, reported, unlisted, orphaned>>
registry == <<node, losses>>
watch == <<seen, events, replaced>>
consumer == <<client, shut, destroyed, refused, leaked>>
registryVars == <<provider, registry, watch, consumer>>

RegistryInit ==
    /\ boot = [s \in Services |-> 0]
    /\ up = {} /\ reported = {}
    /\ node = [s \in Services |-> 0]
    /\ seen = node
    /\ events = <<>>
    /\ client = [s \in Services |-> 0]
    /\ shut = {} /\ destroyed = FALSE
    /\ refused = {} /\ replaced = {} /\ unlisted = {} /\ orphaned = {}
    /\ losses = 0 /\ leaked = 0

\* RpcServer.run, lines 42 to 59
Start(s) ==
    /\ s \notin up
    /\ boot[s] < MaxBoots
    /\ boot' = [boot EXCEPT ![s] = @ + 1]
    /\ up' = up \cup {s}
    /\ unlisted' = unlisted \ {s}
    /\ orphaned' = orphaned \ {s}
    /\ UNCHANGED <<reported, registry, watch, consumer>>

\* lines 60 and 76 to 86: an exception is printed, and that is all, be it that the
\* node of the last boot is still there or that ZooKeeper was out of reach.  One that
\* comes when the node has been created all the same makes no difference.
ReportServerMsg(s) ==
    /\ s \in up \ reported
    /\ reported' = reported \cup {s}
    /\ \/ node[s] = 0 /\ node' = [node EXCEPT ![s] = boot[s]] /\ UNCHANGED unlisted
       \/ unlisted' = unlisted \cup {s} /\ UNCHANGED node
    /\ UNCHANGED <<boot, up, orphaned, losses, watch, consumer>>

\* destroy(), or the process is killed: nobody closes the ZooKeeper session
Stop(s) ==
    /\ s \in up
    /\ up' = up \ {s}
    /\ reported' = reported \ {s}
    /\ UNCHANGED <<boot, unlisted, orphaned, registry, watch, consumer>>

\* The session of a boot that has ended runs out (sessionTimeoutMs).
ExpireSession(s) ==
    /\ node[s] # 0
    /\ s \notin up \/ node[s] # boot[s]
    /\ node' = [node EXCEPT ![s] = 0]
    /\ UNCHANGED <<losses, provider, watch, consumer>>

\* So does that of a running provider that is cut off for as long; Curator opens
\* another session, in which nobody creates the node again.
LoseSession(s) ==
    /\ losses < MaxLosses
    /\ s \in up /\ node[s] = boot[s]
    /\ node' = [node EXCEPT ![s] = 0]
    /\ losses' = losses + 1
    /\ orphaned' = orphaned \cup {s}
    /\ UNCHANGED <<boot, up, reported, unlisted, watch, consumer>>

Event(type, s) == [type |-> type, service |-> s]

\* mutant of Refresh: a node that changed hands is reported as added
RefreshAddsTwice(s) ==
    /\ node[s] # seen[s]
    /\ seen' = [seen EXCEPT ![s] = node[s]]
    /\ events' = Append(events, Event(IF node[s] = 0 THEN "removed" ELSE "added", s))
    /\ UNCHANGED <<replaced, provider, registry, consumer>>

\* PathChildrenCache: a node that went and came back while the client was cut off
\* from ZooKeeper has only changed
Refresh(s) ==
    /\ node[s] # seen[s]
    /\ seen' = [seen EXCEPT ![s] = node[s]]
    /\ events' = Append(events, Event(CASE seen[s] = 0 -> "added"
                                        [] node[s] = 0 -> "removed"
                                        [] OTHER -> "updated", s))
    /\ replaced' = IF seen[s] # 0 /\ node[s] # 0 THEN replaced \cup {s} ELSE replaced \ {s}
    /\ UNCHANGED <<provider, registry, consumer>>

\* mutant of Handles: the events behind the head are lost
HandlesBatch(type, s) ==
    /\ events # <<>>
    /\ Head(events) = Event(type, s)
    /\ events' = <<>>

\* The listener is about to be called with an event of this type.
Handles(type, s) ==
    /\ events # <<>>
    /\ Head(events) = Event(type, s)
    /\ events' = Tail(events)

\* lines 101 to 104 and 118 to 127: a connection that fails, as it does when the
\* server is down and may when it takes more than three seconds, is printed, and
\* that is all; putIfAbsent drops the new channel if there is an entry
ConnectProviderService(s) ==
    /\ Handles("added", s)
    /\ \/ refused' = refused \cup {s} /\ UNCHANGED <<client, leaked>>
       \/ /\ s \in up /\ refused' = refused \ {s}
          /\ IF client[s] = 0
               THEN client' = [client EXCEPT ![s] = boot[s]] /\ UNCHANGED leaked
               ELSE leaked' = leaked + 1 /\ UNCHANGED client
    /\ UNCHANGED <<seen, replaced, shut, destroyed, provider, registry>>

\* mutant of DisconnectProviderService: the channel is closed, the entry stays
DisconnectWithoutRemove(s) ==
    /\ Handles("removed", s)
    /\ shut' = IF client[s] # 0 THEN shut \cup {s} ELSE shut
    /\ refused' = refused \ {s}
    /\ UNCHANGED <<client, seen, replaced, destroyed, leaked, provider, registry>>

\* lines 105 to 108 and 129 to 137
DisconnectProviderService(s) ==
    /\ Handles("removed", s)
    /\ client' = [client EXCEPT ![s] = 0]
    /\ shut' = shut \ {s}
    /\ refused' = refused \ {s}
    /\ UNCHANGED <<seen, replaced, destroyed, leaked, provider, registry>>

\* lines 101 and 105: the listener looks at no other type of event
Ignore(s) ==
    /\ Handles("updated", s)
    /\ UNCHANGED <<seen, replaced, provider, registry, consumer>>

\* lines 140 to 147: the channels are closed, the entries and the listener stay
Destroy ==
    /\ ~destroyed
    /\ destroyed' = TRUE
    /\ shut' = {s \in Services : client[s] # 0}
    /\ UNCHANGED <<client, refused, leaked, provider, registry, watch>>

Listener(s) == ConnectProviderService(s) \/ DisconnectProviderService(s) \/ Ignore(s)

RegistryNext ==
    \/ \E s \in Services :
         \/ Start(s) \/ ReportServerMsg(s) \/ Stop(s)
         \/ ExpireSession(s) \/ LoseSession(s)
         \/ Refresh(s) \/ Listener(s)
    \/ Destroy

RegistrySpec == RegistryInit /\ [][RegistryNext]_registryVars

\* A bound server reports itself, sessions of the dead expire, ZooKeeper's
\* watches fire and the listener is called.  Starting and stopping are free.
RegistryFairSpec ==
    /\ RegistrySpec
    /\ \A s \in Services :
         /\ WF_registryVars(ReportServerMsg(s))
         /\ WF_registryVars(ExpireSession(s))
         /\ WF_registryVars(Refresh(s))
    /\ WF_registryVars(\E s \in Services : Listener(s))
-----------------------------------------------------------------------------
EventTypes == {"added", "removed", "updated"}

\* The type invariant, the first conjunct of the inductive one.
RegistryTypeOK ==
    /\ boot \in [Services -> 0 .. MaxBoots]
    /\ up \subseteq Services
    /\ reported \subseteq up
    /\ node \in [Services -> 0 .. MaxBoots]
    /\ seen \in [Services -> 0 .. MaxBoots]
    /\ events \in Seq([type : EventTypes, service : Services])
    /\ client \in [Services -> 0 .. MaxBoots]
    /\ shut \subseteq Services
    /\ destroyed \in BOOLEAN
    /\ refused \subseteq Services
    /\ replaced \subseteq Services
    /\ unlisted \subseteq Services
    /\ orphaned \subseteq Services
    /\ losses \in 0 .. MaxLosses
    /\ leaked \in Nat

\* A provider whose registration did not fail (lines 83 to 85 swallow every way in
\* which it may) stays registered while it keeps its session: the session of its
\* last boot, which runs out meanwhile, takes the older node along and never its own.
RunsRegistered ==
    \A s \in reported : node[s] = boot[s] \/ s \in unlisted \/ s \in orphaned

\* Every channel that is opened ends up in the map: putIfAbsent (line 123) never
\* meets an entry, as "added" and "removed" alternate for a node and are handled
\* in order.
NoChannelLeaks == leaked = 0

\* No event of s is waiting and the client's view of its node is up to date.
Settled(s) ==
    /\ seen[s] = node[s]
    /\ \A i \in 1 .. Len(events) : events[i].service # s

\* Once the events about a node are handled, the map has an entry for it exactly
\* if the node is there, but for a connection that failed, which is never tried
\* again.
MapFollowsNodes ==
    \A s \in Services : Settled(s) =>
        (client[s] # 0 <=> node[s] # 0 /\ s \notin refused)

\* The channel of an entry was opened to the start of the provider that owns its
\* node or to a later one, and the client has not closed it, unless the node
\* changed hands between two looks of the PathChildrenCache (the listener ignores
\* the update and keeps the old channel) or the client was destroyed.  Whether that
\* start still runs is not said: a stop shows when its session runs out.
EntriesFollowOwners ==
    \A s \in Services : Settled(s) /\ client[s] # 0 =>
        (client[s] \in node[s] .. boot[s] /\ s \notin shut) \/ s \in replaced \/ destroyed

-----------------------------------------------------------------------------
\* Whether the listener has last heard that the node is there.
Known(s) == IF client[s] # 0 \/ s \in refused THEN 1 ELSE 0

\* Whether a node with this owner is there.
Present(owner) == IF owner = 0 THEN 0 ELSE 1

\* h[i] tells whether the node of s is there after the first i events waiting:
\* from what the listener knows to what the cache has seen, each event about s
\* is of the type that this calls for, and nothing else changes it.
Course(s, h) ==
    /\ h[0] = Known(s)
    /\ h[Len(events)] = Present(seen[s])
    /\ \A i \in 1 .. Len(events) :
         /\ events[i] = Event("added", s) => h[i - 1] = 0 /\ h[i] = 1
         /\ events[i] = Event("removed", s) => h[i - 1] = 1 /\ h[i] = 0
         /\ events[i] = Event("updated", s) => h[i - 1] = 1 /\ h[i] = 1
         /\ events[i].service # s => h[i] = h[i - 1]
    /\ \A i \in 0 .. Len(events) :
         h[i] # h[Len(events)] => \E k \in i + 1 .. Len(events) : events[k].service = s

\* "added" and "removed" alternate among the events of a node.
Alternation ==
    \A s \in Services : \E h \in [0 .. Len(events) -> {0, 1}] : Course(s, h)

\* A provider that is up has been started, a refused one has no entry.
EntryInv ==
    /\ \A s \in up : boot[s] # 0
    /\ \A s \in refused : client[s] = 0

\* The entry of s is at least as new as the node the cache has seen, or it is still
\* to be made: "added" is the last that the listener will hear of s.
UpToDate(s) ==
    \/ \E i \in 1 .. Len(events) :
         /\ events[i] = Event("added", s)
         /\ \A j \in i + 1 .. Len(events) : events[j].service # s
    \/ /\ \A i \in 1 .. Len(events) : events[i].service # s
       /\ client[s] = 0 \/ seen[s] <= client[s]

\* Nothing leads to a boot that is still to come, only destroy() closes channels,
\* and an entry falls behind its node only by an update.
OwnersInv ==
    /\ \A s \in Services : node[s] <= boot[s] /\ seen[s] <= boot[s] /\ client[s] <= boot[s]
    /\ ~destroyed => shut = {}
    /\ \A s \in Services \ replaced : seen[s] # 0 => UpToDate(s)

\* The inductive invariant: NoChannelLeaks says nothing of what is still to be
\* handled, and an event is harmless only in its place.
RegistryInv ==
    RegistryTypeOK /\ EntryInv /\ Alternation /\ RunsRegistered /\ NoChannelLeaks /\ OwnersInv
-----------------------------------------------------------------------------
\* A provider that stops for good disappears from the client's map for good.
GoneIsForgotten ==
    \A s \in Services : <>[](s \notin up) => <>[](client[s] = 0)

\* A registered provider gets its entry, as long as it stays registered, unless
\* its registration came to the client as an update of an older node or the one
\* attempt to connect to it failed.
RegisteredIsFound ==
    \A s \in Services :
        s \in up /\ node[s] = boot[s] ~>
            \/ client[s] # 0 \/ s \notin up \/ node[s] # boot[s] \/ s \in replaced \/ s \in refused
=============================================================================
