# A verification of try-something

The repository is a set of Java experiments around remote calls: a home-made RPC
(Netty and ZooKeeper), extensions of Dubbo (filters, a router, a thread pool), the
utilities they share, a web chat with the JavaScript of its pages (jQuery 2.2.0 and a
tag editor among it), and two families of Spring Cloud services. This directory holds
TLA+ models of its concurrent, distributed and event-driven parts, the TLC runs that
check them and the proofs TLAPS checks.

`PROJECT.json` maps every definition to the lines it stands for and lists
the runs, the mutants, the hazards and the theorems.

## 1. Inventory

| Component | State | Operations | Interacts with |
|---|---|---|---|
| `Loader` (and its two copies in the oauth modules) | the volatile `instance`, the monitor | `getInstance(supplier)` | its suppliers, under its monitor |
| `SingletonLoader` | map class -> loader, map name -> `Loader` | `getSingletonLoader`, `getSingletonInstance` | `Loader`, Dubbo's extension loader |
| `LocalCacheUtil` | map and priority queue, one monitor | `cache`, `findAll`, scheduled `run` | `TpMonitorFilter` |
| `RpcClient`, `RpcClientV2` | a channel, the field `responseMsg`, a monitor | `send`, the event loop's `channelRead0`, `close` | server, calling threads |
| `RpcRemoteClientUtil` | `rpcClientMap`: service -> `RpcClient` | PathChildrenCache listener, `loadBalancingRpcClient`, `reportCallMsg`, `destroy` | ZooKeeper, `RpcClient` |
| `RpcServer`, `RpcServerV2`, `WeChatServer` | two event loop groups | `run` (own thread), `reportServerMsg`, `destroy` | ZooKeeper, handlers |
| `RpcServerHandler`, `...V2` | `serviceMap` (constant after start) | `channelRead0`: look up, invoke, answer | the services |
| `CallReportJob` | none (ZooKeeper node data) | `execute`, every 5 s | `reportCallMsg`, `loadBalancingRpcClient` |
| `RpcEncoder`, `RpcDecoder` | none | length-prefixed frames | Netty |
| `RestartServiceRiskControlUtil`, `RestartingInstanceRouter` | volatile `nodeNameSet` | `childEvent`, `add`/`removeRestartingInstance`, `route` | ZooKeeper, Dubbo |
| `TpMonitorFilter`, `WatchingThreadPool` | a cache of timings; a map of executors | `invoke`/`getExecutor`, scheduled `run` | `LocalCacheUtil`, Dubbo |
| `WeChatHandler` | `channelList`, a plain `ArrayList` | `channelActive`, `channelInactive`, `channelRead0`, `exceptionCaught` | event loops, `chat.js` |
| `chat.js` | the box, the hint, the list of messages, a WebSocket | the handlers of the box and the button, `onopen`, `onmessage` | the user, `WeChatHandler` |
| `jquery.tag-editor.js` | the tags, the input of the one being edited, `pasted_content`, `inp`, the field | handlers of mouse, keys, paste and blur; timers; `addTag`, `removeTag`, `destroy` | the user, jQuery |
| jQuery: `Callbacks`, `Deferred`, `when`, `ready` | list, memory, queue, `locked`, `firing` of each list; a countdown; `readyWait` | `add`, `fire`, `lock`, `disable`; `then`; `resolve`; `holdReady` | everything that waits for something |
| jQuery: queues and effects | queues and hooks of elements, `jQuery.timers`, `timerId` | `animate`, `delay`, `stop`, `finish`, `clearQueue`, `promise`, `fx.tick` | the page's functions, `Deferred` |
| jQuery: ajax | a closure per request, `jQuery.active`, the pool of JSONP names | `ajax`, `abort`, `done`, two transports, the JSONP prefilter | the page's functions, network, `Deferred` |
| jQuery: events and manipulation | handlers by element and type, listeners, `triggered`, script marks | `on`, `one`, `off`, `trigger`; `append`, `remove`, `clone` and their like | the page's functions, the document |
| Spring Cloud services (`scn-parent`, `sca-parent`), SPI and Dubbo demos | none of their own | controllers, configuration, `main` methods | frameworks |

What is hard about them:

- **Monitors without conditions.** `RpcClient.send` waits without a predicate: a notify
  that comes early is lost, one that comes late wakes whoever waits.
- **Double-checked locking** with suppliers that throw, and loaders called by suppliers.
- **Readings taken before a lock**: every operation of `LocalCacheUtil` acts on a clock
  reading that may be old.
- **Sessions and watches**: ephemeral nodes outlive their owner for a while, watches tell
  of differences and not of events, a listener swallows the failures it meets.
- **Read, check, write over ZooKeeper** by `CallReportJob` against the callers' reports.
- **Shared collections without a lock** in `WeChatHandler`.
- **Functions that call back**: whatever jQuery calls may call jQuery again, in the midst
  of a loop over the very list it changes. Most of its flags (`firing`, `triggered`,
  `state`, `finish`, `"inprogress"`) are there for that.
- **Late timers**: the tag editor splits what was typed when it may be saved already;
  timeouts, aborts and answers race for a request.
- **Focus**: taking it from one input runs that input's blur handler, at once.
- **Frames that arrive in pieces** in `RpcDecoder`.

What makes each correct: a loader builds one object and gives it to everybody; map and
queue of the cache agree, nothing is evicted early and nothing stays for ever; a call
returns, and returns its own response; the map of channels follows the registered providers;
the balancer picks a provider that can serve; the router hides exactly the instances that
are restarting; a broadcast reaches every other member of the chat; a promise has one
outcome and tells everybody once; an animation ends and starts the next; a request
completes once; a handler runs once for an event, a script once for all; the field under
the tag editor holds the tags it shows.

## 2. Modules

| Module | Models | Source |
|---|---|---|
| `Once` | abstract: a cell written once, and what its callers may be told | - |
| `Loader` | `Loader.getInstance`, one action per access of the field or the monitor | `dubbo-base-utils/.../Loader.java` |
| `RpcClient` | `RpcClient`: callers, event loop, monitor, wire, close | `rpc-client/.../client/RpcClient.java` |
| `LocalCache` | `LocalCacheUtil`: callers, sweeper, wall clock | `dubbo-base-utils/.../LocalCacheUtil.java` |
| `RpcRegistry` | providers, ephemeral nodes, `PathChildrenCache`, `rpcClientMap` | `RpcServer.java`, `RpcRemoteClientUtil.java` |
| `CallReport` | the balancer's scan, the reports of calls, the job that blanks them | `RpcRemoteClientUtil.java`, `CallReportJob.java` |
| `Promise` | abstract: settled once, and who may be told when | - |
| `Callbacks`, `Deferred` | the lists, the deferreds made of three of them, `then` and `when` | `jquery-2.2.0.js` 3109-3482 |
| `Ready` | `jQuery.ready` and `holdReady`, on top of `Deferred` | `jquery-2.2.0.js` 3486-3578 |
| `Fx` | the `fx` queues, animations, delays, timers | `jquery-2.2.0.js` 4032-4162, 6520-7083 |
| `Ajax`, `AjaxMC` | requests, transports, JSONP | `jquery-2.2.0.js` 8056-9348 |
| `Events`, `EventsMC` | handlers, events, the document and its scripts | `jquery-2.2.0.js` 4269-5540, 7702-7951, 8830-8896 |
| `TagEditor`, `TagEditorMC` | the tag editor and its user | `jquery.tag-editor.js` |
| `Chat`, `ChatMC` | pages, WebSockets, event loops and `channelList` | `chat.js`, `WeChatHandler.java` |
| `LoaderProofs`, `RpcProofs`, `LocalCacheProofs`, `CallReportProofs`, `ChatProofs`, `DeferredProofs`, `AjaxProofs`, `EventsProofs` | the proofs | - |

A definition whose comment begins with "mutant of" is a plausible bug of the definition
it names; it is used by no specification. Each property is known to fail when the mutant
that `PROJECT.json` pairs with it takes the place of the original.

### Loader

`pc` says which line a thread is at; `monitor` is the owner of the synchronized block. The
field is volatile, so each read (lines 9, 11, 14, 18) and the write of line 12 is one
atomic action. A supplier returns a fresh object (`Supply`) or throws (`SupplyThrows`),
which releases the monitor (`Unwind`). `built` is a history variable. The reentrancy of
the monitor is left out: no supplier of the repository calls its own loader.

### RpcClient

A request `<<caller, n>>` stands for its response too, so that "my response" can be said.
`Send` is line 71; the thread takes the monitor later (`WaitSelf`), so the
response may overtake it. Line 60 (`ChannelRead0`) and line 61 (`NotifySelf`) are two
actions of the event loop. `responseMsg` is neither volatile nor read under the
monitor: `readable` is the set of values that the read of line 73 may return, i.e. the
one published by the notify that woke the caller and every later write. A line over 4096
bytes is dropped by `LineBasedFrameDecoder` in either direction, `Object.wait` may
return by itself, and the channel may be closed by anybody at any time. `lost`,
`spurious`, `discards`, `overlapped` are history variables.

### LocalCache

A synchronized block is one action, preceded by the action that reads the clock (`CacheBegin`,
`FindBegin`, `SweepBegin`). The loop of `run` holds the monitor once per turn, so one turn is
one `SweepStep`, and callers may come between two turns. `Heads` is the set of nodes that a
priority queue ordered by `compareTo` may return: ties are broken either way. Keys are
UUIDs in the code; the model lets them be reused because `cache` provides for it
(line 47). `stored` and `swept` are history variables.

### RpcRegistry

A provider that starts again is a new *boot*: it has another ZooKeeper session, and
the channels opened to an earlier boot are dead. `node[s]` is the boot whose session owns
the node; `seen[s]` the same as `PathChildrenCache` last saw it. `Refresh` turns a difference
into an event; a node that disappeared and came back while the client was cut off from
ZooKeeper is an update. The listener handles events one at a time and in order.
Registering may fail whenever it is tried (`RpcServer`, lines 83 to 85, swallow every exception): the
provider then runs without a node (`unlisted`). Connecting fails if the provider is down
and may fail if it is up, the time to connect being three seconds (`refused`). Neither is tried again.
Writes of the node's data make updates too, which the listener ignores, so they are
left out here. `refused`, `replaced`, `unlisted`, `orphaned` and `leaked` are history
variables that name the ways the map and the providers come apart.

Left out: a server whose `destroy` overtakes its own `run`, and the loss of the client's
own session (Curator refreshes the cache afterwards, which is a `Refresh`).

### CallReport

`data[s]` is what the node of a provider holds: nothing (`GONE`), the empty string (`BLANK`)
or a report of when a call ended and how long it took. Instants are kept as ages: a report's
age grows with `Tick` and stops at `MaxAge`, from where on it is stale for every run of the
job. `age - elapsed` is the age at the instant at which the job read its clock, which makes
the comparison of `CallReportJob`'s line 62. A scan reads one node per action, in any order;
the iterator of `ConcurrentHashMap` may return entries added or removed under way, or not.
The clock of a call runs from `Pick` to `Finish`, its report's age from there, until
`ReportCallMsg` writes it. A `getData` of a node that is gone fails the whole call
(`VisitGone`); in the job it ends the run (`JobReadGone`). The map follows the nodes as
`RpcRegistry` shows, abridged to `AddEntry`, `RemoveEntry` and the set `departed` of removals
still to be handled. `disturbed` and `touched` are history variables: the scans that met a
change, and the nodes written to since the job began.

### The modules of the pages

One thread runs a page. Where jQuery calls functions that may call jQuery again, a module
keeps what the current task still has to do in `agenda`, the next thing first; a call puts
its steps in front. A step `page` is a function of the page: it may call the API, return
or, where the module has it, throw. In `Deferred` the same is the call stack of the loops
of `fire` (`stack`). Calls of the API are bounded by `MaxCalls`, wherever they come from.

**Callbacks, Deferred.** `cb[l]` holds the variables of a list's closure. A deferred is three
lists, the first functions of which set its state, disable the list of the other outcome and
lock that of notifications (`Settling`). `then` adds a function to each list that settles
another deferred (`ThenValue`, `ThenPromise`); `when` counts down (`CallCount`). The values
are left out, and so are `remove`, `empty`, `unique` and `stopOnFalse`, which nothing here
uses. Abstract module `Promise` says what those who hold a promise may rely on.

**Ready.** It extends `Deferred` with the deferred of `jQuery.ready`, of which a page has only
the promise (`Withheld`), with the counter `readyWait`, `holdReady` (`Hold`, `Release`) and
the first of the two events that call `completed` (`Completed`; the timer of a document that
is complete already does the same). Handlers of an event named `ready` are left out.

**Fx.** An item is an animation or a delay. `left` counts the ticks an animation still takes;
0 is one that ends at once. `queue[e]` has the sentinel `"inprogress"` in it as the code
has. The loops of `stop` and `finish` over `jQuery.timers` are steps of the agenda, so that
what they call changes the list under them (`StopTimers`, `Splice`, `FinishTimers`). An animation
that is resolved runs the page's `done`, `complete` and `always` functions and one that is
rejected its `fail` and `always` functions; each of them, and what hears of `promise()`, is a
step at which the page may call the API. What is animated, `step`, `progress` and
`start` functions, `show` and `hide`, and queues of other names are left out. `meddled` is the
set of elements whose queue a page has brought out of step. `displaced` says that a timer was lost:
a `stop` or `finish` inside another took out a timer in front of one that the outer loop was
about to take out, or the timer that `fx.timer` popped was another's. A loop inside a loop is
as such no exception of `NoneFrozen`; `Serial`, `PromiseHears` and `EveryItemEnds` except the elements
that are `meddled` with, among them those that are stopped in the midst of their own stopping,
finishing or dequeuing. Section 6 says what happens then.

**Ajax.** A request has its options: the kind of transport (asynchronous or synchronous
`XMLHttpRequest`, script element, none), global events, `beforeSend`, a timeout, a JSONP
name of the page's or of jQuery's. The network answers, fails or stays silent; a script
that was aborted may still arrive and call the name it was given. `window[n]` is the
function installed under a name. Headers, URLs, the choice of a data type, exceptions of
a synchronous `send` and a function the page itself had under a JSONP name are left
out. `broken` is the set of requests under way when a function threw.

**Events.** `handlers[x][k]`, `delegates` and `listener` are the private data of a node and the
listeners the document knows. A delegated `focus` is filed under `focusin`; `attaches`
counts the elements that want it. A native event is the document's: a click bubbles, a focus
does not and is captured. `trigger` is its path followed by the `default` action, the native
event. Moving a node is `domManip`: it takes the node out (`BuildFragment`), puts it in its
place and evaluates the scripts that are new to the document. Left out: namespaces, inline
`on...` attributes, `mouseenter` and its like, `disabled` elements and positional
selectors, handlers that throw, insertion into several targets at once, nodes made from
HTML, and `data()` of the page.

**TagEditor.** `ed` is the editor: the rows shown, the tag list that the field holds, the focus,
and the inputs that `pasted_content` and `inp` refer to, on the page or not. Handlers are
functions from an editor to an editor, because `focus()` runs the blur handler of another
input in their midst (`Leave`, `Focus`). A value is its words and whether a delimiter is
among them. The places of the cursor are a choice, an input that is removed is taken to get
no blur event, sorting, autocomplete, lengths and letter case are left out. `odd` records
what the editor is not made for; each of its members is needed where a property excludes
it: without it, TLC finds the property violated.

**Chat.** The page's handlers, one WebSocket per user, and for each channel an event loop.
Channels may share one, and then their handlers do not overlap. `ArrayList` is modelled
by its fields, as it is in JDK 8, one access of the size, of `modCount` or of a place of the array
per step. `add` and `remove` read `modCount` and write it (`Found`, `Count`). `remove` looks for the
channel place by place (`Scan`, `Look`), reads the size for the number of elements to move
(`NumMoved`), moves them one at a time (`Shift`, `Move`: meanwhile one channel stands in two
places), reads the size again, writes it, and clears the place (`TakeSize`, `Resize`, `Put`); the
size may go below zero, and then the write of the place is an exception. `add` does the latter three
in the same order. The iterator looks at the size (`Each`), at `modCount` and the size (`Checks`)
and takes the element (`Pass`), which may be null. `met` records which of `add` and `remove` were
under way while another handler was at the list. Left out: the growth of the
array (the first `add` makes ten places, more than the model has users), outcomes that only a memory
model weaker than one access after the other allows, and how Netty queues frames.
`chat.html` loads `jquery.1.7.2.min.js` rather than 2.2.0; of jQuery the module needs only that handlers run and `append` appends.

## 3. Runs

| Run | Instance | Shows |
|---|---|---|
| `loader` | 3 threads, 3 objects, 2 failures; 9,373 states | `LoaderInv` (inductive; one object is built, all get it), `CallReturns`, refinement of `Once` |
| `rpc_client` | 2 callers, 2 calls each, 1 spurious wake-up, 1 discarded line, close; 34,998 states | what the monitor does guarantee: each lost notification strands one caller, calls that do not overlap get their own response, nothing else hangs |
| `rpc_client_shared` | 2 callers, 1 call each | a counterexample to `ResultForRequestedId`, see section 6 |
| `local_cache` | 2 keys, 2 values, 2 threads, survival 1 or 2, clock 0..2, may step back; 207,282 states | map and queue agree, no early eviction, `findAll` answers for its reading, a finished sweep leaves nothing expired, expired values go, every sweep ends |
| `rpc_registry` | 2 providers, 2 starts each, 1 session lost, any registration or connection may fail; 354,087 states | events about a node alternate, no channel leaks, a provider is unregistered only for a cause, entries follow the owners of the nodes, what is gone is forgotten, what is registered is found unless the one attempt failed |
| `call_report` | 2 providers, 1 caller, staleness 1, 1 leave; 630,569 states | an undisturbed scan picks the fastest, calls fail only for a cause, a run of the job is thorough, only reports that raced it are lost, old reports go |
| `deferred` | 3 deferreds (the page's, that of `ready`, one to be made), 2 functions, 4 calls; 443,768 states | functions run in order, no loop inside itself, chains and masters follow, `ready` waits for the event and the holds, refinement of `Promise` |
| `fx` | 1 element, 3 items of 0 or 2 ticks, 5 calls; 935,985 states | one item of a queue at a time, none frozen, `promise()` hears, everything ends |
| `ajax` | 2 requests of 5 sorts, 4 calls; 736,285 states | requests are counted and completed once, JSONP data are a request's own, timed ones end |
| `events` | a document, 2 elements, a script, a clone, 5 bindings, 4 calls; 2,192,034 states | listeners match handlers, each runs once, what is stopped stays stopped, scripts are evaluated once |
| `tags` | 2 tags, 4 values typed, 4 actions; 58,635 states | one tag is edited at a time, the field follows what is shown, no word is lost |
| `chat` | 3 users on 2 event loops, 1 of whom types, 5 actions; 1,154,950 states up to symmetry | the list is sound and everyone hears unless an `add` or a `remove` was disturbed; messages of a user come in order whatever happens, and twice only if a `remove` was disturbed |

`LoaderInv`, `ClientInv`, `CacheInv`, `RegistryInv` and the invariants of the other modules that
end in `Inv` are conjunctions of named parts (`LabelInv`, `WakeupAccounting`, `NoNullAnswer`,
`QueueMatchesCache`, `AliveIsCached`, `Alternation`, `RunsRegistered`, `NoChannelLeaks`, `OwnersInv`,
`ScanInv`, `RoundInv`, `PromiseInv`, `OrderKept`, `ChainsFollow`, `ReadyFollows`, `Serial`,
`ActiveExact`, `Wired`, `Captured`, `PlaceInv`, `ListSound` ...); each part says in its comment what it is
about. `SingleBuild`, `SameAnswer` and `MapFollowsNodes` are no conjuncts of them:
these follow from `LoaderInv` and `RegistryInv`, and are theorems (section 4).

Why the bounds are enough:

- `loader`: two threads race and a third comes late to each stage; two failures let a thread
  fail, another one fail after it, and a third one succeed. `Values` has one object per
  thread, so that a second build is not prevented by want of objects.
- `rpc_client`: two callers with two calls each give an overlap, a late response to an
  earlier call of the same caller, and a call after a lost one.
- `local_cache`: one key used twice by two threads plus another key; two survival times
  make a later put expire earlier; the clock's three readings are before, at and
  after an expiry. Two nodes at a time are enough for the queue's order to matter.
- `rpc_registry`: the second start meets the node of the first. Two providers are needed for
  one's events to stand behind the other's.
- `call_report`: two providers with two use times are compared both ways round; the caller's
  scan and report race the job; the round may take one tick, so that a report is stale now
  and was not when the job began. With two callers (staleness 0, use time at most 1, up to
  symmetry 3,227,222 states) the safety properties hold as well.
- `deferred`: two deferreds are what `when` needs to count, the third is its master or that of
  a `then`; two functions, one of which adds, settles or throws while the other waits. Four
  calls are two holds with their releases, or a hold, a release and two functions. With four
  deferreds TLC does not finish in useful time.
- `fx`: five calls queue three items and stop or finish them in each other's functions, so that a
  loop inside a loop meets timers before, at and behind the place of the outer one. The timers of
  all elements stand in one list, but what a loop does to it depends on the element. With two,
  all of it holds for 2 items and 4 calls (396,000 states), 3 and 4 (1,340,110) and 2 and 5 (1,698,366),
  and the safety properties for 3 and 5 (12.3 million), as they do for 1 element, 4 items and 6
  calls (13.6 million).
- `ajax`: two requests share names, counter and pool; four calls are two requests with an abort,
  an exception or a nested request in any function of theirs. `OldBrowser` is TRUE, which
  adds the posted error of IE 9 to what other browsers do.
- `events`: binding, triggering and moving, one inside the other, need three calls; a second
  handler, the fourth. `b` is inside `a`, both match the selector, and the script can be put
  into either. `attaches` is reached by a delegated focus and by a `focusin`, and passed by with a
  direct focus. With a direct handler of `one()` besides (2,951,655 states) all of it holds as well.
- `tags`: type, paste, move on and click or let a timer go off: three actions; the fourth
  comes before the timer or after.
- `chat`: a message that comes twice takes three users: one who sends, one who leaves and one
  who stands behind. `u1` has an event loop to himself and the other two share one, so that
  any two handlers of `u1` and another mix, and so do a broadcast and a `remove` behind it. Five
  actions are three names, the sender's greeting, and one that leaves, or less of it and
  something typed.

Deadlock is checked except where the system may come to rest: callers that have made
their calls or hang (`rpc_client`), providers that have used up their starts
(`rpc_registry`), and pages that have no call left (`deferred`, `fx`, `ajax`, `events`,
`tags`, `chat`).

### Fairness

- `Loader`: a thread inside `getInstance` keeps running (`WF` of its steps). Nobody has
  to call. Weak fairness suffices for the monitor too: after the first success nobody
  takes it for long, and before it `MaxFailures` bounds the rounds.
- `RpcClient`: server, event loop and the callers inside `send` keep running. Spurious
  wake-ups, discarded lines, closing and new calls are not owed.
- `LocalCache`: `scheduleWithFixedDelay` runs the sweeper again and again. Callers owe
  nothing, and time need not pass. `System.currentTimeMillis` is a wall clock: if it steps
  back during a sweep, callers that keep adding nodes which expire before the sweep's
  reading keep it going. `SweepTerminates` and `ExpiredIsEvicted` therefore allow for a
  clock that stays behind the reading of the sweep under way, and for nothing else.
- `CallReport`: the job is run again and again (every five seconds) and ZooKeeper answers
  it. Calls, time, and providers that come and go are not owed. `MaxLeaves` bounds the runs
  that fail.
- `Deferred`, `Fx`, `Ajax`: a function of the page that was called returns or throws, and the
  loop that called it goes on; a timeout or an interval that is set goes off. These are the
  browser's event loop and hold for any page without an endless loop. The page owes no call
  and the network no answer.
- `Events`, `TagEditor`, `Chat` state safety only.
- `RpcRegistry`: a server that has bound its port reports itself, sessions of the dead
  expire, the cache is refreshed and its listener called. Starting, stopping and losing a
  session are not owed.

## 4. Proofs

All theorems are of the safety specification (`Spec`; `RegistrySpec` for `RpcRegistry`; `ReadySpec`
in `DeferredProofs`, which allows every step of `Deferred`'s and those of `ready` and `holdReady`
besides) and hold for every
value of the constants that the named assumptions of each module allow. These are: finitely many
callers in `RpcClient`, users in `Chat` and requests in `Ajax`; bounds that are numbers; `None`,
`Nothing`, `NULL` and their like are no element of the sets they stand beside; the page does not
hold the deferred of `jQuery.ready` (`Ready`); the elements of `Events` are finitely many and form a
tree with nothing inside the script, and events and bindings are on nodes. The sets of threads,
keys, values, providers, deferreds and functions are arbitrary, and so are the bounds on calls,
starts and actions.

**LoaderProofs.** The inductive invariant is `LoaderInv`: the monitor's owner is the thread
inside the block (`LockInv`); what each thread knows about the field at its label
(`LabelInv`); and nothing is built but what is, or is about to be, published
(`BuiltInv`). `SingleBuild` and `SameAnswer` are not inductive: they say nothing of a thread
that has looked at the field and not acted yet. From it follow `TypeCorrect`,
`MutualExclusion`, `SingleBuildHolds`, `SameAnswerHolds` and `Refinement` (line 12
publishes, everything inside the block is a stutter).

**RpcProofs**, of `RpcClient`. The inductive invariant is `ClientInv`. `WakeupAccounting` (waiting
callers plus spurious wake-ups = responses to come plus lost ones) is inductive with the
types. It carries `SequentialUseIsSound`: if calls do not overlap and one caller has been
woken, nothing is left on the wire that could answer its next call (`WireIsEmpty`).
`NullInv` carries `NoNullAnswer`.

**LocalCacheProofs.** The inductive invariant is `CacheInv`. That map and queue agree after an
overwrite rests on the new node being another object than the one it overwrites
(`FreshInv`), as `queue.remove` compares identities. `AliveIsCached` needs `HistoryInv`,
the sweep in progress is not ahead of `swept`. The action properties `FindAllSound` and
`SweepIsThorough` follow from it; the latter rests on `Heads` being least.

**RpcProofs**, of `RpcRegistry`. The inductive invariant is `RegistryInv`. Its heart is `Alternation`: for
each node there is a course of presence through the queue of events, from what the
listener knows (an entry, or a refused connection) to what the cache has last seen,
that every event about the node fits. A refresh adds a step to the course
(`CourseGrows`), the listener takes the first one off (`CourseShifts`). So an "added" event
never meets an entry (`NoLeakHolds`), and with no event pending the two ends of the course are
equal (`MapHolds`). `RunsRegistered` is inductive with the types (`RunsHolds`). `FollowHolds`
(an entry's channel was opened to the start of the provider that owns the node, or to a later one,
and the client has not closed it, unless the node was only updated or the client destroyed; it does
not say that this start still runs) needs to know which boot an
entry leads to: behind a node that was never replaced there is either an "added"
event that no other follows, or a channel to a boot no older than the one the cache saw last
(`UpToDate` in `OwnersInv`).

**CallReportProofs.** The inductive invariant is `CallReportInv`. A scan is not atomic, so what it
has found out is said of the entries it has passed: those hold reports, and `best` is the
fastest of them, as long as nothing has touched the map or a node (`ScanInv`). A run of the job
has every stale report still ahead of it or knows that it was written meanwhile (`RoundInv`). The
properties are action properties, and each follows from the invariant at the step it is about:
a scan that ends picks the fastest (`FastestHolds`) or fails for a cause (`CauseHolds`), a run
that ends has left nothing stale (`ThoroughHolds`), a report that the job overwrites was stale or
came during the same run (`RacedHolds`). In all of these the ages
stop at `MaxAge`, and the lemmas `OlderReport` and `LongerReport` show that this loses nothing that
is compared.

**ChatProofs.** The inductive invariant is `ChatInv`, for any finite number of users on any event
loops. It has one lemma for each of its parts and says three things, under weaker
and weaker conditions.

- *Whatever the event loops do*, no access is beyond the array (`Fits` in `TypeOK`): a size is never
  greater than the number of channels for which `add` has written it (`Grown`), because
  each `add` and each `remove` writes one that it computed from a size read before, and channels are
  added once. And messages of one sender come in the order of their sending (`OrderInv`): what a page
  has sent is numbered on (`Numbered`), the sender's event loop passes one message after the
  other, and what a page has received is no newer than the message being passed (`Passed`).
- *As long as no `remove` was disturbed*, no message comes twice: the only channel that stands
  in two places is the one that `remove` has just moved, and nobody else is at the list then
  (`PlaceInv`, `Alone`), so that the iterator, which only moves upwards, meets each channel once.
  `UnlistedInv` says that a channel not yet in the array is in none of its places.
- *As long as neither `add` nor `remove` was disturbed*, `ListInv` says for each of their steps what
  of the size and of the places is written already, and that a broadcast finds the size
  and `modCount` as they were when it began. From it follow `ListSound` and `EveryoneHears` (`HearsHolds`).

`ShownInOrder` is the first two (`OrderHolds`).

**DeferredProofs.** A function that a list calls may call anything, so that the invariant has to say
what every list may look like at any depth of the call stack. It does so by the life of a list
(`PromiseInv`). A list is untouched until it is fired or disabled. The list that is
fired stands on top of the stack until its first two functions have set the state and disabled the
other list (`Settles`): nothing else runs before. From then on it holds only what has been added.
`Perform` and `FireNow`, the entry of every call into a list, and `NextRound` and `Finish`, the end
of its loop, have a lemma each for what they make of a list in each part of its life; a step of
`Next` is then a case of one of them. It follows that no loop of a list runs inside
itself (`OneLoopHolds`), that a promise has one outcome and calls each function at most
once and after it (`Refinement`, by the mapping of `ImplementsPromise`), and, with `OrderInv`, that
functions are called in the order in which they were added, none left over when
the page is at rest (`OrderHolds`): behind the index of a list stand all functions that were added
and not called, in order (`InOrder`). `ReadyHolds` adds `ReadyFollows`: the list of the ready
deferred is fired by `Release` and `Completed` and by nothing else, since jQuery's own functions
settle only the deferreds that `then` and `when` made, and a page cannot settle one of which
it has just the promise; and `holds` and `readyWait` count the same thing.

That chains and masters follow what they wait for (`ChainsFollow`) is not inductive:
a step calls a function that was added long before, and what it settles depends on the list it was
added to. `ChainInv` says so. By `Aims`, a function that settles the deferred of a `then` stands
in a list of its parent, and one that counts for a master in the list of resolution of a
subordinate, wherever it is: in the list, in a statement that has still to add it, or running; and a
list of a derived deferred that has been fired was due. By `Counted`, `remaining` is the number of
the subordinates that still owe, each of which counts once more at most, and those that owe nothing
are resolved: the last decrement finds all of them resolved. `Fire`, `Add` and the calls of `then`
and `when` have a lemma each for what they make of these; `ChainsHold` is the result, and
`EverythingHolds` puts it together with the invariants above into the whole of `ReadyInv`.

**AjaxProofs.** The inductive invariant is `AjaxInv`, in the form `Core` that does without what follows
from the rest. `QuietAfterDone`, `ActiveExact` and `CompletesOnce` speak of the moments between two
tasks and say nothing of the middle of one, so the invariant has to say which agendas can arise. It
does so by request. Of its steps on the way to `send`, and of those from `done` to the end,
one is to come at most (`HasOne`), whatever functions of the page have pushed in front of it, and
which ones may be there depends on `state`, `fireGlobals` and `broken` (`OpeningInv`, `ClosingInv`).
`WaitingInv` says the same of the transport, the timer and the handlers; from these follow the first
and the third property. For `jQuery.active` it is not enough to count: `CountInv` says that
there is a set of requests of that size with all that are counted and under way in it and nothing
besides but what an exception has left behind (`broken`). `Start` adds one element to it and `Stop`
takes one away, and when the agenda is empty the two bounds of `ActiveExact` are the sizes of a subset
and a superset. The lemmas about `Has` say what pushing, dropping and unwinding steps makes of an
agenda, so that an action is a case of one of a few shapes. `NamesInv` keeps the names of JSONP
callbacks apart: jQuery's own are numbered on without a gap, hence a fresh one has not been used, and
a function that is installed belongs to a request with that name. `OwnHolds` needs, besides, that
the answer in hand is not lost before it is used (`AnswerInv`): a script that runs calls the
function of its own request as long as that is not settled (`OwnFunction`), and so overwrites what
a late script of the same name may have left; `done`, the conversion and the settling follow in the same
task, in which no late script runs.

**EventsProofs.** There is not one argument but four, on a common ground. The ground is `EventsInv`
(`Core` says the same part by part): the document is a tree, a handler is filed once and where `off`
looks for it, each listener has handlers, `attaches` is not below the number of nodes that want
`focusin` and above it only by what `cleanData` passed over, and each step of the agenda has what it
needs. That the document stays a tree is said without paths: every set of nodes has a member whose
parent is outside (`Rooted`), which cutting, moving, replacing, wrapping and unwrapping preserve, and
from which it follows that the way up from a node ends and meets nobody twice. On this ground:

- *Scripts* (`Evaluated`): evaluations stand in front of all else but what scripts call; the scripts
  that were evaluated are in the document or marked, and those in the document were evaluated or are
  to be. `ScriptsOnceHolds` follows when nothing is left to do.
- *`triggered`* (`Ending`): it is set exactly while the `end` of a native event is on the agenda, and
  what stands in front of that end will be discarded by `Discards` or belongs to it.
- *Stopping* (`Stacked`, `Silent`): what a function begins is over before the next step of its
  own event, so that when it returns all steps of that event are in view of `PageReturns`; of a stopped
  event no step is left but those of the element that stopped it and those that will be discarded.
  This is `StopsForGoodHolds`.
- *Once* (`Single`, `Spent`): event, element and type make a slot; each slot is on the agenda
  once, or its handlers have begun, and these are pairwise different as the list was (`Filed`).
  A handler of `one()` that has run is off its element; it could run there again only for another
  event whose list was read before, and without nested triggers there is no other event on the agenda.
  These two are `HandledOnceHolds`.

An agenda changes in one of three shapes: a call pushes steps, the step on top gives way to others,
or some are left out. Each invariant has a lemma for each shape (`EndingGoes`, `StackedGoes`,
`SilentGoes`, `SingleGoes`, `NotAgainGoes`), and an action is a case of one of them. The exceptions
in the properties are needed: without each of them TLC finds a counterexample, for those about
scripts with six and seven calls and nothing bound.

TLC checks each inductive invariant that bears the name of its module in its run, the type invariant
included. `Ending`, `Stacked`, `Silent`, `Single`, `Spent` and `Evaluated`, which the proofs of `Events`
add, are stated in `EventsProofs` and not part of a run.

Only model-checked:

- the liveness properties (`CallReturns`, `ReturnsUnlessLost`, `ExpiredIsEvicted`, `SweepTerminates`,
  `GoneIsForgotten`, `RegisteredIsFound`, `OldReportsGo`, `WhenAnswers`, `EveryItemEnds`,
  `TimedRequestsEnd`), as the prover does not treat fairness;
- `Fx` and `TagEditor`. An inductive invariant of `Fx` would have to describe every agenda of stops,
  finishes and ticks that can arise inside each other, and none that does has been found; `TagEditor`
  computes its rows with folds over the words of a value, of which the prover's library has no
  theorems.

## 5. What could come next

1. As theorems: `QuietList` of `TagEditor`; the safety of `Fx`.
2. `show` and `hide` as a prefilter of `Fx`, queues of other names.
3. The race of `run` and `destroy` in the Netty servers, `RpcDecoder` with frames in pieces, the
   dispatch of the server, the restart router, the nesting of loaders.

## 6. Where code and text disagree

`RpcClient.send` (line 73) returns the field as it finds it after any notify. With a client
that is shared, as `RpcRemoteClientUtil` shares one per provider and `IndexController` uses
it from 512 tasks, a caller can return another caller's response. The comment in
`IndexController` (lines 40 and 41) prints a call's result as the one for its id. Run
`rpc_client_shared` gives the trace: both callers send, one of them has reached `waitSelf` when
the response to the other arrives, and returns it.

*RPC registry.* A provider whose registration fails, for whatever reason, runs on without a node, and one
that loses its session is never registered again. A client that cannot connect, be it that the
provider takes more than three seconds to accept, prints so and does not try again until the
node goes and comes back; the event loop group it made stays. An update hides that a
provider was started anew: the map keeps the dead channel.

The modules of the pages met the following. The properties exclude these cases by name, so
that what is checked is that nothing else goes wrong.

*Callbacks and deferreds.* A function that throws leaves `firing` set: the list never fires
again (`thrown`). `fire` assigns `locked` anew (3172): a function added to the list of
notifications after it was locked is called with what the list remembers, and that opens
the list again. A function for
notifications given to `then` that returns a promise settles the child before its parent
(`ChainsFollow`). `holdReady(false)` that releases no hold makes the document ready before it is
loaded (`excess`).

*Effects.* `stop(true)` during a `delay` removes the hook that could cancel its timeout; when
it goes off, it dequeues, and two items run at a time. The same comes of `clearQueue()` and
of `stop(true, true)` while an animation beside the queue runs, if two items are queued
afterwards. `finish()` during a delay removes the hooks without firing `empty`: `promise()`
waits for ever, which its comment (4133-4134, "Get a promise resolved when queues of a
certain type are emptied") does not say. `stop(false, true)` during a delay with an
animation beside the queue leaves the queue as it is. If a function that an animation of no
length runs starts another animation, `fx.timer` pops the tick of the latter, which stands still. A `stop`
or `finish` from a function that another one runs takes ticks out of the list that the outer
loop walks: if it takes one from in front, the outer one splices the tick of
another animation. A `stop` in a `complete` function starts the next item, and the dequeue
behind that function the one after it: two run at a time. `finish()` in a function that
`finish()` of the same element runs clears `data.finish`, and the rest of the old queue
then runs as if it had just been started.

*Ajax.* With `throws`, an abort or a timeout of a JSONP request throws out of `done`: it is never
settled and stays counted. A function that throws does the same to the request under
way. Two requests under way with the same `jsonpCallback` of the page's may get each
other's data, and leave a function installed. A request aborted in `ajaxStart` that has no
`beforeSend` gets its `ajaxSend` after its `ajaxComplete`. The model converts a body only
if the request succeeded; the code does so "no matter what" (8703), which shows in nothing that
the module speaks of.

*Events.* `cleanData` removes `focusin` by name and so passes over handlers bound as `focus` with
a selector: the count of `attaches` keeps them, and the document keeps capturing, where
7920 says "while someone wants focusin/focusout". The tag editor delegates `focus`
nowhere but `blur`, which is filed under `focusout` in the same way, and its `destroy` leaves
one behind each time. A handler of such a delegated focus that returns false stops the
native focus in the capturing phase; the comment in `simulate` (7849-7850) says it is "used only
for events for which stopPropagation() is noop". A trigger inside a native event resets
the one `jQuery.event.triggered`. If a handler triggers its event again, a function of
`one()` behind it is run by the inner event, taken off, and run by the outer one all the
same. A script that
moves another one that is waiting for its evaluation may make it never run, or run twice. `before()` and
`after()` of a node without a parent leave the node that was to be inserted nowhere.

*Tag editor.* To type a tag that exists and move by key to the existing one leaves it twice
(lines 188 and 215 say "remove duplicates"). A timeout of the paste or key handler that comes
after the tag was saved removes it (line 179 says "split into multiple tags, e.g. after
paste"). `addTag` with delimiters leaves an empty input; `addTag` of the tag being edited
makes two of it. A tag that is fading can be edited, and its text goes with it. Another tag
deleted while one is edited puts the text being edited into the list; escape does not
take it back. `destroy` cancels no timer.

*Chat.* When two event loops meet at `channelList`, an `add` or a `remove` may be lost, a place hold
null, the size fall below zero, where the next `add` fails. A broadcast that begins between
the move of the elements and the write of the size in `remove` sends to the last channel
twice; if an `add` comes in between, the channel stays in the list twice, and all
messages come twice from then on. A broadcast may also end in an exception; `exceptionCaught` then
removes the sender, who stays connected and hears nothing more. The
timeout that gives the focus back empties what
was typed in the meantime. A message is shown as sent although the WebSocket is closed, or
still connecting, which throws. A text with a colon is cut at it (`split(":")`, line 33). A
cancelled prompt ends the script. Nothing connects again.

## 7. Not modelled

The `main` methods, demos and stubs of Dubbo and the SPI samples; the controllers
and the configuration of the Spring Cloud services, whose behaviour (discovery,
retries, circuit breakers, tokens, messaging) is that of the frameworks; `TimeFilter` and
`OnlyFirstLoadBalance`, which keep no state.

The nesting of loaders, the dispatch and the codec of the RPC server, the race of `run` and
`destroy`, the restart router, the percentiles of `TpMonitorFilter` and
`WatchingThreadPool`: small pieces, each named with its reason in `PROJECT.json`.

Of jQuery: Sizzle, attributes, styles, dimensions, `data()` and the utilities, which
are functions of the document and their arguments; and what section 2 names as left out of
the parts that are modelled. `jquery.1.7.2.min.js`, the minified one that `chat.html` loads.
`common.js`: no page loads it, and the elements, the paths of the server and the object `layer`
it uses are not in the repository.
