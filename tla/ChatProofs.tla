----------------------------- MODULE ChatProofs -----------------------------
(***************************************************************************)
(* What holds of the chat for any users on any event loops, and for any    *)
(* number of actions: no index goes beyond the array; a page gets what     *)
(* another has sent in the order of its sending, and nothing twice unless  *)
(* a remove() has been disturbed; and as long as no add() and no remove()  *)
(* has been, the list is sound and everyone hears.                         *)
(***************************************************************************)
EXTENDS Chat, SequenceTheorems, FiniteSetTheorems, TLAPS

\* What most of the page's actions do to the rest of the system.
Talks(u) ==
    /\ Say(u) \/ UNCHANGED <<said, wire>>
    /\ UNCHANGED <<shown, inbox, chan, loop, list, history>>

\* A step of a page talks, shows a message, or is the end of its connection.
LEMMA PageSteps ==
    ASSUME NEW u \in Users, Page(u)
    PROVE  Talks(u) \/ Shows(u) \/ \E rest \in BOOLEAN : Breaks(u, rest)
<1>1. ASSUME NEW name \in {"blank", "null", "given"}, AskName(u, name) PROVE Talks(u)
  BY <1>1 DEF AskName, Talks, net
<1>2. CASE Opens(u)
  BY <1>2 DEF Opens, Talks
<1>3. CASE Refocus(u)
  BY <1>3 DEF Refocus, Talks, net
<1>4. CASE FocusBox(u)
  BY <1>4 DEF FocusBox, Talks, net
<1>5. CASE Type(u)
  BY <1>5 DEF Type, Talks, net
<1>6. CASE PressEnter(u)
  BY <1>6 DEF PressEnter, SendMsg, Talks
<1>7. CASE ClickSend(u)
  BY <1>7 DEF ClickSend, SendMsg, Talks
<1>8. QED
  BY <1>1, <1>2, <1>3, <1>4, <1>5, <1>6, <1>7 DEF Page
-----------------------------------------------------------------------------
\* The part of the type that is about the page itself.
PageType ==
    /\ stage \in [Users -> {"prompt", "connecting", "open", "closed", "failed"}]
    /\ draft \in [Users -> BOOLEAN] /\ focused \in [Users -> BOOLEAN] /\ arrow \in [Users -> BOOLEAN]
    /\ refocus \in [Users -> Nat]
    /\ acts \in 0 .. MaxActs

LEMMA PageTypeNext ==
    ASSUME TypeOK, NEW u \in Users, Page(u) \/ Server(u)
    PROVE  PageType'
<1> USE DEF TypeOK, PageType
<1>0. MaxActs \in Nat
  BY ChatAssumption
<1>1. ASSUME NEW name \in {"blank", "null", "given"}, AskName(u, name) PROVE PageType'
  BY <1>0, <1>1 DEF AskName
<1>2. CASE Opens(u)
  BY <1>0, <1>2 DEF Opens
<1>3. CASE Shows(u)
  BY <1>3 DEF Shows
<1>4. CASE Refocus(u)
  <2>1. refocus' \in [Users -> Nat] /\ UNCHANGED <<stage, acts>>
    BY <1>4 DEF Refocus
  <2>2. draft' \in [Users -> BOOLEAN] /\ arrow' \in [Users -> BOOLEAN] /\ focused' \in [Users -> BOOLEAN]
    BY <1>4 DEF Refocus, Focusing
  <2>3. QED
    BY <2>1, <2>2
<1>5. CASE FocusBox(u)
  BY <1>0, <1>5 DEF FocusBox, Acting, Focusing
<1>6. CASE Type(u)
  BY <1>0, <1>6 DEF Type, Acting
<1>7. CASE PressEnter(u)
  <2>1. draft' \in [Users -> BOOLEAN] /\ arrow' \in [Users -> BOOLEAN] /\ focused' \in [Users -> BOOLEAN]
    BY <1>7 DEF PressEnter, SendMsg
  <2>2. refocus' \in [Users -> Nat] /\ acts' \in 0 .. MaxActs /\ stage' = stage
    BY <1>0, <1>7 DEF PressEnter, Acting
  <2>3. QED
    BY <2>1, <2>2
<1>8. CASE ClickSend(u)
  <2>1. draft' \in [Users -> BOOLEAN] /\ arrow' \in [Users -> BOOLEAN] /\ focused' \in [Users -> BOOLEAN]
    BY <1>8 DEF ClickSend, SendMsg
  <2>2. acts' \in 0 .. MaxActs /\ UNCHANGED <<stage, refocus>>
    BY <1>0, <1>8 DEF ClickSend, Acting
  <2>3. QED
    BY <2>1, <2>2
<1>9. ASSUME NEW rest \in BOOLEAN, Breaks(u, rest) PROVE PageType'
  BY <1>0, <1>9 DEF Breaks
<1>10. CASE Server(u)
  <2>1. UNCHANGED page /\ (acts' = acts \/ (acts < MaxActs /\ acts' = acts + 1))
    BY <1>10 DEF Server, ChannelActive, Count, TakeSize, Resize, Put, Upgrade, Read, Each, Checks, Pass,
                 ChannelInactive, Scan, Look, Found, NumMoved, Shift, Move
  <2>2. QED
    BY <1>0, <2>1 DEF page
<1>11. QED
  BY <1>1, <1>2, <1>3, <1>4, <1>5, <1>6, <1>7, <1>8, <1>9, <1>10 DEF Page
-----------------------------------------------------------------------------
\* Handlers and their steps.
Working == {"count", "size", "resize", "put", "each", "next", "bound", "pass", "scan", "look", "found", "moved", "shift", "move"}

Removers == {"inactive", "reset", "caught"}

LEMMA HandlerFields ==
    Handlers = [op : {"none", "add", "read"} \cup Removers, pc : {"idle"} \cup Working, n : Nat, k : Int,
                item : Users \cup {None}, msg : {None} \cup [m : Message, mod : Nat], owed : SUBSET Users]
<1>1. /\ Steps("none") = {"idle"} /\ Steps("add") = {"count", "size", "resize", "put"}
      /\ Steps("read") = {"each", "next", "bound", "pass"}
      /\ Steps("caught") = {"scan", "look", "found", "count", "moved", "shift", "move", "resize", "put"}
  BY DEF Steps
<1>2. UNION {Steps(op) : op \in {"none", "add", "read", "caught"}}
        = Steps("none") \cup Steps("add") \cup Steps("read") \cup Steps("caught")
  OBVIOUS
<1>3. UNION {Steps(op) : op \in {"none", "add", "read", "caught"}} = {"idle"} \cup Working
  BY <1>1, <1>2 DEF Working
<1>4. QED
  BY <1>3 DEF Handlers, Removers

\* What a handler does tells how far it is, and the other way round.
LEMMA HandlerSteps ==
    ASSUME TypeOK, NEW u \in Users
    PROVE  /\ loop[u] \in Handlers /\ loop[u].n \in Nat /\ loop[u].k \in Int
           /\ loop[u].op \in {"none", "add", "read"} \cup Removers
           /\ loop[u].pc = "idle" <=> loop[u].op = "none"
           /\ loop[u].pc = "size" => loop[u].op = "add"
           /\ loop[u].op = "add" => loop[u].pc \in {"count", "size", "resize", "put"}
           /\ loop[u].pc \in {"each", "next", "bound", "pass"} <=> loop[u].op = "read"
           /\ loop[u].pc \in {"scan", "look", "found", "moved", "shift", "move"} => loop[u].op \in Removers
           /\ loop[u].pc \in {"count", "resize", "put"} => loop[u].op \in {"add"} \cup Removers
           /\ loop[u].op \in Removers => loop[u].pc \in {"scan", "look", "found", "count", "moved", "shift", "move", "resize", "put"}
           /\ loop[u].op \in Removers <=> Removing(u)
           /\ loop[u].op \in {"add"} \cup Removers <=> Changing(u)
<1>1. loop[u] \in Handlers /\ loop[u].pc \in Steps(loop[u].op)
  BY DEF TypeOK, Fits
<1>2. loop[u].op \in {"none", "add", "read"} \cup Removers /\ loop[u].n \in Nat /\ loop[u].k \in Int
  BY <1>1, HandlerFields
<1>3. loop[u].op = "none" => loop[u].pc \in {"idle"}
  BY <1>1 DEF Steps
<1>4. loop[u].op = "add" => loop[u].pc \in {"count", "size", "resize", "put"}
  BY <1>1 DEF Steps
<1>5. loop[u].op = "read" => loop[u].pc \in {"each", "next", "bound", "pass"}
  BY <1>1 DEF Steps
<1>6. loop[u].op \in Removers => loop[u].pc \in {"scan", "look", "found", "count", "moved", "shift", "move", "resize", "put"}
  BY <1>1 DEF Steps, Removers
<1>7. (loop[u].op \in Removers <=> Removing(u)) /\ (loop[u].op \in {"add"} \cup Removers <=> Changing(u))
  BY <1>2 DEF Removing, Changing, Changes, Removers
<1>8. QED
  BY <1>1, <1>2, <1>3, <1>4, <1>5, <1>6, <1>7 DEF Removers

\* The handler goes on: it does the same, and the others do nothing.
GoesOn(u, pc, n, k, item) ==
    /\ loop'[u].op = loop[u].op /\ loop'[u].msg = loop[u].msg
    /\ loop'[u].pc = pc /\ loop'[u].n = n /\ loop'[u].k = k /\ loop'[u].item = item
    /\ \A v \in Users \ {u} : loop'[v] = loop[v]
    /\ met' = met

\* It is the one that has begun.
HasBegun(u, op, pc) ==
    /\ loop'[u].op = op /\ loop'[u].pc = pc /\ loop'[u].n = 0 /\ loop'[u].item = None
    /\ \A v \in Users \ {u} : loop'[v] = loop[v]

\* It is through, and another may have begun in its place.
IsThrough(u) ==
    \/ /\ loop'[u] = Idle /\ met' = met
       /\ \A v \in Users \ {u} : loop'[v] = loop[v]
    \/ \E op \in {"inactive", "caught"} : Removes(u, op) /\ HasBegun(u, op, "scan") /\ loop'[u].msg = None

Typed == loop' \in [Users -> Handlers] /\ met \subseteq met' /\ met' \subseteq {"add", "remove"}

LEMMA MetType == ASSUME TypeOK, met' = met, loop' \in [Users -> Handlers] PROVE Typed
BY DEF Typed, TypeOK

LEMMA IdleType == Idle \in Handlers /\ Idle.op = "none" /\ Idle.pc = "idle" /\ Idle.n = 0 /\ Idle.item = None /\ Idle.msg = None
BY HandlerFields DEF Idle

LEMMA GotoStep ==
    ASSUME TypeOK, NEW u \in Users, NEW pc \in Working, Goto(u, pc)
    PROVE  /\ GoesOn(u, pc, loop[u].n, loop[u].k, loop[u].item) /\ Typed
           /\ loop'[u].owed = loop[u].owed
<1> DEFINE r == [loop[u] EXCEPT !.pc = pc]
<1>1. loop' = [loop EXCEPT ![u] = r] /\ met' = met /\ loop \in [Users -> Handlers]
  BY DEF Goto, TypeOK
<1>2. loop[u] \in Handlers
  BY <1>1
<1>3. r \in Handlers /\ r.pc = pc /\ r.op = loop[u].op /\ r.n = loop[u].n /\ r.k = loop[u].k /\ r.item = loop[u].item
      /\ r.msg = loop[u].msg /\ r.owed = loop[u].owed
  BY <1>2, HandlerFields
<1> HIDE DEF r
<1>4. QED
  BY <1>1, <1>3, MetType DEF GoesOn

LEMMA TakesStep ==
    ASSUME TypeOK, NEW u \in Users, NEW pc \in Working, NEW k \in Int, Takes(u, pc, k)
    PROVE  GoesOn(u, pc, loop[u].n, k, loop[u].item) /\ Typed
<1> DEFINE r == [loop[u] EXCEPT !.pc = pc, !.k = k]
<1>1. loop' = [loop EXCEPT ![u] = r] /\ met' = met /\ loop \in [Users -> Handlers]
  BY DEF Takes, TypeOK
<1>2. loop[u] \in Handlers
  BY <1>1
<1>3. r \in Handlers /\ r.pc = pc /\ r.op = loop[u].op /\ r.n = loop[u].n /\ r.k = k /\ r.item = loop[u].item
      /\ r.msg = loop[u].msg
  BY <1>2, HandlerFields
<1> HIDE DEF r
<1>4. QED
  BY <1>1, <1>3, MetType DEF GoesOn

LEMMA BeginsStep ==
    ASSUME TypeOK, NEW u \in Users, NEW h \in Handlers, Begins(u, h)
    PROVE  /\ Typed /\ loop'[u] = h
           /\ \A v \in Users \ {u} : loop'[v] = loop[v]
<1>1. loop' = [loop EXCEPT ![u] = h] /\ loop \in [Users -> Handlers]
  BY DEF Begins, TypeOK
<1>2. \A op : Changes(op) \subseteq {"add", "remove"}
  BY DEF Changes
<1>3. met \subseteq {"add", "remove"}
  BY DEF TypeOK
<1>4. met \subseteq met' /\ met' \subseteq {"add", "remove"}
  BY <1>2, <1>3 DEF Begins
<1>5. QED
  BY <1>1, <1>4 DEF Typed

LEMMA RemovesStep ==
    ASSUME TypeOK, NEW u \in Users, NEW op \in Removers, Removes(u, op)
    PROVE  HasBegun(u, op, "scan") /\ Typed /\ loop'[u].msg = None
<1> DEFINE h == [Idle EXCEPT !.pc = "scan", !.op = op]
<1>1. h \in Handlers /\ h.op = op /\ h.pc = "scan" /\ h.n = 0 /\ h.item = None /\ h.msg = None
  BY HandlerFields, IdleType DEF Idle, Working
<1>2. Begins(u, h)
  BY DEF Removes
<1> HIDE DEF h
<1>3. QED
  BY <1>1, <1>2, BeginsStep DEF HasBegun

LEMMA EndsStep ==
    ASSUME TypeOK, NEW u \in Users, Ends(u) \/ Fails(u)
    PROVE  IsThrough(u) /\ Typed
<1>1. CASE loop' = [loop EXCEPT ![u] = Idle] /\ UNCHANGED met
  <2>1. loop \in [Users -> Handlers]
    BY DEF TypeOK
  <2>2. QED
    BY <1>1, <2>1, IdleType, MetType DEF IsThrough
<1>2. ASSUME NEW op \in {"inactive", "caught"}, Removes(u, op)
      PROVE  IsThrough(u) /\ Typed
  BY <1>2, RemovesStep DEF IsThrough, Removers
<1>3. QED
  BY <1>1, <1>2 DEF Ends, Fails
-----------------------------------------------------------------------------
\* The steps of the handlers, one by one.
LEMMA ChannelActiveStep ==
    ASSUME TypeOK, NEW u \in Users, ChannelActive(u)
    PROVE  /\ Typed /\ HasBegun(u, "add", "count") /\ loop'[u].k = modCount
           /\ loop[u].pc = "idle" /\ chan[u] = "none" /\ chan' = [chan EXCEPT ![u] = "active"]
           /\ UNCHANGED <<page, wire, inbox, list, missed>>
<1> DEFINE h == [Idle EXCEPT !.pc = "count", !.op = "add", !.k = modCount]
<1>0. modCount \in Int
  BY DEF TypeOK
<1>1. h \in Handlers /\ h.op = "add" /\ h.pc = "count" /\ h.n = 0 /\ h.item = None /\ h.k = modCount
  BY <1>0, HandlerFields, IdleType DEF Idle, Working
<1>2. Begins(u, h)
  BY DEF ChannelActive
<1> HIDE DEF h
<1>3. Typed /\ HasBegun(u, "add", "count") /\ loop'[u].k = modCount
  BY <1>1, <1>2, BeginsStep DEF HasBegun
<1>4. QED
  BY <1>3 DEF ChannelActive, Free

LEMMA ReadStep ==
    ASSUME TypeOK, NEW u \in Users, Read(u)
    PROVE  /\ Typed /\ HasBegun(u, "read", "each") /\ loop[u].pc = "idle" /\ chan[u] \in {"upgraded", "lost"}
           /\ wire[u] # <<>> /\ Head(wire[u]) \in Message /\ Tail(wire[u]) \in Seq(Message)
           /\ wire' = [wire EXCEPT ![u] = Tail(wire[u])]
           /\ loop'[u].msg = [m |-> Head(wire[u]), mod |-> modCount]
           /\ loop'[u].owed = {v \in Users \ {u} : chan[v] = "upgraded"}
           /\ UNCHANGED <<page, inbox, chan, list, missed>>
<1> DEFINE msg == [m |-> Head(wire[u]), mod |-> modCount]
           owed == {v \in Users \ {u} : chan[v] = "upgraded"}
           h == [Idle EXCEPT !.pc = "each", !.op = "read", !.msg = msg, !.owed = owed]
<1>1. wire[u] \in Seq(Message) /\ modCount \in Nat /\ wire[u] # <<>>
  BY DEF TypeOK, Read
<1>2. Head(wire[u]) \in Message /\ Tail(wire[u]) \in Seq(Message)
  BY <1>1, HeadTailProperties
<1>3. msg \in [m : Message, mod : Nat] /\ owed \in SUBSET Users
  BY <1>1, <1>2
<1>4. Begins(u, h)
  BY DEF Read
<1>5. wire' = [wire EXCEPT ![u] = Tail(wire[u])]
  BY DEF Read, TypeOK
<1> HIDE DEF msg, owed
<1>6. h \in Handlers /\ h.op = "read" /\ h.pc = "each" /\ h.n = 0 /\ h.item = None /\ h.msg = msg /\ h.owed = owed
  BY <1>3, HandlerFields, IdleType DEF Idle, Working
<1> HIDE DEF h
<1>7. Typed /\ HasBegun(u, "read", "each") /\ loop'[u].msg = msg /\ loop'[u].owed = owed
  BY <1>4, <1>6, BeginsStep DEF HasBegun
<1>8. QED
  BY <1>1, <1>2, <1>5, <1>7 DEF Read, Free, msg, owed

LEMMA ChannelInactiveStep ==
    ASSUME TypeOK, NEW u \in Users, ChannelInactive(u)
    PROVE  /\ Typed /\ loop[u].pc = "idle" /\ chan[u] = "lost" /\ chan' = [chan EXCEPT ![u] = "gone"]
           /\ \E op \in {"inactive", "reset"} : Removes(u, op) /\ HasBegun(u, op, "scan")
           /\ UNCHANGED <<page, wire, inbox, list, missed>>
BY RemovesStep DEF ChannelInactive, Free, Removers

LEMMA CountStep ==
    ASSUME TypeOK, NEW u \in Users, Count(u)
    PROVE  /\ Typed /\ GoesOn(u, IF loop[u].op = "add" THEN "size" ELSE "moved", loop[u].n, loop[u].k, loop[u].item)
           /\ loop[u].pc = "count" /\ modCount' = loop[u].k + 1 /\ loop[u].k \in Nat
           /\ UNCHANGED <<page, net, slot, size, missed>>
<1>1. (IF loop[u].op = "add" THEN "size" ELSE "moved") \in Working
  BY DEF Working
<1>2. loop[u].k \in Nat
  BY DEF TypeOK, Fits, Count
<1>3. QED
  BY <1>1, <1>2, GotoStep DEF Count

LEMMA TakeSizeStep ==
    ASSUME TypeOK, NEW u \in Users, TakeSize(u)
    PROVE  /\ Typed /\ GoesOn(u, "resize", loop[u].n, size, loop[u].item)
           /\ loop[u].pc = "size" \/ (loop[u].pc = "shift" /\ loop[u].n + 1 >= loop[u].k)
           /\ UNCHANGED <<page, net, list, missed>>
<1>1. Typed /\ GoesOn(u, "resize", loop[u].n, size, loop[u].item)
  BY TakesStep DEF TakeSize, Working, TypeOK
<1>2. QED
  BY <1>1 DEF TakeSize

LEMMA ResizeStep ==
    ASSUME TypeOK, NEW u \in Users, Resize(u)
    PROVE  /\ Typed /\ GoesOn(u, "put", loop[u].n, loop[u].k, loop[u].item) /\ loop[u].pc = "resize"
           /\ size' = IF loop[u].op = "add" THEN loop[u].k + 1 ELSE loop[u].k - 1
           /\ UNCHANGED <<page, net, slot, modCount, missed>>
BY GotoStep DEF Resize, Working

LEMMA PutStep ==
    ASSUME TypeOK, NEW u \in Users, Put(u)
    PROVE  /\ Typed /\ IsThrough(u) /\ loop[u].pc = "put"
           /\ \/ Place(u) < 1 /\ slot' = slot
              \/ /\ Place(u) >= 1 /\ Ends(u)
                 /\ slot' = [slot EXCEPT ![Place(u)] = IF loop[u].op = "add" THEN u ELSE None]
           /\ UNCHANGED <<page, net, size, modCount, missed>>
<1>1. Place(u) \in Int
  BY HandlerSteps DEF Place
<1>2. QED
  BY <1>1, EndsStep DEF Put

LEMMA EachStep ==
    ASSUME TypeOK, NEW u \in Users, Each(u)
    PROVE  /\ Typed /\ loop[u].pc = "each"
           /\ \/ Exhausted(u) /\ IsThrough(u) /\ Misses(u)
              \/ /\ ~Exhausted(u) /\ GoesOn(u, "next", loop[u].n, loop[u].k, loop[u].item)
                 /\ loop'[u].owed = loop[u].owed /\ missed' = missed
           /\ UNCHANGED <<page, net, list>>
BY EndsStep, GotoStep DEF Each, Working

LEMMA ChecksStep ==
    ASSUME TypeOK, NEW u \in Users, Checks(u)
    PROVE  /\ Typed
           /\ \/ /\ loop[u].pc = "next" /\ modCount = loop[u].msg.mod
                 /\ GoesOn(u, "bound", loop[u].n, loop[u].k, loop[u].item)
                 /\ loop'[u].owed = loop[u].owed /\ missed' = missed
              \/ /\ loop[u].pc = "bound" /\ loop[u].n < size
                 /\ GoesOn(u, "pass", loop[u].n, loop[u].k, loop[u].item)
                 /\ loop'[u].owed = loop[u].owed /\ missed' = missed
              \/ /\ (loop[u].pc = "next" /\ modCount # loop[u].msg.mod) \/ (loop[u].pc = "bound" /\ ~(loop[u].n < size))
                 /\ IsThrough(u) /\ Misses(u)
           /\ UNCHANGED <<page, net, list>>
<1>1. loop[u].pc \in {"next", "bound"} /\ loop[u].op = "read" /\ UNCHANGED <<page, net, list>>
  BY HandlerSteps DEF Checks
<1>2. ASSUME Fails(u) PROVE Typed /\ IsThrough(u) /\ Misses(u)
  <2>1. Typed /\ IsThrough(u)
    BY <1>2, EndsStep
  <2>2. loop'[u].op \in {"none", "inactive", "caught"}
    BY <2>1, IdleType DEF IsThrough, HasBegun
  <2>3. ~(loop'[u].op = "read")
    BY <2>2
  <2>4. QED
    BY <2>1, <2>3 DEF Checks
<1>3. ASSUME NEW pc \in {"bound", "pass"}, Goto(u, pc)
      PROVE  Typed /\ GoesOn(u, pc, loop[u].n, loop[u].k, loop[u].item) /\ loop'[u].owed = loop[u].owed /\ missed' = missed
  BY <1>1, <1>3, GotoStep DEF Working, GoesOn, Checks
<1>4. CASE loop[u].pc = "next" /\ modCount = loop[u].msg.mod
  <2>1. Goto(u, "bound")
    BY <1>4 DEF Checks
  <2>2. QED
    BY <1>1, <1>3, <1>4, <2>1
<1>5. CASE loop[u].pc = "bound" /\ loop[u].n < size
  <2>1. Goto(u, "pass")
    BY <1>5 DEF Checks
  <2>2. QED
    BY <1>1, <1>3, <1>5, <2>1
<1>6. CASE (loop[u].pc = "next" /\ modCount # loop[u].msg.mod) \/ (loop[u].pc = "bound" /\ ~(loop[u].n < size))
  <2>1. Fails(u)
    BY <1>6 DEF Checks
  <2>2. QED
    BY <1>1, <1>2, <1>6, <2>1
<1>7. QED
  BY <1>1, <1>4, <1>5, <1>6

LEMMA PassStep ==
    ASSUME TypeOK, NEW u \in Users, Pass(u)
    PROVE  /\ Typed /\ loop[u].pc = "pass"
           /\ \/ Item(u) = None /\ IsThrough(u) /\ Misses(u) /\ inbox' = inbox
              \/ /\ Item(u) # None /\ GoesOn(u, "each", loop[u].n + 1, loop[u].k, loop[u].item)
                 /\ loop'[u].owed = loop[u].owed \ {Item(u)} /\ missed' = missed
                 /\ inbox' = IF Writes(u, Item(u)) THEN [inbox EXCEPT ![Item(u)] = Append(@, loop[u].msg.m)] ELSE inbox
           /\ UNCHANGED <<page, wire, chan, list>>
<1>1. CASE Item(u) = None
  BY <1>1, EndsStep DEF Pass
<1>2. CASE Item(u) # None
  <2> DEFINE owed == loop[u].owed \ {Item(u)}
             r == [loop[u] EXCEPT !.pc = "each", !.n = loop[u].n + 1, !.owed = owed]
  <2>1. loop' = [loop EXCEPT ![u] = r] /\ met' = met /\ loop \in [Users -> Handlers]
    BY <1>2 DEF Pass, TypeOK, history
  <2>2. loop[u] \in Handlers /\ loop[u].n + 1 \in Nat
    BY HandlerSteps
  <2>3. owed \in SUBSET Users
    BY <2>2, HandlerFields
  <2> HIDE DEF owed
  <2>4. r \in Handlers /\ r.pc = "each" /\ r.op = loop[u].op /\ r.n = loop[u].n + 1 /\ r.k = loop[u].k
        /\ r.item = loop[u].item /\ r.msg = loop[u].msg /\ r.owed = owed
    BY <2>2, <2>3, HandlerFields DEF Working
  <2> HIDE DEF r
  <2>5. Typed /\ GoesOn(u, "each", loop[u].n + 1, loop[u].k, loop[u].item) /\ loop'[u].owed = owed
    BY <2>1, <2>4, MetType DEF GoesOn
  <2>6. QED
    BY <1>2, <2>5 DEF Pass, owed, history
<1>3. QED
  BY <1>1, <1>2

LEMMA ScanStep ==
    ASSUME TypeOK, NEW u \in Users, Scan(u)
    PROVE  /\ Typed /\ loop[u].pc = "scan"
           /\ \/ loop[u].n < size /\ GoesOn(u, "look", loop[u].n, loop[u].k, loop[u].item)
              \/ ~(loop[u].n < size) /\ IsThrough(u) /\ Ends(u)
           /\ UNCHANGED <<page, net, list, missed>>
BY EndsStep, GotoStep DEF Scan, Working

LEMMA LookStep ==
    ASSUME TypeOK, NEW u \in Users, Look(u)
    PROVE  /\ Typed /\ loop[u].pc = "look"
           /\ \/ Item(u) = u /\ GoesOn(u, "found", loop[u].n, loop[u].k, loop[u].item)
              \/ Item(u) # u /\ GoesOn(u, "scan", loop[u].n + 1, loop[u].k, loop[u].item)
           /\ UNCHANGED <<page, net, list, missed>>
<1>1. CASE Item(u) = u
  BY <1>1, GotoStep DEF Look, Working
<1>2. CASE Item(u) # u
  <2> DEFINE r == [loop[u] EXCEPT !.pc = "scan", !.n = loop[u].n + 1]
  <2>1. loop' = [loop EXCEPT ![u] = r] /\ met' = met /\ loop \in [Users -> Handlers]
    BY <1>2 DEF Look, TypeOK
  <2>2. loop[u] \in Handlers /\ loop[u].n + 1 \in Nat
    BY HandlerSteps
  <2>3. r \in Handlers /\ r.pc = "scan" /\ r.op = loop[u].op /\ r.n = loop[u].n + 1 /\ r.k = loop[u].k
        /\ r.item = loop[u].item /\ r.msg = loop[u].msg
    BY <2>2, HandlerFields DEF Working
  <2> HIDE DEF r
  <2>4. QED
    BY <1>2, <2>1, <2>3, MetType DEF Look, GoesOn
<1>3. QED
  BY <1>1, <1>2

LEMMA FoundStep ==
    ASSUME TypeOK, NEW u \in Users, Found(u)
    PROVE  /\ Typed /\ loop[u].pc = "found" /\ GoesOn(u, "count", loop[u].n, modCount, loop[u].item)
           /\ UNCHANGED <<page, net, list, missed>>
<1>1. modCount \in Int
  BY DEF TypeOK
<1>2. QED
  BY <1>1, TakesStep DEF Found, Working

LEMMA NumMovedStep ==
    ASSUME TypeOK, NEW u \in Users, NumMoved(u)
    PROVE  /\ Typed /\ loop[u].pc = "moved" /\ GoesOn(u, "shift", loop[u].n, size, loop[u].item)
           /\ UNCHANGED <<page, net, list, missed>>
BY TakesStep DEF NumMoved, Working, TypeOK

LEMMA GrownFinite ==
    IsFiniteSet(Grown) /\ Cardinality(Grown) \in Nat /\ Cardinality(Users) \in Nat
    /\ Cardinality(Grown) <= Cardinality(Users)
<1>1. IsFiniteSet(Users) /\ Grown \subseteq Users
  BY ChatAssumption DEF Grown
<1>2. QED
  BY <1>1, FS_Subset, FS_CardinalityType

LEMMA ShiftStep ==
    ASSUME TypeOK, NEW u \in Users, Shift(u)
    PROVE  /\ Typed /\ loop[u].pc = "shift" /\ loop[u].n + 1 < loop[u].k
           /\ loop[u].n + 1 \in Slots /\ loop[u].n + 2 \in Slots
           /\ GoesOn(u, "move", loop[u].n, loop[u].k, slot[loop[u].n + 2])
           /\ UNCHANGED <<page, net, list, missed>>
<1> DEFINE r == [loop[u] EXCEPT !.pc = "move", !.item = slot[loop[u].n + 2]]
<1>1. loop' = [loop EXCEPT ![u] = r] /\ met' = met /\ loop \in [Users -> Handlers]
  BY DEF Shift, TypeOK, history
<1>2. loop[u] \in Handlers /\ loop[u].n \in Nat /\ loop[u].k \in Int /\ loop[u].n + 1 < loop[u].k /\ loop[u].k <= Cardinality(Grown)
  BY HandlerSteps DEF Shift, TypeOK, Fits
<1>3. loop[u].n + 1 \in Slots /\ loop[u].n + 2 \in Slots
  BY <1>2, GrownFinite DEF Slots
<1>4. slot[loop[u].n + 2] \in Users \cup {None}
  BY <1>3 DEF TypeOK
<1>5. r \in Handlers /\ r.pc = "move" /\ r.op = loop[u].op /\ r.n = loop[u].n /\ r.k = loop[u].k
      /\ r.item = slot[loop[u].n + 2] /\ r.msg = loop[u].msg
  BY <1>2, <1>4, HandlerFields DEF Working
<1> HIDE DEF r
<1>6. loop'[u] = r /\ Typed /\ \A v \in Users \ {u} : loop'[v] = loop[v]
  BY <1>1, <1>5, MetType
<1>7. GoesOn(u, "move", loop[u].n, loop[u].k, slot[loop[u].n + 2])
  BY <1>1, <1>5, <1>6 DEF GoesOn
<1>8. QED
  BY <1>2, <1>3, <1>6, <1>7 DEF Shift, history

LEMMA MoveStep ==
    ASSUME TypeOK, NEW u \in Users, Move(u)
    PROVE  /\ Typed /\ loop[u].pc = "move" /\ loop[u].n + 1 < loop[u].k
           /\ loop[u].n + 1 \in Slots /\ loop[u].n + 2 \in Slots
           /\ GoesOn(u, "shift", loop[u].n + 1, loop[u].k, None)
           /\ slot' = [slot EXCEPT ![loop[u].n + 1] = loop[u].item]
           /\ UNCHANGED <<page, net, size, modCount, missed>>
<1> DEFINE r == [loop[u] EXCEPT !.pc = "shift", !.n = loop[u].n + 1, !.item = None]
<1>1. loop' = [loop EXCEPT ![u] = r] /\ met' = met /\ loop \in [Users -> Handlers]
  BY DEF Move, TypeOK, history
<1>2. loop[u] \in Handlers /\ loop[u].n \in Nat /\ loop[u].k \in Int /\ loop[u].n + 1 < loop[u].k /\ loop[u].k <= Cardinality(Grown)
  BY HandlerSteps DEF Move, TypeOK, Fits
<1>3. loop[u].n + 1 \in Slots /\ loop[u].n + 2 \in Slots
  BY <1>2, GrownFinite DEF Slots
<1>4. r \in Handlers /\ r.pc = "shift" /\ r.op = loop[u].op /\ r.n = loop[u].n + 1 /\ r.k = loop[u].k
      /\ r.item = None /\ r.msg = loop[u].msg
  <2>1. loop[u].n + 1 \in Nat /\ None \in Users \cup {None} /\ "shift" \in Working
    BY <1>2 DEF Working
  <2>2. QED
    BY <1>2, <2>1, HandlerFields
<1> HIDE DEF r
<1>6. loop'[u] = r /\ Typed /\ \A v \in Users \ {u} : loop'[v] = loop[v]
  BY <1>1, <1>4, MetType
<1>7. GoesOn(u, "shift", loop[u].n + 1, loop[u].k, None)
  BY <1>1, <1>4, <1>6 DEF GoesOn
<1>8. QED
  BY <1>2, <1>3, <1>6, <1>7 DEF Move, history
-----------------------------------------------------------------------------
\* Only the channel of the event loop that takes the step changes, and one that has
\* become active stays so or is lost.
LEMMA OthersStay ==
    ASSUME TypeOK, NEW u \in Users, Page(u) \/ Server(u)
    PROVE  /\ \A v \in Users \ {u} : loop'[v] = loop[v] /\ chan'[v] = chan[v]
           /\ chan[u] # "none" => chan'[u] # "none"
<1>0. chan \in [Users -> {"none", "active", "upgraded", "lost", "gone"}]
  BY DEF TypeOK
<1>1. CASE Page(u)
  <2>1. loop' = loop
    BY <1>1, PageSteps DEF Talks, Shows, Breaks
  <2>2. chan' = chan \/ chan' = [chan EXCEPT ![u] = "lost"]
    BY <1>1, PageSteps DEF Talks, Shows, Breaks
  <2>3. QED
    BY <1>0, <2>1, <2>2
<1>2. CASE Upgrade(u)
  BY <1>0, <1>2 DEF Upgrade
<1>3. ASSUME ChannelActive(u) \/ ChannelInactive(u)
      PROVE  /\ \A v \in Users \ {u} : loop'[v] = loop[v] /\ chan'[v] = chan[v]
             /\ chan[u] # "none" => chan'[u] # "none"
  BY <1>0, <1>3, ChannelActiveStep, ChannelInactiveStep DEF HasBegun
<1>4. CASE Server(u) /\ ~Upgrade(u) /\ ~ChannelActive(u) /\ ~ChannelInactive(u)
  <2>1. chan' = chan
    BY <1>4 DEF Server, Count, TakeSize, Resize, Put, Read, Each, Checks, Pass, Scan, Look, Found, NumMoved, Shift, Move, net
  <2>2. \A v \in Users \ {u} : loop'[v] = loop[v]
    <3>1. ASSUME IsThrough(u) \/ Read(u) PROVE \A v \in Users \ {u} : loop'[v] = loop[v]
      BY <3>1, ReadStep DEF IsThrough, HasBegun
    <3>2. ASSUME NEW pc, NEW n, NEW k, NEW item, GoesOn(u, pc, n, k, item) PROVE \A v \in Users \ {u} : loop'[v] = loop[v]
      BY <3>2 DEF GoesOn
    <3>3. QED
      BY <1>4, <3>1, <3>2, CountStep, TakeSizeStep, ResizeStep, PutStep, EachStep, ChecksStep, PassStep, ScanStep,
         LookStep, FoundStep, NumMovedStep, ShiftStep, MoveStep DEF Server
  <2>3. QED
    BY <2>1, <2>2
<1>5. QED
  BY <1>1, <1>2, <1>3, <1>4

\* A handler that is adding goes on with it, or has just begun.
LEMMA AddingGoesOn ==
    ASSUME TypeOK, NEW u \in Users, Page(u) \/ Server(u), loop'[u].op = "add"
    PROVE  (chan[u] = "none" /\ loop'[u].pc = "count") \/ (loop[u].op = "add" /\ (loop[u].pc = "put" => loop'[u].pc = "put"))
<1>1. CASE Page(u) \/ Upgrade(u)
  <2>1. loop' = loop
    BY <1>1, PageSteps DEF Talks, Shows, Breaks, Upgrade
  <2>2. QED
    BY <2>1
<1>2. CASE ChannelActive(u)
  BY <1>2, ChannelActiveStep DEF HasBegun
<1>3. CASE ChannelInactive(u) \/ Read(u)
  BY <1>3, ChannelInactiveStep, ReadStep DEF HasBegun
<1>4. CASE IsThrough(u)
  BY <1>4, IdleType DEF IsThrough, HasBegun
<1>5. ASSUME NEW pc, NEW n, NEW k, NEW item, GoesOn(u, pc, n, k, item), loop[u].pc # "put"
      PROVE  loop[u].op = "add" /\ loop[u].pc # "put"
  BY <1>5 DEF GoesOn
<1>6. QED
  BY <1>1, <1>2, <1>3, <1>4, <1>5, CountStep, TakeSizeStep, ResizeStep, PutStep, EachStep, ChecksStep, PassStep, ScanStep,
     LookStep, FoundStep, NumMovedStep, ShiftStep, MoveStep DEF Server

LEMMA GrownGrows ==
    ASSUME TypeOK, NEW u \in Users, Page(u) \/ Server(u)
    PROVE  /\ Grown \subseteq Grown' /\ Cardinality(Grown) <= Cardinality(Grown)'
           /\ Cardinality(Grown) \in Nat /\ Cardinality(Grown)' \in Nat /\ Cardinality(Users) \in Nat
           /\ Cardinality(Grown) <= Cardinality(Users)
<1>1. Grown \subseteq Grown'
  BY OthersStay, AddingGoesOn DEF Grown
<1>2. Grown' \subseteq Users
  BY DEF Grown
<1>3. IsFiniteSet(Grown')
  BY <1>2, FS_Subset, ChatAssumption
<1>4. QED
  BY <1>1, <1>3, FS_Subset, FS_CardinalityType, GrownFinite

\* When add() writes the size, the channel is one more.
LEMMA ResizeGrows ==
    ASSUME TypeOK, NEW u \in Users, Resize(u), loop[u].op = "add", chan[u] # "none"
    PROVE  Cardinality(Grown)' >= Cardinality(Grown) + 1
<1>1. Server(u) /\ loop'[u].pc = "put" /\ loop[u].pc = "resize" /\ chan' = chan
  BY ResizeStep DEF Server, GoesOn, net
<1>2. u \notin Grown
  BY <1>1 DEF Grown
<1>3. u \in Grown'
  BY <1>1 DEF Grown
<1>4. Grown \cup {u} \subseteq Grown' /\ Grown' \subseteq Users
  BY <1>1, <1>3, GrownGrows DEF Grown
<1>5. IsFiniteSet(Grown') /\ IsFiniteSet(Grown)
  BY <1>4, FS_Subset, ChatAssumption, GrownFinite
<1>6. Cardinality(Grown \cup {u}) = Cardinality(Grown) + 1
  BY <1>2, <1>5, FS_AddElement
<1>7. IsFiniteSet(Grown \cup {u}) /\ Cardinality(Grown \cup {u}) <= Cardinality(Grown')
  BY <1>4, <1>5, FS_Subset
<1>8. Cardinality(Grown) \in Nat /\ Cardinality(Grown') \in Nat
  BY <1>5, FS_CardinalityType
<1>9. QED
  BY <1>6, <1>7, <1>8

\* What fits goes on fitting, for a handler that has not taken the step.
LEMMA FitsStays ==
    ASSUME TypeOK, NEW u \in Users, Page(u) \/ Server(u), NEW v \in Users, loop'[v] = loop[v]
    PROVE  Fits(v)'
<1>1. Fits(v) /\ loop[v].n \in Nat /\ loop[v].k \in Int
  BY HandlerSteps DEF TypeOK
<1>2. Cardinality(Grown) <= Cardinality(Grown)' /\ Cardinality(Grown) \in Nat /\ Cardinality(Grown)' \in Nat
  BY GrownGrows
<1>3. Place(v)' = Place(v) /\ Place(v) \in Int
  BY <1>1 DEF Place
<1>4. QED
  BY <1>1, <1>2, <1>3 DEF Fits

\* A handler that is at work is one of a channel that has become active.
LEMMA FitsNext ==
    ASSUME TypeOK, NEW u \in Users, Server(u), loop[u].pc # "idle" => chan[u] # "none"
    PROVE  Fits(u)'
<1> USE DEF GoesOn, HasBegun
<1>h. PICK g \in Nat, h \in Nat : g = Cardinality(Grown) /\ h = Cardinality(Grown)'
  BY GrownGrows
<1>0. /\ g <= h /\ Fits(u) /\ size \in Int /\ size <= g
      /\ loop[u].n \in Nat /\ loop[u].k \in Int /\ modCount \in Nat
  BY <1>h, GrownGrows, HandlerSteps DEF TypeOK
<1>s. /\ Steps("none") = {"idle"} /\ Steps("add") = {"count", "size", "resize", "put"}
      /\ Steps("read") = {"each", "next", "bound", "pass"}
      /\ \A op \in Removers : Steps(op) = {"scan", "look", "found", "count", "moved", "shift", "move", "resize", "put"}
  BY DEF Steps, Removers
<1>p. loop[u].op = loop'[u].op /\ loop[u].k = loop'[u].k => Place(u)' = Place(u)
  BY DEF Place
<1>1. CASE ChannelActive(u)
  BY <1>0, <1>h, <1>s, <1>1, ChannelActiveStep DEF Fits
<1>2. CASE Upgrade(u)
  BY <1>2, FitsStays DEF Upgrade
<1>3. CASE Read(u)
  <2>1. loop'[u].msg \in [m : Message, mod : Nat]
    <3>1. Head(wire[u]) \in Message /\ loop'[u].msg = [m |-> Head(wire[u]), mod |-> modCount]
      BY <1>3, ReadStep
    <3>2. QED
      BY <1>0, <3>1
  <2>2. QED
    BY <1>0, <1>h, <1>s, <1>3, <2>1, ReadStep DEF Fits
<1>4. CASE ChannelInactive(u)
  BY <1>0, <1>h, <1>s, <1>4, ChannelInactiveStep DEF Fits, Removers
<1>5. CASE IsThrough(u)
  BY <1>0, <1>h, <1>s, <1>5, IdleType DEF Fits, IsThrough, Removers
<1>6. CASE Count(u)
  BY <1>0, <1>h, <1>s, <1>6, CountStep, HandlerSteps DEF Fits
<1>7. CASE TakeSize(u)
  BY <1>0, <1>h, <1>s, <1>7, TakeSizeStep, HandlerSteps DEF Fits
<1>8. CASE Resize(u)
  <2>1. Place(u)' = IF loop[u].op = "add" THEN loop[u].k + 1 ELSE loop[u].k
    BY <1>8, ResizeStep DEF Place
  <2>2. loop[u].k <= g
    BY <1>h, <1>8, ResizeStep DEF TypeOK, Fits
  <2>3. loop[u].op = "add" => h >= g + 1
    BY <1>h, <1>8, ResizeGrows, ResizeStep
  <2>4. Place(u)' <= h
    BY <1>0, <2>1, <2>2, <2>3
  <2>5. QED
    BY <1>0, <1>h, <1>s, <1>8, <2>4, ResizeStep, HandlerSteps DEF Fits
<1>9. CASE Each(u) /\ ~IsThrough(u)
  BY <1>0, <1>h, <1>s, <1>9, EachStep, HandlerSteps DEF Fits
<1>10. CASE Checks(u) /\ ~IsThrough(u)
  BY <1>0, <1>h, <1>s, <1>10, ChecksStep, HandlerSteps DEF Fits
<1>11. CASE Pass(u) /\ ~IsThrough(u)
  BY <1>0, <1>h, <1>s, <1>11, PassStep, HandlerSteps DEF Fits
<1>12. CASE Scan(u) /\ ~IsThrough(u)
  BY <1>0, <1>h, <1>s, <1>12, ScanStep, HandlerSteps DEF Fits
<1>13. CASE Look(u)
  BY <1>0, <1>h, <1>s, <1>13, LookStep, HandlerSteps DEF Fits
<1>14. CASE Found(u)
  BY <1>0, <1>h, <1>s, <1>14, FoundStep, HandlerSteps DEF Fits
<1>15. CASE NumMoved(u)
  BY <1>0, <1>h, <1>s, <1>15, NumMovedStep, HandlerSteps DEF Fits
<1>16. CASE Shift(u)
  BY <1>0, <1>h, <1>s, <1>16, ShiftStep, HandlerSteps DEF Fits
<1>17. CASE Move(u)
  BY <1>0, <1>h, <1>s, <1>17, MoveStep, HandlerSteps DEF Fits
<1>18. QED
  BY <1>1, <1>2, <1>3, <1>4, <1>5, <1>6, <1>7, <1>8, <1>9, <1>10, <1>11, <1>12, <1>13, <1>14, <1>15, <1>16, <1>17, PutStep DEF Server
-----------------------------------------------------------------------------
\* The part of the type that is about the connections and the server.
WireType ==
    /\ said \in [Users -> Nat]
    /\ shown \in [Users -> Seq(Message)] /\ wire \in [Users -> Seq(Message)] /\ inbox \in [Users -> Seq(Message)]
    /\ chan \in [Users -> {"none", "active", "upgraded", "lost", "gone"}]

ListType ==
    /\ loop \in [Users -> Handlers] /\ (\A u \in Users : Fits(u))
    /\ slot \in [Slots -> Users \cup {None}] /\ size \in Int /\ size <= Cardinality(Grown)
    /\ modCount \in Nat
    /\ met \subseteq {"add", "remove"} /\ missed \subseteq Message \X Users

LEMMA TypeParts == TypeOK <=> PageType /\ WireType /\ ListType
BY DEF TypeOK, PageType, WireType, ListType

LEMMA SayType ==
    ASSUME WireType, NEW u \in Users, Say(u)
    PROVE  said' \in [Users -> Nat] /\ wire' \in [Users -> Seq(Message)]
<1>1. [from |-> u, no |-> said[u] + 1] \in Message
  BY DEF WireType, Message
<1>2. Append(wire[u], [from |-> u, no |-> said[u] + 1]) \in Seq(Message)
  BY <1>1, AppendProperties DEF WireType
<1>3. QED
  BY <1>2 DEF Say, WireType

\* The item of an iterator is one of the places.
LEMMA ItemType ==
    ASSUME TypeOK, NEW u \in Users, loop[u].pc \in {"look", "pass"}
    PROVE  loop[u].n \in Nat /\ loop[u].n + 1 \in Slots /\ Item(u) \in Users \cup {None}
<1>1. loop[u].n \in Nat /\ loop[u].n < Cardinality(Grown)
  BY HandlerSteps DEF TypeOK, Fits
<1>2. loop[u].n + 1 \in Slots
  BY <1>1, GrownFinite DEF Slots
<1>3. QED
  BY <1>1, <1>2 DEF TypeOK, Item

LEMMA WireTypeNext ==
    ASSUME TypeOK, NEW u \in Users, Page(u) \/ Server(u)
    PROVE  WireType'
<1>0. WireType
  BY TypeParts
<1>1. CASE Talks(u)
  <2>1. said' \in [Users -> Nat] /\ wire' \in [Users -> Seq(Message)]
    BY <1>0, <1>1, SayType DEF Talks, WireType
  <2>2. QED
    BY <1>0, <1>1, <2>1 DEF Talks, WireType
<1>2. CASE Shows(u)
  <2>1. inbox[u] \in Seq(Message) /\ inbox[u] # <<>> /\ shown[u] \in Seq(Message)
    BY <1>0, <1>2 DEF Shows, WireType
  <2>2. Head(inbox[u]) \in Message /\ Tail(inbox[u]) \in Seq(Message)
    BY <2>1, HeadTailProperties
  <2>3. Append(shown[u], Head(inbox[u])) \in Seq(Message)
    BY <2>1, <2>2, AppendProperties
  <2>4. QED
    BY <1>0, <1>2, <2>2, <2>3 DEF Shows, WireType
<1>3. ASSUME NEW rest \in BOOLEAN, Breaks(u, rest) PROVE WireType'
  <2>1. <<>> \in Seq(Message)
    BY EmptySeq
  <2>2. QED
    BY <1>0, <1>3, <2>1 DEF Breaks, WireType
<1>4. CASE Read(u)
  BY <1>0, <1>4, ReadStep DEF WireType, page
<1>5. CASE Pass(u)
  <2>1. UNCHANGED <<said, shown, wire, chan>>
    BY <1>5 DEF Pass, page
  <2>2. CASE inbox' = inbox
    BY <1>0, <2>1, <2>2 DEF WireType
  <2>3. CASE Item(u) \in Users /\ inbox' = [inbox EXCEPT ![Item(u)] = Append(@, loop[u].msg.m)]
    <3>1. loop[u].msg.m \in Message
      BY <1>5, PassStep, HandlerSteps DEF TypeOK, Fits
    <3>2. Append(inbox[Item(u)], loop[u].msg.m) \in Seq(Message)
      BY <1>0, <2>3, <3>1, AppendProperties DEF WireType
    <3>3. QED
      BY <1>0, <2>1, <2>3, <3>2 DEF WireType
  <2>4. QED
    BY <1>5, <2>2, <2>3, PassStep, ItemType
<1>6. CASE ChannelActive(u) \/ ChannelInactive(u) \/ Upgrade(u)
  BY <1>0, <1>6 DEF ChannelActive, ChannelInactive, Upgrade, WireType, page
<1>7. CASE Server(u) /\ ~Read(u) /\ ~Pass(u) /\ ~(ChannelActive(u) \/ ChannelInactive(u) \/ Upgrade(u))
  <2>1. UNCHANGED <<said, shown, net>>
    BY <1>7 DEF Server, Count, TakeSize, Resize, Put, Each, Checks, Scan, Look, Found, NumMoved, Shift, Move, page
  <2>2. QED
    BY <1>0, <2>1 DEF WireType, net
<1>8. QED
  BY <1>1, <1>2, <1>3, <1>4, <1>5, <1>6, <1>7, PageSteps

LEMMA MissesType ==
    ASSUME TypeOK, NEW u \in Users, loop[u].op = "read", Misses(u)
    PROVE  missed' \subseteq Message \X Users
<1>1. loop[u].msg.m \in Message /\ loop[u].owed \subseteq Users
  BY HandlerFields DEF TypeOK, Fits
<1>2. QED
  BY <1>1 DEF Misses, TypeOK

LEMMA ListTypeNext ==
    ASSUME TypeOK, UnlistedInv, NEW u \in Users, Page(u) \/ Server(u)
    PROVE  ListType'
<1>h. PICK g \in Nat, h \in Nat : g = Cardinality(Grown) /\ h = Cardinality(Grown)'
  BY GrownGrows
<1>0. g <= h /\ size \in Int /\ size <= g /\ loop[u].k \in Int /\ modCount \in Nat
  BY <1>h, GrownGrows, HandlerSteps DEF TypeOK
<1>1. ListType
  BY TypeParts
<1>2. CASE Page(u)
  <2>1. UNCHANGED <<loop, list, history>>
    BY <1>2, PageSteps DEF Talks, Shows, Breaks
  <2>2. \A v \in Users : Fits(v)'
    BY <1>2, <2>1, FitsStays
  <2>3. QED
    BY <1>0, <1>h, <1>1, <2>1, <2>2 DEF ListType, list, history
<1>3. CASE Server(u)
  <2>1. \A v \in Users : Fits(v)'
    <3>1. \A v \in Users \ {u} : Fits(v)'
      BY <1>3, OthersStay, FitsStays
    <3>2. Fits(u)'
      BY <1>3, FitsNext DEF UnlistedInv
    <3>3. QED
      BY <3>1, <3>2
  <2>2. Typed
    <3>1. CASE Upgrade(u)
      BY <1>1, <3>1 DEF Upgrade, Typed, ListType, history
    <3>2. QED
      BY <1>3, <3>1, ChannelActiveStep, ReadStep, ChannelInactiveStep, CountStep, TakeSizeStep, ResizeStep, PutStep, EachStep,
         ChecksStep, PassStep, ScanStep, LookStep, FoundStep, NumMovedStep, ShiftStep, MoveStep DEF Server
  <2>3. size' \in Int /\ size' <= h
    <3>1. CASE Resize(u)
      <4>1. loop[u].k <= g
        BY <1>h, <3>1, ResizeStep DEF TypeOK, Fits
      <4>2. loop[u].op = "add" => h >= g + 1
        BY <1>h, <3>1, ResizeGrows, ResizeStep DEF UnlistedInv
      <4>3. QED
        BY <1>0, <3>1, <4>1, <4>2, ResizeStep
    <3>2. CASE ~Resize(u)
      <4>1. size' = size
        BY <1>3, <3>2 DEF Server, ChannelActive, Count, TakeSize, Put, Upgrade, Read, Each, Checks, Pass,
                          ChannelInactive, Scan, Look, Found, NumMoved, Shift, Move, list
      <4>2. QED
        BY <1>0, <4>1
    <3>3. QED
      BY <3>1, <3>2
  <2>4. modCount' \in Nat
    <3>1. CASE Count(u)
      BY <3>1, CountStep
    <3>2. CASE ~Count(u)
      <4>1. modCount' = modCount
        BY <1>3, <3>2 DEF Server, ChannelActive, Resize, TakeSize, Put, Upgrade, Read, Each, Checks, Pass,
                          ChannelInactive, Scan, Look, Found, NumMoved, Shift, Move, list
      <4>2. QED
        BY <1>0, <4>1
    <3>3. QED
      BY <3>1, <3>2
  <2>5. slot' \in [Slots -> Users \cup {None}]
    <3>1. CASE Put(u)
      BY <1>1, <3>1, PutStep DEF ListType
    <3>2. CASE Move(u)
      <4>1. loop[u].item \in Users \cup {None}
        BY HandlerSteps, HandlerFields
      <4>2. QED
        BY <1>1, <3>2, <4>1, MoveStep DEF ListType
    <3>3. CASE ~Put(u) /\ ~Move(u)
      <4>1. slot' = slot
        BY <1>3, <3>3 DEF Server, ChannelActive, Count, Resize, TakeSize, Upgrade, Read, Each, Checks, Pass,
                          ChannelInactive, Scan, Look, Found, NumMoved, Shift, list
      <4>2. QED
        BY <1>1, <4>1 DEF ListType
    <3>4. QED
      BY <3>1, <3>2, <3>3
  <2>6. missed' \subseteq Message \X Users
    <3>1. CASE Each(u) \/ Checks(u) \/ Pass(u)
      <4>1. loop[u].op = "read"
        BY <3>1, EachStep, ChecksStep, PassStep, HandlerSteps
      <4>2. Misses(u) \/ missed' = missed
        BY <3>1, EachStep, ChecksStep, PassStep
      <4>3. QED
        BY <1>1, <4>1, <4>2, MissesType DEF ListType
    <3>2. CASE ~(Each(u) \/ Checks(u) \/ Pass(u))
      <4>1. missed' = missed
        BY <1>3, <3>2 DEF Server, ChannelActive, Count, Resize, TakeSize, Put, Upgrade, Read,
                          ChannelInactive, Scan, Look, Found, NumMoved, Shift, Move, history
      <4>2. QED
        BY <1>1, <4>1 DEF ListType
    <3>3. QED
      BY <3>1, <3>2
  <2>7. QED
    BY <1>h, <2>1, <2>2, <2>3, <2>4, <2>5, <2>6 DEF ListType, Typed
<1>4. QED
  BY <1>2, <1>3

LEMMA TypeNext ==
    ASSUME TypeOK, UnlistedInv, [Next]_vars
    PROVE  TypeOK'
<1>1. ASSUME NEW u \in Users, Page(u) \/ Server(u) PROVE TypeOK'
  <2>1. PageType' /\ WireType' /\ ListType'
    BY <1>1, PageTypeNext, WireTypeNext, ListTypeNext
  <2>2. QED
    BY <2>1, TypeParts, PTL
<1>2. CASE UNCHANGED vars
  <2>1. Grown' = Grown /\ Cardinality(Grown)' = Cardinality(Grown)
    BY <1>2 DEF vars, net, Grown
  <2>2. \A v \in Users : Fits(v)'
    BY <1>2, <2>1 DEF TypeOK, Fits, Place, vars
  <2>3. QED
    BY <1>2, <2>1, <2>2 DEF TypeOK, vars, page, net, list, history
<1>3. QED
  BY <1>1, <1>2 DEF Next
-----------------------------------------------------------------------------
\* Sequences: what comes first of the one is what comes last of the other.
LEMMA HeadMoves ==
    ASSUME NEW s \in Seq(Message), NEW t \in Seq(Message), t # <<>>
    PROVE  Append(s, Head(t)) \o Tail(t) = s \o t
<1>1. Head(t) \in Message /\ Tail(t) \in Seq(Message) /\ Len(t) \in Nat /\ Len(t) > 0 /\ Len(s) \in Nat
  BY HeadTailProperties, LenProperties, EmptySeq
<1>2. t = <<Head(t)>> \o Tail(t)
  BY HeadTailProperties, ConcatProperties
<1>3. Append(s, Head(t)) = s \o <<Head(t)>>
  BY <1>1, AppendIsConcat
<1>4. <<Head(t)>> \in Seq(Message)
  BY <1>1
<1>5. QED
  BY <1>1, <1>2, <1>3, <1>4, ConcatAssociative

LEMMA AppendMoves ==
    ASSUME NEW s \in Seq(Message), NEW t \in Seq(Message), NEW m \in Message
    PROVE  s \o Append(t, m) = Append(s \o t, m)
<1>1. <<m>> \in Seq(Message) /\ s \o t \in Seq(Message)
  BY ConcatProperties
<1>2. QED
  BY <1>1, AppendIsConcat, ConcatAssociative

LEMMA GotTypes ==
    ASSUME TypeOK, NEW v \in Users
    PROVE  /\ shown[v] \in Seq(Message) /\ inbox[v] \in Seq(Message) /\ Got(v) \in Seq(Message)
           /\ \A k \in 1 .. Len(Got(v)) : Got(v)[k] \in Message
<1>1. shown[v] \in Seq(Message) /\ inbox[v] \in Seq(Message)
  BY DEF TypeOK
<1>2. Got(v) \in Seq(Message)
  BY <1>1, ConcatProperties DEF Got
<1>3. QED
  BY <1>1, <1>2, ElementOfSeq

\* What a step does to what the pages have got: nothing, or an end of it is lost, or
\* the message that is being passed round comes last.
LEMMA GotNext ==
    ASSUME TypeOK, NEW u \in Users, Page(u) \/ Server(u)
    PROVE  \/ \A v \in Users : Got(v)' = Got(v)
           \/ \A v \in Users : Got(v)' \in {Got(v), shown[v] \o <<>>}
           \/ \E w \in Users \ {u} :
                /\ Pass(u) /\ w = Item(u) /\ Got(w)' = Append(Got(w), loop[u].msg.m)
                /\ \A v \in Users \ {w} : Got(v)' = Got(v)
<1>1. CASE UNCHANGED <<shown, inbox>>
  BY <1>1 DEF Got
<1>2. CASE Shows(u)
  <2>1. Got(u)' = Got(u)
    <3>1. shown'[u] = Append(shown[u], Head(inbox[u])) /\ inbox'[u] = Tail(inbox[u]) /\ inbox[u] # <<>>
      BY <1>2 DEF Shows, TypeOK
    <3>2. QED
      BY <3>1, HeadMoves, GotTypes DEF Got
  <2>2. \A v \in Users \ {u} : Got(v)' = Got(v)
    BY <1>2 DEF Shows, TypeOK, Got
  <2>3. QED
    BY <2>1, <2>2
<1>3. ASSUME NEW rest \in BOOLEAN, Breaks(u, rest)
      PROVE  \A v \in Users : Got(v)' \in {Got(v), shown[v] \o <<>>}
  BY <1>3 DEF Breaks, TypeOK, Got
<1>4. CASE Pass(u) /\ ~UNCHANGED inbox
  <2>1. PICK w \in Users : w = Item(u)
    BY <1>4, PassStep, ItemType
  <2>2. w # u /\ inbox' = [inbox EXCEPT ![w] = Append(@, loop[u].msg.m)] /\ UNCHANGED shown
    BY <1>4, <2>1, PassStep DEF Writes, page
  <2>3. loop[u].msg.m \in Message
    BY <1>4, PassStep, HandlerSteps DEF TypeOK, Fits
  <2>4. inbox'[w] = Append(inbox[w], loop[u].msg.m) /\ \A v \in Users \ {w} : inbox'[v] = inbox[v]
    BY <2>2 DEF TypeOK
  <2>5. Append(Got(w), loop[u].msg.m) = shown[w] \o Append(inbox[w], loop[u].msg.m)
    BY <2>3, AppendMoves, GotTypes DEF Got
  <2>6. Got(w)' = Append(Got(w), loop[u].msg.m) /\ \A v \in Users \ {w} : Got(v)' = Got(v)
    BY <2>2, <2>4, <2>5 DEF Got
  <2>7. QED
    BY <1>4, <2>1, <2>2, <2>6
<1>5. CASE Server(u)
  BY <1>1, <1>4, <1>5 DEF Server, ChannelActive, Count, TakeSize, Resize, Put, Upgrade, Read, Each, Checks, Pass,
                          ChannelInactive, Scan, Look, Found, NumMoved, Shift, Move, page, net
<1>6. QED
  BY <1>1, <1>2, <1>3, <1>5, PageSteps DEF Talks
-----------------------------------------------------------------------------
\* What comes into the array, and what remove() holds of it.
LEMMA SlotNext ==
    ASSUME TypeOK, NEW u \in Users, Page(u) \/ Server(u), NEW i \in Slots
    PROVE  \/ slot'[i] \in {None, slot[i]}
           \/ Put(u) /\ loop[u].op = "add" /\ i = Place(u) /\ slot'[i] = u
           \/ Move(u) /\ i = loop[u].n + 1 /\ slot'[i] = loop[u].item
<1>0. slot \in [Slots -> Users \cup {None}]
  BY DEF TypeOK
<1>1. CASE Put(u)
  BY <1>0, <1>1, PutStep
<1>2. CASE Move(u)
  BY <1>0, <1>2, MoveStep
<1>3. CASE Page(u)
  <2>1. UNCHANGED list
    BY <1>3, PageSteps DEF Talks, Shows, Breaks
  <2>2. QED
    BY <2>1 DEF list
<1>4. CASE Server(u) /\ ~Put(u) /\ ~Move(u)
  BY <1>4 DEF Server, ChannelActive, Count, Resize, TakeSize, Upgrade, Read, Each, Checks, Pass,
              ChannelInactive, Scan, Look, Found, NumMoved, Shift, list
<1>5. QED
  BY <1>1, <1>2, <1>3, <1>4

LEMMA ItemNext ==
    ASSUME TypeOK, NEW u \in Users, Page(u) \/ Server(u), NEW v \in Users
    PROVE  \/ loop'[v].item \in {None, loop[v].item}
           \/ \E j \in Slots : loop'[v].item = slot[j]
<1>1. CASE v # u
  BY <1>1, OthersStay
<1>2. CASE Page(u) \/ Upgrade(u)
  <2>1. loop' = loop
    BY <1>2, PageSteps DEF Talks, Shows, Breaks, Upgrade
  <2>2. QED
    BY <2>1
<1>3. CASE v = u /\ Server(u) /\ ~Upgrade(u)
  <2>1. CASE IsThrough(u) \/ ChannelActive(u) \/ ChannelInactive(u) \/ Read(u)
    <3>1. loop'[u].item = None
      BY <2>1, IdleType, ChannelActiveStep, ChannelInactiveStep, ReadStep DEF IsThrough, HasBegun
    <3>2. QED
      BY <1>3, <3>1
  <2>2. ASSUME NEW pc, NEW n, NEW k, GoesOn(u, pc, n, k, loop[u].item) \/ GoesOn(u, pc, n, k, None)
        PROVE  loop'[v].item \in {None, loop[v].item}
    BY <1>3, <2>2 DEF GoesOn
  <2>3. CASE Shift(u)
    BY <1>3, <2>3, ShiftStep DEF GoesOn
  <2>4. QED
    BY <1>3, <2>1, <2>2, <2>3, CountStep, TakeSizeStep, ResizeStep, PutStep, EachStep, ChecksStep, PassStep, ScanStep,
       LookStep, FoundStep, NumMovedStep, MoveStep DEF Server
<1>4. QED
  BY <1>1, <1>2, <1>3

LEMMA UnlistedNext ==
    ASSUME TypeOK, UnlistedInv, [Next]_vars
    PROVE  UnlistedInv'
<1>1. CASE UNCHANGED vars
  BY <1>1 DEF UnlistedInv, Unlisted, Got, vars, page, net, list
<1>2. ASSUME NEW u \in Users, Page(u) \/ Server(u) PROVE UnlistedInv'
  <2>1. ASSUME NEW v \in Users, chan'[v] = "none" PROVE loop'[v].pc = "idle"
    <3>1. CASE v # u
      BY <1>2, <2>1, <3>1, OthersStay DEF UnlistedInv
    <3>2. CASE v = u
      <4>1. chan[u] = "none" /\ loop[u].pc = "idle"
        BY <1>2, <2>1, <3>2, OthersStay DEF UnlistedInv
      <4>2. CASE Page(u)
        <5>1. loop' = loop
          BY <4>2, PageSteps DEF Talks, Shows, Breaks
        <5>2. QED
          BY <3>2, <4>1, <5>1
      <4>3. ASSUME Server(u) PROVE FALSE
        <5>1. CASE ChannelActive(u)
          <6>1. chan'[u] = "active"
            BY <5>1 DEF ChannelActive, TypeOK
          <6>2. QED
            BY <2>1, <3>2, <6>1
        <5>2. CASE ~ChannelActive(u)
          <6>1. ~Upgrade(u) /\ ~Read(u) /\ ~ChannelInactive(u)
            BY <4>1 DEF Upgrade, Read, ChannelInactive
          <6>2. loop[u].pc # "idle"
            BY <4>3, <5>2, <6>1 DEF Server, Count, TakeSize, Resize, Put, Each, Checks, Pass,
                                    Scan, Look, Found, NumMoved, Shift, Move
          <6>3. QED
            BY <4>1, <6>2
        <5>3. QED
          BY <5>1, <5>2
      <4>4. QED
        BY <1>2, <4>2, <4>3
    <3>3. QED
      BY <3>1, <3>2
  <2>2. ASSUME NEW v \in Users, Unlisted(v)'
        PROVE  /\ Unlisted(v) /\ (\A i \in Slots : slot[i] # v) /\ (\A w \in Users : loop[w].item # v) /\ Got(v) = <<>>
    <3>1. Unlisted(v)
      BY <1>2, <2>2, OthersStay, AddingGoesOn DEF Unlisted
    <3>2. QED
      BY <3>1 DEF UnlistedInv
  <2>3. ASSUME NEW v \in Users, Unlisted(v)', NEW i \in Slots PROVE slot'[i] # v
    <3>1. v # None /\ slot[i] # v /\ loop[u].item # v
      BY <2>2, <2>3, ChatAssumption
    <3>2. ASSUME Put(u), loop[u].op = "add", i = Place(u) PROVE v # u
      <4>1. CASE loop'[u].op = "add"
        BY <3>2, <4>1, PutStep, IdleType DEF IsThrough, HasBegun
      <4>2. CASE loop'[u].op # "add"
        <5>1. chan'[u] # "none"
          BY <1>2, <3>2, PutStep, OthersStay DEF UnlistedInv
        <5>2. QED
          BY <2>3, <4>2, <5>1 DEF Unlisted
      <4>3. QED
        BY <4>1, <4>2
    <3>3. QED
      BY <1>2, <3>1, <3>2, SlotNext
  <2>4. ASSUME NEW v \in Users, Unlisted(v)', NEW w \in Users PROVE loop'[w].item # v
    BY <1>2, <2>2, <2>4, ItemNext, ChatAssumption
  <2>5. ASSUME NEW v \in Users, Unlisted(v)' PROVE Got(v)' = <<>>
    <3>1. Got(v) = <<>>
      BY <2>2, <2>5
    <3>2. shown[v] \o <<>> = <<>>
      <4>1. shown[v] \in Seq(Message) /\ inbox[v] \in Seq(Message) /\ Len(shown[v] \o inbox[v]) = 0
        BY <3>1, GotTypes, EmptySeq DEF Got
      <4>2. Len(shown[v]) \in Nat /\ Len(inbox[v]) \in Nat /\ Len(shown[v]) + Len(inbox[v]) = 0
        BY <4>1, LenProperties, ConcatProperties
      <4>3. shown[v] = <<>>
        <5>0. \A a, b \in Nat : a + b = 0 => a = 0
          OBVIOUS
        <5>1. Len(shown[v]) = 0
          BY <4>2, <5>0
        <5>2. QED
          BY <4>1, <5>1, EmptySeq
      <4>4. QED
        BY <4>1, <4>3, ConcatEmptySeq
    <3>3. ASSUME Pass(u), Item(u) \in Users PROVE v # Item(u)
      BY <2>2, <2>5, <3>3, PassStep, ItemType DEF Item
    <3>4. QED
      BY <1>2, <3>1, <3>2, <3>3, GotNext
  <2>6. QED
    BY <2>1, <2>3, <2>4, <2>5 DEF UnlistedInv
<1>3. QED
  BY <1>1, <1>2 DEF Next
-----------------------------------------------------------------------------
LEMMA MetGrows ==
    ASSUME TypeOK, NEW u \in Users, Page(u) \/ Server(u)
    PROVE  met \subseteq met'
<1>1. CASE Page(u) \/ Upgrade(u)
  BY <1>1, PageSteps DEF Talks, Shows, Breaks, Upgrade, history
<1>2. CASE Server(u) /\ ~Upgrade(u)
  BY <1>2, ChannelActiveStep, ReadStep, ChannelInactiveStep, CountStep, TakeSizeStep, ResizeStep, PutStep, EachStep,
     ChecksStep, PassStep, ScanStep, LookStep, FoundStep, NumMovedStep, ShiftStep, MoveStep DEF Server, Typed
<1>3. QED
  BY <1>1, <1>2

\* A handler that begins while another is removing, or that removes while another is at
\* the list, is held against "remove".
LEMMA BeginsAlone ==
    ASSUME TypeOK, NEW u \in Users, NEW h, Begins(u, h), "remove" \notin met'
    PROVE  /\ \A v \in Users \ {u} : ~Removing(v)
           /\ Changes(h.op) = {"remove"} => \A v \in Users \ {u} : loop[v].pc = "idle"
<1>1. \A v \in Users \ {u} : loop[v].pc # "idle" => "remove" \notin Changes(h.op) \cup Changes(loop[v].op)
  BY DEF Begins, Busy
<1>2. \A v \in Users \ {u} : Removing(v) => loop[v].pc # "idle"
  BY HandlerSteps DEF Removers
<1>3. QED
  BY <1>1, <1>2 DEF Removing

LEMMA RemovesAlone ==
    ASSUME TypeOK, NEW u \in Users, NEW op \in Removers, Removes(u, op), "remove" \notin met'
    PROVE  \A v \in Users \ {u} : loop[v].pc = "idle"
<1>1. [Idle EXCEPT !.pc = "scan", !.op = op].op = op
  BY DEF Idle
<1>2. Changes(op) = {"remove"}
  BY DEF Changes, Removers
<1>3. QED
  BY <1>1, <1>2, BeginsAlone DEF Removes

\* Where a channel stands twice while one handler is removing.
LEMMA TwiceBy ==
    ASSUME TypeOK, NEW u \in Users, Removing(u), Alone(u), NEW i \in Slots, NEW j \in Slots, Twice(i, j)
    PROVE  loop[u].pc \in {"shift", "move", "resize", "put"} /\ i = loop[u].n /\ j = i + 1
<1>1. PICK w \in Users : Removing(w) /\ loop[w].pc \in {"shift", "move", "resize", "put"} /\ i = loop[w].n /\ j = i + 1
  BY DEF Twice
<1>2. w = u
  BY <1>1 DEF Alone
<1>3. QED
  BY <1>1, <1>2

Single == \A i, j \in Slots : i < j /\ slot[i] = slot[j] /\ slot[i] # None => Twice(i, j)

\* A step of a handler that does not remove, while nobody does.
LEMMA PlaceOthers ==
    ASSUME TypeOK, UnlistedInv, PlaceInv, NEW u \in Users, Page(u) \/ Server(u), "remove" \notin met',
           ~Removing(u), \A v \in Users \ {u} : ~Removing(v)
    PROVE  Single'
<1>1. \A v \in Users : ~Removing(v)
  OBVIOUS
<1>2. \A i, j \in Slots : i < j /\ slot[i] = slot[j] => slot[i] = None
  BY <1>1, MetGrows DEF PlaceInv, Twice
<1>3. ~Move(u)
  BY <1>1, MoveStep, HandlerSteps
<1>4. ASSUME Put(u), loop[u].op = "add" PROVE \A i \in Slots : slot[i] # u
  BY <1>4 DEF UnlistedInv, Unlisted
<1>5. u # None
  BY ChatAssumption
<1>6. ASSUME NEW i \in Slots, NEW j \in Slots, i < j, slot'[i] = slot'[j], slot'[i] # None PROVE FALSE
  <2>1. i \in Nat /\ j \in Nat
    BY DEF Slots
  <2>2. \/ slot'[i] = slot[i]
        \/ Put(u) /\ loop[u].op = "add" /\ i = Place(u) /\ slot'[i] = u
    BY <1>3, <1>6, SlotNext
  <2>3. \/ slot'[j] = slot[j]
        \/ Put(u) /\ loop[u].op = "add" /\ j = Place(u) /\ slot'[j] = u
    BY <1>3, <1>6, SlotNext
  <2>4. QED
    BY <1>2, <1>4, <1>6, <2>1, <2>2, <2>3
<1>7. QED
  BY <1>6 DEF Single
-----------------------------------------------------------------------------
\* A handler that removes by itself: what it has come to at each step.
LEMMA AloneNext ==
    ASSUME TypeOK, NEW u \in Users, Server(u), Removing(u), Alone(u), "remove" \notin met'
    PROVE  Removing(u)' => Alone(u)'
<1> USE DEF Alone, GoesOn
<1>0. /\ loop[u].op \in Removers /\ loop[u].n \in Nat /\ loop[u].k \in Int /\ size \in Int /\ loop[u].pc # "idle"
      /\ \A v \in Users \ {u} : loop'[v].pc = "idle"
  <2>1. size \in Int
    BY DEF TypeOK
  <2>2. \A v \in Users \ {u} : loop'[v].pc = "idle"
    BY OthersStay
  <2>3. QED
    BY <2>1, <2>2, HandlerSteps DEF Removers
<1>1. CASE IsThrough(u)
  BY <1>0, <1>1, IdleType DEF IsThrough, HasBegun, Removing, Changes
<1>2. CASE Count(u)
  BY <1>0, <1>2, CountStep DEF Removers
<1>3. CASE TakeSize(u)
  BY <1>0, <1>3, TakeSizeStep, HandlerSteps DEF Removers, list
<1>4. CASE Resize(u)
  BY <1>0, <1>4, ResizeStep
<1>5. CASE Scan(u)
  BY <1>0, <1>1, <1>5, ScanStep DEF list
<1>6. CASE Look(u)
  BY <1>0, <1>6, LookStep DEF list
<1>7. CASE Found(u)
  BY <1>0, <1>7, FoundStep DEF list
<1>8. CASE NumMoved(u)
  BY <1>0, <1>8, NumMovedStep DEF list
<1>9. CASE Shift(u)
  <2>1. loop'[u].item = slot'[loop'[u].n + 2]
    BY <1>9, ShiftStep DEF list
  <2>2. QED
    BY <1>0, <1>9, <2>1, ShiftStep DEF list
<1>10. CASE Move(u)
  BY <1>0, <1>10, MoveStep DEF list
<1>11. QED
  BY <1>0, <1>1, <1>2, <1>3, <1>4, <1>5, <1>6, <1>7, <1>8, <1>9, <1>10, PutStep, EachStep, ChecksStep, PassStep, HandlerSteps
     DEF Server, ChannelActive, ChannelInactive, Upgrade, Read, Free, Removers

\* ... and who stands twice.
LEMMA SingleNext ==
    ASSUME TypeOK, PlaceInv, NEW u \in Users, Server(u), Removing(u), Alone(u), "remove" \notin met'
    PROVE  Single'
<1> USE DEF GoesOn
<1>0. /\ loop[u].op \in Removers /\ loop[u].n \in Nat /\ loop[u].k \in Int /\ size \in Int /\ loop[u].pc # "idle"
      /\ loop[u].op # "add" /\ slot \in [Slots -> Users \cup {None}]
  <2>1. slot \in [Slots -> Users \cup {None}] /\ size \in Int
    BY DEF TypeOK
  <2>2. QED
    BY <2>1, HandlerSteps DEF Removers
<1>a. \A i \in Slots : i \in Nat
  BY DEF Slots
<1>1. \A i, j \in Slots : i < j /\ slot[i] = slot[j] /\ slot[i] # None =>
          loop[u].pc \in {"shift", "move", "resize", "put"} /\ i = loop[u].n /\ j = i + 1
  BY TwiceBy, MetGrows DEF PlaceInv
<1>2. ASSUME NEW pc \in {"shift", "move", "resize", "put"}, NEW k, NEW item, GoesOn(u, pc, loop[u].n, k, item), slot' = slot
      PROVE  Single'
  <2>1. Removing(u)'
    BY <1>0, <1>2, HandlerSteps DEF Removing
  <2>2. QED
    BY <1>1, <1>2, <2>1 DEF Single, Twice
<1>3. ASSUME loop[u].pc \notin {"shift", "move", "resize", "put"}, slot' = slot
      PROVE  Single'
  BY <1>1, <1>3 DEF Single
<1>4. CASE Put(u)
  <2>1. \A i \in Slots : slot'[i] # None => slot'[i] = slot[i] /\ i # loop[u].n + 1
    BY <1>0, <1>4, PutStep DEF Place, Alone
  <2>2. QED
    BY <1>1, <1>a, <2>1 DEF Single
<1>5. CASE Move(u)
  <2>1. loop[u].n + 1 \in Slots /\ loop[u].n + 2 \in Slots /\ slot' = [slot EXCEPT ![loop[u].n + 1] = slot[loop[u].n + 2]]
    BY <1>5, MoveStep DEF Alone
  <2>2. loop'[u].n = loop[u].n + 1 /\ loop'[u].pc = "shift" /\ Removing(u)'
    BY <1>0, <1>5, MoveStep, HandlerSteps DEF Removing
  <2>3. ASSUME NEW i \in Slots, NEW j \in Slots, i < j, slot'[i] = slot'[j], slot'[i] # None
        PROVE  i = loop[u].n + 1 /\ j = i + 1
    <3>1. PICK n \in Nat : n = loop[u].n
      BY <1>0
    <3>2. \A x \in Slots : slot'[x] = IF x = n + 1 THEN slot[n + 2] ELSE slot[x]
      BY <1>0, <2>1, <3>1
    <3>3. CASE i # n + 1 /\ j # n + 1
      BY <1>1, <2>3, <3>1, <3>2, <3>3
    <3>4. CASE j = n + 1
      <4>1. i < n + 2 /\ slot[i] = slot[n + 2] /\ slot[i] # None /\ i \in Nat
        <5>0. i \in Nat /\ n \in Nat /\ i < n + 1
          BY <1>a, <2>3, <3>1, <3>4
        <5>1. i \in Nat /\ i < n + 2 /\ i # n + 1
          BY <5>0
        <5>2. slot'[i] = slot[i] /\ slot'[j] = slot[n + 2]
          BY <3>2, <3>4, <5>1
        <5>3. QED
          BY <2>3, <5>1, <5>2
      <4>2. QED
        BY <1>1, <1>a, <2>1, <2>3, <3>1, <3>4, <4>1
    <3>5. CASE i = n + 1
      <4>1. slot[n + 2] = slot[j] /\ slot[j] # None /\ j \in Nat /\ j # n + 1
        BY <1>a, <2>3, <3>2, <3>5
      <4>2. ~(n + 2 < j)
        BY <1>1, <2>1, <3>1, <4>1
      <4>3. QED
        BY <2>3, <3>1, <3>5, <4>1, <4>2
    <3>6. QED
      BY <3>3, <3>4, <3>5
  <2>4. QED
    BY <2>2, <2>3 DEF Single, Twice
<1>6. QED
  <2>1. CASE Count(u) \/ Scan(u) \/ Look(u) \/ Found(u) \/ NumMoved(u)
    <3>1. loop[u].pc \in {"count", "scan", "look", "found", "moved"} /\ slot' = slot
      BY <2>1, CountStep, ScanStep, LookStep, FoundStep, NumMovedStep DEF list
    <3>2. QED
      BY <1>3, <3>1
  <2>2. CASE TakeSize(u)
    BY <1>0, <1>2, <2>2, TakeSizeStep DEF list
  <2>3. CASE Resize(u)
    BY <1>0, <1>2, <2>3, ResizeStep
  <2>4. CASE Shift(u)
    BY <1>0, <1>2, <2>4, ShiftStep DEF list
  <2>5. QED
    BY <1>0, <1>4, <1>5, <2>1, <2>2, <2>3, <2>4, EachStep, ChecksStep, PassStep, HandlerSteps
       DEF Server, ChannelActive, ChannelInactive, Upgrade, Read, Free, Removers

LEMMA PlaceNext ==
    ASSUME TypeOK, UnlistedInv, PlaceInv, [Next]_vars
    PROVE  PlaceInv'
<1>1. CASE UNCHANGED vars
  BY <1>1 DEF PlaceInv, Removing, Alone, Twice, vars, list, history
<1>2. ASSUME NEW u \in Users, Page(u) \/ Server(u), "remove" \notin met'
      PROVE  (\A v \in Users : Removing(v)' => Alone(v)') /\ Single'
  <2>0. "remove" \notin met /\ \A v \in Users : Removing(v) => Alone(v)
    BY <1>2, MetGrows DEF PlaceInv
  <2>1. CASE Page(u) \/ Upgrade(u)
    <3>1. UNCHANGED <<loop, list>>
      BY <2>1, PageSteps DEF Talks, Shows, Breaks, Upgrade
    <3>2. QED
      BY <2>0, <3>1 DEF PlaceInv, Single, Removing, Alone, Twice, list
  <2>2. CASE Server(u) /\ Removing(u)
    <3>1. \A v \in Users \ {u} : loop'[v].op = "none"
      BY <2>0, <2>2, OthersStay, HandlerSteps DEF Alone
    <3>2. \A v \in Users \ {u} : ~Removing(v)'
      BY <3>1 DEF Removing, Changes
    <3>3. QED
      BY <1>2, <2>0, <2>2, <3>2, AloneNext, SingleNext
  <2>3. CASE Server(u) /\ ~Upgrade(u) /\ ~Removing(u)
    <3>1. \A v \in Users \ {u} : loop'[v] = loop[v]
      BY <2>3, OthersStay
    <3>2. /\ \A v \in Users \ {u} : ~Removing(v)
          /\ Removing(u)' => loop'[u].pc = "scan" /\ \A v \in Users \ {u} : loop[v].pc = "idle"
      <4>1. CASE ChannelActive(u)
        <5>1. ~Removing(u)'
          BY <4>1, ChannelActiveStep DEF HasBegun, Removing, Changes
        <5>2. QED
          BY <1>2, <4>1, <5>1, BeginsAlone DEF ChannelActive
      <4>2. CASE Read(u)
        <5>1. ~Removing(u)'
          BY <4>2, ReadStep DEF HasBegun, Removing, Changes
        <5>2. QED
          BY <1>2, <4>2, <5>1, BeginsAlone DEF Read
      <4>3. ASSUME NEW op \in Removers, Removes(u, op), HasBegun(u, op, "scan")
            PROVE  /\ \A v \in Users \ {u} : ~Removing(v)
                   /\ loop'[u].pc = "scan" /\ \A v \in Users \ {u} : loop[v].pc = "idle"
        <5>1. \A v \in Users \ {u} : loop[v].pc = "idle"
          BY <1>2, <4>3, RemovesAlone
        <5>2. \A v \in Users \ {u} : ~Removing(v)
          BY <5>1, HandlerSteps DEF Removers
        <5>3. QED
          BY <4>3, <5>1, <5>2 DEF HasBegun
      <4>4. CASE loop[u].pc # "idle"
        <5>1. \A v \in Users \ {u} : ~Removing(v)
          BY <2>0, <4>4 DEF Alone
        <5>2. CASE IsThrough(u)
          <6>1. CASE loop'[u] = Idle
            BY <5>1, <6>1, IdleType DEF Removing, Changes
          <6>2. CASE \E op \in {"inactive", "caught"} : Removes(u, op) /\ HasBegun(u, op, "scan")
            BY <4>3, <5>1, <6>2 DEF Removers
          <6>3. QED
            BY <5>2, <6>1, <6>2 DEF IsThrough
        <5>3. ASSUME NEW pc, NEW n, NEW k, NEW item, GoesOn(u, pc, n, k, item) PROVE ~Removing(u)'
          BY <2>3, <5>3 DEF GoesOn, Removing
        <5>4. QED
          BY <2>3, <4>4, <5>1, <5>2, <5>3, CountStep, TakeSizeStep, ResizeStep, PutStep, EachStep, ChecksStep, PassStep, ScanStep,
             LookStep, FoundStep, NumMovedStep, ShiftStep, MoveStep DEF Server, ChannelActive, ChannelInactive, Read, Free
      <4>5. CASE ChannelInactive(u)
        <5>1. PICK op \in Removers : Removes(u, op) /\ HasBegun(u, op, "scan")
          BY <4>5, ChannelInactiveStep DEF Removers
        <5>2. QED
          BY <4>3, <5>1
      <4>6. QED
        BY <2>3, <4>1, <4>2, <4>4, <4>5, CountStep, TakeSizeStep, ResizeStep, PutStep, EachStep, ChecksStep, PassStep, ScanStep,
           LookStep, FoundStep, NumMovedStep, ShiftStep, MoveStep DEF Server
    <3>3. Single'
      BY <1>2, <2>3, <3>2, PlaceOthers
    <3>4. \A v \in Users \ {u} : ~Removing(v)'
      BY <3>1, <3>2 DEF Removing
    <3>5. Removing(u)' => Alone(u)'
      BY <3>1, <3>2 DEF Alone
    <3>6. QED
      BY <3>3, <3>4, <3>5
  <2>4. QED
    BY <1>2, <2>1, <2>2, <2>3
<1>3. QED
  BY <1>1, <1>2 DEF Next, PlaceInv, Single
-----------------------------------------------------------------------------
\* The types that the order is argued from.
LEMMA WireTypes ==
    ASSUME TypeOK, NEW u \in Users
    PROVE  /\ said[u] \in Nat /\ wire[u] \in Seq(Message)
           /\ \A k \in 1 .. Len(wire[u]) : wire[u][k] \in Message /\ wire[u][k].no \in Nat
           /\ loop[u].op = "read" => /\ loop[u].msg.m \in Message /\ loop[u].msg.m.no \in Nat
                                     /\ loop[u].n \in Nat
<1>1. wire[u] \in Seq(Message) /\ said[u] \in Nat
  BY DEF TypeOK
<1>2. \A k \in 1 .. Len(wire[u]) : wire[u][k] \in Message /\ wire[u][k].no \in Nat
  <2>1. ASSUME NEW k \in 1 .. Len(wire[u]) PROVE wire[u][k] \in Message
    BY <1>1, ElementOfSeq
  <2>2. QED
    BY <2>1 DEF Message
<1>3. ASSUME loop[u].op = "read" PROVE loop[u].msg.m \in Message /\ loop[u].msg.m.no \in Nat /\ loop[u].n \in Nat
  <2>1. loop[u].msg \in [m : Message, mod : Nat] /\ loop[u].n \in Nat
    BY <1>3, HandlerSteps DEF TypeOK, Fits
  <2>2. QED
    BY <2>1 DEF Message
<1>4. QED
  BY <1>1, <1>2, <1>3

\* An event loop that passes a message round has just read it, or goes on.
LEMMA LoopStep ==
    ASSUME TypeOK, NEW u \in Users, Server(u)
    PROVE  /\ \A v \in Users \ {u} : loop'[v] = loop[v]
           /\ Read(u) \/ (loop'[u].op = "read" => /\ loop[u].op = "read" /\ loop'[u].msg = loop[u].msg
                                                  /\ loop'[u].n \in {loop[u].n, loop[u].n + 1})
<1>1. \A v \in Users \ {u} : loop'[v] = loop[v]
  BY OthersStay
<1>2. CASE Upgrade(u)
  BY <1>1, <1>2 DEF Upgrade
<1>3. CASE IsThrough(u) \/ ChannelActive(u) \/ ChannelInactive(u)
  <2>1. loop'[u].op # "read"
    BY <1>3, ChannelActiveStep, ChannelInactiveStep, IdleType DEF IsThrough, HasBegun
  <2>2. QED
    BY <1>1, <2>1
<1>4. ASSUME NEW pc, NEW n \in {loop[u].n, loop[u].n + 1}, NEW k, NEW item, GoesOn(u, pc, n, k, item)
      PROVE  loop'[u].op = loop[u].op /\ loop'[u].msg = loop[u].msg /\ loop'[u].n \in {loop[u].n, loop[u].n + 1}
  BY <1>4 DEF GoesOn
<1>5. QED
  BY <1>1, <1>2, <1>3, <1>4, CountStep, TakeSizeStep, ResizeStep, PutStep, EachStep, ChecksStep, PassStep, ScanStep,
     LookStep, FoundStep, NumMovedStep, ShiftStep, MoveStep DEF Server

\* What is not said, read or begun leaves the numbers as they are.
LEMMA NumbersStay ==
    ASSUME TypeOK, NEW v \in Users, Numbered(v), wire'[v] = wire[v], said'[v] = said[v],
           loop'[v].op = "read" => loop[v].op = "read" /\ loop'[v].msg = loop[v].msg
    PROVE  Numbered(v)'
BY WireTypes DEF Numbered

LEMMA SayNumbers ==
    ASSUME TypeOK, NEW u \in Users, Numbered(u), Say(u), UNCHANGED loop
    PROVE  Numbered(u)'
<1> DEFINE m == [from |-> u, no |-> said[u] + 1]
<1>1. m \in Message /\ m.from = u /\ m.no = said[u] + 1 /\ said[u] \in Nat
  BY WireTypes DEF Message
<1>2. wire'[u] = Append(wire[u], m) /\ said'[u] = said[u] + 1
  BY DEF Say, TypeOK
<1> HIDE DEF m
<1>3. \A k \in 1 .. Len(wire[u]) : wire[u][k].no \in Nat /\ wire[u][k].no < m.no /\ wire[u][k].no <= said'[u] /\ wire[u][k].from = u
  BY <1>1, <1>2, WireTypes DEF Numbered
<1>4. Len(wire[u]) \in Nat /\ Len(wire'[u]) = Len(wire[u]) + 1 /\ wire'[u][Len(wire[u]) + 1] = m
      /\ \A k \in 1 .. Len(wire[u]) : wire'[u][k] = wire[u][k]
  BY <1>1, <1>2, WireTypes, LenProperties, AppendProperties
<1>5. \A k \in 1 .. Len(wire'[u]) : k \in Nat /\ (k \in 1 .. Len(wire[u]) \/ k = Len(wire[u]) + 1)
  BY <1>4
<1>6. \A k \in 1 .. Len(wire'[u]) : wire'[u][k].from = u /\ wire'[u][k].no <= said'[u]
  BY <1>1, <1>2, <1>3, <1>4, <1>5
<1>7. ASSUME NEW k \in 1 .. Len(wire'[u]), NEW l \in 1 .. Len(wire'[u]), k < l PROVE wire'[u][k].no < wire'[u][l].no
  <2>1. k \in 1 .. Len(wire[u])
    BY <1>4, <1>5, <1>7
  <2>2. CASE l = Len(wire[u]) + 1
    BY <1>3, <1>4, <2>1, <2>2
  <2>3. CASE l \in 1 .. Len(wire[u])
    BY <1>4, <1>7, <2>1, <2>3 DEF Numbered
  <2>4. QED
    BY <1>5, <2>2, <2>3
<1>8. ASSUME loop[u].op = "read"
      PROVE  /\ loop[u].msg.m.from = u /\ loop[u].msg.m.no <= said'[u]
             /\ \A k \in 1 .. Len(wire'[u]) : loop[u].msg.m.no < wire'[u][k].no
  <2>1. loop[u].msg.m.from = u /\ loop[u].msg.m.no <= said[u] /\ loop[u].msg.m.no \in Nat
    BY <1>8, WireTypes DEF Numbered
  <2>2. loop[u].msg.m.no <= said'[u] /\ loop[u].msg.m.no < m.no
    BY <1>1, <1>2, <2>1
  <2>3. ASSUME NEW k \in 1 .. Len(wire'[u]) PROVE loop[u].msg.m.no < wire'[u][k].no
    <3>1. CASE k = Len(wire[u]) + 1
      BY <1>4, <2>2, <3>1
    <3>2. CASE k \in 1 .. Len(wire[u])
      BY <1>4, <1>8, <3>2 DEF Numbered
    <3>3. QED
      BY <1>5, <3>1, <3>2
  <2>4. QED
    BY <2>1, <2>2, <2>3
<1>9. QED
  BY <1>6, <1>7, <1>8 DEF Numbered

LEMMA TailMoves ==
    ASSUME NEW s \in Seq(Message), s # <<>>
    PROVE  /\ \A k \in 1 .. Len(Tail(s)) : k \in Nat \ {0} /\ k + 1 \in 1 .. Len(s) /\ Tail(s)[k] = s[k + 1]
           /\ 1 \in 1 .. Len(s) /\ Head(s) = s[1]
<1>1. Len(s) \in Nat /\ Len(s) > 0 /\ Len(Tail(s)) = Len(s) - 1
  BY HeadTailProperties, LenProperties, EmptySeq
<1>2. \A k \in 1 .. Len(Tail(s)) : k \in Nat \ {0} /\ k + 1 \in 1 .. Len(s) /\ Tail(s)[k] = s[k + 1]
  BY <1>1, HeadTailProperties
<1>3. QED
  BY <1>1, <1>2

LEMMA ReadNumbers ==
    ASSUME TypeOK, NEW u \in Users, Numbered(u), Read(u)
    PROVE  Numbered(u)'
<1>1. wire[u] # <<>> /\ wire'[u] = Tail(wire[u]) /\ said' = said
  BY DEF Read, TypeOK, page
<1>2. loop'[u].op = "read" /\ loop'[u].msg.m = Head(wire[u])
  <2>1. loop'[u].op = "read" /\ loop'[u].msg = [m |-> Head(wire[u]), mod |-> modCount]
    BY ReadStep DEF HasBegun
  <2>2. QED
    BY <2>1
<1>3. /\ \A k \in 1 .. Len(wire'[u]) : k \in Nat \ {0} /\ k + 1 \in 1 .. Len(wire[u]) /\ wire'[u][k] = wire[u][k + 1]
      /\ 1 \in 1 .. Len(wire[u]) /\ Head(wire[u]) = wire[u][1]
  BY <1>1, WireTypes, TailMoves
<1>4. \A k \in 1 .. Len(wire'[u]) : wire'[u][k].from = u /\ wire'[u][k].no <= said'[u] /\ wire[u][1].no < wire'[u][k].no
  BY <1>1, <1>3 DEF Numbered
<1>5. \A k, l \in 1 .. Len(wire'[u]) : k < l => wire'[u][k].no < wire'[u][l].no
  <2>1. ASSUME NEW k \in 1 .. Len(wire'[u]), NEW l \in 1 .. Len(wire'[u]), k < l PROVE wire'[u][k].no < wire'[u][l].no
    <3>1. k + 1 \in 1 .. Len(wire[u]) /\ l + 1 \in 1 .. Len(wire[u]) /\ k + 1 < l + 1
      BY <1>3, <2>1
    <3>2. wire[u][k + 1].no < wire[u][l + 1].no
      BY <3>1 DEF Numbered
    <3>3. QED
      BY <1>3, <3>2
  <2>2. QED
    BY <2>1
<1>6. loop'[u].msg.m.from = u /\ loop'[u].msg.m.no <= said'[u]
  BY <1>1, <1>2, <1>3 DEF Numbered
<1>7. QED
  BY <1>2, <1>3, <1>4, <1>5, <1>6 DEF Numbered

LEMMA NumbersNext ==
    ASSUME TypeOK, \A v \in Users : Numbered(v), NEW u \in Users, Page(u) \/ Server(u)
    PROVE  \A v \in Users : Numbered(v)'
<1>1. CASE Talks(u)
  <2>1. Numbered(u)'
    <3>1. CASE Say(u)
      BY <1>1, <3>1, SayNumbers DEF Talks
    <3>2. CASE UNCHANGED <<said, wire>>
      BY <1>1, <3>2, NumbersStay DEF Talks
    <3>3. QED
      BY <1>1, <3>1, <3>2 DEF Talks
  <2>2. \A v \in Users \ {u} : wire'[v] = wire[v] /\ said'[v] = said[v]
    BY <1>1 DEF Talks, Say, TypeOK
  <2>3. QED
    BY <1>1, <2>1, <2>2, NumbersStay DEF Talks
<1>2. CASE Shows(u)
  BY <1>2, NumbersStay DEF Shows
<1>3. ASSUME NEW rest \in BOOLEAN, Breaks(u, rest) PROVE \A v \in Users : Numbered(v)'
  <2>1. UNCHANGED <<said, loop>> /\ \A v \in Users \ {u} : wire'[v] = wire[v]
    BY <1>3 DEF Breaks, TypeOK
  <2>2. CASE wire'[u] = wire[u]
    BY <2>1, <2>2, NumbersStay
  <2>3. CASE wire'[u] = <<>>
    <3>1. Numbered(u)'
      <4>1. \A k \in 1 .. Len(wire'[u]) : FALSE
        BY <2>3, EmptySeq
      <4>2. QED
        BY <2>1, <4>1 DEF Numbered
    <3>2. QED
      BY <2>1, <3>1, NumbersStay
  <2>4. QED
    BY <1>3, <2>2, <2>3 DEF Breaks, TypeOK
<1>4. CASE Read(u)
  <2>1. \A v \in Users \ {u} : wire'[v] = wire[v] /\ loop'[v] = loop[v]
    BY <1>4, ReadStep DEF HasBegun, TypeOK
  <2>2. said' = said
    BY <1>4 DEF Read, page
  <2>3. QED
    BY <1>4, <2>1, <2>2, ReadNumbers, NumbersStay
<1>5. CASE Server(u) /\ ~Read(u)
  <2>1. UNCHANGED <<said, wire>>
    BY <1>5 DEF Server, ChannelActive, Count, TakeSize, Resize, Put, Upgrade, Each, Checks, Pass, ChannelInactive,
                Scan, Look, Found, NumMoved, Shift, Move, page, net
  <2>2. \A v \in Users : loop'[v].op = "read" => loop[v].op = "read" /\ loop'[v].msg = loop[v].msg
    BY <1>5, LoopStep
  <2>3. QED
    BY <2>1, <2>2, NumbersStay
<1>6. QED
  BY <1>1, <1>2, <1>3, <1>4, <1>5, PageSteps
-----------------------------------------------------------------------------
\* What has passed has passed for good: when its sender's wire has only later messages,
\* and its sender's event loop goes on in a list where v has not moved up.
LEMMA PassedKeeps ==
    ASSUME TypeOK, NEW v \in Users, NEW x \in Message, Passed(v, x),
           said'[x.from] \in Nat, said[x.from] <= said'[x.from],
           \A k \in 1 .. Len(wire'[x.from]) : x.no < wire'[x.from][k].no,
           loop'[x.from].op = "read" =>
               /\ loop[x.from].op = "read" /\ loop'[x.from].msg = loop[x.from].msg
               /\ loop'[x.from].n \in {loop[x.from].n, loop[x.from].n + 1}
               /\ "remove" \notin met' => \A j \in Slots : slot'[j] = v => slot[j] = v,
           met \subseteq met'
    PROVE  Passed(v, x)'
<1>0. PICK w \in Users : w = x.from
  BY DEF Message
<1>1. x.no \in Nat /\ said[w] \in Nat /\ said'[w] \in Nat /\ said[w] <= said'[w]
  BY <1>0, WireTypes DEF Message
<1>2. w # v /\ x.no <= said'[w]
  BY <1>0, <1>1 DEF Passed
<1>3. ASSUME loop'[w].op = "read"
      PROVE  /\ x.no <= loop'[w].msg.m.no
             /\ "remove" \notin met' => \A j \in Slots : loop'[w].n < j /\ slot'[j] = v => x.no < loop'[w].msg.m.no
  <2>1. loop[w].op = "read" /\ loop'[w].msg = loop[w].msg /\ loop'[w].n \in {loop[w].n, loop[w].n + 1} /\ loop[w].n \in Nat
    BY <1>0, <1>3, WireTypes
  <2>2. x.no <= loop[w].msg.m.no
    BY <1>0, <2>1 DEF Passed
  <2>3. ASSUME NEW j \in Slots, "remove" \notin met', loop'[w].n < j, slot'[j] = v
        PROVE  x.no < loop'[w].msg.m.no
    <3>1. slot[j] = v /\ "remove" \notin met
      BY <1>0, <1>3, <2>3
    <3>2. loop[w].n < j
      BY <2>1, <2>3 DEF Slots
    <3>3. QED
      BY <1>0, <2>1, <3>1, <3>2 DEF Passed
  <2>4. QED
    BY <2>1, <2>2, <2>3
<1>4. QED
  BY <1>0, <1>2, <1>3 DEF Passed

\* A handler that removes while another reads is held against "remove", and add() puts
\* no channel into the array that has got a message.
LEMMA SlotsKeep ==
    ASSUME TypeOK, UnlistedInv, PlaceInv, NEW u \in Users, Page(u) \/ Server(u), "remove" \notin met',
           NEW v \in Users, ~Unlisted(v), NEW w \in Users, loop'[w].op = "read", NEW j \in Slots, slot'[j] = v
    PROVE  slot[j] = v
<1>1. v # None
  BY ChatAssumption
<1>2. ~(Put(u) /\ loop[u].op = "add" /\ slot'[j] = u)
  BY DEF Unlisted
<1>3. ~Move(u)
  <2>1. ASSUME Move(u) PROVE FALSE
    <3>1. Removing(u) /\ loop[u].op \in Removers /\ Alone(u)
      BY <2>1, MoveStep, MetGrows, HandlerSteps DEF PlaceInv
    <3>2. loop'[u].op # "read"
      BY <2>1, <3>1, MoveStep DEF GoesOn, Removers
    <3>3. \A x \in Users \ {u} : loop'[x].op # "read"
      BY <3>1, OthersStay, HandlerSteps DEF Alone
    <3>4. QED
      BY <3>2, <3>3
  <2>2. QED
    BY <2>1
<1>4. QED
  BY <1>1, <1>2, <1>3, SlotNext

LEMMA PassedNext ==
    ASSUME TypeOK, UnlistedInv, PlaceInv, \A w \in Users : Numbered(w), NEW u \in Users, Page(u) \/ Server(u),
           NEW v \in Users, NEW x \in Message, Passed(v, x), ~Unlisted(v)
    PROVE  Passed(v, x)'
<1>0. PICK w \in Users : w = x.from
  BY DEF Message
<1>1. x.no \in Nat /\ said[w] \in Nat /\ wire[w] \in Seq(Message)
  BY WireTypes DEF Message
<1>2. x.no <= said[w] /\ \A k \in 1 .. Len(wire[w]) : x.no < wire[w][k].no
  BY <1>0 DEF Passed
<1>a. met \subseteq met'
  BY MetGrows
<1>b. loop'[w].op = "read" /\ "remove" \notin met' => \A j \in Slots : slot'[j] = v => slot[j] = v
  BY SlotsKeep
<1>3. CASE Talks(u)
  <2>0. loop' = loop /\ slot' = slot
    BY <1>3 DEF Talks, list
  <2>c. loop'[w].op = "read" => loop'[w].n \in {loop[w].n, loop[w].n + 1}
    BY <2>0
  <2>1. CASE Say(u) /\ w = u
    <3> DEFINE m == [from |-> u, no |-> said[u] + 1]
    <3>1. m \in Message /\ m.no = said[u] + 1
      BY <1>1, <2>1 DEF Message
    <3>2. wire'[w] = Append(wire[w], m) /\ said'[w] = said[w] + 1
      BY <2>1 DEF Say, TypeOK
    <3> HIDE DEF m
    <3>3. Len(wire[w]) \in Nat /\ Len(wire'[w]) = Len(wire[w]) + 1 /\ wire'[w][Len(wire[w]) + 1] = m
          /\ \A k \in 1 .. Len(wire[w]) : wire'[w][k] = wire[w][k]
      BY <1>1, <3>1, <3>2, LenProperties, AppendProperties
    <3>4. \A k \in 1 .. Len(wire'[w]) : k \in 1 .. Len(wire[w]) \/ k = Len(wire[w]) + 1
      BY <3>3
    <3>5. x.no < m.no
      BY <1>1, <1>2, <2>1, <3>1
    <3>6. \A k \in 1 .. Len(wire'[w]) : x.no < wire'[w][k].no
      BY <1>2, <3>3, <3>4, <3>5
    <3>7. said'[w] \in Nat /\ said[w] <= said'[w]
      BY <1>1, <3>2
    <3>8. QED
      BY <1>0, <1>a, <2>0, <2>c, <3>6, <3>7, PassedKeeps
  <2>2. CASE UNCHANGED <<said, wire>> \/ w # u
    <3>1. said'[w] = said[w] /\ wire'[w] = wire[w]
      BY <1>3, <2>2 DEF Talks, Say, TypeOK
    <3>2. QED
      BY <1>0, <1>1, <1>2, <1>a, <2>0, <2>c, <3>1, PassedKeeps
  <2>3. QED
    BY <1>3, <2>1, <2>2 DEF Talks
<1>4. CASE Shows(u)
  BY <1>0, <1>1, <1>2, <1>4, <1>a, PassedKeeps DEF Shows, list
<1>5. ASSUME NEW rest \in BOOLEAN, Breaks(u, rest) PROVE Passed(v, x)'
  <2>1. wire'[w] = wire[w] \/ wire'[w] = <<>>
    BY <1>5 DEF Breaks, TypeOK
  <2>2. \A k \in 1 .. Len(wire'[w]) : x.no < wire'[w][k].no
    BY <1>2, <2>1, EmptySeq
  <2>3. QED
    BY <1>0, <1>1, <1>5, <1>a, <2>2, PassedKeeps DEF Breaks, list
<1>6. CASE Read(u) /\ w # u
  <2>1. wire'[w] = wire[w] /\ loop'[w] = loop[w] /\ said' = said
    <3>1. said' = said /\ \A y \in Users \ {u} : wire'[y] = wire[y]
      BY <1>6 DEF Read, TypeOK, page
    <3>2. \A y \in Users \ {u} : loop'[y] = loop[y]
      BY OthersStay
    <3>3. QED
      BY <1>0, <1>6, <3>1, <3>2
  <2>2. QED
    BY <1>0, <1>1, <1>2, <1>a, <1>b, <2>1, PassedKeeps
<1>7. CASE Read(u) /\ w = u
  <2>1. wire[w] # <<>> /\ wire'[w] = Tail(wire[w]) /\ said' = said
    BY <1>7 DEF Read, TypeOK, page
  <2>2. /\ \A k \in 1 .. Len(wire'[w]) : k + 1 \in 1 .. Len(wire[w]) /\ wire'[w][k] = wire[w][k + 1]
        /\ 1 \in 1 .. Len(wire[w]) /\ Head(wire[w]) = wire[w][1]
    BY <1>1, <2>1, TailMoves
  <2>3. loop'[w].msg.m = Head(wire[w])
    <3>1. loop'[w].msg = [m |-> Head(wire[w]), mod |-> modCount]
      BY <1>7, ReadStep
    <3>2. QED
      BY <3>1
  <2>4. x.no < loop'[w].msg.m.no /\ loop'[w].msg.m.no \in Nat
    BY <1>2, <2>2, <2>3, WireTypes
  <2>5. x.no <= loop'[w].msg.m.no /\ w # v /\ \A k \in 1 .. Len(wire'[w]) : x.no < wire'[w][k].no
    <3>1. w # v
      BY <1>0 DEF Passed
    <3>2. x.no <= loop'[w].msg.m.no
      BY <1>1, <2>4
    <3>3. \A k \in 1 .. Len(wire'[w]) : x.no < wire'[w][k].no
      BY <1>2, <2>2
    <3>4. QED
      BY <3>1, <3>2, <3>3
  <2>6. QED
    BY <1>0, <1>2, <2>1, <2>4, <2>5 DEF Passed
<1>8. CASE Server(u) /\ ~Read(u)
  <2>1. UNCHANGED <<said, wire>>
    BY <1>8 DEF Server, ChannelActive, Count, TakeSize, Resize, Put, Upgrade, Each, Checks, Pass, ChannelInactive,
                Scan, Look, Found, NumMoved, Shift, Move, page, net
  <2>2. loop'[w].op = "read" => /\ loop[w].op = "read" /\ loop'[w].msg = loop[w].msg
                                /\ loop'[w].n \in {loop[w].n, loop[w].n + 1}
    BY <1>8, LoopStep
  <2>3. QED
    BY <1>0, <1>1, <1>2, <1>a, <1>b, <2>1, <2>2, PassedKeeps
<1>9. QED
  BY <1>3, <1>4, <1>5, <1>6, <1>7, <1>8, PageSteps
-----------------------------------------------------------------------------
\* A page that has got a message is in the array.
LEMMA GotListed ==
    ASSUME UnlistedInv, NEW v \in Users, NEW k \in 1 .. Len(Got(v))
    PROVE  ~Unlisted(v)
<1>1. ASSUME Unlisted(v) PROVE Len(Got(v)) = 0
  <2>1. Got(v) = <<>>
    BY <1>1 DEF UnlistedInv
  <2>2. QED
    BY <2>1, EmptySeq
<1>2. QED
  BY <1>1

\* The message that is being passed round is no older than what has come to the one it
\* comes to, and new to it if no remove() has been disturbed; and then it has passed.
LEMMA ItemPassed ==
    ASSUME TypeOK, PlaceInv, OrderInv, NEW u \in Users, Pass(u), NEW v \in Users, v = Item(u), v # u,
           NEW m, m = loop[u].msg.m
    PROVE  /\ m \in Message /\ m.from = u /\ Passed(v, m)'
           /\ \A k \in 1 .. Len(Got(v)) : Got(v)[k].from = u =>
                Got(v)[k].no < m.no \/ (Got(v)[k].no = m.no /\ "remove" \in met)
<1>1. loop[u].n \in Nat /\ loop[u].n + 1 \in Slots /\ slot[loop[u].n + 1] = v /\ v # None
  BY PassStep, ItemType, ChatAssumption DEF Item
<1>2. loop[u].op = "read" /\ UNCHANGED <<said, wire, slot, met>>
  <2>1. loop[u].op = "read"
    BY PassStep, HandlerSteps
  <2>2. UNCHANGED <<said, wire, slot>>
    BY PassStep DEF page, list
  <2>3. met' = met
    BY <1>1, PassStep DEF GoesOn
  <2>4. QED
    BY <2>1, <2>2, <2>3
<1>3. m \in Message /\ m.no \in Nat /\ m.from = u /\ m.no <= said[u] /\ \A k \in 1 .. Len(wire[u]) : m.no < wire[u][k].no
  BY <1>2, WireTypes DEF OrderInv, Numbered
<1>4. loop'[u].op = "read" /\ loop'[u].msg = loop[u].msg /\ loop'[u].n = loop[u].n + 1
  BY <1>1, <1>2, PassStep DEF GoesOn
<1>5. ASSUME "remove" \notin met, NEW j \in Slots, slot[j] = v, loop[u].n + 1 < j PROVE FALSE
  <2>1. Twice(loop[u].n + 1, j)
    BY <1>1, <1>5 DEF PlaceInv
  <2>2. PICK w \in Users : Removing(w)
    BY <2>1 DEF Twice
  <2>3. w # u /\ Alone(w)
    BY <1>2, <1>5, <2>2 DEF PlaceInv, Removing, Changes
  <2>4. QED
    BY <2>3, PassStep DEF Alone
<1>6. Passed(v, m)'
  <2>1. m.no <= loop'[u].msg.m.no
    BY <1>3, <1>4
  <2>2. "remove" \notin met' => \A j \in Slots : ~(loop'[u].n < j /\ slot'[j] = v)
    BY <1>2, <1>4, <1>5
  <2>3. QED
    BY <1>2, <1>3, <2>1, <2>2 DEF Passed
<1>7. ASSUME NEW k \in 1 .. Len(Got(v)), Got(v)[k].from = u
      PROVE  Got(v)[k].no < m.no \/ (Got(v)[k].no = m.no /\ "remove" \in met)
  <2>1. PICK x \in Message : x = Got(v)[k]
    BY GotTypes
  <2>2. Passed(v, x) /\ x.from = u /\ x.no \in Nat
    BY <1>7, <2>1 DEF OrderInv, Message
  <2>3. x.no <= m.no
    BY <1>2, <2>2 DEF Passed
  <2>4. "remove" \notin met => x.no < m.no
    BY <1>1, <1>2, <2>2 DEF Passed
  <2>5. QED
    BY <1>3, <2>1, <2>2, <2>3, <2>4
<1>8. QED
  BY <1>3, <1>6, <1>7

LEMMA AppendOrdered ==
    ASSUME NEW s \in Seq(Message), NEW m \in Message, Ordered(s),
           \A k \in 1 .. Len(s) : s[k].from = m.from => s[k].no < m.no \/ (s[k].no = m.no /\ "remove" \in met)
    PROVE  Ordered(Append(s, m))
<1>1. Append(s, m) \in Seq(Message) /\ Len(Append(s, m)) = Len(s) + 1 /\ Append(s, m)[Len(s) + 1] = m
      /\ \A k \in 1 .. Len(s) : Append(s, m)[k] = s[k]
  BY AppendProperties
<1>2. Len(s) \in Nat
  BY LenProperties
<1>3. ASSUME NEW i \in 1 .. Len(s) + 1, NEW j \in 1 .. Len(s) + 1, i < j PROVE i \in 1 .. Len(s) /\ (j \in 1 .. Len(s) \/ j = Len(s) + 1)
  BY <1>2, <1>3
<1>4. QED
  BY <1>1, <1>3 DEF Ordered

LEMMA CutOrdered ==
    ASSUME NEW s \in Seq(Message), NEW t \in Seq(Message), Ordered(s \o t)
    PROVE  /\ Ordered(s \o <<>>)
           /\ \A k \in 1 .. Len(s \o <<>>) : k \in 1 .. Len(s \o t) /\ (s \o <<>>)[k] = (s \o t)[k]
<1>1. s \o <<>> = s
  BY ConcatEmptySeq
<1>2. Len(s) \in Nat /\ Len(t) \in Nat /\ Len(s \o t) = Len(s) + Len(t)
      /\ \A k \in 1 .. Len(s) : (s \o t)[k] = s[k]
  BY LenProperties, ConcatProperties
<1>3. \A k \in 1 .. Len(s) : k \in 1 .. Len(s \o t) /\ s[k] = (s \o t)[k]
  BY <1>2
<1>4. QED
  BY <1>1, <1>3 DEF Ordered

LEMMA OrderNext ==
    ASSUME TypeOK, UnlistedInv, PlaceInv, OrderInv, [Next]_vars
    PROVE  OrderInv'
<1>1. CASE UNCHANGED vars
  <2>1. UNCHANGED <<said, wire, shown, inbox, loop, slot, met>>
    BY <1>1 DEF vars, page, net, list, history
  <2>2. \A v \in Users : Numbered(v)'
    BY <2>1 DEF OrderInv, Numbered
  <2>3. \A v \in Users : Got(v)' = Got(v)
    BY <2>1 DEF Got
  <2>4. \A v \in Users, x \in Message : Passed(v, x) => Passed(v, x)'
    BY <2>1 DEF Passed
  <2>5. QED
    BY <2>1, <2>2, <2>3, <2>4, GotTypes DEF OrderInv, Ordered
<1>2. ASSUME NEW u \in Users, Page(u) \/ Server(u) PROVE OrderInv'
  <2>1. \A v \in Users : Numbered(v)'
    BY <1>2, NumbersNext DEF OrderInv
  <2>2. \A s : Ordered(s) => Ordered(s)'
    BY <1>2, MetGrows DEF Ordered
  <2>3. \A v \in Users : \A k \in 1 .. Len(Got(v)) : \A x : x = Got(v)[k] => Passed(v, x)'
    <3>1. ASSUME NEW v \in Users, NEW k \in 1 .. Len(Got(v)), NEW x, x = Got(v)[k] PROVE Passed(v, x)'
      <4>1. x \in Message
        BY <3>1, GotTypes
      <4>2. Passed(v, x) /\ ~Unlisted(v)
        BY <3>1, GotListed DEF OrderInv
      <4>3. QED
        BY <1>2, <4>1, <4>2, PassedNext DEF OrderInv
    <3>2. QED
      BY <3>1
  <2> DEFINE Fine(v, s) == Ordered(s)' /\ \A k \in 1 .. Len(s) : \A x : x = s[k] => Passed(v, x)'
  <2>4. ASSUME NEW v \in Users, NEW g \in {Got(v), shown[v] \o <<>>} PROVE Fine(v, g)
    <3>1. Ordered(g) /\ \A k \in 1 .. Len(g) : k \in 1 .. Len(Got(v)) /\ g[k] = Got(v)[k]
      <4>1. CASE g = Got(v)
        BY <4>1 DEF OrderInv
      <4>2. CASE g = shown[v] \o <<>>
        <5>1. shown[v] \in Seq(Message) /\ inbox[v] \in Seq(Message) /\ Ordered(shown[v] \o inbox[v])
          BY GotTypes DEF OrderInv, Got
        <5>2. QED
          BY <4>2, <5>1, CutOrdered DEF Got
      <4>3. QED
        BY <2>4, <4>1, <4>2
    <3>2. QED
      BY <2>2, <2>3, <3>1
  <2>5. ASSUME Pass(u), NEW w \in Users \ {u}, w = Item(u), NEW m, m = loop[u].msg.m, NEW g, g = Append(Got(w), m)
        PROVE  Fine(w, g)
    <3>1. m \in Message /\ m.from = u /\ Passed(w, m)' /\ Got(w) \in Seq(Message) /\ Ordered(Got(w))
      BY <2>5, ItemPassed, GotTypes DEF OrderInv
    <3>2. \A k \in 1 .. Len(Got(w)) : Got(w)[k].from = m.from =>
            Got(w)[k].no < m.no \/ (Got(w)[k].no = m.no /\ "remove" \in met)
      BY <2>5, <3>1, ItemPassed
    <3>3. Ordered(g)
      BY <2>5, <3>1, <3>2, AppendOrdered
    <3>4. Len(Got(w)) \in Nat /\ Len(g) = Len(Got(w)) + 1 /\ g[Len(Got(w)) + 1] = m
          /\ \A k \in 1 .. Len(Got(w)) : g[k] = Got(w)[k]
      BY <2>5, <3>1, LenProperties, AppendProperties
    <3>5. ASSUME NEW k \in 1 .. Len(g), NEW x, x = g[k] PROVE Passed(w, x)'
      <4>1. CASE k \in 1 .. Len(Got(w))
        BY <2>3, <3>4, <3>5, <4>1
      <4>2. CASE k = Len(Got(w)) + 1
        BY <3>1, <3>4, <3>5, <4>2
      <4>3. QED
        BY <3>4, <4>1, <4>2
    <3>6. QED
      BY <2>2, <3>3, <3>5
  <2>6. \A v \in Users : \E g : Got(v)' = g /\ Fine(v, g)
    <3>1. CASE \A v \in Users : Got(v)' = Got(v)
      BY <2>4, <3>1
    <3>2. CASE \A v \in Users : Got(v)' \in {Got(v), shown[v] \o <<>>}
      BY <2>4, <3>2
    <3>3. ASSUME NEW w \in Users \ {u}, Pass(u), w = Item(u), Got(w)' = Append(Got(w), loop[u].msg.m),
                 \A v \in Users \ {w} : Got(v)' = Got(v)
          PROVE  \A v \in Users : \E g : Got(v)' = g /\ Fine(v, g)
      <4>1. \A v \in Users \ {w} : \E g : Got(v)' = g /\ Fine(v, g)
        BY <2>4, <3>3
      <4>2. \E g : Got(w)' = g /\ Fine(w, g)
        BY <2>5, <3>3
      <4>3. QED
        BY <4>1, <4>2
    <3>4. QED
      BY <1>2, <3>1, <3>2, <3>3, GotNext
  <2>7. ASSUME NEW v \in Users PROVE Ordered(Got(v))' /\ \A k \in 1 .. Len(Got(v)') : Passed(v, Got(v)[k])'
    <3>1. PICK g : Got(v)' = g /\ Fine(v, g)
      BY <2>6
    <3>2. Ordered(Got(v))'
      BY <3>1 DEF Ordered
    <3>3. ASSUME NEW k \in 1 .. Len(g) PROVE Passed(v, Got(v)[k])'
      <4>1. PICK x : x = g[k]
        OBVIOUS
      <4>2. Passed(v, x)'
        BY <3>1, <3>3, <4>1
      <4>3. QED
        BY <3>1, <4>1, <4>2 DEF Passed
    <3>4. QED
      BY <3>1, <3>2, <3>3
  <2>8. QED
    BY <2>1, <2>7 DEF OrderInv
<1>3. QED
  BY <1>1, <1>2 DEF Next
-----------------------------------------------------------------------------
\* While no change of the list has been disturbed: a handler that changes it is alone.
LEMMA BeginsQuiet ==
    ASSUME TypeOK, NEW u \in Users, NEW h, Begins(u, h), met' = {}
    PROVE  /\ \A v \in Users \ {u} : ~Changing(v)
           /\ Changes(h.op) # {} => \A v \in Users \ {u} : loop[v].pc = "idle"
<1>1. \A v \in Users \ {u} : loop[v].pc # "idle" => Changes(h.op) \cup Changes(loop[v].op) = {}
  BY DEF Begins, Busy
<1>2. \A v \in Users \ {u} : Changing(v) => loop[v].pc # "idle"
  BY HandlerSteps DEF Removers
<1>3. QED
  BY <1>1, <1>2 DEF Changing

\* It is enough to say what the list holds at the end of a step of the one handler that
\* is at it.
LEMMA ListAlone ==
    ASSUME TypeOK, NEW u \in Users, \A v \in Users \ {u} : loop'[v] = loop[v] /\ loop[v].pc = "idle",
           0 <= size', missed' = {}, loop'[u].op # "read",
           loop'[u].op = "add" => AtAdd(u)', Removing(u)' => AtRemove(u)', ~Changing(u)' => Holds(1 .. size, Members)'
    PROVE  ListInv'
<1>1. \A v \in Users \ {u} : loop'[v].op = "none" /\ loop'[v].pc = "idle"
  BY HandlerSteps
<1>2. \A v \in Users \ {u} : ~Changing(v)' /\ ~Removing(v)'
  BY <1>1 DEF Changing, Removing, Changes
<1>3. QED
  BY <1>1, <1>2 DEF ListInv

\* The list is as sound as before when neither it nor its members change.
LEMMA ListKeeps ==
    ASSUME TypeOK, ListInv, UNCHANGED <<loop, list, history>>, Members' = Members,
           \A v \in Users : chan[v] = "gone" => chan'[v] = "gone"
    PROVE  ListInv'
<1>1. loop' = loop /\ slot' = slot /\ size' = size /\ modCount' = modCount /\ met' = met /\ missed' = missed
  BY DEF list, history
<1>2. ASSUME NEW P, NEW S PROVE Holds(P, S) <=> {slot'[i] : i \in P} = S
  BY <1>1 DEF Holds
<1>3. \A v \in Users : AtAdd(v) => AtAdd(v)'
  BY <1>1 DEF AtAdd, Holds
<1>4. \A v \in Users : AtRemove(v) => AtRemove(v)'
  BY <1>1 DEF AtRemove, Holds
<1>5. \A v \in Users : AtRead(v) => AtRead(v)'
  BY <1>1 DEF AtRead
<1>6. \A v \in Users : (Changing(v)' <=> Changing(v)) /\ (Removing(v)' <=> Removing(v))
  BY <1>1 DEF Changing, Removing
<1>7. Holds(1 .. size, Members) => Holds(1 .. size, Members)'
  BY <1>1 DEF Holds
<1>8. QED
  BY <1>1, <1>3, <1>4, <1>5, <1>6, <1>7 DEF ListInv

LEMMA ListPage ==
    ASSUME TypeOK, ListInv, NEW u \in Users, Page(u) \/ Upgrade(u)
    PROVE  ListInv'
<1>0. chan \in [Users -> {"none", "active", "upgraded", "lost", "gone"}]
  BY DEF TypeOK
<1>1. CASE Talks(u)
  BY <1>1, ListKeeps DEF Talks, Members
<1>2. CASE Shows(u)
  BY <1>2, ListKeeps DEF Shows, Members
<1>3. ASSUME NEW rest \in BOOLEAN, Breaks(u, rest) PROVE ListInv'
  <2>1. Members' = Members /\ \A v \in Users : chan[v] = "gone" => chan'[v] = "gone"
    BY <1>0, <1>3 DEF Breaks, Members
  <2>2. QED
    BY <1>3, <2>1, ListKeeps DEF Breaks
<1>4. CASE Upgrade(u)
  <2>1. Members' = Members /\ \A v \in Users : chan[v] = "gone" => chan'[v] = "gone"
    BY <1>0, <1>4 DEF Upgrade, Members
  <2>2. QED
    BY <1>4, <2>1, ListKeeps DEF Upgrade
<1>5. QED
  BY <1>1, <1>2, <1>3, <1>4, PageSteps

\* A handler of a broadcast leaves the list as it is, and finds everyone in it.
LEMMA ReadingList ==
    ASSUME TypeOK, ListInv, NEW u \in Users, met' = {}, Read(u) \/ Each(u) \/ Checks(u) \/ Pass(u)
    PROVE  ListInv'
<1>1. met = {} /\ size \in Int /\ 0 <= size /\ missed = {} /\ chan' = chan /\ UNCHANGED list
  <2>1. met \subseteq met' /\ size \in Int
    BY MetGrows DEF Server, TypeOK
  <2>2. chan' = chan /\ UNCHANGED list
    BY DEF Read, Each, Checks, Pass, net
  <2>3. QED
    BY <2>1, <2>2 DEF ListInv
<1>2. \A v \in Users : ~Changing(v)
  <2>1. CASE Read(u)
    <3>1. ~Changing(u)
      BY <2>1, ReadStep, HandlerSteps DEF Removers
    <3>2. QED
      BY <2>1, <3>1, BeginsQuiet DEF Read
  <2>2. CASE Each(u) \/ Checks(u) \/ Pass(u)
    <3>1. loop[u].op = "read" /\ loop[u].pc # "idle"
      BY <2>2, EachStep, ChecksStep, PassStep, HandlerSteps
    <3>2. ~Changing(u)
      BY <3>1 DEF Changing, Changes
    <3>3. QED
      BY <1>1, <3>1, <3>2 DEF ListInv
  <2>3. QED
    BY <2>1, <2>2
<1>3. Holds(1 .. size, Members) /\ \A v \in Users : loop[v].op = "read" => AtRead(v)
  BY <1>1, <1>2 DEF ListInv
<1>4. \A v \in Users \ {u} : loop'[v] = loop[v]
  BY OthersStay DEF Server
<1>5. ASSUME ~Changing(u)', missed' = {}, loop'[u].op = "read" => AtRead(u)'
      PROVE  ListInv'
  <2>1. \A v \in Users : ~Changing(v)' /\ ~Removing(v)' /\ loop'[v].op # "add"
    BY <1>2, <1>4, <1>5 DEF Changing, Removing, Changes
  <2>2. Holds(1 .. size, Members)'
    BY <1>1, <1>3 DEF Holds, Members, list
  <2>3. \A v \in Users \ {u} : loop'[v].op = "read" => AtRead(v)'
    BY <1>1, <1>3, <1>4 DEF AtRead, list
  <2>4. QED
    BY <1>1, <1>5, <2>1, <2>2, <2>3 DEF ListInv, list
<1>6. CASE Read(u)
  <2>1. loop'[u].op = "read" /\ loop'[u].pc = "each" /\ loop'[u].n = 0 /\ missed' = missed
        /\ loop'[u].msg = [m |-> Head(wire[u]), mod |-> modCount]
        /\ loop'[u].owed = {v \in Users \ {u} : chan[v] = "upgraded"}
    BY <1>6, ReadStep DEF HasBegun
  <2>2. loop'[u].msg.mod = modCount
    BY <2>1
  <2>3. loop'[u].owed \subseteq {slot[i] : i \in 1 .. size}
    BY <1>3, <2>1 DEF Holds, Members
  <2>4. loop'[u].n + 1 = 1 /\ loop'[u].n <= size
    BY <1>1, <2>1
  <2>5. AtRead(u)'
    BY <1>1, <2>1, <2>2, <2>3, <2>4 DEF AtRead, list
  <2>6. ~Changing(u)'
    BY <2>1 DEF Changing, Changes
  <2>7. QED
    BY <1>1, <1>5, <2>1, <2>5, <2>6
<1>7. CASE Each(u) \/ Checks(u) \/ Pass(u)
  <2>1. loop[u].op = "read" /\ AtRead(u) /\ loop[u].n \in Nat
    BY <1>3, <1>7, EachStep, ChecksStep, PassStep, HandlerSteps
  <2>2. ASSUME NEW pc \in {"next", "bound", "pass"}, NEW k, NEW item,
               GoesOn(u, pc, loop[u].n, k, item),
               loop'[u].owed = loop[u].owed, missed' = missed, loop[u].n < size
        PROVE  ListInv'
    <3>1. AtRead(u)'
      BY <1>1, <2>1, <2>2 DEF AtRead, GoesOn, list
    <3>2. ~Changing(u)'
      BY <1>2, <2>2 DEF Changing, GoesOn
    <3>3. QED
      BY <1>1, <1>5, <2>2, <3>1, <3>2
  <2>3. CASE Each(u)
    <3>1. CASE Exhausted(u)
      <4>1. loop[u].n + 1 .. size = {}
        BY <1>1, <2>1, <3>1 DEF Exhausted
      <4>2. loop[u].owed = {}
        BY <2>1, <4>1 DEF AtRead
      <4>3. missed' = {}
        BY <1>1, <2>3, <3>1, <4>2, EachStep DEF Misses
      <4>4. loop' = [loop EXCEPT ![u] = Idle]
        BY <2>1, <2>3, <3>1 DEF Each, Ends
      <4>5. loop'[u].op = "none"
        BY <4>4, IdleType DEF TypeOK
      <4>6. ~Changing(u)'
        BY <4>5 DEF Changing, Changes
      <4>7. QED
        BY <1>5, <4>3, <4>5, <4>6
    <3>2. CASE ~Exhausted(u)
      <4>1. loop[u].n < size
        BY <1>1, <2>1, <3>2 DEF AtRead, Exhausted
      <4>2. QED
        BY <2>2, <2>3, <3>2, <4>1, EachStep
    <3>3. QED
      BY <3>1, <3>2
  <2>4. CASE Checks(u)
    <3>1. loop[u].pc \in {"next", "bound"} => loop[u].n < size
      BY <2>1 DEF AtRead
    <3>2. loop[u].msg.mod = modCount
      BY <2>1 DEF AtRead
    <3>3. PICK pc \in {"bound", "pass"} : GoesOn(u, pc, loop[u].n, loop[u].k, loop[u].item)
                                          /\ loop'[u].owed = loop[u].owed /\ missed' = missed /\ loop[u].n < size
      BY <2>4, <3>1, <3>2, ChecksStep
    <3>4. QED
      BY <2>2, <3>3
  <2>5. CASE Pass(u)
    <3>1. loop[u].n < size /\ loop[u].pc = "pass"
      BY <2>1, <2>5, PassStep DEF AtRead
    <3>2. loop[u].n + 1 \in 1 .. size
      BY <1>1, <2>1, <3>1
    <3>3. Item(u) \in Users
      BY <1>3, <3>2 DEF Holds, Item, Members
    <3>4. Item(u) # None
      BY <3>3, ChatAssumption
    <3>5. /\ GoesOn(u, "each", loop[u].n + 1, loop[u].k, loop[u].item)
          /\ loop'[u].owed = loop[u].owed \ {Item(u)} /\ missed' = missed
      BY <2>5, <3>4, PassStep
    <3>6. \A i \in loop[u].n + 1 .. size : i = loop[u].n + 1 \/ i \in loop[u].n + 2 .. size
      BY <1>1, <2>1
    <3>7. loop'[u].owed \subseteq {slot[i] : i \in loop[u].n + 2 .. size}
      BY <2>1, <3>5, <3>6 DEF AtRead, Item
    <3>8. loop'[u].n + 1 = loop[u].n + 2 /\ loop'[u].n <= size
      BY <1>1, <2>1, <3>1, <3>5 DEF GoesOn
    <3>9. loop'[u].pc = "each" /\ loop'[u].msg = loop[u].msg /\ loop'[u].op = "read"
      BY <2>1, <3>5 DEF GoesOn
    <3>10. AtRead(u)'
      BY <1>1, <2>1, <3>7, <3>8, <3>9 DEF AtRead, list
    <3>11. ~Changing(u)'
      BY <3>9 DEF Changing, Changes
    <3>12. QED
      BY <1>1, <1>5, <3>5, <3>10, <3>11
  <2>6. QED
    BY <1>7, <2>3, <2>4, <2>5
<1>8. QED
  BY <1>6, <1>7
-----------------------------------------------------------------------------
\* A handler that changes the list while no other is at it.
AtWork(u) == u \in Users /\ met' = {} /\ Changing(u)

LEMMA AtWorkAlone ==
    ASSUME TypeOK, ListInv, NEW u \in Users, Page(u) \/ Server(u), AtWork(u)
    PROVE  /\ met = {} /\ 0 <= size /\ missed = {}
           /\ \A v \in Users \ {u} : loop'[v] = loop[v] /\ loop[v].pc = "idle"
           /\ loop[u].op = "add" => AtAdd(u)
           /\ Removing(u) => AtRemove(u)
<1>1. met = {}
  BY MetGrows DEF AtWork
<1>2. QED
  BY <1>1, OthersStay DEF ListInv, AtWork

LEMMA SlotDomain ==
    ASSUME TypeOK
    PROVE  /\ slot \in [Slots -> Users \cup {None}] /\ size \in Int
           /\ \A i \in 1 .. size : i \in Slots
           /\ \A i \in 1 .. Cardinality(Grown) : i \in Slots
<1>1. size \in Int /\ size <= Cardinality(Grown) /\ slot \in [Slots -> Users \cup {None}]
  BY DEF TypeOK
<1>2. QED
  BY <1>1, GrownFinite DEF Slots

LEMMA AddBegins ==
    ASSUME TypeOK, ListInv, NEW u \in Users, ChannelActive(u), met' = {}
    PROVE  ListInv'
<1>1. /\ loop'[u].op = "add" /\ loop'[u].pc = "count" /\ chan[u] = "none" /\ loop[u].pc = "idle"
      /\ chan' = [chan EXCEPT ![u] = "active"] /\ slot' = slot /\ size' = size /\ missed' = missed
      /\ \A v \in Users \ {u} : loop'[v] = loop[v]
  BY ChannelActiveStep DEF HasBegun, list
<1>2. met = {} /\ 0 <= size /\ missed = {}
  BY MetGrows DEF Server, ListInv
<1>3. \A v \in Users \ {u} : loop[v].pc = "idle"
  <2>1. [Idle EXCEPT !.pc = "count", !.op = "add", !.k = modCount].op = "add"
    BY DEF Idle
  <2>2. Changes("add") # {}
    BY DEF Changes
  <2>3. QED
    BY <2>1, <2>2, BeginsQuiet DEF ChannelActive
<1>4. \A v \in Users : ~Changing(v)
  BY <1>1, <1>3, HandlerSteps DEF Removers
<1>5. Holds(1 .. size, Members)
  BY <1>2, <1>4 DEF ListInv
<1>6. chan \in [Users -> {"none", "active", "upgraded", "lost", "gone"}]
  BY DEF TypeOK
<1>7. u \in Members' /\ Members' \ {u} = Members
  BY <1>1, <1>6 DEF Members
<1>8. AtAdd(u)'
  BY <1>1, <1>5, <1>7 DEF AtAdd, Holds
<1>9. Changing(u)' /\ ~Removing(u)'
  BY <1>1 DEF Changing, Removing, Changes
<1>10. QED
  BY <1>1, <1>2, <1>3, <1>8, <1>9, ListAlone

\* The steps of add().
LEMMA AddGoesOn ==
    ASSUME TypeOK, ListInv, NEW u \in Users, AtWork(u), loop[u].op = "add",
           Count(u) \/ TakeSize(u) \/ Resize(u) \/ Put(u)
    PROVE  ListInv'
<1> USE DEF GoesOn
<1>0. Server(u) /\ chan' = chan
  BY DEF Server, Count, TakeSize, Resize, Put, net
<1>1. /\ met = {} /\ 0 <= size /\ missed = {} /\ AtAdd(u)
      /\ \A v \in Users \ {u} : loop'[v] = loop[v] /\ loop[v].pc = "idle"
  BY <1>0, AtWorkAlone
<1>2. loop[u].pc \in {"count", "size", "resize", "put"} /\ loop[u].k \in Int /\ size \in Int
  BY HandlerSteps, SlotDomain
<1>3. Members' = Members
  BY <1>0 DEF Members
<1>4. ASSUME loop'[u].op = "add", AtAdd(u)', 0 <= size', missed' = {}
      PROVE  ListInv'
  <2>1. Changing(u)' /\ ~Removing(u)'
    BY <1>4 DEF Changing, Removing, Changes
  <2>2. QED
    BY <1>1, <1>4, <2>1, ListAlone
<1>5. CASE Count(u)
  <2>1. loop'[u].op = "add" /\ loop'[u].pc = "size" /\ slot' = slot /\ size' = size /\ missed' = missed /\ loop[u].pc = "count"
    BY <1>5, CountStep
  <2>2. AtAdd(u)'
    BY <1>1, <1>3, <2>1 DEF AtAdd, Holds
  <2>3. QED
    BY <1>1, <1>4, <2>1, <2>2
<1>6. CASE TakeSize(u)
  <2>1. loop'[u].op = "add" /\ loop'[u].pc = "resize" /\ loop'[u].k = size /\ slot' = slot /\ size' = size /\ missed' = missed
        /\ loop[u].pc = "size"
    BY <1>2, <1>6, TakeSizeStep DEF list
  <2>2. AtAdd(u)'
    BY <1>1, <1>3, <2>1 DEF AtAdd, Holds
  <2>3. QED
    BY <1>1, <1>4, <2>1, <2>2
<1>7. CASE Resize(u)
  <2>1. loop'[u].op = "add" /\ loop'[u].pc = "put" /\ loop'[u].k = loop[u].k /\ slot' = slot /\ size' = loop[u].k + 1
        /\ missed' = missed /\ loop[u].pc = "resize"
    BY <1>7, ResizeStep
  <2>2. size = loop[u].k /\ Holds(1 .. loop[u].k, Members \ {u})
    BY <1>1, <2>1 DEF AtAdd
  <2>3. Holds(1 .. loop[u].k, Members \ {u})'
    BY <1>3, <2>1, <2>2 DEF Holds
  <2>4. 0 <= loop[u].k /\ 0 <= size'
    BY <1>1, <1>2, <2>1, <2>2
  <2>5. AtAdd(u)'
    BY <1>1, <1>3, <2>1, <2>3, <2>4 DEF AtAdd
  <2>6. QED
    BY <1>1, <1>4, <2>1, <2>4, <2>5
<1>8. CASE Put(u)
  <2>1. loop[u].pc = "put" /\ missed' = missed /\ size' = size /\ Place(u) = loop[u].k + 1
    BY <1>8, PutStep DEF Place
  <2>2. 0 <= loop[u].k /\ size = loop[u].k + 1 /\ Holds(1 .. loop[u].k, Members \ {u}) /\ u \in Members
    BY <1>1, <2>1 DEF AtAdd
  <2>3. slot' = [slot EXCEPT ![loop[u].k + 1] = u] /\ Ends(u)
    BY <1>2, <1>8, <2>1, <2>2, PutStep
  <2>4. \A i \in 1 .. loop[u].k : i \in Slots /\ i # loop[u].k + 1
    <3>1. \A i \in 1 .. loop[u].k : i \in 1 .. size /\ i # loop[u].k + 1
      BY <1>2, <2>2
    <3>2. QED
      BY <3>1, SlotDomain
  <2>5. loop[u].k + 1 \in 1 .. size /\ loop[u].k + 1 \in Slots
    <3>1. loop[u].k + 1 \in 1 .. size
      BY <1>2, <2>2
    <3>2. QED
      BY <3>1, SlotDomain
  <2>6. slot'[loop[u].k + 1] = u /\ \A i \in 1 .. loop[u].k : slot'[i] = slot[i]
    BY <2>3, <2>4, <2>5, SlotDomain
  <2>7. \A i : i \in 1 .. size <=> i \in 1 .. loop[u].k \/ i = loop[u].k + 1
    BY <1>2, <2>2
  <2>8. {slot'[i] : i \in 1 .. size} = {slot[i] : i \in 1 .. loop[u].k} \cup {u}
    BY <2>6, <2>7
  <2>9. Holds(1 .. size, Members)'
    BY <1>3, <2>1, <2>2, <2>8 DEF Holds
  <2>10. loop'[u].op = "none"
    <3>1. loop' = [loop EXCEPT ![u] = Idle]
      BY <2>3 DEF Ends
    <3>2. QED
      BY <3>1, IdleType DEF TypeOK
  <2>11. ~Changing(u)' /\ ~Removing(u)'
    BY <2>10 DEF Changing, Removing, Changes
  <2>12. QED
    BY <1>1, <2>1, <2>9, <2>10, <2>11, ListAlone
<1>9. QED
  BY <1>5, <1>6, <1>7, <1>8
-----------------------------------------------------------------------------
\* A handler has done with the list, and one that removes may follow it.
LEMMA ListEnds ==
    ASSUME TypeOK, NEW u \in Users, \A v \in Users \ {u} : loop'[v] = loop[v] /\ loop[v].pc = "idle",
           loop[u].op \in {"inactive", "reset"}, Ends(u), chan[u] = "gone", chan' = chan,
           0 <= size', missed' = {}, Holds(1 .. size, Members)'
    PROVE  ListInv'
<1>1. CASE loop[u].op = "inactive"
  <2>1. loop'[u].op = "none"
    <3>1. loop' = [loop EXCEPT ![u] = Idle]
      BY <1>1 DEF Ends
    <3>2. QED
      BY <3>1, IdleType DEF TypeOK
  <2>2. ~Changing(u)' /\ ~Removing(u)'
    BY <2>1 DEF Changing, Removing, Changes
  <2>3. QED
    BY <2>1, <2>2, ListAlone
<1>2. CASE loop[u].op = "reset"
  <2>1. loop'[u].op = "inactive" /\ loop'[u].pc = "scan" /\ loop'[u].n = 0
    <3>1. Removes(u, "inactive")
      BY <1>2 DEF Ends
    <3>2. QED
      BY <3>1, RemovesStep DEF HasBegun, Removers
  <2>2. 1 .. loop'[u].n = {}
    BY <2>1
  <2>3. AtRemove(u)'
    BY <2>1, <2>2 DEF AtRemove
  <2>4. Changing(u)'
    BY <2>1 DEF Changing, Changes
  <2>5. QED
    BY <2>1, <2>3, <2>4, ListAlone
<1>3. QED
  BY <1>1, <1>2

LEMMA RemoveBegins ==
    ASSUME TypeOK, ListInv, NEW u \in Users, ChannelInactive(u), met' = {}
    PROVE  ListInv'
<1>1. PICK op \in {"inactive", "reset"} : Removes(u, op) /\ HasBegun(u, op, "scan")
  BY ChannelInactiveStep
<1>2. /\ loop'[u].op = op /\ loop'[u].pc = "scan" /\ loop'[u].n = 0 /\ chan[u] = "lost" /\ loop[u].pc = "idle"
      /\ chan' = [chan EXCEPT ![u] = "gone"] /\ slot' = slot /\ size' = size /\ missed' = missed
      /\ \A v \in Users \ {u} : loop'[v] = loop[v]
  BY <1>1, ChannelInactiveStep DEF HasBegun, list
<1>3. met = {} /\ 0 <= size /\ missed = {}
  BY MetGrows DEF Server, ListInv
<1>4. \A v \in Users \ {u} : loop[v].pc = "idle"
  BY <1>1, RemovesAlone DEF Removers
<1>5. \A v \in Users : ~Changing(v)
  BY <1>2, <1>4, HandlerSteps DEF Removers
<1>6. Holds(1 .. size, Members)
  BY <1>3, <1>5 DEF ListInv
<1>7. chan'[u] = "gone" /\ Members' \cup {u} = Members
  <2>1. chan \in [Users -> {"none", "active", "upgraded", "lost", "gone"}]
    BY DEF TypeOK
  <2>2. QED
    BY <1>2, <2>1 DEF Members
<1>8. AtRemove(u)'
  <2>1. 1 .. loop'[u].n = {}
    BY <1>2
  <2>2. Holds(1 .. size, Members \cup {u})'
    BY <1>2, <1>6, <1>7 DEF Holds
  <2>3. QED
    BY <1>2, <1>7, <2>1, <2>2 DEF AtRemove
<1>9. Changing(u)' /\ loop'[u].op \notin {"add", "read"}
  BY <1>2 DEF Changing, Changes
<1>10. QED
  BY <1>2, <1>3, <1>4, <1>8, <1>9, ListAlone

\* The steps of remove() ...
LEMMA RemoveGoesOn ==
    ASSUME TypeOK, PlaceInv, ListInv, NEW u \in Users, AtWork(u), Removing(u),
           Count(u) \/ TakeSize(u) \/ Resize(u) \/ Put(u) \/ Scan(u) \/ Look(u) \/ Found(u) \/ NumMoved(u) \/ Shift(u) \/ Move(u)
    PROVE  ListInv'
<1> USE DEF GoesOn
<1>0. Server(u) /\ chan' = chan /\ missed' = missed
  BY DEF Server, Count, TakeSize, Resize, Put, Scan, Look, Found, NumMoved, Shift, Move, net, history
<1>1. /\ met = {} /\ 0 <= size /\ missed = {} /\ AtRemove(u) /\ Alone(u)
      /\ \A v \in Users \ {u} : loop'[v] = loop[v] /\ loop[v].pc = "idle"
  BY <1>0, AtWorkAlone DEF PlaceInv
<1>2. /\ loop[u].n \in Nat /\ loop[u].k \in Int /\ size \in Int /\ loop[u].op # "add"
      /\ loop[u].op \in {"inactive", "reset"} /\ chan[u] = "gone"
  BY <1>1, HandlerSteps, SlotDomain DEF Removers, AtRemove
<1>3. Members' = Members /\ Members \subseteq Users /\ u \notin Members
  BY <1>0, <1>2 DEF Members
<1>4. ASSUME loop'[u].op = loop[u].op, 0 <= size', AtRemove(u)'
      PROVE  ListInv'
  <2>1. Changing(u)' /\ loop'[u].op \notin {"add", "read"}
    BY <1>2, <1>4, HandlerSteps DEF Changing, Changes, Removers
  <2>2. QED
    BY <1>0, <1>1, <1>4, <2>1, ListAlone
<1>5. CASE Scan(u)
  <2>1. loop[u].pc = "scan" /\ slot' = slot /\ size' = size
    BY <1>5, ScanStep DEF list
  <2>2. /\ \A i \in 1 .. loop[u].n : i <= size /\ slot[i] # u
        /\ Holds(1 .. size, Members) \/ Holds(1 .. size, Members \cup {u})
    BY <1>1, <2>1 DEF AtRemove
  <2>3. CASE loop[u].n < size
    <3>1. loop'[u].pc = "look" /\ loop'[u].n = loop[u].n /\ loop'[u].op = loop[u].op
      BY <1>5, <2>3, ScanStep
    <3>2. AtRemove(u)'
      BY <1>0, <1>2, <1>3, <2>1, <2>2, <3>1 DEF AtRemove, Holds
    <3>3. QED
      BY <1>1, <1>4, <2>1, <3>1, <3>2
  <2>4. CASE ~(loop[u].n < size)
    <3>1. Ends(u)
      BY <1>5, <2>4, ScanStep
    <3>2. \A i \in 1 .. size : i \in 1 .. loop[u].n
      BY <1>2, <2>4
    <3>3. Holds(1 .. size, Members)
      BY <2>2, <3>2 DEF Holds
    <3>4. Holds(1 .. size, Members)'
      BY <1>3, <2>1, <3>3 DEF Holds
    <3>5. QED
      BY <1>0, <1>1, <1>2, <2>1, <3>1, <3>4, ListEnds
  <2>5. QED
    BY <2>3, <2>4
<1>6. CASE Look(u)
  <2>1. loop[u].pc = "look" /\ slot' = slot /\ size' = size /\ loop[u].n < size
    BY <1>1, <1>6, LookStep DEF list, Alone
  <2>2. /\ \A i \in 1 .. loop[u].n : i <= size /\ slot[i] # u
        /\ Holds(1 .. size, Members) \/ Holds(1 .. size, Members \cup {u})
    BY <1>1, <2>1 DEF AtRemove
  <2>3. loop[u].n + 1 \in 1 .. size
    BY <1>2, <2>1
  <2>4. CASE Item(u) = u
    <3>1. loop'[u].pc = "found" /\ loop'[u].n = loop[u].n /\ loop'[u].op = loop[u].op
      BY <1>6, <2>4, LookStep
    <3>2. slot[loop[u].n + 1] = u
      BY <2>4 DEF Item
    <3>3. Holds(1 .. size, Members \cup {u})
      BY <1>3, <2>2, <2>3, <3>2 DEF Holds
    <3>4. \A i \in 1 .. size \ {loop[u].n + 1} : slot[i] # u
      <4>1. "remove" \notin met /\ Removing(u) /\ Alone(u)
        BY <1>1
      <4>2. \A i, j \in Slots : i < j /\ slot[i] = slot[j] => slot[i] = None
        BY <2>1, <4>1, TwiceBy DEF PlaceInv
      <4>3. \A i \in 1 .. size \ {loop[u].n + 1} :
              i \in Slots /\ loop[u].n + 1 \in Slots /\ (i < loop[u].n + 1 \/ loop[u].n + 1 < i)
        BY <1>2, <2>3, SlotDomain
      <4>4. u # None
        BY ChatAssumption
      <4>5. QED
        BY <3>2, <4>2, <4>3, <4>4
    <3>5. Holds(1 .. size \ {loop[u].n + 1}, Members)
      BY <1>3, <2>3, <3>2, <3>3, <3>4 DEF Holds
    <3>6. Holds(1 .. size \ {loop[u].n + 1}, Members)'
      BY <1>3, <2>1, <3>1, <3>5 DEF Holds
    <3>7. AtRemove(u)'
      BY <1>0, <1>2, <3>1, <3>6 DEF AtRemove
    <3>8. QED
      BY <1>1, <1>4, <2>1, <3>1, <3>7
  <2>5. CASE Item(u) # u
    <3>1. loop'[u].pc = "scan" /\ loop'[u].n = loop[u].n + 1 /\ loop'[u].op = loop[u].op
      BY <1>6, <2>5, LookStep
    <3>2. \A i \in 1 .. loop[u].n + 1 : i \in 1 .. loop[u].n \/ i = loop[u].n + 1
      BY <1>2
    <3>3. \A i \in 1 .. loop[u].n + 1 : i <= size /\ slot[i] # u
      <4>1. loop[u].n + 1 <= size
        BY <1>2, <2>1
      <4>2. QED
        BY <2>2, <2>5, <3>2, <4>1 DEF Item
    <3>4. Holds(1 .. size, Members)' \/ Holds(1 .. size, Members \cup {u})'
      BY <1>3, <2>1, <2>2 DEF Holds
    <3>5. AtRemove(u)'
      BY <1>0, <1>2, <2>1, <3>1, <3>3, <3>4 DEF AtRemove
    <3>6. QED
      BY <1>1, <1>4, <2>1, <3>1, <3>5
  <2>6. QED
    BY <2>4, <2>5
<1>7. CASE Found(u) \/ Count(u) \/ NumMoved(u) \/ Shift(u)
  <2>1. /\ loop[u].pc \in {"found", "count", "moved", "shift"} /\ loop'[u].pc \in {"count", "moved", "shift", "move"}
        /\ loop'[u].n = loop[u].n /\ loop'[u].op = loop[u].op /\ slot' = slot /\ size' = size
    BY <1>2, <1>7, FoundStep, CountStep, NumMovedStep, ShiftStep DEF list
  <2>2. Holds(1 .. size \ {loop[u].n + 1}, Members)
    BY <1>1, <2>1 DEF AtRemove
  <2>3. Holds(1 .. size \ {loop[u].n + 1}, Members)'
    BY <1>3, <2>1, <2>2 DEF Holds
  <2>4. AtRemove(u)'
    BY <1>0, <1>2, <2>1, <2>3 DEF AtRemove
  <2>5. QED
    BY <1>1, <1>4, <2>1, <2>4
<1>8. CASE Move(u)
  <2>1. /\ loop[u].pc = "move" /\ loop'[u].pc = "shift" /\ loop'[u].n = loop[u].n + 1 /\ loop'[u].op = loop[u].op
        /\ loop[u].n + 1 \in Slots /\ slot' = [slot EXCEPT ![loop[u].n + 1] = loop[u].item] /\ size' = size
        /\ loop[u].n + 1 < loop[u].k
    BY <1>8, MoveStep
  <2>2. loop[u].k = size /\ loop[u].item = slot[loop[u].n + 2]
    BY <1>1, <2>1 DEF Alone
  <2>3. Holds(1 .. size \ {loop[u].n + 1}, Members)
    BY <1>1, <2>1 DEF AtRemove
  <2>4. PICK n \in Nat : n = loop[u].n
    BY <1>2
  <2>5. n + 1 \in 1 .. size /\ n + 2 \in 1 .. size /\ n + 1 # n + 2
    BY <1>2, <2>1, <2>2, <2>4
  <2>6. slot'[n + 1] = slot[n + 2] /\ \A i \in 1 .. size \ {n + 1} : slot'[i] = slot[i]
    BY <2>1, <2>2, <2>4, SlotDomain
  <2>7. {slot'[i] : i \in 1 .. size \ {n + 2}} = {slot[i] : i \in 1 .. size \ {n + 1}}
    BY <2>5, <2>6
  <2>8. loop'[u].n + 1 = n + 2
    BY <2>1, <2>4
  <2>9. Holds(1 .. size \ {loop[u].n + 1}, Members)'
    BY <1>3, <2>1, <2>3, <2>4, <2>7, <2>8 DEF Holds
  <2>10. AtRemove(u)'
    BY <1>0, <1>2, <2>1, <2>9 DEF AtRemove
  <2>11. QED
    BY <1>1, <1>4, <2>1, <2>10
<1>9. CASE TakeSize(u)
  <2>1. /\ loop[u].pc = "shift" /\ loop[u].n + 1 >= loop[u].k /\ loop'[u].pc = "resize" /\ loop'[u].n = loop[u].n
        /\ loop'[u].op = loop[u].op /\ slot' = slot /\ size' = size
    BY <1>2, <1>9, TakeSizeStep, HandlerSteps DEF list
  <2>2. loop[u].k = size /\ loop[u].n < size
    BY <1>1, <2>1 DEF Alone
  <2>3. 1 .. size \ {loop[u].n + 1} = 1 .. loop[u].n
    BY <1>2, <2>1, <2>2
  <2>4. Holds(1 .. loop[u].n, Members)
    BY <1>1, <2>1, <2>3 DEF AtRemove
  <2>5. Holds(1 .. loop[u].n, Members)'
    BY <1>3, <2>1, <2>4 DEF Holds
  <2>6. AtRemove(u)'
    BY <1>0, <1>2, <2>1, <2>5 DEF AtRemove
  <2>7. QED
    BY <1>1, <1>4, <2>1, <2>6
<1>10. CASE Resize(u)
  <2>1. /\ loop[u].pc = "resize" /\ loop'[u].pc = "put" /\ loop'[u].n = loop[u].n
        /\ loop'[u].op = loop[u].op /\ slot' = slot /\ size' = loop[u].k - 1
    BY <1>2, <1>10, ResizeStep
  <2>2. size' = loop[u].n /\ 0 <= size'
    BY <1>1, <1>2, <2>1 DEF Alone
  <2>3. Holds(1 .. loop[u].n, Members)
    BY <1>1, <2>1 DEF AtRemove
  <2>4. Holds(1 .. loop[u].n, Members)'
    BY <1>3, <2>1, <2>3 DEF Holds
  <2>5. AtRemove(u)'
    BY <1>0, <1>2, <2>1, <2>2, <2>4 DEF AtRemove
  <2>6. QED
    BY <1>4, <2>1, <2>2, <2>5
<1>11. CASE Put(u)
  <2>1. loop[u].pc = "put" /\ size' = size
    BY <1>11, PutStep
  <2>2. loop[u].k = loop[u].n + 1 /\ size = loop[u].n /\ Holds(1 .. loop[u].n, Members) /\ Place(u) = loop[u].k
    BY <1>1, <1>2, <2>1 DEF Alone, AtRemove, Place
  <2>3. Place(u) >= 1
    BY <1>2, <2>2
  <2>4. Ends(u) /\ slot' = [slot EXCEPT ![loop[u].n + 1] = None]
    BY <1>2, <1>11, <2>2, <2>3, PutStep
  <2>5. \A i \in 1 .. size : i \in Slots /\ i # loop[u].n + 1
    BY <1>2, <2>2, SlotDomain
  <2>6. \A i \in 1 .. size : slot'[i] = slot[i]
    BY <2>4, <2>5, SlotDomain
  <2>7. Holds(1 .. size, Members)'
    BY <1>3, <2>1, <2>2, <2>6 DEF Holds
  <2>8. QED
    BY <1>0, <1>1, <1>2, <2>1, <2>4, <2>7, ListEnds
<1>12. QED
  BY <1>5, <1>6, <1>7, <1>8, <1>9, <1>10, <1>11

LEMMA ListNext ==
    ASSUME TypeOK, PlaceInv, ListInv, [Next]_vars
    PROVE  ListInv'
<1>1. CASE UNCHANGED vars
  <2>1. UNCHANGED <<loop, list, history>> /\ chan' = chan
    BY <1>1 DEF vars, net
  <2>2. QED
    BY <2>1, ListKeeps DEF Members
<1>2. ASSUME NEW u \in Users, Page(u) \/ Server(u), met' = {} PROVE ListInv'
  <2>1. CASE Page(u) \/ Upgrade(u)
    BY <2>1, ListPage
  <2>2. CASE Read(u) \/ Each(u) \/ Checks(u) \/ Pass(u)
    BY <1>2, <2>2, ReadingList
  <2>3. CASE ChannelActive(u) \/ ChannelInactive(u)
    BY <1>2, <2>3, AddBegins, RemoveBegins
  <2>4. CASE Scan(u) \/ Look(u) \/ Found(u) \/ NumMoved(u) \/ Shift(u) \/ Move(u)
    <3>1. Removing(u)
      BY <2>4, HandlerSteps, ScanStep, LookStep, FoundStep, NumMovedStep, ShiftStep, MoveStep
    <3>2. AtWork(u)
      BY <1>2, <3>1, HandlerSteps DEF AtWork
    <3>3. QED
      BY <2>4, <3>1, <3>2, RemoveGoesOn
  <2>5. CASE Count(u) \/ TakeSize(u) \/ Resize(u) \/ Put(u)
    <3>1. loop[u].op = "add" \/ Removing(u)
      BY <2>5, HandlerSteps, CountStep, TakeSizeStep, ResizeStep, PutStep
    <3>2. AtWork(u)
      BY <1>2, <3>1, HandlerSteps DEF AtWork
    <3>3. QED
      BY <2>5, <3>1, <3>2, AddGoesOn, RemoveGoesOn
  <2>6. QED
    BY <1>2, <2>1, <2>2, <2>3, <2>4, <2>5 DEF Server
<1>3. met' # {} => ListInv'
  BY DEF ListInv
<1>4. QED
  BY <1>1, <1>2, <1>3 DEF Next
-----------------------------------------------------------------------------
LEMMA HoldsSound ==
    ASSUME TypeOK, PlaceInv, ListInv
    PROVE  ListSound
<1>1. ASSUME met = {}, \A u \in Users : ~Changing(u) PROVE IsInjective(Listed) /\ ToSet(Listed) = Members
  <2>0. size \in Nat
    BY <1>1, SlotDomain DEF ListInv
  <2>1. {slot[i] : i \in 1 .. size} = Members
    BY <1>1 DEF ListInv, Holds
  <2>2. DOMAIN Listed = 1 .. size /\ \A i \in 1 .. size : i \in Slots /\ i \in Nat /\ Listed[i] = slot[i] /\ slot[i] \in Members
    BY <2>0, <2>1, SlotDomain DEF Listed
  <2>3. \A i, j \in Slots : i < j /\ slot[i] = slot[j] => slot[i] = None
    <3>1. \A u \in Users : ~Removing(u)
      BY <1>1, HandlerSteps
    <3>2. QED
      BY <1>1, <3>1 DEF PlaceInv, Twice
  <2>4. None \notin Members
    BY ChatAssumption DEF Members
  <2>5. ASSUME NEW i \in 1 .. size, NEW j \in 1 .. size, slot[i] = slot[j] PROVE i = j
    <3>1. ~(i < j) /\ ~(j < i)
      BY <2>2, <2>3, <2>4, <2>5
    <3>2. QED
      BY <2>2, <3>1
  <2>6. IsInjective(Listed)
    BY <2>2, <2>5 DEF IsInjective
  <2>7. ToSet(Listed) = Members
    BY <2>1, <2>2 DEF ToSet
  <2>8. QED
    BY <2>6, <2>7
<1>2. QED
  BY <1>1 DEF ListSound

LEMMA InitInv ==
    ASSUME Init
    PROVE  ChatInv
<1>0. MaxActs \in Nat /\ Cardinality(Grown) \in Nat
  BY ChatAssumption, GrownFinite
<1>1. \A u \in Users : /\ loop[u] = Idle /\ loop[u].pc = "idle" /\ loop[u].op = "none" /\ loop[u].item = None
                       /\ chan[u] = "none" /\ ~Removing(u) /\ ~Changing(u)
  BY IdleType DEF Init, Removing, Changing, Changes
<1>2. TypeOK
  <2>1. loop \in [Users -> Handlers]
    BY IdleType DEF Init
  <2>2. \A u \in Users : Fits(u)
    BY <1>1 DEF Fits, Steps
  <2>3. <<>> \in Seq(Message)
    BY EmptySeq
  <2>4. shown \in [Users -> Seq(Message)] /\ wire \in [Users -> Seq(Message)] /\ inbox \in [Users -> Seq(Message)]
    BY <2>3 DEF Init
  <2>5. size \in Int /\ size <= Cardinality(Grown) /\ modCount \in Nat /\ acts \in 0 .. MaxActs
    BY <1>0 DEF Init
  <2>6. QED
    BY <2>1, <2>2, <2>4, <2>5 DEF Init, TypeOK
<1>3. \A u \in Users : wire[u] = <<>> /\ Got(u) = <<>>
  BY ConcatEmptySeq, EmptySeq DEF Init, Got
<1>4. UnlistedInv
  <2>1. \A i \in Slots : slot[i] = None
    BY DEF Init
  <2>2. QED
    BY <1>1, <1>3, <2>1, ChatAssumption DEF UnlistedInv
<1>5. PlaceInv
  <2>1. \A i \in Slots : slot[i] = None
    BY DEF Init
  <2>2. QED
    BY <1>1, <2>1 DEF PlaceInv
<1>6. OrderInv
  <2>1. \A u \in Users : 1 .. Len(wire[u]) = {} /\ 1 .. Len(Got(u)) = {}
    BY <1>3, EmptySeq
  <2>2. QED
    BY <1>1, <2>1 DEF OrderInv, Numbered, Ordered
<1>7. ListInv
  <2>1. Members = {} /\ {slot[i] : i \in 1 .. size} = {} /\ missed = {} /\ 0 <= size
    BY DEF Init, Members
  <2>2. QED
    BY <1>1, <2>1 DEF ListInv, Holds
<1>8. QED
  BY <1>2, <1>4, <1>5, <1>6, <1>7, HoldsSound DEF ChatInv

\* ChatInv holds of every behaviour, for any users on any event loops and any number of
\* their actions: no index goes beyond the array, whatever the size has become;
\* what is on its way keeps the order of its sending; no channel is in the array twice
\* but for the one that an undisturbed remove() has just moved; and where no change of
\* the list has been disturbed, it holds the connected channels, each once.
THEOREM Invariance == Spec => []ChatInv
<1>1. Init => ChatInv
  BY InitInv
<1>2. ChatInv /\ [Next]_vars => ChatInv'
  <2>1. ASSUME ChatInv, [Next]_vars PROVE TypeOK' /\ UnlistedInv' /\ PlaceInv' /\ OrderInv' /\ ListInv'
    BY <2>1, TypeNext, UnlistedNext, PlaceNext, OrderNext, ListNext DEF ChatInv
  <2>2. TypeOK /\ PlaceInv /\ ListInv => ListSound
    BY HoldsSound
  <2>3. (TypeOK /\ PlaceInv /\ ListInv => ListSound)'
    BY <2>2, PTL
  <2>4. QED
    BY <2>1, <2>3 DEF ChatInv
<1>3. QED
  BY <1>1, <1>2, PTL DEF Spec

\* The type invariant: whatever the event loops do to each other's changes, the size
\* never exceeds the channels that have been added, and no index the array.
THEOREM TypeCorrect == Spec => []TypeOK
BY Invariance, PTL DEF ChatInv

\* A message that channelRead0 passes round gets to everybody else who was connected
\* and still is, unless another handler was at the list during an add() or a remove().
THEOREM HearsHolds == Spec => []EveryoneHears
<1>1. ChatInv => EveryoneHears
  BY DEF ChatInv, ListInv, EveryoneHears
<1>2. QED
  BY <1>1, Invariance, PTL

\* Whatever the event loops do to the list, a page gets what another has sent in the
\* order of its sending, nothing of its own, and nothing twice unless another handler
\* was at the list during a remove().
THEOREM OrderHolds == Spec => []ShownInOrder
<1>1. ChatInv => ShownInOrder
  BY DEF ChatInv, OrderInv, Ordered, Passed, ShownInOrder
<1>2. QED
  BY <1>1, Invariance, PTL
=============================================================================
