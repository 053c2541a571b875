-------------------------------- MODULE Chat --------------------------------
(***************************************************************************)
(* The chat: the pages (chat.js), each with its WebSocket and the box the  *)
(* user types into, and the server's WeChatHandler, which the event loops  *)
(* run against one ArrayList of channels that nothing guards.              *)
(*                                                                         *)
(* A page runs one callback after the other.  On the server each step is   *)
(* one access of the ArrayList (of JDK 8) to its size, to its modCount or  *)
(* to a place of its array, and the steps of two event loops mix.          *)
(***************************************************************************)
EXTENDS Integers, Sequences, FiniteSets, SequencesExt

CONSTANTS Users,      \* pages, and the channels they have at the server
          Typists,    \* the users who do more than listen
          EventLoop,  \* the event loop (a thread) of each channel
          MaxActs,    \* bound: names, connections, breaks, what is done to the box
          None

ASSUME ChatAssumption ==
    IsFiniteSet(Users) /\ MaxActs \in Nat /\ Typists \subseteq Users /\ None \notin Users

VARIABLES stage,      \* the page: "prompt", "connecting", "open", "closed" or "failed"
          draft,      \* the box holds something that is not blank
          focused,    \* the box has the focus
          refocus,    \* how many timeouts will give the focus back
          arrow,      \* the hint that one has to type something
          said,       \* how many messages the page has given to its WebSocket
          shown,      \* the messages of others in its list
          wire,       \* what the page has sent and the server has not read
          inbox,      \* what the server has sent and the page has not seen
          chan,       \* the channel: "none", "active", "upgraded", "lost" or "gone"
          loop,       \* what its event loop is doing for it
          slot,       \* channelList's array
          size,       \* its size, and how often it has been changed
          modCount,
          acts,
          met,        \* history: the changes made while another handler was at the list
          missed      \* history: messages, and who did not get them

page == <<stage, draft, focused, refocus, arrow, said, shown>>
net == <<wire, inbox, chan>>
list == <<slot, size, modCount>>
history == <<met, missed>>
vars == <<page, net, loop, list, acts, history>>

Slots == 1 .. Cardinality(Users)

\* A handler: its next step, the index it is at, the number and the element it has
\* read, the message with the modCount its iterator expects, and who should get it.
Idle == [pc |-> "idle", op |-> "none", n |-> 0, k |-> 0, item |-> None, msg |-> None, owed |-> {}]

Init ==
    /\ stage = [u \in Users |-> "prompt"]
    /\ draft = [u \in Users |-> FALSE]
    /\ focused = [u \in Users |-> FALSE]
    /\ refocus = [u \in Users |-> 0]
    /\ arrow = [u \in Users |-> FALSE]
    /\ said = [u \in Users |-> 0]
    /\ shown = [u \in Users |-> <<>>]
    /\ wire = [u \in Users |-> <<>>]
    /\ inbox = [u \in Users |-> <<>>]
    /\ chan = [u \in Users |-> "none"]
    /\ loop = [u \in Users |-> Idle]
    /\ slot = [i \in Slots |-> None]
    /\ size = 0
    /\ modCount = 0
    /\ acts = 0
    /\ met = {}
    /\ missed = {}
-----------------------------------------------------------------------------
\* The page.  A blank name is asked for again; prompt() that is cancelled answers
\* null, and null.trim() ends the script before there is a WebSocket.
AskName(u, name) ==
    /\ stage[u] = "prompt"
    /\ stage' = [stage EXCEPT ![u] = CASE name = "blank" -> "prompt"
                                       [] name = "null" -> "failed"
                                       [] name = "given" -> "connecting"]
    /\ acts < MaxActs /\ acts' = acts + 1
    /\ UNCHANGED <<draft, focused, refocus, arrow, said, shown, net, loop, list, history>>

Say(u) ==
    /\ said' = [said EXCEPT ![u] = @ + 1]
    /\ wire' = [wire EXCEPT ![u] = Append(@, [from |-> u, no |-> said[u] + 1])]

\* onopen
Opens(u) ==
    /\ stage[u] = "connecting" /\ chan[u] = "upgraded"
    /\ acts < MaxActs /\ acts' = acts + 1
    /\ stage' = [stage EXCEPT ![u] = "open"]
    /\ Say(u)
    /\ UNCHANGED <<draft, focused, refocus, arrow, shown, inbox, chan, loop, list, history>>

\* onmessage, showMessage
Shows(u) ==
    /\ stage[u] = "open" /\ inbox[u] # <<>>
    /\ shown' = [shown EXCEPT ![u] = Append(@, Head(inbox[u]))]
    /\ inbox' = [inbox EXCEPT ![u] = Tail(@)]
    /\ UNCHANGED <<stage, draft, focused, refocus, arrow, said, wire, chan, loop, list, acts, history>>

\* The script of the page has come to its end, and its handlers are bound.
Bound(u) == stage[u] \in {"connecting", "open", "closed"}

Acting(u) == u \in Typists /\ Bound(u) /\ acts < MaxActs /\ acts' = acts + 1

\* the handler of "focus" empties the box
Focusing(u) ==
    /\ focused' = [focused EXCEPT ![u] = TRUE]
    /\ draft' = [draft EXCEPT ![u] = FALSE]
    /\ arrow' = [arrow EXCEPT ![u] = FALSE]

FocusBox(u) ==
    /\ Acting(u) /\ ~focused[u]
    /\ Focusing(u)
    /\ UNCHANGED <<stage, refocus, said, shown, net, loop, list, history>>

Type(u) ==
    /\ u \in Typists /\ Bound(u) /\ focused[u]
    /\ draft' = [draft EXCEPT ![u] = TRUE]
    /\ UNCHANGED <<acts, stage, focused, refocus, arrow, said, shown, net, loop, list, history>>

\* sendMsg: the message is in the page's own list, and the box is empty, before the
\* WebSocket has it.  One that is connecting throws, one that is closed keeps silent.
SendMsg(u) ==
    /\ draft' = [draft EXCEPT ![u] = FALSE]
    /\ IF stage[u] = "open" THEN Say(u) ELSE UNCHANGED <<said, wire>>

\* Enter.  What comes after sendMsg() is not done when the WebSocket throws.
PressEnter(u) ==
    /\ Acting(u) /\ focused[u]
    /\ LET throws == draft[u] /\ stage[u] = "connecting"
       IN  /\ focused' = [focused EXCEPT ![u] = throws]
           /\ refocus' = [refocus EXCEPT ![u] = IF throws THEN @ ELSE @ + 1]
    /\ arrow' = [arrow EXCEPT ![u] = ~draft[u]]
    /\ IF draft[u] THEN SendMsg(u) ELSE UNCHANGED <<draft, said, wire>>
    /\ UNCHANGED <<stage, shown, inbox, chan, loop, list, history>>

\* the click takes the focus from the box
ClickSend(u) ==
    /\ Acting(u)
    /\ focused' = [focused EXCEPT ![u] = FALSE]
    /\ IF draft[u] THEN SendMsg(u) /\ UNCHANGED arrow
       ELSE arrow' = [arrow EXCEPT ![u] = TRUE] /\ UNCHANGED <<draft, said, wire>>
    /\ UNCHANGED <<stage, refocus, shown, inbox, chan, loop, list, history>>

Refocus(u) ==
    /\ refocus[u] > 0
    /\ refocus' = [refocus EXCEPT ![u] = @ - 1]
    /\ IF focused[u] THEN UNCHANGED <<draft, focused, arrow>> ELSE Focusing(u)
    /\ UNCHANGED <<stage, said, shown, net, loop, list, acts, history>>

\* The connection breaks, or the user leaves the page: what is on its way may be lost.
Breaks(u, rest) ==
    /\ chan[u] \in {"active", "upgraded"}
    /\ acts < MaxActs /\ acts' = acts + 1
    /\ stage' = [stage EXCEPT ![u] = "closed"]
    /\ chan' = [chan EXCEPT ![u] = "lost"]
    /\ wire' = [wire EXCEPT ![u] = IF rest THEN @ ELSE <<>>]
    /\ inbox' = [inbox EXCEPT ![u] = <<>>]
    /\ UNCHANGED <<draft, focused, refocus, arrow, said, shown, loop, list, history>>
-----------------------------------------------------------------------------
\* The server.  A handler begins when the event loop of its channel is idle.
Free(u) == \A v \in Users : EventLoop[v] = EventLoop[u] => loop[v].pc = "idle"

\* how a handler changes the list; remove() is called by three of them
Changes(op) == CASE op = "add" -> {"add"}
                 [] op \in {"inactive", "reset", "caught"} -> {"remove"}
                 [] OTHER -> {}

Busy(u) == {v \in Users \ {u} : loop[v].pc # "idle"}

Begins(u, handler) ==
    /\ loop' = [loop EXCEPT ![u] = handler]
    /\ met' = met \cup UNION {Changes(handler.op) \cup Changes(loop[v].op) : v \in Busy(u)}

Removes(u, op) == Begins(u, [Idle EXCEPT !.pc = "scan", !.op = op])

\* A handler is through, or fails: Netty calls exceptionCaught(), which removes the
\* channel, unless it is exceptionCaught() that fails.  After the exception of a
\* connection that was reset, the channel becomes inactive.
Ends(u) == IF loop[u].op = "reset" THEN Removes(u, "inactive")
           ELSE loop' = [loop EXCEPT ![u] = Idle] /\ UNCHANGED met

Fails(u) == IF loop[u].op \in {"caught", "reset"} THEN Ends(u) ELSE Removes(u, "caught")

Goto(u, pc) == loop' = [loop EXCEPT ![u].pc = pc] /\ UNCHANGED met

Takes(u, pc, k) == loop' = [loop EXCEPT ![u].pc = pc, ![u].k = k] /\ UNCHANGED met

\* channelActive: add() reads modCount
ChannelActive(u) ==
    /\ Free(u) /\ stage[u] = "connecting" /\ chan[u] = "none"
    /\ chan' = [chan EXCEPT ![u] = "active"]
    /\ Begins(u, [Idle EXCEPT !.pc = "count", !.op = "add", !.k = modCount])
    /\ UNCHANGED <<page, wire, inbox, list, acts, missed>>

\* modCount++ in add() and in remove(), after it has been read
Count(u) ==
    /\ loop[u].pc = "count"
    /\ modCount' = loop[u].k + 1
    /\ Goto(u, IF loop[u].op = "add" THEN "size" ELSE "moved")
    /\ UNCHANGED <<page, net, slot, size, acts, missed>>

\* elementData[size++] = e, elementData[--size] = null: the size is read, once
\* remove() has moved what it has to ...
TakeSize(u) ==
    /\ \/ loop[u].pc = "size"
       \/ loop[u].pc = "shift" /\ loop[u].n + 1 >= loop[u].k
    /\ Takes(u, "resize", size)
    /\ UNCHANGED <<page, net, list, acts, missed>>

\* ... written ...
Resize(u) ==
    /\ loop[u].pc = "resize"
    /\ size' = IF loop[u].op = "add" THEN loop[u].k + 1 ELSE loop[u].k - 1
    /\ Goto(u, "put")
    /\ UNCHANGED <<page, net, slot, modCount, acts, missed>>

\* mutant of Place: remove() clears the place before the last
PlaceBefore(u) == IF loop[u].op = "add" THEN loop[u].k + 1 ELSE loop[u].k - 1

\* the place that add() fills, or that remove() makes null
Place(u) == IF loop[u].op = "add" THEN loop[u].k + 1 ELSE loop[u].k

\* ... and then the place; there is none before the first
Put(u) ==
    /\ loop[u].pc = "put"
    /\ IF Place(u) < 1 THEN Fails(u) /\ UNCHANGED slot
       ELSE slot' = [slot EXCEPT ![Place(u)] = IF loop[u].op = "add" THEN u ELSE None] /\ Ends(u)
    /\ UNCHANGED <<page, net, size, modCount, acts, missed>>

\* WebSocketServerProtocolHandler
Upgrade(u) ==
    /\ Free(u) /\ chan[u] = "active"
    /\ chan' = [chan EXCEPT ![u] = "upgraded"]
    /\ UNCHANGED <<page, wire, inbox, loop, list, acts, history>>

\* channelRead0: "owed" are those the message should get to
Read(u) ==
    /\ Free(u) /\ chan[u] \in {"upgraded", "lost"} /\ wire[u] # <<>>
    /\ wire' = [wire EXCEPT ![u] = Tail(@)]
    /\ Begins(u, [Idle EXCEPT !.pc = "each", !.op = "read", !.msg = [m |-> Head(wire[u]), mod |-> modCount],
                              !.owed = {v \in Users \ {u} : chan[v] = "upgraded"}])
    /\ UNCHANGED <<page, inbox, chan, list, acts, missed>>

\* mutant of Exhausted: the last one is let go
ExhaustedEarly(u) == loop[u].n + 1 >= size

\* hasNext() of the iterator is false
Exhausted(u) == loop[u].n = size

Misses(u) == missed' = missed \cup {<<loop[u].msg.m, v>> : v \in {w \in loop[u].owed : chan[w] = "upgraded"}}

Each(u) ==
    /\ loop[u].pc = "each"
    /\ IF Exhausted(u) THEN Ends(u) /\ Misses(u) ELSE Goto(u, "next") /\ UNCHANGED missed
    /\ UNCHANGED <<page, net, list, acts>>

\* next() looks at modCount, then at the size, then takes the element
Checks(u) ==
    /\ \/ loop[u].pc = "next" /\ (IF modCount = loop[u].msg.mod THEN Goto(u, "bound") ELSE Fails(u))
       \/ loop[u].pc = "bound" /\ (IF loop[u].n < size THEN Goto(u, "pass") ELSE Fails(u))
    /\ IF loop'[u].op = "read" THEN UNCHANGED missed ELSE Misses(u)
    /\ UNCHANGED <<page, net, list, acts>>

Item(u) == slot[loop[u].n + 1]

\* mutant of Writes: to the sender as well
WritesToAll(u, v) == chan[v] = "upgraded"

\* to every other channel; a frame goes nowhere before the channel is upgraded or
\* after it is lost
Writes(u, v) == v # u /\ chan[v] = "upgraded"

\* null, which a place may still hold, has no writeAndFlush()
Pass(u) ==
    /\ loop[u].pc = "pass"
    /\ IF Item(u) = None THEN Fails(u) /\ Misses(u) /\ UNCHANGED inbox
       ELSE /\ loop' = [loop EXCEPT ![u].pc = "each", ![u].n = @ + 1, ![u].owed = @ \ {Item(u)}]
            /\ inbox' = IF Writes(u, Item(u)) THEN [inbox EXCEPT ![Item(u)] = Append(@, loop[u].msg.m)] ELSE inbox
            /\ UNCHANGED history
    /\ UNCHANGED <<page, wire, chan, list, acts>>

\* channelInactive, or the exception of a connection that was reset, before it
ChannelInactive(u) ==
    /\ Free(u) /\ chan[u] = "lost" /\ wire[u] = <<>>
    /\ chan' = [chan EXCEPT ![u] = "gone"]
    /\ \/ Removes(u, "inactive") /\ UNCHANGED acts
       \/ Removes(u, "reset") /\ acts < MaxActs /\ acts' = acts + 1
    /\ UNCHANGED <<page, wire, inbox, list, missed>>

\* remove(): the channel is looked for, index by index ...
Scan(u) ==
    /\ loop[u].pc = "scan"
    /\ IF loop[u].n < size THEN Goto(u, "look") ELSE Ends(u)
    /\ UNCHANGED <<page, net, list, acts, missed>>

Look(u) ==
    /\ loop[u].pc = "look"
    /\ IF Item(u) = u THEN Goto(u, "found")
       ELSE loop' = [loop EXCEPT ![u].pc = "scan", ![u].n = @ + 1] /\ UNCHANGED met
    /\ UNCHANGED <<page, net, list, acts, missed>>

Found(u) ==
    /\ loop[u].pc = "found"
    /\ Takes(u, "count", modCount)
    /\ UNCHANGED <<page, net, list, acts, missed>>

\* ... and what stands behind it, up to the size as it is now, moves up one by one
NumMoved(u) ==
    /\ loop[u].pc = "moved"
    /\ Takes(u, "shift", size)
    /\ UNCHANGED <<page, net, list, acts, missed>>

Shift(u) ==
    /\ loop[u].pc = "shift" /\ loop[u].n + 1 < loop[u].k
    /\ loop' = [loop EXCEPT ![u].pc = "move", ![u].item = slot[loop[u].n + 2]]
    /\ UNCHANGED <<page, net, list, acts, history>>

Move(u) ==
    /\ loop[u].pc = "move"
    /\ slot' = [slot EXCEPT ![loop[u].n + 1] = loop[u].item]
    /\ loop' = [loop EXCEPT ![u].pc = "shift", ![u].n = @ + 1, ![u].item = None]
    /\ UNCHANGED <<page, net, size, modCount, acts, history>>
-----------------------------------------------------------------------------
Page(u) ==
    \/ \E name \in {"blank", "null", "given"} : AskName(u, name)
    \/ Opens(u) \/ Shows(u) \/ Refocus(u)
    \/ FocusBox(u) \/ Type(u) \/ PressEnter(u) \/ ClickSend(u)
    \/ \E rest \in BOOLEAN : Breaks(u, rest)

Server(u) ==
    \/ ChannelActive(u) \/ Count(u) \/ TakeSize(u) \/ Resize(u) \/ Put(u)
    \/ Upgrade(u) \/ Read(u) \/ Each(u) \/ Checks(u) \/ Pass(u)
    \/ ChannelInactive(u) \/ Scan(u) \/ Look(u) \/ Found(u) \/ NumMoved(u) \/ Shift(u) \/ Move(u)

Next == \E u \in Users : Page(u) \/ Server(u)

Spec == Init /\ [][Next]_vars
-----------------------------------------------------------------------------
Message == [from : Users, no : Nat]

\* the steps of a handler
Steps(op) == CASE op = "none" -> {"idle"}
               [] op = "add" -> {"count", "size", "resize", "put"}
               [] op = "read" -> {"each", "next", "bound", "pass"}
               [] OTHER -> {"scan", "look", "found", "count", "moved", "shift", "move", "resize", "put"}

Handlers ==
    [op : {"none", "add", "read", "inactive", "reset", "caught"}, pc : UNION {Steps(op) : op \in {"none", "add", "read", "caught"}},
     n : Nat, k : Int, item : Users \cup {None}, msg : {None} \cup [m : Message, mod : Nat], owed : SUBSET Users]

\* those for whom add() has written the size
Grown == {v \in Users : chan[v] # "none" /\ (loop[v].op = "add" => loop[v].pc = "put")}

\* No index is beyond the places there are, for as many channels as have been added.
Fits(u) ==
    /\ loop[u].pc \in Steps(loop[u].op)
    /\ loop[u].op = "read" => loop[u].msg \in [m : Message, mod : Nat]
    /\ loop[u].pc = "count" => loop[u].k \in Nat
    /\ loop[u].pc \in {"look", "pass"} => loop[u].n < Cardinality(Grown)
    /\ loop[u].pc \in {"shift", "move", "resize"} => loop[u].k <= Cardinality(Grown)
    /\ loop[u].pc = "move" => loop[u].n + 1 < loop[u].k
    /\ loop[u].pc = "put" => Place(u) <= Cardinality(Grown)

\* The type invariant.  The size may be below zero.
TypeOK ==
    /\ stage \in [Users -> {"prompt", "connecting", "open", "closed", "failed"}]
    /\ draft \in [Users -> BOOLEAN] /\ focused \in [Users -> BOOLEAN] /\ arrow \in [Users -> BOOLEAN]
    /\ refocus \in [Users -> Nat] /\ said \in [Users -> Nat]
    /\ shown \in [Users -> Seq(Message)] /\ wire \in [Users -> Seq(Message)] /\ inbox \in [Users -> Seq(Message)]
    /\ chan \in [Users -> {"none", "active", "upgraded", "lost", "gone"}]
    /\ loop \in [Users -> Handlers] /\ (\A u \in Users : Fits(u))
    /\ slot \in [Slots -> Users \cup {None}] /\ size \in Int /\ size <= Cardinality(Grown)
    /\ modCount \in Nat /\ acts \in 0 .. MaxActs
    /\ met \subseteq {"add", "remove"} /\ missed \subseteq Message \X Users

\* what the page has got and will show or has shown
Got(v) == shown[v] \o inbox[v]

Unlisted(u) == chan[u] = "none" \/ loop[u].op = "add"

\* A channel that is not in the array yet has got nothing.
UnlistedInv ==
    /\ \A u \in Users : chan[u] = "none" => loop[u].pc = "idle"
    /\ \A u \in Users : Unlisted(u) =>
         /\ \A i \in Slots : slot[i] # u
         /\ \A v \in Users : loop[v].item # u
         /\ Got(u) = <<>>

Removing(u) == Changes(loop[u].op) = {"remove"}

\* While remove() moves the elements up, the one it has moved last stands in two
\* places, and otherwise every channel in one, if no other handler is at the list.
Alone(u) ==
    /\ \A v \in Users \ {u} : loop[v].pc = "idle"
    /\ loop[u].pc \in {"look", "found", "count", "moved"} => loop[u].n < size
    /\ loop[u].pc \in {"shift", "move", "resize"} => loop[u].n < size /\ loop[u].k = size
    /\ loop[u].pc = "move" => loop[u].item = slot[loop[u].n + 2]
    /\ loop[u].pc \in {"resize", "put"} => loop[u].k = loop[u].n + 1

Twice(i, j) == \E u \in Users :
    Removing(u) /\ loop[u].pc \in {"shift", "move", "resize", "put"} /\ i = loop[u].n /\ j = i + 1

PlaceInv ==
    "remove" \notin met =>
        /\ \A u \in Users : Removing(u) => Alone(u)
        /\ \A i, j \in Slots : i < j /\ slot[i] = slot[j] /\ slot[i] # None => Twice(i, j)

\* In the order of their numbers; none is there twice if no remove() was disturbed.
Ordered(s) == \A i, j \in 1 .. Len(s) : i < j /\ s[i].from = s[j].from =>
    s[i].no < s[j].no \/ (s[i].no = s[j].no /\ "remove" \in met)

\* What a page has sent is numbered on, and what its event loop is passing round is
\* older than what the server has not read.
Numbered(u) ==
    /\ \A k \in 1 .. Len(wire[u]) : wire[u][k].from = u /\ wire[u][k].no <= said[u]
    /\ \A k, l \in 1 .. Len(wire[u]) : k < l => wire[u][k].no < wire[u][l].no
    /\ loop[u].op = "read" =>
        /\ loop[u].msg.m.from = u /\ loop[u].msg.m.no <= said[u]
        /\ \A k \in 1 .. Len(wire[u]) : loop[u].msg.m.no < wire[u][k].no

\* Message x has been on its way to v: what its sender has still to send, and the
\* message that is being sent to the places from n on, are later ones.
Passed(v, x) ==
    LET u == x.from
    IN  /\ u # v /\ x.no <= said[u]
        /\ \A k \in 1 .. Len(wire[u]) : x.no < wire[u][k].no
        /\ loop[u].op = "read" =>
            /\ x.no <= loop[u].msg.m.no
            /\ "remove" \notin met => \A j \in Slots : loop[u].n < j /\ slot[j] = v => x.no < loop[u].msg.m.no

OrderInv ==
    /\ \A u \in Users : Numbered(u)
    /\ \A v \in Users : Ordered(Got(v)) /\ \A k \in 1 .. Len(Got(v)) : Passed(v, Got(v)[k])

Members == {u \in Users : chan[u] \in {"active", "upgraded", "lost"}}

Holds(P, S) == {slot[i] : i \in P} = S

Changing(u) == Changes(loop[u].op) # {}

\* What is in the list at each step of add() ...
AtAdd(u) ==
    /\ u \in Members
    /\ loop[u].pc = "resize" => size = loop[u].k
    /\ loop[u].pc = "put" => size = loop[u].k + 1 /\ 0 <= loop[u].k
    /\ Holds(1 .. (IF loop[u].pc = "put" THEN loop[u].k ELSE size), Members \ {u})

\* ... of remove(), which leaves out the place it has come to ...
AtRemove(u) ==
    /\ chan[u] = "gone" /\ loop[u].op # "caught"
    /\ loop[u].pc \in {"scan", "look"} =>
        /\ \A i \in 1 .. loop[u].n : i <= size /\ slot[i] # u
        /\ Holds(1 .. size, Members) \/ Holds(1 .. size, Members \cup {u})
    /\ loop[u].pc \in {"found", "count", "moved", "shift", "move"} => Holds(1 .. size \ {loop[u].n + 1}, Members)
    /\ loop[u].pc \in {"resize", "put"} => Holds(1 .. loop[u].n, Members)
    /\ loop[u].pc = "put" => size = loop[u].n

\* ... and of a broadcast.
AtRead(u) ==
    /\ loop[u].msg.mod = modCount /\ loop[u].n <= size
    /\ loop[u].pc \in {"next", "bound", "pass"} => loop[u].n < size
    /\ loop[u].owed \subseteq {slot[i] : i \in loop[u].n + 1 .. size}

ListInv ==
    met = {} =>
        /\ 0 <= size /\ missed = {}
        /\ \A u, v \in Users : Changing(u) /\ u # v => loop[v].pc = "idle"
        /\ \A u \in Users : /\ loop[u].op = "add" => AtAdd(u)
                            /\ loop[u].op = "read" => AtRead(u)
                            /\ Removing(u) => AtRemove(u)
        /\ (\A u \in Users : ~Changing(u)) => Holds(1 .. size, Members)

Listed == [i \in 1 .. size |-> slot[i]]

\* As long as no handler has come between the steps of add() or remove(), channelList
\* holds every connected channel once when it is not being changed.
ListSound ==
    met = {} /\ (\A u \in Users : ~Changing(u)) => IsInjective(Listed) /\ ToSet(Listed) = Members

ChatInv == TypeOK /\ UnlistedInv /\ PlaceInv /\ OrderInv /\ ListInv /\ ListSound

\* And then a message gets to everybody else who was connected and still is, with
\* any number of broadcasts at a time.
EveryoneHears == met = {} => missed = {}

\* Whatever the event loops do to the list, a page never gets back its own message,
\* and gets those of another user in the order they were sent in; it gets none of
\* them twice unless a handler has come between the steps of a remove().
ShownInOrder ==
    \A u \in Users : \A i, j \in 1 .. Len(Got(u)) :
        /\ Got(u)[i].from # u
        /\ i < j /\ Got(u)[i].from = Got(u)[j].from =>
             Got(u)[i].no < Got(u)[j].no \/ (Got(u)[i].no = Got(u)[j].no /\ "remove" \in met)
=============================================================================
