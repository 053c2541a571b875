------------------------------- MODULE Events -------------------------------
(***************************************************************************)
(* jQuery's events and the manipulation of the document: the handlers that *)
(* on() and one() keep for each element, the native listeners behind them, *)
(* trigger() and the native event it ends in, the capturing handler that   *)
(* stands in for focusin, and what remove(), detach(), empty(), html(),    *)
(* append(), before(), after(), replaceWith(), wrap(), unwrap() and        *)
(* clone() do to handlers, data and scripts.                               *)
(*                                                                         *)
(* One thread runs everything.  "agenda" is what the current task still    *)
(* has to do, the next thing first.  Where a handler of the page or a      *)
(* script runs, it may call this API again.                                *)
(***************************************************************************)
EXTENDS Naturals, Sequences, FiniteSets, SequencesExt, FiniteSetsExt

CONSTANTS Doc,       \* the document
          Elems,     \* elements the page starts with
          Tree,      \* Tree[x]: the parent of x in the beginning, None when it is detached
          Script,    \* the one of them that is a script
          Copy,      \* what the page's clone() of an element is called
          Matches,   \* Matches[s]: the elements the selector s matches
          Bindings,  \* what the page binds: type, selector, function, by one() or by on()
          Hosts,     \* nodes the page binds handlers to
          Targets,   \* nodes that events happen on
          Plain,     \* elements on which the page has a click listener of its own
          MaxCalls,  \* bound: calls of the API and events of the user
          None

Nodes == {Doc, Copy} \cup Elems

\* the types handlers are filed under
Keys == {"click", "focus", "focusin"}

\* Tree is a tree, and no element of it is inside a script.
ASSUME EventsAssumption ==
    /\ IsFiniteSet(Elems) /\ Doc \notin Elems /\ Copy \notin Elems \cup {Doc} /\ None \notin Nodes \cup Keys
    /\ Script \in Elems /\ Tree \in [Elems -> (Elems \ {Script}) \cup {Doc, None}]
    /\ \A S \in SUBSET Elems : S # {} => \E x \in S : Tree[x] \notin S
    /\ \A b \in Bindings :
         /\ b = [type |-> b.type, sel |-> b.sel, fn |-> b.fn, once |-> b.once, id |-> 0]
         /\ b.type \in Keys /\ b.once \in BOOLEAN
    /\ Hosts \cup Targets \subseteq Nodes
    /\ MaxCalls \in Nat

\* A handler is what was bound, with the number of the call as its guid.
Handlers == {[b EXCEPT !.id = n] : b \in Bindings, n \in 1 .. MaxCalls}

VARIABLES parent,     \* the tree
          copyOf,     \* the element Copy is a clone of
          handlers,   \* events[type] of each node's private data
          delegates,  \* events[type].delegateCount
          listener,   \* the types for which addEventListener was called on a node
          attaches,   \* how often focusin was set up on the document
          marked,     \* scripts with "globalEval" in their private data
          triggered,  \* jQuery.event.triggered
          agenda,
          calls,
          handled,    \* history: which handler has run where for an event
          spent,      \* history: the handlers of one() that have run, and where
          stopped,    \* history: the events that were stopped, and where
          evaluated,  \* history: scripts that have been evaluated
          wrong       \* history: what has gone wrong or may do so

data == <<handlers, delegates, listener, attaches>>
tree == <<parent, copyOf>>
history == <<handled, spent, stopped, evaluated, wrong>>
vars == <<tree, data, marked, triggered, agenda, calls, history>>

-----------------------------------------------------------------------------
\* The tree.
Path(x) ==
    LET path[y \in Nodes] == IF parent[y] = None THEN <<y>> ELSE <<y>> \o path[parent[y]]
    IN  path[x]

\* y is x or above it: who goes up from x and avoids y comes to the top or leaves the set
Within(x, y) ==
    \A S \in SUBSET (Nodes \ {y}) : x \in S => \E z \in S : parent[z] \notin S \cup {None}
Subtree(x) == {y \in Nodes : Within(y, x)}

\* jQuery.contains(document, x)
InDoc(x) == x # Doc /\ Within(x, Doc)

Original(x) == IF x = Copy THEN copyOf ELSE x
IsScript(x) == Original(x) = Script
Matching(s, x) == Original(x) \in Matches[s]

\* getAll(x, "script")
Scripts(x) == {y \in Subtree(x) : IsScript(y)}

\* The parser has run the script if it is in the document.
Init ==
    /\ parent = [x \in Nodes |-> IF x \in Elems THEN Tree[x] ELSE None]
    /\ copyOf = None
    /\ handlers = [x \in Nodes |-> [k \in Keys |-> <<>>]]
    /\ delegates = [x \in Nodes |-> [k \in Keys |-> 0]]
    /\ listener = [x \in Nodes |-> {}]
    /\ attaches = 0
    /\ marked = {} /\ triggered = None
    /\ agenda = <<>> /\ calls = 0
    /\ handled = {} /\ spent = {} /\ stopped = {} /\ wrong = {}
    /\ evaluated = {s \in {Script} : InDoc(s)}
-----------------------------------------------------------------------------
\* What an agenda is made of: "fire" an event at a node by trigger(), "deliver" a
\* native one to the listener of a node, "capture" it at the document, "run" a
\* handler, the "page" function in it, the "default" action, and its "end".
Do(what, ev, x, at, key, h) ==
    [do |-> what, ev |-> ev, node |-> x, at |-> at, key |-> key, h |-> h]

Now(what) == agenda # <<>> /\ Head(agenda).do = what
Todo == Head(agenda)
Then(steps) == agenda' = steps \o Tail(agenda)

\* The page calls the API, in a task of its own or in a function jQuery runs.
MayCall == calls < MaxCalls /\ (agenda = <<>> \/ Now("page"))
Calling == MayCall /\ calls' = calls + 1
Call(steps) == agenda' = steps \o agenda

InScript == \E i \in 1 .. Len(agenda) : agenda[i].do = "page" /\ agenda[i].key = "script"

\* what is left of a sequence, in order
Without(s, gone) ==
    LET kept == {i \in 1 .. Len(s) : s[i] \notin gone}
    IN  [n \in 1 .. Cardinality(kept) |->
            s[CHOOSE i \in kept : Cardinality({j \in kept : j <= i}) = n]]

Odd(what, when) == IF when THEN {what} ELSE {}
-----------------------------------------------------------------------------
\* on() and one()
Key(type, sel) == IF type = "focus" /\ sel # None THEN "focusin" ELSE type

\* "Add to the element's handler list, delegates in front"
Place(list, count, h) ==
    IF h.sel = None THEN Append(list, h) ELSE InsertAt(list, count + 1, h)

\* jQuery.event.add; special.setup or addEventListener, when it is the first
\* handler of its type
Add(x, b) ==
    LET k == Key(b.type, b.sel)
        first == handlers[x][k] = <<>>
    IN  /\ handlers' = [handlers EXCEPT ![x][k] = Place(@, delegates[x][k], b)]
        /\ delegates' = [delegates EXCEPT ![x][k] = IF b.sel = None THEN @ ELSE @ + 1]
        /\ listener' = [listener EXCEPT ![x] = IF k = "focusin" THEN @ ELSE @ \cup {k}]
        /\ attaches' = IF k = "focusin" /\ first THEN attaches + 1 ELSE attaches

On(x, b) ==
    /\ Calling
    /\ Add(x, [b EXCEPT !.id = calls'])
    /\ Call(<<>>)
    /\ UNCHANGED <<tree, marked, triggered, history>>

\* the handlers off() means; those filed under another type are not looked at
Meant(x, type, sel, fn) ==
    {h \in Range(handlers[x][Key(type, sel)]) :
        /\ h.type = type
        /\ fn \in {None, h.fn}
        /\ sel \in {None, h.sel}}

\* mutant of TornDown: teardown for every handler that is removed
TornDownEach(x, gone) == {k \in Keys : \E h \in gone : h \in Range(handlers[x][k])}

\* the types of which no handler is left, where there was one
TornDown(x, gone) == {k \in Keys : handlers[x][k] # <<>> /\ Range(handlers[x][k]) \subseteq gone}

RemoveEvent(x, types) == [listener EXCEPT ![x] = @ \ types]

\* jQuery.event.remove, the handlers "gone"
Unbind(x, gone) ==
    /\ handlers' = [handlers EXCEPT ![x] = [k \in Keys |-> Without(@[k], gone)]]
    /\ delegates' = [delegates EXCEPT ![x] =
                       [k \in Keys |-> @[k] - Cardinality({h \in Range(handlers[x][k]) \cap gone : h.sel # None})]]
    /\ listener' = RemoveEvent(x, TornDown(x, gone))
    /\ attaches' = IF "focusin" \in TornDown(x, gone) THEN attaches - 1 ELSE attaches

Off(x, type, sel, fn) ==
    /\ Calling
    /\ Unbind(x, Meant(x, type, sel, fn))
    /\ Call(<<>>)
    /\ UNCHANGED <<tree, marked, triggered, history>>

OffAll(x) ==
    /\ Calling
    /\ Unbind(x, UNION {Range(handlers[x][k]) : k \in Keys})
    /\ Call(<<>>)
    /\ UNCHANGED <<tree, marked, triggered, history>>
-----------------------------------------------------------------------------
\* trigger() and the events of the user.  "ev" is the call that began it: the
\* native event in which trigger() ends goes by the same number.
Fires(ev, x, path, key) == [i \in 1 .. Len(path) |-> Do("fire", ev, x, path[i], key, None)]

\* a native click bubbles: the page's own listeners and jQuery's hear it
NativeClick(ev, x) ==
    LET path == Path(x)
    IN  FlattenSeq([i \in 1 .. Len(path) |->
            (IF path[i] \in Plain THEN <<Do("page", ev, x, path[i], "plain", None)>> ELSE <<>>)
            \o <<Do("deliver", ev, x, path[i], "click", None)>>])

\* a native focus does not: the document captures it, then the element hears it
NativeFocus(ev, x) ==
    <<Do("capture", ev, x, Doc, "focus", None), Do("deliver", ev, x, x, "focus", None)>>

Native(ev, x, type) == IF type = "click" THEN NativeClick(ev, x) ELSE NativeFocus(ev, x)

Begin(ev, steps) ==
    /\ Call(steps)
    /\ handled' = IF agenda = <<>> THEN {} ELSE handled
    /\ stopped' = IF agenda = <<>> THEN {} ELSE stopped
    /\ wrong' = wrong \cup (IF triggered # None THEN {"triggered inside a native event"} ELSE {})
                      \cup (IF agenda # <<>> THEN {"triggered inside an event"} ELSE {})
    /\ UNCHANGED <<tree, data, marked, triggered, spent, evaluated>>

UserEvent(x, type) ==
    /\ agenda = <<>>
    /\ Calling /\ Within(x, Doc)
    /\ Begin(calls', Native(calls', x, type))

TriggerClick(x) ==
    /\ Calling
    /\ Begin(calls', Fires(calls', x, Path(x), "click") \o <<Do("default", calls', x, x, "click", None)>>)

\* triggerHandler(): no way up and no default action, and the focus stays where it is
TriggerHandler(x, type) ==
    /\ Calling
    /\ Begin(calls', Fires(calls', x, <<x>>, type))

\* special.focus.trigger focuses the element and leaves the rest to the native
\* event; an element that has the focus is sent focus, then focusin, which bubbles
TriggerFocus(x, focused) ==
    /\ Calling /\ x # Doc
    /\ Begin(calls', IF ~focused THEN NativeFocus(calls', x)
                     ELSE Fires(calls', x, <<x>>, "focus") \o Fires(calls', x, Path(x), "focusin")
                          \o <<Do("default", calls', x, x, "focus", None)>>)

\* the capturing handler: jQuery.event.simulate("focusin")
Simulated(ev, x) == IF triggered = "focus" THEN <<>> ELSE Fires(ev, x, Path(x), "focusin")

Capture ==
    /\ Now("capture")
    /\ Then(IF attaches > 0 THEN Simulated(Todo.ev, Todo.node) ELSE <<>>)
    /\ UNCHANGED <<tree, data, marked, triggered, calls, history>>

\* jQuery.event.handlers: from the target up to the node, then those of the node
Walk(x, to) ==
    IF Within(x, to) THEN SubSeq(Path(x), 1, Len(Path(x)) - Len(Path(to))) ELSE Path(x)

\* jQuery.Event
Event(ev, target, type) == [ev |-> ev, target |-> target, type |-> type]

\* jQuery.event.fix: the handlers of a node get the event of trigger(), or one made
\* from the native event, with the node it happened on for its target
Fixed(s) == Event(s.ev, s.node, s.key)

Runs(event, x, list, at) ==
    [i \in 1 .. Len(list) |-> Do("run", event.ev, x, at, event.type, list[i])]

HandlerQueue(event, to) ==
    LET list == handlers[to][event.type]
        count == delegates[to][event.type]
        delegated == SubSeq(list, 1, count)
        unmatched(y) == {h \in Range(delegated) : ~Matching(h.sel, y)}
        cur == Walk(event.target, to)
    IN  FlattenSeq([i \in 1 .. Len(cur) |->
            Runs(event, to, Without(delegated, unmatched(cur[i])), cur[i])])
        \o Runs(event, to, SubSeq(list, count + 1, Len(list)), to)

\* mutant of Discards: the second event of a trigger() is handled as well
DiscardsNever(key) == FALSE

\* "Discard the second event of a jQuery.event.trigger()"
Discards(key) == triggered = key

\* the node's handle, called by trigger() or by its native listener
Handle ==
    /\ Now("fire") \/ Now("deliver")
    /\ LET heard == IF Todo.do = "fire" THEN handlers[Todo.at][Todo.key] # <<>>
                    ELSE Todo.key \in listener[Todo.at]
       IN  Then(IF heard /\ ~Discards(Todo.key)
                THEN HandlerQueue(Fixed(Todo), Todo.at) ELSE <<>>)
    /\ UNCHANGED <<tree, data, marked, triggered, calls, history>>

\* the wrapper of one(): jQuery().off(event), which goes by type, selector and guid
Spends(s) == IF s.h.once THEN Meant(s.node, s.h.type, s.h.sel, s.h.fn) ELSE {}

Run ==
    /\ Now("run")
    /\ Unbind(Todo.node, Spends(Todo))
    /\ handled' = handled \cup {<<Todo.ev, Todo.node, Todo.h, Todo.at>>}
    /\ spent' = IF Todo.h.once THEN spent \cup {<<Todo.node, Todo.h.id, Todo.at>>} ELSE spent
    /\ wrong' = wrong
           \cup (IF <<Todo.ev, Todo.node, Todo.h, Todo.at>> \in handled THEN {"handled twice"} ELSE {})
           \cup (IF <<Todo.node, Todo.h.id, Todo.at>> \in spent THEN {"one twice"} ELSE {})
           \cup (IF \E s \in stopped : s[1] = Todo.ev /\ s[2] # Todo.at THEN {"heard when stopped"} ELSE {})
    /\ Then(<<Do("page", Todo.ev, Todo.node, Todo.at, "handler", Todo.h)>>)
    /\ UNCHANGED <<tree, marked, triggered, calls, stopped, evaluated>>

\* mutant of Silences: the event goes on to the ancestors
SilencesHere(s, ev, at) == s.ev = ev /\ s.do = "run" /\ s.at # at

\* isPropagationStopped, and originalEvent.stopPropagation()
Silences(s, ev, at) == s.ev = ev /\ (s.do \in {"fire", "deliver"} \/ (s.do = "run" /\ s.at # at))

PageReturns(how) ==
    /\ Now("page")
    /\ how = "nothing" \/ Todo.key = "handler"
    /\ LET gone(s) ==
             \/ how # "nothing" /\ Silences(s, Todo.ev, Todo.at)
             \/ how = "immediate" /\ s.do = "run" /\ s.ev = Todo.ev
             \/ how = "false" /\ s.do = "default" /\ s.ev = Todo.ev
       IN  agenda' = Without(Tail(agenda), {s \in Range(agenda) : gone(s)})
    /\ stopped' = IF how = "nothing" THEN stopped ELSE stopped \cup {<<Todo.ev, Todo.at>>}
    /\ UNCHANGED <<tree, data, marked, triggered, calls, handled, spent, evaluated, wrong>>

\* the native method of the same name
Default ==
    /\ Now("default")
    /\ triggered' = Todo.key
    /\ Then(Native(Todo.ev, Todo.node, Todo.key) \o <<Do("end", Todo.ev, Todo.node, Todo.at, Todo.key, None)>>)
    /\ UNCHANGED <<tree, data, marked, calls, history>>

End ==
    /\ Now("end")
    /\ triggered' = None
    /\ Then(<<>>)
    /\ UNCHANGED <<tree, data, marked, calls, history>>
-----------------------------------------------------------------------------
\* cleanData() removes "focusin", which matches only the handlers bound under that name
Quits(x) ==
    /\ handlers[x]["focusin"] # <<>>
    /\ \A h \in Range(handlers[x]["focusin"]) : h.type = "focusin"

CleanData(S) ==
    /\ handlers' = [x \in Nodes |-> IF x \in S THEN [k \in Keys |-> <<>>] ELSE handlers[x]]
    /\ delegates' = [x \in Nodes |-> IF x \in S THEN [k \in Keys |-> 0] ELSE delegates[x]]
    /\ listener' = [x \in Nodes |-> IF x \in S THEN {} ELSE listener[x]]
    /\ attaches' = attaches - Cardinality({x \in S : Quits(x)})
    /\ evaluated' = evaluated \ S
    /\ UNCHANGED <<handled, spent, stopped>>

Cleaned(S) ==
    Odd("cleaned a delegated focus", \E x \in S : \E h \in Range(handlers[x]["focusin"]) : h.type = "focus")

Moved == Odd("moved by a script", InScript)

RemoveNode(x) ==
    /\ Calling /\ x # Doc
    /\ CleanData(Subtree(x))
    /\ marked' = marked \ Subtree(x)
    /\ parent' = [parent EXCEPT ![x] = None]
    /\ wrong' = wrong \cup Cleaned(Subtree(x))
    /\ Call(<<>>)
    /\ UNCHANGED <<copyOf, triggered>>

Empty(x) ==
    /\ Calling /\ x # Doc
    /\ CleanData(Subtree(x) \ {x})
    /\ marked' = marked \ (Subtree(x) \ {x})
    /\ parent' = [y \in Nodes |-> IF parent[y] = x THEN None ELSE parent[y]]
    /\ wrong' = wrong \cup Cleaned(Subtree(x) \ {x})
    /\ Call(<<>>)
    /\ UNCHANGED <<copyOf, triggered>>

\* html(): what was in the element is cleaned before innerHTML replaces it
Html(x) == Empty(x)

\* mutant of SetGlobalEval: not done
SetGlobalEvalNot(x) == marked

\* scripts that leave the document have been evaluated, or never will be
SetGlobalEval(x) == IF InDoc(x) THEN marked \cup Scripts(x) ELSE marked

DetachNode(x) ==
    /\ Calling /\ x # Doc
    /\ marked' = SetGlobalEval(x)
    /\ parent' = [parent EXCEPT ![x] = None]
    /\ wrong' = wrong \cup Moved
    /\ Call(<<>>)
    /\ UNCHANGED <<copyOf, data, triggered, handled, spent, stopped, evaluated>>

\* buildFragment takes the node from where it is: its scripts keep their history
BuildFragment(x) == SetGlobalEval(x)

\* the scripts are disabled until the node is in its place, and evaluated then
Disabled(x) == SetToSeq(Scripts(x))

Evaluations(x) ==
    LET scripts == Disabled(x)
    IN  Call([i \in 1 .. Len(scripts) |-> Do("evaluate", 0, scripts[i], None, "script", None)])

\* domManip: x is taken out of the tree, and put into "to" when that is a node
DomManip(x, to) ==
    /\ parent' = [parent EXCEPT ![x] = to]
    /\ Evaluations(x)
    /\ UNCHANGED <<copyOf, triggered>>

AppendNode(x, to) ==
    /\ Calling /\ x # Doc
    /\ ~IsScript(to) /\ ~Within(to, x)
    /\ DomManip(x, to)
    /\ marked' = BuildFragment(x)
    /\ wrong' = wrong \cup Moved
    /\ UNCHANGED <<data, handled, spent, stopped, evaluated>>

\* before() and after(): beside a node that has no parent, x is nowhere afterwards
InsertBeside(x, y) ==
    /\ Calling /\ Doc \notin {x, y} /\ ~Within(y, x)
    /\ DomManip(x, parent[y])
    /\ marked' = BuildFragment(x)
    /\ wrong' = wrong \cup Moved
    /\ UNCHANGED <<data, handled, spent, stopped, evaluated>>

\* replaceWith(): x may come out of the node it replaces; what is left of that is cleaned
ReplaceWith(y, x) ==
    /\ Calling /\ Doc \notin {x, y} /\ ~Within(y, x)
    /\ LET gone == Subtree(y) \ Subtree(x)
       IN  /\ parent' = [parent EXCEPT ![x] = parent[y], ![y] = None]
           /\ Evaluations(x)
           /\ CleanData(gone)
           /\ marked' = BuildFragment(x) \ gone
           /\ wrong' = wrong \cup Cleaned(gone) \cup Moved
    /\ UNCHANGED <<copyOf, triggered>>

\* unwrap(): the parent is replaced with all that it holds; a child of the document
\* stays, as one of the body does
Unwrap(x) ==
    /\ Calling /\ x # Doc /\ parent[x] \notin {Doc, None}
    /\ LET y == parent[x]
       IN  /\ parent' = [z \in Nodes |-> IF z = y THEN None ELSE IF parent[z] = y THEN parent[y] ELSE parent[z]]
           /\ Evaluations(y)
           /\ CleanData({y})
           /\ marked' = BuildFragment(y) \ {y}
           /\ wrong' = wrong \cup Cleaned({y}) \cup Moved
    /\ UNCHANGED <<copyOf, triggered>>

\* globalEval: the code of the script runs at once
GlobalEval(s) == <<Do("page", 0, s, s, "script", None)>>

Evaluate ==
    /\ Now("evaluate")
    /\ LET s == Todo.node
       IN  IF s \in marked \/ ~InDoc(s) THEN Then(<<>>) /\ UNCHANGED <<evaluated, wrong>>
           ELSE /\ Then(GlobalEval(s))
                /\ evaluated' = evaluated \cup {s}
                /\ wrong' = wrong \cup Odd("evaluated twice", s \in evaluated)
    /\ UNCHANGED <<tree, data, marked, triggered, calls, handled, spent, stopped>>

\* the clone gets the handlers by jQuery.event.add, and the rest of the private data
CloneCopyEvent(x) ==
    /\ handlers' = [handlers EXCEPT ![Copy] = handlers[x]]
    /\ delegates' = [delegates EXCEPT ![Copy] = delegates[x]]
    /\ listener' = [listener EXCEPT ![Copy] = {k \in Keys \ {"focusin"} : handlers[x][k] # <<>>}]
    /\ attaches' = IF handlers[x]["focusin"] # <<>> THEN attaches + 1 ELSE attaches

\* clone(true) of an element without children
CloneNode(x) ==
    /\ Calling /\ x \in Elems /\ copyOf = None /\ Subtree(x) = {x}
    /\ copyOf' = x
    /\ CloneCopyEvent(x)
    /\ marked' = IF IsScript(x) /\ (InDoc(x) \/ x \in marked) THEN marked \cup {Copy} ELSE marked
    /\ evaluated' = IF x \in evaluated THEN evaluated \cup {Copy} ELSE evaluated
    /\ wrong' = wrong \cup Moved
    /\ Call(<<>>)
    /\ UNCHANGED <<parent, triggered, handled, spent, stopped>>

\* wrap(), with a clone of the element w: before x, where x has a parent, then around it
WrapAll(x, w) ==
    /\ Calling /\ x # Doc /\ w \in Elems \ {x} /\ ~IsScript(w)
    /\ copyOf = None /\ Subtree(w) = {w}
    /\ copyOf' = w
    /\ CloneCopyEvent(w)
    /\ parent' = [parent EXCEPT ![Copy] = parent[x], ![x] = Copy]
    /\ Evaluations(x)
    /\ marked' = BuildFragment(x)
    /\ wrong' = wrong \cup Moved
    /\ UNCHANGED <<triggered, handled, spent, stopped, evaluated>>
-----------------------------------------------------------------------------
Present == {Doc} \cup Elems \cup (IF copyOf = None THEN {} ELSE {Copy})

Binding ==
    \E x \in Hosts \cap Present :
        \/ \E b \in Bindings : On(x, b) \/ Off(x, b.type, b.sel, b.fn) \/ Off(x, b.type, None, None)
        \/ OffAll(x)

Triggering ==
    \E x \in Targets \cap Present :
        \/ TriggerClick(x) \/ \E focused \in BOOLEAN : TriggerFocus(x, focused)
        \/ \E type \in {"click", "focus"} : UserEvent(x, type) \/ TriggerHandler(x, type)

Manipulating ==
    \E x \in Present :
        \/ RemoveNode(x) \/ Empty(x) \/ Html(x) \/ DetachNode(x) \/ CloneNode(x) \/ Unwrap(x)
        \/ \E y \in Present :
               AppendNode(x, y) \/ InsertBeside(x, y) \/ ReplaceWith(y, x) \/ WrapAll(x, y)

Engine ==
    \/ Capture \/ Handle \/ Run \/ Default \/ End \/ Evaluate
    \/ \E how \in {"nothing", "false", "immediate"} : PageReturns(how)

Next == (MayCall /\ (Binding \/ Triggering \/ Manipulating)) \/ Engine

Spec == Init /\ [][Next]_vars
-----------------------------------------------------------------------------
Steps ==
    [do : {"fire", "deliver", "capture", "run", "page", "default", "end", "evaluate"}, ev : 0 .. MaxCalls,
     node : Nodes, at : Nodes \cup {None}, key : Keys \cup {"handler", "plain", "script"},
     h : Handlers \cup {None}]

\* The type invariant; the document is at the top of a tree, and no node above itself.
TypeOK ==
    /\ parent \in [Nodes -> Nodes \cup {None}] /\ parent[Doc] = None
    /\ \A S \in SUBSET {x \in Nodes : parent[x] # None} : S # {} => \E x \in S : parent[x] \notin S
    /\ copyOf \in Elems \cup {None}
    /\ handlers \in [Nodes -> [Keys -> Seq(Handlers)]]
    /\ delegates \in [Nodes -> [Keys -> Nat]]
    /\ listener \in [Nodes -> SUBSET Keys]
    /\ attaches \in Nat
    /\ marked \cup evaluated \subseteq {Script, Copy}
    /\ triggered \in {None, "click", "focus"}
    /\ agenda \in Seq(Steps)
    /\ calls \in 0 .. MaxCalls

\* What a step of the agenda needs when its turn comes.
Prepared ==
    \A i \in 1 .. Len(agenda) :
        LET s == agenda[i]
        IN  /\ s.ev <= calls
            /\ (s.do = "evaluate" \/ (s.do = "page" /\ s.key = "script")) <=> (s.ev = 0)
            /\ s.do \in {"fire", "deliver"} => s.at # None /\ s.key \in Keys
            /\ s.do \in {"default", "end"} => s.key \in {"click", "focus"}
            /\ s.do = "run" => s.at # None /\ s.h \in Handlers /\ s.key = Key(s.h.type, s.h.sel)
            /\ s.do = "evaluate" => IsScript(s.node)

\* A handler is filed where off() looks for it, once, and is known by its call.
Filed ==
    \A x \in Nodes, k \in Keys :
        /\ \A i \in 1 .. Len(handlers[x][k]) :
               /\ Key(handlers[x][k][i].type, handlers[x][k][i].sel) = k
               /\ handlers[x][k][i].id <= calls
        /\ \A i, j \in 1 .. Len(handlers[x][k]) : handlers[x][k][i].id = handlers[x][k][j].id => i = j
        /\ delegates[x][k] <= Len(handlers[x][k])

\* The clone is nowhere before it is made.
Fresh ==
    copyOf = None =>
        /\ \A k \in Keys : handlers[Copy][k] = <<>>
        /\ parent[Copy] = None /\ \A x \in Nodes : parent[x] # Copy
        /\ Copy \notin marked \cup evaluated /\ listener[Copy] = {}

Wanting == {x \in Nodes : handlers[x]["focusin"] # <<>>}

\* A node has a native listener exactly for the types it has handlers of, through
\* on(), one(), off(), clone() and cleanData(); delegated handlers come first, and
\* delegateCount says how many they are.
Wired ==
    \A x \in Nodes, k \in Keys :
        /\ k # "focusin" => ((k \in listener[x]) <=> (handlers[x][k] # <<>>))
        /\ \A i \in 1 .. Len(handlers[x][k]) : (i <= delegates[x][k]) <=> (handlers[x][k][i].sel # None)

\* The document captures focus while someone wants focusin.  It stops when nobody
\* does, but not for elements cleaned while they delegated "focus".
Captured ==
    /\ attaches >= Cardinality(Wanting)
    /\ "cleaned a delegated focus" \notin wrong => attaches = Cardinality(Wanting)

EventsInv == TypeOK /\ Prepared /\ Filed /\ Fresh /\ Wired /\ Captured

\* Whatever trigger() and the native event it ends in call, no handler is run twice
\* on an element for one of them, unless a listener triggers another meanwhile; one of
\* one() runs once for all, unless a function triggers the event again meanwhile.
HandledOnce ==
    /\ "triggered inside a native event" \notin wrong => "handled twice" \notin wrong
    /\ "triggered inside an event" \notin wrong => "one twice" \notin wrong
    /\ agenda = <<>> => triggered = None

\* A handler that stops an event silences all that would have heard it elsewhere, in
\* the call of trigger(), in the native event behind it and in simulated ones.
StopsForGood == "triggered inside a native event" \notin wrong => "heard when stopped" \notin wrong

\* A script is not evaluated twice between two calls of cleanData(), however it is
\* moved, detached and cloned, and one that is in the document has been evaluated:
\* unless a script moved or cloned nodes, among which one still to be evaluated may be.
ScriptsOnce ==
    "moved by a script" \notin wrong =>
        /\ "evaluated twice" \notin wrong
        /\ agenda = <<>> => \A s \in {Script, Copy} : IsScript(s) /\ InDoc(s) => s \in evaluated
=============================================================================
