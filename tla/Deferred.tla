------------------------------ MODULE Deferred ------------------------------
(***************************************************************************)
(* jQuery.Deferred, its then() and jQuery.when(), on top of Callbacks: a   *)
(* deferred is three lists whose first functions settle it, disable the    *)
(* list of the other outcome and lock the list of its notifications.       *)
(***************************************************************************)
EXTENDS Callbacks, Integers, FiniteSets

CONSTANTS Deferreds,  \* the deferreds a page makes
          Roots,      \* those it has from the start; then() and when() make the others
          Withheld,   \* those of them of which it only has the promise
          Fns,        \* the functions the page adds, each of them once
          MaxCalls    \* bound: calls of the API

ASSUME DeferredAssumption ==
    /\ Roots \subseteq Deferreds /\ Withheld \subseteq Roots /\ MaxCalls \in Nat
    /\ Nothing \notin Deferreds \cup Fns \cup Deferreds \X {"done", "fail", "progress"}

Lists == Deferreds \X {"done", "fail", "progress"}

VARIABLES state,      \* state[d]
          made,       \* the deferreds that exist
          remaining,  \* remaining[m]: what when() still counts down for its master
          subs,       \* history: subs[m], the subordinates of a master
          parent,     \* history: parent[c], the deferred whose then() made c
          registered, \* history: registered[l], the functions added to l, in order
          called,     \* history: called[l], the functions of l that ran, in order
          thrown,     \* history: a function has thrown
          calls       \* how often the API was called

closure == <<state, made, remaining>>
history == <<subs, parent, registered, called, thrown>>
vars == <<cb, stack, closure, history, calls>>

\* What a list holds: functions of the page, and those that jQuery adds itself.
Callback(kind, arg) == [kind |-> kind, arg |-> arg]
User(f) == Callback("user", f)
Internal(op) == Callback("do", op)
Resolve(d) == Internal(Op("fire", <<d, "done">>, Nothing))
Reject(d) == Internal(Op("fire", <<d, "fail">>, Nothing))
Notify(d) == Internal(Op("fire", <<d, "progress">>, Nothing))
Count(m) == Callback("count", m)
Then(c, kind) == Callback("then", <<c, kind>>)

Other(kind) == IF kind = "done" THEN "fail" ELSE "done"
StateOf(kind) == IF kind = "done" THEN "resolved" ELSE "rejected"

\* mutant of Settling: the list of the other outcome stays enabled
SettlingLeavesOther(d, kind) ==
    <<Callback("settle", <<d, StateOf(kind)>>), Internal(Op("lock", <<d, "progress">>, Nothing))>>

\* The functions a settling list begins with.
Settling(d, kind) ==
    <<Callback("settle", <<d, StateOf(kind)>>),
      Internal(Op("disable", <<d, Other(kind)>>, Nothing)),
      Internal(Op("lock", <<d, "progress">>, Nothing))>>

NewDeferred(l) ==
    IF l[2] = "progress" THEN Fresh({"memory"}, <<>>)
    ELSE Fresh({"once", "memory"}, Settling(l[1], l[2]))

Init ==
    /\ cb = [l \in Lists |-> NewDeferred(l)]
    /\ stack = <<[list |-> Nothing, running |-> Callback("task", Nothing), todo |-> <<>>]>>
    /\ state = [d \in Deferreds |-> "pending"]
    /\ made = Roots
    /\ remaining = [d \in Deferreds |-> 0]
    /\ subs = [d \in Deferreds |-> {}]
    /\ parent = [d \in Deferreds |-> Nothing]
    /\ registered = [l \in Lists |-> <<>>]
    /\ called = [l \in Lists |-> <<>>]
    /\ thrown = FALSE
    /\ calls = 0
-----------------------------------------------------------------------------
\* The page's code runs, in the event loop's task or in a function that a list
\* calls, and has come to its next statement.
PageRuns == Top.running # Nothing /\ Top.todo = <<>>

Calling == PageRuns /\ calls < MaxCalls /\ calls' = calls + 1

\* The functions that have not been added anywhere.  Nothing tells them apart, so
\* that it is enough to add any one of them.
NewFns == {f \in Fns : \A l \in Lists : ~Contains(registered[l], f)}

\* done, fail, progress; resolve, reject, notify
CallList(op) ==
    /\ Calling
    /\ Perform(op, cb, stack)
    /\ registered' = IF op.do = "add" /\ ~cb[op.list].spent
                     THEN [registered EXCEPT ![op.list] = Append(@, op.fn.arg)]
                     ELSE registered
    /\ UNCHANGED <<closure, subs, parent, called, thrown>>

AddOne(l) == NewFns # {} /\ CallList(Op("add", l, User(CHOOSE f \in NewFns : TRUE)))
Settle(d, kind) == d \in Roots \ Withheld /\ CallList(Op("fire", <<d, kind>>, Nothing))

Then_(d, c) == <<Op("add", <<d, "done">>, Then(c, "done")), Op("add", <<d, "fail">>, Then(c, "fail")),
                 Op("add", <<d, "progress">>, Then(c, "progress"))>>

\* the additions of the running function's next statement, one at a time
Undertake(ops) == stack' = [stack EXCEPT ![Len(stack)].todo = ops]

CallThen(d, c) ==
    /\ Calling
    /\ d \in made /\ c \in Deferreds \ made
    /\ made' = made \cup {c}
    /\ parent' = [parent EXCEPT ![c] = d]
    /\ Undertake(Then_(d, c))
    /\ UNCHANGED <<cb, state, remaining, subs, registered, called, thrown>>

Subordinate(m, d) == <<Op("add", <<d, "progress">>, Notify(m)), Op("add", <<d, "done">>, Count(m)),
                       Op("add", <<d, "fail">>, Reject(m))>>

\* three additions for each
Subordinates(m, order) ==
    [i \in 1 .. 3 * Len(order) |-> Subordinate(m, order[(i + 2) \div 3])[((i - 1) % 3) + 1]]

\* mutant of CallWhen: the values among the arguments are not taken off the count
CallWhenCountsValues(m, ds, values) ==
    /\ Calling
    /\ m \in Deferreds \ made /\ ds \subseteq made
    /\ IsFiniteSet(ds) /\ Cardinality(ds) + values # 1
    /\ made' = made \cup {m}
    /\ remaining' = [remaining EXCEPT ![m] = Cardinality(ds) + 1]
    /\ subs' = [subs EXCEPT ![m] = ds]
    /\ \E order \in SetToSeqs(ds) :
         Undertake(Append(Subordinates(m, order), Op("end", <<m, "done">>, Nothing)))
    /\ UNCHANGED <<cb, state, parent, registered, called, thrown>>

\* when(): ds among its arguments are promises, "values" of them are not.  With a
\* single promise it returns that one, so there is nothing to model.
CallWhen(m, ds, values) ==
    /\ Calling
    /\ m \in Deferreds \ made /\ ds \subseteq made
    /\ IsFiniteSet(ds) /\ Cardinality(ds) + values # 1
    /\ made' = made \cup {m}
    /\ remaining' = [remaining EXCEPT ![m] = Cardinality(ds)]
    /\ subs' = [subs EXCEPT ![m] = ds]
    /\ \E order \in SetToSeqs(ds) :
         Undertake(Append(Subordinates(m, order), Op("end", <<m, "done">>, Nothing)))
    /\ UNCHANGED <<cb, state, parent, registered, called, thrown>>

TodoStep ==
    /\ Top.todo # <<>>
    /\ LET op == Head(Top.todo)
           rest == [stack EXCEPT ![Len(stack)].todo = Tail(@)]
       IN  IF op.do # "end" THEN Perform(op, cb, rest)
           ELSE IF remaining[op.list[1]] = 0
                THEN Perform(Op("fire", op.list, Nothing), cb, rest)
                ELSE stack' = rest /\ UNCHANGED cb
    /\ UNCHANGED <<closure, history, calls>>
-----------------------------------------------------------------------------
\* The next function of the list is called.
CallUser(l) ==
    /\ Looping(l) /\ HasNext(l) /\ Current(l).kind \in {"user", "then"}
    /\ cb' = Advanced(l)
    /\ stack' = [stack EXCEPT ![Len(stack)].running = Current(l)]
    /\ called' = IF Current(l).kind = "user"
                 THEN [called EXCEPT ![l] = Append(@, Current(l).arg)] ELSE called
    /\ UNCHANGED <<closure, subs, parent, registered, thrown, calls>>

CallSettle(l) ==
    /\ Looping(l) /\ HasNext(l) /\ Current(l).kind = "settle"
    /\ cb' = Advanced(l)
    /\ state' = [state EXCEPT ![Current(l).arg[1]] = Current(l).arg[2]]
    /\ UNCHANGED <<stack, made, remaining, history, calls>>

CallInternal(l) ==
    /\ Looping(l) /\ HasNext(l) /\ Current(l).kind = "do"
    /\ Perform(Current(l).arg, Advanced(l), stack)
    /\ UNCHANGED <<closure, history, calls>>

\* mutant of CallCount: the first subordinate resolves the master
CallCountFirst(l) ==
    /\ Looping(l) /\ HasNext(l) /\ Current(l).kind = "count"
    /\ LET m == Current(l).arg
       IN  /\ remaining' = [remaining EXCEPT ![m] = 0]
           /\ Perform(Op("fire", <<m, "done">>, Nothing), Advanced(l), stack)
    /\ UNCHANGED <<state, made, history, calls>>

\* updateFunc for a resolved subordinate
CallCount(l) ==
    /\ Looping(l) /\ HasNext(l) /\ Current(l).kind = "count"
    /\ LET m == Current(l).arg
       IN  /\ remaining' = [remaining EXCEPT ![m] = @ - 1]
           /\ IF remaining[m] = 1 THEN Perform(Op("fire", <<m, "done">>, Nothing), Advanced(l), stack)
              ELSE cb' = Advanced(l) /\ UNCHANGED stack
    /\ UNCHANGED <<state, made, history, calls>>

ReturnUser(l) ==
    /\ PageRuns /\ Top.running.kind = "user"
    /\ Return(l)
    /\ UNCHANGED <<closure, history, calls>>

\* A function given to then() returns a value, which is forwarded, ...
ThenValue(l) ==
    /\ PageRuns /\ Top.list = l /\ Top.running.kind = "then"
    /\ Perform(Op("fire", Top.running.arg, Nothing), cb, Append(Below, Frame(l)))
    /\ UNCHANGED <<closure, history, calls>>

\* ... or a promise, which settles the new deferred from now on.
ThenPromise(l, r) ==
    /\ PageRuns /\ Top.list = l /\ Top.running.kind = "then"
    /\ LET c == Top.running.arg[1]
       IN  /\ r \in made \ {c}
           /\ stack' = Append(Below, [Frame(l) EXCEPT !.todo =
                <<Op("add", <<r, "progress">>, Notify(c)), Op("add", <<r, "done">>, Resolve(c)),
                  Op("add", <<r, "fail">>, Reject(c))>>])
    /\ UNCHANGED <<cb, closure, history, calls>>

ThrowTo(catcher) ==
    /\ PageRuns /\ Throw(catcher)
    /\ thrown' = TRUE
    /\ UNCHANGED <<closure, subs, parent, registered, called, calls>>
-----------------------------------------------------------------------------
Page ==
    \/ \E l \in Lists : l[1] \in made /\ AddOne(l)
    \/ \E d \in Deferreds, kind \in {"done", "fail", "progress"} : Settle(d, kind)
    \/ \E d, c \in Deferreds : CallThen(d, c)
    \/ \E m \in Deferreds, ds \in SUBSET Deferreds, values \in 0 .. 1 : CallWhen(m, ds, values)
    \/ \E catcher \in 1 .. Len(stack) : ThrowTo(catcher)

\* What the engine does by itself, up to the return of the running function.
Engine ==
    \/ TodoStep
    \/ \E l \in {Top.list} \ {Nothing} :
         \/ CallUser(l) \/ CallSettle(l) \/ CallInternal(l) \/ CallCount(l)
         \/ (NextRound(l) \/ Finish(l)) /\ UNCHANGED <<closure, history, calls>>
         \/ ReturnUser(l) \/ ThenValue(l)
         \/ \E r \in Deferreds : ThenPromise(l, r)

Next == Page \/ Engine

Spec == Init /\ [][Next]_vars

\* A function that was called runs to its end, and so does the loop that called it.
FairSpec == Spec /\ WF_vars(Engine)
-----------------------------------------------------------------------------
Idle == Len(stack) = 1 /\ Top.todo = <<>>

OnStack == {stack[i].list : i \in 2 .. Len(stack)}

\* The type invariant.
TypeOK ==
    /\ \A l \in Lists : cb[l].queue \in Nat /\ cb[l].index \in Nat /\ cb[l].firing \in BOOLEAN
    /\ state \in [Deferreds -> {"pending", "resolved", "rejected"}]
    /\ made \subseteq Deferreds /\ Roots \subseteq made
    /\ remaining \in [Deferreds -> Nat]
    /\ calls \in 0 .. MaxCalls

\* No loop of a list runs inside another loop of the same list, and a list whose
\* loop is not on the stack is not firing, unless an exception took the loop away.
OneLoopPerList ==
    /\ \A i, j \in 2 .. Len(stack) : stack[i].list = stack[j].list => i = j
    /\ \A l \in OnStack : cb[l].firing
    /\ ~thrown => \A l \in Lists : cb[l].firing => l \in OnStack

\* The deferreds that then() and when() make.
Derived == Deferreds \ Roots

DerivedLists == Derived \X {"done", "fail", "progress"}

\* What is added to a list from outside, what else a list begins with, and what the
\* rest of a statement still has to do.  Only derived deferreds are settled so.
Given ==
    [kind : {"user"}, arg : Fns] \cup [kind : {"then"}, arg : DerivedLists] \cup [kind : {"count"}, arg : Derived]
    \cup [kind : {"do"}, arg : [do : {"fire"}, list : DerivedLists, fn : {Nothing}]]

Own ==
    [kind : {"settle"}, arg : Deferreds \X {"resolved", "rejected"}]
    \cup [kind : {"do"}, arg : [do : {"disable", "lock"}, list : Lists, fn : {Nothing}]]

Rest ==
    [do : {"add"}, list : Lists, fn : {f \in Given : f.kind # "user"}]
    \cup [do : {"end"}, list : DerivedLists, fn : {Nothing}]

ListRecords ==
    [opts : SUBSET {"once", "memory"}, list : Seq(Given \cup Own), spent : BOOLEAN, memory : BOOLEAN,
     locked : BOOLEAN, queue : Nat, firing : BOOLEAN, index : Nat]

Frames ==
    [list : Lists \cup {Nothing}, running : {Nothing, Callback("task", Nothing)} \cup Given, todo : Seq(Rest)]

EngineTypes ==
    /\ cb \in [Lists -> ListRecords] /\ stack \in Seq(Frames)
    /\ stack # <<>> /\ stack[1].list = Nothing /\ \A i \in 2 .. Len(stack) : stack[i].list # Nothing
    /\ state \in [Deferreds -> {"pending", "resolved", "rejected"}] /\ Roots \subseteq made /\ made \subseteq Deferreds
    /\ registered \in [Lists -> Seq(Fns)] /\ called \in [Lists -> Seq(Fns)]

\* The life of an outcome's list c = cb[l].  It is untouched until it is fired, or
\* disabled; once fired it is locked, has a value to remember, and has nothing before
\* it but what was added and, at first, the last of its own functions.
Untouched(c, l) ==
    /\ c.opts = {"once", "memory"} /\ ~c.spent /\ ~c.memory /\ ~c.locked /\ ~c.firing /\ c.queue = 0 /\ c.index = 0
    /\ Len(c.list) >= 3
    /\ \A i \in 1 .. Len(c.list) : IF i <= 3 THEN c.list[i] = Settling(l[1], l[2])[i] ELSE c.list[i] \in Given

Disabled(c) ==
    c.spent /\ ~c.memory /\ c.locked /\ ~c.firing /\ c.queue = 0 /\ c.list = <<>>

Fired(c, l, own) ==
    /\ c.opts = {"once", "memory"} /\ ~c.spent /\ c.memory /\ c.locked /\ c.queue = 0
    /\ \A i \in 1 .. Len(c.list) : i > c.index =>
            IF i \in own THEN c.list[i] = Settling(l[1], l[2])[i]
            ELSE c.list[i] \in Given \/ c.list[i] = Settling(l[1], l[2])[3]

\* A list has been fired, and is on top of the stack until it has called the functions
\* that set the state and disable the list of the other outcome.
Settles(d, kind) ==
    LET l == <<d, kind>>
        c == cb[l]
    IN  /\ Looping(l) /\ c.firing /\ Len(c.list) >= 3
        /\ Fired(c, l, {1, 2}) /\ Untouched(cb[<<d, Other(kind)>>], <<d, Other(kind)>>)
        /\ \/ state[d] = "pending" /\ c.index = 0
           \/ state[d] = StateOf(kind) /\ c.index = 1

Calm(lists, d) ==
    \/ state[d] = "pending" /\ \A kind \in {"done", "fail"} : Untouched(lists[<<d, kind>>], <<d, kind>>)
    \/ \E kind \in {"done", "fail"} :
         /\ state[d] = StateOf(kind)
         /\ Fired(lists[<<d, kind>>], <<d, kind>>, {}) /\ Disabled(lists[<<d, Other(kind)>>])

\* A list of notifications is locked for good only if it has nothing to remember.
Notifies(c) ==
    /\ c.opts = {"memory"} /\ (c.firing => c.memory) /\ (c.spent => c.locked /\ ~c.memory)
    /\ \A i \in 1 .. Len(c.list) : c.list[i] \in Given

\* What is still to be called of the page's functions is new, and is there once.
CalledOnce(c, done, known) ==
    /\ done \subseteq known
    /\ \A i \in 1 .. Len(c.list) : i > c.index /\ c.list[i].kind = "user" =>
         /\ c.list[i].arg \in known \ done
         /\ \A j \in 1 .. Len(c.list) : j > i /\ c.list[j].kind = "user" => c.list[j].arg # c.list[i].arg

\* Behind the index of an outcome's list is what was added and not called yet, all of it
\* and in the order in which it was added; and a list that has something to remember
\* holds nothing when its loop is over.
InOrder(c, done, known) ==
    /\ IsInjective(known) /\ IsPrefix(done, known)
    /\ c.memory /\ ~c.firing => c.list = <<>>
    /\ \A i, j \in 1 .. Len(c.list), p, q \in 1 .. Len(known) :
         i > c.index /\ i < j /\ c.list[i] = User(known[p]) /\ c.list[j] = User(known[q]) => p < q
    /\ ~c.spent =>
         /\ c.index <= Len(c.list)
         /\ \A p \in 1 .. Len(known) : p > Len(done) =>
              \E i \in 1 .. Len(c.list) : i > c.index /\ c.list[i] = User(known[p])

PromiseInv ==
    /\ EngineTypes /\ OneLoopPerList
    /\ \A d \in Deferreds : Calm(cb, d) \/ \E kind \in {"done", "fail"} : Settles(d, kind)
    /\ \A d \in Deferreds : Notifies(cb[<<d, "progress">>])
    /\ \A l \in Deferreds \X {"done", "fail"} : CalledOnce(cb[l], ToSet(called[l]), ToSet(registered[l]))

\* The functions that wait for an outcome are called in the order in which they
\* were added, also those added while others run, or by them, or afterwards; and
\* when the page's code is done none is left over, unless one of that list threw.
OrderKept ==
    \A l \in Deferreds \X {"done", "fail"} :
        /\ IsPrefix(called[l], registered[l])
        /\ Idle /\ state[l[1]] = StateOf(l[2]) /\ ~cb[l].firing => called[l] = registered[l]

OrderInv == \A l \in Deferreds \X {"done", "fail"} : InOrder(cb[l], called[l], registered[l])

\* What settles a deferred that then() or when() made: its parent was settled or has
\* notified, or its subordinates were settled.
Answered(lists, d) == state[d] # "pending" \/ lists[<<d, "progress">>].memory

Due(lists, m, kind) ==
    /\ m \in made
    /\ IF parent[m] # Nothing THEN Answered(lists, parent[m])
       ELSE IF kind = "done" THEN \A d \in subs[m] : state[d] = "resolved"
       ELSE \E d \in subs[m] : state[d] = "rejected"

\* Function g may be in list l: the deferred that it settles waits for that list, or is
\* due already.
Fits(lists, g, l) ==
    /\ g.kind = "then" => g.arg[1] \in made /\ parent[g.arg[1]] = l[1]
    /\ g.kind = "count" => g.arg \in made /\ parent[g.arg] = Nothing /\ l[2] = "done" /\ l[1] \in subs[g.arg]
    /\ g.kind = "do" /\ g.arg.do = "fire" /\ g.arg.list[2] # "progress" =>
        LET m == g.arg.list[1]
        IN  /\ m \in made
            /\ IF parent[m] # Nothing THEN Answered(lists, parent[m])
               ELSE g.arg.list[2] = "fail" /\ l[2] = "fail" /\ l[1] \in subs[m]

\* The same of what a statement has still to do, and of a function that runs.
RestFits(lists, op) ==
    /\ op.do = "add" => Fits(lists, op.fn, op.list)
    /\ op.do = "end" => op.list[1] \in made /\ parent[op.list[1]] = Nothing /\ op.list[2] = "done"

RunFits(lists, g) ==
    g # Nothing /\ g.kind = "then" =>
        /\ g.arg[1] \in made /\ parent[g.arg[1]] # Nothing
        /\ Answered(lists, parent[g.arg[1]])

Aims(lists, st) ==
    /\ \A l \in Lists : \A i \in 1 .. Len(lists[l].list) : Fits(lists, lists[l].list[i], l)
    /\ \A k \in 1 .. Len(st) :
         RunFits(lists, st[k].running) /\ \A i \in 1 .. Len(st[k].todo) : RestFits(lists, st[k].todo[i])
    /\ \A m \in Derived, kind \in {"done", "fail"} : lists[<<m, kind>>].memory => Due(lists, m, kind)

\* Subordinate d, with list c of its own, counts for m once more at most, ...
ToCount(m, d) == Op("add", <<d, "done">>, Count(m))

CountsOnce(c, st, m, d) ==
    /\ \A i, j \in 1 .. Len(c.list) :
         i > c.index /\ j > c.index /\ c.list[i] = Count(m) /\ c.list[j] = Count(m) => i = j
    /\ \A k \in 1 .. Len(st) : \A i \in 1 .. Len(st[k].todo) : st[k].todo[i] = ToCount(m, d) =>
         /\ \A j \in 1 .. Len(c.list) : j > c.index => c.list[j] # Count(m)
         /\ \A n \in 1 .. Len(st) : \A j \in 1 .. Len(st[n].todo) : st[n].todo[j] = ToCount(m, d) => n = k /\ j = i

\* ... or never again.
HasCounted(c, st, m, d) ==
    /\ \A i \in 1 .. Len(c.list) : i > c.index => c.list[i] # Count(m)
    /\ \A k \in 1 .. Len(st) : \A i \in 1 .. Len(st[k].todo) : st[k].todo[i] # ToCount(m, d)

\* What is left of the countdown is the number of the subordinates that still owe.
Counted(lists, st, m, owed) ==
    /\ remaining[m] = Cardinality(owed)
    /\ \A d \in subs[m] : CountsOnce(lists[<<d, "done">>], st, m, d)
    /\ \A d \in subs[m] \ owed : state[d] = "resolved" /\ HasCounted(lists[<<d, "done">>], st, m, d)

\* Who was made by then() or when(), and of whom.
Origins ==
    /\ subs \in [Deferreds -> SUBSET Deferreds] /\ parent \in [Deferreds -> Deferreds \cup {Nothing}]
    /\ remaining \in [Deferreds -> Nat]
    /\ \A c \in Deferreds :
         /\ IsFiniteSet(subs[c]) /\ (parent[c] = Nothing \/ subs[c] = {})
         /\ c \notin made \/ c \in Roots => parent[c] = Nothing /\ subs[c] = {}

ChainInv ==
    /\ Origins /\ Aims(cb, stack)
    /\ \A m \in Deferreds : \E owed \in SUBSET subs[m] : Counted(cb, stack, m, owed)

\* A master of when() is resolved only after all its subordinates are, and
\* rejected only after one of them is.  The deferred of a then() is settled only
\* after the one it was called on, except that a function given for notifications
\* may return a promise, which then settles it early.
ChainsFollow ==
    \A c \in made :
        /\ subs[c] # {} =>
             /\ state[c] = "resolved" => \A d \in subs[c] : state[d] = "resolved"
             /\ state[c] = "rejected" => \E d \in subs[c] : state[d] = "rejected"
        /\ parent[c] # Nothing /\ state[c] # "pending" =>
             state[parent[c]] # "pending" \/ cb[<<parent[c], "progress">>].memory

DeferredInv == TypeOK /\ PromiseInv /\ OrderInv /\ OrderKept /\ ChainInv /\ ChainsFollow

P == INSTANCE Promise WITH
        Promises <- Deferreds, Functions <- Fns, Pending <- "pending",
        Outcomes <- {"resolved", "rejected"}, outcome <- state,
        heard <- [d \in Deferreds |-> [o \in {"resolved", "rejected"} |->
                    ToSet(called[<<d, IF o = "resolved" THEN "done" ELSE "fail">>])]]

\* Callbacks' "once", its emptied lists and the disabling of the other list make
\* the deferred a promise: one outcome, and every function at most once, after it.
ImplementsPromise == P!Spec

\* A master whose subordinates are all resolved is resolved too, whatever was
\* resolved first and whatever else stood among the arguments of when().
WhenAnswers ==
    \A m \in Derived :
        (m \in made /\ subs[m] # {} /\ \A d \in subs[m] : state[d] = "resolved")
            ~> (state[m] = "resolved" \/ thrown)
=============================================================================
