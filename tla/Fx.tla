--------------------------------- MODULE Fx ---------------------------------
(***************************************************************************)
(* jQuery's effects: the "fx" queue of each element, the animations it     *)
(* starts one after the other or that run beside it (queue: false), the    *)
(* timers they share, delay(), stop(), finish() and promise().             *)
(*                                                                         *)
(* One thread runs everything.  "agenda" is what the current task of the   *)
(* event loop still has to do, the next thing first: a call that runs      *)
(* functions puts them in front of what comes after it.  Where a function  *)
(* of the page runs, it may call this API again.                           *)
(***************************************************************************)
EXTENDS Naturals, Sequences, FiniteSets, SequencesExt

CONSTANTS Elems,      \* elements of the page
          Durations,  \* how many turns of the timer an animation may take
          MaxItems,   \* bound: animations and delays
          MaxCalls,   \* bound: calls of the API
          None

ASSUME FxAssumption == Durations \subseteq Nat /\ MaxItems \in Nat /\ MaxCalls \in Nat

Items == 1 .. MaxItems

VARIABLES queue,      \* queue[e]: items, or the sentinel in front of them
          hooks,      \* hooks[e]: its queue has hooks
          stopHook,   \* hooks.stop: the delay that it would cancel
          unqueued,   \* hooks.unqueued
          awaits,     \* the elements whose queue promise() still waits for
          promised,   \* "no", "waiting", "resolved"
          item,       \* item[x]: an animation or a delay
          timers,     \* jQuery.timers
          interval,   \* timerId is set
          finishing,  \* finishing[e]: data.finish
          agenda,
          calls,
          meddled,    \* history: the elements whose queue the page has meddled with
          displaced   \* history: a loop of stop() or finish(), or a pop, has lost its timer

queues == <<queue, hooks, stopHook, unqueued>>
promises == <<awaits, promised>>
clock == <<timers, interval>>
history == <<meddled, displaced>>
vars == <<queues, promises, item, clock, finishing, agenda, calls, history>>

Sentinel == 0

Blank == [kind |-> "none", elem |-> None, beside |-> FALSE, left |-> 0, state |-> "none"]

Settled(x) == item[x].state \in {"resolved", "rejected"}

Init ==
    /\ queue = [e \in Elems |-> <<>>]
    /\ hooks = [e \in Elems |-> FALSE]
    /\ stopHook = [e \in Elems |-> None]
    /\ unqueued = [e \in Elems |-> 0]
    /\ awaits = {} /\ promised = "no"
    /\ item = [x \in Items |-> Blank]
    /\ timers = <<>> /\ interval = FALSE
    /\ finishing = [e \in Elems |-> FALSE]
    /\ agenda = <<>>
    /\ calls = 0
    /\ meddled = {} /\ displaced = FALSE
-----------------------------------------------------------------------------
\* The steps an agenda is made of.
Do(what, e, x) == [do |-> what, elem |-> e, item |-> x, at |-> 0, goto |-> FALSE, dequeue |-> TRUE]

PageCode == Do("page", None, 0)
Dequeue(e) == Do("dequeue", e, 0)

Now(what) == agenda # <<>> /\ Head(agenda).do = what
Todo == Head(agenda)
Then(steps) == agenda' = steps \o Tail(agenda)

\* mutant of Complete: the next in the queue is not started
CompleteAlone(x) == <<PageCode>>

\* what runs when an animation is resolved: the page's done and complete functions,
\* the dequeue behind them, and the page's always function
Complete(x) ==
    IF item[x].beside THEN <<PageCode>> ELSE <<PageCode, Dequeue(item[x].elem), PageCode>>

\* at last, what counts off an animation beside the queue
Leaves(x) == IF item[x].beside THEN <<Do("unqueue", item[x].elem, x)>> ELSE <<>>

\* When it is rejected, the page's fail and always functions run.
Settling(x, outcome) ==
    (IF outcome = "resolved" THEN Complete(x) ELSE <<PageCode>>) \o Leaves(x)

\* hooks.empty.fire(): the queue's data go, then promise() hears of it
EmptyFire(e, count) ==
    IF count > 0 THEN UNCHANGED <<hooks, stopHook, promises>> /\ Then(<<>>)
    ELSE /\ hooks' = [hooks EXCEPT ![e] = FALSE]
         /\ stopHook' = [stopHook EXCEPT ![e] = None]
         /\ awaits' = awaits \ {e}
         /\ IF awaits = {e} THEN promised' = "resolved" /\ Then(<<PageCode>>)
            ELSE UNCHANGED promised /\ Then(<<>>)
-----------------------------------------------------------------------------
\* The page calls the API, in a task of its own or in a function jQuery runs.
PageRuns == agenda = <<>> \/ Now("page")

Calling == PageRuns /\ calls < MaxCalls /\ calls' = calls + 1

Call(steps) == agenda' = steps \o agenda

NewItem(x) == x = Cardinality({y \in Items : item[y] # Blank}) + 1

Sentineled(e) == queue[e] # <<>> /\ Head(queue[e]) = Sentinel

\* the task is in the middle of dequeuing, stopping or finishing e
DequeueToCome(e) ==
    \E i \in 1 .. Len(agenda) :
        /\ agenda[i].elem = e
        /\ agenda[i].do \in {"dequeue", "stopHook", "stop", "start", "finish", "finished"}

\* A function of the page that queues something while the queue it runs for has
\* been cleared starts it at once, and one that calls stop() dequeues;
\* the dequeue that comes after the function then starts the next one beside it.
Enqueue(e, x) ==
    /\ meddled' = IF ~Sentineled(e) /\ DequeueToCome(e) THEN meddled \cup {e} ELSE meddled
    /\ queue' = [queue EXCEPT ![e] = Append(@, x)]
    /\ hooks' = [hooks EXCEPT ![e] = TRUE]
    /\ Call(IF Sentineled(e) THEN <<>> ELSE <<Dequeue(e)>>)

Animate(e, x, ticks, beside) ==
    /\ Calling /\ NewItem(x)
    /\ item' = [item EXCEPT ![x] = [kind |-> "animation", elem |-> e, beside |-> beside,
                                    left |-> ticks, state |-> "queued"]]
    /\ IF beside THEN Call(<<Do("start", e, x)>>) /\ UNCHANGED <<queue, hooks, meddled>> ELSE Enqueue(e, x)
    /\ UNCHANGED <<stopHook, unqueued, promises, clock, finishing, displaced>>

Delay(e, x) ==
    /\ Calling /\ NewItem(x)
    /\ item' = [item EXCEPT ![x] = [kind |-> "delay", elem |-> e, beside |-> FALSE,
                                    left |-> 0, state |-> "queued"]]
    /\ Enqueue(e, x)
    /\ UNCHANGED <<stopHook, unqueued, promises, clock, finishing, displaced>>

StopLoop(e, at, goto, dequeue) ==
    [Do("stop", e, 0) EXCEPT !.at = at, !.goto = goto, !.dequeue = dequeue]

Stop(e, clear, goto) ==
    /\ Calling
    /\ Call((IF clear THEN <<Do("clear", e, 0)>> ELSE <<>>)
            \o <<[Do("stopHook", e, 0) EXCEPT !.goto = goto]>>)
    /\ meddled' = IF DequeueToCome(e) \/ (stopHook[e] # None /\ (clear \/ (goto /\ unqueued[e] > 0)))
                  THEN meddled \cup {e} ELSE meddled
    /\ UNCHANGED <<queues, promises, item, clock, finishing, displaced>>

ClearQueue(e) ==
    /\ Calling
    /\ Call(<<Do("clear", e, 0)>>)
    /\ meddled' = meddled \cup {e}
    /\ UNCHANGED <<queues, promises, item, clock, finishing, displaced>>

\* finish(): the queue is taken away first, its animations are run at the end
Finish(e) ==
    /\ Calling
    /\ finishing' = [finishing EXCEPT ![e] = TRUE]
    /\ queue' = [queue EXCEPT ![e] = <<>>]
    /\ item' = [x \in Items |->
                  IF x = stopHook[e] THEN [item[x] EXCEPT !.state = "rejected"]
                  ELSE IF item[x].kind = "delay" /\ Contains(queue[e], x)
                       THEN [item[x] EXCEPT !.state = "rejected"]
                  ELSE item[x]]
    /\ Call(<<[Do("finish", e, 0) EXCEPT !.at = Len(timers)]>>
            \o [i \in 1 .. Len(SelectSeq(queue[e], LAMBDA x : x # Sentinel /\ item[x].kind = "animation")) |->
                  Do("start", e, SelectSeq(queue[e], LAMBDA x : x # Sentinel /\ item[x].kind = "animation")[i])]
            \o <<Do("finished", e, 0)>>)
    /\ meddled' = IF finishing[e] \/ stopHook[e] # None THEN meddled \cup {e} ELSE meddled
    /\ UNCHANGED <<hooks, stopHook, unqueued, promises, clock, displaced>>

Promise ==
    /\ Calling /\ promised = "no"
    /\ awaits' = {e \in Elems : hooks[e]}
    /\ promised' = IF awaits' = {} THEN "resolved" ELSE "waiting"
    /\ Call(IF awaits' = {} THEN <<PageCode>> ELSE <<>>)
    /\ UNCHANGED <<queues, item, clock, finishing, history>>

PageReturns ==
    /\ Now("page")
    /\ Then(<<>>)
    /\ UNCHANGED <<queues, promises, item, clock, finishing, calls, history>>
-----------------------------------------------------------------------------
\* jQuery.dequeue
DoDequeue ==
    /\ Now("dequeue")
    /\ LET e == Todo.elem
           rest == SelectSeq(queue[e], LAMBDA x : x # Sentinel)
       IN  IF rest = <<>>
           THEN /\ queue' = [queue EXCEPT ![e] = <<>>]
                /\ EmptyFire(e, unqueued[e])
           ELSE /\ queue' = [queue EXCEPT ![e] = <<Sentinel>> \o Tail(rest)]
                /\ hooks' = [hooks EXCEPT ![e] = TRUE]
                /\ stopHook' = [stopHook EXCEPT ![e] =
                                  IF item[Head(rest)].kind = "delay" THEN Head(rest) ELSE None]
                /\ Then(<<Do("start", e, Head(rest))>>)
                /\ UNCHANGED promises
    /\ UNCHANGED <<unqueued, item, clock, finishing, calls, history>>

\* the function of an item: doAnimation, or the one that sets delay's timeout
Start ==
    /\ Now("start")
    /\ LET x == Todo.item
           e == Todo.elem
           ends == item[x].kind = "animation" /\ item[x].left = 0
       IN  /\ item' = [item EXCEPT ![x].state = IF ends THEN "resolved" ELSE "running"]
           /\ IF item[x].kind = "delay" THEN Then(<<>>) /\ UNCHANGED <<clock, hooks, unqueued>>
              ELSE /\ timers' = Append(timers, x)
                   /\ interval' = (interval \/ ~ends)
                   /\ hooks' = [hooks EXCEPT ![e] = @ \/ item[x].beside]
                   /\ unqueued' = [unqueued EXCEPT ![e] = IF item[x].beside THEN @ + 1 ELSE @]
                   /\ Then(IF ends THEN Leaves(x) \o <<Do("pop", e, x)>> \o Complete(x)
                           ELSE IF finishing[e] THEN <<[Do("settle", e, x) EXCEPT !.goto = TRUE]>>
                           ELSE <<>>)
           /\ displaced' = (displaced \/ (item[x].kind = "animation" /\ ~ends
                                           /\ \E i \in 1 .. Len(agenda) : agenda[i].do = "pop"))
    /\ UNCHANGED <<queue, stopHook, promises, finishing, calls, meddled>>

\* jQuery.fx.timer, when the animation ended at once
Pop ==
    /\ Now("pop")
    /\ timers' = Front(timers)
    /\ Then(<<>>)
    /\ UNCHANGED <<queues, promises, item, interval, finishing, calls, history>>

\* mutant of Unqueue: the last one does not tell that the queue is empty
UnqueueSilently ==
    /\ Now("unqueue")
    /\ unqueued' = [unqueued EXCEPT ![Todo.elem] = @ - 1]
    /\ Then(<<>>)
    /\ UNCHANGED <<queue, hooks, stopHook, promises, item, clock, finishing, calls, history>>

Unqueue ==
    /\ Now("unqueue")
    /\ LET e == Todo.elem
       IN  /\ unqueued' = [unqueued EXCEPT ![e] = @ - 1]
           /\ IF queue[e] = <<>> THEN EmptyFire(e, unqueued[e] - 1)
              ELSE UNCHANGED <<hooks, stopHook, promises>> /\ Then(<<>>)
    /\ UNCHANGED <<queue, item, clock, finishing, calls, history>>

\* animation.stop
SettleAnimation ==
    /\ Now("settle")
    /\ LET x == Todo.item
           outcome == IF Todo.goto THEN "resolved" ELSE "rejected"
       IN  IF Settled(x) THEN UNCHANGED item /\ Then(<<>>)
           ELSE item' = [item EXCEPT ![x].state = outcome] /\ Then(Settling(x, outcome))
    /\ UNCHANGED <<queues, promises, clock, finishing, calls, history>>

\* this.queue("fx", []): no sentinel is left in front, so it dequeues at once
Clear ==
    /\ Now("clear")
    /\ LET e == Todo.elem
       IN  /\ queue' = [queue EXCEPT ![e] = <<>>]
           /\ item' = [x \in Items |-> IF Contains(queue[e], x)
                                       THEN [item[x] EXCEPT !.state = "rejected"] ELSE item[x]]
           /\ hooks' = [hooks EXCEPT ![e] = TRUE]
           /\ Then(<<Dequeue(e)>>)
    /\ UNCHANGED <<stopHook, unqueued, promises, clock, finishing, calls, history>>

StopTheHook ==
    /\ Now("stopHook")
    /\ LET e == Todo.elem
           d == stopHook[e]
       IN  /\ item' = IF d = None THEN item ELSE [item EXCEPT ![d].state = "rejected"]
           /\ stopHook' = [stopHook EXCEPT ![e] = None]
           /\ Then(<<StopLoop(e, Len(timers), Todo.goto, TRUE)>>)
    /\ UNCHANGED <<queue, hooks, unqueued, promises, clock, finishing, calls, history>>

\* A settled animation has lost its element ("delete tick.elem").
TimerOf(i, e, type) ==
    /\ i <= Len(timers)
    /\ ~Settled(timers[i])
    /\ item[timers[i]].elem = e
    /\ type = "fx" => ~item[timers[i]].beside

\* A loop inside another takes out timer i, in front of one the outer is about to take out.
Displaces(i) == \E k \in 1 .. Len(agenda) : agenda[k].do = "splice" /\ agenda[k].at > i

\* the loops of stop() and finish() over the timers, from the last to the first
StopTimers ==
    /\ Now("stop")
    /\ LET e == Todo.elem
           i == Todo.at
           matches == i > 0 /\ TimerOf(i, e, "any")
       IN  /\ Then(IF i = 0 THEN IF Todo.dequeue \/ ~Todo.goto THEN <<Dequeue(e)>> ELSE <<>>
                ELSE IF ~matches THEN <<[Todo EXCEPT !.at = i - 1]>>
                ELSE <<[Do("settle", e, timers[i]) EXCEPT !.goto = Todo.goto],
                       [Do("splice", e, 0) EXCEPT !.at = i],
                       StopLoop(e, i - 1, Todo.goto, FALSE)>>)
           /\ displaced' = (displaced \/ (matches /\ Displaces(i)))
    /\ UNCHANGED <<queues, promises, item, clock, finishing, calls, meddled>>

FinishTimers ==
    /\ Now("finish")
    /\ LET e == Todo.elem
           i == Todo.at
           matches == i > 0 /\ TimerOf(i, e, "fx")
       IN  /\ Then(IF i = 0 THEN <<>>
                ELSE IF ~matches THEN <<[Todo EXCEPT !.at = i - 1]>>
                ELSE <<[Do("settle", e, timers[i]) EXCEPT !.goto = TRUE],
                       [Do("splice", e, 0) EXCEPT !.at = i],
                       [Todo EXCEPT !.at = i - 1]>>)
           /\ displaced' = (displaced \/ (matches /\ Displaces(i)))
    /\ UNCHANGED <<queues, promises, item, clock, finishing, calls, meddled>>

\* mutant of Splice: off by one
SpliceNext ==
    /\ Now("splice")
    /\ timers' = IF Todo.at < Len(timers) THEN RemoveAt(timers, Todo.at + 1) ELSE timers
    /\ Then(<<>>)
    /\ UNCHANGED <<queues, promises, item, interval, finishing, calls, history>>

\* timers.splice(index, 1), whatever is there by now
Splice ==
    /\ Now("splice")
    /\ timers' = IF Todo.at <= Len(timers) THEN RemoveAt(timers, Todo.at) ELSE timers
    /\ Then(<<>>)
    /\ UNCHANGED <<queues, promises, item, interval, finishing, calls, history>>

Finished ==
    /\ Now("finished")
    /\ finishing' = [finishing EXCEPT ![Todo.elem] = FALSE]
    /\ Then(<<>>)
    /\ UNCHANGED <<queues, promises, item, clock, calls, history>>
-----------------------------------------------------------------------------
\* jQuery.fx.tick, one timer at a time
TickAt(i) == [Do("tick", None, 0) EXCEPT !.at = i]

TickBegin ==
    /\ agenda = <<>> /\ interval
    /\ agenda' = <<TickAt(1)>>
    /\ UNCHANGED <<queues, promises, item, clock, finishing, calls, history>>

\* fx.stop() is called when no timer is left
StillNeeded == timers # <<>>

\* the animation's own tick: it returns the remaining time, so it is asked again
Lasts(x) == item[x].left > 1

Tick ==
    /\ Now("tick")
    /\ LET i == Todo.at
       IN  IF i > Len(timers)
           THEN /\ interval' = StillNeeded
                /\ Then(<<>>)
                /\ UNCHANGED <<item, timers>>
           ELSE LET x == timers[i]
                IN  /\ UNCHANGED interval
                    /\ IF Settled(x)
                       THEN /\ timers' = RemoveAt(timers, i)
                            /\ Then(<<TickAt(i)>>)
                            /\ UNCHANGED item
                       ELSE /\ UNCHANGED timers
                            /\ IF Lasts(x)
                               THEN /\ item' = [item EXCEPT ![x].left = @ - 1]
                                    /\ Then(<<TickAt(i + 1)>>)
                               ELSE /\ item' = [item EXCEPT ![x].left = 0, ![x].state = "resolved"]
                                    /\ Then(Settling(x, "resolved")
                                            \o <<[Do("ticked", None, x) EXCEPT !.at = i]>>)
    /\ UNCHANGED <<queues, promises, finishing, calls, history>>

Ticked ==
    /\ Now("ticked")
    /\ LET i == Todo.at
           still == i <= Len(timers) /\ timers[i] = Todo.item
       IN  /\ timers' = IF still THEN RemoveAt(timers, i) ELSE timers
           /\ Then(<<TickAt(IF still THEN i ELSE i + 1)>>)
    /\ UNCHANGED <<queues, promises, item, interval, finishing, calls, history>>

\* the timeout of a delay
Timeout(x) ==
    /\ agenda = <<>>
    /\ item[x].kind = "delay" /\ item[x].state = "running"
    /\ item' = [item EXCEPT ![x].state = "resolved"]
    /\ agenda' = <<Dequeue(item[x].elem)>>
    /\ UNCHANGED <<queues, promises, clock, finishing, calls, history>>
-----------------------------------------------------------------------------
Page ==
    \/ \E e \in Elems :
         \/ \E x \in Items : Delay(e, x) \/ \E ticks \in Durations, b \in BOOLEAN : Animate(e, x, ticks, b)
         \/ \E clear, goto \in BOOLEAN : Stop(e, clear, goto)
         \/ ClearQueue(e) \/ Finish(e)
    \/ Promise

Engine ==
    \/ PageReturns
    \/ DoDequeue \/ Start \/ Pop \/ Unqueue \/ SettleAnimation \/ Clear
    \/ StopTheHook \/ StopTimers \/ FinishTimers \/ Splice \/ Finished
    \/ TickBegin \/ Tick \/ Ticked

Next == Page \/ Engine \/ \E x \in Items : Timeout(x)

Spec == Init /\ [][Next]_vars

\* Functions of the page return, the interval and the timeouts that are set go off.
FairSpec == Spec /\ WF_vars(Engine) /\ \A x \in Items : WF_vars(Timeout(x))
-----------------------------------------------------------------------------
Idle == agenda = <<>>

Running(e) == {x \in Items : item[x].state = "running" /\ item[x].elem = e /\ ~item[x].beside}

\* The type invariant.
TypeOK ==
    /\ queue \in [Elems -> Seq(Items \cup {Sentinel})]
    /\ hooks \in [Elems -> BOOLEAN] /\ finishing \in [Elems -> BOOLEAN]
    /\ unqueued \in [Elems -> Nat]
    /\ stopHook \in [Elems -> Items \cup {None}]
    /\ timers \in Seq(Items) /\ interval \in BOOLEAN
    /\ promised \in {"no", "waiting", "resolved"} /\ awaits \subseteq Elems
    /\ meddled \subseteq Elems /\ displaced \in BOOLEAN
    /\ calls \in 0 .. MaxCalls

\* Between two tasks the interval is set for as long as there are timers, although
\* fx.tick() clears it and functions it runs start animations anew.
TimersDriven == Idle /\ timers # <<>> => interval

\* At most one item of an element's queue runs at a time, whatever animations and
\* delays start, end and are stopped within each other's functions.  "meddled" has the
\* elements for which the page has queued something or called stop() just before the
\* dequeue that ends an item, has called stop() or finish() during a delay or
\* clearQueue(), or finish() inside finish().
Serial == Idle => \A e \in Elems \ meddled : Cardinality(Running(e)) <= 1

\* No animation stands still: one that runs has its tick among the timers, while the
\* loops of stop(), finish() and fx.tick() run functions that start, stop and finish
\* animations.  There are two exceptions, "displaced": the loop of a stop() or finish()
\* inside another takes out a timer in front of the one the outer loop is at, or a
\* function run by an animation that ends at once starts one that does not.
NoneFrozen ==
    Idle /\ ~displaced =>
        \A x \in Items : item[x].kind = "animation" /\ item[x].state = "running" => Contains(timers, x)

FxInv == TypeOK /\ TimersDriven /\ Serial /\ NoneFrozen

\* promise() is told when the last queue it waits for is empty and no animation
\* beside it runs: none of the ways in which a queue ends leaves it waiting.
PromiseHears ==
    Idle /\ promised = "waiting" =>
        \E e \in awaits : queue[e] # <<>> \/ unqueued[e] > 0 \/ e \in meddled

\* Whatever is queued or runs comes to its end, by itself or by being stopped, but
\* for the elements that are meddled with and once a timer has been displaced.
EveryItemEnds ==
    \A x \in Items :
        (item[x].state \in {"queued", "running"})
            ~> (Settled(x) \/ displaced \/ item[x].elem \in meddled)
=============================================================================
