----------------------------- MODULE Callbacks -----------------------------
(***************************************************************************)
(* jQuery.Callbacks: lists of functions that are fired synchronously.  A   *)
(* function that runs may itself add to, fire, lock or empty any list,     *)
(* the one that runs it included; "stack" is the call stack of the fire()  *)
(* loops that are under way, the event loop's task at the bottom.  What    *)
(* the functions are handed is left out: "memory" tells whether there is a *)
(* remembered value, "queue" counts the executions that are pending.  Left *)
(* out as well, because no file of the repository uses them: remove(),     *)
(* empty() and the options "unique" and "stopOnFalse".                     *)
(***************************************************************************)
EXTENDS Naturals, Sequences, SequencesExt

CONSTANT Nothing       \* no list, no function

VARIABLES cb,         \* cb[l]: the closure's variables of list l
          stack       \* frames: which list fires, which function runs, what it still has to do

\* "spent" stands for list = "", index for firingIndex + 1
Fresh(options, fns) ==
    [opts |-> options, list |-> fns, spent |-> FALSE, memory |-> FALSE,
     locked |-> FALSE, queue |-> 0, firing |-> FALSE, index |-> 0]

Frame(l) == [list |-> l, running |-> Nothing, todo |-> <<>>]

Top == Last(stack)
Below == Front(stack)
-----------------------------------------------------------------------------
\* fire(), up to the first turn of its loops.  "locked" is assigned anew, so a
\* list that was locked without the option "once" is open again.
Fire(c) ==
    [c EXCEPT !.locked = "once" \in c.opts, !.firing = TRUE, !.memory = TRUE, !.queue = @ - 1]

\* add fires at once when there is a value to remember and no loop runs
AddFires(c) == c.memory /\ ~c.firing

Add(c, f) ==
    IF c.spent THEN c
    ELSE [c EXCEPT !.list = Append(@, f),
                   !.index = IF AddFires(c) THEN Len(c.list) ELSE @,
                   !.queue = IF AddFires(c) THEN @ + 1 ELSE @]

Disable(c) ==
    [c EXCEPT !.locked = TRUE, !.queue = 0, !.list = <<>>, !.spent = TRUE, !.memory = FALSE]

Lock(c) ==
    IF c.memory THEN [c EXCEPT !.locked = TRUE, !.queue = 0] ELSE Disable(c)

FireWith(c) == IF c.locked THEN c ELSE [c EXCEPT !.queue = @ + 1]

\* An operation on a list is a record [do, list, fn].
Op(do, l, f) == [do |-> do, list |-> l, fn |-> f]

Starts(op, c) ==
    \/ op.do = "add" /\ AddFires(c)
    \/ op.do = "fire" /\ ~c.locked /\ ~c.firing

Applied(op, c) ==
    CASE op.do = "add" -> Add(c, op.fn)
      [] op.do = "disable" -> Disable(c)
      [] op.do = "lock" -> Lock(c)
      [] op.do = "fire" -> FireWith(c)

\* The operation takes place, called from the top frame of st.
Perform(op, lists, st) ==
    LET c == lists[op.list]
        starts == Starts(op, c)
    IN  /\ cb' = [lists EXCEPT ![op.list] = IF starts THEN Fire(Applied(op, c)) ELSE Applied(op, c)]
        /\ stack' = IF starts THEN Append(st, Frame(op.list)) ELSE st
-----------------------------------------------------------------------------
\* The loops of fire(), of the list on top of the stack, between two functions.
Looping(l) == Top.list = l /\ l # Nothing /\ Top.running = Nothing /\ Top.todo = <<>>

Current(l) == cb[l].list[cb[l].index + 1]

HasNext(l) == cb[l].index < Len(cb[l].list)

\* the function of the next index is called; what it does is up to the module
\* that composes the lists
Advanced(l) == [cb EXCEPT ![l].index = @ + 1]

NextRound(l) ==
    /\ Looping(l) /\ ~HasNext(l) /\ cb[l].queue > 0
    /\ cb' = [cb EXCEPT ![l].index = 0, ![l].queue = @ - 1, ![l].memory = TRUE]
    /\ UNCHANGED stack

Finish(l) ==
    /\ Looping(l) /\ ~HasNext(l) /\ cb[l].queue = 0
    /\ LET c == cb[l]
           memory == c.memory /\ "memory" \in c.opts
       IN  cb' = [cb EXCEPT ![l] = [c EXCEPT !.firing = FALSE, !.index = 0, !.memory = memory,
                                             !.list = IF c.locked THEN <<>> ELSE @,
                                             !.spent = @ \/ (c.locked /\ ~memory)]]
    /\ stack' = Below

\* The running function returns.
Return(l) ==
    /\ Top.list = l
    /\ stack' = Append(Below, Frame(l))
    /\ UNCHANGED cb

\* The running function throws: the frames above the one that catches are gone,
\* and the loops they stood for leave "firing" set behind them.
Throw(catcher) ==
    /\ catcher \in 1 .. Len(stack) - 1
    /\ stack[catcher].running # Nothing
    /\ stack' = [SubSeq(stack, 1, catcher) EXCEPT ![catcher].todo = <<>>]
    /\ UNCHANGED cb
=============================================================================
