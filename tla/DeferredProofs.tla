--------------------------- MODULE DeferredProofs ---------------------------
(***************************************************************************)
(* jQuery's deferreds are promises: whatever the functions of a page do to *)
(* the lists that call them, no loop of a list runs inside another of the  *)
(* same list, a deferred is settled once, and a function that waits for an *)
(* outcome is called at most once, after that outcome, in the order of the *)
(* additions; and the functions given to ready() run when they should.     *)
(***************************************************************************)
EXTENDS Ready, FiniteSetTheorems, SequenceTheorems, TLAPS

Outcomes == Deferreds \X {"done", "fail"}

\* The operations there are, from outside a list and by its own functions.
Operations ==
    [do : {"add"}, list : Lists, fn : Given] \cup [do : {"fire", "lock", "disable"}, list : Lists, fn : {Nothing}]

\* What an operation makes of its list.
Result(op, c) == IF Starts(op, c) THEN Fire(Applied(op, c)) ELSE Applied(op, c)

ListsAfter(op, lists) == [lists EXCEPT ![op.list] = Result(op, lists[op.list])]

StackAfter(op, lists, st) == IF Starts(op, lists[op.list]) THEN Append(st, Frame(op.list)) ELSE st

LEMMA PerformResult ==
    ASSUME NEW op, NEW lists, NEW st, Perform(op, lists, st)
    PROVE  cb' = ListsAfter(op, lists) /\ stack' = StackAfter(op, lists, st)
BY DEF Perform, Result, ListsAfter, StackAfter

\* What fire() starts with, of a list it was queued for.
LEMMA Fires ==
    ASSUME NEW c \in ListRecords, NEW q, q = [c EXCEPT !.queue = @ + 1], NEW r, r = Fire(q)
    PROVE  /\ r \in ListRecords
           /\ r.opts = c.opts /\ r.list = c.list /\ r.spent = c.spent /\ r.queue = c.queue /\ r.index = c.index
           /\ r.firing /\ r.memory /\ (r.locked <=> "once" \in c.opts)
<1>1. /\ q \in ListRecords
      /\ q.opts = c.opts /\ q.list = c.list /\ q.spent = c.spent /\ q.queue = c.queue + 1 /\ q.index = c.index
  BY DEF ListRecords
<1>2. q.queue - 1 \in Nat /\ q.queue - 1 = c.queue
  BY <1>1 DEF ListRecords
<1>3. /\ r.opts = q.opts /\ r.list = q.list /\ r.spent = q.spent /\ r.queue = q.queue - 1 /\ r.index = q.index
      /\ r.firing /\ r.memory /\ r.locked = ("once" \in q.opts)
  BY <1>1 DEF Fire, ListRecords
<1>4. r \in ListRecords
  <2>1. r = [q EXCEPT !.locked = "once" \in q.opts, !.firing = TRUE, !.memory = TRUE, !.queue = q.queue - 1]
    BY DEF Fire
  <2>2. ("once" \in q.opts) \in BOOLEAN
    OBVIOUS
  <2> QED
    BY <1>1, <1>2, <2>1, <2>2 DEF ListRecords
<1> QED
  BY <1>1, <1>2, <1>3, <1>4

\* What the operations leave of a list: its options, and a loop that runs.  Only an
\* addition and disable() and lock() touch the functions.
LEMMA ResultFire ==
    ASSUME NEW op \in Operations, op.do = "fire", NEW c \in ListRecords,
           NEW r, r = Result(op, c)
    PROVE  /\ r \in ListRecords
           /\ Starts(op, c) <=> ~c.locked /\ ~c.firing
           /\ r.opts = c.opts /\ r.spent = c.spent /\ r.list = c.list /\ r.index = c.index
           /\ r.firing <=> c.firing \/ Starts(op, c)
           /\ c.locked => r = c
           /\ Starts(op, c) => r.memory /\ (r.locked <=> "once" \in c.opts) /\ r.queue = c.queue
<1>1. Starts(op, c) <=> ~c.locked /\ ~c.firing
  BY DEF Starts
<1>2. Applied(op, c) = FireWith(c)
  BY DEF Applied, Operations
<1>3. CASE Starts(op, c)
  <2>1. r = Fire([c EXCEPT !.queue = @ + 1])
    BY <1>1, <1>2, <1>3 DEF Result, FireWith
  <2> QED
    BY <1>1, <1>3, <2>1, Fires
<1>4. CASE ~Starts(op, c)
  <2>1. r = IF c.locked THEN c ELSE [c EXCEPT !.queue = @ + 1]
    BY <1>2, <1>4 DEF Result, FireWith
  <2> QED
    BY <1>1, <1>4, <2>1 DEF ListRecords
<1> QED
  BY <1>3, <1>4

\* The list after an addition, before it is fired again.
Appended(c, f, n) == [c EXCEPT !.list = Append(@, f), !.index = n]

Longer(s, t, f) ==
    Len(t) = Len(s) + 1 /\ t[Len(s) + 1] = f /\ \A i \in 1 .. Len(s) : t[i] = s[i]

LEMMA AppendedTo ==
    ASSUME NEW c \in ListRecords, NEW f \in Given, NEW n \in Nat, NEW b, b = Appended(c, f, n)
    PROVE  /\ b \in ListRecords
           /\ b.opts = c.opts /\ b.spent = c.spent /\ b.memory = c.memory /\ b.locked = c.locked
           /\ b.firing = c.firing /\ b.queue = c.queue
           /\ Longer(c.list, b.list, f) /\ b.index = n
<1>1. PICK s \in Seq(Given \cup Own) : s = Append(c.list, f)
  <2>1. c.list \in Seq(Given \cup Own) /\ f \in Given \cup Own
    BY DEF ListRecords
  <2> QED
    BY <2>1, AppendProperties
<1>2. b = [c EXCEPT !.list = s, !.index = n]
  BY <1>1 DEF Appended
<1>3. b \in ListRecords /\ b.list = s
  BY <1>2 DEF ListRecords
<1>4. Longer(c.list, s, f)
  <2>1. c.list \in Seq(Given \cup Own) /\ f \in Given \cup Own
    BY DEF ListRecords
  <2> QED
    BY <1>1, <2>1, AppendProperties DEF Longer
<1> QED
  BY <1>2, <1>3, <1>4 DEF ListRecords

LEMMA Locked ==
    ASSUME NEW c \in ListRecords
    PROVE  [c EXCEPT !.locked = TRUE, !.queue = 0] \in ListRecords
BY DEF ListRecords

LEMMA Emptied ==
    ASSUME NEW c \in ListRecords
    PROVE  Disable(c) \in ListRecords
<1>1. <<>> \in Seq(Given \cup Own)
  OBVIOUS
<1> QED
  BY <1>1 DEF Disable, ListRecords

LEMMA ResultAdd ==
    ASSUME NEW op \in Operations, op.do = "add", NEW c \in ListRecords, c.spent => ~c.memory,
           NEW r, r = Result(op, c)
    PROVE  /\ r \in ListRecords
           /\ Starts(op, c) <=> c.memory /\ ~c.firing
           /\ r.opts = c.opts /\ r.spent = c.spent
           /\ r.firing <=> c.firing \/ Starts(op, c)
           /\ ~Starts(op, c) => r.memory = c.memory /\ r.locked = c.locked /\ r.queue = c.queue /\ r.index = c.index
           /\ Starts(op, c) => r.memory /\ (r.locked <=> "once" \in c.opts) /\ r.queue = c.queue /\ r.index = Len(c.list)
           /\ c.spent => r = c
           /\ ~c.spent => Longer(c.list, r.list, op.fn)
<1>1. Starts(op, c) <=> c.memory /\ ~c.firing
  BY DEF Starts, AddFires
<1>2. Applied(op, c) = Add(c, op.fn) /\ op.fn \in Given
  BY DEF Applied, Operations
<1>3. CASE c.spent
  BY <1>1, <1>2, <1>3 DEF Result, Add
<1>4. Len(c.list) \in Nat /\ c.index \in Nat /\ c.queue + 0 = c.queue
  BY DEF ListRecords
<1>5. CASE ~c.spent /\ Starts(op, c)
  <2>1. PICK b : b = Appended(c, op.fn, Len(c.list))
    OBVIOUS
  <2>2. r = Fire([b EXCEPT !.queue = @ + 1])
    <3>1. Add(c, op.fn) = [c EXCEPT !.list = Append(@, op.fn), !.index = Len(c.list), !.queue = @ + 1]
      BY <1>1, <1>5 DEF Add, AddFires
    <3>2. r = Fire([c EXCEPT !.list = Append(@, op.fn), !.index = Len(c.list), !.queue = @ + 1])
      BY <1>2, <1>5, <3>1 DEF Result
    <3> QED
      BY <2>1, <3>2 DEF Appended
  <2>3. /\ b \in ListRecords /\ b.opts = c.opts /\ b.spent = c.spent /\ b.queue = c.queue
        /\ Longer(c.list, b.list, op.fn) /\ b.index = Len(c.list)
    BY <1>2, <1>4, <2>1, AppendedTo
  <2>4. /\ r \in ListRecords
        /\ r.opts = b.opts /\ r.list = b.list /\ r.spent = b.spent /\ r.queue = b.queue /\ r.index = b.index
        /\ r.firing /\ r.memory /\ (r.locked <=> "once" \in b.opts)
    BY <2>2, <2>3, Fires
  <2>5. r.firing <=> c.firing \/ Starts(op, c)
    BY <1>5, <2>4
  <2> QED
    BY <1>1, <1>5, <2>3, <2>4, <2>5
<1>6. CASE ~c.spent /\ ~Starts(op, c)
  <2>1. r = [c EXCEPT !.list = Append(@, op.fn), !.index = c.index, !.queue = c.queue]
    BY <1>1, <1>2, <1>6 DEF Result, Add, AddFires
  <2>2. r = Appended(c, op.fn, c.index)
    BY <2>1 DEF ListRecords, Appended
  <2>3. /\ r \in ListRecords /\ r.opts = c.opts /\ r.spent = c.spent /\ r.queue = c.queue
        /\ r.memory = c.memory /\ r.locked = c.locked /\ r.firing = c.firing
        /\ Longer(c.list, r.list, op.fn) /\ r.index = c.index
    BY <1>2, <1>4, <2>2, AppendedTo
  <2> QED
    BY <1>1, <1>6, <2>3
<1>7. QED
  BY <1>3, <1>5, <1>6

LEMMA ResultLock ==
    ASSUME NEW op \in Operations, op.do \in {"lock", "disable"}, NEW c \in ListRecords,
           NEW r, r = Result(op, c)
    PROVE  /\ r \in ListRecords
           /\ ~Starts(op, c)
           /\ (r.firing <=> c.firing) /\ r.index = c.index
           /\ r.opts = c.opts
           /\ \/ op.do = "lock" /\ c.memory /\ r.list = c.list /\ r.memory /\ r.spent = c.spent
              \/ (op.do = "disable" \/ ~c.memory) /\ r.spent /\ ~r.memory /\ r.locked /\ r.queue = 0 /\ r.list = <<>>
           /\ op.do = "disable" => r.spent
<1>1. ~Starts(op, c)
  BY DEF Starts
<1>2. Applied(op, c) = IF op.do = "lock" THEN Lock(c) ELSE Disable(c)
  BY DEF Applied
<1>3. r = (IF op.do = "lock" THEN IF c.memory THEN [c EXCEPT !.locked = TRUE, !.queue = 0] ELSE Disable(c)
           ELSE Disable(c))
  BY <1>1, <1>2 DEF Result, Lock
<1>4. CASE r = [c EXCEPT !.locked = TRUE, !.queue = 0] /\ op.do # "disable" /\ c.memory
  <2>1. r \in ListRecords
    BY <1>4, Locked
  <2>2. r.firing = c.firing /\ r.index = c.index /\ r.list = c.list /\ r.opts = c.opts /\ r.memory /\ r.spent = c.spent
    BY <1>4 DEF ListRecords
  <2> QED
    BY <1>1, <1>4, <2>1, <2>2
<1>5. CASE r = Disable(c) /\ (op.do = "disable" \/ ~c.memory)
  <2>1. r \in ListRecords
    BY <1>5, Emptied
  <2>2. /\ r.firing = c.firing /\ r.index = c.index /\ r.list = <<>> /\ r.opts = c.opts
        /\ r.spent /\ ~r.memory /\ r.locked /\ r.queue = 0
    BY <1>5 DEF Disable, ListRecords
  <2> QED
    BY <1>1, <1>5, <2>1, <2>2
<1> QED
  BY <1>3, <1>4, <1>5
-----------------------------------------------------------------------------
(***************************************************************************)
(* The life of an outcome's list.                                          *)
(***************************************************************************)

\* Additions do not end any stage of it.
LEMMA LifeAdd ==
    ASSUME NEW l \in Outcomes, NEW c \in ListRecords, NEW op \in Operations, op.do = "add",
           NEW r, r = Result(op, c)
    PROVE  /\ Untouched(c, l) => Untouched(r, l) /\ ~Starts(op, c)
           /\ Disabled(c) => r = c /\ ~Starts(op, c)
           /\ Fired(c, l, {}) => Fired(r, l, {})
<1>1. op.fn \in Given
  BY DEF Operations
<1>2. /\ c.list \in Seq(Given \cup Own) /\ c.index \in Nat /\ c.queue \in Nat
      /\ Len(c.list) \in Nat
  BY DEF ListRecords
<1>3. CASE Untouched(c, l)
  <2>1. ~c.spent /\ ~c.memory
    BY <1>3 DEF Untouched
  <2>2. /\ ~Starts(op, c) /\ r.opts = c.opts /\ ~r.spent /\ ~r.memory /\ r.locked = c.locked
        /\ r.firing <=> c.firing
        /\ r.queue = c.queue /\ r.index = c.index /\ Longer(c.list, r.list, op.fn)
    BY <2>1, ResultAdd
  <2>3. Len(r.list) >= 3
    BY <1>2, <1>3, <2>2 DEF Longer, Untouched
  <2>4. ASSUME NEW i \in 1 .. Len(r.list)
        PROVE  IF i <= 3 THEN r.list[i] = Settling(l[1], l[2])[i] ELSE r.list[i] \in Given
    <3>1. CASE i \in 1 .. Len(c.list)
      BY <1>3, <2>2, <3>1 DEF Longer, Untouched
    <3>2. CASE i = Len(c.list) + 1
      BY <1>1, <1>2, <1>3, <2>2, <3>2 DEF Longer, Untouched
    <3> QED
      BY <1>2, <2>2, <3>1, <3>2 DEF Longer
  <2>5. ~Disabled(c) /\ ~Fired(c, l, {})
    BY <2>1 DEF Disabled, Fired
  <2> QED
    BY <1>3, <2>2, <2>3, <2>4, <2>5 DEF Untouched
<1>4. CASE Disabled(c)
  <2>1. c.spent /\ ~c.memory
    BY <1>4 DEF Disabled
  <2>2. r = c /\ ~Starts(op, c)
    BY <2>1, ResultAdd
  <2> QED
    BY <2>1, <2>2 DEF Untouched, Fired
<1>5. CASE Fired(c, l, {})
  <2>1. ~c.spent /\ c.memory /\ c.locked /\ c.queue = 0 /\ c.opts = {"once", "memory"}
    BY <1>5 DEF Fired
  <2>2. /\ r.opts = c.opts /\ ~r.spent /\ r.memory /\ r.locked /\ r.queue = 0
        /\ Longer(c.list, r.list, op.fn)
        /\ r.index = IF Starts(op, c) THEN Len(c.list) ELSE c.index
    <3>1. "once" \in c.opts
      BY <2>1
    <3> QED
      BY <2>1, <3>1, ResultAdd
  <2>3. ASSUME NEW i \in 1 .. Len(r.list), i > r.index
        PROVE  r.list[i] \in Given \/ r.list[i] = Settling(l[1], l[2])[3]
    <3>1. CASE i \in 1 .. Len(c.list)
      <4>1. i > c.index
        BY <1>2, <2>2, <2>3, <3>1
      <4> QED
        BY <1>5, <2>2, <3>1, <4>1 DEF Longer, Fired
    <3>2. CASE i = Len(c.list) + 1
      BY <1>1, <1>2, <2>2, <3>2 DEF Longer
    <3> QED
      BY <1>2, <2>2, <3>1, <3>2 DEF Longer
  <2>4. ~Disabled(c) /\ ~Untouched(c, l)
    BY <2>1 DEF Disabled, Untouched
  <2> QED
    BY <2>1, <2>2, <2>3, <2>4 DEF Fired
<1> QED
  BY <1>3, <1>4, <1>5

\* A list is fired once.
LEMMA LifeFire ==
    ASSUME NEW l \in Outcomes, NEW c \in ListRecords, NEW op \in Operations, op.do = "fire",
           NEW r, r = Result(op, c)
    PROVE  /\ Untouched(c, l) =>
                /\ Starts(op, c) /\ r.firing /\ r.index = 0 /\ Len(r.list) >= 3
                /\ Fired(r, l, {1, 2})
           /\ Disabled(c) \/ Fired(c, l, {}) => r = c /\ ~Starts(op, c)
<1>1. ASSUME Untouched(c, l)
      PROVE  /\ Starts(op, c) /\ r.firing /\ r.index = 0 /\ Len(r.list) >= 3
             /\ Fired(r, l, {1, 2})
  <2>1. /\ ~c.spent /\ ~c.locked /\ ~c.firing /\ c.queue = 0 /\ c.index = 0 /\ c.opts = {"once", "memory"}
        /\ Len(c.list) >= 3
    BY <1>1 DEF Untouched
  <2>2. /\ Starts(op, c) /\ r.firing /\ r.index = 0 /\ r.list = c.list /\ r.opts = c.opts
        /\ ~r.spent /\ r.memory /\ r.locked /\ r.queue = 0
    <3>1. "once" \in c.opts
      BY <2>1
    <3> QED
      BY <2>1, <3>1, ResultFire
  <2>3. ASSUME NEW i \in 1 .. Len(c.list)
        PROVE  IF i \in {1, 2} THEN c.list[i] = Settling(l[1], l[2])[i]
               ELSE c.list[i] \in Given \/ c.list[i] = Settling(l[1], l[2])[3]
    <3>1. CASE i <= 3
      <4>1. i = 1 \/ i = 2 \/ i = 3
        BY <3>1
      <4> QED
        BY <1>1, <3>1, <4>1 DEF Untouched
    <3>2. CASE ~(i <= 3)
      BY <1>1, <3>2 DEF Untouched
    <3> QED
      BY <3>1, <3>2
  <2> QED
    BY <2>1, <2>2, <2>3 DEF Fired
<1>2. ASSUME Disabled(c) \/ Fired(c, l, {})
      PROVE  r = c /\ ~Starts(op, c)
  <2>1. c.locked
    BY <1>2 DEF Disabled, Fired
  <2> QED
    BY <2>1, ResultFire
<1> QED
  BY <1>1, <1>2

\* Disabling a list that was not touched ends it.
LEMMA LifeDisable ==
    ASSUME NEW l \in Outcomes, NEW c \in ListRecords, NEW op \in Operations, op.do = "disable",
           NEW r, r = Result(op, c), Untouched(c, l)
    PROVE  Disabled(r) /\ ~Starts(op, c)
<1>1. ~c.firing
  BY DEF Untouched
<1>2. ~Starts(op, c) /\ (r.firing <=> c.firing) /\ r.spent /\ ~r.memory /\ r.locked /\ r.queue = 0 /\ r.list = <<>>
  BY ResultLock
<1> QED
  BY <1>1, <1>2 DEF Disabled

\* The list of the notifications, under every operation.
LEMMA LifeNotifies ==
    ASSUME NEW c \in ListRecords, Notifies(c), NEW op \in Operations, op.do # "disable",
           NEW r, r = Result(op, c)
    PROVE  Notifies(r)
<1>1. /\ c.opts = {"memory"} /\ (c.firing => c.memory) /\ (c.spent => c.locked /\ ~c.memory)
      /\ \A i \in 1 .. Len(c.list) : c.list[i] \in Given
  BY DEF Notifies
<1>2. CASE op.do = "add"
  <2>1. CASE c.spent
    BY <1>1, <1>2, <2>1, ResultAdd
  <2>2. CASE ~c.spent
    <3>1. /\ Longer(c.list, r.list, op.fn) /\ r.opts = c.opts /\ ~r.spent
          /\ Starts(op, c) <=> c.memory /\ ~c.firing
          /\ r.firing <=> c.firing \/ Starts(op, c)
          /\ ~Starts(op, c) => r.memory = c.memory
          /\ Starts(op, c) => r.memory
      BY <1>2, <2>2, ResultAdd
    <3>2. op.fn \in Given /\ Len(c.list) \in Nat
      BY <1>2 DEF Operations, ListRecords
    <3>3. ASSUME NEW i \in 1 .. Len(r.list)
          PROVE  r.list[i] \in Given
      <4>1. i \in 1 .. Len(c.list) \/ i = Len(c.list) + 1
        BY <3>1, <3>2 DEF Longer
      <4> QED
        BY <1>1, <3>1, <3>2, <4>1 DEF Longer
    <3>4. r.firing => r.memory
      BY <1>1, <3>1
    <3> QED
      BY <1>1, <3>1, <3>3, <3>4 DEF Notifies
  <2> QED
    BY <2>1, <2>2
<1>3. CASE op.do = "fire"
  <2>1. CASE c.locked
    BY <1>3, <2>1, ResultFire
  <2>2. CASE ~c.locked
    <3>1. /\ r.opts = c.opts /\ r.spent = c.spent /\ r.list = c.list
          /\ Starts(op, c) <=> ~c.firing
          /\ r.firing <=> c.firing \/ Starts(op, c)
          /\ Starts(op, c) => r.memory
      BY <1>3, <2>2, ResultFire
    <3>2. r.memory = c.memory \/ Starts(op, c)
      BY <1>3 DEF Result, Applied, FireWith, ListRecords
    <3> QED
      BY <1>1, <2>2, <3>1, <3>2 DEF Notifies
  <2> QED
    BY <2>1, <2>2
<1>4. CASE op.do = "lock"
  <2>1. /\ r.opts = c.opts /\ (r.firing <=> c.firing)
        /\ \/ c.memory /\ r.list = c.list /\ r.memory /\ r.spent = c.spent
           \/ ~c.memory /\ r.spent /\ ~r.memory /\ r.locked /\ r.list = <<>>
    BY <1>4, ResultLock
  <2>2. c.memory \/ ~c.firing
    BY <1>1
  <2>3. CASE c.memory /\ r.list = c.list /\ r.memory /\ r.spent = c.spent
    BY <1>1, <2>1, <2>3 DEF Notifies
  <2>4. CASE ~c.memory /\ r.spent /\ ~r.memory /\ r.locked /\ r.list = <<>>
    <3>1. \A i \in 1 .. Len(r.list) : r.list[i] \in Given
      BY <2>4
    <3> QED
      BY <1>1, <2>1, <2>2, <2>4, <3>1 DEF Notifies
  <2> QED
    BY <2>1, <2>3, <2>4
<1> QED
  BY <1>2, <1>3, <1>4 DEF Operations
-----------------------------------------------------------------------------
(***************************************************************************)
(* The call stack: PromiseInv's parts, of any lists and any stack.         *)
(***************************************************************************)

Stacked(st) ==
    /\ st \in Seq(Frames) /\ st # <<>> /\ st[1].list = Nothing
    /\ \A i \in 2 .. Len(st) : st[i].list # Nothing

Loops(lists, st, gone) ==
    /\ \A i, j \in 2 .. Len(st) : st[i].list = st[j].list => i = j
    /\ \A i \in 2 .. Len(st) : lists[st[i].list].firing
    /\ ~gone => \A l \in Lists : lists[l].firing => \E i \in 2 .. Len(st) : st[i].list = l

Shape(lists, st, gone) ==
    /\ lists \in [Lists -> ListRecords] /\ Stacked(st) /\ Loops(lists, st, gone)
    /\ \A d \in Deferreds : Notifies(lists[<<d, "progress">>])

\* No list is about to settle its deferred, ...
Sound(lists, st) == Shape(lists, st, thrown) /\ \A d \in Deferreds : Calm(lists, d)

\* ... or one has just been fired.
Opened(lists, st, d, kind) ==
    LET l == <<d, kind>>
        c == lists[l]
    IN  /\ Last(st) = Frame(l) /\ c.firing /\ Len(c.list) >= 3 /\ c.index = 0
        /\ Fired(c, l, {1, 2}) /\ Untouched(lists[<<d, Other(kind)>>], <<d, Other(kind)>>)
        /\ state[d] = "pending"

Known(lists) == \A l \in Outcomes : CalledOnce(lists[l], ToSet(called[l]), ToSet(registered[l]))

LEMMA OneLoop == OneLoopPerList <=> Loops(cb, stack, thrown)
BY DEF OneLoopPerList, Loops, OnStack

LEMMA Names ==
    /\ Outcomes \subseteq Lists
    /\ \A l \in Lists : /\ l[1] \in Deferreds /\ l = <<l[1], l[2]>>
                        /\ l[2] = "progress" \/ (l \in Outcomes /\ l[2] \in {"done", "fail"})
    /\ \A d \in Deferreds : <<d, "progress">> \in Lists \ Outcomes
    /\ \A d \in Deferreds, kind \in {"done", "fail"} :
         /\ <<d, kind>> \in Outcomes /\ <<d, Other(kind)>> \in Outcomes
         /\ Other(kind) # kind /\ Other(kind) \in {"done", "fail"} /\ Other(Other(kind)) = kind
         /\ StateOf(kind) # "pending" /\ StateOf(Other(kind)) # StateOf(kind)
    /\ Nothing \notin Lists
BY DeferredAssumption DEF Outcomes, Lists, Other, StateOf

LEMMA Pushed ==
    ASSUME NEW st, Stacked(st), NEW l \in Lists, NEW s, s = Append(st, Frame(l))
    PROVE  Stacked(s) /\ Longer(st, s, Frame(l)) /\ Last(s) = Frame(l)
<1>1. Frame(l) \in Frames /\ Frame(l).list = l
  <2>1. <<>> \in Seq(Rest)
    OBVIOUS
  <2> QED
    BY <2>1 DEF Frame, Frames
<1>2. st \in Seq(Frames) /\ st # <<>> /\ Len(st) \in Nat \ {0}
  BY EmptySeq DEF Stacked
<1>3. s \in Seq(Frames) /\ Longer(st, s, Frame(l))
  BY <1>1, <1>2, AppendProperties DEF Longer
<1>4. s # <<>> /\ s[1] = st[1] /\ Last(s) = Frame(l)
  BY <1>2, <1>3 DEF Longer, Last
<1>5. ASSUME NEW i \in 2 .. Len(s)
      PROVE  s[i].list # Nothing
  <2>1. CASE i \in 2 .. Len(st)
    BY <1>2, <1>3, <2>1 DEF Longer, Stacked
  <2>2. CASE i = Len(st) + 1
    BY <1>1, <1>3, <2>2, Names DEF Longer
  <2> QED
    BY <1>2, <1>3, <2>1, <2>2 DEF Longer
<1> QED
  BY <1>3, <1>4, <1>5 DEF Stacked

LEMMA ResultAny ==
    ASSUME NEW op \in Operations, NEW c \in ListRecords, c.spent => ~c.memory, NEW r, r = Result(op, c)
    PROVE  /\ r \in ListRecords
           /\ Starts(op, c) => ~c.firing
           /\ r.firing <=> c.firing \/ Starts(op, c)
<1>1. CASE op.do = "add"
  BY <1>1, ResultAdd
<1>2. CASE op.do = "fire"
  BY <1>2, ResultFire
<1>3. CASE op.do \in {"lock", "disable"}
  BY <1>3, ResultLock
<1> QED
  BY <1>1, <1>2, <1>3 DEF Operations

\* An operation starts a loop only of a list that has none.
LEMMA PerformLoops ==
    ASSUME NEW lists \in [Lists -> ListRecords], NEW st, Stacked(st), NEW gone, Loops(lists, st, gone),
           NEW op \in Operations, lists[op.list].spent => ~lists[op.list].memory,
           NEW after, after = ListsAfter(op, lists), NEW s, s = StackAfter(op, lists, st)
    PROVE  after \in [Lists -> ListRecords] /\ Stacked(s) /\ Loops(after, s, gone)
<1> DEFINE k == op.list
           c == lists[k]
           r == Result(op, c)
<1>1. k \in Lists /\ c \in ListRecords
  BY DEF Operations
<1>2. r \in ListRecords /\ (Starts(op, c) => ~c.firing) /\ (r.firing <=> c.firing \/ Starts(op, c))
  BY <1>1, ResultAny
<1>3. after \in [Lists -> ListRecords] /\ \A l \in Lists : after[l] = IF l = k THEN r ELSE lists[l]
  BY <1>1, <1>2 DEF ListsAfter
<1>4. \A l \in Lists : after[l].firing <=> lists[l].firing \/ (l = k /\ Starts(op, c))
  BY <1>2, <1>3
<1>5. \A i \in 2 .. Len(st) : st[i].list \in Lists /\ i \in 1 .. Len(st)
  <2>1. st \in Seq(Frames) /\ Len(st) \in Nat
    BY DEF Stacked
  <2>2. \A i \in 1 .. Len(st) : st[i].list \in Lists \cup {Nothing}
    <3>1. \A i \in 1 .. Len(st) : st[i] \in Frames
      BY <2>1, ElementOfSeq
    <3> QED
      BY <3>1 DEF Frames
  <2> QED
    BY <2>1, <2>2 DEF Stacked
<1>6. CASE Starts(op, c)
  <2>1. Stacked(s) /\ Longer(st, s, Frame(k)) /\ Frame(k).list = k
    BY <1>1, <1>6, Pushed DEF Frame, StackAfter
  <2>2. \A i \in 2 .. Len(st) : st[i].list # k
    BY <1>2, <1>5, <1>6 DEF Loops
  <2>3. Len(st) \in Nat \ {0} /\ Len(s) = Len(st) + 1
    BY <2>1, EmptySeq DEF Stacked, Longer
  <2>4. /\ \A i \in 2 .. Len(st) : s[i].list = st[i].list
        /\ s[Len(s)].list = k
        /\ \A i \in 2 .. Len(s) : i \in 2 .. Len(st) \/ i = Len(s)
        /\ \A i \in 2 .. Len(st) : i \in 2 .. Len(s)
        /\ Len(s) \in 2 .. Len(s)
    BY <2>1, <2>3 DEF Longer
  <2>5. \A i, j \in 2 .. Len(s) : s[i].list = s[j].list => i = j
    BY <2>2, <2>4 DEF Loops
  <2>6. \A i \in 2 .. Len(s) : after[s[i].list].firing
    BY <1>1, <1>4, <1>5, <1>6, <2>4 DEF Loops
  <2>7. ~gone => \A l \in Lists : after[l].firing => \E i \in 2 .. Len(s) : s[i].list = l
    BY <1>4, <2>4 DEF Loops
  <2> QED
    BY <1>3, <2>1, <2>5, <2>6, <2>7 DEF Loops
<1>7. CASE ~Starts(op, c)
  BY <1>3, <1>4, <1>5, <1>7 DEF Loops, StackAfter
<1> QED
  BY <1>6, <1>7

LEMMA SpentForgets ==
    ASSUME NEW lists, NEW st, Sound(lists, st), NEW l \in Lists
    PROVE  lists[l].spent => ~lists[l].memory
<1>1. CASE l[2] = "progress"
  BY <1>1, Names DEF Sound, Shape, Notifies
<1>2. CASE l \in Outcomes
  <2>1. PICK d \in Deferreds, kind \in {"done", "fail"} : l = <<d, kind>>
    BY <1>2 DEF Outcomes
  <2>2. Untouched(lists[l], l) \/ Disabled(lists[l]) \/ Fired(lists[l], l, {})
    <3>1. Calm(lists, d)
      BY DEF Sound
    <3>2. \A k \in {"done", "fail"} : k = kind \/ Other(k) = kind
      BY DEF Other
    <3> QED
      BY <2>1, <3>1, <3>2 DEF Calm
  <2> QED
    BY <2>2 DEF Untouched, Disabled, Fired
<1> QED
  BY <1>1, <1>2, Names

\* What is given to a list, or done with it, lets all deferreds be, except that the
\* first fire() of an outcome's list opens it.
LEMMA PerformKeeps ==
    ASSUME NEW lists, NEW st, Sound(lists, st),
           NEW op \in Operations, op.do # "disable", op.do = "lock" => op.list[2] = "progress",
           NEW after, after = ListsAfter(op, lists), NEW s, s = StackAfter(op, lists, st)
    PROVE  /\ Shape(after, s, thrown)
           /\ \A d \in Deferreds : Calm(after, d) \/ \E kind \in {"done", "fail"} : Opened(after, s, d, kind)
<1> DEFINE k == op.list
           c == lists[k]
           r == Result(op, c)
<1>1. k \in Lists /\ c \in ListRecords /\ (c.spent => ~c.memory)
  BY SpentForgets DEF Operations, Sound, Shape
<1>2. lists \in [Lists -> ListRecords] /\ Stacked(st) /\ Loops(lists, st, thrown)
  BY DEF Sound, Shape
<1>3. after \in [Lists -> ListRecords] /\ Stacked(s) /\ Loops(after, s, thrown)
  BY <1>1, <1>2, PerformLoops
<1>4. \A l \in Lists : after[l] = IF l = k THEN r ELSE lists[l]
  BY <1>1, <1>2 DEF ListsAfter
<1>5. ASSUME NEW d \in Deferreds
      PROVE  Notifies(after[<<d, "progress">>])
  <2>1. Notifies(lists[<<d, "progress">>]) /\ <<d, "progress">> \in Lists
    BY Names DEF Sound, Shape
  <2>2. CASE <<d, "progress">> = k
    BY <1>1, <1>4, <2>1, <2>2, LifeNotifies
  <2> QED
    BY <1>4, <2>1, <2>2
<1>6. ASSUME NEW d \in Deferreds
      PROVE  Calm(after, d) \/ \E kind \in {"done", "fail"} : Opened(after, s, d, kind)
  <2>1. Calm(lists, d)
    BY DEF Sound
  <2>2. CASE k \notin {<<d, "done">>, <<d, "fail">>}
    <3>1. \A kind \in {"done", "fail"} : /\ after[<<d, kind>>] = lists[<<d, kind>>]
                                         /\ after[<<d, Other(kind)>>] = lists[<<d, Other(kind)>>]
      BY <1>4, <2>2, Names DEF Other
    <3> QED
      BY <2>1, <3>1 DEF Calm
  <2>3. ASSUME NEW kind \in {"done", "fail"}, k = <<d, kind>>
        PROVE  Calm(after, d) \/ Opened(after, s, d, kind)
    <3>1. /\ k \in Outcomes /\ op.do \in {"add", "fire"}
          /\ after[<<d, kind>>] = r /\ after[<<d, Other(kind)>>] = lists[<<d, Other(kind)>>]
      <4>1. k \in Outcomes /\ k[2] # "progress" /\ <<d, Other(kind)>> \in Lists /\ <<d, Other(kind)>> # k
        <5>1. Other(kind) # kind /\ kind # "progress" /\ k[2] = kind
          BY <2>3 DEF Other
        <5>2. <<d, kind>> \in Outcomes /\ <<d, Other(kind)>> \in Outcomes /\ Outcomes \subseteq Lists
          BY Names
        <5> QED
          BY <2>3, <5>1, <5>2
      <4> QED
        BY <1>1, <1>4, <2>3, <4>1 DEF Operations
    <3>2. CASE op.do = "add"
      <4>1. /\ Untouched(c, k) => Untouched(r, k)
            /\ Disabled(c) => r = c
            /\ Fired(c, k, {}) => Fired(r, k, {})
        BY <1>1, <3>1, <3>2, LifeAdd
      <4>2. CASE state[d] = "pending" /\ \A x \in {"done", "fail"} : Untouched(lists[<<d, x>>], <<d, x>>)
        <5>1. \A x \in {"done", "fail"} : x = kind \/ x = Other(kind)
          BY DEF Other
        <5> QED
          BY <2>3, <3>1, <4>1, <4>2, <5>1 DEF Calm
      <4>3. ASSUME NEW x \in {"done", "fail"}, state[d] = StateOf(x),
                   Fired(lists[<<d, x>>], <<d, x>>, {}), Disabled(lists[<<d, Other(x)>>])
            PROVE  Calm(after, d)
        <5>1. x = kind \/ (x = Other(kind) /\ Other(x) = kind)
          BY DEF Other
        <5>2. Fired(after[<<d, x>>], <<d, x>>, {}) /\ Disabled(after[<<d, Other(x)>>])
          BY <2>3, <3>1, <4>1, <4>3, <5>1
        <5> QED
          BY <4>3, <5>2 DEF Calm
      <4> QED
        BY <2>1, <4>2, <4>3 DEF Calm
    <3>3. CASE op.do = "fire"
      <4>1. /\ Untouched(c, k) =>
                 Starts(op, c) /\ r.firing /\ r.index = 0 /\ Len(r.list) >= 3 /\ Fired(r, k, {1, 2})
            /\ Disabled(c) \/ Fired(c, k, {}) => r = c
        BY <1>1, <3>1, <3>3, LifeFire
      <4>2. CASE state[d] = "pending" /\ \A x \in {"done", "fail"} : Untouched(lists[<<d, x>>], <<d, x>>)
        <5>1. Untouched(c, k) /\ Untouched(lists[<<d, Other(kind)>>], <<d, Other(kind)>>)
          BY <2>3, <4>2, Names
        <5>2. Last(s) = Frame(k)
          BY <1>1, <1>2, <4>1, <5>1, Pushed DEF StackAfter
        <5> QED
          BY <2>3, <3>1, <4>1, <4>2, <5>1, <5>2 DEF Opened
      <4>3. ASSUME NEW x \in {"done", "fail"}, state[d] = StateOf(x),
                   Fired(lists[<<d, x>>], <<d, x>>, {}), Disabled(lists[<<d, Other(x)>>])
            PROVE  Calm(after, d)
        <5>1. x = kind \/ (x = Other(kind) /\ Other(x) = kind)
          BY DEF Other
        <5>2. Fired(after[<<d, x>>], <<d, x>>, {}) /\ Disabled(after[<<d, Other(x)>>])
          BY <2>3, <3>1, <4>1, <4>3, <5>1
        <5> QED
          BY <4>3, <5>2 DEF Calm
      <4> QED
        BY <2>1, <4>2, <4>3 DEF Calm
    <3> QED
      BY <3>1, <3>2, <3>3
  <2> QED
    BY <2>2, <2>3
<1> QED
  BY <1>3, <1>5, <1>6 DEF Shape
-----------------------------------------------------------------------------
(***************************************************************************)
(* Which of the page's functions a list still has to call.                 *)
(***************************************************************************)

LEMMA FewerCalls ==
    ASSUME NEW c, NEW done, NEW known, CalledOnce(c, done, known), NEW r, r.index \in Nat,
           \A i \in 1 .. Len(r.list) : i > r.index /\ r.list[i].kind = "user" =>
                i \in 1 .. Len(c.list) /\ i > c.index /\ c.list[i] = r.list[i]
    PROVE  CalledOnce(r, done, known)
<1>1. done \subseteq known
  BY DEF CalledOnce
<1>2. ASSUME NEW i \in 1 .. Len(r.list), i > r.index, r.list[i].kind = "user"
      PROVE  /\ r.list[i].arg \in known \ done
             /\ \A j \in 1 .. Len(r.list) : j > i /\ r.list[j].kind = "user" => r.list[j].arg # r.list[i].arg
  <2>1. i \in 1 .. Len(c.list) /\ i > c.index /\ c.list[i] = r.list[i]
    BY <1>2
  <2>2. r.list[i].arg \in known \ done
    BY <1>2, <2>1 DEF CalledOnce
  <2>3. ASSUME NEW j \in 1 .. Len(r.list), j > i, r.list[j].kind = "user", j > r.index
        PROVE  r.list[j].arg # r.list[i].arg
    <3>1. j \in 1 .. Len(c.list) /\ c.list[j] = r.list[j]
      BY <2>3
    <3> QED
      BY <1>2, <2>1, <2>3, <3>1 DEF CalledOnce
  <2>4. \A j \in 1 .. Len(r.list) : j > i => j > r.index
    BY <1>2
  <2> QED
    BY <2>2, <2>3, <2>4
<1> QED
  BY <1>1, <1>2 DEF CalledOnce

LEMMA PerformCalls ==
    ASSUME NEW lists \in [Lists -> ListRecords], Known(lists),
           NEW op \in Operations, op.do = "add" => op.fn.kind # "user",
           lists[op.list].spent => ~lists[op.list].memory,
           NEW after, after = ListsAfter(op, lists)
    PROVE  Known(after)
<1> SUFFICES ASSUME NEW l \in Outcomes
             PROVE  CalledOnce(after[l], ToSet(called[l]), ToSet(registered[l]))
  BY DEF Known
<1> DEFINE c == lists[op.list]
           r == Result(op, c)
<1>1. op.list \in Lists /\ c \in ListRecords /\ l \in Lists
  BY Names DEF Operations
<1>2. after[l] = IF l = op.list THEN r ELSE lists[l]
  BY <1>1 DEF ListsAfter
<1>3. CalledOnce(lists[l], ToSet(called[l]), ToSet(registered[l]))
  BY DEF Known
<1>4. CASE l = op.list
  <2>1. ASSUME NEW i \in 1 .. Len(r.list), i > r.index, r.list[i].kind = "user"
        PROVE  i \in 1 .. Len(c.list) /\ i > c.index /\ c.list[i] = r.list[i]
    <3>1. CASE op.do = "add" /\ ~c.spent
      <4>1. /\ Longer(c.list, r.list, op.fn)
            /\ r.index = IF Starts(op, c) THEN Len(c.list) ELSE c.index
        BY <1>1, <3>1, ResultAdd
      <4>2. Len(c.list) \in Nat /\ c.index \in Nat
        BY <1>1 DEF ListRecords
      <4>3. i # Len(c.list) + 1
        BY <2>1, <3>1, <4>1 DEF Longer
      <4>4. i \in 1 .. Len(c.list) /\ c.list[i] = r.list[i]
        BY <4>1, <4>2, <4>3 DEF Longer
      <4> QED
        BY <2>1, <4>1, <4>2, <4>4
    <3>2. CASE op.do = "add" /\ c.spent
      BY <1>1, <2>1, <3>2, ResultAdd
    <3>3. CASE op.do = "fire"
      BY <1>1, <2>1, <3>3, ResultFire
    <3>4. CASE op.do \in {"lock", "disable"}
      <4>1. r.index = c.index /\ (r.list = c.list \/ r.list = <<>>)
        BY <1>1, <3>4, ResultLock
      <4> QED
        BY <2>1, <4>1
    <3> QED
      BY <3>1, <3>2, <3>3, <3>4 DEF Operations
  <2>2. r.index \in Nat
    BY <1>1, ResultAny DEF ListRecords
  <2> HIDE DEF c, r
  <2>3. CalledOnce(c, ToSet(called[l]), ToSet(registered[l]))
    BY <1>3, <1>4 DEF c
  <2> QED
    BY <1>2, <1>4, <2>1, <2>2, <2>3, FewerCalls
<1> QED
  BY <1>2, <1>3, <1>4

\* A function is added, ...
LEMMA OneMoreToCall ==
    ASSUME NEW c \in ListRecords, NEW done, NEW known, CalledOnce(c, done, known),
           NEW f, f \notin known, NEW r, Longer(c.list, r.list, User(f)), r.index \in {c.index, Len(c.list)}
    PROVE  CalledOnce(r, done, known \cup {f})
<1>1. done \subseteq known \cup {f}
  BY DEF CalledOnce
<1>2. Len(c.list) \in Nat /\ c.index \in Nat
  BY DEF ListRecords
<1>3. User(f).kind = "user" /\ User(f).arg = f
  BY DEF User, Callback
<1>4. /\ \A i \in 1 .. Len(r.list) : i \in 1 .. Len(c.list) \/ i = Len(c.list) + 1
      /\ \A i \in 1 .. Len(c.list) : r.list[i] = c.list[i]
      /\ r.list[Len(c.list) + 1] = User(f)
  BY <1>2 DEF Longer
<1>5. ASSUME NEW i \in 1 .. Len(r.list), i > r.index, r.list[i].kind = "user"
      PROVE  /\ r.list[i].arg \in (known \cup {f}) \ done
             /\ \A j \in 1 .. Len(r.list) : j > i /\ r.list[j].kind = "user" => r.list[j].arg # r.list[i].arg
  <2>1. CASE i = Len(c.list) + 1
    <3>1. r.list[i].arg = f
      BY <1>3, <1>4, <2>1
    <3>2. \A j \in 1 .. Len(r.list) : ~(j > i)
      BY <1>2, <1>4, <2>1
    <3> QED
      BY <3>1, <3>2 DEF CalledOnce
  <2>2. CASE i \in 1 .. Len(c.list)
    <3>1. i > c.index /\ c.list[i].kind = "user" /\ r.list[i] = c.list[i]
      BY <1>2, <1>4, <1>5, <2>2
    <3>2. c.list[i].arg \in known \ done
      BY <2>2, <3>1 DEF CalledOnce
    <3>3. ASSUME NEW j \in 1 .. Len(r.list), j > i, r.list[j].kind = "user"
          PROVE  r.list[j].arg # r.list[i].arg
      <4>1. CASE j = Len(c.list) + 1
        BY <1>3, <1>4, <3>1, <3>2, <4>1
      <4>2. CASE j \in 1 .. Len(c.list)
        BY <1>4, <2>2, <3>1, <3>3, <4>2 DEF CalledOnce
      <4> QED
        BY <1>4, <4>1, <4>2
    <3> QED
      BY <3>1, <3>2, <3>3
  <2> QED
    BY <1>4, <2>1, <2>2
<1> QED
  BY <1>1, <1>5 DEF CalledOnce

\* ... and is called.
LEMMA OneLessToCall ==
    ASSUME NEW c \in ListRecords, NEW done, NEW known, CalledOnce(c, done, known), c.index < Len(c.list),
           NEW f, c.list[c.index + 1].kind = "user", f = c.list[c.index + 1].arg,
           NEW r, r.list = c.list, r.index = c.index + 1
    PROVE  CalledOnce(r, done \cup {f}, known) /\ f \in known \ done
<1>1. Len(c.list) \in Nat /\ c.index \in Nat /\ c.index + 1 \in 1 .. Len(c.list) /\ c.index + 1 > c.index
  BY DEF ListRecords
<1>2. /\ f \in known \ done
      /\ \A j \in 1 .. Len(c.list) : j > c.index + 1 /\ c.list[j].kind = "user" => c.list[j].arg # f
  BY <1>1 DEF CalledOnce
<1>3. \A i \in 1 .. Len(c.list) : i > c.index + 1 => i > c.index
  BY <1>1
<1> QED
  BY <1>2, <1>3 DEF CalledOnce
-----------------------------------------------------------------------------
(***************************************************************************)
(* The call stack between two calls.                                       *)
(***************************************************************************)

\* s has the same lists' loops as st, or fewer of them.
Within(s, st) ==
    /\ s \in Seq(Frames) /\ Len(s) \in 1 .. Len(st)
    /\ \A i \in 1 .. Len(s) : s[i].list = st[i].list

LEMMA ShapeWithin ==
    ASSUME NEW lists, NEW st, NEW gone, Shape(lists, st, gone), NEW s, Within(s, st),
           NEW then, then \/ (Len(s) = Len(st) /\ (then <=> gone))
    PROVE  Shape(lists, s, then)
<1>1. /\ Len(st) \in Nat \ {0} /\ Len(s) \in Nat \ {0}
      /\ \A i \in 2 .. Len(s) : i \in 1 .. Len(s) /\ i \in 2 .. Len(st)
      /\ 1 \in 1 .. Len(s)
  BY EmptySeq DEF Within, Shape, Stacked
<1>2. Stacked(s)
  BY <1>1, EmptySeq DEF Within, Shape, Stacked
<1>3. Loops(lists, s, then)
  <2>1. \A i, j \in 2 .. Len(s) : s[i].list = s[j].list => i = j
    BY <1>1 DEF Within, Shape, Loops
  <2>2. \A i \in 2 .. Len(s) : lists[s[i].list].firing
    BY <1>1 DEF Within, Shape, Loops
  <2>3. CASE then
    BY <2>1, <2>2, <2>3 DEF Loops
  <2>4. CASE Len(s) = Len(st) /\ (then <=> gone)
    BY <1>1, <2>1, <2>2, <2>4 DEF Within, Shape, Loops
  <2> QED
    BY <2>3, <2>4
<1> QED
  BY <1>2, <1>3 DEF Shape

LEMMA Tops ==
    ASSUME NEW st, Stacked(st)
    PROVE  /\ st \in Seq(Frames) /\ Len(st) \in Nat \ {0} /\ Len(st) \in 1 .. Len(st)
           /\ Last(st) = st[Len(st)] /\ Last(st) \in Frames
           /\ Front(st) \in Seq(Frames) /\ Len(Front(st)) = Len(st) - 1
           /\ \A i \in 1 .. Len(st) - 1 : Front(st)[i] = st[i]
<1>1. st \in Seq(Frames) /\ Len(st) \in Nat \ {0} /\ Len(st) \in 1 .. Len(st)
  BY EmptySeq DEF Stacked
<1>2. Last(st) = st[Len(st)] /\ Last(st) \in Frames
  BY <1>1, ElementOfSeq DEF Last
<1> QED
  <2>1. PICK n \in Nat : n = Len(st) - 1 /\ Front(st) = SubSeq(st, 1, n)
    BY <1>1 DEF Front
  <2>2. \A i \in 1 .. n : st[i] \in Frames
    BY <1>1, <2>1, ElementOfSeq
  <2>3. SubSeq(st, 1, n) \in Seq(Frames) /\ Len(SubSeq(st, 1, n)) = n
    BY <2>2, SubSeqProperties
  <2>4. \A i \in 1 .. n : SubSeq(st, 1, n)[i] = st[i]
    <3>1. \A i \in 1 .. n - 1 + 1 : SubSeq(st, 1, n)[i] = st[1 + i - 1]
      BY <2>2, SubSeqProperties
    <3> QED
      BY <3>1
  <2> QED
    BY <1>1, <1>2, <2>1, <2>3, <2>4

\* What the frame on top runs, and what it still has to do.
LEMMA FrameChanges ==
    ASSUME NEW f \in Frames
    PROVE  /\ \A ops \in Seq(Rest) : [f EXCEPT !.todo = ops] \in Frames /\ [f EXCEPT !.todo = ops].list = f.list
           /\ \A g \in Given : [f EXCEPT !.running = g] \in Frames /\ [f EXCEPT !.running = g].list = f.list
BY DEF Frames

LEMMA TopTodo ==
    ASSUME NEW st, Stacked(st), NEW ops \in Seq(Rest), NEW s, s = [st EXCEPT ![Len(st)].todo = ops]
    PROVE  Within(s, st) /\ Len(s) = Len(st)
<1>1. st \in Seq(Frames) /\ Len(st) \in 1 .. Len(st) /\ Len(st) \in Nat
  BY Tops
<1>2. [st[Len(st)] EXCEPT !.todo = ops] \in Frames /\ [st[Len(st)] EXCEPT !.todo = ops].list = st[Len(st)].list
  <2>1. st[Len(st)] \in Frames
    BY <1>1, ElementOfSeq
  <2> QED
    BY <2>1, FrameChanges
<1>3. s = [st EXCEPT ![Len(st)] = [st[Len(st)] EXCEPT !.todo = ops]]
  OBVIOUS
<1> QED
  BY <1>1, <1>2, <1>3, ExceptSeq DEF Within

LEMMA TopRuns ==
    ASSUME NEW st, Stacked(st), NEW f \in Given, NEW s, s = [st EXCEPT ![Len(st)].running = f]
    PROVE  Within(s, st) /\ Len(s) = Len(st)
<1>1. st \in Seq(Frames) /\ Len(st) \in 1 .. Len(st) /\ Len(st) \in Nat
  BY Tops
<1>2. [st[Len(st)] EXCEPT !.running = f] \in Frames /\ [st[Len(st)] EXCEPT !.running = f].list = st[Len(st)].list
  <2>1. st[Len(st)] \in Frames
    BY <1>1, ElementOfSeq
  <2> QED
    BY <2>1, FrameChanges
<1>3. s = [st EXCEPT ![Len(st)] = [st[Len(st)] EXCEPT !.running = f]]
  OBVIOUS
<1> QED
  BY <1>1, <1>2, <1>3, ExceptSeq DEF Within

LEMMA TopReturns ==
    ASSUME NEW st, Stacked(st), NEW f \in Frames, f.list = Last(st).list, NEW s, s = Append(Front(st), f)
    PROVE  Within(s, st) /\ Len(s) = Len(st)
<1>1. /\ st \in Seq(Frames) /\ Len(st) \in 1 .. Len(st) /\ Len(st) \in Nat
      /\ Last(st) = st[Len(st)]
      /\ Front(st) \in Seq(Frames) /\ Len(Front(st)) = Len(st) - 1
      /\ \A i \in 1 .. Len(st) - 1 : Front(st)[i] = st[i]
  BY Tops
<1>2. s \in Seq(Frames) /\ Longer(Front(st), s, f)
  BY <1>1, AppendProperties DEF Longer
<1>3. Len(s) = Len(st) /\ s[Len(st)] = f /\ \A i \in 1 .. Len(st) - 1 : s[i] = st[i]
  BY <1>1, <1>2 DEF Longer
<1>4. \A i \in 1 .. Len(st) : i = Len(st) \/ i \in 1 .. Len(st) - 1
  BY <1>1
<1> QED
  BY <1>1, <1>2, <1>3, <1>4 DEF Within

LEMMA TopThrows ==
    ASSUME NEW st, Stacked(st), NEW k \in 1 .. Len(st) - 1,
           NEW s, s = [SubSeq(st, 1, k) EXCEPT ![k].todo = <<>>]
    PROVE  Within(s, st)
<1>1. st \in Seq(Frames) /\ Len(st) \in Nat /\ k \in Nat \ {0} /\ k \in 1 .. Len(st)
  BY Tops
<1>2. PICK u : u = SubSeq(st, 1, k)
  OBVIOUS
<1>3. u \in Seq(Frames) /\ Len(u) = k /\ \A i \in 1 .. k : u[i] = st[i]
  <2>1. \A i \in 1 .. k : st[i] \in Frames
    BY <1>1, ElementOfSeq
  <2> QED
    BY <1>1, <1>2, <2>1, SubSeqProperties
<1>4. <<>> \in Seq(Rest)
  OBVIOUS
<1>5. [u[k] EXCEPT !.todo = <<>>] \in Frames /\ [u[k] EXCEPT !.todo = <<>>].list = u[k].list
  <2>1. k \in 1 .. Len(u)
    BY <1>1, <1>3
  <2>2. u[k] \in Frames
    BY <1>3, <2>1, ElementOfSeq
  <2> QED
    BY <1>4, <2>2, FrameChanges
<1>6. PICK g \in Frames : g = [u[k] EXCEPT !.todo = <<>>] /\ g.list = u[k].list
  BY <1>5
<1>7. s = [u EXCEPT ![k] = g]
  BY <1>2, <1>6
<1> QED
  <2>1. k \in 1 .. Len(u)
    BY <1>1, <1>3
  <2>2. /\ [u EXCEPT ![k] = g] \in Seq(Frames) /\ Len([u EXCEPT ![k] = g]) = Len(u)
        /\ \A i \in 1 .. Len(u) : [u EXCEPT ![k] = g][i] = IF i = k THEN g ELSE u[i]
    BY <1>3, <2>1, ExceptSeq
  <2>3. /\ s \in Seq(Frames) /\ Len(s) = k
        /\ \A i \in 1 .. k : s[i] = IF i = k THEN g ELSE u[i]
    BY <1>3, <1>7, <2>2
  <2> QED
    BY <1>1, <1>3, <1>6, <2>3 DEF Within
-----------------------------------------------------------------------------
(***************************************************************************)
(* Whose turn it is.                                                       *)
(***************************************************************************)

HistoryTypes ==
    /\ state \in [Deferreds -> {"pending", "resolved", "rejected"}] /\ Roots \subseteq made /\ made \subseteq Deferreds
    /\ registered \in [Lists -> Seq(Fns)] /\ called \in [Lists -> Seq(Fns)]

AllSettled == \A d \in Deferreds : Calm(cb, d) \/ \E kind \in {"done", "fail"} : Settles(d, kind)

LEMMA Parts == PromiseInv <=> HistoryTypes /\ Shape(cb, stack, thrown) /\ AllSettled /\ Known(cb)
BY OneLoop DEF PromiseInv, EngineTypes, HistoryTypes, Shape, Stacked, AllSettled, Known, Outcomes

\* While the page's code runs no list is about to settle its deferred, ...
LEMMA Quiet ==
    ASSUME PromiseInv, PageRuns \/ Top.todo # <<>> \/ Len(stack) = 1
    PROVE  Sound(cb, stack)
<1>1. Shape(cb, stack, thrown) /\ AllSettled
  BY Parts
<1>2. ASSUME NEW d \in Deferreds, NEW kind \in {"done", "fail"}, Settles(d, kind)
      PROVE  FALSE
  <2>1. Top.list # Nothing /\ Top.running = Nothing /\ Top.todo = <<>>
    BY <1>2 DEF Settles, Looping
  <2>2. Len(stack) # 1
    BY <1>1, <2>1, Tops DEF Shape, Stacked, Top
  <2> QED
    BY <2>1, <2>2 DEF PageRuns
<1> QED
  BY <1>1, <1>2 DEF Sound, AllSettled

\* ... and between two functions of a list no other list is.
LEMMA Turn ==
    ASSUME PromiseInv, NEW l \in Lists, Looping(l)
    PROVE  /\ cb[l].firing
           /\ \/ Sound(cb, stack)
              \/ \E d \in Deferreds, kind \in {"done", "fail"} :
                    l = <<d, kind>> /\ Settles(d, kind) /\ \A e \in Deferreds \ {d} : Calm(cb, e)
<1>1. Shape(cb, stack, thrown) /\ AllSettled /\ Top.list = l /\ l # Nothing
  BY Parts, Names DEF Looping
<1>2. cb[l].firing
  <2>1. Len(stack) \in Nat \ {0} /\ Top = stack[Len(stack)] /\ stack[1].list = Nothing
    BY <1>1, Tops DEF Shape, Stacked, Top
  <2>2. Len(stack) \in 2 .. Len(stack)
    BY <1>1, <2>1
  <2> QED
    BY <1>1, <2>1, <2>2 DEF Shape, Loops
<1>3. ASSUME NEW d \in Deferreds, NEW kind \in {"done", "fail"}, Settles(d, kind)
      PROVE  l = <<d, kind>> /\ \A e \in Deferreds \ {d} : Calm(cb, e)
  <2>1. \A e \in Deferreds, k \in {"done", "fail"} : Settles(e, k) => l = <<e, k>>
    BY <1>1 DEF Settles, Looping
  <2> QED
    BY <1>1, <1>3, <2>1 DEF AllSettled
<1> QED
  BY <1>1, <1>2, <1>3 DEF AllSettled, Sound

Later(c) == [c EXCEPT !.index = @ + 1]

LEMMA Advances ==
    ASSUME NEW c \in ListRecords, NEW r, r = Later(c)
    PROVE  /\ r \in ListRecords /\ r.opts = c.opts /\ r.list = c.list /\ r.index = c.index + 1 /\ r.queue = c.queue
           /\ r.spent = c.spent /\ r.memory = c.memory /\ r.locked = c.locked /\ r.firing = c.firing
BY DEF ListRecords, Later

\* A list that runs has been fired.
LEMMA RunningIsFired ==
    ASSUME NEW lists, NEW st, Sound(lists, st), NEW l \in Outcomes, lists[l].firing
    PROVE  /\ Fired(lists[l], l, {}) /\ state[l[1]] = StateOf(l[2])
           /\ ~Untouched(lists[l], l) /\ ~Disabled(lists[l])
<1>1. PICK d \in Deferreds, kind \in {"done", "fail"} : l = <<d, kind>>
  BY DEF Outcomes
<1>2. ~Untouched(lists[l], l) /\ ~Disabled(lists[l])
  BY DEF Untouched, Disabled
<1>3. \A k \in {"done", "fail"} : k = kind \/ Other(k) = kind
  BY DEF Other
<1>4. Calm(lists, d)
  BY DEF Sound
<1> QED
  BY <1>1, <1>2, <1>3, <1>4 DEF Calm

LEMMA AdvancedShape ==
    ASSUME NEW l \in Lists, Shape(cb, stack, thrown), NEW after, after = Advanced(l)
    PROVE  /\ Shape(after, stack, thrown)
           /\ \A k \in Lists : after[k] = IF k = l THEN Later(cb[l]) ELSE cb[k]
<1>1. cb \in [Lists -> ListRecords] /\ Stacked(stack) /\ Loops(cb, stack, thrown)
  BY DEF Shape
<1>2. PICK r : r = Later(cb[l])
  OBVIOUS
<1>3. /\ r \in ListRecords /\ r.opts = cb[l].opts /\ r.list = cb[l].list /\ r.index = cb[l].index + 1
      /\ r.queue = cb[l].queue /\ r.spent = cb[l].spent /\ r.memory = cb[l].memory
      /\ r.locked = cb[l].locked /\ r.firing = cb[l].firing
  <2>1. cb[l] \in ListRecords
    BY <1>1
  <2> QED
    BY <1>2, <2>1, Advances
<1>4. after \in [Lists -> ListRecords] /\ \A k \in Lists : after[k] = IF k = l THEN r ELSE cb[k]
  BY <1>1, <1>2, <1>3 DEF Advanced, Later
<1>5. Loops(after, stack, thrown)
  <2>1. \A k \in Lists : after[k].firing <=> cb[k].firing
    BY <1>3, <1>4
  <2>2. \A i \in 2 .. Len(stack) : stack[i].list \in Lists
    <3>1. \A i \in 1 .. Len(stack) : stack[i] \in Frames
      BY <1>1, ElementOfSeq DEF Stacked
    <3>2. \A i \in 2 .. Len(stack) : i \in 1 .. Len(stack)
      BY <1>1, Tops
    <3> QED
      BY <1>1, <3>1, <3>2 DEF Stacked, Frames
  <2> QED
    BY <1>1, <2>1, <2>2 DEF Loops
<1>6. ASSUME NEW d \in Deferreds
      PROVE  Notifies(after[<<d, "progress">>])
  <2>1. Notifies(cb[<<d, "progress">>]) /\ <<d, "progress">> \in Lists
    BY Names DEF Shape
  <2> QED
    BY <1>3, <1>4, <2>1 DEF Notifies
<1> QED
  BY <1>1, <1>2, <1>4, <1>5, <1>6 DEF Shape

LEMMA LaterFired ==
    ASSUME NEW c \in ListRecords, NEW l \in Outcomes, NEW own, NEW fewer, Fired(c, l, own),
           \A i \in own : i > c.index + 1 => i \in fewer, fewer \subseteq own
    PROVE  Fired(Later(c), l, fewer)
<1>1. PICK r : r = Later(c)
  OBVIOUS
<1>2. /\ r.opts = c.opts /\ r.list = c.list /\ r.index = c.index + 1 /\ r.queue = c.queue
      /\ r.spent = c.spent /\ r.memory = c.memory /\ r.locked = c.locked
  BY <1>1, Advances
<1>3. \A i \in 1 .. Len(c.list) : i > c.index + 1 => i > c.index /\ (i \in own <=> i \in fewer)
  BY DEF ListRecords
<1>4. Fired(r, l, fewer)
  BY <1>2, <1>3 DEF Fired
<1> QED
  BY <1>1, <1>4

LEMMA AdvancedKeeps ==
    ASSUME NEW l \in Lists, Sound(cb, stack), cb[l].firing, NEW after, after = Advanced(l)
    PROVE  Sound(after, stack)
<1>1. cb \in [Lists -> ListRecords] /\ cb[l] \in ListRecords
  BY DEF Sound, Shape
<1>2. PICK r : r = Later(cb[l])
  OBVIOUS
<1>3. Shape(after, stack, thrown) /\ \A k \in Lists : after[k] = IF k = l THEN r ELSE cb[k]
  BY <1>2, AdvancedShape DEF Sound
<1>4. ASSUME NEW d \in Deferreds
      PROVE  Calm(after, d)
  <2>1. Calm(cb, d)
    BY DEF Sound
  <2>2. CASE l \notin {<<d, "done">>, <<d, "fail">>}
    <3>1. \A kind \in {"done", "fail"} : /\ after[<<d, kind>>] = cb[<<d, kind>>]
                                         /\ after[<<d, Other(kind)>>] = cb[<<d, Other(kind)>>]
      BY <1>3, <2>2, Names DEF Other
    <3> QED
      BY <2>1, <3>1 DEF Calm
  <2>3. ASSUME NEW kind \in {"done", "fail"}, l = <<d, kind>>
        PROVE  Calm(after, d)
    <3>1. l \in Outcomes
      BY <2>3, Names
    <3>2. Fired(cb[l], l, {}) /\ ~Untouched(cb[l], l) /\ ~Disabled(cb[l])
      BY <3>1, RunningIsFired
    <3>3. Fired(r, l, {})
      BY <1>1, <1>2, <3>1, <3>2, LaterFired
    <3>4. after[l] = r /\ after[<<d, Other(kind)>>] = cb[<<d, Other(kind)>>]
      <4>1. <<d, Other(kind)>> \in Outcomes /\ Other(kind) # kind /\ Outcomes \subseteq Lists
        BY Names
      <4> QED
        BY <1>3, <2>3, <4>1
    <3>5. state[d] = StateOf(kind) /\ Disabled(cb[<<d, Other(kind)>>])
      <4>1. \A k \in {"done", "fail"} : k = kind \/ Other(k) = kind
        BY DEF Other
      <4> QED
        BY <2>1, <2>3, <3>2, <4>1 DEF Calm
    <3> QED
      BY <2>3, <3>3, <3>4, <3>5 DEF Calm
  <2> QED
    BY <2>2, <2>3
<1> QED
  BY <1>3, <1>4 DEF Sound

LEMMA AdvancedCalls ==
    ASSUME NEW l \in Lists, Shape(cb, stack, thrown), NEW k \in Outcomes, Known(cb),
           NEW after, after = Advanced(l)
    PROVE  CalledOnce(after[k], ToSet(called[k]), ToSet(registered[k]))
<1>1. k \in Lists
  BY Names
<1>2. cb[k] \in ListRecords /\ CalledOnce(cb[k], ToSet(called[k]), ToSet(registered[k]))
  BY <1>1 DEF Shape, Known
<1>3. after[k] = IF k = l THEN Later(cb[k]) ELSE cb[k]
  BY <1>1, AdvancedShape
<1>4. CASE k = l
  <2>1. PICK r : r = Later(cb[k])
    OBVIOUS
  <2>2. r.list = cb[k].list /\ r.index = cb[k].index + 1 /\ cb[k].index \in Nat /\ r.index \in Nat
    BY <1>2, <2>1, Advances DEF ListRecords
  <2>3. \A i \in 1 .. Len(r.list) : i > r.index => i \in 1 .. Len(cb[k].list) /\ i > cb[k].index
    BY <2>2
  <2>4. CalledOnce(r, ToSet(called[k]), ToSet(registered[k]))
    BY <1>2, <2>2, <2>3, FewerCalls
  <2> QED
    BY <1>3, <1>4, <2>1, <2>4
<1> QED
  BY <1>2, <1>3, <1>4
-----------------------------------------------------------------------------
(***************************************************************************)
(* The steps of the page's code.                                           *)
(***************************************************************************)

LEMMA PartsNext == PromiseInv' <=> HistoryTypes' /\ Shape(cb, stack, thrown)' /\ AllSettled' /\ Known(cb)'
<1>1. OneLoopPerList' <=> Loops(cb, stack, thrown)'
  BY DEF OneLoopPerList, Loops, OnStack
<1> QED
  BY <1>1 DEF PromiseInv, EngineTypes, HistoryTypes, Shape, Stacked, AllSettled, Known, Outcomes

LEMMA Settled ==
    ASSUME NEW after, NEW s, NEW gone, Shape(after, s, gone),
           \A d \in Deferreds : Calm(after, d) \/ \E kind \in {"done", "fail"} : Opened(after, s, d, kind),
           cb' = after, stack' = s, state' = state, thrown' = gone
    PROVE  Shape(cb, stack, thrown)' /\ AllSettled'
<1>1. Shape(cb, stack, thrown)'
  BY DEF Shape
<1>2. ASSUME NEW d \in Deferreds, Calm(after, d)
      PROVE  Calm(cb, d)'
  BY <1>2 DEF Calm
<1>3. ASSUME NEW d \in Deferreds, NEW kind \in {"done", "fail"}, Opened(after, s, d, kind)
      PROVE  Settles(d, kind)'
  <2>1. <<d, kind>> # Nothing
    BY Names
  <2> QED
    BY <1>3, <2>1 DEF Opened, Settles, Looping, Top, Frame
<1> QED
  BY <1>1, <1>2, <1>3 DEF AllSettled

\* An operation that adds no function of the page.
LEMMA PerformStep ==
    ASSUME NEW lists, NEW st, Sound(lists, st), Known(lists), HistoryTypes', NEW op \in Operations,
           op.do # "disable", op.do = "lock" => op.list[2] = "progress", op.do = "add" => op.fn.kind # "user",
           Perform(op, lists, st), UNCHANGED <<state, registered, called, thrown>>
    PROVE  PromiseInv'
<1>1. PICK after, s : /\ after = ListsAfter(op, lists) /\ s = StackAfter(op, lists, st)
                      /\ cb' = after /\ stack' = s
  BY PerformResult
<1>2. /\ Shape(after, s, thrown)
      /\ \A d \in Deferreds : Calm(after, d) \/ \E kind \in {"done", "fail"} : Opened(after, s, d, kind)
  BY <1>1, PerformKeeps
<1>3. Known(after)
  <2>1. lists \in [Lists -> ListRecords] /\ op.list \in Lists
    BY DEF Sound, Shape, Operations
  <2>2. lists[op.list].spent => ~lists[op.list].memory
    BY <2>1, SpentForgets
  <2> QED
    BY <1>1, <2>1, <2>2, PerformCalls
<1>4. Shape(cb, stack, thrown)' /\ AllSettled'
  BY <1>1, <1>2, Settled
<1>5. Known(cb)'
  BY <1>1, <1>3 DEF Known
<1> QED
  BY <1>4, <1>5, PartsNext

\* A step that leaves the lists alone, and puts something else on top of the stack.
LEMMA TopStep ==
    ASSUME HistoryTypes', Sound(cb, stack), Known(cb),
           NEW s, Within(s, stack), thrown' \/ (Len(s) = Len(stack) /\ UNCHANGED thrown), stack' = s,
           UNCHANGED <<cb, state, registered, called>>
    PROVE  PromiseInv'
<1>1. Shape(cb, stack, thrown)
  BY DEF Sound
<1>2. Shape(cb, s, thrown')
  BY <1>1, ShapeWithin
<1>3. Shape(cb, stack, thrown)'
  BY <1>2 DEF Shape
<1>4. ASSUME NEW d \in Deferreds
      PROVE  Calm(cb, d)'
  BY DEF Sound, Calm
<1>5. Known(cb)'
  BY DEF Known
<1> QED
  BY <1>3, <1>4, <1>5, PartsNext DEF AllSettled

LEMMA SettleStep ==
    ASSUME PromiseInv, NEW d \in Deferreds, NEW kind \in {"done", "fail", "progress"}, Settle(d, kind)
    PROVE  PromiseInv'
<1> DEFINE op == Op("fire", <<d, kind>>, Nothing)
<1>1. PageRuns /\ Perform(op, cb, stack) /\ UNCHANGED <<closure, called, thrown>> /\ UNCHANGED registered
  BY DEF Settle, CallList, Calling, Op
<1>2. op \in Operations /\ op.do = "fire"
  BY DEF Op, Operations, Lists
<1>3. Sound(cb, stack) /\ Known(cb) /\ HistoryTypes
  BY <1>1, Quiet, Parts
<1>4. HistoryTypes' /\ UNCHANGED <<state, registered, called, thrown>>
  BY <1>1, <1>3 DEF HistoryTypes, closure
<1> QED
  BY <1>1, <1>2, <1>3, <1>4, PerformStep

\* What jQuery gives to lists by itself.
LEMMA TodoOf ==
    ASSUME NEW l \in Lists, NEW f \in Given, f.kind # "user"
    PROVE  Op("add", l, f) \in Rest /\ (l \in DerivedLists => Op("end", l, Nothing) \in Rest)
BY DEF Op, Rest

LEMMA DerivedOnes ==
    /\ Derived \subseteq Deferreds /\ DerivedLists \subseteq Lists
    /\ \A d \in Derived, kind \in {"done", "fail", "progress"} : <<d, kind>> \in DerivedLists
    /\ \A l \in DerivedLists : l[1] \in Derived /\ l[2] \in {"done", "fail", "progress"} /\ l = <<l[1], l[2]>>
BY DEF Derived, DerivedLists, Lists

LEMMA GivenByItself ==
    /\ \A d \in Derived : /\ Resolve(d) \in Given /\ Reject(d) \in Given /\ Notify(d) \in Given /\ Count(d) \in Given
                          /\ Resolve(d).kind # "user" /\ Reject(d).kind # "user"
                          /\ Notify(d).kind # "user" /\ Count(d).kind # "user"
    /\ \A d \in Derived, kind \in {"done", "fail", "progress"} :
         Then(d, kind) \in Given /\ Then(d, kind).kind # "user" /\ <<d, kind>> \in DerivedLists
    /\ \A f \in Fns : User(f) \in Given
<1>1. \A d \in Derived, kind \in {"done", "fail", "progress"} : Op("fire", <<d, kind>>, Nothing) \in
          [do : {"fire"}, list : DerivedLists, fn : {Nothing}]
  BY DerivedOnes DEF Op
<1> QED
  BY <1>1, DerivedOnes DEF Resolve, Reject, Notify, Count, Then, User, Internal, Callback, Given

LEMMA UndertakeStep ==
    ASSUME PromiseInv, PageRuns, NEW ops \in Seq(Rest), Undertake(ops), Roots \subseteq made' /\ made' \subseteq Deferreds,
           UNCHANGED <<cb, state, registered, called, thrown>>
    PROVE  PromiseInv'
<1>1. Sound(cb, stack) /\ Known(cb) /\ HistoryTypes /\ Stacked(stack)
  BY Quiet, Parts DEF Shape
<1>2. PICK s : stack' = s /\ s = [stack EXCEPT ![Len(stack)].todo = ops]
  BY DEF Undertake
<1>3. Within(s, stack) /\ Len(s) = Len(stack)
  BY <1>1, <1>2, TopTodo
<1>4. HistoryTypes'
  BY <1>1 DEF HistoryTypes
<1> QED
  BY <1>1, <1>2, <1>3, <1>4, TopStep

LEMMA CallThenStep ==
    ASSUME PromiseInv, NEW d \in Deferreds, NEW c \in Deferreds, CallThen(d, c)
    PROVE  PromiseInv'
<1>1. PageRuns /\ Undertake(Then_(d, c)) /\ UNCHANGED <<cb, state, registered, called, thrown>>
      /\ made' = made \cup {c}
  BY DEF CallThen, Calling
<1>2. Then_(d, c) \in Seq(Rest)
  <2>1. \A kind \in {"done", "fail", "progress"} : Op("add", <<d, kind>>, Then(c, kind)) \in Rest
    <3>1. c \in Derived
      BY Parts DEF CallThen, HistoryTypes, Derived
    <3>2. \A kind \in {"done", "fail", "progress"} : <<d, kind>> \in Lists
      BY Names
    <3> QED
      BY <3>1, <3>2, GivenByItself, TodoOf
  <2> QED
    BY <2>1 DEF Then_
<1>3. Roots \subseteq made' /\ made' \subseteq Deferreds
  BY <1>1, Parts DEF HistoryTypes
<1> QED
  BY <1>1, <1>2, <1>3, UndertakeStep

LEMMA SubordinatesTypes ==
    ASSUME NEW m \in Derived, NEW n \in Nat, NEW order \in [1 .. n -> Deferreds]
    PROVE  Append(Subordinates(m, order), Op("end", <<m, "done">>, Nothing)) \in Seq(Rest)
<1>1. ASSUME NEW d \in Deferreds, NEW i \in 1 .. 3
      PROVE  Subordinate(m, d)[i] \in Rest
  <2>1. Op("add", <<d, "progress">>, Notify(m)) \in Rest /\ Op("add", <<d, "done">>, Count(m)) \in Rest
        /\ Op("add", <<d, "fail">>, Reject(m)) \in Rest
    BY GivenByItself, TodoOf, Names
  <2>2. i = 1 \/ i = 2 \/ i = 3
    OBVIOUS
  <2> QED
    BY <2>1, <2>2 DEF Subordinate
<1>2. Len(order) = n
  OBVIOUS
<1>3. ASSUME NEW i \in 1 .. 3 * n
      PROVE  Subordinate(m, order[(i + 2) \div 3])[((i - 1) % 3) + 1] \in Rest
  <2>1. (i + 2) \div 3 \in 1 .. n /\ ((i - 1) % 3) + 1 \in 1 .. 3
    OBVIOUS
  <2> QED
    BY <1>1, <2>1
<1>4. 3 * n \in Nat /\ Subordinates(m, order) \in Seq(Rest)
  BY <1>2, <1>3 DEF Subordinates
<1>5. Op("end", <<m, "done">>, Nothing) \in Rest
  BY DerivedOnes, GivenByItself, TodoOf
<1> QED
  BY <1>4, <1>5, AppendProperties

LEMMA CallWhenStep ==
    ASSUME PromiseInv, NEW m \in Deferreds, NEW ds \in SUBSET Deferreds, NEW values \in 0 .. 1,
           CallWhen(m, ds, values)
    PROVE  PromiseInv'
<1>1. PICK order \in SetToSeqs(ds) :
        /\ Undertake(Append(Subordinates(m, order), Op("end", <<m, "done">>, Nothing)))
        /\ PageRuns /\ made' = made \cup {m} /\ UNCHANGED <<cb, state, registered, called, thrown>>
  BY DEF CallWhen, Calling
<1>2. \E n \in Nat : order \in [1 .. n -> Deferreds]
  <2>1. order \in [1 .. Cardinality(ds) -> ds]
    BY DEF SetToSeqs
  <2>2. Cardinality(ds) \in Nat
    BY FS_CardinalityType DEF CallWhen
  <2> QED
    BY <2>1, <2>2
<1>3. Roots \subseteq made' /\ made' \subseteq Deferreds
  BY <1>1, Parts DEF HistoryTypes
<1>4. m \in Derived
  BY Parts DEF CallWhen, HistoryTypes, Derived
<1> QED
  BY <1>1, <1>2, <1>3, <1>4, SubordinatesTypes, UndertakeStep

LEMMA ThrowStep ==
    ASSUME PromiseInv, NEW catcher \in 1 .. Len(stack), ThrowTo(catcher)
    PROVE  PromiseInv'
<1>1. /\ PageRuns /\ catcher \in 1 .. Len(stack) - 1 /\ thrown' = TRUE
      /\ stack' = [SubSeq(stack, 1, catcher) EXCEPT ![catcher].todo = <<>>]
      /\ UNCHANGED <<cb, state, made, registered, called>>
  BY DEF ThrowTo, Throw, closure
<1>2. Sound(cb, stack) /\ Known(cb) /\ HistoryTypes /\ Stacked(stack)
  BY <1>1, Quiet, Parts DEF Shape
<1>3. PICK s : stack' = s /\ s = [SubSeq(stack, 1, catcher) EXCEPT ![catcher].todo = <<>>]
  BY <1>1
<1>4. Within(s, stack)
  BY <1>1, <1>2, <1>3, TopThrows
<1>5. HistoryTypes'
  BY <1>1, <1>2 DEF HistoryTypes
<1> QED
  BY <1>1, <1>2, <1>3, <1>4, <1>5, TopStep

LEMMA SetOfAppend ==
    ASSUME NEW S, NEW s \in Seq(S), NEW e \in S
    PROVE  ToSet(Append(s, e)) = ToSet(s) \cup {e}
BY AppendProperties DEF ToSet

LEMMA AddStep ==
    ASSUME PromiseInv, NEW l \in Lists, AddOne(l)
    PROVE  PromiseInv'
<1> DEFINE f == CHOOSE f \in NewFns : TRUE
           op == Op("add", l, User(f))
           c == cb[l]
           r == Result(op, c)
<1>1. /\ f \in Fns /\ \A k \in Lists : ~Contains(registered[k], f)
      /\ PageRuns /\ Perform(op, cb, stack) /\ UNCHANGED <<state, made, called, thrown>>
      /\ registered' = IF ~c.spent THEN [registered EXCEPT ![l] = Append(@, f)] ELSE registered
  <2>1. f \in NewFns
    BY DEF AddOne
  <2>2. CallList(op) /\ op.do = "add" /\ op.list = l /\ op.fn.arg = f
    BY DEF AddOne, Op, User, Callback
  <2> QED
    BY <2>1, <2>2 DEF NewFns, CallList, Calling, closure
<1>2. op \in Operations /\ op.do = "add" /\ op.list = l /\ op.fn = User(f)
  BY <1>1, GivenByItself DEF Op, Operations
<1>3. Sound(cb, stack) /\ Known(cb) /\ HistoryTypes
  BY <1>1, Quiet, Parts
<1>4. c \in ListRecords /\ (c.spent => ~c.memory) /\ cb \in [Lists -> ListRecords]
  BY <1>3, SpentForgets DEF Sound, Shape
<1> HIDE DEF f, op
<1>5. PICK after, s : /\ after = ListsAfter(op, cb) /\ s = StackAfter(op, cb, stack)
                      /\ cb' = after /\ stack' = s
  BY <1>1, PerformResult
<1>6. /\ Shape(after, s, thrown)
      /\ \A d \in Deferreds : Calm(after, d) \/ \E kind \in {"done", "fail"} : Opened(after, s, d, kind)
  BY <1>2, <1>3, <1>5, PerformKeeps
<1>7. Shape(cb, stack, thrown)' /\ AllSettled'
  BY <1>1, <1>5, <1>6, Settled
<1>8. ASSUME NEW k \in Outcomes
      PROVE  CalledOnce(after[k], ToSet(called[k]), ToSet(registered'[k]))
  <2>1. CalledOnce(cb[k], ToSet(called[k]), ToSet(registered[k])) /\ k \in Lists
    BY <1>3, Names DEF Known
  <2>2. after[k] = IF k = l THEN r ELSE cb[k]
    BY <1>2, <1>4, <1>5, <2>1 DEF ListsAfter
  <2>3. CASE k # l \/ c.spent
    <3>1. registered'[k] = registered[k]
      BY <1>1, <1>3, <2>1, <2>3 DEF HistoryTypes
    <3>2. after[k] = cb[k]
      BY <1>2, <1>4, <2>2, <2>3, ResultAdd
    <3> QED
      BY <2>1, <3>1, <3>2
  <2>4. CASE k = l /\ ~c.spent
    <3>1. registered'[k] = Append(registered[k], f) /\ registered[k] \in Seq(Fns)
      BY <1>1, <1>3, <2>1, <2>4 DEF HistoryTypes
    <3>2. ToSet(registered'[k]) = ToSet(registered[k]) \cup {f}
      BY <1>1, <3>1, SetOfAppend
    <3>3. f \notin ToSet(registered[k])
      BY <1>1, <2>1, <3>1 DEF Contains, ToSet
    <3>4. Longer(c.list, r.list, User(f)) /\ r.index \in {c.index, Len(c.list)}
      BY <1>2, <1>4, <2>4, ResultAdd
    <3> QED
      BY <1>4, <2>1, <2>2, <2>4, <3>2, <3>3, <3>4, OneMoreToCall
  <2> QED
    BY <2>3, <2>4
<1>9. Known(cb)'
  BY <1>1, <1>5, <1>8 DEF Known
<1>10. HistoryTypes'
  <2>1. registered' \in [Lists -> Seq(Fns)]
    BY <1>1, <1>3 DEF HistoryTypes
  <2> QED
    BY <1>1, <1>3, <2>1 DEF HistoryTypes
<1> QED
  BY <1>7, <1>9, <1>10, PartsNext
-----------------------------------------------------------------------------
(***************************************************************************)
(* The steps of the engine.                                                *)
(***************************************************************************)

LEMMA SoundWithin ==
    ASSUME NEW lists, NEW st, Sound(lists, st), NEW s, Within(s, st), Len(s) = Len(st)
    PROVE  Sound(lists, s)
BY ShapeWithin DEF Sound

LEMMA TodoNextStep ==
    ASSUME PromiseInv, TodoStep
    PROVE  PromiseInv'
<1> DEFINE op == Head(Top.todo)
<1>1. /\ Top.todo # <<>> /\ UNCHANGED <<state, made, registered, called, thrown>>
  BY DEF TodoStep, closure, history
<1>2. Sound(cb, stack) /\ Known(cb) /\ HistoryTypes /\ Stacked(stack)
  BY <1>1, Quiet, Parts DEF Shape
<1>3. Top.todo \in Seq(Rest)
  BY <1>2, Tops DEF Top, Frames
<1>4. op \in Rest /\ Tail(Top.todo) \in Seq(Rest)
  BY <1>1, <1>3, HeadTailProperties
<1>5. PICK s : s = [stack EXCEPT ![Len(stack)].todo = Tail(Top.todo)]
  OBVIOUS
<1>6. Within(s, stack) /\ Len(s) = Len(stack)
  BY <1>2, <1>4, <1>5, TopTodo
<1>7. Sound(cb, s)
  BY <1>2, <1>6, SoundWithin
<1>8. HistoryTypes'
  BY <1>1, <1>2 DEF HistoryTypes
<1>9. s = [stack EXCEPT ![Len(stack)].todo = Tail(@)]
  <2>1. Top = stack[Len(stack)]
    BY <1>2, Tops DEF Top
  <2> QED
    BY <1>5, <2>1
<1>10. \/ op.do # "end" /\ Perform(op, cb, s)
       \/ op.do = "end" /\ Perform(Op("fire", op.list, Nothing), cb, s)
       \/ stack' = s /\ UNCHANGED cb
  BY <1>9 DEF TodoStep
<1>11. CASE op.do # "end" /\ Perform(op, cb, s)
  <2>1. op \in Operations /\ op.do = "add" /\ op.fn.kind # "user"
    BY <1>4, <1>11 DEF Rest, Operations
  <2> QED
    BY <1>1, <1>2, <1>7, <1>8, <1>11, <2>1, PerformStep
<1>12. CASE op.do = "end" /\ Perform(Op("fire", op.list, Nothing), cb, s)
  <2>1. Op("fire", op.list, Nothing) \in Operations /\ Op("fire", op.list, Nothing).do = "fire"
    BY <1>4, <1>12, DerivedOnes DEF Rest, Operations, Op
  <2> QED
    BY <1>1, <1>2, <1>7, <1>8, <1>12, <2>1, PerformStep
<1>13. CASE stack' = s /\ UNCHANGED cb
  BY <1>1, <1>2, <1>6, <1>8, <1>13, TopStep
<1> QED
  BY <1>10, <1>11, <1>12, <1>13

LEMMA OwnKinds ==
    ASSUME NEW d, NEW kind
    PROVE  /\ Settling(d, kind)[1].kind = "settle" /\ Settling(d, kind)[1].arg = <<d, StateOf(kind)>>
           /\ Settling(d, kind)[2].kind = "do"
           /\ Settling(d, kind)[2].arg = Op("disable", <<d, Other(kind)>>, Nothing)
           /\ Settling(d, kind)[3].kind = "do"
           /\ Settling(d, kind)[3].arg = Op("lock", <<d, "progress">>, Nothing)
BY DEF Callback, Internal, Settling

\* What a list calls next: what it was given, or the last of its own functions, ...
LEMMA SoundCurrent ==
    ASSUME NEW l \in Lists, Sound(cb, stack), cb[l].firing, HasNext(l)
    PROVE  Current(l) \in Given \/ (l \in Outcomes /\ Current(l) = Settling(l[1], l[2])[3])
<1>1. cb[l] \in ListRecords
  BY DEF Sound, Shape
<1>2. cb[l].index + 1 \in 1 .. Len(cb[l].list) /\ cb[l].index + 1 > cb[l].index
  BY <1>1 DEF ListRecords, HasNext
<1>3. CASE l \in Outcomes
  <2>1. Fired(cb[l], l, {})
    BY <1>3, RunningIsFired
  <2> QED
    BY <1>2, <1>3, <2>1 DEF Fired, Current
<1>4. CASE l[2] = "progress"
  <2>1. l = <<l[1], "progress">> /\ l[1] \in Deferreds
    BY <1>4, Names
  <2>2. Notifies(cb[l])
    BY <2>1 DEF Sound, Shape
  <2> QED
    BY <1>2, <2>2 DEF Notifies, Current
<1> QED
  BY <1>3, <1>4, Names

\* ... or, of a list that settles its deferred, the first two.
LEMMA SettlesCurrent ==
    ASSUME NEW d \in Deferreds, NEW kind \in {"done", "fail"}, Shape(cb, stack, thrown), Settles(d, kind)
    PROVE  /\ HasNext(<<d, kind>>)
           /\ \/ /\ cb[<<d, kind>>].index = 0 /\ state[d] = "pending"
                 /\ Current(<<d, kind>>).kind = "settle" /\ Current(<<d, kind>>).arg = <<d, StateOf(kind)>>
              \/ /\ cb[<<d, kind>>].index = 1 /\ state[d] = StateOf(kind)
                 /\ Current(<<d, kind>>).kind = "do"
                 /\ Current(<<d, kind>>).arg = Op("disable", <<d, Other(kind)>>, Nothing)
<1> DEFINE l == <<d, kind>>
           c == cb[l]
<1>1. /\ Fired(c, l, {1, 2}) /\ Len(c.list) >= 3
      /\ (state[d] = "pending" /\ c.index = 0) \/ (state[d] = StateOf(kind) /\ c.index = 1)
  BY DEF Settles
<1>2. l \in Lists /\ Len(c.list) \in Nat
  <2>1. l \in Lists
    BY Names
  <2> QED
    BY <2>1 DEF Shape, ListRecords
<1>3. /\ Settling(d, kind)[1].kind = "settle" /\ Settling(d, kind)[1].arg = <<d, StateOf(kind)>>
      /\ Settling(d, kind)[2].kind = "do"
      /\ Settling(d, kind)[2].arg = Op("disable", <<d, Other(kind)>>, Nothing)
  BY OwnKinds
<1>4. CASE state[d] = "pending" /\ c.index = 0
  <2>1. 1 \in 1 .. Len(c.list) /\ 1 > c.index
    BY <1>1, <1>2, <1>4
  <2>2. c.list[1] = Settling(d, kind)[1]
    BY <1>1, <2>1 DEF Fired
  <2> QED
    BY <1>1, <1>2, <1>3, <1>4, <2>2 DEF HasNext, Current
<1>5. CASE state[d] = StateOf(kind) /\ c.index = 1
  <2>1. 2 \in 1 .. Len(c.list) /\ 2 > c.index
    BY <1>1, <1>2, <1>5
  <2>2. c.list[2] = Settling(d, kind)[2]
    BY <1>1, <2>1 DEF Fired
  <2> QED
    BY <1>1, <1>2, <1>3, <1>5, <2>2 DEF HasNext, Current
<1> QED
  BY <1>1, <1>4, <1>5

LEMMA TopList ==
    ASSUME PromiseInv, NEW l \in {Top.list} \ {Nothing}
    PROVE  l \in Lists
<1>1. Stacked(stack)
  BY Parts DEF Shape
<1>2. Top \in Frames
  BY <1>1, Tops DEF Top
<1> QED
  BY <1>2 DEF Frames

\* A list that calls something else than its own functions.
LEMMA CallsGiven ==
    ASSUME PromiseInv, NEW l \in Lists, Looping(l), HasNext(l), Current(l).kind \notin {"settle", "do"}
    PROVE  Sound(cb, stack) /\ cb[l].firing /\ Current(l) \in Given /\ Sound(Advanced(l), stack)
<1>1. cb[l].firing /\ Shape(cb, stack, thrown)
  BY Turn, Parts
<1>2. ASSUME NEW d \in Deferreds, NEW kind \in {"done", "fail"}, l = <<d, kind>>, Settles(d, kind)
      PROVE  FALSE
  <2>1. Current(l).kind \in {"settle", "do"}
    BY <1>1, <1>2, SettlesCurrent
  <2> QED
    BY <2>1
<1>3. Sound(cb, stack)
  BY <1>2, Turn
<1>4. Current(l) \in Given
  <2>1. \A d, kind : Settling(d, kind)[3].kind = "do"
    BY DEF Settling, Internal, Callback
  <2> QED
    BY <1>1, <1>3, <2>1, SoundCurrent
<1> QED
  BY <1>1, <1>3, <1>4, AdvancedKeeps

LEMMA UserStep ==
    ASSUME PromiseInv, NEW l \in Lists, CallUser(l)
    PROVE  /\ PromiseInv'
           /\ Sound(cb, stack)
           /\ l \in Outcomes /\ Current(l).kind = "user" =>
                /\ state[l[1]] = StateOf(l[2])
                /\ Current(l).arg \in Fns
                /\ Current(l).arg \notin ToSet(called[l])
                /\ ToSet(called'[l]) = ToSet(called[l]) \cup {Current(l).arg}
<1> DEFINE f == Current(l)
           c == cb[l]
<1>1. /\ Looping(l) /\ HasNext(l) /\ f.kind \in {"user", "then"}
      /\ cb' = Advanced(l) /\ stack' = [stack EXCEPT ![Len(stack)].running = f]
      /\ called' = IF f.kind = "user" THEN [called EXCEPT ![l] = Append(@, f.arg)] ELSE called
      /\ UNCHANGED <<state, made, registered, thrown>>
  BY DEF CallUser, closure
<1>2. /\ Sound(cb, stack) /\ c.firing /\ f \in Given /\ Sound(Advanced(l), stack)
      /\ Known(cb) /\ HistoryTypes /\ Shape(cb, stack, thrown) /\ Stacked(stack)
  BY <1>1, CallsGiven, Parts DEF Shape
<1>3. f.kind = "user" => f.arg \in Fns
  BY <1>2 DEF Given
<1>4. PICK after, s : /\ after = Advanced(l) /\ s = [stack EXCEPT ![Len(stack)].running = f]
                      /\ cb' = after /\ stack' = s
  BY <1>1
<1>5. Within(s, stack) /\ Len(s) = Len(stack)
  BY <1>2, <1>4, TopRuns
<1>6. Sound(after, s)
  BY <1>2, <1>4, <1>5, SoundWithin
<1>7. Shape(cb, stack, thrown)' /\ AllSettled'
  BY <1>1, <1>4, <1>6, Settled DEF Sound
<1>8. HistoryTypes'
  <2>1. CASE f.kind = "user"
    <3>1. called' = [called EXCEPT ![l] = Append(called[l], f.arg)] /\ Append(called[l], f.arg) \in Seq(Fns)
      BY <1>1, <1>2, <1>3, <2>1, AppendProperties DEF HistoryTypes
    <3> QED
      BY <1>1, <1>2, <3>1 DEF HistoryTypes
  <2>2. CASE f.kind # "user"
    BY <1>1, <1>2, <2>2 DEF HistoryTypes
  <2> QED
    BY <2>1, <2>2
<1>9. ASSUME f.kind = "user", l \in Outcomes
      PROVE  /\ ToSet(called'[l]) = ToSet(called[l]) \cup {f.arg} /\ f.arg \notin ToSet(called[l])
             /\ CalledOnce(after[l], ToSet(called'[l]), ToSet(registered[l]))
  <2>1. called'[l] = Append(called[l], f.arg) /\ called[l] \in Seq(Fns)
    BY <1>1, <1>2, <1>9 DEF HistoryTypes
  <2>2. ToSet(called'[l]) = ToSet(called[l]) \cup {f.arg}
    BY <1>3, <1>9, <2>1, SetOfAppend
  <2>3. CalledOnce(c, ToSet(called[l]), ToSet(registered[l])) /\ c \in ListRecords /\ after[l] = Later(c)
    BY <1>2, <1>4, <1>9, AdvancedShape DEF Known, Shape
  <2>4. PICK r : r = Later(c)
    OBVIOUS
  <2>5. r.list = c.list /\ r.index = c.index + 1
    BY <2>3, <2>4, Advances
  <2>6. CalledOnce(r, ToSet(called[l]) \cup {f.arg}, ToSet(registered[l])) /\ f.arg \notin ToSet(called[l])
    <3>1. f = c.list[c.index + 1] /\ c.index < Len(c.list)
      BY <1>1 DEF HasNext, Current
    <3> HIDE DEF f, c
    <3>2. PICK a : a = f.arg /\ c.list[c.index + 1].kind = "user" /\ a = c.list[c.index + 1].arg
      BY <1>9, <3>1
    <3> QED
      BY <2>3, <2>5, <3>1, <3>2, OneLessToCall
  <2> QED
    BY <2>2, <2>3, <2>4, <2>6
<1>10. ASSUME NEW k \in Outcomes
       PROVE  CalledOnce(after[k], ToSet(called'[k]), ToSet(registered[k]))
  <2>1. CASE k = l /\ f.kind = "user"
    BY <1>9, <2>1
  <2>2. CASE k # l \/ f.kind # "user"
    <3>1. called'[k] = called[k]
      BY <1>1, <1>2, <2>2, Names DEF HistoryTypes
    <3>2. CalledOnce(after[k], ToSet(called[k]), ToSet(registered[k]))
      BY <1>2, <1>4, AdvancedCalls
    <3> QED
      BY <3>1, <3>2
  <2> QED
    BY <2>1, <2>2
<1>11. Known(cb)'
  BY <1>1, <1>4, <1>10 DEF Known
<1>12. l \in Outcomes => state[l[1]] = StateOf(l[2])
  BY <1>2, RunningIsFired
<1> QED
  BY <1>2, <1>3, <1>7, <1>8, <1>9, <1>11, <1>12, PartsNext

\* The first function of a list that was fired sets the state, ...
LEMMA SettleCallStep ==
    ASSUME PromiseInv, NEW l \in Lists, CallSettle(l)
    PROVE  /\ PromiseInv'
           /\ \E d \in Deferreds, o \in {"resolved", "rejected"} :
                state[d] = "pending" /\ state' = [state EXCEPT ![d] = o]
<1>1. /\ Looping(l) /\ HasNext(l) /\ Current(l).kind = "settle"
      /\ cb' = Advanced(l) /\ UNCHANGED <<stack, made, registered, called, thrown>>
      /\ state' = [state EXCEPT ![Current(l).arg[1]] = Current(l).arg[2]]
  BY DEF CallSettle, history
<1>2. cb[l].firing /\ Shape(cb, stack, thrown) /\ Known(cb) /\ HistoryTypes
  BY <1>1, Turn, Parts
<1>3. ~Sound(cb, stack)
  <2>1. Sound(cb, stack) => Current(l) \in Given \/ Current(l) = Settling(l[1], l[2])[3]
    BY <1>1, <1>2, SoundCurrent
  <2>2. \A d, kind : Settling(d, kind)[3].kind = "do"
    BY DEF Settling, Internal, Callback
  <2> QED
    BY <1>1, <2>1, <2>2 DEF Given
<1>4. PICK d \in Deferreds, kind \in {"done", "fail"} :
        l = <<d, kind>> /\ Settles(d, kind) /\ \A e \in Deferreds \ {d} : Calm(cb, e)
  BY <1>1, <1>3, Turn
<1>5. /\ cb[l].index = 0 /\ state[d] = "pending" /\ Current(l).arg[1] = d /\ Current(l).arg[2] = StateOf(kind)
  <2>1. cb[l].index = 0 /\ state[d] = "pending" /\ Current(l).arg = <<d, StateOf(kind)>>
    BY <1>1, <1>2, <1>4, SettlesCurrent
  <2> QED
    BY <2>1
<1>6. StateOf(kind) \in {"resolved", "rejected"} /\ state' = [state EXCEPT ![d] = StateOf(kind)]
  BY <1>1, <1>5 DEF StateOf
<1>7. PICK after : after = Advanced(l) /\ cb' = after
  BY <1>1
<1>8. Shape(after, stack, thrown) /\ \A k \in Lists : after[k] = IF k = l THEN Later(cb[l]) ELSE cb[k]
  BY <1>2, <1>7, AdvancedShape
<1>9. <<d, Other(kind)>> \in Lists /\ <<d, Other(kind)>> # l /\ l \in Outcomes
  <2>1. Other(kind) # kind
    BY DEF Other
  <2>2. <<d, Other(kind)>> \in Outcomes /\ l \in Outcomes /\ Outcomes \subseteq Lists
    BY <1>4, Names
  <2> QED
    BY <1>4, <2>1, <2>2
<1>10. Settles(d, kind)'
  <2>1. PICK r : r = Later(cb[l])
    OBVIOUS
  <2>2. cb[l] \in ListRecords
    BY <1>2 DEF Shape
  <2>3. r.list = cb[l].list /\ r.index = 1 /\ r.firing
    <3>1. r.list = cb[l].list /\ r.index = cb[l].index + 1 /\ r.firing = cb[l].firing
      BY <2>1, <2>2, Advances
    <3> QED
      BY <1>2, <1>5, <3>1
  <2>4. Fired(cb[l], l, {1, 2}) /\ Len(cb[l].list) >= 3 /\ Untouched(cb[<<d, Other(kind)>>], <<d, Other(kind)>>)
    BY <1>4 DEF Settles
  <2>5. Fired(r, l, {1, 2})
    BY <1>9, <2>1, <2>2, <2>4, LaterFired
  <2>6. cb'[l] = r /\ cb'[<<d, Other(kind)>>] = cb[<<d, Other(kind)>>]
    BY <1>7, <1>8, <1>9, <2>1
  <2>7. state'[d] = StateOf(kind)
    BY <1>2, <1>6 DEF HistoryTypes
  <2>8. Looping(l)'
    BY <1>1 DEF Looping, Top
  <2> QED
    BY <1>4, <2>3, <2>4, <2>5, <2>6, <2>7, <2>8 DEF Settles
<1>11. ASSUME NEW e \in Deferreds \ {d}
       PROVE  Calm(cb, e)'
  <2>1. Calm(cb, e) /\ state'[e] = state[e]
    BY <1>2, <1>4, <1>6 DEF HistoryTypes
  <2>2. \A k \in {"done", "fail"} : cb'[<<e, k>>] = cb[<<e, k>>] /\ cb'[<<e, Other(k)>>] = cb[<<e, Other(k)>>]
    BY <1>4, <1>7, <1>8, Names DEF Other
  <2> QED
    BY <2>1, <2>2 DEF Calm
<1>12. Known(cb)'
  BY <1>1, <1>2, <1>7, AdvancedCalls DEF Known
<1>13. HistoryTypes'
  BY <1>1, <1>2, <1>6 DEF HistoryTypes
<1>14. Shape(cb, stack, thrown)'
  BY <1>1, <1>7, <1>8 DEF Shape
<1>15. AllSettled'
  BY <1>10, <1>11 DEF AllSettled
<1> QED
  BY <1>5, <1>6, <1>12, <1>13, <1>14, <1>15, PartsNext

\* ... and the second one disables the list of the other outcome.
LEMMA DisableStep ==
    ASSUME PromiseInv, NEW d \in Deferreds, NEW kind \in {"done", "fail"}, Settles(d, kind),
           \A e \in Deferreds \ {d} : Calm(cb, e), CallInternal(<<d, kind>>)
    PROVE  PromiseInv'
<1> DEFINE l == <<d, kind>>
           k == <<d, Other(kind)>>
           op == Current(l).arg
<1>1. /\ Looping(l) /\ HasNext(l) /\ Current(l).kind = "do"
      /\ Perform(op, Advanced(l), stack) /\ UNCHANGED <<state, made, registered, called, thrown>>
  BY DEF CallInternal, closure, history
<1>2. Shape(cb, stack, thrown) /\ Known(cb) /\ HistoryTypes
  BY Parts
<1>3. cb[l].index = 1 /\ state[d] = StateOf(kind) /\ op = Op("disable", k, Nothing)
  BY <1>1, <1>2, SettlesCurrent
<1>4. k \in Lists /\ k # l /\ l \in Outcomes /\ k \in Outcomes /\ l \in Lists
  <2>1. Other(kind) # kind
    BY DEF Other
  <2>2. k \in Outcomes /\ l \in Outcomes /\ Outcomes \subseteq Lists
    BY Names
  <2> QED
    BY <2>1, <2>2
<1>5. op \in Operations /\ op.do = "disable" /\ op.list = k
  BY <1>3, <1>4 DEF Op, Operations
<1> HIDE DEF op
<1>6. PICK lists : lists = Advanced(l)
  OBVIOUS
<1>7. PICK after, s : /\ after = ListsAfter(op, lists) /\ s = StackAfter(op, lists, stack)
                      /\ cb' = after /\ stack' = s
  BY <1>1, <1>6, PerformResult
<1>8. Shape(lists, stack, thrown) /\ \A x \in Lists : lists[x] = IF x = l THEN Later(cb[l]) ELSE cb[x]
  BY <1>2, <1>4, <1>6, AdvancedShape
<1>9. Untouched(lists[k], k) /\ ~lists[k].spent /\ lists[k] \in ListRecords
  BY <1>4, <1>8 DEF Settles, Untouched, Shape
<1>10. after \in [Lists -> ListRecords] /\ Stacked(s) /\ Loops(after, s, thrown)
  BY <1>5, <1>7, <1>8, <1>9, PerformLoops DEF Shape
<1>11. after[k] = Result(op, lists[k]) /\ \A x \in Lists : x # k => after[x] = lists[x]
  BY <1>4, <1>5, <1>7, <1>8 DEF ListsAfter, Shape
<1>12. Disabled(after[k])
  BY <1>4, <1>5, <1>9, <1>11, LifeDisable
<1>13. Fired(after[l], l, {})
  <2>1. Fired(cb[l], l, {1, 2}) /\ cb[l] \in ListRecords
    BY <1>2, <1>4 DEF Settles, Shape
  <2>2. \A i \in {1, 2} : i > cb[l].index + 1 => i \in {}
    BY <1>3
  <2>3. Fired(Later(cb[l]), l, {})
    BY <1>4, <2>1, <2>2, LaterFired
  <2> QED
    BY <1>4, <1>8, <1>11, <2>3
<1>14. Shape(after, s, thrown)
  <2>1. ASSUME NEW e \in Deferreds
        PROVE  Notifies(after[<<e, "progress">>])
    BY <1>4, <1>8, <1>11, Names DEF Shape
  <2> QED
    BY <1>10, <2>1 DEF Shape
<1>15. ASSUME NEW e \in Deferreds
       PROVE  Calm(after, e)
  <2>1. CASE e = d
    BY <1>3, <1>12, <1>13, <2>1 DEF Calm
  <2>2. CASE e # d
    <3>1. \A x \in {"done", "fail"} : after[<<e, x>>] = cb[<<e, x>>] /\ after[<<e, Other(x)>>] = cb[<<e, Other(x)>>]
      BY <1>8, <1>11, <2>2, Names DEF Other
    <3> QED
      BY <2>2, <3>1 DEF Calm
  <2> QED
    BY <2>1, <2>2
<1>16. Shape(cb, stack, thrown)' /\ AllSettled'
  BY <1>1, <1>7, <1>14, <1>15, Settled
<1>17. Known(after)
  <2>1. Known(lists)
    BY <1>2, <1>4, <1>6, AdvancedCalls DEF Known
  <2> QED
    BY <1>5, <1>7, <1>8, <1>9, <2>1, PerformCalls DEF Shape
<1>18. Known(cb)' /\ HistoryTypes'
  BY <1>1, <1>2, <1>7, <1>17 DEF Known, HistoryTypes
<1> QED
  BY <1>16, <1>18, PartsNext

LEMMA KnownAdvanced ==
    ASSUME NEW l \in Lists, Shape(cb, stack, thrown), Known(cb), NEW after, after = Advanced(l)
    PROVE  Known(after)
BY AdvancedCalls DEF Known

LEMMA InternalStep ==
    ASSUME PromiseInv, NEW l \in Lists, CallInternal(l)
    PROVE  PromiseInv'
<1>1. /\ Looping(l) /\ HasNext(l) /\ Current(l).kind = "do"
      /\ Perform(Current(l).arg, Advanced(l), stack) /\ UNCHANGED <<state, made, registered, called, thrown>>
  BY DEF CallInternal, closure, history
<1>2. cb[l].firing /\ Shape(cb, stack, thrown) /\ Known(cb) /\ HistoryTypes
  BY <1>1, Turn, Parts
<1>3. CASE ~Sound(cb, stack)
  BY <1>1, <1>3, Turn, DisableStep
<1>4. CASE Sound(cb, stack)
  <2>1. PICK op : op = Current(l).arg
    OBVIOUS
  <2>2. /\ op \in Operations /\ op.do \in {"fire", "lock"}
        /\ op.do = "lock" => op.list[2] = "progress"
    <3>1. CASE Current(l) \in Given
      BY <1>1, <2>1, <3>1, DerivedOnes DEF Given, Operations
    <3>2. CASE l \in Outcomes /\ Current(l) = Settling(l[1], l[2])[3]
      <4>1. \A d, kind : Settling(d, kind)[3].arg = Op("lock", <<d, "progress">>, Nothing)
        BY OwnKinds
      <4>2. op = Op("lock", <<l[1], "progress">>, Nothing) /\ <<l[1], "progress">> \in Lists
        BY <2>1, <3>2, <4>1, Names
      <4> QED
        BY <4>2 DEF Op, Operations
    <3> QED
      BY <1>1, <1>2, <1>4, <3>1, <3>2, SoundCurrent
  <2>3. PICK lists : lists = Advanced(l)
    OBVIOUS
  <2>4. Sound(lists, stack) /\ Known(lists)
    BY <1>2, <1>4, <2>3, AdvancedKeeps, KnownAdvanced
  <2>5. HistoryTypes'
    BY <1>1, <1>2 DEF HistoryTypes
  <2> QED
    BY <1>1, <2>1, <2>2, <2>3, <2>4, <2>5, PerformStep
<1> QED
  BY <1>3, <1>4

LEMMA CountStep ==
    ASSUME PromiseInv, NEW l \in Lists, CallCount(l)
    PROVE  PromiseInv'
<1> DEFINE op == Op("fire", <<Current(l).arg, "done">>, Nothing)
<1>1. /\ Looping(l) /\ HasNext(l) /\ Current(l).kind = "count"
      /\ Perform(op, Advanced(l), stack) \/ (cb' = Advanced(l) /\ UNCHANGED stack)
      /\ UNCHANGED <<state, made, registered, called, thrown>>
  BY DEF CallCount, history
<1>2. Sound(cb, stack) /\ cb[l].firing /\ Current(l) \in Given /\ Shape(cb, stack, thrown) /\ Known(cb) /\ HistoryTypes
  BY <1>1, CallsGiven, Parts
<1>3. op \in Operations /\ op.do = "fire"
  <2>1. Current(l).arg \in Deferreds
    BY <1>1, <1>2, DerivedOnes DEF Given
  <2> QED
    BY <2>1 DEF Op, Operations, Lists
<1>4. PICK lists : lists = Advanced(l)
  OBVIOUS
<1>5. Sound(lists, stack) /\ Known(lists)
  BY <1>2, <1>4, AdvancedKeeps, KnownAdvanced
<1>6. HistoryTypes'
  BY <1>1, <1>2 DEF HistoryTypes
<1>7. CASE Perform(op, Advanced(l), stack)
  BY <1>1, <1>3, <1>4, <1>5, <1>6, <1>7, PerformStep
<1>8. CASE cb' = Advanced(l) /\ UNCHANGED stack
  <2>1. Shape(cb, stack, thrown)' /\ AllSettled'
    BY <1>1, <1>4, <1>5, <1>8, Settled DEF Sound
  <2>2. Known(cb)'
    BY <1>1, <1>4, <1>5, <1>8 DEF Known
  <2> QED
    BY <1>6, <2>1, <2>2, PartsNext
<1> QED
  BY <1>1, <1>7, <1>8

\* A list that has come to its end is not one that settles its deferred.
LEMMA AtItsEnd ==
    ASSUME PromiseInv, NEW l \in Lists, Looping(l), ~HasNext(l)
    PROVE  Sound(cb, stack) /\ cb[l].firing
BY Turn, Parts, SettlesCurrent

LEMMA RoundStep ==
    ASSUME PromiseInv, NEW l \in Lists, NextRound(l), UNCHANGED <<state, made, registered, called, thrown>>
    PROVE  PromiseInv'
<1> DEFINE c == cb[l]
<1>1. /\ Looping(l) /\ ~HasNext(l) /\ c.queue > 0 /\ UNCHANGED stack
      /\ cb' = [cb EXCEPT ![l].index = 0, ![l].queue = @ - 1, ![l].memory = TRUE]
  BY DEF NextRound
<1>2. Sound(cb, stack) /\ c.firing /\ Shape(cb, stack, thrown) /\ Known(cb) /\ HistoryTypes /\ c \in ListRecords
  BY <1>1, AtItsEnd, Parts DEF Shape
<1>3. l[2] = "progress" /\ l \notin Outcomes
  <2>1. l \in Outcomes => c.queue = 0
    BY <1>2, RunningIsFired DEF Fired
  <2> QED
    BY <1>1, <2>1, Names
<1>4. PICK r : r = [c EXCEPT !.index = 0, !.queue = @ - 1, !.memory = TRUE]
  OBVIOUS
<1>5. r \in ListRecords /\ r.opts = c.opts /\ r.list = c.list /\ r.spent = c.spent /\ r.firing = c.firing /\ r.memory
  <2>1. c.queue - 1 \in Nat
    BY <1>1, <1>2 DEF ListRecords
  <2> QED
    BY <1>2, <1>4, <2>1 DEF ListRecords
<1>6. cb' \in [Lists -> ListRecords] /\ \A k \in Lists : cb'[k] = IF k = l THEN r ELSE cb[k]
  BY <1>1, <1>2, <1>4, <1>5 DEF Shape
<1>7. Notifies(r)
  <2>1. Notifies(c) /\ ~c.spent
    <3>1. Notifies(c)
      BY <1>2, <1>3, Names DEF Shape
    <3> QED
      BY <1>2, <3>1 DEF Notifies
  <2> QED
    BY <1>5, <2>1 DEF Notifies
<1>8. Shape(cb, stack, thrown)'
  <2>1. \A k \in Lists : cb'[k].firing <=> cb[k].firing
    BY <1>5, <1>6
  <2>2. \A i \in 2 .. Len(stack) : stack[i].list \in Lists
    <3>1. \A i \in 1 .. Len(stack) : stack[i] \in Frames
      BY <1>2, ElementOfSeq DEF Shape, Stacked
    <3>2. \A i \in 2 .. Len(stack) : i \in 1 .. Len(stack)
      BY <1>2, Tops DEF Shape
    <3> QED
      BY <1>2, <3>1, <3>2 DEF Shape, Stacked, Frames
  <2>3. Loops(cb', stack, thrown)
    BY <1>2, <2>1, <2>2 DEF Shape, Loops
  <2>4. \A d \in Deferreds : Notifies(cb'[<<d, "progress">>])
    BY <1>2, <1>6, <1>7, Names DEF Shape
  <2> QED
    BY <1>1, <1>2, <1>6, <2>3, <2>4 DEF Shape
<1>9. \A k \in Outcomes : cb'[k] = cb[k]
  BY <1>3, <1>6, Names
<1>10. AllSettled'
  <2>1. ASSUME NEW d \in Deferreds
        PROVE  Calm(cb, d)'
    BY <1>2, <1>9, Names DEF Sound, Calm
  <2> QED
    BY <2>1 DEF AllSettled
<1>11. Known(cb)' /\ HistoryTypes'
  BY <1>2, <1>9 DEF Known, HistoryTypes
<1> QED
  BY <1>8, <1>10, <1>11, PartsNext

\* The loop of a list is over, and what the list remembers stays.
LEMMA Finished ==
    ASSUME PromiseInv, NEW l \in Lists, Finish(l), NEW c, c = cb[l], NEW r, r = cb'[l]
    PROVE  /\ Looping(l) /\ ~HasNext(l) /\ c.firing /\ c.memory /\ stack' = Front(stack)
           /\ cb' \in [Lists -> ListRecords] /\ \A k \in Lists \ {l} : cb'[k] = cb[k]
           /\ r \in ListRecords /\ r.opts = c.opts /\ r.index = 0 /\ ~r.firing /\ r.queue = c.queue
           /\ r.memory /\ (r.spent <=> c.spent) /\ (r.locked <=> c.locked)
           /\ r.list = IF c.locked THEN <<>> ELSE c.list
<1> DEFINE memory == c.memory /\ "memory" \in c.opts
<1>1. PICK f : f = [c EXCEPT !.firing = FALSE, !.index = 0, !.memory = memory,
                             !.list = IF c.locked THEN <<>> ELSE @, !.spent = @ \/ (c.locked /\ ~memory)]
  OBVIOUS
<1>2. Looping(l) /\ ~HasNext(l) /\ c.queue = 0 /\ cb' = [cb EXCEPT ![l] = f] /\ stack' = Front(stack)
  BY <1>1 DEF Finish, Below
<1>3. Sound(cb, stack) /\ c.firing /\ Shape(cb, stack, thrown) /\ Known(cb) /\ HistoryTypes /\ c \in ListRecords
  BY <1>2, AtItsEnd, Parts DEF Shape
<1>10. r = f
  BY <1>2, <1>3 DEF Shape
<1>4. "memory" \in c.opts /\ c.memory
  <2>1. CASE l \in Outcomes
    BY <1>3, <2>1, RunningIsFired DEF Fired
  <2>2. CASE l[2] = "progress"
    <3>1. Notifies(c)
      BY <1>3, <2>2, Names DEF Shape
    <3> QED
      BY <1>3, <3>1 DEF Notifies
  <2> QED
    BY <2>1, <2>2, Names
<1>5. /\ f \in ListRecords /\ f.opts = c.opts /\ f.index = 0 /\ ~f.firing /\ f.queue = c.queue
      /\ f.memory /\ (f.spent <=> c.spent) /\ (f.locked <=> c.locked)
      /\ f.list = IF c.locked THEN <<>> ELSE c.list
  <2>1. PICK s \in Seq(Given \cup Own) : s = IF c.locked THEN <<>> ELSE c.list
    <3>1. c.list \in Seq(Given \cup Own) /\ <<>> \in Seq(Given \cup Own)
      BY <1>3 DEF ListRecords
    <3> QED
      BY <3>1
  <2>2. f = [c EXCEPT !.firing = FALSE, !.index = 0, !.memory = TRUE, !.list = s, !.spent = c.spent]
    <3>1. memory = TRUE /\ c.spent \in BOOLEAN
      BY <1>3, <1>4 DEF ListRecords
    <3>2. (c.spent \/ (c.locked /\ ~memory)) = c.spent
      BY <3>1
    <3> HIDE DEF memory
    <3>3. f = [c EXCEPT !.firing = FALSE, !.index = 0, !.memory = memory, !.list = s,
                        !.spent = c.spent \/ (c.locked /\ ~memory)]
      BY <1>1, <2>1
    <3> QED
      BY <3>1, <3>2, <3>3
  <2> QED
    BY <1>3, <2>1, <2>2 DEF ListRecords
<1>6. cb' \in [Lists -> ListRecords] /\ \A k \in Lists \ {l} : cb'[k] = cb[k]
  BY <1>2, <1>3, <1>5, <1>10 DEF Shape
<1> QED
  BY <1>2, <1>3, <1>4, <1>5, <1>6

LEMMA FinishStep ==
    ASSUME PromiseInv, NEW l \in Lists, Finish(l), UNCHANGED <<state, made, registered, called, thrown>>
    PROVE  PromiseInv'
<1> DEFINE c == cb[l]
<1>1. PICK r : r = cb'[l]
  OBVIOUS
<1>2. Looping(l) /\ ~HasNext(l) /\ c.firing /\ c.memory /\ stack' = Front(stack)
  BY Finished
<1>3. Sound(cb, stack) /\ c.firing /\ Shape(cb, stack, thrown) /\ Known(cb) /\ HistoryTypes /\ c \in ListRecords
  BY <1>2, AtItsEnd, Parts DEF Shape
<1>5. /\ r \in ListRecords /\ r.opts = c.opts /\ r.index = 0 /\ ~r.firing /\ r.queue = c.queue
      /\ r.memory /\ (r.spent <=> c.spent) /\ (r.locked <=> c.locked)
      /\ r.list = IF c.locked THEN <<>> ELSE c.list
  BY <1>1, Finished
<1>6. cb' \in [Lists -> ListRecords] /\ \A k \in Lists : cb'[k] = IF k = l THEN r ELSE cb[k]
  BY <1>1, Finished
<1>7. /\ Len(stack) \in Nat \ {0, 1} /\ stack[Len(stack)].list = l
      /\ Front(stack) \in Seq(Frames) /\ Len(Front(stack)) = Len(stack) - 1
      /\ \A i \in 1 .. Len(stack) - 1 : Front(stack)[i] = stack[i]
  <2>1. Top = stack[Len(stack)] /\ Top.list = l /\ l # Nothing /\ stack[1].list = Nothing
    BY <1>2, <1>3, Tops DEF Looping, Top, Shape, Stacked
  <2> QED
    BY <1>3, <2>1, Tops DEF Shape
<1>8. Within(Front(stack), stack)
  BY <1>7 DEF Within
<1>9. Stacked(Front(stack)) /\ Loops(cb', Front(stack), thrown)
  <2>1. Stacked(Front(stack))
    <3>1. Shape(cb, Front(stack), TRUE)
      BY <1>3, <1>8, ShapeWithin
    <3> QED
      BY <3>1 DEF Shape
  <2>2. \A i \in 2 .. Len(stack) - 1 : /\ i \in 2 .. Len(stack) /\ Front(stack)[i].list = stack[i].list
                                       /\ stack[i].list # l
    BY <1>3, <1>7 DEF Shape, Loops
  <2>3. \A i \in 2 .. Len(stack) - 1 : stack[i].list \in Lists
    <3>1. \A i \in 1 .. Len(stack) : stack[i] \in Frames
      BY <1>3, ElementOfSeq DEF Shape, Stacked
    <3>2. \A i \in 1 .. Len(stack) : stack[i].list \in Lists \cup {Nothing}
      BY <3>1 DEF Frames
    <3> QED
      BY <1>3, <1>7, <3>2 DEF Shape, Stacked
  <2>4. \A k \in Lists : cb'[k].firing => k # l /\ cb[k].firing
    BY <1>5, <1>6
  <2>5. \A i, j \in 2 .. Len(Front(stack)) : Front(stack)[i].list = Front(stack)[j].list => i = j
    BY <1>3, <1>7, <2>2 DEF Shape, Loops
  <2>6. \A i \in 2 .. Len(Front(stack)) : cb'[Front(stack)[i].list].firing
    BY <1>3, <1>6, <1>7, <2>2, <2>3 DEF Shape, Loops
  <2>7. ASSUME ~thrown, NEW k \in Lists, cb'[k].firing
        PROVE  \E i \in 2 .. Len(Front(stack)) : Front(stack)[i].list = k
    <3>1. PICK i \in 2 .. Len(stack) : stack[i].list = k
      BY <1>3, <2>4, <2>7 DEF Shape, Loops
    <3>2. i # Len(stack)
      BY <1>7, <2>4, <2>7, <3>1
    <3> QED
      BY <1>7, <2>2, <3>1, <3>2
  <2> QED
    BY <2>1, <2>5, <2>6, <2>7 DEF Loops
<1>10. ASSUME NEW d \in Deferreds
       PROVE  Notifies(cb'[<<d, "progress">>])
  <2>1. Notifies(cb[<<d, "progress">>]) /\ <<d, "progress">> \in Lists
    BY <1>3, Names DEF Shape
  <2>2. CASE <<d, "progress">> = l
    <3>1. \A i \in 1 .. Len(r.list) : i \in 1 .. Len(c.list) /\ r.list[i] = c.list[i]
      BY <1>5
    <3>2. /\ c.opts = {"memory"} /\ (c.spent => c.locked /\ ~c.memory)
          /\ \A i \in 1 .. Len(c.list) : c.list[i] \in Given
      BY <2>1, <2>2 DEF Notifies
    <3>3. r.opts = {"memory"} /\ ~r.firing /\ ~r.spent /\ \A i \in 1 .. Len(r.list) : r.list[i] \in Given
      BY <1>2, <1>5, <3>1, <3>2
    <3>4. Notifies(r)
      BY <3>3 DEF Notifies
    <3> QED
      BY <1>6, <2>1, <2>2, <3>4
  <2> QED
    BY <1>6, <2>1, <2>2
<1>11. Shape(cb, stack, thrown)'
  BY <1>2, <1>6, <1>9, <1>10 DEF Shape
<1>12. ASSUME NEW d \in Deferreds
       PROVE  Calm(cb, d)'
  <2>1. Calm(cb, d)
    BY <1>3 DEF Sound
  <2>2. CASE l \notin {<<d, "done">>, <<d, "fail">>}
    BY <1>6, <2>1, <2>2, Names DEF Calm, Other
  <2>3. ASSUME NEW kind \in {"done", "fail"}, l = <<d, kind>>
        PROVE  Calm(cb, d)'
    <3>1. l \in Outcomes
      BY <2>3, Names
    <3>2. Fired(c, l, {}) /\ ~Untouched(c, l) /\ ~Disabled(c)
      BY <1>3, <3>1, RunningIsFired
    <3>3. Fired(r, l, {})
      BY <1>5, <3>2 DEF Fired
    <3>4. cb'[l] = r /\ cb'[<<d, Other(kind)>>] = cb[<<d, Other(kind)>>]
      <4>1. <<d, Other(kind)>> \in Outcomes /\ Other(kind) # kind /\ Outcomes \subseteq Lists
        BY Names
      <4> QED
        BY <1>6, <2>3, <4>1
    <3>5. state[d] = StateOf(kind) /\ Disabled(cb[<<d, Other(kind)>>])
      <4>1. \A k \in {"done", "fail"} : k = kind \/ Other(k) = kind
        BY DEF Other
      <4> QED
        BY <2>1, <2>3, <3>2, <4>1 DEF Calm
    <3> QED
      BY <2>3, <3>3, <3>4, <3>5 DEF Calm
  <2> QED
    BY <2>2, <2>3
<1>13. ASSUME NEW k \in Outcomes
       PROVE  CalledOnce(cb'[k], ToSet(called[k]), ToSet(registered[k]))
  <2>1. CalledOnce(cb[k], ToSet(called[k]), ToSet(registered[k])) /\ k \in Lists
    BY <1>3, Names DEF Known
  <2>2. CASE k = l
    <3>1. r.list = <<>>
      BY <1>3, <1>5, <2>2, RunningIsFired DEF Fired
    <3> QED
      BY <1>5, <1>6, <2>1, <2>2, <3>1, FewerCalls
  <2> QED
    BY <1>6, <2>1, <2>2
<1>14. Known(cb)' /\ HistoryTypes'
  BY <1>3, <1>13 DEF Known, HistoryTypes
<1> QED
  BY <1>11, <1>12, <1>14, PartsNext DEF AllSettled

LEMMA FrameOf ==
    ASSUME NEW l \in Lists, NEW ops \in Seq(Rest)
    PROVE  /\ Frame(l) \in Frames /\ Frame(l).list = l
           /\ [Frame(l) EXCEPT !.todo = ops] \in Frames /\ [Frame(l) EXCEPT !.todo = ops].list = l
<1>1. <<>> \in Seq(Rest)
  OBVIOUS
<1>2. Frame(l) \in Frames /\ Frame(l).list = l
  BY <1>1 DEF Frame, Frames
<1> QED
  BY <1>2, FrameChanges

LEMMA ReturnStep ==
    ASSUME PromiseInv, NEW l \in Lists, ReturnUser(l)
    PROVE  PromiseInv'
<1>1. /\ PageRuns /\ Top.list = l /\ stack' = Append(Front(stack), Frame(l))
      /\ UNCHANGED <<cb, state, made, registered, called, thrown>>
  BY DEF ReturnUser, Return, Below, closure, history
<1>2. Sound(cb, stack) /\ Known(cb) /\ HistoryTypes /\ Stacked(stack)
  BY <1>1, Quiet, Parts DEF Shape
<1>3. <<>> \in Seq(Rest)
  OBVIOUS
<1>4. PICK f \in Frames : f = Frame(l) /\ f.list = l
  BY <1>3, FrameOf
<1>5. PICK s : s = Append(Front(stack), f) /\ stack' = s
  BY <1>1, <1>4
<1>6. Within(s, stack) /\ Len(s) = Len(stack)
  BY <1>1, <1>2, <1>4, <1>5, TopReturns DEF Top
<1>7. HistoryTypes'
  BY <1>1, <1>2 DEF HistoryTypes
<1> QED
  BY <1>1, <1>2, <1>5, <1>6, <1>7, TopStep

LEMMA ValueStep ==
    ASSUME PromiseInv, NEW l \in Lists, ThenValue(l)
    PROVE  PromiseInv'
<1> DEFINE op == Op("fire", Top.running.arg, Nothing)
<1>1. /\ PageRuns /\ Top.list = l /\ Top.running.kind = "then"
      /\ Perform(op, cb, Append(Front(stack), Frame(l)))
      /\ UNCHANGED <<state, made, registered, called, thrown>>
  BY DEF ThenValue, Below, closure, history
<1>2. Sound(cb, stack) /\ Known(cb) /\ HistoryTypes /\ Stacked(stack)
  BY <1>1, Quiet, Parts DEF Shape
<1>3. <<>> \in Seq(Rest)
  OBVIOUS
<1>4. PICK f \in Frames : f = Frame(l) /\ f.list = l
  BY <1>3, FrameOf
<1>5. PICK s : s = Append(Front(stack), f)
  OBVIOUS
<1>6. Within(s, stack) /\ Len(s) = Len(stack)
  BY <1>1, <1>2, <1>4, <1>5, TopReturns DEF Top
<1>7. HistoryTypes'
  BY <1>1, <1>2 DEF HistoryTypes
<1>8. op \in Operations /\ op.do = "fire"
  <2>1. Top.running \in {Nothing, Callback("task", Nothing)} \cup Given
    BY <1>2, Tops DEF Top, Frames
  <2>2. Top.running # Nothing /\ Callback("task", Nothing).kind = "task"
    BY <1>1 DEF PageRuns, Callback
  <2>3. Top.running \in Given
    BY <1>1, <2>1, <2>2
  <2>4. Top.running.arg \in Lists
    BY <1>1, <2>3, DerivedOnes DEF Given
  <2> QED
    BY <2>4 DEF Op, Operations
<1>9. Sound(cb, s) /\ Perform(op, cb, s)
  BY <1>1, <1>2, <1>4, <1>5, <1>6, SoundWithin
<1> QED
  BY <1>1, <1>2, <1>7, <1>8, <1>9, PerformStep

LEMMA AnswerStep ==
    ASSUME PromiseInv, NEW l \in Lists, NEW r \in Deferreds, ThenPromise(l, r)
    PROVE  PromiseInv'
<1> DEFINE c == Top.running.arg[1]
           ops == <<Op("add", <<r, "progress">>, Notify(c)), Op("add", <<r, "done">>, Resolve(c)),
                    Op("add", <<r, "fail">>, Reject(c))>>
<1>1. /\ PageRuns /\ Top.list = l /\ Top.running.kind = "then"
      /\ stack' = Append(Front(stack), [Frame(l) EXCEPT !.todo = ops])
      /\ UNCHANGED <<cb, state, made, registered, called, thrown>>
  BY DEF ThenPromise, Below, closure, history
<1>2. Sound(cb, stack) /\ Known(cb) /\ HistoryTypes /\ Stacked(stack)
  BY <1>1, Quiet, Parts DEF Shape
<1>3. ops \in Seq(Rest)
  <2>1. Top.running \in {Nothing, Callback("task", Nothing)} \cup Given
    BY <1>2, Tops DEF Top, Frames
  <2>2. Top.running # Nothing /\ Callback("task", Nothing).kind = "task"
    BY <1>1 DEF PageRuns, Callback
  <2>3. Top.running \in Given
    BY <1>1, <2>1, <2>2
  <2>4. c \in Derived
    BY <1>1, <2>3, DerivedOnes DEF Given
  <2> HIDE DEF c
  <2>5. /\ Op("add", <<r, "progress">>, Notify(c)) \in Rest /\ Op("add", <<r, "done">>, Resolve(c)) \in Rest
        /\ Op("add", <<r, "fail">>, Reject(c)) \in Rest
    BY <2>4, Names, GivenByItself, TodoOf
  <2> QED
    BY <2>5
<1> HIDE DEF ops
<1>4. PICK f \in Frames : f = [Frame(l) EXCEPT !.todo = ops] /\ f.list = l
  BY <1>3, FrameOf
<1>5. PICK s : s = Append(Front(stack), f) /\ stack' = s
  BY <1>1, <1>4
<1>6. Within(s, stack) /\ Len(s) = Len(stack)
  BY <1>1, <1>2, <1>4, <1>5, TopReturns DEF Top
<1>7. HistoryTypes'
  BY <1>1, <1>2 DEF HistoryTypes
<1> QED
  BY <1>1, <1>2, <1>5, <1>6, <1>7, TopStep

\* The document's readiness, and what leaves everything as it is.
LEMMA StillStep ==
    ASSUME PromiseInv, UNCHANGED <<cb, stack, state, made, registered, called, thrown>>
    PROVE  PromiseInv'
<1>1. HistoryTypes' /\ Shape(cb, stack, thrown)' /\ Known(cb)'
  BY Parts DEF HistoryTypes, Shape, Known
<1>2. AllSettled'
  <2>1. ASSUME NEW d \in Deferreds, Calm(cb, d)
        PROVE  Calm(cb, d)'
    BY <2>1 DEF Calm
  <2>2. ASSUME NEW d \in Deferreds, NEW kind \in {"done", "fail"}, Settles(d, kind)
        PROVE  Settles(d, kind)'
    BY <2>2 DEF Settles, Looping, Top
  <2> QED
    BY <2>1, <2>2, Parts DEF AllSettled
<1> QED
  BY <1>1, <1>2, PartsNext

LEMMA ReadyStep ==
    ASSUME PromiseInv, Release \/ Completed
    PROVE  PromiseInv'
<1> DEFINE op == Op("fire", <<ReadyList, "done">>, Nothing)
<1>1. /\ PageRuns \/ Len(stack) = 1
      /\ Perform(op, cb, stack) \/ UNCHANGED <<cb, stack>>
      /\ UNCHANGED <<state, made, registered, called, thrown>>
  BY DEF Release, Completed, Calling, Idle, ResolveReady, closure, history
<1>2. Sound(cb, stack) /\ Known(cb) /\ HistoryTypes
  BY <1>1, Quiet, Parts
<1>3. op \in Operations /\ op.do = "fire"
  BY DeferredAssumption, ReadyAssumption DEF Op, Operations, Lists
<1>4. HistoryTypes'
  BY <1>1, <1>2 DEF HistoryTypes
<1> QED
  BY <1>1, <1>2, <1>3, <1>4, PerformStep, StillStep

LEMMA InitHolds == Init => PromiseInv
<1> SUFFICES ASSUME Init
             PROVE  PromiseInv
  OBVIOUS
<1>1. stack = <<[list |-> Nothing, running |-> Callback("task", Nothing), todo |-> <<>>]>>
  BY DEF Init
<1>2. ASSUME NEW l \in Lists
      PROVE  cb[l] = NewDeferred(l)
  BY <1>2 DEF Init
<1>3. ASSUME NEW l \in Outcomes
      PROVE  /\ cb[l] = Fresh({"once", "memory"}, Settling(l[1], l[2]))
             /\ Settling(l[1], l[2]) \in Seq(Given \cup Own) /\ Len(Settling(l[1], l[2])) = 3
  <2>1. PICK d \in Deferreds, kind \in {"done", "fail"} : l = <<d, kind>>
    BY DEF Outcomes
  <2>2. l \in Lists /\ l[1] = d /\ l[2] = kind /\ kind # "progress"
    BY <2>1, Names
  <2>3. cb[l] = Fresh({"once", "memory"}, Settling(d, kind))
    BY <1>2, <2>2 DEF NewDeferred
  <2>4. /\ Callback("settle", <<d, StateOf(kind)>>) \in Own
        /\ Internal(Op("disable", <<d, Other(kind)>>, Nothing)) \in Own
        /\ Internal(Op("lock", <<d, "progress">>, Nothing)) \in Own
    BY DEF Callback, Internal, Op, Own, Lists, StateOf, Other
  <2>5. Settling(d, kind) \in Seq(Given \cup Own) /\ Len(Settling(d, kind)) = 3
    BY <2>4 DEF Settling
  <2> QED
    BY <2>2, <2>3, <2>5
<1>4. ASSUME NEW d \in Deferreds
      PROVE  cb[<<d, "progress">>] = Fresh({"memory"}, <<>>)
  BY <1>2, Names DEF NewDeferred
<1>5. ASSUME NEW opts \in SUBSET {"once", "memory"}, NEW fns \in Seq(Given \cup Own), NEW c, c = Fresh(opts, fns)
      PROVE  /\ c \in ListRecords
             /\ c.opts = opts /\ c.list = fns /\ c.index = 0 /\ c.queue = 0
             /\ ~c.spent /\ ~c.memory /\ ~c.locked /\ ~c.firing
  BY <1>5 DEF Fresh, ListRecords
<1>6. ASSUME NEW l \in Outcomes
      PROVE  /\ cb[l] \in ListRecords
             /\ cb[l].opts = {"once", "memory"} /\ cb[l].list = Settling(l[1], l[2]) /\ Len(cb[l].list) = 3
             /\ cb[l].index = 0 /\ cb[l].queue = 0
             /\ ~cb[l].spent /\ ~cb[l].memory /\ ~cb[l].locked /\ ~cb[l].firing
  BY <1>3, <1>5
<1>7. ASSUME NEW d \in Deferreds, NEW c, c = cb[<<d, "progress">>]
      PROVE  c \in ListRecords /\ c.opts = {"memory"} /\ c.list = <<>> /\ ~c.spent /\ ~c.firing
  <2>1. <<>> \in Seq(Given \cup Own)
    OBVIOUS
  <2>2. {"memory"} \in SUBSET {"once", "memory"} /\ c = Fresh({"memory"}, <<>>)
    BY <1>4, <1>7
  <2> QED
    BY <1>5, <2>1, <2>2
<1>8. ASSUME NEW l \in Lists, l[2] = "progress"
      PROVE  l[1] \in Deferreds /\ l = <<l[1], "progress">>
  BY <1>8, Names
<1>9. cb \in [Lists -> ListRecords]
  <2>1. ASSUME NEW l \in Lists
        PROVE  cb[l] \in ListRecords
    <3>1. CASE l \in Outcomes
      BY <1>6, <3>1
    <3>2. CASE l[2] = "progress"
      BY <1>7, <1>8, <3>2
    <3> QED
      BY <3>1, <3>2, Names
  <2> QED
    BY <2>1 DEF Init
<1>10. Stacked(stack) /\ Len(stack) = 1
  <2>1. <<>> \in Seq(Rest)
    OBVIOUS
  <2>2. [list |-> Nothing, running |-> Callback("task", Nothing), todo |-> <<>>] \in Frames
    BY <2>1 DEF Frames
  <2> QED
    BY <1>1, <2>2 DEF Stacked
<1>11. ASSUME NEW l \in Lists
      PROVE  ~cb[l].firing
  BY <1>6, <1>7, <1>8, Names
<1>12. Shape(cb, stack, thrown)
  <2>1. Loops(cb, stack, thrown)
    BY <1>10, <1>11 DEF Loops
  <2>2. ASSUME NEW d \in Deferreds
        PROVE  Notifies(cb[<<d, "progress">>])
    BY <1>7 DEF Notifies
  <2> QED
    BY <1>9, <1>10, <2>1, <2>2 DEF Shape
<1>13. ASSUME NEW l \in Outcomes
       PROVE  Untouched(cb[l], l) /\ CalledOnce(cb[l], ToSet(called[l]), ToSet(registered[l]))
  <2>1. /\ cb[l].list = Settling(l[1], l[2]) /\ cb[l].index = 0 /\ Len(cb[l].list) = 3
    BY <1>6
  <2>2. Untouched(cb[l], l)
    <3>1. \A i \in 1 .. Len(cb[l].list) : i <= 3
      BY <2>1
    <3> QED
      BY <1>6, <2>1, <3>1 DEF Untouched
  <2>3. ASSUME NEW i \in 1 .. Len(cb[l].list)
        PROVE  cb[l].list[i].kind # "user"
    <3>1. i = 1 \/ i = 2 \/ i = 3
      BY <2>1
    <3>2. \A d, kind : /\ Settling(d, kind)[1].kind = "settle" /\ Settling(d, kind)[2].kind = "do"
                       /\ Settling(d, kind)[3].kind = "do"
      BY OwnKinds
    <3> QED
      BY <2>1, <3>1, <3>2
  <2>4. called[l] = <<>> /\ registered[l] = <<>>
    BY Names DEF Init
  <2> QED
    BY <2>2, <2>3, <2>4 DEF CalledOnce
<1>14. AllSettled /\ Known(cb)
  <2>1. \A d \in Deferreds : state[d] = "pending"
    BY DEF Init
  <2> QED
    BY <1>13, <2>1, Names DEF AllSettled, Calm, Known
<1>15. HistoryTypes
  BY DeferredAssumption DEF Init, HistoryTypes
<1> QED
  BY <1>12, <1>14, <1>15, Parts
-----------------------------------------------------------------------------
(***************************************************************************)
(* What the steps come to, all together.                                   *)
(***************************************************************************)

\* A step settles a deferred, calls a function of the page, or does neither.
SettlesOne ==
    /\ UNCHANGED called
    /\ \E d \in Deferreds, o \in {"resolved", "rejected"} :
         state[d] = "pending" /\ state' = [state EXCEPT ![d] = o]

CallsOne ==
    \E l \in Lists :
        /\ CallUser(l) /\ UNCHANGED state
        /\ l \in Outcomes /\ Current(l).kind = "user" =>
             /\ state[l[1]] = StateOf(l[2])
             /\ Current(l).arg \in Fns /\ Current(l).arg \notin ToSet(called[l])
             /\ ToSet(called'[l]) = ToSet(called[l]) \cup {Current(l).arg}

LEMMA PageStep ==
    ASSUME PromiseInv, Page
    PROVE  PromiseInv' /\ UNCHANGED <<state, called>>
<1>1. ASSUME NEW l \in Lists, AddOne(l)
      PROVE  PromiseInv' /\ UNCHANGED <<state, called>>
  BY <1>1, AddStep DEF AddOne, CallList, closure
<1>2. ASSUME NEW d \in Deferreds, NEW kind \in {"done", "fail", "progress"}, Settle(d, kind)
      PROVE  PromiseInv' /\ UNCHANGED <<state, called>>
  BY <1>2, SettleStep DEF Settle, CallList, closure
<1>3. ASSUME NEW d \in Deferreds, NEW c \in Deferreds, CallThen(d, c)
      PROVE  PromiseInv' /\ UNCHANGED <<state, called>>
  BY <1>3, CallThenStep DEF CallThen
<1>4. ASSUME NEW m \in Deferreds, NEW ds \in SUBSET Deferreds, NEW values \in 0 .. 1, CallWhen(m, ds, values)
      PROVE  PromiseInv' /\ UNCHANGED <<state, called>>
  BY <1>4, CallWhenStep DEF CallWhen
<1>5. ASSUME NEW catcher \in 1 .. Len(stack), ThrowTo(catcher)
      PROVE  PromiseInv' /\ UNCHANGED <<state, called>>
  BY <1>5, ThrowStep DEF ThrowTo, closure
<1> QED
  BY <1>1, <1>2, <1>3, <1>4, <1>5 DEF Page

LEMMA EngineStep ==
    ASSUME PromiseInv, Engine
    PROVE  PromiseInv' /\ (UNCHANGED <<state, called>> \/ SettlesOne \/ CallsOne)
<1>1. CASE TodoStep
  BY <1>1, TodoNextStep DEF TodoStep, closure, history
<1>2. ASSUME NEW l \in {Top.list} \ {Nothing},
             \/ CallUser(l) \/ CallSettle(l) \/ CallInternal(l) \/ CallCount(l)
             \/ (NextRound(l) \/ Finish(l)) /\ UNCHANGED <<closure, history, calls>>
             \/ ReturnUser(l) \/ ThenValue(l)
             \/ \E r \in Deferreds : ThenPromise(l, r)
      PROVE  PromiseInv' /\ (UNCHANGED <<state, called>> \/ SettlesOne \/ CallsOne)
  <2>1. l \in Lists
    BY <1>2, TopList
  <2>2. CASE CallUser(l)
    <3>1. UNCHANGED state
      BY <2>2 DEF CallUser, closure
    <3> QED
      BY <2>1, <2>2, <3>1, UserStep DEF CallsOne
  <2>3. CASE CallSettle(l)
    <3>1. UNCHANGED called
      BY <2>3 DEF CallSettle, history
    <3> QED
      BY <2>1, <2>3, <3>1, SettleCallStep DEF SettlesOne
  <2>4. CASE CallInternal(l)
    BY <2>1, <2>4, InternalStep DEF CallInternal, closure, history
  <2>5. CASE CallCount(l)
    BY <2>1, <2>5, CountStep DEF CallCount, history
  <2>6. CASE (NextRound(l) \/ Finish(l)) /\ UNCHANGED <<closure, history, calls>>
    <3>1. UNCHANGED <<state, made, registered, called, thrown>>
      BY <2>6 DEF closure, history
    <3> QED
      BY <2>1, <2>6, <3>1, RoundStep, FinishStep
  <2>7. CASE ReturnUser(l)
    BY <2>1, <2>7, ReturnStep DEF ReturnUser, closure, history
  <2>8. CASE ThenValue(l)
    BY <2>1, <2>8, ValueStep DEF ThenValue, closure, history
  <2>9. ASSUME NEW r \in Deferreds, ThenPromise(l, r)
        PROVE  PromiseInv' /\ UNCHANGED <<state, called>>
    BY <2>1, <2>9, AnswerStep DEF ThenPromise, closure, history
  <2> QED
    BY <1>2, <2>2, <2>3, <2>4, <2>5, <2>6, <2>7, <2>8, <2>9
<1> QED
  BY <1>1, <1>2 DEF Engine

LEMMA EveryStep ==
    ASSUME PromiseInv, [ReadyNext]_readyVars
    PROVE  PromiseInv' /\ (UNCHANGED <<state, called>> \/ SettlesOne \/ CallsOne)
<1>1. CASE Next
  BY <1>1, PageStep, EngineStep DEF Next
<1>2. CASE Hold \/ UNCHANGED readyVars
  <2>1. UNCHANGED <<cb, stack, state, made, registered, called, thrown>>
    BY <1>2 DEF Hold, readyVars, vars, closure, history
  <2> QED
    BY <2>1, StillStep
<1>3. CASE Release \/ Completed
  <2>1. UNCHANGED <<state, called>>
    BY <1>3 DEF Release, Completed, ResolveReady, closure, history
  <2> QED
    BY <1>3, <2>1, ReadyStep
<1> QED
  BY <1>1, <1>2, <1>3 DEF ReadyNext

\* The invariant of the lists: whatever the page's functions do to the lists that call
\* them, each outcome's list is untouched, has been fired, or is disabled; and a list
\* that was fired sets the state and disables the other one before anything else runs.
THEOREM Invariance == ReadySpec => []PromiseInv
<1>1. ReadyInit => PromiseInv
  BY InitHolds DEF ReadyInit
<1>2. PromiseInv /\ [ReadyNext]_readyVars => PromiseInv'
  BY EveryStep
<1> QED
  BY <1>1, <1>2, PTL DEF ReadySpec

\* No loop of a list runs inside another one of the same list, and "firing" says that
\* one does, unless an exception took it away.
THEOREM OneLoopHolds == ReadySpec => []OneLoopPerList
<1>1. PromiseInv => OneLoopPerList
  BY DEF PromiseInv
<1> QED
  BY <1>1, Invariance, PTL
-----------------------------------------------------------------------------
(***************************************************************************)
(* The refinement.                                                         *)
(***************************************************************************)

Heard ==
    [d \in Deferreds |-> [o \in {"resolved", "rejected"} |->
        ToSet(called[<<d, IF o = "resolved" THEN "done" ELSE "fail">>])]]

LEMMA PromiseInit == Init => P!Init
<1> SUFFICES ASSUME Init
             PROVE  P!Init
  OBVIOUS
<1>1. state = [d \in Deferreds |-> "pending"]
  BY DEF Init
<1>2. ASSUME NEW d \in Deferreds, NEW o \in {"resolved", "rejected"}
      PROVE  ToSet(called[<<d, IF o = "resolved" THEN "done" ELSE "fail">>]) = {}
  <2>1. <<d, IF o = "resolved" THEN "done" ELSE "fail">> \in Lists
    BY DEF Lists
  <2>2. called[<<d, IF o = "resolved" THEN "done" ELSE "fail">>] = <<>>
    BY <2>1 DEF Init
  <2> QED
    BY <2>2 DEF ToSet
<1> QED
  BY <1>1, <1>2 DEF P!Init

\* Setting the state settles the promise, ...
LEMMA SettlesRefines ==
    ASSUME SettlesOne
    PROVE  P!Next
<1>1. PICK d \in Deferreds, o \in {"resolved", "rejected"} :
        state[d] = "pending" /\ state' = [state EXCEPT ![d] = o] /\ UNCHANGED called
  BY DEF SettlesOne
<1>2. P!Settle(d, o)
  BY <1>1 DEF P!Settle
<1> QED
  BY <1>2 DEF P!Next

\* ... and the functions that wait for an outcome hear of it, each at most once.
LEMMA CallsRefine ==
    ASSUME PromiseInv, PromiseInv', CallsOne
    PROVE  P!Next \/ UNCHANGED P!vars
<1>1. PICK l \in Lists :
        /\ CallUser(l) /\ UNCHANGED state
        /\ l \in Outcomes /\ Current(l).kind = "user" =>
             /\ state[l[1]] = StateOf(l[2])
             /\ Current(l).arg \in Fns /\ Current(l).arg \notin ToSet(called[l])
             /\ ToSet(called'[l]) = ToSet(called[l]) \cup {Current(l).arg}
  BY DEF CallsOne
<1>2. /\ called \in [Lists -> Seq(Fns)] /\ called' \in [Lists -> Seq(Fns)]
      /\ \A k \in Lists : k # l \/ Current(l).kind # "user" => called'[k] = called[k]
  <2>1. called \in [Lists -> Seq(Fns)] /\ called' \in [Lists -> Seq(Fns)]
    BY Parts, PartsNext DEF HistoryTypes
  <2>2. called' = IF Current(l).kind = "user" THEN [called EXCEPT ![l] = Append(@, Current(l).arg)] ELSE called
    BY <1>1 DEF CallUser
  <2>3. ASSUME NEW k \in Lists, k # l \/ Current(l).kind # "user"
        PROVE  called'[k] = called[k]
    BY <2>1, <2>2, <2>3
  <2> QED
    BY <2>1, <2>3
<1>3. CASE l \in Outcomes /\ Current(l).kind = "user"
  <2>1. PICK d \in Deferreds, kind \in {"done", "fail"} : l = <<d, kind>>
    BY <1>3 DEF Outcomes
  <2>2. PICK f \in Fns : f = Current(l).arg
    BY <1>1, <1>3
  <2>3. /\ state[d] = StateOf(kind) /\ f \notin ToSet(called[l]) /\ ToSet(called'[l]) = ToSet(called[l]) \cup {f}
    BY <1>1, <1>3, <2>1, <2>2
  <2>4. ASSUME NEW e \in Deferreds, NEW o \in {"resolved", "rejected"}
        PROVE  /\ Heard[e][o] = ToSet(called[<<e, IF o = "resolved" THEN "done" ELSE "fail">>])
               /\ Heard'[e][o] = ToSet(called'[<<e, IF o = "resolved" THEN "done" ELSE "fail">>])
    BY DEF Heard
  <2>5. /\ StateOf(kind) \in {"resolved", "rejected"} /\ StateOf(kind) # "pending"
        /\ (IF StateOf(kind) = "resolved" THEN "done" ELSE "fail") = kind
    BY DEF StateOf
  <2>6. f \notin Heard[d][StateOf(kind)]
    BY <2>1, <2>3, <2>4, <2>5
  <2>7. Heard' = [Heard EXCEPT ![d][StateOf(kind)] = @ \cup {f}]
    <3>1. ASSUME NEW e \in Deferreds, NEW o \in {"resolved", "rejected"}
          PROVE  Heard'[e][o] = IF e = d /\ o = StateOf(kind) THEN Heard[d][StateOf(kind)] \cup {f} ELSE Heard[e][o]
      <4>1. CASE e = d /\ o = StateOf(kind)
        BY <2>1, <2>3, <2>4, <2>5, <4>1
      <4>2. CASE ~(e = d /\ o = StateOf(kind))
        <5>1. PICK k : k = IF o = "resolved" THEN "done" ELSE "fail"
          OBVIOUS
        <5>2. <<e, k>> \in Lists /\ <<e, k>> # l
          BY <2>1, <4>2, <5>1 DEF Lists, StateOf
        <5> QED
          BY <1>2, <2>4, <4>2, <5>1, <5>2
      <4> QED
        BY <4>1, <4>2
    <3>2. ASSUME NEW e \in Deferreds
          PROVE  /\ Heard[e] = [o \in {"resolved", "rejected"} |-> Heard[e][o]]
                 /\ Heard'[e] = [o \in {"resolved", "rejected"} |-> Heard'[e][o]]
      BY DEF Heard
    <3>3. Heard'[d] = [Heard[d] EXCEPT ![StateOf(kind)] = @ \cup {f}]
      <4>1. PICK g : g = Heard[d] /\ g = [o \in {"resolved", "rejected"} |-> g[o]]
        BY <3>2
      <4>2. PICK h : h = Heard'[d] /\ h = [o \in {"resolved", "rejected"} |-> h[o]]
        BY <3>2
      <4>3. PICK x \in {"resolved", "rejected"} : x = StateOf(kind)
        BY <2>5
      <4>4. \A o \in {"resolved", "rejected"} : h[o] = IF o = x THEN g[x] \cup {f} ELSE g[o]
        BY <3>1, <4>1, <4>2, <4>3
      <4>5. h = [g EXCEPT ![x] = g[x] \cup {f}]
        BY <4>1, <4>2, <4>4
      <4> QED
        BY <4>1, <4>2, <4>3, <4>5
    <3>4. ASSUME NEW e \in Deferreds, e # d
          PROVE  Heard'[e] = Heard[e]
      BY <3>1, <3>2, <3>4
    <3>5. Heard = [e \in Deferreds |-> Heard[e]] /\ Heard' = [e \in Deferreds |-> Heard'[e]]
      BY DEF Heard
    <3> QED
      BY <3>3, <3>4, <3>5
  <2>8. P!Hear(d, f)
    BY <1>1, <2>3, <2>5, <2>6, <2>7 DEF P!Hear, Heard
  <2> QED
    BY <2>8 DEF P!Next
<1>4. CASE ~(l \in Outcomes /\ Current(l).kind = "user")
  <2>1. ASSUME NEW d \in Deferreds, NEW o \in {"resolved", "rejected"}
        PROVE  called'[<<d, IF o = "resolved" THEN "done" ELSE "fail">>]
                 = called[<<d, IF o = "resolved" THEN "done" ELSE "fail">>]
    <3>1. <<d, IF o = "resolved" THEN "done" ELSE "fail">> \in Outcomes
      BY DEF Outcomes
    <3> QED
      BY <1>2, <1>4, <3>1, Names
  <2> QED
    BY <1>1, <2>1 DEF P!vars
<1> QED
  BY <1>3, <1>4

\* A deferred is a promise.
THEOREM Refinement == ReadySpec => ImplementsPromise
<1>1. ReadyInit => P!Init
  BY PromiseInit DEF ReadyInit
<1>2. PromiseInv /\ PromiseInv' /\ [ReadyNext]_readyVars => [P!Next]_P!vars
  <2> SUFFICES ASSUME PromiseInv, PromiseInv', [ReadyNext]_readyVars
               PROVE  [P!Next]_P!vars
    OBVIOUS
  <2>1. CASE UNCHANGED <<state, called>>
    BY <2>1 DEF P!vars
  <2>2. CASE SettlesOne
    BY <2>2, SettlesRefines
  <2>3. CASE CallsOne
    BY <2>3, CallsRefine
  <2> QED
    BY <2>1, <2>2, <2>3, EveryStep
<1> QED
  BY <1>1, <1>2, Invariance, PTL DEF ReadySpec, ImplementsPromise, P!Spec
-----------------------------------------------------------------------------
(***************************************************************************)
(* How a step changes the lists.                                           *)
(***************************************************************************)

\* A list runs whose next function is none of the page's.
Passing(l) == Looping(l) /\ cb[l].firing /\ HasNext(l) /\ Current(l).kind # "user"

\* An operation other than the page's adding a function of its own.  A list is disabled
\* only by the other one of its deferred, which has been fired.
Operates(op, lists) ==
    /\ cb' = ListsAfter(op, lists)
    /\ lists[op.list].spent => ~lists[op.list].memory
    /\ op.do = "add" => op.fn.kind # "user"
    /\ op.do = "lock" => op.list[2] = "progress"
    /\ op.do = "disable" => \E d \in Deferreds, kind \in {"done", "fail"} :
         op.list = <<d, Other(kind)>> /\ cb[<<d, kind>>].memory /\ Untouched(lists[op.list], op.list)

\* Nothing fires a list of a deferred of which the page has only the promise.
Leaves(op) == op.do = "fire" => op.list[1] \notin Withheld

ListsMove ==
    /\ UNCHANGED <<called, registered>>
    /\ \/ UNCHANGED cb
       \/ \E l \in Lists : Passing(l) /\ cb' = Advanced(l)
       \/ \E op \in Operations :
            Leaves(op) /\ (Operates(op, cb) \/ \E l \in Lists : Passing(l) /\ Operates(op, Advanced(l)))
       \/ \E l \in Lists : (NextRound(l) /\ l \notin Outcomes) \/ Finish(l)

LEMMA DerivedNotWithheld == \A d \in Derived : d \notin Withheld
BY DeferredAssumption DEF Derived

\* What is performed while no list is about to settle its deferred.
LEMMA OperatesSoundly ==
    ASSUME NEW lists, NEW st, Sound(lists, st), NEW op \in Operations, op.do \in {"add", "fire", "lock"},
           op.do = "add" => op.fn.kind # "user", op.do = "lock" => op.list[2] = "progress",
           NEW s, Perform(op, lists, s)
    PROVE  Operates(op, lists)
<1>1. cb' = ListsAfter(op, lists)
  BY PerformResult
<1>2. op.list \in Lists
  BY DEF Operations
<1>3. lists[op.list].spent => ~lists[op.list].memory
  BY <1>2, SpentForgets
<1> QED
  BY <1>1, <1>3 DEF Operates

LEMMA SettleMoves ==
    ASSUME PromiseInv, NEW d \in Deferreds, NEW kind \in {"done", "fail", "progress"}, Settle(d, kind)
    PROVE  ListsMove
<1> DEFINE op == Op("fire", <<d, kind>>, Nothing)
<1>1. PageRuns /\ Perform(op, cb, stack) /\ UNCHANGED <<called, registered>> /\ d \notin Withheld
  BY DEF Settle, CallList, Calling, Op
<1>2. op \in Operations /\ op.do = "fire" /\ op.list[1] = d
  BY DEF Op, Operations, Lists
<1>3. Sound(cb, stack)
  BY <1>1, Quiet
<1> HIDE DEF op
<1>4. Operates(op, cb) /\ Leaves(op)
  BY <1>1, <1>2, <1>3, OperatesSoundly DEF Leaves
<1> QED
  BY <1>1, <1>2, <1>4 DEF ListsMove

LEMMA TodoMoves ==
    ASSUME PromiseInv, TodoStep
    PROVE  ListsMove
<1> DEFINE op == Head(Top.todo)
<1>1. Top.todo # <<>> /\ UNCHANGED <<called, registered>>
  BY DEF TodoStep, history
<1>2. Sound(cb, stack) /\ Stacked(stack)
  BY <1>1, Quiet DEF Sound, Shape
<1>3. op \in Rest
  BY <1>1, <1>2, Tops, HeadTailProperties DEF Top, Frames
<1>4. PICK s : \/ op.do # "end" /\ Perform(op, cb, s)
               \/ op.do = "end" /\ Perform(Op("fire", op.list, Nothing), cb, s)
               \/ UNCHANGED cb
  BY DEF TodoStep
<1>5. CASE op.do # "end" /\ Perform(op, cb, s)
  <2>1. op \in Operations /\ op.do = "add" /\ op.fn.kind # "user"
    BY <1>3, <1>5 DEF Rest, Operations
  <2>2. Operates(op, cb) /\ Leaves(op)
    BY <1>2, <1>5, <2>1, OperatesSoundly DEF Leaves
  <2> QED
    BY <1>1, <2>1, <2>2 DEF ListsMove
<1>6. CASE op.do = "end" /\ Perform(Op("fire", op.list, Nothing), cb, s)
  <2>1. PICK fire : fire = Op("fire", op.list, Nothing)
    OBVIOUS
  <2>2. fire \in Operations /\ fire.do = "fire" /\ fire.list[1] \in Derived
    BY <1>3, <1>6, <2>1, DerivedOnes DEF Rest, Operations, Op
  <2>3. Operates(fire, cb) /\ Leaves(fire)
    BY <1>2, <1>6, <2>1, <2>2, OperatesSoundly, DerivedNotWithheld DEF Leaves
  <2> QED
    BY <1>1, <2>2, <2>3 DEF ListsMove
<1>7. CASE UNCHANGED cb
  BY <1>1, <1>7 DEF ListsMove
<1> QED
  BY <1>4, <1>5, <1>6, <1>7


LEMMA InternalMoves ==
    ASSUME PromiseInv, NEW l \in Lists, CallInternal(l)
    PROVE  ListsMove
<1>1. /\ Looping(l) /\ HasNext(l) /\ Current(l).kind = "do" /\ UNCHANGED <<called, registered>>
      /\ Perform(Current(l).arg, Advanced(l), stack)
  BY DEF CallInternal, history
<1>2. Passing(l) /\ Shape(cb, stack, thrown)
  BY <1>1, Turn, Parts DEF Passing
<1>3. PICK op : op = Current(l).arg
  OBVIOUS
<1>4. PICK lists : lists = Advanced(l) /\ Perform(op, lists, stack)
  BY <1>1, <1>3
<1>5. CASE Sound(cb, stack)
  <2>1. op \in Operations /\ op.do \in {"fire", "lock"} /\ (op.do = "lock" => op.list[2] = "progress") /\ Leaves(op)
    <3>1. CASE Current(l) \in Given
      <4>1. op \in [do : {"fire"}, list : DerivedLists, fn : {Nothing}]
        BY <1>1, <1>3, <3>1 DEF Given
      <4> QED
        BY <4>1, DerivedOnes, DerivedNotWithheld DEF Operations, Leaves
    <3>2. CASE l \in Outcomes /\ Current(l) = Settling(l[1], l[2])[3]
      <4>1. op = Op("lock", <<l[1], "progress">>, Nothing) /\ <<l[1], "progress">> \in Lists
        <5>1. \A d, kind : Settling(d, kind)[3].arg = Op("lock", <<d, "progress">>, Nothing)
          BY OwnKinds
        <5> QED
          BY <1>3, <3>2, <5>1, Names
      <4> QED
        BY <4>1 DEF Op, Operations, Leaves
    <3> QED
      BY <1>1, <1>2, <1>5, <3>1, <3>2, SoundCurrent DEF Passing
  <2>2. Sound(lists, stack)
    BY <1>2, <1>4, <1>5, AdvancedKeeps DEF Passing
  <2>3. Operates(op, lists)
    BY <1>4, <2>1, <2>2, OperatesSoundly
  <2> QED
    BY <1>1, <1>2, <1>4, <2>1, <2>3 DEF ListsMove
<1>6. ASSUME NEW d \in Deferreds, NEW kind \in {"done", "fail"}, l = <<d, kind>>, Settles(d, kind)
      PROVE  ListsMove
  <2>1. op = Op("disable", <<d, Other(kind)>>, Nothing)
    BY <1>1, <1>2, <1>3, <1>6, SettlesCurrent
  <2>2. <<d, Other(kind)>> \in Lists \ {l}
    BY <1>6, Names
  <2>3. op \in Operations /\ op.do = "disable" /\ op.list = <<d, Other(kind)>>
    BY <2>1, <2>2 DEF Op, Operations
  <2>4. cb[<<d, kind>>].memory /\ Untouched(cb[op.list], op.list)
    BY <1>6, <2>3 DEF Settles, Fired
  <2>5. lists[op.list] = cb[op.list]
    BY <1>2, <1>4, <2>2, <2>3, AdvancedShape
  <2>6. cb' = ListsAfter(op, lists)
    BY <1>4, PerformResult
  <2>7. Operates(op, lists) /\ Leaves(op)
    BY <2>3, <2>4, <2>5, <2>6 DEF Operates, Leaves, Untouched
  <2> QED
    BY <1>1, <1>2, <1>4, <2>3, <2>7 DEF ListsMove
<1> QED
  BY <1>1, <1>5, <1>6, Turn

LEMMA CountMoves ==
    ASSUME PromiseInv, NEW l \in Lists, CallCount(l)
    PROVE  ListsMove
<1> DEFINE op == Op("fire", <<Current(l).arg, "done">>, Nothing)
<1>1. /\ Looping(l) /\ HasNext(l) /\ Current(l).kind = "count" /\ UNCHANGED <<called, registered>>
      /\ Perform(op, Advanced(l), stack) \/ cb' = Advanced(l)
  BY DEF CallCount, history
<1>2. Passing(l) /\ Sound(Advanced(l), stack) /\ Current(l) \in Given
  BY <1>1, CallsGiven DEF Passing
<1>3. Current(l).arg \in Derived
  BY <1>1, <1>2 DEF Given
<1>4. op \in Operations /\ op.do = "fire" /\ op.list[1] \in Derived
  BY <1>3, DerivedOnes DEF Op, Operations, Lists
<1> HIDE DEF op
<1>5. CASE Perform(op, Advanced(l), stack)
  <2>1. PICK lists : lists = Advanced(l)
    OBVIOUS
  <2>2. Operates(op, lists) /\ Leaves(op)
    BY <1>2, <1>4, <1>5, <2>1, OperatesSoundly, DerivedNotWithheld DEF Leaves
  <2> QED
    BY <1>1, <1>2, <1>4, <2>1, <2>2 DEF ListsMove
<1>6. CASE cb' = Advanced(l)
  BY <1>1, <1>2, <1>6 DEF ListsMove
<1> QED
  BY <1>1, <1>5, <1>6

LEMMA ValueMoves ==
    ASSUME PromiseInv, NEW l \in Lists, ThenValue(l)
    PROVE  ListsMove
<1> DEFINE op == Op("fire", Top.running.arg, Nothing)
<1>1. /\ PageRuns /\ Top.running.kind = "then" /\ UNCHANGED <<called, registered>>
      /\ Perform(op, cb, Append(Below, Frame(l)))
  BY DEF ThenValue, history
<1>2. Sound(cb, stack) /\ Stacked(stack)
  BY <1>1, Quiet DEF Sound, Shape
<1>3. Top.running.arg \in DerivedLists
  <2>1. Top.running \in {Nothing, Callback("task", Nothing)} \cup Given
    BY <1>2, Tops DEF Top, Frames
  <2>2. Top.running # Nothing /\ Callback("task", Nothing).kind = "task"
    BY <1>1 DEF PageRuns, Callback
  <2> QED
    BY <1>1, <2>1, <2>2 DEF Given
<1>4. op \in Operations /\ op.do = "fire" /\ op.list[1] \in Derived
  BY <1>3, DerivedOnes DEF Op, Operations
<1> HIDE DEF op
<1>5. Operates(op, cb) /\ Leaves(op)
  BY <1>1, <1>2, <1>4, OperatesSoundly, DerivedNotWithheld DEF Leaves
<1> QED
  BY <1>1, <1>4, <1>5 DEF ListsMove

\* A list that goes through its functions once more is one of notifications.
LEMMA RoundMoves ==
    ASSUME PromiseInv, NEW l \in Lists, NextRound(l)
    PROVE  l \notin Outcomes
<1>1. Sound(cb, stack) /\ cb[l].firing /\ cb[l].queue > 0
  BY AtItsEnd DEF NextRound
<1> QED
  BY <1>1, RunningIsFired DEF Fired

LEMMA Moves ==
    ASSUME PromiseInv, Next
    PROVE  \/ ListsMove
           \/ \E l \in Lists : AddOne(l)
           \/ \E l \in Lists : CallUser(l) /\ Current(l).kind = "user"
<1>1. CASE Page
  <2>1. ASSUME NEW d \in Deferreds, NEW c \in Deferreds, CallThen(d, c)
        PROVE  ListsMove
    BY <2>1 DEF CallThen, ListsMove
  <2>2. ASSUME NEW m \in Deferreds, NEW ds \in SUBSET Deferreds, NEW values \in 0 .. 1, CallWhen(m, ds, values)
        PROVE  ListsMove
    BY <2>2 DEF CallWhen, ListsMove
  <2>3. ASSUME NEW catcher \in 1 .. Len(stack), ThrowTo(catcher)
        PROVE  ListsMove
    BY <2>3 DEF ThrowTo, Throw, ListsMove
  <2> QED
    BY <1>1, <2>1, <2>2, <2>3, SettleMoves DEF Page
<1>2. CASE TodoStep
  BY <1>2, TodoMoves
<1>3. ASSUME NEW l \in {Top.list} \ {Nothing},
             \/ CallUser(l) \/ CallSettle(l) \/ CallInternal(l) \/ CallCount(l)
             \/ (NextRound(l) \/ Finish(l)) /\ UNCHANGED <<closure, history, calls>>
             \/ ReturnUser(l) \/ ThenValue(l)
             \/ \E r \in Deferreds : ThenPromise(l, r)
      PROVE  ListsMove \/ (l \in Lists /\ CallUser(l) /\ Current(l).kind = "user")
  <2>1. l \in Lists
    BY <1>3, TopList
  <2>2. ASSUME CallUser(l), Current(l).kind # "user"
        PROVE  ListsMove
    <3>1. Passing(l) /\ cb' = Advanced(l) /\ UNCHANGED <<called, registered>>
      BY <2>1, <2>2, Turn DEF CallUser, Passing
    <3> QED
      BY <2>1, <3>1 DEF ListsMove
  <2>3. ASSUME CallSettle(l)
        PROVE  ListsMove
    <3>1. Passing(l) /\ cb' = Advanced(l) /\ UNCHANGED <<called, registered>>
      BY <2>1, <2>3, Turn DEF CallSettle, Passing, history
    <3> QED
      BY <2>1, <3>1 DEF ListsMove
  <2>4. ASSUME NextRound(l) \/ Finish(l), UNCHANGED <<closure, history, calls>>
        PROVE  ListsMove
    BY <2>1, <2>4, RoundMoves DEF ListsMove, history
  <2>5. CASE ReturnUser(l)
    BY <2>5 DEF ReturnUser, Return, ListsMove, history
  <2>6. ASSUME NEW r \in Deferreds, ThenPromise(l, r)
        PROVE  ListsMove
    BY <2>6 DEF ThenPromise, ListsMove, history
  <2> QED
    BY <1>3, <2>1, <2>2, <2>3, <2>4, <2>5, <2>6, InternalMoves, CountMoves, ValueMoves
<1> QED
  BY <1>1, <1>2, <1>3 DEF Next, Engine

-----------------------------------------------------------------------------
(***************************************************************************)
(* The order of the page's functions.                                      *)
(***************************************************************************)

LEMMA Beginning ==
    ASSUME NEW S, NEW u \in Seq(S), NEW n \in Nat, n <= Len(u), NEW a, a = SubSeq(u, 1, n)
    PROVE  a \in Seq(S) /\ Len(a) = n /\ \A i \in 1 .. n : a[i] = u[i]
<1>1. Len(u) \in Nat
  OBVIOUS
<1>2. \A i \in 1 .. n : u[i] \in S
  BY <1>1, ElementOfSeq
<1> QED
  BY <1>2, SubSeqProperties

LEMMA PrefixIs ==
    ASSUME NEW S, NEW s \in Seq(S), NEW t \in Seq(S)
    PROVE  IsPrefix(s, t) <=> (Len(s) <= Len(t) /\ \A i \in 1 .. Len(s) : s[i] = t[i])
<1>1. PICK a, b : a = SubSeq(s, 1, Len(s)) /\ b = SubSeq(t, 1, Len(s))
  OBVIOUS
<1>2. Len(s) \in Nat /\ Len(t) \in Nat
  OBVIOUS
<1>3. CASE Len(s) <= Len(t)
  <2>1. /\ a \in Seq(S) /\ Len(a) = Len(s) /\ \A i \in 1 .. Len(s) : a[i] = s[i]
        /\ b \in Seq(S) /\ Len(b) = Len(s) /\ \A i \in 1 .. Len(s) : b[i] = t[i]
    BY <1>1, <1>2, <1>3, Beginning
  <2>2. ASSUME \A i \in 1 .. Len(s) : s[i] = t[i]
        PROVE  a = b
    <3>1. Len(a) = Len(b) /\ \A i \in 1 .. Len(a) : a[i] = b[i]
      BY <2>1, <2>2
    <3> QED
      BY <2>1, <3>1, SeqEqual
  <2>3. ASSUME a = b
        PROVE  \A i \in 1 .. Len(s) : s[i] = t[i]
    BY <2>1, <2>3
  <2> QED
    BY <1>1, <1>3, <2>2, <2>3 DEF IsPrefix
<1>4. CASE ~(Len(s) <= Len(t))
  BY <1>4 DEF IsPrefix
<1> QED
  BY <1>3, <1>4

\* The same is left to call.
SameLeft(c, r) ==
    /\ \A i \in 1 .. Len(r.list) : i > r.index /\ r.list[i].kind = "user" =>
         i \in 1 .. Len(c.list) /\ i > c.index /\ c.list[i] = r.list[i]
    /\ \A i \in 1 .. Len(c.list) : i > c.index /\ c.list[i].kind = "user" =>
         i \in 1 .. Len(r.list) /\ i > r.index /\ r.list[i] = c.list[i]

LEMMA SameOrder ==
    ASSUME NEW c, NEW r \in ListRecords, NEW done, NEW known, InOrder(c, done, known), SameLeft(c, r),
           c.spent => r.spent, r.memory /\ ~r.firing => r.list = <<>>, ~r.spent => r.index <= Len(r.list)
    PROVE  InOrder(r, done, known)
<1>1. \A f : User(f).kind = "user"
  BY DEF User, Callback
<1>2. ASSUME NEW i \in 1 .. Len(r.list), NEW j \in 1 .. Len(r.list), NEW p \in 1 .. Len(known), NEW q \in 1 .. Len(known),
             i > r.index, i < j, r.list[i] = User(known[p]), r.list[j] = User(known[q]), j > r.index
      PROVE  p < q
  <2>1. /\ i \in 1 .. Len(c.list) /\ i > c.index /\ c.list[i] = User(known[p])
        /\ j \in 1 .. Len(c.list) /\ c.list[j] = User(known[q])
    BY <1>1, <1>2 DEF SameLeft
  <2> QED
    BY <1>2, <2>1 DEF InOrder
<1>3. ASSUME ~r.spent, NEW p \in 1 .. Len(known), p > Len(done)
      PROVE  \E i \in 1 .. Len(r.list) : i > r.index /\ r.list[i] = User(known[p])
  <2>1. PICK i \in 1 .. Len(c.list) : i > c.index /\ c.list[i] = User(known[p])
    BY <1>3 DEF InOrder
  <2>2. i \in 1 .. Len(r.list) /\ i > r.index /\ r.list[i] = c.list[i]
    BY <1>1, <2>1 DEF SameLeft
  <2> QED
    BY <2>1, <2>2
<1>4. \A i, j \in 1 .. Len(r.list) : i > r.index /\ i < j => j > r.index
  BY DEF ListRecords
<1> QED
  BY <1>2, <1>3, <1>4 DEF InOrder

LEMMA OperatesInOrder ==
    ASSUME NEW lists \in [Lists -> ListRecords], NEW op \in Operations, Operates(op, lists),
           NEW k \in Outcomes, NEW done, NEW known, InOrder(lists[k], done, known)
    PROVE  InOrder(cb'[k], done, known)
<1>1. k \in Lists /\ op.list \in Lists
  BY Names DEF Operations
<1>2. PICK c \in ListRecords : c = lists[k]
  BY <1>1
<1>3. cb'[k] = IF k = op.list THEN Result(op, c) ELSE c
  BY <1>1, <1>2 DEF Operates, ListsAfter
<1>4. CASE k = op.list
  <2>1. PICK r : r = Result(op, c)
    OBVIOUS
  <2>2. c.spent => ~c.memory
    BY <1>2, <1>4 DEF Operates
  <2>3. InOrder(c, done, known) /\ Len(c.list) \in Nat /\ c.index \in Nat
    BY <1>2 DEF ListRecords
  <2>4. CASE op.do = "add" /\ ~c.spent
    <3>1. /\ r \in ListRecords /\ r.spent = c.spent /\ Longer(c.list, r.list, op.fn)
          /\ r.firing <=> c.firing \/ (c.memory /\ ~c.firing)
          /\ IF c.memory /\ ~c.firing THEN r.index = Len(c.list) ELSE r.memory = c.memory /\ r.index = c.index
      BY <2>1, <2>2, <2>4, ResultAdd
    <3>2. c.memory /\ ~c.firing => Len(c.list) = 0
      BY <2>3 DEF InOrder
    <3>3. op.fn.kind # "user"
      BY <2>4 DEF Operates
    <3>4. SameLeft(c, r)
      <4>1. Len(r.list) = Len(c.list) + 1 /\ r.list[Len(c.list) + 1].kind # "user"
        BY <3>1, <3>3 DEF Longer
      <4>2. \A i \in 1 .. Len(c.list) : r.list[i] = c.list[i] /\ (i > r.index <=> i > c.index)
        BY <2>3, <3>1, <3>2 DEF Longer
      <4>3. \A i \in 1 .. Len(r.list) : i \in 1 .. Len(c.list) \/ i = Len(c.list) + 1
        BY <2>3, <4>1
      <4>4. \A i \in 1 .. Len(c.list) : i \in 1 .. Len(r.list)
        BY <2>3, <4>1
      <4> QED
        BY <4>1, <4>2, <4>3, <4>4 DEF SameLeft
    <3>5. r.index <= Len(r.list) /\ ~(r.memory /\ ~r.firing)
      <4>1. c.index <= Len(c.list)
        BY <2>3, <2>4 DEF InOrder
      <4>2. ~(c.memory /\ ~c.firing) => ~(r.memory /\ ~r.firing)
        BY <3>1
      <4> QED
        BY <2>3, <3>1, <4>1, <4>2 DEF Longer
    <3> QED
      BY <2>1, <2>3, <3>1, <3>4, <3>5, <1>3, <1>4, SameOrder
  <2>5. CASE op.do = "add" /\ c.spent
    BY <1>3, <1>4, <2>1, <2>2, <2>3, <2>5, ResultAdd
  <2>6. CASE op.do = "fire"
    <3>1. /\ r \in ListRecords /\ r.spent = c.spent /\ r.list = c.list /\ r.index = c.index
          /\ r.firing <=> c.firing \/ Starts(op, c)
          /\ ~c.firing /\ ~Starts(op, c) => r = c
      BY <2>1, <2>6, ResultFire
    <3>2. SameLeft(c, r)
      BY <3>1 DEF SameLeft
    <3>3. (r.memory /\ ~r.firing => r.list = <<>>) /\ (~r.spent => r.index <= Len(r.list))
      BY <2>3, <3>1 DEF InOrder
    <3> QED
      BY <1>3, <1>4, <2>1, <2>3, <3>1, <3>2, <3>3, SameOrder
  <2>7. CASE op.do = "disable"
    <3>1. r.spent /\ ~r.memory /\ r.list = <<>>
      BY <2>1, <2>7, ResultLock
    <3>2. Len(r.list) = 0
      BY <3>1
    <3> QED
      BY <1>3, <1>4, <2>1, <2>3, <3>1, <3>2 DEF InOrder
  <2>8. op.do # "lock"
    BY <1>1, <1>4, Names DEF Operates
  <2> QED
    BY <2>4, <2>5, <2>6, <2>7, <2>8 DEF Operations
<1> QED
  BY <1>2, <1>3, <1>4

\* The page adds a function, behind all those that it has added to the list before, ...
LEMMA AddedInOrder ==
    ASSUME NEW c \in ListRecords, NEW done \in Seq(Fns), NEW known \in Seq(Fns), InOrder(c, done, known),
           CalledOnce(c, ToSet(done), ToSet(known)), ~c.spent, NEW f \in Fns, ~Contains(known, f), NEW more, more = Append(known, f),
           NEW r \in ListRecords, ~r.spent, Longer(c.list, r.list, User(f)),
           c.memory /\ ~c.firing => r.index = Len(c.list) /\ r.firing,
           ~(c.memory /\ ~c.firing) => r.memory = c.memory /\ r.firing = c.firing /\ r.index = c.index
    PROVE  InOrder(r, done, more)
<1>1. Len(c.list) \in Nat /\ c.index \in Nat /\ Len(known) \in Nat /\ Len(done) \in Nat
  BY DEF ListRecords
<1>2. /\ more \in Seq(Fns) /\ Len(more) = Len(known) + 1 /\ more[Len(known) + 1] = f
      /\ \A p \in 1 .. Len(known) : more[p] = known[p]
  BY <1>1, AppendProperties
<1>3. \A p \in 1 .. Len(known) : known[p] # f
  BY DEF Contains
<1>4. IsInjective(more)
  <2>1. DOMAIN more = 1 .. Len(known) + 1 /\ DOMAIN known = 1 .. Len(known)
    BY <1>2
  <2>2. \A p \in 1 .. Len(known) + 1 : p \in 1 .. Len(known) \/ p = Len(known) + 1
    BY <1>1
  <2>3. \A p, q \in 1 .. Len(known) : known[p] = known[q] => p = q
    BY <2>1 DEF InOrder, IsInjective
  <2> QED
    BY <1>2, <1>3, <2>1, <2>2, <2>3 DEF IsInjective
<1>5. IsPrefix(done, more)
  <2>1. Len(done) <= Len(known) /\ \A i \in 1 .. Len(done) : done[i] = known[i]
    BY PrefixIs DEF InOrder
  <2>2. Len(done) <= Len(more) /\ \A i \in 1 .. Len(done) : done[i] = more[i]
    BY <1>1, <1>2, <2>1
  <2> QED
    BY <1>2, <2>2, PrefixIs
<1>6. c.memory /\ ~c.firing => Len(c.list) = 0
  BY DEF InOrder
<1>7. ~(r.memory /\ ~r.firing)
  <2>1. ~(c.memory /\ ~c.firing) => r.memory = c.memory /\ r.firing = c.firing
    OBVIOUS
  <2> QED
    BY <2>1
<1>8. c.index <= Len(c.list) /\ r.index <= Len(c.list) /\ c.index <= r.index /\ r.index \in Nat
  <2>1. c.index <= Len(c.list)
    BY DEF InOrder
  <2> QED
    BY <1>1, <2>1
<1>9. \A x, y : User(x) = User(y) => x = y
  BY DEF User, Callback
<1>10. ASSUME NEW i \in 1 .. Len(c.list), i > c.index
       PROVE  c.list[i] # User(f)
  <2>1. User(f).kind = "user" /\ User(f).arg = f
    BY DEF User, Callback
  <2>2. f \notin ToSet(known)
    BY <1>1, <1>3 DEF ToSet
  <2> QED
    BY <1>10, <2>1, <2>2 DEF CalledOnce
<1>11. /\ \A i \in 1 .. Len(r.list) : i \in 1 .. Len(c.list) \/ i = Len(c.list) + 1
       /\ \A i, j \in 1 .. Len(r.list) : i > r.index /\ i < j => i \in 1 .. Len(c.list) /\ i > c.index
  <2>1. PICK n \in Nat : n = Len(c.list)
    BY <1>1
  <2>2. Len(r.list) = n + 1
    BY <2>1 DEF Longer
  <2>3. /\ \A i \in 1 .. n + 1 : i \in 1 .. n \/ i = n + 1
        /\ \A i, j \in 1 .. n + 1 : i < j => i \in 1 .. n
    OBVIOUS
  <2>4. \A i \in 1 .. n : i > r.index => i > c.index
    BY <1>1, <1>8
  <2> QED
    BY <2>1, <2>2, <2>3, <2>4
<1>12. ASSUME NEW i \in 1 .. Len(r.list), NEW j \in 1 .. Len(r.list), NEW p \in 1 .. Len(more), NEW q \in 1 .. Len(more),
              i > r.index, i < j, r.list[i] = User(more[p]), r.list[j] = User(more[q])
       PROVE  p < q
  <2>1. i \in 1 .. Len(c.list) /\ i > c.index /\ r.list[i] = c.list[i]
    <3>1. i \in 1 .. Len(c.list) /\ i > c.index
      BY <1>12, <1>11
    <3> QED
      BY <3>1 DEF Longer
  <2>2. p \in 1 .. Len(known) /\ more[p] = known[p]
    <3>1. more[p] # f
      BY <1>10, <1>12, <2>1
    <3> QED
      BY <1>1, <1>2, <3>1
  <2>3. CASE q = Len(known) + 1
    BY <1>1, <2>2, <2>3
  <2>4. CASE q \in 1 .. Len(known)
    <3>1. more[q] = known[q] /\ more[q] # f
      BY <1>2, <1>3, <2>4
    <3>2. j \in 1 .. Len(c.list) /\ r.list[j] = c.list[j]
      <4>1. r.list[j] # User(f)
        BY <1>9, <1>12, <3>1
      <4>2. j # Len(c.list) + 1
        BY <4>1 DEF Longer
      <4>3. j \in 1 .. Len(c.list)
        BY <1>11, <4>2
      <4> QED
        BY <4>3 DEF Longer
    <3>3. c.list[i] = User(known[p]) /\ c.list[j] = User(known[q])
      BY <1>12, <2>1, <2>2, <3>1, <3>2
    <3>4. \A x, y \in 1 .. Len(c.list), v, w \in 1 .. Len(known) :
            x > c.index /\ x < y /\ c.list[x] = User(known[v]) /\ c.list[y] = User(known[w]) => v < w
      BY DEF InOrder
    <3> QED
      BY <1>12, <2>1, <2>2, <2>4, <3>2, <3>3, <3>4
  <2> QED
    BY <1>1, <1>2, <2>3, <2>4
<1>13. ASSUME NEW p \in 1 .. Len(more), p > Len(done)
       PROVE  \E i \in 1 .. Len(r.list) : i > r.index /\ r.list[i] = User(more[p])
  <2>1. CASE p = Len(known) + 1
    <3>1. PICK i : i = Len(c.list) + 1
      OBVIOUS
    <3>2. i \in 1 .. Len(r.list) /\ r.list[i] = User(f)
      BY <1>1, <3>1 DEF Longer
    <3>3. i > r.index
      BY <1>1, <1>8, <3>1
    <3> QED
      BY <1>2, <2>1, <3>2, <3>3
  <2>2. CASE p \in 1 .. Len(known)
    <3>1. PICK i \in 1 .. Len(c.list) : i > c.index /\ c.list[i] = User(known[p])
      BY <1>13, <2>2 DEF InOrder
    <3>2. i > r.index
      BY <1>1, <1>6, <3>1
    <3>3. i \in 1 .. Len(r.list) /\ r.list[i] = c.list[i]
      <4>1. Len(r.list) = Len(c.list) + 1
        BY DEF Longer
      <4>2. i \in 1 .. Len(r.list)
        BY <1>1, <3>1, <4>1
      <4> QED
        BY <3>1, <4>2 DEF Longer
    <3>4. more[p] = known[p]
      BY <1>2, <2>2
    <3> QED
      BY <3>1, <3>2, <3>3, <3>4
  <2> QED
    BY <1>1, <1>2, <2>1, <2>2
<1>14. r.index <= Len(r.list)
  BY <1>1, <1>8 DEF Longer
<1> QED
  BY <1>4, <1>5, <1>7, <1>12, <1>13, <1>14 DEF InOrder

\* ... the next of them is called, ...
LEMMA CalledInOrder ==
    ASSUME NEW c \in ListRecords, NEW done \in Seq(Fns), NEW known \in Seq(Fns), InOrder(c, done, known),
           CalledOnce(c, ToSet(done), ToSet(known)), ~c.spent, c.firing, c.index < Len(c.list),
           NEW f \in Fns, c.list[c.index + 1] = User(f),
           NEW more, more = Append(done, f), NEW r, r = Later(c)
    PROVE  InOrder(r, more, known)
<1>1. Len(c.list) \in Nat /\ c.index \in Nat /\ Len(known) \in Nat /\ Len(done) \in Nat
  BY DEF ListRecords
<1>2. /\ more \in Seq(Fns) /\ Len(more) = Len(done) + 1 /\ more[Len(done) + 1] = f
      /\ \A p \in 1 .. Len(done) : more[p] = done[p]
  BY <1>1, AppendProperties
<1>3. r \in ListRecords /\ r.list = c.list /\ r.index = c.index + 1 /\ r.spent = c.spent /\ r.firing = c.firing
  BY Advances
<1>4. PICK first \in Nat : first = c.index + 1 /\ first \in 1 .. Len(c.list) /\ c.list[first] = User(f)
  BY <1>1
<1>5. /\ first > c.index
      /\ \A i \in 1 .. Len(c.list) : i > r.index => i > c.index
      /\ \A i \in 1 .. Len(c.list) : i > c.index /\ i # first => first < i /\ i > r.index
  <2>1. PICK n \in Nat, x \in Nat : n = Len(c.list) /\ x = c.index
    BY <1>1
  <2>2. \A i \in 1 .. n : (i > x + 1 => i > x) /\ (i > x /\ i # x + 1 => x + 1 < i)
    OBVIOUS
  <2> QED
    BY <1>3, <1>4, <2>1, <2>2
<1>6. \A x, y : User(x) = User(y) => x = y
  BY DEF User, Callback
<1>7. Len(done) <= Len(known) /\ \A i \in 1 .. Len(done) : done[i] = known[i]
  BY PrefixIs DEF InOrder
<1>8. f \in ToSet(known) \ ToSet(done)
  <2>1. User(f).kind = "user" /\ User(f).arg = f
    BY DEF User, Callback
  <2>2. first > c.index
    BY <1>1, <1>4
  <2> QED
    BY <1>4, <2>1, <2>2 DEF CalledOnce
<1>9. PICK p \in 1 .. Len(known) : known[p] = f
  BY <1>8 DEF ToSet
<1>10. p > Len(done)
  <2>1. p \in 1 .. Len(done) => done[p] = f
    BY <1>7, <1>9
  <2>2. p \notin 1 .. Len(done)
    BY <1>1, <1>8, <2>1 DEF ToSet
  <2> QED
    BY <1>1, <2>2
<1>11. PICK n \in 1 .. Len(known) : n = Len(done) + 1
  BY <1>1, <1>10
<1>12. known[n] = f
  <2>1. n > Len(done) /\ n <= p
    BY <1>1, <1>10, <1>11
  <2>2. PICK i \in 1 .. Len(c.list) : i > c.index /\ c.list[i] = User(known[n])
    BY <2>1 DEF InOrder
  <2>3. CASE i = first
    BY <1>4, <1>6, <2>2, <2>3
  <2>4. CASE i # first
    <3>1. first < i /\ first > c.index
      BY <1>5, <2>2, <2>4
    <3>2. p < n
      BY <1>4, <1>9, <2>2, <3>1 DEF InOrder
    <3> QED
      BY <1>1, <2>1, <3>2
  <2> QED
    BY <2>3, <2>4
<1>13. IsPrefix(more, known)
  <2>1. \A i \in 1 .. Len(more) : i \in 1 .. Len(done) \/ i = n
    BY <1>1, <1>2, <1>11
  <2>2. Len(more) <= Len(known)
    BY <1>1, <1>2, <1>11
  <2>3. \A i \in 1 .. Len(more) : more[i] = known[i]
    BY <1>2, <1>7, <1>11, <1>12, <2>1
  <2> QED
    BY <1>2, <2>2, <2>3, PrefixIs
<1>14. ASSUME NEW q \in 1 .. Len(known), q > Len(more)
       PROVE  \E i \in 1 .. Len(r.list) : i > r.index /\ r.list[i] = User(known[q])
  <2>1. q > Len(done) /\ q # n
    BY <1>1, <1>2, <1>11, <1>14
  <2>2. PICK i \in 1 .. Len(c.list) : i > c.index /\ c.list[i] = User(known[q])
    BY <2>1 DEF InOrder
  <2>3. known[q] # known[n]
    <3>1. DOMAIN known = 1 .. Len(known)
      OBVIOUS
    <3> QED
      BY <2>1, <3>1 DEF InOrder, IsInjective
  <2>4. i # first
    BY <1>4, <1>6, <1>12, <2>2, <2>3
  <2>5. i > r.index
    BY <1>5, <2>2, <2>4
  <2> QED
    BY <1>3, <2>2, <2>5
<1>15. r.index <= Len(r.list)
  BY <1>1, <1>3
<1>16. ASSUME NEW i \in 1 .. Len(r.list), NEW j \in 1 .. Len(r.list), NEW x \in 1 .. Len(known), NEW y \in 1 .. Len(known),
              i > r.index, i < j, r.list[i] = User(known[x]), r.list[j] = User(known[y])
       PROVE  x < y
  <2>1. i \in 1 .. Len(c.list) /\ j \in 1 .. Len(c.list) /\ i > c.index
    BY <1>3, <1>5, <1>16
  <2> QED
    BY <1>3, <1>16, <2>1 DEF InOrder
<1>17. IsInjective(known) /\ ~(r.memory /\ ~r.firing)
  BY <1>3 DEF InOrder
<1> QED
  BY <1>13, <1>14, <1>15, <1>16, <1>17 DEF InOrder

LEMMA PassedInOrder ==
    ASSUME PromiseInv, OrderInv, NEW l \in Lists, Passing(l), NEW lists, lists = Advanced(l)
    PROVE  lists \in [Lists -> ListRecords] /\ \A k \in Outcomes : InOrder(lists[k], called[k], registered[k])
<1>1. Shape(cb, stack, thrown)
  BY Parts
<1>2. Shape(lists, stack, thrown) /\ \A k \in Lists : lists[k] = IF k = l THEN Later(cb[l]) ELSE cb[k]
  BY <1>1, AdvancedShape
<1>3. PICK c \in ListRecords : c = cb[l]
  BY <1>1 DEF Shape
<1>4. PICK r : r = Later(c)
  OBVIOUS
<1>5. /\ r \in ListRecords /\ r.list = c.list /\ r.index = c.index + 1
      /\ r.spent = c.spent /\ r.memory = c.memory /\ r.firing = c.firing
  BY <1>4, Advances
<1>6. c.firing /\ c.index < Len(c.list) /\ c.list[c.index + 1].kind # "user"
  BY <1>3 DEF Passing, HasNext, Current
<1>7. Len(c.list) \in Nat /\ c.index \in Nat
  BY DEF ListRecords
<1>8. SameLeft(c, r)
  <2>1. \A i \in 1 .. Len(c.list) : i > c.index + 1 => i > c.index
    BY <1>7
  <2>2. \A i \in 1 .. Len(c.list) : i > c.index => i > c.index + 1 \/ i = c.index + 1
    BY <1>7
  <2> QED
    BY <1>5, <1>6, <2>1, <2>2 DEF SameLeft
<1>9. r.index <= Len(r.list)
  BY <1>5, <1>6, <1>7
<1>10. ASSUME NEW k \in Outcomes
       PROVE  InOrder(lists[k], called[k], registered[k])
  <2>1. InOrder(cb[k], called[k], registered[k]) /\ k \in Lists
    BY Names DEF OrderInv, Outcomes
  <2>2. CASE k = l
    <3>1. InOrder(c, called[k], registered[k])
      BY <1>3, <2>1, <2>2
    <3>2. InOrder(r, called[k], registered[k])
      BY <1>5, <1>6, <1>8, <1>9, <3>1, SameOrder
    <3> QED
      BY <1>2, <1>3, <1>4, <2>2, <3>2
  <2> QED
    BY <1>2, <2>1, <2>2
<1> QED
  BY <1>2, <1>10 DEF Shape

LEMMA MovesInOrder ==
    ASSUME PromiseInv, OrderInv, ListsMove
    PROVE  OrderInv'
<1>1. /\ UNCHANGED <<called, registered>> /\ Shape(cb, stack, thrown) /\ cb \in [Lists -> ListRecords]
      /\ \A k \in Outcomes : InOrder(cb[k], called[k], registered[k])
  BY Parts DEF ListsMove, OrderInv, Outcomes, Shape
<1>2. SUFFICES \A k \in Outcomes : InOrder(cb'[k], called[k], registered[k])
  BY <1>1 DEF OrderInv, Outcomes
<1>3. CASE UNCHANGED cb
  BY <1>1, <1>3
<1>4. ASSUME NEW l \in Lists, Passing(l), cb' = Advanced(l)
      PROVE  \A k \in Outcomes : InOrder(cb'[k], called[k], registered[k])
  BY <1>4, PassedInOrder
<1>5. ASSUME NEW op \in Operations, Operates(op, cb)
      PROVE  \A k \in Outcomes : InOrder(cb'[k], called[k], registered[k])
  BY <1>1, <1>5, OperatesInOrder
<1>6. ASSUME NEW op \in Operations, NEW l \in Lists, Passing(l), Operates(op, Advanced(l))
      PROVE  \A k \in Outcomes : InOrder(cb'[k], called[k], registered[k])
  <2>1. PICK lists : lists = Advanced(l)
    OBVIOUS
  <2> QED
    BY <1>6, <2>1, PassedInOrder, OperatesInOrder
<1>7. ASSUME NEW l \in Lists, NextRound(l), l \notin Outcomes
      PROVE  \A k \in Outcomes : InOrder(cb'[k], called[k], registered[k])
  <2>1. \A k \in Lists \ {l} : cb'[k] = cb[k]
    BY <1>1, <1>7 DEF NextRound
  <2> QED
    BY <1>1, <1>7, <2>1, Names
<1>8. ASSUME NEW l \in Lists, Finish(l)
      PROVE  \A k \in Outcomes : InOrder(cb'[k], called[k], registered[k])
  <2>1. PICK c \in ListRecords : c = cb[l]
    BY <1>1
  <2>2. PICK r : r = cb'[l]
    OBVIOUS
  <2>3. /\ Looping(l) /\ ~HasNext(l) /\ \A k \in Lists \ {l} : cb'[k] = cb[k]
        /\ r \in ListRecords /\ (r.spent <=> c.spent) /\ r.index = 0
        /\ r.list = IF c.locked THEN <<>> ELSE c.list
    BY <1>8, <2>1, <2>2, Finished
  <2>4. ASSUME l \in Outcomes
        PROVE  InOrder(r, called[l], registered[l])
    <3>1. c.locked
      <4>1. Fired(c, l, {})
        BY <2>1, <2>2, <2>3, <2>4, AtItsEnd, RunningIsFired
      <4> QED
        BY <4>1 DEF Fired
    <3>2. r.list = <<>> /\ Len(r.list) = 0
      BY <2>3, <3>1
    <3>3. \A i \in 1 .. Len(c.list) : ~(i > c.index)
      <4>1. ~(c.index < Len(c.list)) /\ c.index \in Nat /\ Len(c.list) \in Nat
        BY <2>1, <2>2, <2>3 DEF HasNext, ListRecords
      <4>2. PICK n \in Nat, x \in Nat : n = Len(c.list) /\ x = c.index /\ ~(x < n)
        BY <4>1
      <4>3. \A i \in 1 .. n : ~(i > x)
        BY <4>2
      <4> QED
        BY <4>2, <4>3
    <3>4. SameLeft(c, r)
      BY <3>2, <3>3 DEF SameLeft
    <3>5. r.index <= Len(r.list) /\ InOrder(c, called[l], registered[l])
      BY <1>1, <2>1, <2>2, <2>3, <2>4, <3>2
    <3> QED
      BY <2>3, <3>2, <3>4, <3>5, SameOrder
  <2> QED
    BY <1>1, <2>1, <2>2, <2>3, <2>4, Names
<1> QED
  BY <1>3, <1>4, <1>5, <1>6, <1>7, <1>8 DEF ListsMove

LEMMA AddsInOrder ==
    ASSUME PromiseInv, OrderInv, NEW l \in Lists, AddOne(l)
    PROVE  OrderInv'
<1> DEFINE f == CHOOSE f \in NewFns : TRUE
           op == Op("add", l, User(f))
<1>1. /\ f \in Fns /\ \A k \in Lists : ~Contains(registered[k], f)
      /\ PageRuns /\ Perform(op, cb, stack) /\ UNCHANGED called
      /\ registered' = IF ~cb[l].spent THEN [registered EXCEPT ![l] = Append(@, f)] ELSE registered
  <2>1. f \in NewFns
    BY DEF AddOne
  <2>2. CallList(op) /\ op.do = "add" /\ op.list = l /\ op.fn.arg = f
    BY DEF AddOne, Op, User, Callback
  <2> QED
    BY <2>1, <2>2 DEF NewFns, CallList, Calling
<1>2. op \in Operations /\ op.do = "add" /\ op.list = l /\ op.fn = User(f)
  BY <1>1, GivenByItself DEF Op, Operations
<1> HIDE DEF f, op
<1>3. Sound(cb, stack) /\ Known(cb) /\ HistoryTypes /\ cb \in [Lists -> ListRecords]
  BY <1>1, Quiet, Parts DEF Shape
<1>4. PICK c \in ListRecords : c = cb[l]
  BY <1>3
<1>5. PICK r : r = Result(op, c)
  OBVIOUS
<1>6. c.spent => ~c.memory
  BY <1>3, <1>4, <1>5, SpentForgets
<1>7. \A k \in Lists : cb'[k] = IF k = l THEN r ELSE cb[k]
  BY <1>1, <1>2, <1>3, <1>4, <1>5, PerformResult DEF ListsAfter
<1>8. ASSUME NEW k \in Outcomes
      PROVE  InOrder(cb'[k], called[k], registered'[k])
  <2>1. InOrder(cb[k], called[k], registered[k]) /\ CalledOnce(cb[k], ToSet(called[k]), ToSet(registered[k])) /\ k \in Lists
    BY <1>3, Names DEF OrderInv, Outcomes, Known
  <2>2. CASE k # l \/ c.spent
    <3>1. registered'[k] = registered[k]
      BY <1>1, <1>3, <1>4, <1>5, <2>1, <2>2 DEF HistoryTypes
    <3>2. cb'[k] = cb[k]
      BY <1>2, <1>4, <1>5, <1>6, <1>7, <2>1, <2>2, ResultAdd
    <3> QED
      BY <2>1, <3>1, <3>2
  <2>3. CASE k = l /\ ~c.spent
    <3>1. registered'[k] = Append(registered[k], f) /\ registered[k] \in Seq(Fns) /\ called[k] \in Seq(Fns)
      BY <1>1, <1>3, <1>4, <1>5, <2>1, <2>3 DEF HistoryTypes
    <3>2. /\ r \in ListRecords /\ ~r.spent /\ Longer(c.list, r.list, User(f))
          /\ c.memory /\ ~c.firing => r.index = Len(c.list) /\ r.firing
          /\ ~(c.memory /\ ~c.firing) => r.memory = c.memory /\ r.firing = c.firing /\ r.index = c.index
      <4>1. /\ r \in ListRecords /\ r.spent = c.spent /\ Longer(c.list, r.list, User(f))
            /\ r.firing <=> c.firing \/ (c.memory /\ ~c.firing)
            /\ ~(c.memory /\ ~c.firing) => r.memory = c.memory /\ r.index = c.index
            /\ c.memory /\ ~c.firing => r.index = Len(c.list)
        BY <1>2, <1>4, <1>5, <1>6, <2>3, ResultAdd
      <4>2. r.firing \in BOOLEAN /\ c.firing \in BOOLEAN
        BY <4>1 DEF ListRecords
      <4>3. ~(c.memory /\ ~c.firing) => r.firing = c.firing
        BY <4>1, <4>2
      <4> QED
        BY <2>3, <4>1, <4>3
    <3>3. ~Contains(registered[k], f) /\ f \in Fns
      BY <1>1, <2>1
    <3>4. PICK done \in Seq(Fns), known \in Seq(Fns) : done = called[k] /\ known = registered[k]
      BY <3>1
    <3>5. InOrder(c, done, known) /\ CalledOnce(c, ToSet(done), ToSet(known))
      BY <1>4, <1>5, <2>1, <2>3, <3>4
    <3>6. InOrder(r, done, Append(known, f))
      BY <2>3, <3>2, <3>3, <3>4, <3>5, AddedInOrder
    <3> QED
      BY <1>7, <2>1, <2>3, <3>1, <3>4, <3>6
  <2> QED
    BY <2>2, <2>3
<1> QED
  BY <1>1, <1>8 DEF OrderInv, Outcomes

LEMMA CallsInOrder ==
    ASSUME PromiseInv, OrderInv, NEW l \in Lists, CallUser(l), Current(l).kind = "user"
    PROVE  OrderInv'
<1>1. /\ Looping(l) /\ HasNext(l) /\ cb' = Advanced(l) /\ UNCHANGED registered
      /\ called' = [called EXCEPT ![l] = Append(@, Current(l).arg)]
  BY DEF CallUser
<1>2. Sound(cb, stack) /\ Current(l) \in Given /\ Known(cb) /\ HistoryTypes /\ Shape(cb, stack, thrown)
  BY <1>1, CallsGiven, Parts
<1>3. PICK f \in Fns : f = Current(l).arg /\ Current(l) = User(f)
  BY <1>2 DEF Given, User, Callback
<1>4. PICK c \in ListRecords : c = cb[l]
  BY <1>2 DEF Shape
<1>5. PICK r : r = Later(c)
  OBVIOUS
<1>6. \A k \in Lists : cb'[k] = IF k = l THEN r ELSE cb[k]
  BY <1>1, <1>2, <1>4, <1>5, AdvancedShape
<1>7. ASSUME NEW k \in Outcomes
      PROVE  InOrder(cb'[k], called'[k], registered[k])
  <2>1. InOrder(cb[k], called[k], registered[k]) /\ CalledOnce(cb[k], ToSet(called[k]), ToSet(registered[k])) /\ k \in Lists
    BY <1>2, Names DEF OrderInv, Outcomes, Known
  <2>2. CASE k # l
    <3>1. called'[k] = called[k]
      BY <1>1, <1>2, <2>1, <2>2 DEF HistoryTypes
    <3> QED
      BY <1>6, <2>1, <2>2, <3>1
  <2>3. CASE k = l
    <3>1. called'[k] = Append(called[k], f) /\ registered[k] \in Seq(Fns) /\ called[k] \in Seq(Fns)
      BY <1>1, <1>2, <1>3, <2>1, <2>3 DEF HistoryTypes
    <3>2. c.firing /\ ~c.spent
      <4>1. c.firing
        BY <1>1, <1>4, <1>5, Turn
      <4> QED
        BY <1>2, <1>4, <1>5, <2>3, <4>1, RunningIsFired DEF Fired
    <3>3. c.index < Len(c.list) /\ c.list[c.index + 1] = User(f)
      BY <1>1, <1>3, <1>4, <1>5 DEF HasNext, Current
    <3> QED
      BY <1>4, <1>5, <1>6, <2>1, <2>3, <3>1, <3>2, <3>3, CalledInOrder
  <2> QED
    BY <2>2, <2>3
<1> QED
  BY <1>1, <1>7 DEF OrderInv, Outcomes

\* The document's readiness fires the list of the deferred that tells of it.
LEMMA ReadyMoves ==
    ASSUME PromiseInv, Release \/ Completed
    PROVE  /\ UNCHANGED <<called, registered>>
           /\ UNCHANGED cb \/ \E op \in Operations : op = Op("fire", <<ReadyList, "done">>, Nothing) /\ Operates(op, cb)
<1> DEFINE op == Op("fire", <<ReadyList, "done">>, Nothing)
<1>1. /\ PageRuns \/ Len(stack) = 1
      /\ Perform(op, cb, stack) \/ UNCHANGED <<cb, stack>>
      /\ UNCHANGED <<called, registered>>
  BY DEF Release, Completed, Calling, Idle, ResolveReady, closure, history
<1>2. Sound(cb, stack)
  BY <1>1, Quiet
<1>3. op \in Operations /\ op.do = "fire"
  BY DeferredAssumption, ReadyAssumption DEF Op, Operations, Lists
<1> QED
  BY <1>1, <1>2, <1>3, OperatesSoundly

LEMMA OrderInit == Init => OrderInv
<1> SUFFICES ASSUME Init, NEW l \in Outcomes
             PROVE  InOrder(cb[l], called[l], registered[l])
  BY DEF OrderInv, Outcomes
<1>1. l \in Lists /\ cb[l] = NewDeferred(l) /\ called[l] = <<>> /\ registered[l] = <<>> /\ l[2] # "progress"
  BY Names DEF Init, Outcomes
<1>2. PICK c : c = cb[l]
  OBVIOUS
<1>3. ~c.memory /\ c.index = 0 /\ c.list = Settling(l[1], l[2]) /\ Len(c.list) = 3
  BY <1>1, <1>2 DEF NewDeferred, Fresh, Settling
<1>4. IsInjective(registered[l]) /\ IsPrefix(called[l], registered[l]) /\ Len(registered[l]) = 0
  <2>1. <<>> \in Seq(Fns) /\ Len(<<>>) = 0
    OBVIOUS
  <2>2. PICK none \in Seq(Fns) : none = <<>> /\ Len(none) = 0
    BY <2>1
  <2>3. IsPrefix(none, none)
    BY <2>2 DEF IsPrefix
  <2>4. IsInjective(none)
    <3>1. DOMAIN none = 1 .. Len(none) /\ Len(none) = 0
      BY <2>2, LenProperties
    <3> QED
      BY <3>1 DEF IsInjective
  <2> QED
    BY <1>1, <2>2, <2>3, <2>4
<1> QED
  BY <1>2, <1>3, <1>4 DEF InOrder

LEMMA OrderStep ==
    ASSUME PromiseInv, OrderInv, [ReadyNext]_readyVars
    PROVE  OrderInv'
<1>1. CASE Next
  BY <1>1, Moves, MovesInOrder, AddsInOrder, CallsInOrder
<1>2. CASE Release \/ Completed
  <2>1. CASE UNCHANGED <<cb, called, registered>>
    BY <2>1 DEF OrderInv
  <2>2. ASSUME NEW op \in Operations, Operates(op, cb), UNCHANGED <<called, registered>>
        PROVE  OrderInv'
    <3>1. cb \in [Lists -> ListRecords] /\ \A k \in Outcomes : InOrder(cb[k], called[k], registered[k])
      BY Parts DEF OrderInv, Outcomes, Shape
    <3>2. \A k \in Outcomes : InOrder(cb'[k], called[k], registered[k])
      BY <2>2, <3>1, OperatesInOrder
    <3> QED
      BY <2>2, <3>2 DEF OrderInv, Outcomes
  <2> QED
    BY <1>2, <2>1, <2>2, ReadyMoves
<1>3. CASE Hold \/ UNCHANGED readyVars
  BY <1>3 DEF Hold, readyVars, vars, history, OrderInv
<1> QED
  BY <1>1, <1>2, <1>3 DEF ReadyNext

\* When the page's code is done, a list that was fired and of which no function threw
\* has called all that was added to it.
LEMMA NoneIsLeft ==
    ASSUME PromiseInv, OrderInv
    PROVE  OrderKept
<1> SUFFICES ASSUME NEW l \in Outcomes
             PROVE  /\ IsPrefix(called[l], registered[l])
                    /\ Idle /\ state[l[1]] = StateOf(l[2]) /\ ~cb[l].firing => called[l] = registered[l]
  BY DEF OrderKept, Outcomes
<1>1. InOrder(cb[l], called[l], registered[l]) /\ l \in Lists
  BY Names DEF OrderInv, Outcomes
<1>2. called[l] \in Seq(Fns) /\ registered[l] \in Seq(Fns)
  BY <1>1, Parts DEF HistoryTypes
<1>3. /\ IsPrefix(called[l], registered[l]) /\ Len(called[l]) <= Len(registered[l])
      /\ \A i \in 1 .. Len(called[l]) : called[l][i] = registered[l][i]
  BY <1>1, <1>2, PrefixIs DEF InOrder
<1>4. ASSUME Idle, state[l[1]] = StateOf(l[2]), ~cb[l].firing
      PROVE  called[l] = registered[l]
  <2>1. PICK d \in Deferreds, kind \in {"done", "fail"} : l = <<d, kind>>
    BY DEF Outcomes
  <2>2. Calm(cb, d)
    BY <1>4, Quiet DEF Idle, Sound
  <2>3. Fired(cb[l], l, {})
    <3>1. \A k \in {"done", "fail"} : StateOf(k) = StateOf(kind) => k = kind
      BY DEF StateOf
    <3>2. state[d] = StateOf(kind) /\ StateOf(kind) # "pending"
      BY <1>4, <2>1, Names
    <3> QED
      BY <2>1, <2>2, <3>1, <3>2 DEF Calm
  <2>4. cb[l].list = <<>> /\ ~cb[l].spent
    BY <1>1, <1>4, <2>3 DEF Fired, InOrder
  <2>5. \A p \in 1 .. Len(registered[l]) : ~(p > Len(called[l]))
    <3>1. \A i \in 1 .. Len(cb[l].list) : FALSE
      <4>1. Len(cb[l].list) = 0
        BY <2>4
      <4> QED
        BY <4>1
    <3> QED
      BY <1>1, <2>4, <3>1 DEF InOrder
  <2>6. Len(called[l]) = Len(registered[l])
    <3>1. PICK n \in Nat, m \in Nat : n = Len(called[l]) /\ m = Len(registered[l])
      BY <1>2
    <3>2. n <= m /\ ~(m \in 1 .. m /\ m > n)
      BY <1>3, <2>5, <3>1
    <3> QED
      BY <3>1, <3>2
  <2> QED
    BY <1>2, <1>3, <2>6, SeqEqual
<1> QED
  BY <1>3, <1>4

\* The functions that wait for an outcome are called in the order in which they were
\* added, whatever adds them and whenever, and in the end none is left out.
THEOREM OrderHolds == ReadySpec => []OrderKept
<1>1. ReadyInit => OrderInv
  BY OrderInit DEF ReadyInit
<1>2. PromiseInv /\ OrderInv /\ [ReadyNext]_readyVars => OrderInv'
  BY OrderStep
<1>3. ReadySpec => []OrderInv
  BY <1>1, <1>2, Invariance, PTL DEF ReadySpec
<1>4. PromiseInv /\ OrderInv => OrderKept
  BY NoneIsLeft
<1> QED
  BY <1>3, <1>4, Invariance, PTL
-----------------------------------------------------------------------------
(***************************************************************************)
(* The document's readiness.                                               *)
(***************************************************************************)

ReadyDone == <<ReadyList, "done">>
ReadyFail == <<ReadyList, "fail">>

LEMMA ReadyNames ==
    /\ ReadyList \in Deferreds /\ ReadyList \in Withheld
    /\ ReadyDone \in Outcomes /\ ReadyFail \in Outcomes /\ ReadyDone \in Lists /\ ReadyFail \in Lists
    /\ ReadyDone # ReadyFail /\ ReadyDone[1] = ReadyList /\ ReadyFail[1] = ReadyList
BY DeferredAssumption, ReadyAssumption DEF ReadyDone, ReadyFail, Outcomes, Lists

\* What the page and the engine leave alone: whether the deferred was fired.
Kept == cb'[ReadyDone].memory = cb[ReadyDone].memory /\ ~cb'[ReadyFail].memory

LEMMA AddKeepsMemory ==
    ASSUME NEW op \in Operations, op.do = "add", NEW c \in ListRecords, c.spent => ~c.memory
    PROVE  Result(op, c).memory = c.memory
<1>1. PICK r : r = Result(op, c)
  OBVIOUS
<1>2. /\ r \in ListRecords
      /\ Starts(op, c) => c.memory
      /\ ~Starts(op, c) => r.memory = c.memory
      /\ Starts(op, c) => r.memory
  BY <1>1, ResultAdd
<1>3. r.memory \in BOOLEAN /\ c.memory \in BOOLEAN
  BY <1>2 DEF ListRecords
<1> QED
  BY <1>1, <1>2, <1>3

LEMMA OperatesKeeps ==
    ASSUME NEW lists \in [Lists -> ListRecords], NEW op \in Operations, Operates(op, lists), Leaves(op),
           ~cb[ReadyFail].memory, ~lists[ReadyFail].memory
    PROVE  cb'[ReadyDone].memory = lists[ReadyDone].memory /\ ~cb'[ReadyFail].memory
<1>1. \A k \in Lists : cb'[k] = IF k = op.list THEN Result(op, lists[k]) ELSE lists[k]
  BY DEF Operates, ListsAfter
<1>2. CASE op.list \notin {ReadyDone, ReadyFail}
  BY <1>1, <1>2, ReadyNames
<1>3. ASSUME op.list \in {ReadyDone, ReadyFail}
      PROVE  op.do \in {"add", "disable"} /\ op.list \in Lists /\ op.list[2] # "progress"
  <2>1. op.do # "fire"
    BY <1>3, ReadyNames DEF Leaves
  <2>2. op.list[2] # "progress"
    BY <1>3 DEF ReadyDone, ReadyFail
  <2> QED
    BY <1>3, <2>1, <2>2, ReadyNames DEF Operates, Operations
<1>4. CASE op.list \in {ReadyDone, ReadyFail} /\ op.do = "add"
  <2>1. PICK c \in ListRecords : c = lists[op.list]
    BY <1>3, <1>4
  <2>2. Result(op, c).memory = c.memory
    BY <1>4, <2>1, AddKeepsMemory DEF Operates
  <2> QED
    BY <1>1, <1>4, <2>1, <2>2, ReadyNames
<1>5. CASE op.list \in {ReadyDone, ReadyFail} /\ op.do = "disable"
  <2>1. PICK d \in Deferreds, kind \in {"done", "fail"} : op.list = <<d, Other(kind)>> /\ cb[<<d, kind>>].memory
    BY <1>5 DEF Operates
  <2>2. op.list = ReadyFail
    <3>1. ASSUME op.list = ReadyDone
          PROVE  FALSE
      <4>1. d = ReadyList /\ Other(kind) = "done"
        BY <2>1, <3>1 DEF ReadyDone
      <4>2. kind = "fail"
        BY <4>1 DEF Other
      <4> QED
        BY <2>1, <4>1, <4>2 DEF ReadyFail
    <3> QED
      BY <1>5, <3>1
  <2>3. PICK c \in ListRecords : c = lists[ReadyFail]
    BY ReadyNames
  <2>4. PICK r : r = Result(op, c)
    OBVIOUS
  <2>5. ~r.memory
    BY <1>5, <2>3, <2>4, ResultLock
  <2> QED
    BY <1>1, <2>2, <2>3, <2>4, <2>5, ReadyNames
<1> QED
  BY <1>2, <1>3, <1>4, <1>5

LEMMA AdvancedKeepsMemory ==
    ASSUME PromiseInv, NEW l \in Lists, NEW lists, lists = Advanced(l)
    PROVE  lists \in [Lists -> ListRecords] /\ \A k \in Lists : lists[k].memory = cb[k].memory
<1>1. Shape(cb, stack, thrown)
  BY Parts
<1>2. Shape(lists, stack, thrown) /\ \A k \in Lists : lists[k] = IF k = l THEN Later(cb[l]) ELSE cb[k]
  BY <1>1, AdvancedShape
<1>3. PICK c \in ListRecords : c = cb[l]
  BY <1>1 DEF Shape
<1>4. PICK r : r = Later(c)
  OBVIOUS
<1>5. r.memory = c.memory
  BY <1>3, <1>4, Advances
<1> QED
  BY <1>2, <1>3, <1>4, <1>5 DEF Shape

LEMMA NextKeeps ==
    ASSUME PromiseInv, ~cb[ReadyFail].memory, Next
    PROVE  Kept
<1>1. cb \in [Lists -> ListRecords]
  BY Parts DEF Shape
<1>2. ASSUME ListsMove
      PROVE  Kept
  <2>1. CASE UNCHANGED cb
    BY <2>1 DEF Kept
  <2>2. ASSUME NEW l \in Lists, cb' = Advanced(l)
        PROVE  Kept
    BY <2>2, AdvancedKeepsMemory, ReadyNames DEF Kept
  <2>3. ASSUME NEW op \in Operations, Leaves(op), Operates(op, cb)
        PROVE  Kept
    BY <1>1, <2>3, OperatesKeeps DEF Kept
  <2>4. ASSUME NEW op \in Operations, Leaves(op), NEW l \in Lists, Operates(op, Advanced(l))
        PROVE  Kept
    <3>1. PICK lists \in [Lists -> ListRecords] :
            lists = Advanced(l) /\ \A k \in Lists : lists[k].memory = cb[k].memory
      BY AdvancedKeepsMemory
    <3> QED
      BY <2>4, <3>1, OperatesKeeps, ReadyNames DEF Kept
  <2>5. ASSUME NEW l \in Lists, NextRound(l), l \notin Outcomes
        PROVE  Kept
    <3>1. \A k \in Lists \ {l} : cb'[k] = cb[k]
      BY <1>1, <2>5 DEF NextRound
    <3> QED
      BY <2>5, <3>1, ReadyNames DEF Kept
  <2>6. ASSUME NEW l \in Lists, Finish(l)
        PROVE  Kept
    <3>1. PICK c, r : c = cb[l] /\ r = cb'[l]
      OBVIOUS
    <3>2. c.memory /\ r.memory /\ r \in ListRecords /\ \A k \in Lists \ {l} : cb'[k] = cb[k]
      BY <2>6, <3>1, Finished
    <3>3. c \in ListRecords /\ r.memory = c.memory
      BY <1>1, <3>1, <3>2 DEF ListRecords
    <3>4. l # ReadyFail
      BY <3>1, <3>2
    <3> QED
      BY <3>1, <3>2, <3>3, <3>4, ReadyNames DEF Kept
  <2> QED
    BY <1>2, <2>1, <2>2, <2>3, <2>4, <2>5, <2>6 DEF ListsMove
<1>3. ASSUME NEW l \in Lists, AddOne(l)
      PROVE  Kept
  <2>1. PICK op : PageRuns /\ Perform(op, cb, stack) /\ \E f \in Fns : op = Op("add", l, User(f))
    BY <1>3 DEF AddOne, CallList, Calling, NewFns
  <2>2. op \in Operations /\ op.do = "add" /\ op.list = l
    BY <2>1, GivenByItself DEF Op, Operations
  <2>3. Sound(cb, stack)
    BY <2>1, Quiet
  <2>4. PICK c \in ListRecords : c = cb[l]
    BY <1>1
  <2>5. PICK r : r = Result(op, c)
    OBVIOUS
  <2>6. r.memory = c.memory
    BY <2>2, <2>3, <2>4, <2>5, SpentForgets, AddKeepsMemory
  <2>7. \A k \in Lists : cb'[k] = IF k = l THEN r ELSE cb[k]
    BY <1>1, <2>1, <2>2, <2>4, <2>5, PerformResult DEF ListsAfter
  <2> QED
    BY <2>4, <2>5, <2>6, <2>7, ReadyNames DEF Kept
<1>4. ASSUME NEW l \in Lists, CallUser(l)
      PROVE  Kept
  <2>1. cb' = Advanced(l)
    BY <1>4 DEF CallUser
  <2> QED
    BY <2>1, AdvancedKeepsMemory, ReadyNames DEF Kept
<1> QED
  BY <1>2, <1>3, <1>4, Moves

\* The functions given to ready() are called only when the deferred was fired.
LEMMA NextCalls ==
    ASSUME PromiseInv, Next, called'[ReadyDone] # called[ReadyDone]
    PROVE  cb[ReadyDone].memory
<1>1. ~UNCHANGED called
  OBVIOUS
<1>2. PICK l \in Lists : CallUser(l) /\ Current(l).kind = "user"
  <2>1. ~ListsMove
    BY <1>1 DEF ListsMove
  <2>2. \A l \in Lists : ~AddOne(l)
    BY <1>1 DEF AddOne, CallList
  <2> QED
    BY <2>1, <2>2, Moves
<1>3. l = ReadyDone
  <2>1. called \in [Lists -> Seq(Fns)]
    BY Parts DEF HistoryTypes
  <2>2. called' = [called EXCEPT ![l] = Append(@, Current(l).arg)]
    BY <1>2 DEF CallUser
  <2> QED
    BY <2>1, <2>2, ReadyNames
<1>4. Looping(l) /\ HasNext(l) /\ Sound(cb, stack) /\ cb[l].firing
  BY <1>2, CallsGiven DEF CallUser
<1> QED
  BY <1>3, <1>4, RunningIsFired, ReadyNames DEF Fired

\* resolveWith() makes the deferred's list one that was fired.
LEMMA FiredThen ==
    ASSUME PromiseInv, ~cb[ReadyFail].memory, PageRuns \/ Len(stack) = 1,
           Perform(Op("fire", ReadyDone, Nothing), cb, stack)
    PROVE  cb'[ReadyDone].memory /\ cb'[ReadyFail] = cb[ReadyFail]
<1> DEFINE op == Op("fire", ReadyDone, Nothing)
<1>1. op \in Operations /\ op.do = "fire" /\ op.list = ReadyDone
  BY ReadyNames DEF Op, Operations
<1>2. Perform(op, cb, stack)
  OBVIOUS
<1> HIDE DEF op
<1>3. cb \in [Lists -> ListRecords] /\ Calm(cb, ReadyList)
  BY Quiet, Parts, ReadyNames DEF Sound, Shape
<1>4. PICK c \in ListRecords : c = cb[ReadyDone]
  BY <1>3, ReadyNames
<1>5. PICK r : r = Result(op, c)
  OBVIOUS
<1>6. cb'[ReadyDone] = r /\ cb'[ReadyFail] = cb[ReadyFail]
  BY <1>1, <1>2, <1>3, <1>4, <1>5, PerformResult, ReadyNames DEF ListsAfter
<1>7. Untouched(c, ReadyDone) \/ Fired(c, ReadyDone, {})
  <2>1. \A kind \in {"done", "fail"} : <<ReadyList, kind>> = ReadyDone \/ <<ReadyList, kind>> = ReadyFail
    BY DEF ReadyDone, ReadyFail
  <2>2. ~Fired(cb[ReadyFail], ReadyFail, {})
    BY DEF Fired
  <2>3. \A kind \in {"done", "fail"} : Fired(cb[<<ReadyList, kind>>], <<ReadyList, kind>>, {}) => Fired(c, ReadyDone, {})
    BY <1>4, <1>5, <2>1, <2>2
  <2>4. (\A kind \in {"done", "fail"} : Untouched(cb[<<ReadyList, kind>>], <<ReadyList, kind>>)) => Untouched(c, ReadyDone)
    BY <1>4, <1>5 DEF ReadyDone
  <2> QED
    BY <1>3, <2>3, <2>4 DEF Calm
<1>8. r.memory
  <2>1. CASE Untouched(c, ReadyDone)
    <3>1. Fired(r, ReadyDone, {1, 2})
      BY <1>1, <1>4, <1>5, <2>1, LifeFire, ReadyNames
    <3> QED
      BY <3>1 DEF Fired
  <2>2. CASE Fired(c, ReadyDone, {})
    <3>1. r = c
      BY <1>1, <1>4, <1>5, <2>2, LifeFire, ReadyNames
    <3> QED
      BY <2>2, <3>1 DEF Fired
  <2> QED
    BY <1>7, <2>1, <2>2
<1> QED
  BY <1>6, <1>8

LEMMA HoldFollows ==
    ASSUME ReadyFollows, Hold
    PROVE  ReadyFollows'
<1>1. /\ readyWait' = readyWait + 1 /\ holds' = holds + 1
      /\ UNCHANGED <<cb, called, isReady, loaded, excess, due>>
  BY DEF Hold, history
<1> QED
  BY <1>1 DEF ReadyFollows

LEMMA NextFollows ==
    ASSUME PromiseInv, ReadyFollows, Next, UNCHANGED ready
    PROVE  ReadyFollows'
<1>1. ~cb[ReadyFail].memory /\ (called[ReadyDone] # <<>> => cb[ReadyDone].memory)
  BY DEF ReadyFollows, ReadyDone, ReadyFail
<1>2. cb'[ReadyDone].memory = cb[ReadyDone].memory /\ ~cb'[ReadyFail].memory
  BY <1>1, NextKeeps DEF Kept
<1>3. called'[ReadyDone] # <<>> => cb'[ReadyDone].memory
  BY <1>1, <1>2, NextCalls
<1> QED
  BY <1>2, <1>3 DEF ReadyFollows, ready, ReadyDone, ReadyFail

\* What holds of the lists after jQuery.ready() has passed on or not.
LEMMA Resolves ==
    ASSUME PromiseInv, ReadyFollows, NEW wait \in BOOLEAN, ResolveReady(wait), PageRuns \/ Len(stack) = 1,
           NEW left, left = IF wait \/ ~isReady THEN readyWait - 1 ELSE readyWait
    PROVE  /\ readyWait' = left /\ isReady' = (isReady \/ ~wait \/ left = 0)
           /\ ~cb'[ReadyFail].memory
           /\ called'[ReadyDone] # <<>> => cb'[ReadyDone].memory
           /\ IF Passes(wait, left) THEN cb'[ReadyDone].memory ELSE cb'[ReadyDone] = cb[ReadyDone]
<1>1. /\ readyWait' = left /\ isReady' = (isReady \/ ~wait \/ left = 0) /\ UNCHANGED called
      /\ IF Passes(wait, left) THEN Perform(Op("fire", ReadyDone, Nothing), cb, stack) ELSE UNCHANGED <<cb, stack>>
  BY DEF ResolveReady, history, ReadyDone
<1>2. ~cb[ReadyFail].memory /\ (called[ReadyDone] # <<>> => cb[ReadyDone].memory)
  BY DEF ReadyFollows, ReadyDone, ReadyFail
<1>3. CASE Passes(wait, left)
  <2>1. cb'[ReadyDone].memory /\ cb'[ReadyFail] = cb[ReadyFail]
    BY <1>1, <1>2, <1>3, FiredThen
  <2> QED
    BY <1>1, <1>2, <1>3, <2>1
<1>4. CASE ~Passes(wait, left)
  BY <1>1, <1>2, <1>4
<1> QED
  BY <1>3, <1>4

LEMMA ReleaseFollows ==
    ASSUME PromiseInv, ReadyFollows, Release
    PROVE  ReadyFollows'
<1> DEFINE left == readyWait - 1
<1>1. /\ PageRuns /\ ResolveReady(TRUE)
      /\ holds' = holds - 1 /\ excess' = (excess \/ holds = 0) /\ due' = (due \/ (loaded /\ holds = 1)) /\ loaded' = loaded
  BY DEF Release, Calling
<1>2. /\ readyWait' = left /\ isReady' = (isReady \/ left = 0) /\ ~cb'[ReadyFail].memory
      /\ called'[ReadyDone] # <<>> => cb'[ReadyDone].memory
      /\ IF left = 0 THEN cb'[ReadyDone].memory ELSE cb'[ReadyDone] = cb[ReadyDone]
  BY <1>1, Resolves DEF Passes
<1>3. /\ readyWait \in Int /\ holds \in Int /\ {isReady, loaded, excess, due} \subseteq BOOLEAN
      /\ ~excess => /\ holds >= 0 /\ readyWait = holds + (IF loaded THEN 0 ELSE 1)
                    /\ (isReady <=> loaded) /\ (due => loaded) /\ (due <=> cb[ReadyDone].memory)
  BY DEF ReadyFollows, ReadyDone
<1>4. readyWait' \in Int /\ holds' \in Int /\ {isReady', loaded', excess', due'} \subseteq BOOLEAN
  BY <1>1, <1>2, <1>3
<1>5. ASSUME ~excess'
      PROVE  /\ holds' >= 0 /\ readyWait' = holds' + (IF loaded' THEN 0 ELSE 1)
             /\ (isReady' <=> loaded') /\ (due' => loaded') /\ (due' <=> cb'[ReadyDone].memory)
  <2>1. ~excess /\ holds # 0
    BY <1>1, <1>5
  <2>2. holds' >= 0 /\ readyWait' = holds' + (IF loaded' THEN 0 ELSE 1) /\ (left = 0 <=> loaded /\ holds = 1)
    BY <1>1, <1>2, <1>3, <2>1
  <2>3. (isReady' <=> loaded') /\ (due' => loaded')
    BY <1>1, <1>2, <1>3, <2>1, <2>2
  <2>4. due' <=> cb'[ReadyDone].memory
    BY <1>1, <1>2, <1>3, <2>1, <2>2
  <2> QED
    BY <2>2, <2>3, <2>4
<1> QED
  BY <1>2, <1>4, <1>5 DEF ReadyFollows, ReadyDone, ReadyFail

LEMMA CompletedFollows ==
    ASSUME PromiseInv, ReadyFollows, Completed
    PROVE  ReadyFollows'
<1> DEFINE left == IF ~isReady THEN readyWait - 1 ELSE readyWait
<1>1. /\ Len(stack) = 1 /\ ~loaded /\ ResolveReady(FALSE)
      /\ holds' = holds /\ excess' = excess /\ due' = (holds = 0) /\ loaded' = TRUE
  BY DEF Completed, Idle
<1>2. /\ readyWait' = left /\ isReady' = TRUE /\ ~cb'[ReadyFail].memory
      /\ called'[ReadyDone] # <<>> => cb'[ReadyDone].memory
      /\ IF ~isReady /\ left <= 0 THEN cb'[ReadyDone].memory ELSE cb'[ReadyDone] = cb[ReadyDone]
  BY <1>1, Resolves DEF Passes
<1>3. /\ readyWait \in Int /\ holds \in Int /\ {isReady, loaded, excess, due} \subseteq BOOLEAN
      /\ ~excess => /\ holds >= 0 /\ readyWait = holds + (IF loaded THEN 0 ELSE 1)
                    /\ (isReady <=> loaded) /\ (due => loaded) /\ (due <=> cb[ReadyDone].memory)
  BY DEF ReadyFollows, ReadyDone
<1>4. readyWait' \in Int /\ holds' \in Int /\ {isReady', loaded', excess', due'} \subseteq BOOLEAN
  BY <1>1, <1>2, <1>3
<1>5. ASSUME ~excess'
      PROVE  /\ holds' >= 0 /\ readyWait' = holds' + (IF loaded' THEN 0 ELSE 1)
             /\ (isReady' <=> loaded') /\ (due' => loaded') /\ (due' <=> cb'[ReadyDone].memory)
  <2>1. ~excess /\ ~isReady /\ ~due /\ ~cb[ReadyDone].memory
    BY <1>1, <1>3, <1>5
  <2>2. holds' >= 0 /\ readyWait' = holds' /\ left = holds /\ (left <= 0 <=> holds = 0)
    BY <1>1, <1>2, <1>3, <2>1
  <2>3. due' <=> cb'[ReadyDone].memory
    BY <1>1, <1>2, <2>1, <2>2
  <2> QED
    BY <1>1, <1>2, <1>3, <2>2, <2>3
<1> QED
  BY <1>2, <1>4, <1>5 DEF ReadyFollows, ReadyDone, ReadyFail

LEMMA ReadyFollowsInit == ReadyInit => ReadyFollows
<1> SUFFICES ASSUME ReadyInit
             PROVE  ReadyFollows
  OBVIOUS
<1>1. /\ isReady = FALSE /\ readyWait = 1 /\ loaded = FALSE /\ holds = 0 /\ excess = FALSE /\ due = FALSE
      /\ \A l \in Lists : cb[l] = NewDeferred(l) /\ called[l] = <<>>
  BY DEF ReadyInit, Properties, Init
<1>2. ~cb[ReadyDone].memory /\ ~cb[ReadyFail].memory /\ called[ReadyDone] = <<>>
  <2>1. \A l \in Lists : NewDeferred(l).memory = FALSE
    BY DEF NewDeferred, Fresh
  <2> QED
    BY <1>1, <2>1, ReadyNames
<1>3. readyWait \in Int /\ holds \in Int /\ {isReady, loaded, excess, due} \subseteq BOOLEAN
  <2>1. readyWait \in Int /\ holds \in Int
    BY <1>1
  <2>2. isReady \in BOOLEAN /\ loaded \in BOOLEAN /\ excess \in BOOLEAN /\ due \in BOOLEAN
    BY <1>1
  <2> QED
    BY <2>1, <2>2
<1>4. holds >= 0 /\ readyWait = holds + (IF loaded THEN 0 ELSE 1)
  BY <1>1
<1>5. (isReady <=> loaded) /\ (due => loaded) /\ (due <=> cb[ReadyDone].memory)
  BY <1>1, <1>2
<1> QED
  BY <1>2, <1>3, <1>4, <1>5 DEF ReadyFollows, ReadyDone, ReadyFail

LEMMA RunsThen ==
    ASSUME PromiseInv, ReadyFollows
    PROVE  RunsWhenReady
<1>1. /\ ~cb[ReadyFail].memory /\ (called[ReadyDone] # <<>> => cb[ReadyDone].memory)
      /\ ~excess => readyWait = holds + (IF loaded THEN 0 ELSE 1) /\ (due <=> cb[ReadyDone].memory)
  BY DEF ReadyFollows, ReadyDone, ReadyFail
<1>2. \A kind \in {"done", "fail"} :
        /\ <<ReadyList, kind>> = IF kind = "done" THEN ReadyDone ELSE ReadyFail
        /\ cb[<<ReadyList, kind>>].memory => kind = "done" /\ cb[ReadyDone].memory
  BY <1>1 DEF ReadyDone, ReadyFail
<1>3. ASSUME state[ReadyList] # "pending"
      PROVE  cb[ReadyDone].memory
  <2>1. PICK kind \in {"done", "fail"} : cb[<<ReadyList, kind>>].memory
    <3>1. CASE Calm(cb, ReadyList)
      BY <1>3, <3>1 DEF Calm, Fired
    <3>2. CASE \E kind \in {"done", "fail"} : Settles(ReadyList, kind)
      BY <3>2 DEF Settles, Fired
    <3> QED
      BY <3>1, <3>2, Parts, ReadyNames DEF AllSettled
  <2> QED
    BY <1>2, <2>1
<1>4. ASSUME Idle, cb[ReadyDone].memory
      PROVE  state[ReadyList] = "resolved"
  <2>1. Calm(cb, ReadyList)
    BY <1>4, Quiet, ReadyNames DEF Idle, Sound
  <2>2. ~Untouched(cb[ReadyDone], ReadyDone)
    BY <1>4 DEF Untouched
  <2>3. PICK kind \in {"done", "fail"} : state[ReadyList] = StateOf(kind) /\ cb[<<ReadyList, kind>>].memory
    BY <2>1, <2>2, <1>2 DEF Calm, Fired
  <2> QED
    BY <1>2, <2>3 DEF StateOf
<1> QED
  BY <1>1, <1>3, <1>4 DEF RunsWhenReady, ReadyDone

LEMMA FollowsStep ==
    ASSUME PromiseInv, ReadyFollows, [ReadyNext]_readyVars
    PROVE  ReadyFollows'
<1>1. CASE UNCHANGED readyVars
  BY <1>1 DEF readyVars, vars, history, ready, ReadyFollows
<1> QED
  BY <1>1, NextFollows, HoldFollows, ReleaseFollows, CompletedFollows DEF ReadyNext

\* The functions given to ready() run when the document is loaded and nothing holds it,
\* whatever else the page does with its deferreds, and whatever throws.
THEOREM ReadyHolds == ReadySpec => []RunsWhenReady
<1>1. ReadyInit => ReadyFollows
  BY ReadyFollowsInit
<1>2. PromiseInv /\ ReadyFollows /\ [ReadyNext]_readyVars => ReadyFollows'
  BY FollowsStep
<1>3. ReadySpec => []ReadyFollows
  BY <1>1, <1>2, Invariance, PTL DEF ReadySpec
<1>4. PromiseInv /\ ReadyFollows => RunsWhenReady
  BY RunsThen
<1> QED
  BY <1>3, <1>4, Invariance, PTL
-----------------------------------------------------------------------------
(***************************************************************************)
(* The deferreds of then() and when() follow those they were made of, in   *)
(* whatever order these are settled and whatever the functions do: the     *)
(* parent of a child, and the countdown of a master over its subordinates. *)
(***************************************************************************)

ListsFit == \A l \in Lists : \A i \in 1 .. Len(cb[l].list) : Fits(cb, cb[l].list[i], l)

StackFits ==
    \A k \in 1 .. Len(stack) :
        RunFits(cb, stack[k].running) /\ \A i \in 1 .. Len(stack[k].todo) : RestFits(cb, stack[k].todo[i])

FiredDue == \A m \in Derived, kind \in {"done", "fail"} : cb[<<m, kind>>].memory => Due(cb, m, kind)

Countdown == \A m \in Deferreds : \E owed \in SUBSET subs[m] : Counted(cb, stack, m, owed)

LEMMA ChainParts == ChainInv <=> Origins /\ ListsFit /\ StackFits /\ FiredDue /\ Countdown
BY DEF ChainInv, Aims, ListsFit, StackFits, FiredDue, Countdown

LEMMA ChainPartsNext == ChainInv' <=> Origins' /\ ListsFit' /\ StackFits' /\ FiredDue' /\ Countdown'
BY DEF ChainInv, Aims, ListsFit, StackFits, FiredDue, Countdown
-----------------------------------------------------------------------------
(***************************************************************************)
(* What was due stays due.                                                 *)
(***************************************************************************)

\* No step takes back an outcome, a notification or who was made of whom.
Steady ==
    /\ made \subseteq Deferreds /\ made \subseteq made'
    /\ \A c \in made : parent'[c] = parent[c] /\ subs'[c] = subs[c]
    /\ \A d \in Deferreds : state[d] # "pending" => state'[d] = state[d]
    /\ \A d \in Deferreds : cb[<<d, "progress">>].memory => cb'[<<d, "progress">>].memory

LEMMA StillAnswered ==
    ASSUME Origins, Steady, NEW m \in made, parent[m] # Nothing, Answered(cb, parent[m])
    PROVE  parent'[m] = parent[m] /\ Answered(cb, parent[m])'
<1>1. parent[m] \in Deferreds /\ parent'[m] = parent[m]
  BY DEF Origins, Steady
<1>2. PICK d \in Deferreds : d = parent[m]
  BY <1>1
<1>3. Answered(cb, d)'
  BY <1>2 DEF Answered, Steady
<1> QED
  BY <1>1, <1>2, <1>3

LEMMA StillFits ==
    ASSUME Origins, Steady
    PROVE  /\ \A g, l : Fits(cb, g, l) => Fits(cb, g, l)'
           /\ \A op : RestFits(cb, op) => RestFits(cb, op)'
           /\ \A g : RunFits(cb, g) => RunFits(cb, g)'
           /\ \A m, kind : Due(cb, m, kind) => Due(cb, m, kind)'
<1>1. \A m \in made : m \in made' /\ parent'[m] = parent[m] /\ subs'[m] = subs[m]
  BY DEF Steady
<1>2. ASSUME NEW m \in made, parent[m] # Nothing, Answered(cb, parent[m])
      PROVE  state'[parent'[m]] # "pending" \/ cb'[<<parent'[m], "progress">>].memory
  BY <1>2, StillAnswered DEF Answered
<1>3. ASSUME NEW g, NEW l, Fits(cb, g, l)
      PROVE  Fits(cb, g, l)'
  BY <1>1, <1>2, <1>3 DEF Fits, Answered
<1>4. ASSUME NEW op, RestFits(cb, op)
      PROVE  RestFits(cb, op)'
  <2>1. op.do = "end" => op.list[1] \in made' /\ parent'[op.list[1]] = Nothing /\ op.list[2] = "done"
    BY <1>1, <1>4 DEF RestFits
  <2>2. op.do = "add" => Fits(cb, op.fn, op.list)'
    BY <1>3, <1>4 DEF RestFits
  <2> QED
    BY <2>1, <2>2 DEF RestFits
<1>5. ASSUME NEW g, RunFits(cb, g)
      PROVE  RunFits(cb, g)'
  BY <1>1, <1>2, <1>5 DEF RunFits, Answered
<1>6. ASSUME NEW m, NEW kind, Due(cb, m, kind)
      PROVE  Due(cb, m, kind)'
  <2>1. m \in made /\ m \in made' /\ parent'[m] = parent[m] /\ subs'[m] = subs[m]
    BY <1>1, <1>6 DEF Due
  <2>2. CASE parent[m] # Nothing
    BY <1>2, <1>6, <2>1, <2>2 DEF Due, Answered
  <2>3. CASE parent[m] = Nothing
    <3>1. subs[m] \subseteq Deferreds
      BY <2>1 DEF Origins, Steady
    <3>2. \A d \in subs[m] : state[d] \in {"resolved", "rejected"} => state'[d] = state[d]
      BY <3>1 DEF Steady
    <3> QED
      BY <1>6, <2>1, <2>3, <3>2 DEF Due
  <2> QED
    BY <2>2, <2>3
<1> QED
  BY <1>3, <1>4, <1>5, <1>6
-----------------------------------------------------------------------------
(***************************************************************************)
(* What a step makes of a list.                                            *)
(***************************************************************************)

\* Nothing moves; the last function may have been added by op; the index of an outcome's
\* list goes on; op fires the list, or it has been fired.
Turns(op, l, c, r) ==
    /\ \A i \in 1 .. Len(r.list) :
         \/ i \in 1 .. Len(c.list) /\ r.list[i] = c.list[i]
         \/ op.do = "add" /\ l = op.list /\ i = Len(c.list) + 1 /\ r.list[i] = op.fn
    /\ l \in Outcomes =>
         /\ \A i \in 1 .. Len(r.list) : i > r.index /\ i <= Len(c.list) => i > c.index
         /\ r.memory => c.memory \/ (op.do = "fire" /\ l = op.list)
    /\ l \notin Outcomes /\ c.memory => r.memory

Effect(op) == \A l \in Lists : Turns(op, l, cb[l], cb'[l])

NoOp == Op("none", Nothing, Nothing)

LEMMA TurnsLater ==
    ASSUME NEW op, NEW l, NEW c \in ListRecords
    PROVE  /\ Turns(op, l, c, c) /\ Turns(op, l, c, Later(c))
           /\ \A r \in ListRecords : Turns(op, l, Later(c), r) => Turns(op, l, c, r)
<1>1. c.index \in Nat /\ Len(c.list) \in Nat
  BY DEF ListRecords
<1>2. PICK n \in ListRecords : n = Later(c) /\ n.list = c.list /\ n.index = c.index + 1 /\ n.memory = c.memory
  BY Advances
<1>3. \A i \in Nat : i > n.index => i > c.index
  BY <1>1, <1>2
<1>4. \A r \in ListRecords : Len(r.list) \in Nat
  BY DEF ListRecords
<1> QED
  BY <1>1, <1>2, <1>3, <1>4 DEF Turns

LEMMA ResultTurns ==
    ASSUME NEW op \in Operations, NEW l \in Lists, op.list = l, NEW c \in ListRecords, c.spent => ~c.memory,
           op.do = "disable" => l \in Outcomes, NEW r, r = Result(op, c)
    PROVE  r \in ListRecords /\ Turns(op, l, c, r)
<1>1. c.index \in Nat /\ Len(c.list) \in Nat /\ c.memory \in BOOLEAN
  BY DEF ListRecords
<1>2. CASE op.do = "add"
  <2>1. /\ r \in ListRecords /\ r.memory = c.memory
        /\ c.spent => r = c
        /\ ~c.spent => Longer(c.list, r.list, op.fn)
        /\ Starts(op, c) => r.index = Len(c.list)
        /\ ~Starts(op, c) => r.index = c.index
    BY <1>2, ResultAdd, AddKeepsMemory
  <2>2. CASE c.spent
    BY <2>1, <2>2, TurnsLater
  <2>3. CASE ~c.spent
    <3>1. \A i \in 1 .. Len(r.list) :
            \/ i \in 1 .. Len(c.list) /\ r.list[i] = c.list[i]
            \/ i = Len(c.list) + 1 /\ r.list[i] = op.fn
      BY <1>1, <2>1, <2>3 DEF Longer
    <3>2. \A i \in 1 .. Len(r.list) : i > r.index /\ i <= Len(c.list) => i > c.index
      BY <1>1, <2>1
    <3> QED
      BY <1>2, <2>1, <3>1, <3>2 DEF Turns
  <2> QED
    BY <2>1, <2>2, <2>3
<1>3. CASE op.do = "fire"
  <2>1. r \in ListRecords /\ r.list = c.list /\ r.index = c.index
    BY <1>3, ResultFire
  <2>2. c.memory => r.memory
    <3>1. CASE Starts(op, c)
      BY <1>3, <3>1, ResultFire
    <3>2. CASE ~Starts(op, c)
      BY <1>3, <3>2 DEF Result, Applied, FireWith, ListRecords
    <3> QED
      BY <3>1, <3>2
  <2> QED
    BY <1>3, <2>1, <2>2 DEF Turns
<1>4. CASE op.do \in {"lock", "disable"}
  <2>1. /\ r \in ListRecords /\ r.index = c.index
        /\ \/ op.do = "lock" /\ c.memory /\ r.list = c.list /\ r.memory
           \/ (op.do = "disable" \/ ~c.memory) /\ ~r.memory /\ r.list = <<>>
    BY <1>4, ResultLock
  <2>2. CASE c.memory /\ r.list = c.list /\ r.memory
    BY <2>1, <2>2 DEF Turns
  <2>3. CASE (op.do = "disable" \/ ~c.memory) /\ ~r.memory /\ r.list = <<>>
    <3>1. \A i : i \notin 1 .. Len(r.list)
      BY <2>3
    <3> QED
      BY <2>1, <2>3, <3>1 DEF Turns
  <2> QED
    BY <2>1, <2>2, <2>3
<1> QED
  BY <1>2, <1>3, <1>4 DEF Operations

\* An operation, performed before or after a list has called its next function.
LEMMA PerformEffect ==
    ASSUME PromiseInv, NEW lists \in [Lists -> ListRecords],
           \A k \in Lists : lists[k] = cb[k] \/ lists[k] = Later(cb[k]),
           NEW op \in Operations, op.do = "disable" => op.list \in Outcomes,
           lists[op.list].spent => ~lists[op.list].memory, cb' = ListsAfter(op, lists)
    PROVE  Effect(op)
<1> SUFFICES ASSUME NEW l \in Lists
             PROVE  Turns(op, l, cb[l], cb'[l])
  BY DEF Effect
<1>1. PICK c \in ListRecords : c = cb[l]
  BY Parts DEF Shape
<1>2. PICK n \in ListRecords : n = lists[l] /\ (n = c \/ n = Later(c))
  BY <1>1
<1>3. PICK r : r = cb'[l] /\ r = IF l = op.list THEN Result(op, n) ELSE n
  BY <1>2 DEF ListsAfter
<1>4. r \in ListRecords /\ Turns(op, l, n, r)
  <2>1. CASE l = op.list
    BY <1>2, <1>3, <2>1, ResultTurns
  <2>2. CASE l # op.list
    BY <1>2, <1>3, <2>2, TurnsLater
  <2> QED
    BY <2>1, <2>2
<1>5. Turns(op, l, c, r)
  <2>1. Turns(op, l, Later(c), r) => Turns(op, l, c, r)
    BY <1>4, TurnsLater
  <2> QED
    BY <1>2, <1>4, <2>1
<1> QED
  BY <1>1, <1>3, <1>5

LEMMA StillEffect ==
    ASSUME PromiseInv, NEW op, UNCHANGED cb \/ \E l \in Lists : cb' = Advanced(l)
    PROVE  Effect(op)
<1> SUFFICES ASSUME NEW k \in Lists
             PROVE  Turns(op, k, cb[k], cb'[k])
  BY DEF Effect
<1>1. PICK c \in ListRecords : c = cb[k]
  BY Parts DEF Shape
<1>2. cb'[k] = c \/ cb'[k] = Later(c)
  BY <1>1, Parts, AdvancedShape
<1> QED
  BY <1>1, <1>2, TurnsLater

LEMMA EndEffect ==
    ASSUME PromiseInv, NEW l \in Lists, NextRound(l) \/ Finish(l), NEW op
    PROVE  Effect(op)
<1> SUFFICES ASSUME NEW k \in Lists
             PROVE  Turns(op, k, cb[k], cb'[k])
  BY DEF Effect
<1>1. PICK c \in ListRecords : c = cb[k]
  BY Parts DEF Shape
<1>2. CASE NextRound(l)
  <2>1. cb \in [Lists -> ListRecords] /\ l \notin Outcomes
    BY <1>2, Parts, RoundMoves DEF Shape
  <2>2. CASE k # l
    <3>1. cb'[k] = cb[k]
      BY <1>2, <2>1, <2>2 DEF NextRound
    <3> QED
      BY <1>1, <3>1, TurnsLater
  <2>3. CASE k = l
    <3>1. cb'[k].list = c.list /\ cb'[k].memory
      BY <1>1, <1>2, <2>1, <2>3 DEF NextRound, ListRecords
    <3> QED
      BY <1>1, <2>1, <2>3, <3>1 DEF Turns
  <2> QED
    BY <2>2, <2>3
<1>3. CASE Finish(l)
  <2>1. CASE k # l
    <3>1. cb'[k] = cb[k]
      BY <1>3, <2>1, Finished
    <3> QED
      BY <1>1, <3>1, TurnsLater
  <2>2. CASE k = l
    <3>1. PICK r : r = cb'[l]
      OBVIOUS
    <3>2. c.memory /\ r.memory /\ r.list = IF c.locked THEN <<>> ELSE c.list
      BY <1>1, <1>3, <2>2, <3>1, Finished
    <3>3. k \in Outcomes => c.locked
      <4>1. Sound(cb, stack) /\ cb[l].firing
        BY <1>3, AtItsEnd DEF Finish
      <4> QED
        BY <1>1, <2>2, <4>1, RunningIsFired DEF Fired
    <3>4. CASE c.locked
      <4>1. \A i : i \notin 1 .. Len(r.list)
        BY <3>2, <3>4
      <4> QED
        BY <1>1, <2>2, <3>1, <3>2, <4>1 DEF Turns
    <3>5. CASE ~c.locked
      BY <1>1, <2>2, <3>1, <3>2, <3>3, <3>5 DEF Turns
    <3> QED
      BY <3>4, <3>5
  <2> QED
    BY <2>1, <2>2
<1> QED
  BY <1>2, <1>3
-----------------------------------------------------------------------------
(***************************************************************************)
(* Each part of the invariant, under the steps.                            *)
(***************************************************************************)

LEMMA Steadily ==
    ASSUME PromiseInv, [ReadyNext]_readyVars, NEW op, Effect(op), made \subseteq made',
           \A c \in made : parent'[c] = parent[c] /\ subs'[c] = subs[c]
    PROVE  Steady
<1>1. made \subseteq Deferreds /\ state \in [Deferreds -> {"pending", "resolved", "rejected"}]
  BY Parts DEF HistoryTypes
<1>2. ASSUME NEW d \in Deferreds, state[d] # "pending"
      PROVE  state'[d] = state[d]
  <2>1. UNCHANGED state \/ \E e \in Deferreds, o \in {"resolved", "rejected"} :
                              state[e] = "pending" /\ state' = [state EXCEPT ![e] = o]
    BY EveryStep DEF SettlesOne, CallsOne
  <2> QED
    BY <1>1, <1>2, <2>1
<1>3. ASSUME NEW d \in Deferreds, cb[<<d, "progress">>].memory
      PROVE  cb'[<<d, "progress">>].memory
  <2>1. <<d, "progress">> \in Lists \ Outcomes
    BY Names
  <2> QED
    BY <1>3, <2>1 DEF Effect, Turns
<1> QED
  BY <1>1, <1>2, <1>3 DEF Steady

LEMMA ListsFitStill ==
    ASSUME Origins, ListsFit, Steady, NEW op, Effect(op), op.do = "add" => Fits(cb, op.fn, op.list)'
    PROVE  ListsFit'
<1> SUFFICES ASSUME NEW l \in Lists, NEW i \in 1 .. Len(cb'[l].list)
             PROVE  Fits(cb, cb[l].list[i], l)'
  BY DEF ListsFit
<1>1. PICK g : g = cb'[l].list[i]
  OBVIOUS
<1>2. Fits(cb, g, l) \/ (op.do = "add" /\ l = op.list /\ g = op.fn)
  BY <1>1 DEF Effect, Turns, ListsFit
<1>3. Fits(cb, g, l)'
  BY <1>2, StillFits
<1> QED
  BY <1>1, <1>3

LEMMA FiredDueStill ==
    ASSUME Origins, FiredDue, Steady, NEW op, Effect(op),
           op.do = "fire" => \A m \in Derived, kind \in {"done", "fail"} : op.list = <<m, kind>> => Due(cb, m, kind)'
    PROVE  FiredDue'
<1> SUFFICES ASSUME NEW m \in Derived, NEW kind \in {"done", "fail"}, cb'[<<m, kind>>].memory
             PROVE  Due(cb, m, kind)'
  BY DEF FiredDue
<1>1. <<m, kind>> \in Outcomes /\ <<m, kind>> \in Lists
  BY Names DEF Derived
<1>2. cb[<<m, kind>>].memory \/ (op.do = "fire" /\ op.list = <<m, kind>>)
  BY <1>1 DEF Effect, Turns
<1> QED
  BY <1>2, StillFits DEF FiredDue

\* What the frames have still to do, and run, they had to do and ran; the top one may
\* have taken s operations from its statement.
Source(k, i, s) == IF k = Len(stack) THEN i + s ELSE i

TodoFrom(s) ==
    \A k \in 1 .. Len(stack') : \A i \in 1 .. Len(stack'[k].todo) :
        /\ k \in 1 .. Len(stack) /\ Source(k, i, s) \in 1 .. Len(stack[k].todo)
        /\ stack'[k].todo[i] = stack[k].todo[Source(k, i, s)]

RunsFrom ==
    \A k \in 1 .. Len(stack') :
        stack'[k].running = Nothing \/ (k \in 1 .. Len(stack) /\ stack'[k].running = stack[k].running)

LEMMA StackFitsStill ==
    ASSUME Origins, StackFits, Steady, NEW s, TodoFrom(s), RunsFrom
    PROVE  StackFits'
<1> SUFFICES ASSUME NEW k \in 1 .. Len(stack')
             PROVE  RunFits(cb, stack[k].running)' /\ \A i \in 1 .. Len(stack'[k].todo) : RestFits(cb, stack[k].todo[i])'
  BY DEF StackFits
<1>1. RunFits(cb, stack[k].running)'
  <2>1. PICK g : g = stack'[k].running
    OBVIOUS
  <2>2. RunFits(cb, g)
    BY <2>1 DEF RunsFrom, StackFits, RunFits
  <2> QED
    BY <2>1, <2>2, StillFits
<1>2. ASSUME NEW i \in 1 .. Len(stack'[k].todo)
      PROVE  RestFits(cb, stack[k].todo[i])'
  <2>1. PICK op : op = stack'[k].todo[i]
    OBVIOUS
  <2>2. RestFits(cb, op)
    BY <2>1 DEF TodoFrom, StackFits
  <2> QED
    BY <2>1, <2>2, StillFits
<1> QED
  BY <1>1, <1>2
-----------------------------------------------------------------------------
(***************************************************************************)
(* The countdown of a master.                                              *)
(***************************************************************************)

CountsFrom(m, s) ==
    \A k \in 1 .. Len(stack') : \A i \in 1 .. Len(stack'[k].todo), d \in Deferreds :
        stack'[k].todo[i] = ToCount(m, d) =>
            /\ k \in 1 .. Len(stack) /\ Source(k, i, s) \in 1 .. Len(stack[k].todo)
            /\ stack[k].todo[Source(k, i, s)] = ToCount(m, d)

LEMMA TodoCounts ==
    ASSUME NEW s, TodoFrom(s), NEW m
    PROVE  CountsFrom(m, s)
BY DEF TodoFrom, CountsFrom

LEMMA RestOfAdd ==
    ASSUME NEW op \in Rest, op.do = "add"
    PROVE  op = Op("add", op.list, op.fn)
BY DEF Rest, Op

\* A subordinate that counts once more at most does so after the step, and one that has
\* counted does not: what is added to its list was in its statement before.
LEMMA CountsStill ==
    ASSUME PromiseInv, PromiseInv', NEW op, Effect(op), NEW m \in Deferreds, NEW s \in {0, 1}, CountsFrom(m, s),
           NEW d \in Deferreds, CountsOnce(cb[<<d, "done">>], stack, m, d),
           op.do = "add" /\ op.fn = Count(m) =>
                s = 1 /\ stack[Len(stack)].todo # <<>> /\ op = stack[Len(stack)].todo[1]
    PROVE  /\ CountsOnce(cb[<<d, "done">>], stack, m, d)'
           /\ HasCounted(cb[<<d, "done">>], stack, m, d) => HasCounted(cb[<<d, "done">>], stack, m, d)'
<1> DEFINE l == <<d, "done">>
           top == stack[Len(stack)].todo
<1>1. PICK c \in ListRecords : c = cb[l]
  BY Parts, Names DEF Shape
<1>2. PICK r \in ListRecords : r = cb'[l]
  BY PartsNext, Names DEF Shape
<1>3. Turns(op, l, c, r) /\ l \in Outcomes
  BY <1>1, <1>2, Names DEF Effect
<1>4. /\ Len(c.list) \in Nat /\ Len(r.list) \in Nat /\ c.index \in Nat /\ r.index \in Nat
      /\ Len(stack) \in 1 .. Len(stack) /\ top \in Seq(Rest) /\ Len(top) \in Nat
  <2>1. Stacked(stack)
    BY Parts DEF Shape
  <2>2. Len(stack) \in 1 .. Len(stack) /\ stack[Len(stack)] \in Frames
    BY <2>1, Tops
  <2> QED
    BY <2>2 DEF ListRecords, Frames
\* the new place, if there is one, was the first operation of the statement
<1>5. ASSUME op.do = "add", op.list = l, op.fn = Count(m)
      PROVE  1 \in 1 .. Len(top) /\ top[1] = ToCount(m, d) /\ s = 1
  <2>1. s = 1 /\ top # <<>> /\ op = top[1]
    BY <1>5
  <2>2. 1 \in 1 .. Len(top)
    BY <1>4, <2>1
  <2>3. op \in Rest
    BY <1>4, <2>1, <2>2
  <2> QED
    BY <1>5, <2>1, <2>2, <2>3, RestOfAdd DEF ToCount
<1>6. ASSUME NEW i \in 1 .. Len(r.list), i > r.index, r.list[i] = Count(m)
      PROVE  \/ i \in 1 .. Len(c.list) /\ i > c.index /\ c.list[i] = Count(m)
             \/ i = Len(c.list) + 1 /\ 1 \in 1 .. Len(top) /\ top[1] = ToCount(m, d) /\ s = 1
  <2>1. \/ i \in 1 .. Len(c.list) /\ r.list[i] = c.list[i]
        \/ op.do = "add" /\ l = op.list /\ i = Len(c.list) + 1 /\ r.list[i] = op.fn
    BY <1>3 DEF Turns
  <2>2. i \in 1 .. Len(c.list) => i > c.index
    BY <1>3, <1>6 DEF Turns
  <2> QED
    BY <1>5, <1>6, <2>1, <2>2
<1>7. ASSUME NEW k \in 1 .. Len(stack'), NEW i \in 1 .. Len(stack'[k].todo), stack'[k].todo[i] = ToCount(m, d)
      PROVE  /\ k \in 1 .. Len(stack) /\ Source(k, i, s) \in 1 .. Len(stack[k].todo)
             /\ stack[k].todo[Source(k, i, s)] = ToCount(m, d)
  BY <1>7 DEF CountsFrom
<1> HIDE DEF l
<1>8. CountsOnce(c, stack, m, d)
  BY <1>1 DEF l
<1> DEFINE There(k, i) == k \in 1 .. Len(stack) /\ i \in 1 .. Len(stack[k].todo) /\ stack[k].todo[i] = ToCount(m, d)
<1>20. ASSUME NEW k, NEW i, There(k, i)
       PROVE  /\ \A j \in 1 .. Len(c.list) : j > c.index => c.list[j] # Count(m)
              /\ \A n, j : There(n, j) => n = k /\ j = i
  BY <1>8, <1>20 DEF CountsOnce
<1>21. ASSUME NEW k \in 1 .. Len(stack'), NEW i \in 1 .. Len(stack'[k].todo), stack'[k].todo[i] = ToCount(m, d)
       PROVE  There(k, Source(k, i, s))
  BY <1>7, <1>21
<1> HIDE DEF There
\* it was the only place then, and the statement has passed it
<1>9. ASSUME 1 \in 1 .. Len(top), top[1] = ToCount(m, d), s = 1
      PROVE  /\ \A j \in 1 .. Len(c.list) : j > c.index => c.list[j] # Count(m)
             /\ \A k \in 1 .. Len(stack') : \A i \in 1 .. Len(stack'[k].todo) : stack'[k].todo[i] # ToCount(m, d)
  <2>1. ASSUME NEW k \in 1 .. Len(stack'), NEW i \in 1 .. Len(stack'[k].todo), stack'[k].todo[i] = ToCount(m, d)
        PROVE  FALSE
    <3>1. k = Len(stack) /\ Source(k, i, s) = 1
      <4>1. There(Len(stack), 1)
        BY <1>4, <1>9 DEF There
      <4> QED
        BY <1>20, <1>21, <2>1, <4>1
    <3>2. i + 1 = 1
      BY <1>9, <3>1 DEF Source
    <3>3. i \in Nat /\ i >= 1
      OBVIOUS
    <3> QED
      BY <3>2, <3>3
  <2> QED
    BY <1>4, <1>8, <1>9, <2>1 DEF CountsOnce
<1>10. CountsOnce(r, stack', m, d)
  <2>1. ASSUME NEW i \in 1 .. Len(r.list), NEW j \in 1 .. Len(r.list),
               i > r.index, j > r.index, r.list[i] = Count(m), r.list[j] = Count(m)
        PROVE  i = j
    <3>1. CASE 1 \in 1 .. Len(top) /\ top[1] = ToCount(m, d) /\ s = 1
      BY <1>6, <1>9, <2>1, <3>1
    <3>2. CASE ~(1 \in 1 .. Len(top) /\ top[1] = ToCount(m, d) /\ s = 1)
      <4>1. i \in 1 .. Len(c.list) /\ i > c.index /\ c.list[i] = Count(m)
        BY <1>6, <2>1, <3>2
      <4>2. j \in 1 .. Len(c.list) /\ j > c.index /\ c.list[j] = Count(m)
        BY <1>6, <2>1, <3>2
      <4> QED
        BY <1>8, <4>1, <4>2 DEF CountsOnce
    <3> QED
      BY <3>1, <3>2
  <2>2. ASSUME NEW k \in 1 .. Len(stack'), NEW i \in 1 .. Len(stack'[k].todo), stack'[k].todo[i] = ToCount(m, d)
        PROVE  /\ \A j \in 1 .. Len(r.list) : j > r.index => r.list[j] # Count(m)
               /\ \A n \in 1 .. Len(stack') : \A j \in 1 .. Len(stack'[n].todo) :
                    stack'[n].todo[j] = ToCount(m, d) => n = k /\ j = i
    <3>1. ~(1 \in 1 .. Len(top) /\ top[1] = ToCount(m, d) /\ s = 1)
      BY <1>9, <2>2
    <3>2. ASSUME NEW j \in 1 .. Len(r.list), j > r.index
          PROVE  r.list[j] # Count(m)
      <4>1. There(k, Source(k, i, s))
        BY <1>21, <2>2
      <4>2. \A n \in 1 .. Len(c.list) : n > c.index => c.list[n] # Count(m)
        BY <1>20, <4>1
      <4> QED
        BY <1>6, <3>1, <3>2, <4>2
    <3>3. ASSUME NEW n \in 1 .. Len(stack'), NEW j \in 1 .. Len(stack'[n].todo), stack'[n].todo[j] = ToCount(m, d)
          PROVE  n = k /\ j = i
      <4>1. n = k /\ Source(n, j, s) = Source(k, i, s)
        <5>1. There(k, Source(k, i, s)) /\ There(n, Source(n, j, s))
          BY <1>21, <2>2, <3>3
        <5> QED
          BY <1>20, <5>1
      <4>2. i \in Nat /\ j \in Nat
        OBVIOUS
      <4> QED
        BY <4>1, <4>2 DEF Source
    <3> QED
      BY <3>2, <3>3
  <2> QED
    BY <2>1, <2>2 DEF CountsOnce
<1>11. ASSUME HasCounted(c, stack, m, d)
       PROVE  HasCounted(r, stack', m, d)
  <2>1. ~(1 \in 1 .. Len(top) /\ top[1] = ToCount(m, d) /\ s = 1)
    BY <1>4, <1>11 DEF HasCounted
  <2>2. \A i \in 1 .. Len(r.list) : i > r.index => r.list[i] # Count(m)
    BY <1>6, <1>11, <2>1 DEF HasCounted
  <2>3. \A k \in 1 .. Len(stack') : \A i \in 1 .. Len(stack'[k].todo) : stack'[k].todo[i] # ToCount(m, d)
    BY <1>7, <1>11 DEF HasCounted
  <2> QED
    BY <2>2, <2>3 DEF HasCounted
<1> QED
  BY <1>1, <1>2, <1>10, <1>11 DEF CountsOnce, HasCounted, l

\* A count is added by the statement that was to add it, and by nothing else.
FromTodo(op, s) ==
    op.do = "add" /\ op.fn.kind = "count" => s = 1 /\ stack[Len(stack)].todo # <<>> /\ op = stack[Len(stack)].todo[1]

LEMMA CountedStill ==
    ASSUME PromiseInv, PromiseInv', Origins, Steady, NEW op, Effect(op), NEW s \in {0, 1}, FromTodo(op, s),
           NEW m \in Deferreds, CountsFrom(m, s), remaining'[m] = remaining[m], subs'[m] = subs[m],
           NEW owed \in SUBSET subs[m], Counted(cb, stack, m, owed)
    PROVE  Counted(cb, stack, m, owed)'
<1>1. subs[m] \subseteq Deferreds
  BY DEF Origins
<1>2. op.fn = Count(m) => op.fn.kind = "count"
  BY DEF Count, Callback
<1>3. op.do = "add" /\ op.fn = Count(m) => s = 1 /\ stack[Len(stack)].todo # <<>> /\ op = stack[Len(stack)].todo[1]
  BY <1>2 DEF FromTodo
<1>4. ASSUME NEW d \in subs[m]
      PROVE  /\ CountsOnce(cb[<<d, "done">>], stack, m, d)'
             /\ d \notin owed => state'[d] = "resolved" /\ HasCounted(cb[<<d, "done">>], stack, m, d)'
  <2>1. CountsOnce(cb[<<d, "done">>], stack, m, d) /\ d \in Deferreds
    BY <1>1 DEF Counted
  <2>2. d \notin owed => state[d] = "resolved" /\ HasCounted(cb[<<d, "done">>], stack, m, d)
    BY DEF Counted
  <2>3. state[d] = "resolved" => state'[d] = "resolved"
    BY <2>1 DEF Steady
  <2> QED
    BY <1>3, <2>1, <2>2, <2>3, CountsStill
<1> QED
  BY <1>4 DEF Counted

LEMMA OrdinaryStep ==
    ASSUME PromiseInv, PromiseInv', ChainInv, Steady, UNCHANGED <<made, parent, subs, remaining>>,
           NEW op, Effect(op), NEW s \in {0, 1}, FromTodo(op, s), \A m \in Deferreds : CountsFrom(m, s), StackFits',
           op.do = "add" => Fits(cb, op.fn, op.list)',
           op.do = "fire" => \A m \in Derived, kind \in {"done", "fail"} : op.list = <<m, kind>> => Due(cb, m, kind)'
    PROVE  ChainInv'
<1>1. Origins /\ ListsFit /\ FiredDue /\ Countdown
  BY ChainParts
<1>2. Origins'
  BY <1>1 DEF Origins
<1>3. ListsFit'
  BY <1>1, ListsFitStill
<1>4. FiredDue'
  BY <1>1, FiredDueStill
<1>5. ASSUME NEW m \in Deferreds
      PROVE  (\E owed \in SUBSET subs[m] : Counted(cb, stack, m, owed))'
  <2>1. PICK owed \in SUBSET subs[m] : Counted(cb, stack, m, owed)
    BY <1>1 DEF Countdown
  <2>2. Counted(cb, stack, m, owed)'
    BY <1>1, <2>1, CountedStill
  <2> QED
    BY <2>1, <2>2
<1>6. Countdown'
  BY <1>5 DEF Countdown
<1> QED
  BY <1>2, <1>3, <1>4, <1>6, ChainPartsNext
-----------------------------------------------------------------------------
(***************************************************************************)
(* The stack after a step.                                                 *)
(***************************************************************************)

TodoKept(st, s) ==
    \A k \in 1 .. Len(st) : \A i \in 1 .. Len(st[k].todo) :
        /\ k \in 1 .. Len(stack) /\ Source(k, i, s) \in 1 .. Len(stack[k].todo)
        /\ st[k].todo[i] = stack[k].todo[Source(k, i, s)]

RunsKept(st) ==
    \A k \in 1 .. Len(st) : st[k].running = Nothing \/ (k \in 1 .. Len(stack) /\ st[k].running = stack[k].running)

LEMMA SameStack ==
    ASSUME Stacked(stack)
    PROVE  TodoKept(stack, 0) /\ RunsKept(stack)
<1>1. ASSUME NEW k \in 1 .. Len(stack), NEW i \in 1 .. Len(stack[k].todo)
      PROVE  Source(k, i, 0) = i
  <2>1. i \in Int
    OBVIOUS
  <2> QED
    BY <2>1 DEF Source
<1> QED
  BY <1>1 DEF TodoKept, RunsKept

LEMMA RestStack ==
    ASSUME Stacked(stack), Top.todo # <<>>, NEW st, st = [stack EXCEPT ![Len(stack)].todo = Tail(@)]
    PROVE  Stacked(st) /\ Len(st) = Len(stack) /\ TodoKept(st, 1) /\ RunsKept(st)
<1>1. /\ Len(stack) \in Nat \ {0} /\ Top = stack[Len(stack)] /\ stack[Len(stack)] \in Frames /\ stack \in Seq(Frames)
  BY Tops DEF Top
<1>2. PICK t \in Seq(Rest) : t = stack[Len(stack)].todo /\ t # <<>>
  BY <1>1 DEF Frames
<1>3. PICK u \in Seq(Rest) : u = Tail(t) /\ Len(u) = Len(t) - 1 /\ \A i \in 1 .. Len(u) : u[i] = t[i + 1]
  <2>1. Tail(t) \in Seq(Rest) /\ Len(Tail(t)) = Len(t) - 1
    BY <1>2, HeadTailProperties
  <2>2. \A i \in 1 .. Len(Tail(t)) : Tail(t)[i] = t[i + 1]
    BY <1>2, HeadTailProperties
  <2> QED
    BY <2>1, <2>2
<1>4. st = [stack EXCEPT ![Len(stack)].todo = u]
  BY <1>2, <1>3
<1>5. Within(st, stack) /\ Len(st) = Len(stack)
  <2>1. PICK ops \in Seq(Rest) : ops = u
    OBVIOUS
  <2>2. st = [stack EXCEPT ![Len(stack)].todo = ops]
    BY <1>4, <2>1
  <2> QED
    BY <2>2, TopTodo
<1>6. /\ \A k \in 1 .. Len(stack) : k # Len(stack) => st[k] = stack[k]
      /\ st[Len(stack)].todo = u /\ st[Len(stack)].running = stack[Len(stack)].running
  BY <1>1, <1>4 DEF Frames
<1>7. ASSUME NEW k \in 1 .. Len(st), NEW i \in 1 .. Len(st[k].todo)
      PROVE  Source(k, i, 1) \in 1 .. Len(stack[k].todo) /\ st[k].todo[i] = stack[k].todo[Source(k, i, 1)]
  <2>1. CASE k = Len(stack)
    <3>1. i \in 1 .. Len(u) /\ Len(t) \in Nat
      BY <1>2, <1>6, <2>1
    <3>2. i + 1 \in 1 .. Len(t) /\ u[i] = t[i + 1]
      BY <1>3, <3>1
    <3> QED
      BY <1>2, <1>6, <2>1, <3>2 DEF Source
  <2>2. CASE k # Len(stack)
    BY <1>5, <1>6, <2>2 DEF Source
  <2> QED
    BY <2>1, <2>2
<1>8. Stacked(st)
  <2>1. \A i \in 2 .. Len(st) : i \in 1 .. Len(st) /\ i \in 2 .. Len(stack)
    BY <1>1, <1>5
  <2>2. 1 \in 1 .. Len(st) /\ st # <<>>
    BY <1>1, <1>5
  <2> QED
    BY <1>5, <2>1, <2>2 DEF Stacked, Within
<1> QED
  BY <1>5, <1>6, <1>7, <1>8 DEF TodoKept, RunsKept

LEMMA FrontStack ==
    ASSUME Stacked(stack), NEW st, st = Below
    PROVE  TodoKept(st, 0) /\ RunsKept(st)
<1>1. /\ Len(stack) \in Nat \ {0} /\ Len(st) = Len(stack) - 1
      /\ \A i \in 1 .. Len(stack) - 1 : st[i] = stack[i]
  BY Tops DEF Below
<1>2. \A k \in 1 .. Len(st) : k \in 1 .. Len(stack) /\ k # Len(stack) /\ st[k] = stack[k]
  BY <1>1
<1> QED
  BY <1>2 DEF TodoKept, RunsKept, Source

LEMMA ReturnStack ==
    ASSUME Stacked(stack), NEW l, NEW st, st = Append(Below, Frame(l))
    PROVE  TodoKept(st, 0) /\ RunsKept(st)
<1>1. /\ Len(stack) \in Nat \ {0} /\ Below \in Seq(Frames) /\ Len(Below) = Len(stack) - 1
      /\ \A i \in 1 .. Len(stack) - 1 : Below[i] = stack[i]
  BY Tops DEF Below
<1>2. /\ Len(st) = Len(stack) /\ \A i \in 1 .. Len(stack) - 1 : st[i] = stack[i]
      /\ st[Len(stack)] = Frame(l)
  <2>1. Len(st) = Len(Below) + 1 /\ st[Len(Below) + 1] = Frame(l) /\ \A i \in 1 .. Len(Below) : st[i] = Below[i]
    BY <1>1
  <2> QED
    BY <1>1, <2>1
<1>3. ASSUME NEW k \in 1 .. Len(st)
      PROVE  /\ \A i \in 1 .. Len(st[k].todo) : k # Len(stack) /\ st[k] = stack[k]
             /\ st[k].running = Nothing \/ st[k] = stack[k]
  <2>1. CASE k = Len(stack)
    <3>1. st[k].todo = <<>> /\ st[k].running = Nothing
      BY <1>2, <2>1 DEF Frame
    <3>2. \A i : i \notin 1 .. Len(st[k].todo)
      BY <3>1
    <3> QED
      BY <3>1, <3>2
  <2>2. CASE k # Len(stack)
    BY <1>1, <1>2, <2>2
  <2> QED
    BY <2>1, <2>2
<1>4. \A k \in 1 .. Len(st) : k \in 1 .. Len(stack)
  BY <1>2
<1> QED
  BY <1>3, <1>4 DEF TodoKept, RunsKept, Source

LEMMA ThrowStack ==
    ASSUME Stacked(stack), NEW n \in 1 .. Len(stack) - 1, NEW st, st = [SubSeq(stack, 1, n) EXCEPT ![n].todo = <<>>]
    PROVE  TodoKept(st, 0) /\ RunsKept(st)
<1>1. stack \in Seq(Frames) /\ Len(stack) \in Nat \ {0}
  BY Tops
<1>2. PICK a : a = SubSeq(stack, 1, n)
  OBVIOUS
<1>3. a \in Seq(Frames) /\ Len(a) = n /\ n \in Nat \ {0} /\ \A i \in 1 .. n : a[i] = stack[i]
  BY <1>1, <1>2, Beginning
<1>4. /\ Len(st) = n /\ n \in 1 .. n
      /\ \A k \in 1 .. n : k # n => st[k] = stack[k]
      /\ st[n].todo = <<>> /\ st[n].running = stack[n].running
  <2>1. n \in 1 .. Len(a)
    BY <1>3
  <2>2. a[n] \in Frames
    BY <1>3, <2>1, ElementOfSeq
  <2>3. PICK f \in Frames : f = [a[n] EXCEPT !.todo = <<>>]
    <3>1. <<>> \in Seq(Rest)
      OBVIOUS
    <3> QED
      BY <2>2, <3>1, FrameChanges
  <2>4. f.todo = <<>> /\ f.running = a[n].running
    BY <2>2, <2>3 DEF Frames
  <2>5. st = [a EXCEPT ![n] = f]
    BY <1>2, <2>3
  <2>6. /\ [a EXCEPT ![n] = f] \in Seq(Frames) /\ Len([a EXCEPT ![n] = f]) = Len(a)
        /\ \A i \in 1 .. Len(a) : [a EXCEPT ![n] = f][i] = IF i = n THEN f ELSE a[i]
    BY <1>3, <2>1, ExceptSeq
  <2> QED
    BY <1>3, <2>1, <2>4, <2>5, <2>6
<1>5. ASSUME NEW k \in 1 .. Len(st)
      PROVE  /\ k \in 1 .. Len(stack) /\ k # Len(stack) /\ st[k].running = stack[k].running
             /\ \A i \in 1 .. Len(st[k].todo) : st[k] = stack[k]
  <2>1. k \in 1 .. Len(stack) /\ k # Len(stack)
    BY <1>1, <1>4
  <2>2. CASE k = n
    <3>1. \A i : i \notin 1 .. Len(st[k].todo)
      BY <1>4, <2>2
    <3> QED
      BY <1>4, <2>1, <2>2, <3>1
  <2>3. CASE k # n
    BY <1>4, <2>1, <2>3
  <2> QED
    BY <2>2, <2>3
<1> QED
  BY <1>5 DEF TodoKept, RunsKept, Source

LEMMA PerformedStack ==
    ASSUME Stacked(stack), NEW st, Stacked(st), NEW s, TodoKept(st, s), RunsKept(st),
           NEW op \in Operations, NEW lists, Perform(op, lists, st)
    PROVE  TodoFrom(s) /\ RunsFrom
<1>1. stack' = st \/ stack' = Append(st, Frame(op.list))
  BY DEF Perform
<1>2. CASE stack' = st
  BY <1>2 DEF TodoKept, RunsKept, TodoFrom, RunsFrom
<1>3. CASE stack' = Append(st, Frame(op.list))
  <2>1. Longer(st, stack', Frame(op.list)) /\ Len(st) \in Nat
    BY <1>3, Pushed, Tops DEF Operations
  <2>2. ASSUME NEW k \in 1 .. Len(stack')
        PROVE  \/ k \in 1 .. Len(st) /\ stack'[k] = st[k]
               \/ stack'[k].running = Nothing /\ \A i : i \notin 1 .. Len(stack'[k].todo)
    <3>1. CASE k \in 1 .. Len(st)
      BY <2>1, <3>1 DEF Longer
    <3>2. CASE k = Len(st) + 1
      <4>1. stack'[k].running = Nothing /\ stack'[k].todo = <<>>
        BY <2>1, <3>2 DEF Longer, Frame
      <4>2. \A i : i \notin 1 .. Len(stack'[k].todo)
        BY <4>1
      <4> QED
        BY <4>1, <4>2
    <3> QED
      BY <2>1, <3>1, <3>2 DEF Longer
  <2>3. TodoFrom(s)
    BY <2>2 DEF TodoKept, TodoFrom
  <2>4. RunsFrom
    BY <2>2 DEF RunsKept, RunsFrom
  <2> QED
    BY <2>3, <2>4
<1> QED
  BY <1>1, <1>2, <1>3

\* What every step of the page's code, of the engine and of the document comes with.
StepTaken == PromiseInv /\ PromiseInv' /\ ChainInv /\ [ReadyNext]_readyVars

LEMMA PerformsStep ==
    ASSUME StepTaken, UNCHANGED <<made, parent, subs, remaining>>,
           NEW lists \in [Lists -> ListRecords], \A k \in Lists : lists[k] = cb[k] \/ lists[k] = Later(cb[k]),
           NEW op \in Operations, op.do = "disable" => op.list \in Outcomes,
           lists[op.list].spent => ~lists[op.list].memory,
           NEW st, Stacked(st), NEW s \in {0, 1}, TodoKept(st, s), RunsKept(st), FromTodo(op, s),
           Perform(op, lists, st),
           op.do = "add" => Fits(cb, op.fn, op.list),
           op.do = "fire" => \A m \in Derived, kind \in {"done", "fail"} : op.list = <<m, kind>> => Due(cb, m, kind)
    PROVE  ChainInv'
<1>1. PromiseInv /\ PromiseInv' /\ ChainInv /\ [ReadyNext]_readyVars
  BY DEF StepTaken
<1>2. Origins /\ StackFits /\ Stacked(stack)
  BY <1>1, ChainParts, Parts DEF Shape
<1>3. Effect(op)
  BY <1>1, PerformResult, PerformEffect
<1>4. Steady
  <2>1. made \subseteq made' /\ \A c \in made : parent'[c] = parent[c] /\ subs'[c] = subs[c]
    OBVIOUS
  <2> QED
    BY <1>1, <1>3, <2>1, Steadily
<1>5. TodoFrom(s) /\ RunsFrom
  BY <1>2, PerformedStack
<1>6. StackFits'
  BY <1>2, <1>4, <1>5, StackFitsStill
<1>7. \A m \in Deferreds : CountsFrom(m, s)
  BY <1>5, TodoCounts
<1>8. op.do = "add" => Fits(cb, op.fn, op.list)'
  BY <1>2, <1>4, StillFits
<1>9. op.do = "fire" => \A m \in Derived, kind \in {"done", "fail"} : op.list = <<m, kind>> => Due(cb, m, kind)'
  BY <1>2, <1>4, StillFits
<1> QED
  BY <1>1, <1>3, <1>4, <1>6, <1>7, <1>8, <1>9, OrdinaryStep

LEMMA NoOpDoes ==
    ASSUME NEW s
    PROVE  NoOp.do \notin {"add", "fire"} /\ FromTodo(NoOp, s)
BY DEF NoOp, Op, FromTodo

LEMMA RestsStep ==
    ASSUME StepTaken, UNCHANGED <<made, parent, subs, remaining>>, Effect(NoOp),
           NEW s \in {0, 1}, TodoKept(stack', s), RunsKept(stack')
    PROVE  ChainInv'
<1>1. PromiseInv /\ PromiseInv' /\ ChainInv /\ [ReadyNext]_readyVars
  BY DEF StepTaken
<1>2. Origins /\ StackFits
  BY <1>1, ChainParts
<1>4. Steady
  <2>1. made \subseteq made' /\ \A c \in made : parent'[c] = parent[c] /\ subs'[c] = subs[c]
    OBVIOUS
  <2> QED
    BY <1>1, <2>1, Steadily
<1>5. TodoFrom(s) /\ RunsFrom
  BY DEF TodoFrom, RunsFrom, TodoKept, RunsKept
<1>6. StackFits'
  BY <1>2, <1>4, <1>5, StackFitsStill
<1>7. \A m \in Deferreds : CountsFrom(m, s)
  BY <1>5, TodoCounts
<1> QED
  BY <1>1, <1>4, <1>6, <1>7, OrdinaryStep, NoOpDoes
-----------------------------------------------------------------------------
(***************************************************************************)
(* The steps.                                                              *)
(***************************************************************************)

LEMMA AddChains ==
    ASSUME StepTaken, NEW l \in Lists, AddOne(l)
    PROVE  ChainInv'
<1> DEFINE f == CHOOSE f \in NewFns : TRUE
           op == Op("add", l, User(f))
<1>1. /\ f \in Fns /\ PageRuns /\ Perform(op, cb, stack)
      /\ UNCHANGED <<made, parent, subs, remaining>>
  <2>1. f \in NewFns
    BY DEF AddOne
  <2>2. CallList(op)
    BY DEF AddOne
  <2> QED
    BY <2>1, <2>2 DEF NewFns, CallList, Calling, closure
<1>2. op \in Operations /\ op.do = "add" /\ op.list = l /\ op.fn.kind = "user"
  BY <1>1, GivenByItself DEF Op, Operations, User, Callback
<1>3. Sound(cb, stack) /\ Stacked(stack) /\ cb \in [Lists -> ListRecords]
  BY <1>1, Quiet DEF StepTaken, Sound, Shape
<1>4. cb[l].spent => ~cb[l].memory
  BY <1>3, SpentForgets
<1>5. Fits(cb, op.fn, op.list) /\ FromTodo(op, 0)
  BY <1>2 DEF Fits, FromTodo
<1> HIDE DEF op
<1> QED
  BY <1>1, <1>2, <1>3, <1>4, <1>5, SameStack, PerformsStep

LEMMA FireFits ==
    ASSUME NEW l \in Lists
    PROVE  /\ Op("fire", l, Nothing) \in Operations /\ Op("fire", l, Nothing).do = "fire"
           /\ Op("fire", l, Nothing).list = l
           /\ \A s : FromTodo(Op("fire", l, Nothing), s)
BY DEF Op, Operations, FromTodo

\* A list that is fired from where no list is about to settle its deferred.
LEMMA FiresStep ==
    ASSUME StepTaken, UNCHANGED <<made, parent, subs, remaining>>, Sound(cb, stack), NEW l \in Lists,
           NEW st, Stacked(st), NEW s \in {0, 1}, TodoKept(st, s), RunsKept(st),
           Perform(Op("fire", l, Nothing), cb, st),
           \A m \in Derived, kind \in {"done", "fail"} : l = <<m, kind>> => Due(cb, m, kind)
    PROVE  ChainInv'
<1>1. PICK op \in Operations : op = Op("fire", l, Nothing)
  BY FireFits
<1>2. op.do = "fire" /\ op.list = l /\ FromTodo(op, s)
  BY <1>1, FireFits
<1>3. cb \in [Lists -> ListRecords] /\ (cb[l].spent => ~cb[l].memory)
  BY SpentForgets DEF Sound, Shape
<1> QED
  BY <1>1, <1>2, <1>3, PerformsStep

LEMMA SettleChains ==
    ASSUME StepTaken, NEW d \in Deferreds, NEW kind \in {"done", "fail", "progress"}, Settle(d, kind)
    PROVE  ChainInv'
<1>1. /\ PageRuns /\ Perform(Op("fire", <<d, kind>>, Nothing), cb, stack) /\ d \in Roots
      /\ UNCHANGED <<made, parent, subs, remaining>>
  BY DEF Settle, CallList, Calling, closure
<1>2. Sound(cb, stack) /\ Stacked(stack)
  BY <1>1, Quiet DEF StepTaken, Sound, Shape
<1>3. \A m \in Derived, k \in {"done", "fail"} : <<d, kind>> # <<m, k>>
  BY <1>1 DEF Derived
<1>4. <<d, kind>> \in Lists
  BY DEF Lists
<1> QED
  BY <1>1, <1>2, <1>3, <1>4, SameStack, FiresStep

LEMMA TodoChains ==
    ASSUME StepTaken, TodoStep
    PROVE  ChainInv'
<1>1. Top.todo # <<>> /\ UNCHANGED <<made, parent, subs, remaining>>
  BY DEF TodoStep, closure, history
<1>2. Sound(cb, stack) /\ Stacked(stack) /\ cb \in [Lists -> ListRecords]
  BY <1>1, Quiet DEF StepTaken, Sound, Shape
<1>3. Origins /\ StackFits /\ Countdown
  BY ChainParts DEF StepTaken
<1>4. /\ Len(stack) \in 1 .. Len(stack) /\ Top = stack[Len(stack)] /\ Top.todo \in Seq(Rest)
  <2>1. Len(stack) \in 1 .. Len(stack) /\ Top = stack[Len(stack)] /\ Top \in Frames
    BY <1>2, Tops DEF Top
  <2> QED
    BY <2>1 DEF Frames
<1>5. PICK op : op = Head(Top.todo)
  OBVIOUS
<1>6. op \in Rest /\ op = stack[Len(stack)].todo[1] /\ stack[Len(stack)].todo # <<>> /\ RestFits(cb, op)
  <2>1. op \in Rest /\ op = Top.todo[1] /\ 1 \in 1 .. Len(Top.todo)
    BY <1>1, <1>4, <1>5, HeadTailProperties
  <2> QED
    BY <1>1, <1>3, <1>4, <2>1 DEF StackFits
<1>7. PICK st : st = [stack EXCEPT ![Len(stack)].todo = Tail(@)]
  OBVIOUS
<1>8. Stacked(st) /\ Len(st) = Len(stack) /\ TodoKept(st, 1) /\ RunsKept(st)
  BY <1>1, <1>2, <1>7, RestStack
<1>9. \/ op.do # "end" /\ Perform(op, cb, st)
      \/ op.do = "end" /\ remaining[op.list[1]] = 0 /\ Perform(Op("fire", op.list, Nothing), cb, st)
      \/ stack' = st /\ UNCHANGED cb
  BY <1>5, <1>7 DEF TodoStep
<1>10. CASE op.do # "end" /\ Perform(op, cb, st)
  <2>1. op \in Operations /\ op.do = "add"
    BY <1>6, <1>10 DEF Rest, Operations
  <2>2. Fits(cb, op.fn, op.list) /\ FromTodo(op, 1)
    BY <1>6, <2>1 DEF RestFits, FromTodo
  <2>3. cb[op.list].spent => ~cb[op.list].memory
    BY <1>2, <2>1, SpentForgets DEF Operations
  <2> QED
    BY <1>1, <1>2, <1>8, <1>10, <2>1, <2>2, <2>3, PerformsStep
<1>11. CASE op.do = "end" /\ remaining[op.list[1]] = 0 /\ Perform(Op("fire", op.list, Nothing), cb, st)
  <2>1. PICK m \in Derived : op.list = <<m, "done">> /\ m \in made /\ parent[m] = Nothing
    <3>1. op.list \in DerivedLists /\ op.list[2] = "done" /\ op.list[1] \in made /\ parent[op.list[1]] = Nothing
      BY <1>6, <1>11 DEF Rest, RestFits
    <3> QED
      BY <3>1, DerivedOnes
  <2>2. PICK owed \in SUBSET subs[m] : Counted(cb, stack, m, owed)
    BY <1>3, <2>1, DerivedOnes DEF Countdown
  <2>3. owed = {}
    <3>1. IsFiniteSet(owed) /\ Cardinality(owed) = 0
      <4>1. IsFiniteSet(subs[m])
        BY <1>3, <2>1, DerivedOnes DEF Origins
      <4> QED
        BY <1>11, <2>1, <2>2, <4>1, FS_Subset DEF Counted
    <3> QED
      BY <3>1, FS_EmptySet
  <2>4. Due(cb, m, "done")
    BY <2>1, <2>2, <2>3 DEF Due, Counted
  <2>5. op.list \in Lists /\ \A n \in Derived, kind \in {"done", "fail"} : op.list = <<n, kind>> => Due(cb, n, kind)
    BY <2>1, <2>4, DerivedOnes DEF Lists
  <2> QED
    BY <1>1, <1>2, <1>8, <1>11, <2>5, FiresStep
<1>12. CASE stack' = st /\ UNCHANGED cb
  <2>1. Effect(NoOp)
    BY <1>12, StillEffect DEF StepTaken
  <2> QED
    BY <1>1, <1>8, <1>12, <2>1, RestsStep
<1> QED
  BY <1>9, <1>10, <1>11, <1>12

LEMMA SettleCallChains ==
    ASSUME StepTaken, NEW l \in Lists, CallSettle(l)
    PROVE  ChainInv'
<1>1. cb' = Advanced(l) /\ stack' = stack /\ UNCHANGED <<made, parent, subs, remaining>>
  BY DEF CallSettle, history
<1>2. Effect(NoOp)
  BY <1>1, StillEffect DEF StepTaken
<1>3. TodoKept(stack', 0) /\ RunsKept(stack')
  BY <1>1, SameStack, Parts DEF StepTaken, Shape
<1> QED
  BY <1>1, <1>2, <1>3, RestsStep

LEMMA EndChains ==
    ASSUME StepTaken, NEW l \in Lists, NextRound(l) \/ Finish(l), UNCHANGED <<closure, history>>
    PROVE  ChainInv'
<1>1. Effect(NoOp)
  BY EndEffect DEF StepTaken
<1>2. TodoKept(stack', 0) /\ RunsKept(stack')
  <2>1. stack' = stack \/ stack' = Below
    BY DEF NextRound, Finish
  <2> QED
    BY <2>1, SameStack, FrontStack, Parts DEF StepTaken, Shape
<1> QED
  BY <1>1, <1>2, RestsStep DEF closure, history

LEMMA ReturnChains ==
    ASSUME StepTaken, NEW l \in Lists, ReturnUser(l)
    PROVE  ChainInv'
<1>1. stack' = Append(Below, Frame(l)) /\ UNCHANGED cb /\ UNCHANGED <<made, parent, subs, remaining>>
  BY DEF ReturnUser, Return, closure, history
<1>2. Effect(NoOp)
  BY <1>1, StillEffect DEF StepTaken
<1>3. TodoKept(stack', 0) /\ RunsKept(stack')
  BY <1>1, ReturnStack, Parts DEF StepTaken, Shape
<1> QED
  BY <1>1, <1>2, <1>3, RestsStep

LEMMA ThrowChains ==
    ASSUME StepTaken, NEW catcher \in 1 .. Len(stack), ThrowTo(catcher)
    PROVE  ChainInv'
<1>1. /\ catcher \in 1 .. Len(stack) - 1 /\ stack' = [SubSeq(stack, 1, catcher) EXCEPT ![catcher].todo = <<>>]
      /\ UNCHANGED cb /\ UNCHANGED <<made, parent, subs, remaining>>
  BY DEF ThrowTo, Throw, closure
<1>2. Effect(NoOp)
  BY <1>1, StillEffect DEF StepTaken
<1>3. TodoKept(stack', 0) /\ RunsKept(stack')
  BY <1>1, ThrowStack, Parts DEF StepTaken, Shape
<1> QED
  BY <1>1, <1>2, <1>3, RestsStep

LEMMA StillChains ==
    ASSUME StepTaken, UNCHANGED <<cb, stack, made, parent, subs, remaining>>
    PROVE  ChainInv'
<1>1. Effect(NoOp)
  BY StillEffect DEF StepTaken
<1>2. TodoKept(stack', 0) /\ RunsKept(stack')
  BY SameStack, Parts DEF StepTaken, Shape
<1> QED
  BY <1>1, <1>2, RestsStep

LEMMA ReadyChains ==
    ASSUME StepTaken, Release \/ Completed
    PROVE  ChainInv'
<1>1. /\ UNCHANGED <<made, parent, subs, remaining>>
      /\ Perform(Op("fire", <<ReadyList, "done">>, Nothing), cb, stack) \/ UNCHANGED <<cb, stack>>
  BY DEF Release, Completed, ResolveReady, closure, history
<1>2. CASE Perform(Op("fire", <<ReadyList, "done">>, Nothing), cb, stack)
  <2>1. Sound(cb, stack) /\ Stacked(stack)
    <3>1. PageRuns \/ Len(stack) = 1
      BY DEF Release, Completed, Calling, Idle
    <3> QED
      BY <3>1, Quiet DEF StepTaken, Sound, Shape
  <2>2. <<ReadyList, "done">> \in Lists /\ ReadyList \in Roots
    BY ReadyNames, DeferredAssumption DEF Lists
  <2>3. \A m \in Derived, k \in {"done", "fail"} : <<ReadyList, "done">> # <<m, k>>
    BY <2>2 DEF Derived
  <2> QED
    BY <1>1, <1>2, <2>1, <2>2, <2>3, SameStack, FiresStep
<1>3. CASE UNCHANGED <<cb, stack>>
  BY <1>1, <1>3, StillChains
<1> QED
  BY <1>1, <1>2, <1>3

\* A function given to then() runs: its deferred is due.
LEMMA RunningThen ==
    ASSUME StepTaken, PageRuns, Top.running.kind = "then"
    PROVE  /\ Top.running.arg \in DerivedLists /\ Top.running.arg[1] \in Derived
           /\ Top.running.arg[1] \in made /\ parent[Top.running.arg[1]] # Nothing
           /\ \A kind : Due(cb, Top.running.arg[1], kind)
<1>1. Stacked(stack) /\ StackFits
  BY Parts, ChainParts DEF StepTaken, Shape
<1>2. Len(stack) \in 1 .. Len(stack) /\ Top = stack[Len(stack)] /\ Top \in Frames
  BY <1>1, Tops DEF Top
<1>3. Top.running \in Given
  <2>1. Top.running \in {Nothing, Callback("task", Nothing)} \cup Given
    BY <1>2 DEF Frames
  <2>2. Top.running # Nothing /\ Callback("task", Nothing).kind = "task"
    BY DEF PageRuns, Callback
  <2> QED
    BY <2>1, <2>2
<1>4. RunFits(cb, Top.running)
  BY <1>1, <1>2 DEF StackFits
<1>5. Top.running.arg \in DerivedLists /\ Top.running.arg[1] \in Derived
  BY <1>3, DerivedOnes DEF Given
<1>6. /\ Top.running.arg[1] \in made /\ parent[Top.running.arg[1]] # Nothing
      /\ Answered(cb, parent[Top.running.arg[1]])
  BY <1>4 DEF RunFits, PageRuns
<1> QED
  BY <1>5, <1>6 DEF Due

LEMMA ValueChains ==
    ASSUME StepTaken, NEW l \in Lists, ThenValue(l)
    PROVE  ChainInv'
<1>1. /\ PageRuns /\ Top.list = l /\ Top.running.kind = "then"
      /\ Perform(Op("fire", Top.running.arg, Nothing), cb, Append(Below, Frame(l)))
      /\ UNCHANGED <<made, parent, subs, remaining>>
  BY DEF ThenValue, closure, history
<1>2. Sound(cb, stack) /\ Stacked(stack)
  BY <1>1, Quiet DEF StepTaken, Sound, Shape
<1>3. PICK st : st = Append(Below, Frame(l))
  OBVIOUS
<1>4. TodoKept(st, 0) /\ RunsKept(st)
  BY <1>2, <1>3, ReturnStack
<1>5. Stacked(st)
  <2>1. <<>> \in Seq(Rest)
    OBVIOUS
  <2>2. PICK f \in Frames : f = Frame(l) /\ f.list = l
    BY <2>1, FrameOf
  <2>3. Within(st, stack) /\ Len(st) = Len(stack)
    BY <1>1, <1>2, <1>3, <2>2, TopReturns DEF Top, Below
  <2>4. Sound(cb, st)
    BY <1>2, <2>3, SoundWithin
  <2> QED
    BY <2>4 DEF Sound, Shape
<1>6. PICK k : k = Top.running.arg
  OBVIOUS
<1>7. k \in DerivedLists /\ k \in Lists /\ \A m \in Derived, kind \in {"done", "fail"} : k = <<m, kind>> => Due(cb, m, kind)
  BY <1>1, <1>6, RunningThen, DerivedOnes
<1>8. Perform(Op("fire", k, Nothing), cb, st)
  BY <1>1, <1>3, <1>6
<1> QED
  BY <1>1, <1>2, <1>4, <1>5, <1>7, <1>8, FiresStep

\* The top frame comes to a statement, which has ops to do.
TopStatement(ops) ==
    /\ Len(stack') = Len(stack)
    /\ \A k \in 1 .. Len(stack) : k # Len(stack) => stack'[k] = stack[k]
    /\ stack'[Len(stack)].todo = ops
    /\ stack'[Len(stack)].running = Nothing \/ stack'[Len(stack)].running = stack[Len(stack)].running

LEMMA Undertakes ==
    ASSUME Stacked(stack), NEW ops, Undertake(ops)
    PROVE  TopStatement(ops)
<1>1. stack \in Seq(Frames) /\ Len(stack) \in 1 .. Len(stack) /\ stack[Len(stack)] \in Frames
  BY Tops
<1>2. PICK f : f = [stack[Len(stack)] EXCEPT !.todo = ops]
  OBVIOUS
<1>3. f.todo = ops /\ f.running = stack[Len(stack)].running
  BY <1>1, <1>2 DEF Frames
<1>4. stack' = [stack EXCEPT ![Len(stack)] = f]
  BY <1>2 DEF Undertake
<1> QED
  BY <1>1, <1>3, <1>4 DEF TopStatement

LEMMA StatementFits ==
    ASSUME Origins, StackFits, Steady, Stacked(stack), NEW ops, TopStatement(ops),
           \A i \in 1 .. Len(ops) : RestFits(cb, ops[i])'
    PROVE  StackFits'
<1>1. Len(stack') = Len(stack) /\ Len(stack) \in 1 .. Len(stack)
  BY Tops DEF TopStatement
<1> SUFFICES ASSUME NEW k \in 1 .. Len(stack')
             PROVE  RunFits(cb, stack[k].running)' /\ \A i \in 1 .. Len(stack'[k].todo) : RestFits(cb, stack[k].todo[i])'
  BY DEF StackFits
<1>2. RunFits(cb, stack[k].running)'
  <2>1. PICK g : g = stack'[k].running
    OBVIOUS
  <2>2. g = Nothing \/ g = stack[k].running
    BY <1>1, <2>1 DEF TopStatement
  <2>3. RunFits(cb, g)
    BY <1>1, <2>2 DEF StackFits, RunFits
  <2> QED
    BY <2>1, <2>3, StillFits
<1>3. CASE k = Len(stack)
  BY <1>2, <1>3 DEF TopStatement
<1>4. CASE k # Len(stack)
  <2>1. ASSUME NEW i \in 1 .. Len(stack'[k].todo)
        PROVE  RestFits(cb, stack[k].todo[i])'
    <3>1. PICK op : op = stack'[k].todo[i]
      OBVIOUS
    <3>2. RestFits(cb, op)
      BY <1>1, <1>4, <3>1 DEF StackFits, TopStatement
    <3> QED
      BY <3>1, <3>2, StillFits
  <2> QED
    BY <1>2, <2>1
<1> QED
  BY <1>3, <1>4

LEMMA StatementCounts ==
    ASSUME Stacked(stack), NEW ops, TopStatement(ops), NEW m,
           \A i \in 1 .. Len(ops), d \in Deferreds : ops[i] # ToCount(m, d)
    PROVE  CountsFrom(m, 0)
<1> SUFFICES ASSUME NEW k \in 1 .. Len(stack'), NEW i \in 1 .. Len(stack'[k].todo), NEW d \in Deferreds,
                    stack'[k].todo[i] = ToCount(m, d)
             PROVE  /\ k \in 1 .. Len(stack) /\ Source(k, i, 0) \in 1 .. Len(stack[k].todo)
                    /\ stack[k].todo[Source(k, i, 0)] = ToCount(m, d)
  BY DEF CountsFrom
<1>1. k \in 1 .. Len(stack) /\ k # Len(stack)
  BY DEF TopStatement
<1>2. stack'[k] = stack[k]
  BY <1>1 DEF TopStatement
<1>3. Source(k, i, 0) = i
  BY <1>1 DEF Source
<1> QED
  BY <1>1, <1>2, <1>3

\* A new statement, and perhaps a new deferred; nothing counts down.
LEMMA StatementStep ==
    ASSUME StepTaken, UNCHANGED cb, Steady, UNCHANGED <<remaining, subs>>, Origins',
           NEW ops, TopStatement(ops), \A i \in 1 .. Len(ops) : RestFits(cb, ops[i])',
           \A i \in 1 .. Len(ops) : ops[i].do = "add" => ops[i].fn.kind # "count"
    PROVE  ChainInv'
<1>1. PromiseInv /\ PromiseInv' /\ Origins /\ ListsFit /\ StackFits /\ FiredDue /\ Countdown /\ Stacked(stack)
  BY ChainParts, Parts DEF StepTaken, Shape
<1>2. Effect(NoOp)
  BY <1>1, StillEffect
<1>3. ListsFit'
  BY <1>1, <1>2, ListsFitStill, NoOpDoes
<1>4. FiredDue'
  BY <1>1, <1>2, FiredDueStill, NoOpDoes
<1>5. StackFits'
  BY <1>1, StatementFits
<1>6. ASSUME NEW m \in Deferreds
      PROVE  (\E owed \in SUBSET subs[m] : Counted(cb, stack, m, owed))'
  <2>1. PICK owed \in SUBSET subs[m] : Counted(cb, stack, m, owed)
    BY <1>1 DEF Countdown
  <2>2. \A i \in 1 .. Len(ops), d \in Deferreds : ops[i] # ToCount(m, d)
    BY DEF ToCount, Op, Count, Callback
  <2>3. CountsFrom(m, 0)
    BY <1>1, <2>2, StatementCounts
  <2>4. Counted(cb, stack, m, owed)'
    BY <1>1, <1>2, <2>1, <2>3, CountedStill, NoOpDoes
  <2> QED
    BY <2>1, <2>4
<1>7. Countdown'
  BY <1>6 DEF Countdown
<1> QED
  BY <1>3, <1>4, <1>5, <1>7, ChainPartsNext

LEMMA AnswerChains ==
    ASSUME StepTaken, NEW l \in Lists, NEW r \in Deferreds, ThenPromise(l, r)
    PROVE  ChainInv'
<1>1. PICK c : c = Top.running.arg[1]
  OBVIOUS
<1>2. PICK ops : ops = <<Op("add", <<r, "progress">>, Notify(c)), Op("add", <<r, "done">>, Resolve(c)),
                         Op("add", <<r, "fail">>, Reject(c))>>
  OBVIOUS
<1>3. /\ PageRuns /\ Top.list = l /\ Top.running.kind = "then"
      /\ stack' = Append(Below, [Frame(l) EXCEPT !.todo = ops])
      /\ UNCHANGED cb /\ UNCHANGED <<made, parent, subs, remaining>>
  BY <1>1, <1>2 DEF ThenPromise, closure, history
<1>4. c \in Derived /\ c \in made /\ parent[c] # Nothing /\ \A kind : Due(cb, c, kind)
  BY <1>1, <1>3, RunningThen
<1>5. Stacked(stack) /\ Origins
  BY Parts, ChainParts DEF StepTaken, Shape
<1>6. TopStatement(ops)
  <2>1. /\ Len(stack) \in Nat \ {0} /\ Below \in Seq(Frames) /\ Len(Below) = Len(stack) - 1
        /\ \A i \in 1 .. Len(stack) - 1 : Below[i] = stack[i]
    BY <1>5, Tops DEF Below
  <2>2. PICK f : f = [Frame(l) EXCEPT !.todo = ops]
    OBVIOUS
  <2>3. f.todo = ops /\ f.running = Nothing
    BY <2>2 DEF Frame
  <2>4. Len(stack') = Len(Below) + 1 /\ stack'[Len(Below) + 1] = f /\ \A i \in 1 .. Len(Below) : stack'[i] = Below[i]
    BY <1>3, <2>1, <2>2
  <2>5. \A k \in 1 .. Len(stack) : k # Len(stack) => k \in 1 .. Len(stack) - 1
    BY <2>1
  <2> QED
    BY <2>1, <2>3, <2>4, <2>5 DEF TopStatement
<1>7. Steady
  <2>1. Effect(NoOp)
    BY <1>3, StillEffect DEF StepTaken
  <2>2. made \subseteq made' /\ \A x \in made : parent'[x] = parent[x] /\ subs'[x] = subs[x]
    BY <1>3
  <2> QED
    BY <2>1, <2>2, Steadily DEF StepTaken
<1>8. Due(cb, c, "done")' /\ Due(cb, c, "fail")' /\ parent'[c] # Nothing
  BY <1>3, <1>4, <1>5, <1>7, StillFits
<1>9. ASSUME NEW i \in 1 .. Len(ops)
      PROVE  RestFits(cb, ops[i])' /\ ops[i].fn.kind # "count"
  <2>1. i = 1 \/ i = 2 \/ i = 3
    BY <1>2
  <2>2. Fits(cb, Notify(c), <<r, "progress">>)' /\ Fits(cb, Resolve(c), <<r, "done">>)' /\ Fits(cb, Reject(c), <<r, "fail">>)'
    BY <1>8 DEF Fits, Due, Notify, Resolve, Reject, Internal, Callback, Op
  <2>3. \A q, f : Fits(cb, f, q)' => RestFits(cb, Op("add", q, f))'
    BY DEF RestFits, Op
  <2>4. Notify(c).kind = "do" /\ Resolve(c).kind = "do" /\ Reject(c).kind = "do"
    BY DEF Notify, Resolve, Reject, Internal, Callback
  <2>5. \A q, f : Op("add", q, f).fn = f
    BY DEF Op
  <2> QED
    BY <1>2, <2>1, <2>2, <2>3, <2>4, <2>5
<1>10. Origins'
  BY <1>3, <1>5 DEF Origins
<1> QED
  BY <1>3, <1>6, <1>7, <1>9, <1>10, StatementStep

LEMMA CallThenChains ==
    ASSUME StepTaken, NEW d \in Deferreds, NEW c \in Deferreds, CallThen(d, c)
    PROVE  ChainInv'
<1>1. PICK ops : ops = Then_(d, c)
  OBVIOUS
<1>2. /\ c \notin made /\ made' = made \cup {c} /\ parent' = [parent EXCEPT ![c] = d] /\ Undertake(ops)
      /\ UNCHANGED cb /\ UNCHANGED <<remaining, subs>>
  BY <1>1 DEF CallThen
<1>3. Stacked(stack) /\ Origins /\ Roots \subseteq made /\ made \subseteq Deferreds
  BY Parts, ChainParts DEF StepTaken, Shape, HistoryTypes
<1>4. TopStatement(ops)
  BY <1>2, <1>3, Undertakes
<1>5. /\ parent' \in [Deferreds -> Deferreds \cup {Nothing}] /\ parent'[c] = d /\ d # Nothing
      /\ \A x \in Deferreds : x # c => parent'[x] = parent[x]
  BY <1>2, <1>3, DeferredAssumption DEF Origins
<1>6. Steady
  <2>1. Effect(NoOp)
    BY <1>2, StillEffect DEF StepTaken
  <2>2. made \subseteq made' /\ \A x \in made : parent'[x] = parent[x] /\ subs'[x] = subs[x]
    BY <1>2, <1>3, <1>5
  <2> QED
    BY <2>1, <2>2, Steadily DEF StepTaken
<1>7. Origins'
  <2>1. ASSUME NEW x \in Deferreds
        PROVE  /\ IsFiniteSet(subs'[x]) /\ (parent'[x] = Nothing \/ subs'[x] = {})
               /\ x \notin made' \/ x \in Roots => parent'[x] = Nothing /\ subs'[x] = {}
    <3>1. CASE x = c
      BY <1>2, <1>3, <3>1 DEF Origins
    <3>2. CASE x # c
      BY <1>2, <1>3, <1>5, <3>2 DEF Origins
    <3> QED
      BY <3>1, <3>2
  <2> QED
    BY <1>2, <1>3, <1>5, <2>1 DEF Origins
<1>8. ASSUME NEW i \in 1 .. Len(ops)
      PROVE  RestFits(cb, ops[i])' /\ ops[i].fn.kind # "count"
  <2>1. PICK kind \in {"done", "fail", "progress"} : ops[i] = Op("add", <<d, kind>>, Then(c, kind))
    <3>1. i = 1 \/ i = 2 \/ i = 3
      BY <1>1 DEF Then_
    <3> QED
      BY <1>1, <3>1 DEF Then_
  <2>2. Fits(cb, Then(c, kind), <<d, kind>>)'
    BY <1>2, <1>5 DEF Fits, Then, Callback
  <2>3. Then(c, kind).kind = "then"
    BY DEF Then, Callback
  <2> QED
    BY <2>1, <2>2, <2>3 DEF RestFits, Op
<1> QED
  BY <1>2, <1>4, <1>6, <1>7, <1>8, StatementStep

LEMMA AdvancedEffect ==
    ASSUME StepTaken, NEW l \in Lists, cb' = Advanced(l), UNCHANGED <<made, parent, subs>>
    PROVE  Effect(NoOp) /\ Steady
<1>1. Effect(NoOp)
  BY StillEffect DEF StepTaken
<1>2. made \subseteq made' /\ \A x \in made : parent'[x] = parent[x] /\ subs'[x] = subs[x]
  OBVIOUS
<1> QED
  BY <1>1, <1>2, Steadily DEF StepTaken

\* A list that runs has been fired: its deferred is settled, or has notified.
LEMMA FiringAnswers ==
    ASSUME PromiseInv, Sound(cb, stack), NEW l \in Lists, cb[l].firing
    PROVE  Answered(cb, l[1]) /\ (l \in Outcomes => state[l[1]] = StateOf(l[2]))
<1>1. CASE l \in Outcomes
  <2>1. state[l[1]] = StateOf(l[2]) /\ StateOf(l[2]) # "pending"
    BY <1>1, RunningIsFired DEF StateOf
  <2> QED
    BY <2>1 DEF Answered
<1>2. CASE l = <<l[1], "progress">> /\ l[1] \in Deferreds
  <2>1. Notifies(cb[<<l[1], "progress">>])
    BY <1>2 DEF Sound, Shape
  <2>2. l \notin Outcomes
    BY <1>2, Names
  <2> QED
    BY <1>2, <2>1, <2>2 DEF Notifies, Answered
<1> QED
  BY <1>1, <1>2, Names

LEMMA CurrentFits ==
    ASSUME ListsFit, NEW l \in Lists, cb[l] \in ListRecords, HasNext(l)
    PROVE  Fits(cb, Current(l), l)
<1>1. cb[l].index + 1 \in 1 .. Len(cb[l].list)
  BY DEF ListRecords, HasNext
<1> QED
  BY <1>1 DEF ListsFit, Current

LEMMA UserChains ==
    ASSUME StepTaken, NEW l \in Lists, CallUser(l)
    PROVE  ChainInv'
<1>1. PICK g : g = Current(l)
  OBVIOUS
<1>2. /\ Looping(l) /\ HasNext(l) /\ g.kind \in {"user", "then"}
      /\ cb' = Advanced(l) /\ stack' = [stack EXCEPT ![Len(stack)].running = g]
      /\ UNCHANGED <<made, parent, subs, remaining>>
  BY <1>1 DEF CallUser, closure
<1>3. PromiseInv /\ PromiseInv' /\ ChainInv /\ Origins /\ ListsFit /\ StackFits /\ Stacked(stack) /\ cb[l] \in ListRecords
  BY ChainParts, Parts DEF StepTaken, Shape
<1>4. Sound(cb, stack) /\ cb[l].firing
  BY <1>1, <1>2, <1>3, CallsGiven
<1>5. RunFits(cb, g)
  <2>1. Fits(cb, g, l)
    BY <1>1, <1>2, <1>3, CurrentFits
  <2>2. Answered(cb, l[1]) /\ l[1] # Nothing
    BY <1>3, <1>4, FiringAnswers, Names, DeferredAssumption
  <2> QED
    BY <2>1, <2>2 DEF RunFits, Fits
<1>6. Effect(NoOp) /\ Steady
  BY <1>2, AdvancedEffect
<1>7. /\ Len(stack') = Len(stack) /\ Len(stack) \in 1 .. Len(stack)
      /\ \A k \in 1 .. Len(stack) : k # Len(stack) => stack'[k] = stack[k]
      /\ stack'[Len(stack)].running = g /\ stack'[Len(stack)].todo = stack[Len(stack)].todo
  <2>1. stack \in Seq(Frames) /\ Len(stack) \in 1 .. Len(stack) /\ stack[Len(stack)] \in Frames
    BY <1>3, Tops
  <2>2. PICK f : f = [stack[Len(stack)] EXCEPT !.running = g]
    OBVIOUS
  <2>3. f.running = g /\ f.todo = stack[Len(stack)].todo
    BY <2>1, <2>2 DEF Frames
  <2>4. stack' = [stack EXCEPT ![Len(stack)] = f]
    BY <1>2, <2>2
  <2> QED
    BY <2>1, <2>3, <2>4
<1>8. \A k \in 1 .. Len(stack') : k \in 1 .. Len(stack) /\ stack'[k].todo = stack[k].todo
  BY <1>7
<1>9. TodoFrom(0)
  <2>1. ASSUME NEW k \in 1 .. Len(stack), NEW i \in 1 .. Len(stack[k].todo)
        PROVE  Source(k, i, 0) = i
    <3>1. i \in Int
      OBVIOUS
    <3> QED
      BY <3>1 DEF Source
  <2> QED
    BY <1>8, <2>1 DEF TodoFrom
<1>10. \A m \in Deferreds : CountsFrom(m, 0)
  BY <1>9, TodoCounts
<1>11. StackFits'
  <2> SUFFICES ASSUME NEW k \in 1 .. Len(stack')
               PROVE  RunFits(cb, stack[k].running)' /\ \A i \in 1 .. Len(stack'[k].todo) : RestFits(cb, stack[k].todo[i])'
    BY DEF StackFits
  <2>1. RunFits(cb, stack[k].running)'
    <3>1. PICK f : f = stack'[k].running
      OBVIOUS
    <3>2. RunFits(cb, f)
      <4>1. CASE k = Len(stack)
        BY <1>5, <1>7, <3>1, <4>1
      <4>2. CASE k # Len(stack)
        <5>1. k \in 1 .. Len(stack) /\ f = stack[k].running
          BY <1>7, <3>1, <4>2
        <5> QED
          BY <1>3, <5>1 DEF StackFits
      <4> QED
        BY <4>1, <4>2
    <3> QED
      BY <1>3, <1>6, <3>1, <3>2, StillFits
  <2>2. ASSUME NEW i \in 1 .. Len(stack'[k].todo)
        PROVE  RestFits(cb, stack[k].todo[i])'
    <3>1. PICK op : op = stack'[k].todo[i]
      OBVIOUS
    <3>2. RestFits(cb, op)
      BY <1>3, <1>8, <3>1 DEF StackFits
    <3> QED
      BY <1>3, <1>6, <3>1, <3>2, StillFits
  <2> QED
    BY <2>1, <2>2
<1> QED
  BY <1>2, <1>3, <1>6, <1>10, <1>11, OrdinaryStep, NoOpDoes

LEMMA InternalChains ==
    ASSUME StepTaken, NEW l \in Lists, CallInternal(l)
    PROVE  ChainInv'
<1>1. /\ Looping(l) /\ HasNext(l) /\ Current(l).kind = "do" /\ UNCHANGED <<made, parent, subs, remaining>>
      /\ Perform(Current(l).arg, Advanced(l), stack)
  BY DEF CallInternal, closure, history
<1>2. PromiseInv /\ Shape(cb, stack, thrown) /\ cb[l].firing /\ Stacked(stack) /\ ListsFit
  BY <1>1, Turn, Parts, ChainParts DEF StepTaken, Shape
<1>3. PICK op : op = Current(l).arg
  OBVIOUS
<1>4. PICK lists : lists = Advanced(l) /\ Perform(op, lists, stack)
  BY <1>1, <1>3
<1>5. lists \in [Lists -> ListRecords] /\ \A k \in Lists : lists[k] = cb[k] \/ lists[k] = Later(cb[k])
  BY <1>2, <1>4, AdvancedShape DEF Shape
<1>6. CASE Sound(cb, stack)
  <2>1. Sound(lists, stack)
    BY <1>2, <1>4, <1>6, AdvancedKeeps
  <2>2. CASE Current(l) \in Given
    <3>1. op \in [do : {"fire"}, list : DerivedLists, fn : {Nothing}]
      BY <1>1, <1>3, <2>2 DEF Given
    <3>2. op \in Operations /\ op.do = "fire" /\ op.list \in Lists
      BY <3>1, DerivedOnes DEF Operations
    <3>3. ASSUME NEW m \in Derived, NEW kind \in {"done", "fail"}, op.list = <<m, kind>>
          PROVE  Due(cb, m, kind)
      <4>1. Fits(cb, Current(l), l)
        BY <1>1, <1>2, CurrentFits DEF Shape
      <4>2. /\ m \in made
            /\ IF parent[m] # Nothing THEN Answered(cb, parent[m])
               ELSE kind = "fail" /\ l[2] = "fail" /\ l[1] \in subs[m]
        BY <1>1, <1>3, <3>2, <3>3, <4>1 DEF Fits
      <4>3. CASE parent[m] # Nothing
        BY <4>2, <4>3 DEF Due
      <4>4. CASE parent[m] = Nothing
        <5>1. l \in Outcomes
          BY <4>2, <4>4, Names
        <5>2. state[l[1]] = "rejected"
          BY <1>2, <1>6, <4>2, <4>4, <5>1, FiringAnswers DEF StateOf
        <5> QED
          BY <4>2, <4>4, <5>2 DEF Due
      <4> QED
        BY <4>3, <4>4
    <3>4. lists[op.list].spent => ~lists[op.list].memory
      BY <2>1, <3>2, SpentForgets
    <3>5. FromTodo(op, 0)
      BY <3>2 DEF FromTodo
    <3> QED
      BY <1>1, <1>2, <1>4, <1>5, <3>2, <3>3, <3>4, <3>5, SameStack, PerformsStep
  <2>3. CASE l \in Outcomes /\ Current(l) = Settling(l[1], l[2])[3]
    <3>1. op = Op("lock", <<l[1], "progress">>, Nothing) /\ <<l[1], "progress">> \in Lists
      <4>1. \A d, kind : Settling(d, kind)[3].arg = Op("lock", <<d, "progress">>, Nothing)
        BY OwnKinds
      <4> QED
        BY <1>3, <2>3, <4>1, Names
    <3>2. op \in Operations /\ op.do = "lock" /\ op.list \in Lists
      BY <3>1 DEF Op, Operations
    <3>3. lists[op.list].spent => ~lists[op.list].memory
      BY <2>1, <3>2, SpentForgets
    <3>4. FromTodo(op, 0)
      BY <3>2 DEF FromTodo
    <3> QED
      BY <1>1, <1>2, <1>4, <1>5, <3>2, <3>3, <3>4, SameStack, PerformsStep
  <2> QED
    BY <1>1, <1>2, <1>6, <2>2, <2>3, SoundCurrent
<1>7. ASSUME NEW d \in Deferreds, NEW kind \in {"done", "fail"}, l = <<d, kind>>, Settles(d, kind)
      PROVE  ChainInv'
  <2>1. op = Op("disable", <<d, Other(kind)>>, Nothing)
    BY <1>1, <1>2, <1>3, <1>7, SettlesCurrent
  <2>2. <<d, Other(kind)>> \in Lists \ {l} /\ <<d, Other(kind)>> \in Outcomes
    BY <1>7, Names
  <2>3. op \in Operations /\ op.do = "disable" /\ op.list = <<d, Other(kind)>>
    BY <2>1, <2>2 DEF Op, Operations
  <2>4. Untouched(cb[op.list], op.list)
    BY <1>7, <2>3 DEF Settles
  <2>5. lists[op.list] = cb[op.list]
    BY <1>2, <1>4, <2>2, <2>3, AdvancedShape
  <2>6. lists[op.list].spent => ~lists[op.list].memory
    BY <2>4, <2>5 DEF Untouched
  <2>7. FromTodo(op, 0) /\ op.do # "add" /\ op.do # "fire"
    BY <2>3 DEF FromTodo
  <2> QED
    BY <1>1, <1>2, <1>4, <1>5, <2>2, <2>3, <2>6, <2>7, SameStack, PerformsStep
<1> QED
  BY <1>1, <1>2, <1>6, <1>7, Turn

\* The list of a subordinate goes on over the function that counts it.
LEMMA NowCounted ==
    ASSUME NEW c \in ListRecords, NEW m, NEW d, NEW st, CountsOnce(c, st, m, d),
           c.index < Len(c.list), c.list[c.index + 1] = Count(m),
           NEW r \in ListRecords, r.list = c.list, r.index = c.index + 1
    PROVE  /\ \A i \in 1 .. Len(r.list) : i > r.index => r.list[i] # Count(m)
           /\ \A k \in 1 .. Len(st) : \A i \in 1 .. Len(st[k].todo) : st[k].todo[i] # ToCount(m, d)
           /\ ~HasCounted(c, st, m, d)
<1> DEFINE n == c.index + 1
<1>1. n \in 1 .. Len(c.list) /\ n > c.index /\ c.index \in Nat /\ Len(c.list) \in Nat /\ c.list[n] = Count(m)
  BY DEF ListRecords
<1>2. ASSUME NEW i \in 1 .. Len(r.list), i > r.index, r.list[i] = Count(m)
      PROVE  FALSE
  <2>1. i \in 1 .. Len(c.list) /\ i > c.index /\ i # n /\ c.list[i] = Count(m)
    BY <1>1, <1>2
  <2> HIDE DEF n
  <2> QED
    BY <1>1, <2>1 DEF CountsOnce
<1> HIDE DEF n
<1>3. ASSUME NEW k \in 1 .. Len(st), NEW i \in 1 .. Len(st[k].todo), st[k].todo[i] = ToCount(m, d)
      PROVE  FALSE
  BY <1>1, <1>3 DEF CountsOnce
<1> QED
  BY <1>1, <1>2, <1>3 DEF HasCounted

\* What the countdown does to the lists: the one that runs goes on, and the last count
\* fires the master's.
LEMMA CountEffect ==
    ASSUME StepTaken, NEW l \in Lists, CallCount(l), NEW m \in Derived, Current(l).arg = m, Sound(Advanced(l), stack),
           Stacked(stack), cb[l] \in ListRecords
    PROVE  /\ cb'[l].list = cb[l].list /\ cb'[l].index = cb[l].index + 1
           /\ TodoFrom(0) /\ RunsFrom
           /\ \E op : /\ Effect(op) /\ op.do # "add"
                      /\ op.do = "fire" => remaining[m] = 1 /\ op.list = <<m, "done">>
<1>1. PICK op \in Operations : op = Op("fire", <<m, "done">>, Nothing) /\ op.do = "fire" /\ op.list = <<m, "done">>
  <2>1. <<m, "done">> \in Lists
    BY Names DEF Derived, Outcomes
  <2> QED
    BY <2>1, FireFits
<1>2. PICK lists : lists = Advanced(l)
  OBVIOUS
<1>3. \/ remaining[m] = 1 /\ Perform(op, lists, stack)
      \/ cb' = lists /\ stack' = stack
  BY <1>1, <1>2 DEF CallCount
<1>4. PromiseInv /\ lists \in [Lists -> ListRecords] /\ \A k \in Lists : lists[k] = IF k = l THEN Later(cb[l]) ELSE cb[k]
  BY <1>2, Parts, AdvancedShape DEF StepTaken, Shape
<1>5. lists[l] \in ListRecords /\ lists[l].list = cb[l].list /\ lists[l].index = cb[l].index + 1
  BY <1>4, Advances
<1>6. CASE remaining[m] = 1 /\ Perform(op, lists, stack)
  <2>1. cb' = ListsAfter(op, lists)
    BY <1>6, PerformResult
  <2>2. lists[op.list].spent => ~lists[op.list].memory
    BY <1>2, SpentForgets DEF Operations
  <2>3. Effect(op)
    BY <1>1, <1>4, <2>1, <2>2, PerformEffect
  <2>4. cb'[l].list = cb[l].list /\ cb'[l].index = cb[l].index + 1
    <3>1. CASE l = op.list
      <4>1. cb'[l] = Result(op, lists[l])
        BY <1>4, <2>1, <3>1 DEF ListsAfter
      <4> QED
        BY <1>1, <1>5, <4>1, ResultFire
    <3>2. CASE l # op.list
      BY <1>4, <1>5, <2>1, <3>2 DEF ListsAfter
    <3> QED
      BY <3>1, <3>2
  <2>5. TodoFrom(0) /\ RunsFrom
    BY <1>6, SameStack, PerformedStack
  <2> QED
    BY <1>1, <1>6, <2>3, <2>4, <2>5
<1>7. CASE cb' = lists /\ stack' = stack
  <2>1. Effect(NoOp)
    BY <1>2, <1>4, <1>7, StillEffect
  <2>2. TodoFrom(0) /\ RunsFrom
    BY <1>7, SameStack DEF TodoKept, RunsKept, TodoFrom, RunsFrom
  <2>3. NoOp.do \notin {"add", "fire"}
    BY NoOpDoes
  <2>4. cb'[l].list = cb[l].list /\ cb'[l].index = cb[l].index + 1
    BY <1>5, <1>7
  <2> QED
    BY <2>1, <2>2, <2>3, <2>4
<1> QED
  BY <1>3, <1>6, <1>7

LEMMA OneFewer ==
    ASSUME NEW owed, IsFiniteSet(owed), NEW d \in owed
    PROVE  /\ Cardinality(owed) \in Nat \ {0} /\ Cardinality(owed \ {d}) = Cardinality(owed) - 1
           /\ Cardinality(owed) = 1 => owed = {d}
<1>1. Cardinality(owed) \in Nat /\ owed # {}
  BY FS_CardinalityType
<1>2. IsFiniteSet(owed \ {d}) /\ Cardinality(owed \ {d}) = Cardinality(owed) - 1
  BY FS_RemoveElement
<1>3. Cardinality(owed) # 0
  BY <1>1, FS_EmptySet
<1>4. ASSUME Cardinality(owed) = 1
      PROVE  owed = {d}
  <2>1. Cardinality(owed \ {d}) = 0
    BY <1>2, <1>4
  <2>2. owed \ {d} = {}
    BY <1>2, <2>1, FS_EmptySet
  <2> QED
    BY <2>2
<1> QED
  BY <1>1, <1>2, <1>3, <1>4

LEMMA CountChains ==
    ASSUME StepTaken, NEW l \in Lists, CallCount(l)
    PROVE  ChainInv'
<1>1. PICK m : m = Current(l).arg
  OBVIOUS
<1>2. /\ Looping(l) /\ HasNext(l) /\ Current(l).kind = "count"
      /\ remaining' = [remaining EXCEPT ![m] = @ - 1]
      /\ UNCHANGED <<made, parent, subs, state>>
  BY <1>1 DEF CallCount, history
<1>3. /\ PromiseInv /\ PromiseInv' /\ ChainInv /\ Origins /\ ListsFit /\ StackFits /\ FiredDue /\ Countdown
      /\ Stacked(stack) /\ cb[l] \in ListRecords /\ cb'[l] \in ListRecords
  BY ChainParts, Parts, PartsNext DEF StepTaken, Shape
<1>4. Sound(cb, stack) /\ cb[l].firing /\ Current(l) \in Given /\ Sound(Advanced(l), stack)
  BY <1>2, <1>3, CallsGiven
<1>5. m \in Derived /\ m \in Deferreds /\ Current(l) = Count(m)
  <2>1. m \in Derived /\ Current(l) = Callback("count", m)
    BY <1>1, <1>2, <1>4 DEF Given, Callback
  <2> QED
    BY <2>1 DEF Derived, Count
<1>6. m \in made /\ parent[m] = Nothing /\ l[2] = "done" /\ l[1] \in subs[m]
  BY <1>1, <1>2, <1>3, CurrentFits DEF Fits
<1>7. PICK d \in subs[m] : d \in Deferreds /\ l = <<d, "done">>
  BY <1>6, Names
<1>8. state[d] = "resolved"
  BY <1>3, <1>4, <1>7, Names, FiringAnswers DEF StateOf
<1>9. PICK owed \in SUBSET subs[m] : Counted(cb, stack, m, owed)
  BY <1>3, <1>5 DEF Countdown
<1>10. CountsOnce(cb[l], stack, m, d)
  BY <1>7, <1>9 DEF Counted
<1>11. cb[l].index < Len(cb[l].list) /\ cb[l].list[cb[l].index + 1] = Count(m)
  BY <1>2, <1>5 DEF HasNext, Current
<1>12. PICK op : /\ cb'[l].list = cb[l].list /\ cb'[l].index = cb[l].index + 1
                 /\ TodoFrom(0) /\ RunsFrom /\ Effect(op) /\ op.do # "add"
                 /\ op.do = "fire" => remaining[m] = 1 /\ op.list = <<m, "done">>
  BY <1>1, <1>3, <1>4, <1>5, CountEffect
<1>13. PICK r \in ListRecords : r = cb'[l]
  BY <1>3
<1>14. /\ \A i \in 1 .. Len(r.list) : i > r.index => r.list[i] # Count(m)
       /\ \A k \in 1 .. Len(stack) : \A i \in 1 .. Len(stack[k].todo) : stack[k].todo[i] # ToCount(m, d)
       /\ ~HasCounted(cb[l], stack, m, d)
  BY <1>3, <1>10, <1>11, <1>12, <1>13, NowCounted
<1>15. d \in owed
  BY <1>7, <1>9, <1>14 DEF Counted
<1>16. /\ remaining[m] = Cardinality(owed) /\ IsFiniteSet(owed) /\ Cardinality(owed) \in Nat \ {0}
       /\ Cardinality(owed \ {d}) = remaining[m] - 1 /\ (remaining[m] = 1 => owed = {d})
  <2>1. IsFiniteSet(owed)
    BY <1>3, <1>5, FS_Subset DEF Origins
  <2>2. remaining[m] = Cardinality(owed)
    BY <1>9 DEF Counted
  <2> QED
    BY <1>15, <2>1, <2>2, OneFewer
<1>17. /\ remaining'[m] = remaining[m] - 1 /\ remaining' \in [Deferreds -> Nat]
       /\ \A x \in Deferreds : x # m => remaining'[x] = remaining[x]
  BY <1>2, <1>3, <1>5, <1>16 DEF Origins
<1>18. Steady
  <2>1. made \subseteq made' /\ \A x \in made : parent'[x] = parent[x] /\ subs'[x] = subs[x]
    BY <1>2
  <2> QED
    BY <1>12, <2>1, Steadily DEF StepTaken
<1>19. Origins'
  BY <1>2, <1>3, <1>17 DEF Origins
<1>20. ListsFit'
  BY <1>3, <1>12, <1>18, ListsFitStill
<1>21. StackFits'
  BY <1>3, <1>12, <1>18, StackFitsStill
<1>22. FiredDue'
  <2>1. op.do = "fire" => Due(cb, m, "done")'
    <3>1. ASSUME op.do = "fire"
          PROVE  Due(cb, m, "done")
      <4>1. owed = {d}
        BY <1>12, <1>16, <3>1
      <4>2. \A e \in subs[m] : state[e] = "resolved"
        BY <1>8, <1>9, <4>1 DEF Counted
      <4> QED
        BY <1>6, <4>2 DEF Due
    <3> QED
      BY <1>3, <1>18, <3>1, StillFits
  <2>2. op.do = "fire" => \A n \in Derived, kind \in {"done", "fail"} : op.list = <<n, kind>> => Due(cb, n, kind)'
    <3> SUFFICES ASSUME op.do = "fire", NEW n \in Derived, NEW kind \in {"done", "fail"}, op.list = <<n, kind>>
                 PROVE  Due(cb, n, kind)'
      OBVIOUS
    <3>1. n = m /\ kind = "done"
      BY <1>12
    <3> QED
      BY <2>1, <3>1
  <2> QED
    BY <1>3, <1>12, <1>18, <2>2, FiredDueStill
<1>23. \A x \in Deferreds : CountsFrom(x, 0)
  BY <1>12, TodoCounts
<1>24. FromTodo(op, 0)
  BY <1>12 DEF FromTodo
<1>25. Counted(cb, stack, m, owed \ {d})'
  <2>1. remaining'[m] = Cardinality(owed \ {d})
    BY <1>16, <1>17
  <2>2. \A e \in subs[m] : /\ e \in Deferreds /\ CountsOnce(cb[<<e, "done">>], stack, m, e)
                           /\ e \notin owed => state[e] = "resolved" /\ HasCounted(cb[<<e, "done">>], stack, m, e)
    BY <1>3, <1>5, <1>9 DEF Counted, Origins
  <2>3. ASSUME NEW e \in subs[m]
        PROVE  /\ CountsOnce(cb[<<e, "done">>], stack, m, e)'
               /\ e \notin owed => HasCounted(cb[<<e, "done">>], stack, m, e)'
    BY <1>3, <1>5, <1>12, <1>23, <2>2, CountsStill
  <2>4. HasCounted(cb[<<d, "done">>], stack, m, d)'
    <3>1. \A k \in 1 .. Len(stack') : \A i \in 1 .. Len(stack'[k].todo) : stack'[k].todo[i] # ToCount(m, d)
      BY <1>12, <1>14 DEF TodoFrom
    <3>2. HasCounted(r, stack', m, d)
      BY <1>14, <3>1 DEF HasCounted
    <3> QED
      BY <1>7, <1>13, <3>2 DEF HasCounted
  <2> QED
    BY <1>2, <1>8, <2>1, <2>2, <2>3, <2>4 DEF Counted
<1>26. ASSUME NEW x \in Deferreds
       PROVE  (\E some \in SUBSET subs[x] : Counted(cb, stack, x, some))'
  <2>1. CASE x = m
    <3>1. owed \ {d} \in SUBSET subs'[m]
      BY <1>2
    <3> QED
      BY <1>25, <2>1, <3>1
  <2>2. CASE x # m
    <3>1. PICK some \in SUBSET subs[x] : Counted(cb, stack, x, some)
      BY <1>3 DEF Countdown
    <3>2. Counted(cb, stack, x, some)'
      BY <1>2, <1>3, <1>12, <1>17, <1>18, <1>23, <1>24, <2>2, <3>1, CountedStill
    <3> QED
      BY <1>2, <3>1, <3>2
  <2> QED
    BY <2>1, <2>2
<1>27. Countdown'
  BY <1>26 DEF Countdown
<1> QED
  BY <1>19, <1>20, <1>21, <1>22, <1>27, ChainPartsNext

\* The statement of when(): three additions for each of its arguments, and the end.
ThreeForEach(m, n, order, ops) ==
    \A i \in 1 .. Len(ops) :
        \/ ops[i] = Op("end", <<m, "done">>, Nothing)
        \/ \E p \in 1 .. n, q \in 1 .. 3 : i = 3 * (p - 1) + q /\ ops[i] = Subordinate(m, order[p])[q]

LEMMA WhenStatement ==
    ASSUME NEW m \in Derived, NEW n \in Nat, NEW order \in [1 .. n -> Deferreds],
           NEW ops, ops = Append(Subordinates(m, order), Op("end", <<m, "done">>, Nothing))
    PROVE  ThreeForEach(m, n, order, ops)
<1>1. PICK s : s = Subordinates(m, order)
  OBVIOUS
<1>2. PICK b \in Rest : b = Op("end", <<m, "done">>, Nothing)
  BY DerivedOnes, GivenByItself, TodoOf
<1>3. Len(order) = n
  OBVIOUS
<1>4. ASSUME NEW i \in 1 .. 3 * n
      PROVE  \E p \in 1 .. n, q \in 1 .. 3 :
               /\ i = 3 * (p - 1) + q /\ p = (i + 2) \div 3 /\ q = ((i - 1) % 3) + 1
               /\ Subordinate(m, order[p])[q] \in Rest
  <2>1. PICK p \in 1 .. n, q \in 1 .. 3 : i = 3 * (p - 1) + q /\ p = (i + 2) \div 3 /\ q = ((i - 1) % 3) + 1
    <3>1. (i + 2) \div 3 \in 1 .. n /\ ((i - 1) % 3) + 1 \in 1 .. 3
      OBVIOUS
    <3>2. i = 3 * (((i + 2) \div 3) - 1) + (((i - 1) % 3) + 1)
      OBVIOUS
    <3> QED
      BY <3>1, <3>2
  <2>2. Op("add", <<order[p], "progress">>, Notify(m)) \in Rest /\ Op("add", <<order[p], "done">>, Count(m)) \in Rest
        /\ Op("add", <<order[p], "fail">>, Reject(m)) \in Rest
    BY GivenByItself, TodoOf, Names
  <2>3. q = 1 \/ q = 2 \/ q = 3
    OBVIOUS
  <2>4. Subordinate(m, order[p])[q] \in Rest
    BY <2>2, <2>3 DEF Subordinate
  <2> QED
    BY <2>1, <2>4
<1>5. /\ 3 * n \in Nat /\ s \in Seq(Rest) /\ Len(s) = 3 * n
      /\ \A i \in 1 .. 3 * n : s[i] = Subordinate(m, order[(i + 2) \div 3])[((i - 1) % 3) + 1]
  <2>1. \A i \in 1 .. 3 * n : Subordinate(m, order[(i + 2) \div 3])[((i - 1) % 3) + 1] \in Rest
    BY <1>4
  <2>2. s = [i \in 1 .. 3 * n |-> Subordinate(m, order[(i + 2) \div 3])[((i - 1) % 3) + 1]]
    BY <1>1, <1>3 DEF Subordinates
  <2>3. 3 * n \in Nat
    OBVIOUS
  <2> QED
    BY <2>1, <2>2, <2>3
<1>6. Len(ops) = 3 * n + 1 /\ ops[3 * n + 1] = b /\ \A i \in 1 .. 3 * n : ops[i] = s[i]
  BY <1>1, <1>2, <1>5, AppendProperties
<1>7. ASSUME NEW i \in 1 .. Len(ops)
      PROVE  i \in 1 .. 3 * n \/ i = 3 * n + 1
  BY <1>5, <1>6
<1>8. ASSUME NEW i \in 1 .. 3 * n
      PROVE  \E p \in 1 .. n, q \in 1 .. 3 : i = 3 * (p - 1) + q /\ ops[i] = Subordinate(m, order[p])[q]
  BY <1>4, <1>5, <1>6
<1> QED
  BY <1>2, <1>6, <1>7, <1>8 DEF ThreeForEach

\* It counts for its own master, once for each argument.
LEMMA WhenCounts ==
    ASSUME NEW m \in Derived, NEW n \in Nat, NEW order, \A p, q \in 1 .. n : p # q => order[p] # order[q],
           NEW ops, ThreeForEach(m, n, order, ops)
    PROVE  /\ \A i \in 1 .. Len(ops) : \A x, d \in Deferreds : ops[i] = ToCount(x, d) => x = m
           /\ \A i, j \in 1 .. Len(ops) : \A d \in Deferreds :
                ops[i] = ToCount(m, d) /\ ops[j] = ToCount(m, d) => i = j
<1>1. ASSUME NEW i \in 1 .. Len(ops), NEW x \in Deferreds, NEW d \in Deferreds, ops[i] = ToCount(x, d)
      PROVE  x = m /\ \E p \in 1 .. n : i = 3 * (p - 1) + 2 /\ order[p] = d
  <2>1. ops[i].do = "add" /\ ops[i].fn = Count(x) /\ ops[i].list[1] = d /\ ops[i].list[2] = "done"
    BY <1>1 DEF ToCount, Op
  <2>2. Op("end", <<m, "done">>, Nothing).do = "end"
    BY DEF Op
  <2>3. PICK p \in 1 .. n, q \in 1 .. 3 : i = 3 * (p - 1) + q /\ ops[i] = Subordinate(m, order[p])[q]
    <3>1. \/ ops[i] = Op("end", <<m, "done">>, Nothing)
          \/ \E p \in 1 .. n, q \in 1 .. 3 : i = 3 * (p - 1) + q /\ ops[i] = Subordinate(m, order[p])[q]
      BY DEF ThreeForEach
    <3>2. ops[i] # Op("end", <<m, "done">>, Nothing)
      BY <2>1, <2>2
    <3> QED
      BY <3>1, <3>2
  <2>4. q = 1 \/ q = 2 \/ q = 3
    OBVIOUS
  <2>5. /\ Subordinate(m, order[p])[1].list[2] = "progress" /\ Subordinate(m, order[p])[3].list[2] = "fail"
        /\ Subordinate(m, order[p])[2].list[1] = order[p] /\ Subordinate(m, order[p])[2].fn = Count(m)
    BY DEF Subordinate, Op
  <2>6. q = 2
    BY <2>1, <2>3, <2>4, <2>5
  <2>7. Count(x) = Count(m) /\ d = order[p]
    BY <2>1, <2>3, <2>5, <2>6
  <2> QED
    BY <2>3, <2>6, <2>7 DEF Count, Callback
<1>2. ASSUME NEW i \in 1 .. Len(ops), NEW j \in 1 .. Len(ops), NEW d \in Deferreds,
             ops[i] = ToCount(m, d), ops[j] = ToCount(m, d)
      PROVE  i = j
  <2>1. m \in Deferreds
    BY DEF Derived
  <2>2. PICK p \in 1 .. n : i = 3 * (p - 1) + 2 /\ order[p] = d
    BY <1>1, <1>2, <2>1
  <2>3. PICK q \in 1 .. n : j = 3 * (q - 1) + 2 /\ order[q] = d
    BY <1>1, <1>2, <2>1
  <2> QED
    BY <2>2, <2>3
<1> QED
  BY <1>1, <1>2

\* A master that was not made yet is in no list and in no statement.
LEMMA NotMadeNotThere ==
    ASSUME ListsFit, StackFits, NEW m, m \notin made
    PROVE  /\ \A l \in Lists : \A i \in 1 .. Len(cb[l].list) : cb[l].list[i] # Count(m)
           /\ \A k \in 1 .. Len(stack) : \A i \in 1 .. Len(stack[k].todo) : \A d : stack[k].todo[i] # ToCount(m, d)
<1>1. Count(m).kind = "count" /\ Count(m).arg = m
  BY DEF Count, Callback
<1>2. \A l : ~Fits(cb, Count(m), l)
  BY <1>1 DEF Fits
<1>3. \A d : ToCount(m, d).do = "add" /\ ToCount(m, d).fn = Count(m)
  BY DEF ToCount, Op
<1>4. \A d : ~RestFits(cb, ToCount(m, d))
  BY <1>2, <1>3 DEF RestFits
<1> QED
  BY <1>2, <1>4 DEF ListsFit, StackFits

LEMMA CallWhenChains ==
    ASSUME StepTaken, NEW m \in Deferreds, NEW ds \in SUBSET Deferreds, NEW values \in 0 .. 1, CallWhen(m, ds, values)
    PROVE  ChainInv'
<1>1. PICK order, ops :
        /\ order \in SetToSeqs(ds)
        /\ ops = Append(Subordinates(m, order), Op("end", <<m, "done">>, Nothing)) /\ Undertake(ops)
        /\ m \notin made /\ IsFiniteSet(ds) /\ made' = made \cup {m}
        /\ remaining' = [remaining EXCEPT ![m] = Cardinality(ds)] /\ subs' = [subs EXCEPT ![m] = ds]
        /\ UNCHANGED cb /\ UNCHANGED parent
  BY DEF CallWhen
<1>2. /\ PromiseInv /\ PromiseInv' /\ Origins /\ ListsFit /\ StackFits /\ FiredDue /\ Countdown /\ Stacked(stack)
      /\ Roots \subseteq made /\ made \subseteq Deferreds
  BY Parts, ChainParts DEF StepTaken, Shape, HistoryTypes
<1>3. m \in Derived
  BY <1>1, <1>2 DEF Derived
<1>4. PICK n \in Nat : n = Cardinality(ds)
  BY <1>1, FS_CardinalityType
<1>5. order \in [1 .. n -> Deferreds] /\ (\A p \in 1 .. n : order[p] \in ds) /\ \A p, q \in 1 .. n : p # q => order[p] # order[q]
  BY <1>1, <1>4 DEF SetToSeqs
<1>6. ThreeForEach(m, n, order, ops)
  BY <1>1, <1>3, <1>5, WhenStatement
<1>7. /\ \A i \in 1 .. Len(ops) : \A x, d \in Deferreds : ops[i] = ToCount(x, d) => x = m
      /\ \A i, j \in 1 .. Len(ops) : \A d \in Deferreds : ops[i] = ToCount(m, d) /\ ops[j] = ToCount(m, d) => i = j
  BY <1>3, <1>5, <1>6, WhenCounts
<1>8. TopStatement(ops)
  BY <1>1, <1>2, Undertakes
<1>9. /\ remaining' \in [Deferreds -> Nat] /\ remaining'[m] = n /\ subs' \in [Deferreds -> SUBSET Deferreds] /\ subs'[m] = ds
      /\ \A x \in Deferreds : x # m => remaining'[x] = remaining[x] /\ subs'[x] = subs[x]
  BY <1>1, <1>2, <1>4 DEF Origins
<1>10. Effect(NoOp)
  BY <1>1, <1>2, StillEffect
<1>11. Steady
  <2>1. made \subseteq made' /\ \A x \in made : parent'[x] = parent[x] /\ subs'[x] = subs[x]
    BY <1>1, <1>2, <1>9
  <2> QED
    BY <1>10, <2>1, Steadily DEF StepTaken
<1>12. parent'[m] = Nothing
  BY <1>1, <1>2 DEF Origins
<1>13. Origins'
  <2>1. ASSUME NEW x \in Deferreds
        PROVE  /\ IsFiniteSet(subs'[x]) /\ (parent'[x] = Nothing \/ subs'[x] = {})
               /\ x \notin made' \/ x \in Roots => parent'[x] = Nothing /\ subs'[x] = {}
    <3>1. CASE x = m
      BY <1>1, <1>2, <1>9, <1>12, <3>1
    <3>2. CASE x # m
      BY <1>1, <1>2, <1>9, <3>2 DEF Origins
    <3> QED
      BY <3>1, <3>2
  <2> QED
    BY <1>1, <1>2, <1>9, <2>1 DEF Origins
<1>14. ListsFit'
  BY <1>2, <1>10, <1>11, ListsFitStill, NoOpDoes
<1>15. FiredDue'
  BY <1>2, <1>10, <1>11, FiredDueStill, NoOpDoes
<1>16. StackFits'
  <2>1. ASSUME NEW i \in 1 .. Len(ops)
        PROVE  RestFits(cb, ops[i])'
    <3>1. m \in made'
      BY <1>1
    <3>2. CASE ops[i] = Op("end", <<m, "done">>, Nothing)
      BY <1>12, <3>1, <3>2 DEF RestFits, Op
    <3>3. ASSUME NEW p \in 1 .. n, NEW q \in 1 .. 3, ops[i] = Subordinate(m, order[p])[q]
          PROVE  RestFits(cb, ops[i])'
      <4>1. PICK d \in ds : d = order[p]
        BY <1>5
      <4>2. Fits(cb, Notify(m), <<d, "progress">>)'
        BY DEF Fits, Notify, Internal, Callback, Op
      <4>3. Fits(cb, Count(m), <<d, "done">>)'
        BY <1>9, <1>12, <3>1 DEF Fits, Count, Callback
      <4>4. Fits(cb, Reject(m), <<d, "fail">>)'
        BY <1>9, <1>12, <3>1 DEF Fits, Reject, Internal, Callback, Op
      <4>5. \A l, f : Fits(cb, f, l)' => RestFits(cb, Op("add", l, f))'
        BY DEF RestFits, Op
      <4>6. q = 1 \/ q = 2 \/ q = 3
        OBVIOUS
      <4>7. \/ ops[i] = Op("add", <<d, "progress">>, Notify(m))
            \/ ops[i] = Op("add", <<d, "done">>, Count(m))
            \/ ops[i] = Op("add", <<d, "fail">>, Reject(m))
        BY <3>3, <4>1, <4>6 DEF Subordinate
      <4> QED
        BY <4>2, <4>3, <4>4, <4>5, <4>7
    <3> QED
      BY <1>6, <3>2, <3>3 DEF ThreeForEach
  <2> QED
    BY <1>2, <1>8, <1>11, <2>1, StatementFits
<1>17. Counted(cb, stack, m, ds)'
  <2>1. /\ \A l \in Lists : \A i \in 1 .. Len(cb[l].list) : cb[l].list[i] # Count(m)
        /\ \A k \in 1 .. Len(stack) : \A i \in 1 .. Len(stack[k].todo) : \A d : stack[k].todo[i] # ToCount(m, d)
    BY <1>1, <1>2, NotMadeNotThere
  <2>2. ASSUME NEW d \in ds
        PROVE  CountsOnce(cb[<<d, "done">>], stack, m, d)'
    <3>1. d \in Deferreds /\ <<d, "done">> \in Lists
      BY Names DEF Outcomes
    <3>2. \A i \in 1 .. Len(cb'[<<d, "done">>].list) : cb'[<<d, "done">>].list[i] # Count(m)
      BY <1>1, <2>1, <3>1
    <3>3. ASSUME NEW k \in 1 .. Len(stack'), NEW i \in 1 .. Len(stack'[k].todo), stack'[k].todo[i] = ToCount(m, d)
          PROVE  k = Len(stack) /\ i \in 1 .. Len(ops) /\ ops[i] = ToCount(m, d)
      <4>1. CASE k # Len(stack)
        BY <1>8, <2>1, <3>3, <4>1 DEF TopStatement
      <4>2. CASE k = Len(stack)
        BY <1>8, <3>3, <4>2 DEF TopStatement
      <4> QED
        BY <4>1, <4>2
    <3>4. ASSUME NEW k \in 1 .. Len(stack'), NEW i \in 1 .. Len(stack'[k].todo), stack'[k].todo[i] = ToCount(m, d),
                 NEW h \in 1 .. Len(stack'), NEW j \in 1 .. Len(stack'[h].todo), stack'[h].todo[j] = ToCount(m, d)
          PROVE  h = k /\ j = i
      BY <1>7, <3>1, <3>3, <3>4
    <3> QED
      BY <3>2, <3>4 DEF CountsOnce
  <2> QED
    BY <1>4, <1>9, <2>2 DEF Counted
<1>18. ASSUME NEW x \in Deferreds
       PROVE  (\E some \in SUBSET subs[x] : Counted(cb, stack, x, some))'
  <2>1. CASE x = m
    <3>1. ds \in SUBSET subs'[m]
      BY <1>9
    <3> QED
      BY <1>17, <2>1, <3>1
  <2>2. CASE x # m
    <3>1. PICK some \in SUBSET subs[x] : Counted(cb, stack, x, some)
      BY <1>2 DEF Countdown
    <3>2. \A i \in 1 .. Len(ops), d \in Deferreds : ops[i] # ToCount(x, d)
      BY <1>7, <2>2
    <3>3. CountsFrom(x, 0)
      BY <1>2, <1>8, <3>2, StatementCounts
    <3>4. Counted(cb, stack, x, some)'
      BY <1>2, <1>9, <1>10, <1>11, <2>2, <3>1, <3>3, CountedStill, NoOpDoes
    <3> QED
      BY <1>9, <2>2, <3>1, <3>4
  <2> QED
    BY <2>1, <2>2
<1>19. Countdown'
  BY <1>18 DEF Countdown
<1> QED
  BY <1>13, <1>14, <1>15, <1>16, <1>19, ChainPartsNext
-----------------------------------------------------------------------------
(***************************************************************************)
(* The theorems.                                                           *)
(***************************************************************************)

LEMMA ChainInit == Init => ChainInv
<1> SUFFICES ASSUME Init
             PROVE  ChainInv
  OBVIOUS
<1>1. /\ made = Roots /\ remaining = [d \in Deferreds |-> 0] /\ subs = [d \in Deferreds |-> {}]
      /\ parent = [d \in Deferreds |-> Nothing] /\ cb = [l \in Lists |-> NewDeferred(l)]
      /\ stack = <<[list |-> Nothing, running |-> Callback("task", Nothing), todo |-> <<>>]>>
  BY DEF Init
<1>2. Origins
  BY <1>1, FS_EmptySet DEF Origins
<1>3. ListsFit
  <2> SUFFICES ASSUME NEW l \in Lists, NEW i \in 1 .. Len(cb[l].list)
               PROVE  Fits(cb, cb[l].list[i], l)
    BY DEF ListsFit
  <2>1. cb[l].list = IF l[2] = "progress" THEN <<>> ELSE Settling(l[1], l[2])
    BY <1>1 DEF NewDeferred, Fresh
  <2>2. l[2] # "progress"
    BY <2>1
  <2>3. i = 1 \/ i = 2 \/ i = 3
    BY <2>1, <2>2 DEF Settling
  <2>4. PICK s : s = Settling(l[1], l[2])
    OBVIOUS
  <2>5. /\ s[1].kind = "settle" /\ s[2].kind = "do" /\ s[2].arg.do = "disable"
        /\ s[3].kind = "do" /\ s[3].arg.do = "lock"
    BY <2>4 DEF Settling, Internal, Callback, Op
  <2>6. \A g : g.kind = "settle" \/ (g.kind = "do" /\ g.arg.do # "fire") => Fits(cb, g, l)
    BY DEF Fits
  <2> QED
    BY <2>1, <2>2, <2>3, <2>4, <2>5, <2>6
<1>4. StackFits
  <2> SUFFICES ASSUME NEW k \in 1 .. Len(stack)
               PROVE  RunFits(cb, stack[k].running) /\ \A i \in 1 .. Len(stack[k].todo) : RestFits(cb, stack[k].todo[i])
    BY DEF StackFits
  <2>1. stack[k].running.kind = "task" /\ stack[k].todo = <<>>
    BY <1>1 DEF Callback
  <2> QED
    BY <2>1 DEF RunFits
<1>5. FiredDue
  <2>1. \A l \in Lists : ~cb[l].memory
    BY <1>1 DEF NewDeferred, Fresh
  <2> QED
    BY <2>1, Names DEF FiredDue, Derived, Outcomes
<1>6. Countdown
  <2>1. \A m \in Deferreds : Counted(cb, stack, m, {})
    BY <1>1, FS_EmptySet DEF Counted
  <2> QED
    BY <2>1 DEF Countdown
<1> QED
  BY <1>2, <1>3, <1>4, <1>5, <1>6, ChainParts

LEMMA ChainStep ==
    ASSUME PromiseInv, ChainInv, [ReadyNext]_readyVars
    PROVE  ChainInv'
<1>1. StepTaken
  BY EveryStep DEF StepTaken
<1>2. CASE UNCHANGED readyVars
  BY <1>1, <1>2, StillChains DEF readyVars, vars, closure, history
<1>3. CASE Hold
  BY <1>1, <1>3, StillChains DEF Hold, closure, history
<1>4. CASE Page
  BY <1>1, <1>4, AddChains, SettleChains, CallThenChains, CallWhenChains, ThrowChains DEF Page
<1>5. CASE Engine
  <2>1. CASE TodoStep
    BY <1>1, <2>1, TodoChains
  <2>2. ASSUME NEW l \in {Top.list} \ {Nothing},
               \/ CallUser(l) \/ CallSettle(l) \/ CallInternal(l) \/ CallCount(l)
               \/ (NextRound(l) \/ Finish(l)) /\ UNCHANGED <<closure, history, calls>>
               \/ ReturnUser(l) \/ ThenValue(l)
               \/ \E r \in Deferreds : ThenPromise(l, r)
        PROVE  ChainInv'
    <3>1. l \in Lists
      BY TopList
    <3> QED
      BY <1>1, <2>2, <3>1, UserChains, SettleCallChains, InternalChains, CountChains, EndChains, ReturnChains,
         ValueChains, AnswerChains
  <2> QED
    BY <1>5, <2>1, <2>2 DEF Engine
<1> QED
  BY <1>1, <1>2, <1>3, <1>4, <1>5, ReadyChains DEF ReadyNext, Next

\* A deferred that is settled was fired.
LEMMA SettledFired ==
    ASSUME PromiseInv, NEW d \in Deferreds, state[d] # "pending"
    PROVE  \E kind \in {"done", "fail"} : state[d] = StateOf(kind) /\ cb[<<d, kind>>].memory
<1>1. Calm(cb, d) \/ \E kind \in {"done", "fail"} : Settles(d, kind)
  BY DEF PromiseInv
<1> QED
  BY <1>1 DEF Calm, Settles, Fired

LEMMA Follows ==
    ASSUME PromiseInv, ChainInv
    PROVE  ChainsFollow
<1>1. Origins /\ FiredDue /\ made \subseteq Deferreds
  BY ChainParts, Parts DEF HistoryTypes
<1> SUFFICES ASSUME NEW c \in made
             PROVE  /\ subs[c] # {} =>
                         /\ state[c] = "resolved" => \A d \in subs[c] : state[d] = "resolved"
                         /\ state[c] = "rejected" => \E d \in subs[c] : state[d] = "rejected"
                    /\ parent[c] # Nothing /\ state[c] # "pending" =>
                         state[parent[c]] # "pending" \/ cb[<<parent[c], "progress">>].memory
  BY DEF ChainsFollow
<1>2. c \in Deferreds /\ (subs[c] # {} => parent[c] = Nothing) /\ (subs[c] # {} \/ parent[c] # Nothing => c \in Derived)
  BY <1>1 DEF Origins, Derived
<1>3. ASSUME state[c] # "pending", c \in Derived
      PROVE  \E kind \in {"done", "fail"} : state[c] = StateOf(kind) /\ Due(cb, c, kind)
  BY <1>1, <1>2, <1>3, SettledFired DEF FiredDue
<1>4. StateOf("done") = "resolved" /\ StateOf("fail") = "rejected"
  BY DEF StateOf
<1>5. ASSUME subs[c] # {}, state[c] = "resolved"
      PROVE  \A d \in subs[c] : state[d] = "resolved"
  BY <1>2, <1>3, <1>4, <1>5 DEF Due
<1>6. ASSUME subs[c] # {}, state[c] = "rejected"
      PROVE  \E d \in subs[c] : state[d] = "rejected"
  BY <1>2, <1>3, <1>4, <1>6 DEF Due
<1>7. ASSUME parent[c] # Nothing, state[c] # "pending"
      PROVE  state[parent[c]] # "pending" \/ cb[<<parent[c], "progress">>].memory
  BY <1>2, <1>3, <1>7 DEF Due, Answered
<1> QED
  BY <1>5, <1>6, <1>7

\* A master of when() is settled as its subordinates were, and not before; the deferred
\* of a then() after the one it was called on, or after a notification.
THEOREM ChainsHold == ReadySpec => []ChainsFollow
<1>1. ReadyInit => ChainInv
  BY ChainInit DEF ReadyInit
<1>2. PromiseInv /\ ChainInv /\ [ReadyNext]_readyVars => ChainInv'
  BY ChainStep
<1>3. ReadySpec => []ChainInv
  BY <1>1, <1>2, Invariance, PTL DEF ReadySpec
<1>4. PromiseInv /\ ChainInv => ChainsFollow
  BY Follows
<1> QED
  BY <1>3, <1>4, Invariance, PTL
-----------------------------------------------------------------------------
\* The page's calls are bounded.
LEMMA CallsStep ==
    ASSUME calls \in 0 .. MaxCalls, [ReadyNext]_readyVars
    PROVE  calls' \in 0 .. MaxCalls
<1>1. MaxCalls \in Nat
  BY DeferredAssumption
<1>2. CASE UNCHANGED calls
  BY <1>2
<1>3. CASE Calling
  BY <1>1, <1>3 DEF Calling
<1>4. CASE Page
  BY <1>2, <1>3, <1>4 DEF Page, AddOne, Settle, CallList, CallThen, CallWhen, ThrowTo
<1>5. CASE Engine
  BY <1>2, <1>5 DEF Engine, TodoStep, CallUser, CallSettle, CallInternal, CallCount, ReturnUser, ThenValue, ThenPromise
<1>6. CASE UNCHANGED readyVars
  BY <1>2, <1>6 DEF readyVars, vars
<1>7. CASE Hold \/ Release \/ Completed
  BY <1>2, <1>3, <1>7 DEF Hold, Release, Completed
<1> QED
  BY <1>4, <1>5, <1>6, <1>7 DEF ReadyNext, Next

LEMMA Types ==
    ASSUME PromiseInv, ChainInv, calls \in 0 .. MaxCalls
    PROVE  TypeOK
<1>1. Origins /\ HistoryTypes /\ cb \in [Lists -> ListRecords]
  BY ChainParts, Parts DEF Shape
<1>2. \A l \in Lists : cb[l].queue \in Nat /\ cb[l].index \in Nat /\ cb[l].firing \in BOOLEAN
  BY <1>1 DEF ListRecords
<1> QED
  BY <1>1, <1>2 DEF TypeOK, HistoryTypes, Origins

\* Everything that is stated of the deferreds and of the document holds together.
THEOREM EverythingHolds == ReadySpec => []ReadyInv
<1> DEFINE Everything == PromiseInv /\ OrderInv /\ ChainInv /\ ReadyFollows /\ calls \in 0 .. MaxCalls
<1>1. ReadyInit => Everything
  <2>1. Init => calls \in 0 .. MaxCalls
    BY DeferredAssumption DEF Init
  <2> QED
    BY <2>1, InitHolds, OrderInit, ChainInit, ReadyFollowsInit DEF ReadyInit
<1>2. Everything /\ [ReadyNext]_readyVars => Everything'
  BY EveryStep, OrderStep, ChainStep, FollowsStep, CallsStep
<1>3. Everything => ReadyInv
  BY NoneIsLeft, RunsThen, Follows, Types DEF ReadyInv, DeferredInv
<1> QED
  BY <1>1, <1>2, <1>3, PTL DEF ReadySpec

=============================================================================
