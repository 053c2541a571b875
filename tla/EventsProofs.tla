----------------------------- MODULE EventsProofs -----------------------------
(***************************************************************************)
(* Handlers, listeners and the events that reach them: proofs for any      *)
(* tree, any bindings and any number of calls, whatever the page does in   *)
(* the functions that jQuery runs. Each listener belongs to a handler      *)
(* (EventsInv), nothing is handled twice (HandledOnce) or when it was      *)
(* stopped (StopsForGood), and a script is evaluated once (ScriptsOnce).   *)
(***************************************************************************)
EXTENDS Events, FiniteSetTheorems, WellFoundedInduction, TLAPS

(***************************************************************************)
(* The inductive invariants, besides EventsInv.                            *)
(***************************************************************************)

Quiet == "triggered inside a native event" \notin wrong
Calm == "triggered inside an event" \notin wrong
Still == "moved by a script" \notin wrong

\* While jQuery.event.triggered is set the native event is under way, and only it.
Ending ==
    /\ triggered # None => \E e \in 1 .. Len(agenda) : agenda[e].do = "end"
    /\ Calm => Quiet
    /\ Quiet => \A e \in 1 .. Len(agenda) : agenda[e].do = "end" =>
          /\ triggered # None
          /\ \A i \in 1 .. e - 1 :
                 /\ agenda[i].do \in {"capture", "deliver", "page", "evaluate"}
                 /\ agenda[i].do = "capture" => triggered = "focus"
                 /\ agenda[i].do = "deliver" => agenda[i].key = triggered
                 /\ agenda[i].do = "page" => agenda[i].key # "handler"

\* the step belongs to the native event behind trigger(), and will be discarded
Held(i) == \E e \in 1 .. Len(agenda) : i < e /\ agenda[e].do = "end"

\* What a handler has begun is over before the next step of its event, and an
\* event is captured before anything else is done about it.
Stacked ==
    \A j \in 1 .. Len(agenda) :
        agenda[j].do = "capture" \/ (agenda[j].do = "page" /\ agenda[j].key = "handler")
            => \A i \in 1 .. j - 1 : agenda[i].ev # agenda[j].ev

\* Of an event that was stopped only the element that stopped it hears more.
Silent ==
    /\ \A s \in stopped : s[1] \in 1 .. calls
    /\ Quiet => \A s \in stopped, i \in 1 .. Len(agenda) : agenda[i].ev = s[1] =>
          /\ agenda[i].do \in {"fire", "deliver", "capture"} => Held(i)
          /\ agenda[i].do = "run" \/ (agenda[i].do = "page" /\ agenda[i].key = "handler") => agenda[i].at = s[2]

\* the event, the element and the list of handlers that a step is about
Slot(s) == <<s.ev, IF s.do = "run" THEN s.node ELSE s.at, s.key>>
Live(i) == agenda[i].do \in {"fire", "deliver"} /\ ~Held(i)

\* A list is gone through once for an event, and a handler in it once.
Single ==
    /\ \A t \in handled : t[1] \in 1 .. calls
    /\ Quiet => \A i \in 1 .. Len(agenda) :
          /\ Live(i) =>
                /\ \A t \in handled : <<t[1], t[2], Key(t[3].type, t[3].sel)>> # Slot(agenda[i])
                /\ \A j \in 1 .. Len(agenda) : i # j /\ (Live(j) \/ agenda[j].do = "run") =>
                       Slot(agenda[i]) # Slot(agenda[j])
          /\ agenda[i].do = "run" =>
                /\ <<agenda[i].ev, agenda[i].node, agenda[i].h, agenda[i].at>> \notin handled
                /\ \A j \in 1 .. Len(agenda) : i # j => agenda[i] # agenda[j]
          /\ agenda[i].do = "capture" /\ ~Held(i) =>
                /\ \A t \in handled : t[1] # agenda[i].ev
                /\ \A j \in 1 .. Len(agenda) : i # j /\ agenda[j].ev = agenda[i].ev =>
                       agenda[j].do = "deliver" /\ agenda[j].key = "focus"

\* Only one event at a time, and a handler of one() that has run is off.
AllHandlers ==
    {h \in Handlers :
        \/ \E x \in Nodes : \E k \in Keys : \E i \in 1 .. Len(handlers[x][k]) : h = handlers[x][k][i]
        \/ \E i \in 1 .. Len(agenda) : agenda[i].do = "run" /\ h = agenda[i].h}

Spent ==
    /\ \A h \in AllHandlers : h.id <= calls
    /\ \A h \in AllHandlers, g \in AllHandlers : h.id = g.id => h = g
    /\ \A t \in spent :
          /\ t[1] \in Nodes /\ t[2] \in 1 .. calls
          /\ \A h \in AllHandlers : h.id = t[2] => h.once
          /\ \A k \in Keys : \A i \in 1 .. Len(handlers[t[1]][k]) : handlers[t[1]][k][i].id # t[2]
    /\ copyOf = None =>
          /\ \A t \in spent : t[1] # Copy
          /\ \A i \in 1 .. Len(agenda) : agenda[i].do = "run" => agenda[i].node # Copy
    /\ Calm =>
          /\ \A i, j \in 1 .. Len(agenda) : agenda[i].ev # 0 /\ agenda[j].ev # 0 => agenda[i].ev = agenda[j].ev
          /\ \A t \in spent : \A i \in 1 .. Len(agenda) :
                agenda[i].do = "run" => <<agenda[i].node, agenda[i].h.id, agenda[i].at>> # t

Pending == {agenda[i].node : i \in {j \in 1 .. Len(agenda) : agenda[j].do = "evaluate"}}

\* Scripts are evaluated before anything else is done, except by scripts; a script
\* has been evaluated or will be when it is in the document, and is marked when it
\* has been evaluated and is not.
Evaluated ==
    Still =>
        /\ \A i, j \in 1 .. Len(agenda) : agenda[i].do = "evaluate" /\ j < i =>
               \/ agenda[j].do = "evaluate"
               \/ \E k \in j .. i : agenda[k].do = "page" /\ agenda[k].key = "script"
        /\ \A i, j \in 1 .. Len(agenda) :
               agenda[i].do = "evaluate" /\ agenda[j].do = "evaluate" /\ i # j => agenda[j].node # agenda[i].node
        /\ marked \subseteq evaluated /\ \A s \in evaluated : IsScript(s)
        /\ Pending \cap evaluated \subseteq marked
        /\ \A s \in evaluated : s \in marked \/ InDoc(s)
        /\ \A s \in {Script, Copy} : IsScript(s) /\ InDoc(s) => s \in evaluated \cup Pending

(***************************************************************************)
(* The tree. Up(f, x, y) is Within(x, y) with f for the tree: y is x or    *)
(* above it. Where every set of nodes has one whose parent is outside      *)
(* (Rooted) the way up from a node ends, and the functions with which the  *)
(* API changes the tree keep it so.                                        *)
(***************************************************************************)

\* Induction over the numbers, for a set.
LEMMA SetInduction ==
    ASSUME NEW S \in SUBSET Nat, 0 \in S, \A n \in S : n + 1 \in S
    PROVE  S = Nat
<1>1. SUFFICES ASSUME Nat \ S # {}
               PROVE  FALSE
  OBVIOUS
<1>2. PICK x \in Nat \ S : \A y \in Nat \ S : ~(<<y, x>> \in OpToRel(<, Nat))
  BY <1>1, NatLessThanWellFounded, WFMin
<1>3. x # 0 /\ x - 1 \in Nat
  BY SMT
<1>4. <<x - 1, x>> \in OpToRel(<, Nat)
  BY <1>3 DEF OpToRel
<1>5. x - 1 \in S
  BY <1>2, <1>3, <1>4
<1> QED
  BY <1>3, <1>5

-----------------------------------------------------------------------------
Up(f, x, y) ==
    \A S \in SUBSET (Nodes \ {y}) : x \in S => \E z \in S : f[z] \notin S \cup {None}

Rooted(f) == \A S \in SUBSET Nodes : S # {} => \E x \in S : f[x] \notin S

Parents == [Nodes -> Nodes \cup {None}]

\* What the assumption says of the nodes.
LEMMA Constants ==
    /\ None \notin Nodes /\ Doc \in Nodes /\ Copy \in Nodes /\ Script \in Nodes /\ Elems \subseteq Nodes
    /\ Doc # Copy /\ Script # Copy /\ Script # Doc /\ IsFiniteSet(Nodes)
<1>1. IsFiniteSet(Elems \cup {Copy})
  BY FS_AddElement, EventsAssumption
<1>2. IsFiniteSet((Elems \cup {Copy}) \cup {Doc})
  BY <1>1, FS_AddElement
<1>3. (Elems \cup {Copy}) \cup {Doc} = Nodes
  BY DEF Nodes
<1> QED
  BY <1>2, <1>3, EventsAssumption DEF Nodes

\* TypeOK says it of the nodes that have a parent; with the others it is true anyway.
LEMMA RootedBelow ==
    ASSUME NEW f
    PROVE  Rooted(f) <=> \A S \in SUBSET {x \in Nodes : f[x] # None} : S # {} => \E x \in S : f[x] \notin S
<1>1. ASSUME \A S \in SUBSET {x \in Nodes : f[x] # None} : S # {} => \E x \in S : f[x] \notin S,
             NEW S \in SUBSET Nodes, S # {}
      PROVE  \E x \in S : f[x] \notin S
  <2>1. CASE \E x \in S : f[x] = None
    BY <2>1, Constants
  <2>2. CASE \A x \in S : f[x] # None
    BY <1>1, <2>2
  <2> QED
    BY <2>1, <2>2
<1> QED
  BY <1>1 DEF Rooted

\* A node is above itself in this sense, and so is what is above its parent.
LEMMA UpRefl ==
    ASSUME NEW f, NEW x \in Nodes
    PROVE  Up(f, x, x)
BY DEF Up

LEMMA UpStep ==
    ASSUME NEW f, NEW x \in Nodes, NEW y \in Nodes, f[x] \in Nodes, Up(f, f[x], y)
    PROVE  Up(f, x, y)
<1> SUFFICES ASSUME NEW S \in SUBSET (Nodes \ {y}), x \in S
             PROVE  \E z \in S : f[z] \notin S \cup {None}
  BY DEF Up
<1>1. CASE f[x] \in S
  BY <1>1 DEF Up
<1>2. CASE f[x] \notin S
  BY <1>2, Constants
<1> QED
  BY <1>1, <1>2

\* whoever is not below y is in a set that shows it
LEMMA NotUp ==
    ASSUME NEW f, NEW x, NEW y, ~Up(f, x, y)
    PROVE  \E S \in SUBSET (Nodes \ {y}) : x \in S /\ \A z \in S : f[z] \in S \cup {None}
BY DEF Up

\* Who is above a node and is not the node is above its parent.
LEMMA UpDown ==
    ASSUME NEW f \in Parents, NEW x \in Nodes, NEW y \in Nodes, Up(f, x, y), x # y
    PROVE  f[x] \in Nodes /\ Up(f, f[x], y)
<1>1. f[x] \in Nodes
  <2>1. {x} \in SUBSET (Nodes \ {y}) /\ x \in {x}
    OBVIOUS
  <2>2. \E z \in {x} : f[z] \notin {x} \cup {None}
    BY <2>1 DEF Up
  <2> QED
    BY <2>2 DEF Parents
<1>2. SUFFICES ASSUME NEW S \in SUBSET (Nodes \ {y}), f[x] \in S
               PROVE  \E z \in S : f[z] \notin S \cup {None}
  BY <1>1 DEF Up
<1>3. \E z \in S \cup {x} : f[z] \notin (S \cup {x}) \cup {None}
  BY DEF Up
<1> QED
  BY <1>2, <1>3

\* Above is transitive.
LEMMA UpTrans ==
    ASSUME NEW f \in Parents, NEW x \in Nodes, NEW y \in Nodes, NEW z \in Nodes, Up(f, x, y), Up(f, y, z)
    PROVE  Up(f, x, z)
<1> SUFFICES ASSUME NEW S \in SUBSET (Nodes \ {z}), x \in S, \A u \in S : f[u] \in S \cup {None}
             PROVE  FALSE
  BY DEF Up
<1>1. y \in S
  BY DEF Up
<1> QED
  BY <1>1 DEF Up

\* two nodes above x are above one another
LEMMA UpChain ==
    ASSUME NEW f \in Parents, NEW x \in Nodes, NEW y \in Nodes, NEW z \in Nodes,
           Up(f, x, y), Up(f, x, z), ~Up(f, y, z)
    PROVE  Up(f, z, y)
<1>1. PICK T \in SUBSET (Nodes \ {z}) : y \in T /\ \A u \in T : f[u] \in T \cup {None}
  BY NotUp
<1> DEFINE V == {u \in Nodes : Up(f, u, y)}
<1>2. SUFFICES ASSUME z \notin V
               PROVE  FALSE
  OBVIOUS
<1>3. \A u \in T \cup V : f[u] \in (T \cup V) \cup {None}
  <2>1. ASSUME NEW u \in V, u # y
        PROVE  f[u] \in V
    BY <2>1, UpDown
  <2> QED
    BY <1>1, <2>1
<1>4. T \cup V \in SUBSET (Nodes \ {z}) /\ x \in T \cup V
  BY <1>1, <1>2
<1> QED
  BY <1>3, <1>4 DEF Up

\* only what is below a node whose parent changes can come to be elsewhere
LEMMA UpSame ==
    ASSUME NEW f \in Parents, NEW g \in Parents, NEW x \in Nodes, NEW y \in Nodes, NEW D \in SUBSET Nodes,
           \A z \in Nodes \ D : g[z] = f[z], \A d \in D : ~Up(f, x, d)
    PROVE  Up(g, x, y) <=> Up(f, x, y)
<1> DEFINE Far(S) == {z \in S : \A d \in D : ~Up(f, z, d)}
<1>1. ASSUME NEW S \in SUBSET Nodes, NEW z \in Far(S)
      PROVE  g[z] = f[z]
  BY <1>1, UpRefl
<1>2. ASSUME NEW z \in Far(Nodes), f[z] \in Nodes
      PROVE  f[z] \in Far(Nodes)
  BY <1>2, UpStep
<1>3. ASSUME ~Up(g, x, y)
      PROVE  ~Up(f, x, y)
  <2>1. PICK S \in SUBSET (Nodes \ {y}) : x \in S /\ \A z \in S : g[z] \in S \cup {None}
    BY <1>3, NotUp
  <2>2. x \in Far(S) /\ Far(S) \in SUBSET (Nodes \ {y})
    BY <2>1
  <2>3. \A z \in Far(S) : f[z] \in Far(S) \cup {None}
    BY <2>1, <1>1, <1>2
  <2> QED
    BY <2>2, <2>3 DEF Up
<1>4. ASSUME ~Up(f, x, y)
      PROVE  ~Up(g, x, y)
  <2>1. PICK S \in SUBSET (Nodes \ {y}) : x \in S /\ \A z \in S : f[z] \in S \cup {None}
    BY <1>4, NotUp
  <2>2. x \in Far(S) /\ Far(S) \in SUBSET (Nodes \ {y})
    BY <2>1
  <2>3. \A z \in Far(S) : g[z] \in Far(S) \cup {None}
    BY <2>1, <1>1, <1>2
  <2> QED
    BY <2>2, <2>3 DEF Up
<1> QED
  BY <1>3, <1>4

\* what is in a set that nothing leads out of is not below what is outside
LEMMA UpClosed ==
    ASSUME NEW f, NEW S \in SUBSET Nodes, \A z \in S : f[z] \in S \cup {None}, NEW x \in S, NEW y \in Nodes \ S
    PROVE  ~Up(f, x, y)
BY DEF Up

\* Nothing but itself is above a node without parent.
LEMMA UpTop ==
    ASSUME NEW f, NEW x \in Nodes, NEW y \in Nodes, f[y] = None, x # y
    PROVE  ~Up(f, y, x)
<1>1. {y} \in SUBSET (Nodes \ {x}) /\ y \in {y} /\ \A z \in {y} : f[z] \in {y} \cup {None}
  OBVIOUS
<1> QED
  BY <1>1 DEF Up

-----------------------------------------------------------------------------
(***************************************************************************)
(* The tree stays one.                                                     *)
(***************************************************************************)

\* The changes that the API makes to the tree leave it rooted: cutting links,
LEMMA RootedCut ==
    ASSUME NEW f \in Parents, NEW g \in Parents, Rooted(f), \A z \in Nodes : g[z] \in {f[z], None}
    PROVE  Rooted(g)
<1> SUFFICES ASSUME NEW S \in SUBSET Nodes, S # {}, \A z \in S : g[z] \in S
             PROVE  FALSE
  BY DEF Rooted
<1>1. \A z \in S : f[z] \in S
  BY Constants
<1> QED
  BY <1>1 DEF Rooted

\* giving a node that is not above it a child,
LEMMA RootedMove ==
    ASSUME NEW f \in Parents, NEW x \in Nodes, NEW to \in Nodes \cup {None}, Rooted(f), to # None => ~Up(f, to, x)
    PROVE  Rooted([f EXCEPT ![x] = to])
<1> DEFINE g == [f EXCEPT ![x] = to]
<1> SUFFICES ASSUME NEW S \in SUBSET Nodes, S # {}, \A z \in S : g[z] \in S
             PROVE  FALSE
  BY DEF Rooted
<1>1. \A z \in Nodes \ {x} : g[z] = f[z]
  BY DEF Parents
<1>2. CASE x \notin S
  BY <1>1, <1>2 DEF Rooted
<1>3. CASE x \in S
  <2>1. to \in S /\ to # None
    BY <1>3, Constants DEF Parents
  <2>2. PICK T \in SUBSET (Nodes \ {x}) : to \in T /\ \A u \in T : f[u] \in T \cup {None}
    BY <2>1, NotUp
  <2>3. S \cap T \in SUBSET Nodes /\ S \cap T # {} /\ \A u \in S \cap T : f[u] \in S \cap T
    BY <2>1, <2>2, <1>1, Constants
  <2> QED
    BY <2>3 DEF Rooted
<1> QED
  BY <1>2, <1>3

\* putting a node in the place of another,
LEMMA RootedReplace ==
    ASSUME NEW f \in Parents, NEW x \in Nodes, NEW y \in Nodes, Rooted(f), ~Up(f, y, x)
    PROVE  Rooted([f EXCEPT ![x] = f[y], ![y] = None])
<1> DEFINE g == [f EXCEPT ![x] = f[y], ![y] = None]
<1> SUFFICES ASSUME NEW S \in SUBSET Nodes, S # {}, \A z \in S : g[z] \in S
             PROVE  FALSE
  BY DEF Rooted
<1>1. (\A z \in Nodes \ {x, y} : g[z] = f[z]) /\ g[y] = None /\ (x # y => g[x] = f[y])
  BY DEF Parents
<1>2. y \notin S
  BY <1>1, Constants
<1>3. CASE x \notin S
  BY <1>1, <1>2, <1>3 DEF Rooted
<1>4. CASE x \in S
  <2>1. f[y] \in S /\ f[y] # None
    BY <1>1, <1>2, <1>4, Constants
  <2>2. PICK T \in SUBSET (Nodes \ {x}) : y \in T /\ \A u \in T : f[u] \in T \cup {None}
    BY NotUp
  <2>3. S \cap T \in SUBSET Nodes /\ S \cap T # {} /\ \A u \in S \cap T : f[u] \in S \cap T
    BY <2>1, <2>2, <1>1, <1>2, Constants
  <2> QED
    BY <2>3 DEF Rooted
<1> QED
  BY <1>3, <1>4

\* a node's children in its own place,
LEMMA RootedUnwrap ==
    ASSUME NEW f \in Parents, NEW y \in Nodes, Rooted(f)
    PROVE  Rooted([z \in Nodes |-> IF z = y THEN None ELSE IF f[z] = y THEN f[y] ELSE f[z]])
<1> DEFINE g == [z \in Nodes |-> IF z = y THEN None ELSE IF f[z] = y THEN f[y] ELSE f[z]]
<1> SUFFICES ASSUME NEW S \in SUBSET Nodes, S # {}, \A z \in S : g[z] \in S
             PROVE  FALSE
  BY DEF Rooted
<1>1. y \notin S
  BY Constants
<1>2. CASE \A z \in S : f[z] # y
  BY <1>1, <1>2 DEF Rooted
<1>3. CASE \E z \in S : f[z] = y
  <2>1. f[y] \in S
    BY <1>1, <1>3
  <2>2. \A z \in S \cup {y} : f[z] \in S \cup {y}
    BY <2>1, <1>1
  <2> QED
    BY <2>2 DEF Rooted
<1> QED
  BY <1>2, <1>3

\* and a new node between a node and its parent.
LEMMA RootedWrap ==
    ASSUME NEW f \in Parents, NEW x \in Nodes, NEW c \in Nodes, Rooted(f), x # c, \A z \in Nodes : f[z] # c
    PROVE  Rooted([f EXCEPT ![c] = f[x], ![x] = c])
<1> DEFINE g == [f EXCEPT ![c] = f[x], ![x] = c]
<1> SUFFICES ASSUME NEW S \in SUBSET Nodes, S # {}, \A z \in S : g[z] \in S
             PROVE  FALSE
  BY DEF Rooted
<1>1. (\A z \in Nodes \ {x, c} : g[z] = f[z]) /\ g[c] = f[x] /\ g[x] = c
  BY DEF Parents
<1>2. CASE c \notin S
  <2>1. x \notin S
    BY <1>1, <1>2
  <2> QED
    BY <1>1, <1>2, <2>1 DEF Rooted
<1>3. CASE c \in S
  <2>1. f[x] \in S \ {c}
    BY <1>1, <1>3
  <2>2. \A z \in S \ {c} : f[z] \in S \ {c}
    BY <2>1, <1>1
  <2>3. S \ {c} \in SUBSET Nodes /\ S \ {c} # {}
    BY <2>1
  <2> QED
    BY <2>2, <2>3 DEF Rooted
<1> QED
  BY <1>2, <1>3

-----------------------------------------------------------------------------
(***************************************************************************)
(* The way up from a node is a sequence.                                   *)
(***************************************************************************)

IsWay(p, f, x) ==
    /\ p \in Seq(Nodes) /\ Len(p) >= 1 /\ p[1] = x /\ f[p[Len(p)]] = None
    /\ \A i \in 1 .. Len(p) - 1 : f[p[i]] = p[i + 1]

\* A way up from the parent is one from the node, with the node in front.
LEMMA WayStep ==
    ASSUME NEW f \in Parents, NEW x \in Nodes, NEW p, f[x] \in Nodes, IsWay(p, f, f[x])
    PROVE  IsWay(<<x>> \o p, f, x)
<1> DEFINE q == <<x>> \o p
<1>1. p \in Seq(Nodes) /\ Len(p) \in Nat /\ Len(p) >= 1 /\ p[1] = f[x] /\ f[p[Len(p)]] = None
  BY DEF IsWay
<1>2. q \in Seq(Nodes) /\ Len(q) = Len(p) + 1 /\ q[1] = x /\ \A i \in 2 .. Len(q) : q[i] = p[i - 1]
  BY <1>1
<1>3. ASSUME NEW i \in 1 .. Len(q) - 1
      PROVE  f[q[i]] = q[i + 1]
  <2>1. CASE i = 1
    BY <1>1, <1>2, <2>1
  <2>2. CASE i # 1
    <3>1. i - 1 \in 1 .. Len(p) - 1 /\ (i - 1) + 1 = i /\ q[i] = p[i - 1] /\ q[i + 1] = p[(i - 1) + 1]
      BY <1>1, <1>2, <2>2
    <3> QED
      BY <3>1 DEF IsWay
  <2> QED
    BY <2>1, <2>2
<1> QED
  BY <1>1, <1>2, <1>3 DEF IsWay

\* At the top the way is the node itself.
LEMMA WayTop ==
    ASSUME NEW f, NEW x \in Nodes, f[x] = None
    PROVE  IsWay(<<x>>, f, x)
BY DEF IsWay

\* There is a way to the top from every node,
LEMMA WayExists ==
    ASSUME NEW f \in Parents, Rooted(f), NEW x \in Nodes
    PROVE  \E p : IsWay(p, f, x)
<1> DEFINE S == {y \in Nodes : ~ \E p : IsWay(p, f, y)}
<1>1. SUFFICES ASSUME S # {}
               PROVE  FALSE
  OBVIOUS
<1>2. PICK y \in S : f[y] \notin S
  BY <1>1 DEF Rooted
<1>3. f[y] # None
  BY <1>2, WayTop
<1>4. f[y] \in Nodes /\ \E p : IsWay(p, f, f[y])
  BY <1>2, <1>3 DEF Parents
<1> QED
  BY <1>4, WayStep

\* and just one;
LEMMA WayUnique ==
    ASSUME NEW f \in Parents, NEW x \in Nodes, NEW p, NEW q, IsWay(p, f, x), IsWay(q, f, x)
    PROVE  p = q
<1>1. p \in Seq(Nodes) /\ q \in Seq(Nodes) /\ Len(p) \in Nat /\ Len(q) \in Nat /\ Len(p) >= 1 /\ Len(q) >= 1
  BY DEF IsWay
<1> DEFINE S == {n \in Nat : n + 1 <= Len(p) => n + 1 <= Len(q) /\ p[n + 1] = q[n + 1]}
<1>2. 0 \in S
  BY <1>1 DEF IsWay
<1>3. ASSUME NEW n \in S
      PROVE  n + 1 \in S
  <2> SUFFICES ASSUME (n + 1) + 1 <= Len(p)
               PROVE  (n + 1) + 1 <= Len(q) /\ p[(n + 1) + 1] = q[(n + 1) + 1]
    OBVIOUS
  <2>1. n + 1 \in 1 .. Len(p) - 1 /\ n + 1 \in 1 .. Len(q) /\ p[n + 1] = q[n + 1] /\ p[(n + 1) + 1] \in Nodes
    BY <1>1
  <2>2. f[q[n + 1]] = p[(n + 1) + 1]
    BY <2>1 DEF IsWay
  <2>3. n + 1 # Len(q)
    BY <2>1, <2>2, Constants DEF IsWay
  <2>4. n + 1 \in 1 .. Len(q) - 1
    BY <1>1, <2>1, <2>3
  <2> QED
    BY <1>1, <2>2, <2>4 DEF IsWay
<1>4. S = Nat
  BY <1>2, <1>3, SetInduction
<1>5. \A n \in 1 .. Len(p) : n <= Len(q) /\ p[n] = q[n]
  <2> SUFFICES ASSUME NEW n \in 1 .. Len(p)
               PROVE  n <= Len(q) /\ p[n] = q[n]
    OBVIOUS
  <2>1. n - 1 \in Nat /\ (n - 1) + 1 = n
    BY <1>1
  <2>2. n - 1 \in S
    BY <1>4, <2>1
  <2> QED
    BY <2>1, <2>2
<1>6. Len(p) = Len(q)
  <2> SUFFICES ASSUME Len(p) # Len(q)
               PROVE  FALSE
    OBVIOUS
  <2>1. Len(p) \in 1 .. Len(q) - 1 /\ p[Len(p)] = q[Len(p)] /\ q[Len(p) + 1] \in Nodes
    BY <1>1, <1>5
  <2> QED
    BY <2>1, Constants DEF IsWay
<1> QED
  BY <1>1, <1>5, <1>6

\* Path finds it,
LEMMA PathIsWay ==
    ASSUME parent \in Parents, Rooted(parent), NEW x \in Nodes
    PROVE  IsWay(Path(x), parent, x)
<1> DEFINE D(h) == [y \in Nodes |-> IF parent[y] = None THEN <<y>> ELSE <<y>> \o h[parent[y]]]
           w == [y \in Nodes |-> CHOOSE p : IsWay(p, parent, y)]
           path == CHOOSE h : h = D(h)
<1>1. \A y \in Nodes : IsWay(w[y], parent, y)
  BY WayExists
<1>2. \A y \in Nodes : w[y] = IF parent[y] = None THEN <<y>> ELSE <<y>> \o w[parent[y]]
  <2> SUFFICES ASSUME NEW y \in Nodes
               PROVE  w[y] = IF parent[y] = None THEN <<y>> ELSE <<y>> \o w[parent[y]]
    OBVIOUS
  <2>1. CASE parent[y] = None
    <3>1. IsWay(<<y>>, parent, y)
      BY <2>1, WayTop
    <3>2. w[y] = <<y>>
      BY <1>1, <3>1, WayUnique
    <3> QED
      BY <2>1, <3>2
  <2>2. CASE parent[y] # None
    <3>1. parent[y] \in Nodes
      BY <2>2 DEF Parents
    <3>2. IsWay(<<y>> \o w[parent[y]], parent, y)
      BY <1>1, <3>1, WayStep
    <3>3. w[y] = <<y>> \o w[parent[y]]
      BY <1>1, <3>2, WayUnique
    <3> QED
      BY <2>2, <3>3
  <2> QED
    BY <2>1, <2>2
<1>3. w = D(w)
  BY <1>2
<1>4. path = D(path)
  BY <1>3
<1>5. \A y \in Nodes : path[y] = IF parent[y] = None THEN <<y>> ELSE <<y>> \o path[parent[y]]
  <2>1. D(path) = [y \in Nodes |-> IF parent[y] = None THEN <<y>> ELSE <<y>> \o path[parent[y]]]
    OBVIOUS
  <2> HIDE DEF D, path
  <2> QED
    BY <1>4, <2>1
<1> HIDE DEF w
<1>6. Path(x) = path[x]
  BY DEF Path
<1> HIDE DEF path, D
<1> DEFINE S == {y \in Nodes : ~IsWay(path[y], parent, y)}
<1>7. S = {}
  <2> SUFFICES ASSUME S # {}
               PROVE  FALSE
    OBVIOUS
  <2>1. PICK y \in S : parent[y] \notin S
    BY DEF Rooted
  <2>2. CASE parent[y] = None
    BY <1>5, <2>1, <2>2, WayTop
  <2>3. CASE parent[y] # None
    <3>1. parent[y] \in Nodes /\ IsWay(path[parent[y]], parent, parent[y])
      BY <2>1, <2>3 DEF Parents
    <3> QED
      BY <1>5, <2>1, <2>3, <3>1, WayStep
  <2> QED
    BY <2>2, <2>3
<1> QED
  BY <1>6, <1>7

\* what comes later on it is above what comes before,
LEMMA WayUp ==
    ASSUME NEW f \in Parents, NEW x \in Nodes, NEW p, IsWay(p, f, x), NEW j \in 1 .. Len(p), NEW i \in 1 .. j
    PROVE  Up(f, p[i], p[j])
<1>1. p \in Seq(Nodes) /\ Len(p) \in Nat
  BY DEF IsWay
<1> DEFINE S == {n \in Nat : n <= j - 1 => Up(f, p[j - n], p[j])}
<1>2. 0 \in S
  BY <1>1, UpRefl
<1>3. ASSUME NEW n \in S
      PROVE  n + 1 \in S
  <2> SUFFICES ASSUME n + 1 <= j - 1
               PROVE  Up(f, p[j - (n + 1)], p[j])
    OBVIOUS
  <2>1. j - (n + 1) \in 1 .. Len(p) - 1 /\ (j - (n + 1)) + 1 = j - n /\ Up(f, p[j - n], p[j])
    BY <1>1
  <2>2. f[p[j - (n + 1)]] = p[j - n] /\ p[j - n] \in Nodes /\ p[j - (n + 1)] \in Nodes /\ p[j] \in Nodes
    BY <1>1, <2>1 DEF IsWay
  <2> QED
    BY <2>1, <2>2, UpStep
<1>4. S = Nat
  BY <1>2, <1>3, SetInduction
<1>5. j - i \in Nat /\ j - (j - i) = i /\ j - i <= j - 1
  BY <1>1
<1>6. j - i \in S
  BY <1>4, <1>5
<1> QED
  BY <1>5, <1>6

\* and no node is on it twice.
LEMMA WayDistinct ==
    ASSUME NEW f \in Parents, Rooted(f), NEW x \in Nodes, NEW p, IsWay(p, f, x),
           NEW j \in 1 .. Len(p), NEW i \in 1 .. j - 1
    PROVE  p[i] # p[j]
<1>1. p \in Seq(Nodes) /\ Len(p) \in Nat
  BY DEF IsWay
<1> SUFFICES ASSUME p[i] = p[j]
             PROVE  FALSE
  OBVIOUS
<1> DEFINE S == {p[n] : n \in i .. j - 1}
<1>2. S \in SUBSET Nodes /\ S # {}
  BY <1>1
<1>3. ASSUME NEW n \in i .. j - 1
      PROVE  f[p[n]] \in S
  <2>1. f[p[n]] = p[n + 1]
    BY <1>1 DEF IsWay
  <2>2. CASE n = j - 1
    BY <1>1, <2>1, <2>2
  <2>3. CASE n # j - 1
    <3>1. n + 1 \in i .. j - 1
      BY <1>1, <2>3
    <3> QED
      BY <2>1, <3>1
  <2> QED
    BY <2>2, <2>3
<1> QED
  BY <1>2, <1>3 DEF Rooted

(***************************************************************************)
(* Sequences that are flattened: each element comes from one of the parts, *)
(* in order.                                                               *)
(***************************************************************************)

-----------------------------------------------------------------------------
(***************************************************************************)
(* Sequences put one behind the other, and what is left of a sequence.     *)
(***************************************************************************)

\* Where the elements of two joined sequences are.
LEMMA Concat ==
    ASSUME NEW T, NEW s \in Seq(T), NEW t \in Seq(T)
    PROVE  /\ s \o t \in Seq(T) /\ Len(s \o t) = Len(s) + Len(t) /\ Len(s) \in Nat /\ Len(t) \in Nat
           /\ \A i \in 1 .. Len(s) : (s \o t)[i] = s[i]
           /\ \A i \in 1 .. Len(t) : Len(s) + i \in 1 .. Len(s \o t) /\ (s \o t)[Len(s) + i] = t[i]
           /\ \A i \in 1 .. Len(s \o t) : i \notin 1 .. Len(s) =>
                 i - Len(s) \in 1 .. Len(t) /\ (s \o t)[i] = t[i - Len(s)]
OBVIOUS

\* every element of a flattened sequence comes from one of its parts, in order
Parts(u, ss, n, blk, off) ==
    /\ blk \in [1 .. Len(u) -> 1 .. n] /\ off \in [1 .. Len(u) -> Nat]
    /\ \A i \in 1 .. Len(u) : off[i] \in 1 .. Len(ss[blk[i]]) /\ u[i] = ss[blk[i]][off[i]]
    /\ \A i, j \in 1 .. Len(u) : i < j => blk[i] < blk[j] \/ (blk[i] = blk[j] /\ off[i] < off[j])

\* One part by itself,
LEMMA PartsOne ==
    ASSUME NEW T, NEW ss, ss[1] \in Seq(T)
    PROVE  \E blk, off : Parts(ss[1], ss, 1, blk, off)
<1> DEFINE u == ss[1]
           blk == [i \in 1 .. Len(u) |-> 1]
           off == [i \in 1 .. Len(u) |-> i]
<1>1. Len(u) \in Nat
  OBVIOUS
<1>2. Parts(u, ss, 1, blk, off)
  BY <1>1 DEF Parts
<1> QED
  BY <1>2

\* one part more,
LEMMA PartsMore ==
    ASSUME NEW T, NEW ss, NEW n \in Nat, n >= 1, NEW u \in Seq(T), ss[n + 1] \in Seq(T),
           \E blk, off : Parts(u, ss, n, blk, off)
    PROVE  \E blk, off : Parts(u \o ss[n + 1], ss, n + 1, blk, off)
<1> DEFINE v == ss[n + 1]
           w == u \o v
<1>1. PICK b, o : Parts(u, ss, n, b, o)
  OBVIOUS
<1> DEFINE blk == [i \in 1 .. Len(w) |-> IF i <= Len(u) THEN b[i] ELSE n + 1]
           off == [i \in 1 .. Len(w) |-> IF i <= Len(u) THEN o[i] ELSE i - Len(u)]
<1>2. /\ w \in Seq(T) /\ Len(w) = Len(u) + Len(v) /\ Len(u) \in Nat /\ Len(v) \in Nat
      /\ \A i \in 1 .. Len(u) : w[i] = u[i]
      /\ \A i \in 1 .. Len(w) : i \notin 1 .. Len(u) => i - Len(u) \in 1 .. Len(v) /\ w[i] = v[i - Len(u)]
  BY Concat
<1>3. /\ b \in [1 .. Len(u) -> 1 .. n] /\ o \in [1 .. Len(u) -> Nat]
      /\ \A i \in 1 .. Len(u) : o[i] \in 1 .. Len(ss[b[i]]) /\ u[i] = ss[b[i]][o[i]]
      /\ \A i, j \in 1 .. Len(u) : i < j => b[i] < b[j] \/ (b[i] = b[j] /\ o[i] < o[j])
  BY <1>1 DEF Parts
<1> HIDE DEF v, w
<1>4. \A i \in 1 .. Len(w) : i \in 1 .. Len(u) \/ (i \notin 1 .. Len(u) /\ i > Len(u))
  BY <1>2
<1>5. \A i \in 1 .. Len(u) : i \in 1 .. Len(w) /\ blk[i] = b[i] /\ off[i] = o[i] /\ b[i] \in 1 .. n /\ o[i] \in Nat
  <2>1. \A i \in 1 .. Len(u) : i \in 1 .. Len(w) /\ i <= Len(u)
    BY <1>2
  <2> QED
    BY <1>3, <2>1
<1>6. \A i \in 1 .. Len(w) : i \notin 1 .. Len(u) => blk[i] = n + 1 /\ off[i] = i - Len(u) /\ i - Len(u) \in Nat
  <2>1. \A i \in 1 .. Len(w) : i \notin 1 .. Len(u) => ~(i <= Len(u)) /\ i - Len(u) \in Nat
    BY <1>2
  <2> QED
    BY <2>1
<1>7. \A i \in 1 .. Len(w) : blk[i] \in 1 .. n + 1 /\ off[i] \in Nat
  <2>1. n + 1 \in 1 .. n + 1 /\ 1 .. n \subseteq 1 .. n + 1
    OBVIOUS
  <2> HIDE DEF blk, off
  <2> QED
    BY <1>5, <1>6, <2>1
<1>8. blk \in [1 .. Len(w) -> 1 .. n + 1] /\ off \in [1 .. Len(w) -> Nat]
  BY <1>7
<1> HIDE DEF blk, off
<1>9. \A i \in 1 .. Len(w) : off[i] \in 1 .. Len(ss[blk[i]]) /\ w[i] = ss[blk[i]][off[i]]
  <2> SUFFICES ASSUME NEW i \in 1 .. Len(w)
               PROVE  off[i] \in 1 .. Len(ss[blk[i]]) /\ w[i] = ss[blk[i]][off[i]]
    OBVIOUS
  <2>1. CASE i \in 1 .. Len(u)
    BY <1>2, <1>3, <1>5, <2>1
  <2>2. CASE i \notin 1 .. Len(u)
    <3>1. blk[i] = n + 1 /\ off[i] = i - Len(u) /\ i - Len(u) \in 1 .. Len(v) /\ w[i] = v[i - Len(u)]
      BY <1>2, <1>6, <2>2
    <3>2. ss[blk[i]] = v
      BY <3>1 DEF v
    <3> QED
      BY <3>1, <3>2
  <2> QED
    BY <2>1, <2>2
<1>10. \A i, j \in 1 .. Len(w) : i < j => blk[i] < blk[j] \/ (blk[i] = blk[j] /\ off[i] < off[j])
  <2> SUFFICES ASSUME NEW i \in 1 .. Len(w), NEW j \in 1 .. Len(w), i < j
               PROVE  blk[i] < blk[j] \/ (blk[i] = blk[j] /\ off[i] < off[j])
    OBVIOUS
  <2>1. CASE j \in 1 .. Len(u)
    <3>1. i \in 1 .. Len(u)
      BY <1>2, <2>1
    <3>2. b[i] < b[j] \/ (b[i] = b[j] /\ o[i] < o[j])
      BY <1>3, <2>1, <3>1
    <3> QED
      BY <1>5, <2>1, <3>1, <3>2
  <2>2. CASE j \notin 1 .. Len(u) /\ i \in 1 .. Len(u)
    <3>1. blk[j] = n + 1 /\ blk[i] = b[i] /\ b[i] \in 1 .. n
      BY <1>5, <1>6, <2>2
    <3> QED
      BY <3>1
  <2>3. CASE j \notin 1 .. Len(u) /\ i \notin 1 .. Len(u)
    <3>1. blk[j] = n + 1 /\ blk[i] = n + 1 /\ off[i] = i - Len(u) /\ off[j] = j - Len(u)
      BY <1>6, <2>3
    <3> QED
      BY <1>2, <3>1
  <2> QED
    BY <2>1, <2>2, <2>3
<1>11. Parts(w, ss, n + 1, blk, off)
  BY <1>8, <1>9, <1>10 DEF Parts
<1> QED
  BY <1>11 DEF w, v

\* and any number of them.
LEMMA Flattened ==
    ASSUME NEW T, NEW n \in Nat, NEW ss \in [1 .. n -> Seq(T)]
    PROVE  /\ FlattenSeq(ss) \in Seq(T)
           /\ \E blk, off : Parts(FlattenSeq(ss), ss, n, blk, off)
<1>1. Len(ss) = n
  OBVIOUS
<1>2. CASE n = 0
  <2>1. FlattenSeq(ss) = ss /\ ss = <<>>
    BY <1>1, <1>2 DEF FlattenSeq
  <2> DEFINE e == [i \in 1 .. 0 |-> 1]
  <2>2. Parts(ss, ss, 0, e, e)
    BY <2>1 DEF Parts
  <2> QED
    BY <1>2, <2>1, <2>2
<1>3. CASE n # 0
  <2> DEFINE D(h) == [i \in 1 .. Len(ss) |-> IF i = 1 THEN ss[i] ELSE h[i - 1] \o ss[i]]
             flatten == CHOOSE h : h = D(h)
             Good(g, m) == /\ g \in [1 .. m -> Seq(T)]
                           /\ \A i \in 1 .. m : g[i] = IF i = 1 THEN ss[i] ELSE g[i - 1] \o ss[i]
             S == {m \in Nat : m <= n => \E g : Good(g, m)}
  <2>1. 0 \in S
    <3>1. Good([i \in 1 .. 0 |-> <<>>], 0)
      OBVIOUS
    <3> QED
      BY <3>1
  <2>2. ASSUME NEW m \in S
        PROVE  m + 1 \in S
    <3> HIDE DEF Good
    <3> SUFFICES ASSUME m + 1 <= n
                 PROVE  \E g : Good(g, m + 1)
      OBVIOUS
    <3>0. m \in Nat /\ m <= n
      OBVIOUS
    <3>1. PICK g : Good(g, m)
      BY <3>0
    <3> USE DEF Good
    <3> HIDE DEF S
    <3> DEFINE k == [i \in 1 .. m + 1 |-> IF i <= m THEN g[i] ELSE IF m = 0 THEN ss[1] ELSE g[m] \o ss[m + 1]]
    <3>2. k[m + 1] = (IF m + 1 = 1 THEN ss[1] ELSE g[m] \o ss[m + 1]) /\ \A i \in 1 .. m : k[i] = g[i]
      <4>1. m + 1 \in 1 .. m + 1 /\ ~(m + 1 <= m) /\ (m = 0 <=> m + 1 = 1) /\ \A i \in 1 .. m : i \in 1 .. m + 1 /\ i <= m
        BY <3>0
      <4> QED
        BY <4>1
    <3>3. k[m + 1] \in Seq(T) /\ \A i \in 1 .. m : g[i] \in Seq(T)
      <4>1. m # 0 => g[m] \in Seq(T)
        BY <3>0, <3>1
      <4>2. ss[m + 1] \in Seq(T) /\ ss[1] \in Seq(T)
        BY <3>0, <1>3
      <4> QED
        BY <3>0, <3>1, <3>2, <4>1, <4>2
    <3>4. k \in [1 .. m + 1 -> Seq(T)]
      <4>1. \A i \in 1 .. m + 1 : i \in 1 .. m \/ i = m + 1
        BY <3>0
      <4>2. \A i \in 1 .. m + 1 : k[i] \in Seq(T)
        BY <3>2, <3>3, <4>1
      <4> QED
        BY <4>2
    <3>5. ASSUME NEW i \in 1 .. m + 1
          PROVE  k[i] = IF i = 1 THEN ss[i] ELSE k[i - 1] \o ss[i]
      <4>1. CASE i = m + 1
        <5>1. CASE m = 0
          BY <3>2, <4>1, <5>1
        <5>2. CASE m # 0
          <6>1. k[m] = g[m] /\ i - 1 = m
            BY <3>0, <3>2, <4>1, <5>2
          <6> QED
            BY <3>2, <4>1, <5>2, <6>1
        <5> QED
          BY <5>1, <5>2
      <4>2. CASE i \in 1 .. m
        <5>1. g[i] = IF i = 1 THEN ss[i] ELSE g[i - 1] \o ss[i]
          BY <3>1, <4>2
        <5>2. i # 1 => i - 1 \in 1 .. m
          BY <3>0, <4>2
        <5> HIDE DEF k
        <5> QED
          BY <3>2, <4>2, <5>1, <5>2
      <4> QED
        BY <3>0, <4>1, <4>2
    <3>6. Good(k, m + 1)
      BY <3>4, <3>5
    <3> QED
      BY <3>6
  <2>3. S = Nat
    <3> HIDE DEF S
    <3>1. S \in SUBSET Nat
      BY DEF S
    <3> QED
      BY <2>1, <2>2, <3>1, SetInduction
  <2>4. n \in S
    BY <2>3
  <2>5. PICK f : Good(f, n)
    BY <2>4
  <2>6. f = D(f)
    BY <1>1, <2>5
  <2>7. flatten = D(flatten)
    BY <2>6
  <2>8. FlattenSeq(ss) = flatten[n]
    BY <1>1, <1>3 DEF FlattenSeq
  <2>9. \A i \in 1 .. n : flatten[i] = IF i = 1 THEN ss[i] ELSE flatten[i - 1] \o ss[i]
    <3>1. D(flatten) = [i \in 1 .. n |-> IF i = 1 THEN ss[i] ELSE flatten[i - 1] \o ss[i]]
      BY <1>1
    <3> HIDE DEF D, flatten
    <3> QED
      BY <2>7, <3>1
  <2> HIDE DEF flatten, D, Good, S
  <2> DEFINE R == {m \in Nat : m + 1 <= n =>
                     flatten[m + 1] \in Seq(T) /\ \E blk, off : Parts(flatten[m + 1], ss, m + 1, blk, off)}
  <2>10. 0 \in R
    <3>1. flatten[1] = ss[1] /\ ss[1] \in Seq(T)
      BY <1>3, <2>9
    <3> QED
      BY <3>1, PartsOne
  <2>11. ASSUME NEW m \in R
         PROVE  m + 1 \in R
    <3> SUFFICES ASSUME (m + 1) + 1 <= n
                 PROVE  /\ flatten[(m + 1) + 1] \in Seq(T)
                        /\ \E blk, off : Parts(flatten[(m + 1) + 1], ss, (m + 1) + 1, blk, off)
      OBVIOUS
    <3>0. m \in Nat /\ m + 1 <= n
      OBVIOUS
    <3>1. flatten[m + 1] \in Seq(T) /\ \E blk, off : Parts(flatten[m + 1], ss, m + 1, blk, off)
      BY <3>0
    <3> DEFINE l == m + 1
    <3>2. l \in Nat /\ l >= 1 /\ l + 1 \in 1 .. n /\ l + 1 # 1 /\ (l + 1) - 1 = l
      BY <3>0
    <3> HIDE DEF R, l
    <3>3. flatten[l + 1] = flatten[l] \o ss[l + 1] /\ ss[l + 1] \in Seq(T)
      BY <2>9, <3>2
    <3>4. flatten[l] \in Seq(T) /\ \E blk, off : Parts(flatten[l], ss, l, blk, off)
      BY <3>1 DEF l
    <3>5. flatten[l] \o ss[l + 1] \in Seq(T) /\ \E blk, off : Parts(flatten[l] \o ss[l + 1], ss, l + 1, blk, off)
      BY <3>2, <3>3, <3>4, PartsMore, Concat
    <3> QED
      BY <3>3, <3>5 DEF l
  <2>12. R = Nat
    <3> HIDE DEF R
    <3>1. R \in SUBSET Nat
      BY DEF R
    <3> QED
      BY <2>10, <2>11, <3>1, SetInduction
  <2>13. n - 1 \in Nat /\ (n - 1) + 1 = n
    BY <1>3
  <2>14. n - 1 \in R
    BY <2>12, <2>13
  <2> QED
    BY <2>8, <2>13, <2>14
<1> QED
  BY <1>2, <1>3

(***************************************************************************)
(* What is left of a sequence by Without is a part of it, in its order;    *)
(* SetToSeq lists a set.                                                   *)
(***************************************************************************)

Embeds(e, w, s, gone) ==
    /\ e \in [1 .. Len(w) -> 1 .. Len(s)]
    /\ \A n \in 1 .. Len(w) : w[n] = s[e[n]] /\ s[e[n]] \notin gone
    /\ \A m, n \in 1 .. Len(w) : m < n => e[m] < e[n]
    /\ \A i \in 1 .. Len(s) : s[i] \notin gone => \E n \in 1 .. Len(w) : e[n] = i

\* Without leaves out what it is to leave out and nothing else, and keeps the order.
LEMMA WithoutEmbeds ==
    ASSUME NEW T, NEW s \in Seq(T), NEW gone
    PROVE  /\ Without(s, gone) \in Seq(T)
           /\ \E e : Embeds(e, Without(s, gone), s, gone)
<1> DEFINE N == Len(s)
           kept == {i \in 1 .. N : s[i] \notin gone}
           upto(i) == {j \in kept : j <= i}
           R(i) == Cardinality(upto(i))
           w == [n \in 1 .. Cardinality(kept) |-> s[CHOOSE i \in kept : R(i) = n]]
<1>1. N \in Nat /\ kept \subseteq 1 .. N /\ \A i \in 1 .. N : s[i] \in T
  OBVIOUS
<1>2. Without(s, gone) = w
  BY DEF Without
<1>3. IsFiniteSet(kept)
  <2>1. IsFiniteSet(1 .. N)
    BY <1>1, FS_Interval
  <2> QED
    BY <1>1, <2>1, FS_Subset
<1> HIDE DEF N
<1>4. \A i : IsFiniteSet(upto(i)) /\ R(i) \in Nat
  BY <1>3, FS_Subset, FS_CardinalityType
<1>5. R(0) = 0
  <2>1. upto(0) = {}
    BY <1>1
  <2> QED
    BY <2>1, FS_EmptySet
<1>6. R(N) = Cardinality(kept)
  <2>1. upto(N) = kept
    BY <1>1
  <2> QED
    BY <2>1
<1>7. ASSUME NEW i \in kept
      PROVE  R(i) = R(i - 1) + 1
  <2>1. i \notin upto(i - 1) /\ upto(i) = upto(i - 1) \cup {i}
    BY <1>1
  <2> QED
    BY <1>4, <2>1, FS_AddElement
<1>8. ASSUME NEW i \in 1 .. N, i \notin kept
      PROVE  R(i) = R(i - 1)
  <2>1. upto(i) = upto(i - 1)
    BY <1>1, <1>8
  <2> QED
    BY <2>1
<1>9. ASSUME NEW a \in kept, NEW b \in kept, a < b
      PROVE  R(a) < R(b)
  <2>1. upto(a) \subseteq upto(b) /\ b \in upto(b) /\ b \notin upto(a)
    BY <1>1, <1>9
  <2>2. R(a) <= R(b) /\ R(a) # R(b)
    BY <1>4, <2>1, FS_Subset
  <2>3. R(a) \in Nat /\ R(b) \in Nat
    BY <1>4
  <2> HIDE DEF R
  <2> QED
    BY <2>2, <2>3
<1>10. ASSUME NEW i \in kept
       PROVE  R(i) \in 1 .. Cardinality(kept)
  <2>1. upto(i) \subseteq kept /\ i \in upto(i)
    BY <1>1
  <2>2. R(i) <= Cardinality(kept) /\ R(i) # 0
    BY <1>3, <1>4, <2>1, FS_Subset, FS_EmptySet
  <2>3. R(i) \in Nat /\ Cardinality(kept) \in Nat
    BY <1>3, <1>4, FS_CardinalityType
  <2> HIDE DEF R, kept
  <2> QED
    BY <2>2, <2>3
<1> DEFINE S == {m \in Nat : m <= N => \A n \in 1 .. R(m) : \E k \in kept : R(k) = n}
<1> HIDE DEF R, upto, kept
<1>11. 0 \in S
  BY <1>5
<1>12. ASSUME NEW m \in S
       PROVE  m + 1 \in S
  <2> SUFFICES ASSUME m + 1 <= N, NEW n \in 1 .. R(m + 1)
               PROVE  \E k \in kept : R(k) = n
    OBVIOUS
  <2>1. m \in Nat /\ m + 1 \in 1 .. N /\ (m + 1) - 1 = m /\ \A q \in 1 .. R(m) : \E k \in kept : R(k) = q
    BY <1>1
  <2>2. CASE m + 1 \in kept
    <3>1. R(m + 1) = R(m) + 1
      BY <1>7, <2>1, <2>2
    <3>2. n = R(m + 1) \/ n \in 1 .. R(m)
      BY <1>4, <3>1
    <3> QED
      BY <2>1, <2>2, <3>2
  <2>3. CASE m + 1 \notin kept
    <3>1. R(m + 1) = R(m)
      BY <1>8, <2>1, <2>3
    <3> QED
      BY <2>1, <3>1
  <2> QED
    BY <2>2, <2>3
<1>13. S = Nat
  <2> HIDE DEF S
  <2>1. S \in SUBSET Nat
    BY DEF S
  <2> QED
    BY <1>11, <1>12, <2>1, SetInduction
<1>14. \A n \in 1 .. Cardinality(kept) : \E k \in kept : R(k) = n
  <2>1. N \in S
    BY <1>1, <1>13
  <2> QED
    BY <1>1, <1>6, <2>1
<1> DEFINE C == Cardinality(kept)
           e == [n \in 1 .. C |-> CHOOSE i \in kept : R(i) = n]
<1>15. C \in Nat
  BY <1>3, FS_CardinalityType
<1>16. \A n \in 1 .. C : e[n] \in kept /\ R(e[n]) = n
  BY <1>14
<1>17. \A n \in 1 .. C : w[n] = s[e[n]]
  OBVIOUS
<1>18. DOMAIN w = 1 .. C /\ DOMAIN e = 1 .. C /\ w = [n \in 1 .. C |-> s[e[n]]]
  OBVIOUS
<1>19. w = [n \in 1 .. C |-> w[n]] /\ e = [n \in 1 .. C |-> e[n]]
  OBVIOUS
<1> HIDE DEF C, e, w
<1>20. w \in Seq(T) /\ Len(w) = C
  <2>1. \A n \in 1 .. C : w[n] \in T
    BY <1>1, <1>16, <1>17
  <2>2. w \in [1 .. C -> T]
    BY <1>19, <2>1
  <2> QED
    BY <1>15, <2>2
<1>21. e \in [1 .. C -> 1 .. N]
  BY <1>1, <1>16, <1>19
<1>22. ASSUME NEW m \in 1 .. C, NEW n \in 1 .. C, m < n
       PROVE  e[m] < e[n]
  <2>1. e[m] \in 1 .. N /\ e[n] \in 1 .. N /\ e[m] \in kept /\ e[n] \in kept /\ R(e[m]) = m /\ R(e[n]) = n
    BY <1>16, <1>21
  <2>2. e[m] # e[n]
    BY <1>22, <2>1
  <2>3. ~(e[n] < e[m])
    BY <1>9, <1>22, <2>1
  <2> QED
    BY <1>1, <2>1, <2>2, <2>3
<1>23. ASSUME NEW i \in 1 .. N, s[i] \notin gone
       PROVE  \E n \in 1 .. C : e[n] = i
  <2>1. i \in kept
    BY <1>23 DEF kept
  <2>2. R(i) \in 1 .. C /\ e[R(i)] \in kept /\ R(e[R(i)]) = R(i)
    BY <1>10, <1>16, <2>1 DEF C
  <2> DEFINE k == e[R(i)]
  <2>3. k \in kept /\ R(k) = R(i) /\ R(i) \in Nat
    BY <1>4, <2>2
  <2>4. k \in 1 .. N /\ i \in 1 .. N
    BY <2>3 DEF kept
  <2> HIDE DEF k
  <2>5. ~(k < i)
    <3>1. k < i => R(k) < R(i)
      BY <1>9, <2>1, <2>3
    <3> QED
      BY <2>3, <3>1
  <2>6. ~(i < k)
    <3>1. i < k => R(i) < R(k)
      BY <1>9, <2>1, <2>3
    <3> QED
      BY <2>3, <3>1
  <2>7. k = i
    BY <1>1, <2>4, <2>5, <2>6
  <2> QED
    BY <2>2, <2>7 DEF k
<1>24. \A n \in 1 .. C : s[e[n]] \notin gone
  BY <1>16 DEF kept
<1>25. Embeds(e, w, s, gone)
  BY <1>17, <1>20, <1>21, <1>22, <1>23, <1>24 DEF Embeds, N
<1> QED
  BY <1>2, <1>20, <1>25

\* SetToSeq has each element of a finite set once.
LEMMA Listed ==
    ASSUME NEW S, IsFiniteSet(S)
    PROVE  /\ SetToSeq(S) \in Seq(S)
           /\ \A x \in S : \E i \in 1 .. Len(SetToSeq(S)) : SetToSeq(S)[i] = x
           /\ \A i, j \in 1 .. Len(SetToSeq(S)) : SetToSeq(S)[i] = SetToSeq(S)[j] => i = j
<1> DEFINE n == Cardinality(S)
           f == SetToSeq(S)
<1>1. n \in Nat /\ IsFiniteSet(1 .. n) /\ Cardinality(1 .. n) = n
  BY FS_CardinalityType, FS_Interval
<1>2. PICK g : g \in Bijection(1 .. n, S)
  BY <1>1, FS_SameCardinalityBij DEF ExistsBijection
<1>3. g \in [1 .. n -> S] /\ IsInjective(g)
  BY <1>2 DEF Bijection, Injection, IsInjective
<1>4. f \in [1 .. n -> S] /\ IsInjective(f)
  BY <1>3 DEF SetToSeq
<1> HIDE DEF f
<1>5. f \in Injection(1 .. n, S)
  BY <1>4 DEF Injection, IsInjective
<1>6. f \in Surjection(1 .. n, S)
  BY <1>1, <1>5, FS_Injection
<1>7. f \in Seq(S) /\ Len(f) = n
  BY <1>1, <1>4
<1>8. \A x \in S : \E i \in 1 .. n : f[i] = x
  BY <1>6 DEF Surjection
<1>9. \A i, j \in 1 .. n : f[i] = f[j] => i = j
  BY <1>4 DEF IsInjective
<1> QED
  BY <1>7, <1>8, <1>9 DEF f

(***************************************************************************)
(* Lists of handlers. ListOK is what Filed and Wired say of one list and   *)
(* its count of delegates, and place() and Without keep it.                *)
(***************************************************************************)

\* A set of places without gaps ends where its size says.
LEMMA Initial ==
    ASSUME NEW n \in Nat, NEW D \in SUBSET (1 .. n), \A i \in D : \A j \in 1 .. i : j \in D
    PROVE  IsFiniteSet(D) /\ Cardinality(D) \in Nat /\ \A i \in 1 .. n : i \in D <=> i <= Cardinality(D)
<1>1. IsFiniteSet(D) /\ Cardinality(D) \in Nat
  <2>1. IsFiniteSet(1 .. n)
    BY FS_Interval
  <2> QED
    BY <2>1, FS_Subset, FS_CardinalityType
<1>2. ASSUME NEW i \in D
      PROVE  i <= Cardinality(D)
  <2>1. 1 .. i \subseteq D /\ i \in Nat /\ i >= 1
    OBVIOUS
  <2>2. Cardinality(1 .. i) = i
    BY <2>1, FS_Interval
  <2>3. Cardinality(1 .. i) <= Cardinality(D)
    BY <1>1, <2>1, FS_Subset
  <2> QED
    BY <2>2, <2>3
<1>3. ASSUME NEW i \in 1 .. n, i \notin D
      PROVE  ~(i <= Cardinality(D))
  <2>1. D \subseteq 1 .. i - 1
    BY <1>3
  <2>2. IsFiniteSet(1 .. i - 1) /\ Cardinality(1 .. i - 1) = i - 1
    BY FS_Interval
  <2>3. Cardinality(D) <= i - 1
    BY <2>1, <2>2, FS_Subset
  <2> QED
    BY <1>1, <2>3
<1> QED
  BY <1>1, <1>2, <1>3

\* An injective image of a finite set is as large.
LEMMA SameSize ==
    ASSUME NEW S, NEW f, IsFiniteSet(S), \A x, y \in S : f[x] = f[y] => x = y
    PROVE  IsFiniteSet({f[x] : x \in S}) /\ Cardinality({f[x] : x \in S}) = Cardinality(S)
<1> DEFINE g == [x \in S |-> f[x]]
           T == {f[x] : x \in S}
<1>1. g \in Bijection(S, T)
  BY DEF Bijection, Injection, Surjection, IsInjective
<1> QED
  BY <1>1, FS_Bijection DEF ExistsBijection

(***************************************************************************)
(* Handlers, listeners and the capturing handler.                          *)
(***************************************************************************)

Lists == [Nodes -> [Keys -> Seq(Handlers)]]

DataType ==
    /\ handlers \in Lists /\ delegates \in [Nodes -> [Keys -> Nat]]
    /\ listener \in [Nodes -> SUBSET Keys] /\ attaches \in Nat /\ calls \in 0 .. MaxCalls

Data == DataType /\ Filed /\ Wired /\ Captured

\* The fields of a handler, and of a binding that has become one.
LEMMA HandlerType ==
    ASSUME NEW h \in Handlers
    PROVE  h.type \in Keys /\ h.once \in BOOLEAN /\ h.id \in 1 .. MaxCalls /\ Key(h.type, h.sel) \in Keys
<1>1. PICK b \in Bindings, n \in 1 .. MaxCalls : h = [b EXCEPT !.id = n]
  BY DEF Handlers
<1>2. b = [type |-> b.type, sel |-> b.sel, fn |-> b.fn, once |-> b.once, id |-> 0] /\ b.type \in Keys /\ b.once \in BOOLEAN
  BY EventsAssumption
<1>3. h.type = b.type /\ h.once = b.once /\ h.id = n /\ h.sel = b.sel
  BY <1>1, <1>2
<1> QED
  BY <1>2, <1>3 DEF Key, Keys

LEMMA BindingType ==
    ASSUME NEW b \in Bindings, NEW n \in 1 .. MaxCalls
    PROVE  LET h == [b EXCEPT !.id = n]
           IN  h \in Handlers /\ h.type = b.type /\ h.sel = b.sel /\ h.id = n
<1>1. b = [type |-> b.type, sel |-> b.sel, fn |-> b.fn, once |-> b.once, id |-> 0]
  BY EventsAssumption
<1> QED
  BY <1>1 DEF Handlers

\* The range of a sequence.
LEMMA RangeIn ==
    ASSUME NEW T, NEW s \in Seq(T)
    PROVE  /\ Len(s) \in Nat
           /\ Range(s) = {s[i] : i \in 1 .. Len(s)}
           /\ \A i \in 1 .. Len(s) : s[i] \in T /\ s[i] \in Range(s)
           /\ s = <<>> <=> Len(s) = 0
           /\ s = <<>> <=> Range(s) = {}
<1>1. Len(s) \in Nat /\ DOMAIN s = 1 .. Len(s) /\ (s = <<>> <=> Len(s) = 0) /\ \A i \in 1 .. Len(s) : s[i] \in T
  OBVIOUS
<1>2. Range(s) = {s[i] : i \in 1 .. Len(s)}
  BY <1>1 DEF Range
<1>3. Len(s) # 0 => 1 \in 1 .. Len(s)
  BY <1>1
<1> QED
  BY <1>1, <1>2, <1>3

WantIn(f) == {x \in Nodes : f[x]["focusin"] # <<>>}

\* There are finitely many nodes that want focusin.
LEMMA Wants ==
    /\ Wanting = WantIn(handlers)
    /\ \A f : IsFiniteSet(WantIn(f)) /\ Cardinality(WantIn(f)) \in Nat
<1>1. \A f : IsFiniteSet(WantIn(f)) /\ Cardinality(WantIn(f)) \in Nat
  BY Constants, FS_Subset, FS_CardinalityType DEF WantIn
<1> QED
  BY <1>1 DEF WantIn, Wanting

\* what a list of handlers must be
ListOK(list, count, k, n) ==
    /\ \A i \in 1 .. Len(list) :
          /\ Key(list[i].type, list[i].sel) = k
          /\ list[i].id <= n
          /\ (i <= count) <=> (list[i].sel # None)
    /\ \A i, j \in 1 .. Len(list) : list[i].id = list[j].id => i = j
    /\ count <= Len(list)

\* Filed and Wired, list by list.
LEMMA ListsOK ==
    /\ Filed /\ Wired <=> \A x \in Nodes, k \in Keys :
          /\ ListOK(handlers[x][k], delegates[x][k], k, calls)
          /\ k # "focusin" => ((k \in listener[x]) <=> (handlers[x][k] # <<>>))
BY DEF Filed, Wired, ListOK

\* A list stays right while calls go on, an empty one is right,
LEMMA ListGrows ==
    ASSUME NEW list, NEW count, NEW k, NEW n \in Nat, NEW m \in Nat, n <= m, list \in Seq(Handlers), ListOK(list, count, k, n)
    PROVE  ListOK(list, count, k, m)
<1>1. \A i \in 1 .. Len(list) : list[i].id \in Nat
  BY HandlerType
<1> QED
  BY <1>1 DEF ListOK

LEMMA ListEmpty ==
    ASSUME NEW k, NEW n
    PROVE  ListOK(<<>>, 0, k, n)
BY DEF ListOK

\* and so is a list with a new handler in its place.
LEMMA ListPlace ==
    ASSUME NEW list \in Seq(Handlers), NEW count \in Nat, NEW n \in Nat, NEW h \in Handlers, h.id = n + 1,
           ListOK(list, count, Key(h.type, h.sel), n)
    PROVE  /\ Place(list, count, h) \in Seq(Handlers) /\ Place(list, count, h) # <<>>
           /\ ListOK(Place(list, count, h), IF h.sel = None THEN count ELSE count + 1, Key(h.type, h.sel), n + 1)
           /\ \A i \in 1 .. Len(Place(list, count, h)) :
                 Place(list, count, h)[i] = h \/ \E j \in 1 .. Len(list) : Place(list, count, h)[i] = list[j]
<1> DEFINE k == Key(h.type, h.sel)
           w == Place(list, count, h)
<1>1. /\ Len(list) \in Nat /\ count <= Len(list)
      /\ \A i \in 1 .. Len(list) : list[i] \in Handlers /\ list[i].id \in Nat /\ list[i].id <= n
  BY HandlerType DEF ListOK
<1>2. CASE h.sel = None
  <2>1. w = Append(list, h)
    BY <1>2 DEF Place
  <2>2. /\ w \in Seq(Handlers) /\ Len(w) = Len(list) + 1 /\ w[Len(list) + 1] = h
        /\ \A i \in 1 .. Len(list) : w[i] = list[i]
    BY <2>1
  <2>3. \A i \in 1 .. Len(w) : i \in 1 .. Len(list) \/ i = Len(list) + 1
    BY <1>1, <2>2
  <2>4. \A i \in 1 .. Len(w) : Key(w[i].type, w[i].sel) = k /\ w[i].id <= n + 1 /\ ((i <= count) <=> (w[i].sel # None))
    <3> SUFFICES ASSUME NEW i \in 1 .. Len(w)
                 PROVE  Key(w[i].type, w[i].sel) = k /\ w[i].id <= n + 1 /\ ((i <= count) <=> (w[i].sel # None))
      OBVIOUS
    <3>1. CASE i \in 1 .. Len(list)
      BY <1>1, <2>2, <3>1 DEF ListOK
    <3>2. CASE i = Len(list) + 1
      BY <1>1, <1>2, <2>2, <3>2
    <3> QED
      BY <2>3, <3>1, <3>2
  <2>5. \A i, j \in 1 .. Len(w) : w[i].id = w[j].id => i = j
    <3>1. \A i \in 1 .. Len(list) : w[i].id # n + 1
      BY <1>1, <2>2
    <3> QED
      BY <2>2, <2>3, <3>1 DEF ListOK
  <2>6. \A i \in 1 .. Len(w) : w[i] = h \/ \E j \in 1 .. Len(list) : w[i] = list[j]
    BY <2>2, <2>3
  <2>7. ListOK(w, count, k, n + 1)
    BY <1>1, <1>2, <2>2, <2>4, <2>5 DEF ListOK
  <2> QED
    BY <1>2, <2>2, <2>6, <2>7
<1>3. CASE h.sel # None
  <2> DEFINE c == count + 1
  <2>1. w = SubSeq(list, 1, count) \o <<h>> \o SubSeq(list, c, Len(list))
    <3>1. (count + 1) - 1 = count
      OBVIOUS
    <3> QED
      BY <1>3, <3>1 DEF Place, InsertAt
  <2>2. /\ w \in Seq(Handlers) /\ Len(w) = Len(list) + 1 /\ w[c] = h
        /\ \A i \in 1 .. count : w[i] = list[i]
        /\ \A i \in c + 1 .. Len(list) + 1 : w[i] = list[i - 1]
    <3> DEFINE s == SubSeq(list, 1, count)
               t == SubSeq(list, c, Len(list))
    <3>1. s \in Seq(Handlers) /\ Len(s) = count /\ \A i \in 1 .. count : s[i] = list[i]
      BY <1>1
    <3>2. t \in Seq(Handlers) /\ Len(t) = Len(list) - count /\ \A i \in 1 .. Len(list) - count : t[i] = list[c + i - 1]
      BY <1>1
    <3> HIDE DEF s, t
    <3>3. w = (s \o <<h>>) \o t
      BY <2>1 DEF s, t
    <3>4. s \o <<h>> \in Seq(Handlers) /\ Len(s \o <<h>>) = c /\ (s \o <<h>>)[c] = h /\ \A i \in 1 .. count : (s \o <<h>>)[i] = s[i]
      BY <3>1
    <3>5. Len(w) = c + (Len(list) - count) /\ w \in Seq(Handlers)
      <4> DEFINE u == s \o <<h>>
      <4>1. u \in Seq(Handlers) /\ Len(u) = c
        BY <3>4
      <4> HIDE DEF u, w
      <4>2. w = u \o t
        BY <3>3 DEF u
      <4>3. Len(u \o t) = Len(u) + Len(t) /\ u \o t \in Seq(Handlers)
        BY <3>2, <4>1, Concat
      <4> QED
        BY <3>2, <4>1, <4>2, <4>3
    <3>6. \A i \in 1 .. c : w[i] = (s \o <<h>>)[i]
      BY <3>2, <3>3, <3>4
    <3>7. \A i \in c + 1 .. Len(list) + 1 : w[i] = t[i - c]
      BY <1>1, <3>2, <3>3, <3>4
    <3>8. \A i \in c + 1 .. Len(list) + 1 : i - c \in 1 .. Len(list) - count /\ c + (i - c) - 1 = i - 1
      BY <1>1
    <3>9. \A i \in c + 1 .. Len(list) + 1 : w[i] = list[i - 1]
      BY <3>2, <3>7, <3>8
    <3>10. c \in 1 .. c /\ 1 .. count \subseteq 1 .. c /\ Len(w) = Len(list) + 1
      BY <1>1, <3>5
    <3> QED
      BY <3>1, <3>4, <3>5, <3>6, <3>9, <3>10
  <2>3. \A i \in 1 .. Len(w) : \/ i \in 1 .. count /\ i \in 1 .. Len(list)
                               \/ i = c
                               \/ i \in c + 1 .. Len(list) + 1 /\ i - 1 \in 1 .. Len(list) /\ ~(i - 1 <= count)
    BY <1>1, <2>2
  <2>4. \A i \in 1 .. Len(w) : Key(w[i].type, w[i].sel) = k /\ w[i].id <= n + 1 /\ ((i <= c) <=> (w[i].sel # None))
    <3> SUFFICES ASSUME NEW i \in 1 .. Len(w)
                 PROVE  Key(w[i].type, w[i].sel) = k /\ w[i].id <= n + 1 /\ ((i <= c) <=> (w[i].sel # None))
      OBVIOUS
    <3>1. CASE i \in 1 .. count /\ i \in 1 .. Len(list)
      BY <1>1, <2>2, <3>1 DEF ListOK
    <3>2. CASE i = c
      BY <1>1, <1>3, <2>2, <3>2
    <3>3. CASE i \in c + 1 .. Len(list) + 1 /\ i - 1 \in 1 .. Len(list) /\ ~(i - 1 <= count)
      BY <1>1, <2>2, <3>3 DEF ListOK
    <3> QED
      BY <2>3, <3>1, <3>2, <3>3
  <2>5. ASSUME NEW i \in 1 .. Len(w), NEW j \in 1 .. Len(w), w[i].id = w[j].id
        PROVE  i = j
    <3>1. \A q \in 1 .. Len(list) : list[q].id # n + 1
      BY <1>1
    <3>2. w[c].id = n + 1
      BY <2>2
    <3>3. CASE i = c \/ j = c
      BY <2>2, <2>3, <2>5, <3>1, <3>2, <3>3
    <3>4. CASE i # c /\ j # c
      <4> DEFINE p(q) == IF q \in 1 .. count THEN q ELSE q - 1
      <4>1. p(i) \in 1 .. Len(list) /\ p(j) \in 1 .. Len(list) /\ w[i] = list[p(i)] /\ w[j] = list[p(j)]
        BY <1>1, <2>2, <2>3, <3>4
      <4>2. p(i) = p(j)
        BY <2>5, <4>1 DEF ListOK
      <4> QED
        BY <1>1, <2>3, <3>4, <4>2
    <3> QED
      BY <3>3, <3>4
  <2>6. \A i \in 1 .. Len(w) : w[i] = h \/ \E j \in 1 .. Len(list) : w[i] = list[j]
    BY <2>2, <2>3
  <2>7. ListOK(w, c, k, n + 1)
    BY <1>1, <1>3, <2>2, <2>4, <2>5 DEF ListOK
  <2> QED
    BY <1>3, <2>2, <2>6, <2>7
<1> QED
  BY <1>2, <1>3

\* The first n numbers are n.
LEMMA Upto ==
    ASSUME NEW n \in Nat
    PROVE  IsFiniteSet(1 .. n) /\ Cardinality(1 .. n) = n
<1>1. IsFiniteSet(1 .. n) /\ Cardinality(1 .. n) = IF 1 > n THEN 0 ELSE n - 1 + 1
  BY FS_Interval
<1> QED
  BY <1>1

\* A list without some handlers is right when its count falls by the delegated ones.
LEMMA ListWithout ==
    ASSUME NEW list \in Seq(Handlers), NEW count \in Nat, NEW k, NEW n \in Nat, ListOK(list, count, k, n), NEW gone,
           NEW c, c = count - Cardinality({h \in Range(list) \cap gone : h.sel # None})
    PROVE  /\ Without(list, gone) \in Seq(Handlers) /\ c \in Nat
           /\ ListOK(Without(list, gone), c, k, n)
           /\ Without(list, gone) = <<>> <=> Range(list) \subseteq gone
           /\ \A i \in 1 .. Len(Without(list, gone)) :
                 Without(list, gone)[i] \notin gone /\ \E j \in 1 .. Len(list) : Without(list, gone)[i] = list[j]
<1> DEFINE w == Without(list, gone)
           N == Len(list)
<1>1. w \in Seq(Handlers) /\ Len(w) \in Nat
  BY WithoutEmbeds
<1>2. PICK e : Embeds(e, w, list, gone)
  BY WithoutEmbeds
<1> HIDE DEF w, N
<1>3. /\ e \in [1 .. Len(w) -> 1 .. N]
      /\ \A i \in 1 .. Len(w) : w[i] = list[e[i]] /\ list[e[i]] \notin gone
      /\ \A i, j \in 1 .. Len(w) : i < j => e[i] < e[j]
      /\ \A i \in 1 .. N : list[i] \notin gone => \E j \in 1 .. Len(w) : e[j] = i
  BY <1>2 DEF Embeds, N
<1>4. N \in Nat /\ count <= N /\ \A i \in 1 .. N : list[i] \in Handlers
  BY DEF ListOK, N
<1>5. /\ \A i \in 1 .. N : Key(list[i].type, list[i].sel) = k /\ list[i].id <= n /\ ((i <= count) <=> (list[i].sel # None))
      /\ \A i, j \in 1 .. N : list[i].id = list[j].id => i = j
  BY DEF ListOK, N
<1>6. \A i, j \in 1 .. Len(w) : e[i] = e[j] => i = j
  <2> SUFFICES ASSUME NEW i \in 1 .. Len(w), NEW j \in 1 .. Len(w), e[i] = e[j]
               PROVE  i = j
    OBVIOUS
  <2>1. e[i] \in Nat /\ ~(i < j) /\ ~(j < i)
    BY <1>3, <1>4
  <2> QED
    BY <1>1, <2>1
<1> DEFINE D == {i \in 1 .. Len(w) : e[i] <= count}
           A == {i \in 1 .. count : list[i] \in gone}
           G == {h \in Range(list) \cap gone : h.sel # None}
<1>7. IsFiniteSet(D) /\ Cardinality(D) \in Nat /\ \A i \in 1 .. Len(w) : i \in D <=> i <= Cardinality(D)
  <2>1. ASSUME NEW i \in D, NEW j \in 1 .. i
        PROVE  j \in D
    <3>1. j \in 1 .. Len(w) /\ i \in 1 .. Len(w) /\ (j = i \/ j < i)
      BY <1>1
    <3>2. e[j] <= e[i] /\ e[j] \in Nat /\ e[i] \in Nat
      BY <1>3, <1>4, <3>1
    <3> QED
      BY <3>1, <3>2
  <2>2. D \in SUBSET (1 .. Len(w))
    OBVIOUS
  <2> HIDE DEF D
  <2> QED
    BY <1>1, <2>1, <2>2, Initial
<1>8. Cardinality(D) = Cardinality((1 .. count) \ A)
  <2>1. (1 .. count) \ A = {e[i] : i \in D}
    <3>1. ASSUME NEW i \in (1 .. count) \ A
          PROVE  i \in {e[q] : q \in D}
      <4>1. i \in 1 .. N /\ list[i] \notin gone
        BY <1>4
      <4> QED
        BY <1>3, <4>1
    <3>2. ASSUME NEW i \in D
          PROVE  e[i] \in (1 .. count) \ A
      BY <1>3, <1>4
    <3> QED
      BY <3>1, <3>2
  <2>2. \A x, y \in D : e[x] = e[y] => x = y
    BY <1>6
  <2> HIDE DEF D, A
  <2>3. Cardinality({e[i] : i \in D}) = Cardinality(D)
    BY <1>7, <2>2, SameSize
  <2> QED
    BY <2>1, <2>3
<1>9. Cardinality(G) = Cardinality(A)
  <2>1. IsFiniteSet(A)
    <3>1. IsFiniteSet(1 .. count) /\ A \in SUBSET (1 .. count)
      BY FS_Interval
    <3> QED
      BY <3>1, FS_Subset
  <2>2. \A x, y \in A : list[x] = list[y] => x = y
    <3>1. A \subseteq 1 .. N
      BY <1>4
    <3> QED
      BY <1>5, <3>1
  <2>3. G = {list[x] : x \in A}
    <3>1. Range(list) = {list[i] : i \in 1 .. N}
      BY RangeIn DEF N
    <3>2. ASSUME NEW h \in G
          PROVE  h \in {list[x] : x \in A}
      <4>1. PICK i \in 1 .. N : h = list[i]
        BY <3>1
      <4>2. i \in 1 .. count
        BY <1>4, <1>5, <4>1
      <4> QED
        BY <4>1, <4>2
    <3>3. ASSUME NEW x \in A
          PROVE  list[x] \in G
      <4>1. x \in 1 .. N /\ x <= count
        BY <1>4
      <4> QED
        BY <1>5, <3>1, <4>1
    <3> QED
      BY <3>2, <3>3
  <2> HIDE DEF A, G
  <2> QED
    BY <2>1, <2>2, <2>3, SameSize
<1>10. Cardinality(D) = c
  <2>1. IsFiniteSet(1 .. count) /\ Cardinality(1 .. count) = count /\ A \in SUBSET (1 .. count)
    BY Upto
  <2>2. (1 .. count) \cap A = A
    BY <2>1
  <2>3. Cardinality((1 .. count) \ A) = Cardinality(1 .. count) - Cardinality((1 .. count) \cap A)
    BY <2>1, FS_Difference
  <2> HIDE DEF A, G, D
  <2>4. Cardinality(D) = count - Cardinality(G)
    BY <1>8, <1>9, <2>1, <2>2, <2>3
  <2> QED
    BY <2>4 DEF G
<1> HIDE DEF A, G
<1>11. Cardinality(D) <= Len(w)
  <2>1. IsFiniteSet(1 .. Len(w)) /\ Cardinality(1 .. Len(w)) = Len(w) /\ D \subseteq 1 .. Len(w)
    BY <1>1, Upto
  <2> QED
    BY <2>1, FS_Subset
<1>12. \A i \in 1 .. Len(w) : /\ Key(w[i].type, w[i].sel) = k /\ w[i].id <= n
                              /\ (i <= c) <=> (w[i].sel # None)
  <2> SUFFICES ASSUME NEW i \in 1 .. Len(w)
               PROVE  /\ Key(w[i].type, w[i].sel) = k /\ w[i].id <= n
                      /\ (i <= c) <=> (w[i].sel # None)
    OBVIOUS
  <2>1. e[i] \in 1 .. N /\ w[i] = list[e[i]]
    BY <1>3
  <2>2. (i <= c) <=> (e[i] <= count)
    BY <1>7, <1>10
  <2> QED
    BY <1>5, <2>1, <2>2
<1>13. \A i, j \in 1 .. Len(w) : w[i].id = w[j].id => i = j
  <2> SUFFICES ASSUME NEW i \in 1 .. Len(w), NEW j \in 1 .. Len(w), w[i].id = w[j].id
               PROVE  i = j
    OBVIOUS
  <2>1. e[i] \in 1 .. N /\ w[i] = list[e[i]] /\ e[j] \in 1 .. N /\ w[j] = list[e[j]]
    BY <1>3
  <2> QED
    BY <1>5, <1>6, <2>1
<1>14. w = <<>> <=> Range(list) \subseteq gone
  <2>1. Range(list) = {list[i] : i \in 1 .. N} /\ (w = <<>> <=> Len(w) = 0)
    BY <1>1, RangeIn DEF N
  <2>2. ASSUME Len(w) = 0
        PROVE  Range(list) \subseteq gone
    BY <1>3, <2>1, <2>2
  <2>3. ASSUME Len(w) # 0
        PROVE  ~(Range(list) \subseteq gone)
    <3>1. 1 \in 1 .. Len(w)
      BY <1>1, <2>3
    <3> QED
      BY <1>3, <2>1, <3>1
  <2> QED
    BY <2>1, <2>2, <2>3
<1>15. \A i \in 1 .. Len(w) : w[i] \notin gone /\ \E j \in 1 .. N : w[i] = list[j]
  BY <1>3
<1>16. ListOK(w, c, k, n)
  BY <1>7, <1>10, <1>11, <1>12, <1>13 DEF ListOK
<1> QED
  BY <1>1, <1>7, <1>10, <1>14, <1>15, <1>16 DEF w, N

-----------------------------------------------------------------------------
\* All that the invariant says of handlers, list by list.
LEMMA DataLists ==
    Data <=> /\ DataType /\ Captured
             /\ \A x \in Nodes, k \in Keys :
                   /\ ListOK(handlers[x][k], delegates[x][k], k, calls)
                   /\ k # "focusin" => ((k \in listener[x]) <=> (handlers[x][k] # <<>>))
BY ListsOK DEF Data

LEMMA DataListsNext ==
    Data' <=> /\ DataType' /\ Captured'
              /\ \A x \in Nodes, k \in Keys :
                    /\ ListOK(handlers'[x][k], delegates'[x][k], k, calls')
                    /\ k # "focusin" => ((k \in listener'[x]) <=> (handlers'[x][k] # <<>>))
BY DEF Data, Filed, Wired, ListOK

\* The types of one list.
LEMMA ListType ==
    ASSUME DataType, NEW x \in Nodes, NEW k \in Keys
    PROVE  handlers[x][k] \in Seq(Handlers) /\ delegates[x][k] \in Nat /\ listener[x] \subseteq Keys
           /\ handlers[x] \in [Keys -> Seq(Handlers)] /\ delegates[x] \in [Keys -> Nat]
BY DEF DataType, Lists

\* nothing happens to the handlers, but time passes
LEMMA DataSame ==
    ASSUME Data, UNCHANGED data, calls' \in {calls, calls + 1}, calls' <= MaxCalls, wrong \subseteq wrong'
    PROVE  Data'
<1>1. MaxCalls \in Nat /\ calls \in Nat /\ calls' \in Nat /\ calls <= calls'
  BY EventsAssumption DEF Data, DataType
<1>2. DataType'
  BY <1>1 DEF Data, DataType, data
<1>3. Captured'
  BY DEF Data, Captured, data, Wanting
<1>4. ASSUME NEW x \in Nodes, NEW k \in Keys
      PROVE  /\ ListOK(handlers'[x][k], delegates'[x][k], k, calls')
             /\ k # "focusin" => ((k \in listener'[x]) <=> (handlers'[x][k] # <<>>))
  <2>1. handlers[x][k] \in Seq(Handlers)
    BY ListType DEF Data
  <2> QED
    BY <1>1, <2>1, DataLists, ListGrows DEF data
<1> QED
  BY <1>2, <1>3, <1>4, DataListsNext

\* on() puts the new handler in and nothing else.
LEMMA DataAdd ==
    ASSUME Data, calls' = calls + 1, calls' <= MaxCalls, wrong \subseteq wrong',
           NEW x \in Nodes, NEW b \in Bindings, Add(x, [b EXCEPT !.id = calls'])
    PROVE  /\ Data'
           /\ [b EXCEPT !.id = calls'] \in Handlers /\ [b EXCEPT !.id = calls'].id = calls'
           /\ \A y \in Nodes, q \in Keys : \A i \in 1 .. Len(handlers'[y][q]) :
                 \/ handlers'[y][q][i] = [b EXCEPT !.id = calls']
                 \/ \E j \in 1 .. Len(handlers[y][q]) : handlers'[y][q][i] = handlers[y][q][j]
<1> DEFINE h == [b EXCEPT !.id = calls']
           k == Key(h.type, h.sel)
           first == handlers[x][k] = <<>>
<1>1. DataType /\ MaxCalls \in Nat /\ calls \in Nat /\ calls' \in 1 .. MaxCalls /\ calls <= calls'
  BY EventsAssumption DEF Data, DataType
<1>2. h \in Handlers /\ h.type = b.type /\ h.sel = b.sel /\ h.id = calls'
  BY <1>1, BindingType
<1>3. k \in Keys
  BY <1>2, HandlerType
<1> DEFINE l == Place(handlers[x][k], delegates[x][k], h)
           d == IF h.sel = None THEN delegates[x][k] ELSE delegates[x][k] + 1
<1>4. /\ handlers' = [handlers EXCEPT ![x] = [handlers[x] EXCEPT ![k] = l]]
      /\ delegates' = [delegates EXCEPT ![x] = [delegates[x] EXCEPT ![k] = d]]
      /\ listener' = [listener EXCEPT ![x] = IF k = "focusin" THEN @ ELSE @ \cup {k}]
      /\ attaches' = IF k = "focusin" /\ first THEN attaches + 1 ELSE attaches
  <2>1. k = Key(b.type, b.sel) /\ k = Key(h.type, h.sel)
    BY <1>2
  <2> QED
    BY <1>1, <1>2, <1>3, ListType DEF Add, DataType, Lists
<1>5. handlers[x][k] \in Seq(Handlers) /\ delegates[x][k] \in Nat /\ ListOK(handlers[x][k], delegates[x][k], k, calls)
  BY <1>1, <1>3, ListType, DataLists
<1>6. /\ l \in Seq(Handlers) /\ l # <<>> /\ ListOK(l, d, k, calls') /\ d \in Nat
      /\ \A i \in 1 .. Len(l) : l[i] = h \/ \E j \in 1 .. Len(handlers[x][k]) : l[i] = handlers[x][k][j]
  <2>1. h.id = calls + 1 /\ ListOK(handlers[x][k], delegates[x][k], Key(h.type, h.sel), calls)
    BY <1>1, <1>2, <1>5
  <2>2. h \in Handlers /\ calls \in Nat
    BY <1>1, <1>2
  <2> HIDE DEF h
  <2>3. /\ l \in Seq(Handlers) /\ l # <<>>
        /\ ListOK(l, IF h.sel = None THEN delegates[x][k] ELSE delegates[x][k] + 1, Key(h.type, h.sel), calls + 1)
        /\ \A i \in 1 .. Len(l) : l[i] = h \/ \E j \in 1 .. Len(handlers[x][k]) : l[i] = handlers[x][k][j]
    BY <1>5, <2>1, <2>2, ListPlace
  <2> QED
    BY <1>1, <1>5, <2>3
<1> HIDE DEF h, k, l, d, first
<1>7. /\ \A y \in Nodes, q \in Keys : handlers'[y][q] = IF y = x /\ q = k THEN l ELSE handlers[y][q]
      /\ \A y \in Nodes, q \in Keys : delegates'[y][q] = IF y = x /\ q = k THEN d ELSE delegates[y][q]
      /\ \A y \in Nodes : listener'[y] = IF y = x /\ k # "focusin" THEN listener[y] \cup {k} ELSE listener[y]
  BY <1>1, <1>3, <1>4 DEF DataType, Lists
<1>8. DataType'
  <2>1. handlers' \in Lists
    BY <1>1, <1>3, <1>4, <1>6 DEF DataType, Lists
  <2>2. delegates' \in [Nodes -> [Keys -> Nat]]
    BY <1>1, <1>3, <1>4, <1>6 DEF DataType
  <2>3. listener' \in [Nodes -> SUBSET Keys] /\ attaches' \in Nat
    BY <1>1, <1>3, <1>4 DEF DataType
  <2> QED
    BY <1>1, <2>1, <2>2, <2>3 DEF DataType
<1>9. ASSUME NEW y \in Nodes, NEW q \in Keys
      PROVE  /\ ListOK(handlers'[y][q], delegates'[y][q], q, calls')
             /\ q # "focusin" => ((q \in listener'[y]) <=> (handlers'[y][q] # <<>>))
  <2>1. CASE y = x /\ q = k
    BY <1>6, <1>7, <2>1
  <2>2. CASE ~(y = x /\ q = k)
    <3>1. handlers[y][q] \in Seq(Handlers) /\ ListOK(handlers[y][q], delegates[y][q], q, calls)
          /\ (q # "focusin" => ((q \in listener[y]) <=> (handlers[y][q] # <<>>)))
      BY <1>1, ListType, DataLists
    <3>2. ListOK(handlers[y][q], delegates[y][q], q, calls')
      BY <1>1, <3>1, ListGrows
    <3> QED
      BY <1>7, <2>2, <3>1, <3>2
  <2> QED
    BY <2>1, <2>2
<1>10. Captured'
  <2>1. "focusin" \in Keys
    BY DEF Keys
  <2>2. WantIn(handlers') = IF k = "focusin" THEN WantIn(handlers) \cup {x} ELSE WantIn(handlers)
    BY <1>6, <1>7, <2>1 DEF WantIn
  <2>4. Wanting' = WantIn(handlers')
    BY DEF Wanting, WantIn
  <2>5. Cardinality(WantIn(handlers')) = IF k = "focusin" /\ first THEN Cardinality(WantIn(handlers)) + 1
                                         ELSE Cardinality(WantIn(handlers))
    <3>1. CASE k = "focusin" /\ first
      <4>1. x \notin WantIn(handlers)
        BY <3>1 DEF WantIn, first
      <4> QED
        BY <2>2, <3>1, <4>1, Wants, FS_AddElement
    <3>2. CASE k = "focusin" /\ ~first
      <4>1. x \in WantIn(handlers)
        BY <3>2 DEF WantIn, first
      <4>2. WantIn(handlers') = WantIn(handlers)
        BY <2>2, <3>2, <4>1
      <4> QED
        BY <3>2, <4>2
    <3>3. CASE k # "focusin"
      BY <2>2, <3>3
    <3> QED
      BY <3>1, <3>2, <3>3
  <2>6. attaches \in Nat /\ Cardinality(WantIn(handlers)) \in Nat
    BY <1>1, Wants DEF DataType
  <2> QED
    <3>1. Cardinality(Wanting') = IF k = "focusin" /\ first THEN Cardinality(Wanting) + 1 ELSE Cardinality(Wanting)
      BY <2>4, <2>5, Wants
    <3>2. Cardinality(Wanting) \in Nat
      BY <2>6, Wants
    <3>3. attaches >= Cardinality(Wanting) /\ ("cleaned a delegated focus" \notin wrong => attaches = Cardinality(Wanting))
      BY DEF Data, Captured
    <3>4. "cleaned a delegated focus" \notin wrong' => "cleaned a delegated focus" \notin wrong
      OBVIOUS
    <3>5. attaches' >= Cardinality(Wanting') /\ ("cleaned a delegated focus" \notin wrong' => attaches' = Cardinality(Wanting'))
      <4>1. CASE k = "focusin" /\ first
        <5>1. attaches' = attaches + 1 /\ Cardinality(Wanting') = Cardinality(Wanting) + 1
          BY <1>4, <3>1, <4>1
        <5>2. attaches + 1 >= Cardinality(Wanting) + 1
          <6>1. \A a, c \in Nat : a >= c => a + 1 >= c + 1
            OBVIOUS
          <6>2. attaches \in Nat
            BY <2>6
          <6>3. Cardinality(Wanting) \in Nat
            BY <3>2
          <6>4. attaches >= Cardinality(Wanting)
            BY <3>3
          <6> QED
            BY <6>1, <6>2, <6>3, <6>4
        <5>3. "cleaned a delegated focus" \notin wrong' => attaches + 1 = Cardinality(Wanting) + 1
          BY <3>3, <3>4
        <5> QED
          BY <5>1, <5>2, <5>3
      <4>2. CASE ~(k = "focusin" /\ first)
        BY <1>4, <2>6, <3>1, <3>2, <3>3, <3>4, <4>2
      <4> QED
        BY <4>1, <4>2
    <3> QED
      BY <3>5 DEF Captured
<1>11. /\ h \in Handlers /\ h.id = calls'
       /\ \A y \in Nodes, q \in Keys : \A i \in 1 .. Len(handlers'[y][q]) :
             handlers'[y][q][i] = h \/ \E j \in 1 .. Len(handlers[y][q]) : handlers'[y][q][i] = handlers[y][q][j]
  BY <1>2, <1>6, <1>7
<1> QED
  BY <1>8, <1>9, <1>10, <1>11, DataListsNext DEF h

(***************************************************************************)
(* The handlers as a whole, and the count of captures: each of on(),       *)
(* off(), cleanData() and clone() changes attaches as it changes the       *)
(* number of nodes that want focusin, or says so.                          *)
(***************************************************************************)

\* Captures follow the nodes that want focusin.
LEMMA Shifted ==
    ASSUME NEW a \in Nat, NEW c \in Nat, NEW d \in Int, NEW e \in Int, a >= c, d >= e, c + e \in Nat
    PROVE  a + d >= c + e /\ a + d \in Nat
OBVIOUS

\* Captured is kept when attaches grows at least as the nodes that want focusin do,
\* and falls no faster than they unless cleanData() says so.
LEMMA CapturedStep ==
    ASSUME Captured, attaches \in Nat, NEW m, attaches' = m, NEW w, Cardinality(Wanting') = w, w \in Nat,
           NEW d \in Int, NEW e \in Int, m = attaches + d, w = Cardinality(Wanting) + e, d >= e,
           "cleaned a delegated focus" \notin wrong' => "cleaned a delegated focus" \notin wrong /\ d = e
    PROVE  Captured' /\ attaches' \in Nat
<1>1. Cardinality(Wanting) \in Nat
  BY Wants
<1>2. attaches >= Cardinality(Wanting) /\ ("cleaned a delegated focus" \notin wrong => attaches = Cardinality(Wanting))
  BY DEF Captured
<1>3. attaches >= Cardinality(Wanting) /\ Cardinality(Wanting) + e \in Nat
  BY <1>2
<1>4. attaches + d >= Cardinality(Wanting) + e /\ attaches + d \in Nat
  BY <1>1, <1>3, Shifted
<1>5. m >= w
  BY <1>4
<1>6. m \in Nat
  BY <1>4
<1>7. "cleaned a delegated focus" \notin wrong' => m = w
  BY <1>2
<1> QED
  BY <1>5, <1>6, <1>7 DEF Captured

\* off() leaves out handlers of one node,
LEMMA DataUnbind ==
    ASSUME Data, calls' \in {calls, calls + 1}, calls' <= MaxCalls, wrong \subseteq wrong',
           NEW x \in Nodes, NEW gone, Unbind(x, gone)
    PROVE  /\ Data'
           /\ \A y \in Nodes, k \in Keys : handlers'[y][k] = IF y = x THEN Without(handlers[y][k], gone) ELSE handlers[y][k]
<1>1. DataType /\ MaxCalls \in Nat /\ calls \in Nat /\ calls' \in 0 .. MaxCalls /\ calls <= calls' /\ calls' \in Nat
  BY EventsAssumption DEF Data, DataType
<1> DEFINE c(k) == delegates[x][k] - Cardinality({h \in Range(handlers[x][k]) \cap gone : h.sel # None})
           fewer == [k \in Keys |-> Without(handlers[x][k], gone)]
           counts == [k \in Keys |-> c(k)]
<1>2. /\ handlers' = [handlers EXCEPT ![x] = fewer]
      /\ delegates' = [delegates EXCEPT ![x] = counts]
      /\ listener' = [listener EXCEPT ![x] = @ \ TornDown(x, gone)]
      /\ attaches' = IF "focusin" \in TornDown(x, gone) THEN attaches - 1 ELSE attaches
  BY <1>1 DEF Unbind, RemoveEvent, DataType, Lists
<1>3. ASSUME NEW k \in Keys
      PROVE  /\ Without(handlers[x][k], gone) \in Seq(Handlers) /\ c(k) \in Nat
             /\ ListOK(Without(handlers[x][k], gone), c(k), k, calls)
             /\ Without(handlers[x][k], gone) = <<>> <=> Range(handlers[x][k]) \subseteq gone
  <2>1. handlers[x][k] \in Seq(Handlers) /\ delegates[x][k] \in Nat /\ ListOK(handlers[x][k], delegates[x][k], k, calls)
    BY <1>1, ListType, DataLists
  <2> DEFINE l == handlers[x][k]
             d == delegates[x][k]
  <2>2. c(k) = d - Cardinality({h \in Range(l) \cap gone : h.sel # None})
    OBVIOUS
  <2>3. l \in Seq(Handlers) /\ d \in Nat /\ ListOK(l, d, k, calls)
    BY <2>1
  <2> HIDE DEF c, l, d
  <2>4. /\ Without(l, gone) \in Seq(Handlers) /\ c(k) \in Nat
        /\ ListOK(Without(l, gone), c(k), k, calls)
        /\ Without(l, gone) = <<>> <=> Range(l) \subseteq gone
    BY <1>1, <2>2, <2>3, ListWithout
  <2> QED
    BY <2>4 DEF l
<1> HIDE DEF c
<1>4. /\ \A y \in Nodes, k \in Keys : handlers'[y][k] = IF y = x THEN Without(handlers[y][k], gone) ELSE handlers[y][k]
      /\ \A y \in Nodes, k \in Keys : delegates'[y][k] = IF y = x THEN c(k) ELSE delegates[y][k]
      /\ \A y \in Nodes : listener'[y] = IF y = x THEN listener[y] \ TornDown(x, gone) ELSE listener[y]
  BY <1>1, <1>2 DEF DataType, Lists
<1>5. fewer \in [Keys -> Seq(Handlers)] /\ counts \in [Keys -> Nat]
  BY <1>3
<1>6. handlers' \in Lists /\ delegates' \in [Nodes -> [Keys -> Nat]] /\ listener' \in [Nodes -> SUBSET Keys]
  <2> HIDE DEF fewer, counts
  <2> QED
    BY <1>1, <1>2, <1>5 DEF DataType, Lists
<1> HIDE DEF fewer, counts
<1>7. ASSUME NEW y \in Nodes, NEW q \in Keys
      PROVE  /\ ListOK(handlers'[y][q], delegates'[y][q], q, calls')
             /\ q # "focusin" => ((q \in listener'[y]) <=> (handlers'[y][q] # <<>>))
  <2>1. handlers[y][q] \in Seq(Handlers) /\ ListOK(handlers[y][q], delegates[y][q], q, calls)
        /\ (q # "focusin" => ((q \in listener[y]) <=> (handlers[y][q] # <<>>)))
    BY <1>1, ListType, DataLists
  <2>2. CASE y = x
    <3>1. ListOK(Without(handlers[x][q], gone), c(q), q, calls')
      BY <1>1, <1>3, ListGrows
    <3>2. q \in TornDown(x, gone) <=> handlers[x][q] # <<>> /\ Without(handlers[x][q], gone) = <<>>
      BY <1>3 DEF TornDown
    <3>3. handlers[x][q] = <<>> => Without(handlers[x][q], gone) = <<>>
      <4>1. handlers[x][q] = <<>> => Range(handlers[x][q]) = {}
        BY <2>1, <2>2, RangeIn
      <4> QED
        BY <1>3, <4>1
    <3> QED
      BY <1>4, <2>1, <2>2, <3>1, <3>2, <3>3
  <2>3. CASE y # x
    <3>1. ListOK(handlers[y][q], delegates[y][q], q, calls')
      BY <1>1, <2>1, ListGrows
    <3> QED
      BY <1>4, <2>1, <2>3, <3>1
  <2> QED
    BY <2>2, <2>3
<1>8. Captured' /\ attaches' \in Nat
  <2>1. "focusin" \in Keys
    BY DEF Keys
  <2>2. Wanting' = WantIn(handlers')
    BY DEF Wanting, WantIn
  <2>3. CASE "focusin" \in TornDown(x, gone)
    <3>1. x \in Wanting /\ Wanting' = Wanting \ {x}
      BY <1>3, <1>4, <2>1, <2>3 DEF TornDown, Wanting
    <3>2. Cardinality(Wanting') = Cardinality(Wanting) - 1 /\ Cardinality(Wanting') \in Nat
      BY <2>2, <3>1, Wants, FS_RemoveElement
    <3>3. attaches' = attaches + (-1) /\ Cardinality(Wanting') = Cardinality(Wanting) + (-1)
      <4>1. attaches' = attaches - 1 /\ attaches \in Nat /\ Cardinality(Wanting) \in Nat
        BY <1>1, <1>2, <2>3, Wants DEF DataType
      <4> QED
        BY <3>2, <4>1
    <3>4. Captured /\ attaches \in Nat /\ -1 \in Int /\ -1 >= -1
      BY <1>1 DEF Data, DataType
    <3> QED
      BY <3>2, <3>3, <3>4, CapturedStep
  <2>4. CASE "focusin" \notin TornDown(x, gone)
    <3>1. Wanting' = Wanting
      <4>1. handlers[x]["focusin"] = <<>> <=> Without(handlers[x]["focusin"], gone) = <<>>
        <5>1. handlers[x]["focusin"] = <<>> => Range(handlers[x]["focusin"]) = {}
          BY <1>1, <2>1, ListType, RangeIn
        <5> QED
          BY <1>3, <2>1, <2>4, <5>1 DEF TornDown
      <4> QED
        BY <1>4, <2>1, <4>1 DEF Wanting
    <3>2. attaches' = attaches + 0 /\ Cardinality(Wanting') = Cardinality(Wanting) + 0 /\ Cardinality(Wanting') \in Nat
      <4>1. attaches' = attaches /\ attaches \in Nat /\ Cardinality(Wanting) \in Nat
        BY <1>1, <1>2, <2>4, Wants DEF DataType
      <4> QED
        BY <3>1, <4>1
    <3>3. Captured /\ attaches \in Nat /\ 0 \in Int /\ 0 >= 0
      BY <1>1 DEF Data, DataType
    <3> QED
      BY <3>2, <3>3, CapturedStep
  <2> QED
    BY <2>3, <2>4
<1>9. DataType'
  BY <1>1, <1>6, <1>8 DEF DataType
<1> QED
  BY <1>4, <1>7, <1>8, <1>9, DataListsNext

\* cleanData() those of a set of nodes,
LEMMA DataClean ==
    ASSUME Data, calls' \in {calls, calls + 1}, calls' <= MaxCalls, NEW S \in SUBSET Nodes, CleanData(S),
           wrong \cup Cleaned(S) \subseteq wrong'
    PROVE  /\ Data'
           /\ \A y \in Nodes, k \in Keys : handlers'[y][k] = IF y \in S THEN <<>> ELSE handlers[y][k]
<1>1. DataType /\ MaxCalls \in Nat /\ calls \in Nat /\ calls' \in 0 .. MaxCalls /\ calls <= calls' /\ calls' \in Nat
  BY EventsAssumption DEF Data, DataType
<1>2. /\ \A y \in Nodes, k \in Keys : handlers'[y][k] = IF y \in S THEN <<>> ELSE handlers[y][k]
      /\ \A y \in Nodes, k \in Keys : delegates'[y][k] = IF y \in S THEN 0 ELSE delegates[y][k]
      /\ \A y \in Nodes : listener'[y] = IF y \in S THEN {} ELSE listener[y]
      /\ attaches' = attaches - Cardinality({x \in S : Quits(x)})
  BY DEF CleanData
<1>3. handlers' \in Lists /\ delegates' \in [Nodes -> [Keys -> Nat]] /\ listener' \in [Nodes -> SUBSET Keys]
  <2> DEFINE none == [k \in Keys |-> <<>>]
             zero == [k \in Keys |-> 0]
  <2>1. none \in [Keys -> Seq(Handlers)] /\ zero \in [Keys -> Nat]
    OBVIOUS
  <2>2. /\ handlers' = [x \in Nodes |-> IF x \in S THEN none ELSE handlers[x]]
        /\ delegates' = [x \in Nodes |-> IF x \in S THEN zero ELSE delegates[x]]
        /\ listener' = [x \in Nodes |-> IF x \in S THEN {} ELSE listener[x]]
    BY DEF CleanData
  <2> HIDE DEF none, zero
  <2> QED
    BY <1>1, <2>1, <2>2 DEF DataType, Lists
<1>4. ASSUME NEW y \in Nodes, NEW q \in Keys
      PROVE  /\ ListOK(handlers'[y][q], delegates'[y][q], q, calls')
             /\ q # "focusin" => ((q \in listener'[y]) <=> (handlers'[y][q] # <<>>))
  <2>1. handlers[y][q] \in Seq(Handlers) /\ ListOK(handlers[y][q], delegates[y][q], q, calls)
        /\ (q # "focusin" => ((q \in listener[y]) <=> (handlers[y][q] # <<>>)))
    BY <1>1, ListType, DataLists
  <2>2. ListOK(handlers[y][q], delegates[y][q], q, calls')
    BY <1>1, <2>1, ListGrows
  <2> QED
    BY <1>2, <2>1, <2>2, ListEmpty
<1>5. Captured' /\ attaches' \in Nat
  <2> DEFINE Q == {x \in S : Quits(x)}
             W == Wanting \cap S
  <2>1. "focusin" \in Keys
    BY DEF Keys
  <2>2. Wanting' = Wanting \ S
    BY <1>2, <2>1 DEF Wanting
  <2>3. Q \subseteq W
    BY DEF Quits, Wanting
  <2>4. IsFiniteSet(Wanting) /\ Cardinality(Wanting) \in Nat
    BY Wants
  <2>5. IsFiniteSet(W) /\ Cardinality(W) \in Nat /\ Cardinality(Q) \in Nat /\ Cardinality(Q) <= Cardinality(W)
    <3>1. W \subseteq Wanting
      OBVIOUS
    <3> HIDE DEF Q, W
    <3>2. IsFiniteSet(W) /\ IsFiniteSet(Q)
      BY <2>3, <2>4, <3>1, FS_Subset
    <3> QED
      BY <2>3, <3>2, FS_Subset, FS_CardinalityType
  <2>6. Cardinality(Wanting') = Cardinality(Wanting) - Cardinality(W) /\ Cardinality(Wanting') \in Nat
    <3>1. Cardinality(Wanting \ S) = Cardinality(Wanting) - Cardinality(Wanting \cap S)
      BY <2>4, FS_Difference
    <3>2. IsFiniteSet(Wanting \ S)
      BY <2>4, FS_Difference
    <3>3. Cardinality(Wanting \ S) \in Nat
      BY <3>2, FS_CardinalityType
    <3> QED
      BY <2>2, <3>1, <3>3
  <2>7. "cleaned a delegated focus" \notin wrong' => "cleaned a delegated focus" \notin wrong /\ Q = W
    <3> SUFFICES ASSUME "cleaned a delegated focus" \notin wrong'
                 PROVE  "cleaned a delegated focus" \notin wrong /\ Q = W
      OBVIOUS
    <3>1. \A x \in S : \A h \in Range(handlers[x]["focusin"]) : h.type # "focus"
      BY DEF Cleaned, Odd
    <3>2. ASSUME NEW x \in W
          PROVE  Quits(x)
      <4>1. x \in Nodes /\ x \in S /\ handlers[x]["focusin"] # <<>>
        BY DEF Wanting
      <4>2. ListOK(handlers[x]["focusin"], delegates[x]["focusin"], "focusin", calls)
        BY <2>1, <4>1, DataLists
      <4>3. \A h \in Range(handlers[x]["focusin"]) : Key(h.type, h.sel) = "focusin"
        <5>1. handlers[x]["focusin"] \in Seq(Handlers)
          BY <1>1, <2>1, <4>1, ListType
        <5>2. Range(handlers[x]["focusin"]) = {handlers[x]["focusin"][i] : i \in 1 .. Len(handlers[x]["focusin"])}
          BY <5>1, RangeIn
        <5> QED
          BY <4>2, <5>2 DEF ListOK
      <4>4. \A h \in Range(handlers[x]["focusin"]) : h.type = "focusin"
        BY <3>1, <4>1, <4>3 DEF Key
      <4> QED
        BY <4>1, <4>4 DEF Quits
    <3> QED
      BY <2>3, <3>2
  <2> DEFINE q == Cardinality(Q)
             w == Cardinality(W)
  <2>8. q \in Nat /\ w \in Nat /\ q <= w
    BY <2>5
  <2>9. attaches' = attaches - q /\ attaches \in Nat
    BY <1>1, <1>2 DEF DataType
  <2>10. "cleaned a delegated focus" \notin wrong' => "cleaned a delegated focus" \notin wrong /\ q = w
    BY <2>7
  <2>11. Cardinality(Wanting') = Cardinality(Wanting) - w
    BY <2>6
  <2> HIDE DEF Q, W, q, w
  <2>12. -q \in Int /\ -w \in Int /\ -q >= -w
    BY <2>8
  <2>13. attaches' = attaches + (-q)
    BY <2>8, <2>9
  <2>14. Cardinality(Wanting') = Cardinality(Wanting) + (-w)
    BY <2>4, <2>8, <2>11
  <2>15. "cleaned a delegated focus" \notin wrong' => "cleaned a delegated focus" \notin wrong /\ -q = -w
    BY <2>10
  <2>16. Captured /\ attaches \in Nat /\ Cardinality(Wanting') \in Nat
    BY <2>6, <2>9 DEF Data
  <2> QED
    BY <2>12, <2>13, <2>14, <2>15, <2>16, CapturedStep
<1>6. DataType'
  BY <1>1, <1>3, <1>5 DEF DataType
<1> QED
  BY <1>2, <1>4, <1>5, <1>6, DataListsNext

\* and clone() copies the lists of a node to the clone.
LEMMA DataClone ==
    ASSUME Data, Fresh, copyOf = None, calls' \in {calls, calls + 1}, calls' <= MaxCalls, NEW x \in Elems, CloneCopyEvent(x),
           wrong \subseteq wrong'
    PROVE  /\ Data'
           /\ \A y \in Nodes, k \in Keys : handlers'[y][k] = IF y = Copy THEN handlers[x][k] ELSE handlers[y][k]
<1>1. DataType /\ MaxCalls \in Nat /\ calls \in Nat /\ calls' \in 0 .. MaxCalls /\ calls <= calls' /\ calls' \in Nat
  BY EventsAssumption DEF Data, DataType
<1>2. x \in Nodes /\ x # Copy /\ Copy \in Nodes
  BY Constants, EventsAssumption
<1>3. /\ \A y \in Nodes : handlers'[y] = IF y = Copy THEN handlers[x] ELSE handlers[y]
      /\ \A y \in Nodes : delegates'[y] = IF y = Copy THEN delegates[x] ELSE delegates[y]
      /\ \A y \in Nodes : listener'[y] = IF y = Copy THEN {k \in Keys \ {"focusin"} : handlers[x][k] # <<>>} ELSE listener[y]
      /\ attaches' = IF handlers[x]["focusin"] # <<>> THEN attaches + 1 ELSE attaches
  BY <1>1, <1>2 DEF CloneCopyEvent, DataType, Lists
<1>4. handlers' \in Lists /\ delegates' \in [Nodes -> [Keys -> Nat]] /\ listener' \in [Nodes -> SUBSET Keys]
  <2>1. handlers[x] \in [Keys -> Seq(Handlers)] /\ delegates[x] \in [Keys -> Nat]
    BY <1>1, <1>2 DEF DataType, Lists
  <2> QED
    BY <1>1, <1>2, <2>1 DEF CloneCopyEvent, DataType, Lists
<1>5. ASSUME NEW y \in Nodes, NEW q \in Keys
      PROVE  /\ ListOK(handlers'[y][q], delegates'[y][q], q, calls')
             /\ q # "focusin" => ((q \in listener'[y]) <=> (handlers'[y][q] # <<>>))
  <2> DEFINE z == IF y = Copy THEN x ELSE y
  <2>1. z \in Nodes /\ handlers'[y][q] = handlers[z][q] /\ delegates'[y][q] = delegates[z][q]
    BY <1>2, <1>3
  <2>2. handlers[z][q] \in Seq(Handlers) /\ ListOK(handlers[z][q], delegates[z][q], q, calls)
        /\ (q # "focusin" => ((q \in listener[y]) <=> (handlers[y][q] # <<>>)))
    BY <1>1, <2>1, ListType, DataLists
  <2>3. ListOK(handlers[z][q], delegates[z][q], q, calls')
    BY <1>1, <2>2, ListGrows
  <2> QED
    BY <1>3, <2>1, <2>2, <2>3
<1>6. Captured' /\ attaches' \in Nat
  <2>1. "focusin" \in Keys /\ Copy \notin Wanting
    BY DEF Keys, Wanting, Fresh
  <2>2. Wanting' = IF handlers[x]["focusin"] # <<>> THEN Wanting \cup {Copy} ELSE Wanting
    BY <1>2, <1>3, <2>1 DEF Wanting
  <2>3. Captured /\ attaches \in Nat /\ IsFiniteSet(Wanting) /\ Cardinality(Wanting) \in Nat
    BY <1>1, Wants DEF Data, DataType
  <2>4. CASE handlers[x]["focusin"] # <<>>
    <3>1. attaches' = attaches + 1 /\ Cardinality(Wanting') = Cardinality(Wanting) + 1
      BY <1>3, <2>1, <2>2, <2>3, <2>4, FS_AddElement
    <3>2. Cardinality(Wanting') \in Nat /\ 1 \in Int /\ 1 >= 1
      BY <2>3, <3>1
    <3> QED
      BY <2>3, <3>1, <3>2, CapturedStep
  <2>5. CASE handlers[x]["focusin"] = <<>>
    <3>1. attaches' = attaches + 0 /\ Cardinality(Wanting') = Cardinality(Wanting) + 0
      BY <1>3, <2>2, <2>3, <2>5
    <3>2. Cardinality(Wanting') \in Nat /\ 0 \in Int /\ 0 >= 0
      BY <2>3, <3>1
    <3> QED
      BY <2>3, <3>1, <3>2, CapturedStep
  <2> QED
    BY <2>4, <2>5
<1>7. DataType'
  BY <1>1, <1>4, <1>6 DEF DataType
<1>8. \A y \in Nodes, k \in Keys : handlers'[y][k] = IF y = Copy THEN handlers[x][k] ELSE handlers[y][k]
  BY <1>3
<1> QED
  BY <1>5, <1>6, <1>7, <1>8, DataListsNext

(***************************************************************************)
(* What the sequences of steps are made of that a call or an event puts on *)
(* the agenda, and that no step of them comes twice.                       *)
(***************************************************************************)

-----------------------------------------------------------------------------
(***************************************************************************)
(* What is put on the agenda.                                              *)
(***************************************************************************)

IsTree == parent \in Parents /\ Rooted(parent)

\* The first elements of a sequence and the last.
LEMMA Prefix ==
    ASSUME NEW T, NEW s \in Seq(T), NEW n \in Int, n <= Len(s)
    PROVE  /\ SubSeq(s, 1, n) \in Seq(T) /\ Len(SubSeq(s, 1, n)) \in Nat /\ Len(SubSeq(s, 1, n)) <= Len(s)
           /\ n >= 0 => Len(SubSeq(s, 1, n)) = n
           /\ \A i \in 1 .. Len(SubSeq(s, 1, n)) : i \in 1 .. Len(s) /\ SubSeq(s, 1, n)[i] = s[i]
<1>1. CASE n >= 0
  BY <1>1
<1>2. CASE n < 0
  <2>1. SubSeq(s, 1, n) = <<>>
    BY <1>2
  <2> QED
    BY <1>2, <2>1
<1> QED
  BY <1>1, <1>2

LEMMA Suffix ==
    ASSUME NEW T, NEW s \in Seq(T), NEW n \in Nat, n <= Len(s)
    PROVE  /\ SubSeq(s, n + 1, Len(s)) \in Seq(T) /\ Len(SubSeq(s, n + 1, Len(s))) = Len(s) - n
           /\ \A i \in 1 .. Len(s) - n : n + i \in 1 .. Len(s) /\ SubSeq(s, n + 1, Len(s))[i] = s[n + i]
OBVIOUS

Distinct(s) == \A i, j \in 1 .. Len(s) : s[i] = s[j] => i = j

\* What has no element twice has none twice when some are left out.
LEMMA WithoutDistinct ==
    ASSUME NEW T, NEW s \in Seq(T), NEW gone
    PROVE  /\ Without(s, gone) \in Seq(T)
           /\ \A i \in 1 .. Len(Without(s, gone)) : Without(s, gone)[i] \notin gone
                                                 /\ \E j \in 1 .. Len(s) : Without(s, gone)[i] = s[j]
           /\ Distinct(s) => Distinct(Without(s, gone))
<1> DEFINE w == Without(s, gone)
<1>1. w \in Seq(T) /\ Len(w) \in Nat /\ Len(s) \in Nat
  BY WithoutEmbeds
<1>2. PICK e : Embeds(e, w, s, gone)
  BY WithoutEmbeds
<1> HIDE DEF w
<1>3. /\ e \in [1 .. Len(w) -> 1 .. Len(s)]
      /\ \A n \in 1 .. Len(w) : w[n] = s[e[n]] /\ s[e[n]] \notin gone
      /\ \A m, n \in 1 .. Len(w) : m < n => e[m] < e[n]
  BY <1>2 DEF Embeds
<1>4. ASSUME Distinct(s), NEW i \in 1 .. Len(w), NEW j \in 1 .. Len(w), w[i] = w[j]
      PROVE  i = j
  <2>1. e[i] = e[j] /\ e[i] \in Nat
    BY <1>1, <1>3, <1>4 DEF Distinct
  <2>2. ~(i < j) /\ ~(j < i)
    BY <1>3, <2>1
  <2> QED
    BY <1>1, <2>2
<1>5. \A i \in 1 .. Len(w) : w[i] \notin gone /\ \E j \in 1 .. Len(s) : w[i] = s[j]
  BY <1>3
<1> QED
  BY <1>1, <1>4, <1>5 DEF w, Distinct

\* The way up from a node of the document.
LEMMA PathFacts ==
    ASSUME IsTree, NEW x \in Nodes
    PROVE  Path(x) \in Seq(Nodes) /\ Distinct(Path(x)) /\ Len(Path(x)) \in Nat /\ Len(Path(x)) >= 1
<1>1. IsWay(Path(x), parent, x)
  BY PathIsWay DEF IsTree
<1>2. Path(x) \in Seq(Nodes) /\ Len(Path(x)) \in Nat /\ Len(Path(x)) >= 1
  BY <1>1 DEF IsWay
<1>3. \A j \in 1 .. Len(Path(x)) : \A i \in 1 .. j - 1 : Path(x)[i] # Path(x)[j]
  BY <1>1, WayDistinct DEF IsTree
<1>4. ASSUME NEW i \in 1 .. Len(Path(x)), NEW j \in 1 .. Len(Path(x)), Path(x)[i] = Path(x)[j]
      PROVE  i = j
  <2>1. ~(i < j)
    <3>1. i < j => i \in 1 .. j - 1
      BY <1>2
    <3> QED
      BY <1>3, <1>4, <3>1
  <2>2. ~(j < i)
    <3>1. j < i => j \in 1 .. i - 1
      BY <1>2
    <3> QED
      BY <1>3, <1>4, <3>1
  <2> QED
    BY <1>2, <2>1, <2>2
<1> QED
  BY <1>2, <1>4 DEF Distinct

\* Fires is one step for each node of the way.
LEMMA FiresFacts ==
    ASSUME NEW ev, NEW x, NEW path, NEW key, path \in Seq(Nodes)
    PROVE  /\ Len(Fires(ev, x, path, key)) = Len(path) /\ Len(path) \in Nat
           /\ \A i \in 1 .. Len(path) : Fires(ev, x, path, key)[i] = Do("fire", ev, x, path[i], key, None) /\ path[i] \in Nodes
           /\ \A T : (\A y \in Nodes : Do("fire", ev, x, y, key, None) \in T) => Fires(ev, x, path, key) \in Seq(T)
BY DEF Fires

ClickStep(ev, x, s) ==
    \E y \in Nodes : s = Do("page", ev, x, y, "plain", None) \/ s = Do("deliver", ev, x, y, "click", None)

\* Two steps in a row.
LEMMA Couple ==
    ASSUME NEW a, NEW b
    PROVE  <<a>> \o <<b>> = <<a, b>>
<1> DEFINE u == <<a>>
           v == <<b>>
           w == <<a, b>>
           T == {a, b}
<1>1. u \in Seq(T) /\ v \in Seq(T) /\ w \in Seq(T) /\ Len(u) = 1 /\ Len(v) = 1 /\ Len(w) = 2 /\ u[1] = a /\ v[1] = b /\ w[1] = a /\ w[2] = b
  OBVIOUS
<1> HIDE DEF u, v, w, T
<1>2. u \o v \in Seq(T) /\ Len(u \o v) = 2 /\ (u \o v)[1] = a /\ (u \o v)[2] = b
  BY <1>1
<1>3. \A i \in 1 .. 2 : (u \o v)[i] = w[i]
  <2>1. \A i \in 1 .. 2 : i = 1 \/ i = 2
    OBVIOUS
  <2> QED
    BY <1>1, <1>2, <2>1
<1>4. u \o v = w
  BY <1>1, <1>2, <1>3
<1> QED
  BY <1>4 DEF u, v, w

\* A native click reaches each node of the way once.
LEMMA ClickFacts ==
    ASSUME IsTree, NEW ev, NEW x \in Nodes
    PROVE  /\ \A T : (\A s : ClickStep(ev, x, s) => s \in T) => NativeClick(ev, x) \in Seq(T)
           /\ Len(NativeClick(ev, x)) \in Nat
           /\ \A i \in 1 .. Len(NativeClick(ev, x)) : ClickStep(ev, x, NativeClick(ev, x)[i])
           /\ \A i, j \in 1 .. Len(NativeClick(ev, x)) :
                 /\ NativeClick(ev, x)[i].do = "deliver" /\ NativeClick(ev, x)[j].do = "deliver"
                 /\ NativeClick(ev, x)[i].at = NativeClick(ev, x)[j].at
                 => i = j
<1> DEFINE p == Path(x)
           n == Len(p)
           pg(y) == Do("page", ev, x, y, "plain", None)
           dl(y) == Do("deliver", ev, x, y, "click", None)
           part(y) == (IF y \in Plain THEN <<pg(y)>> ELSE <<>>) \o <<dl(y)>>
           ss == [i \in 1 .. n |-> part(p[i])]
           C == {s \in {pg(y) : y \in Nodes} \cup {dl(y) : y \in Nodes} : TRUE}
           u == NativeClick(ev, x)
<1>1. p \in Seq(Nodes) /\ Distinct(p) /\ n \in Nat /\ \A i \in 1 .. n : p[i] \in Nodes
  BY PathFacts
<1>2. u = FlattenSeq(ss)
  BY DEF NativeClick
<1>3. \A y \in Nodes : /\ part(y) \in Seq(C) /\ Len(part(y)) \in Nat
                       /\ \A i \in 1 .. Len(part(y)) : part(y)[i] \in {pg(y), dl(y)} /\ (part(y)[i] = dl(y) => i = Len(part(y)))
  <2> SUFFICES ASSUME NEW y \in Nodes
               PROVE  /\ part(y) \in Seq(C) /\ Len(part(y)) \in Nat
                      /\ \A i \in 1 .. Len(part(y)) : part(y)[i] \in {pg(y), dl(y)} /\ (part(y)[i] = dl(y) => i = Len(part(y)))
    OBVIOUS
  <2>1. pg(y) \in C /\ dl(y) \in C /\ pg(y) # dl(y)
    BY DEF Do
  <2>2. CASE y \in Plain
    <3>1. part(y) = <<pg(y)>> \o <<dl(y)>>
      BY <2>2
    <3>2. part(y) = <<pg(y), dl(y)>>
      BY <3>1, Couple
    <3> HIDE DEF pg, dl, part, C
    <3> QED
      BY <2>1, <3>2
  <2>3. CASE y \notin Plain
    <3>1. part(y) = <<dl(y)>>
      BY <2>3
    <3> HIDE DEF pg, dl, part, C
    <3> QED
      BY <2>1, <3>1
  <2> QED
    BY <2>2, <2>3
<1> HIDE DEF part, u, p, n
<1>4. ss \in [1 .. n -> Seq(C)]
  BY <1>1, <1>3
<1>5. u \in Seq(C) /\ \E blk, off : Parts(u, ss, n, blk, off)
  <2> HIDE DEF C, ss
  <2> QED
    BY <1>1, <1>2, <1>4, Flattened
<1>6. PICK blk, off : Parts(u, ss, n, blk, off)
  BY <1>5
<1>7. \A i \in 1 .. n : ss[i] = part(p[i])
  OBVIOUS
<1> HIDE DEF ss
<1>8. Len(u) \in Nat /\ \A i \in 1 .. Len(u) : u[i] \in C
  <2> HIDE DEF C
  <2> QED
    BY <1>5
<1>9. ASSUME NEW i \in 1 .. Len(u)
      PROVE  /\ blk[i] \in 1 .. n /\ p[blk[i]] \in Nodes /\ u[i] \in {pg(p[blk[i]]), dl(p[blk[i]])}
             /\ (u[i] = dl(p[blk[i]]) => off[i] = Len(part(p[blk[i]])))
  <2>1. blk[i] \in 1 .. n /\ off[i] \in 1 .. Len(ss[blk[i]]) /\ u[i] = ss[blk[i]][off[i]]
    BY <1>6 DEF Parts
  <2>2. ss[blk[i]] = part(p[blk[i]]) /\ p[blk[i]] \in Nodes
    BY <1>1, <1>7, <2>1
  <2> HIDE DEF pg, dl, C
  <2> QED
    BY <1>3, <2>1, <2>2
<1>10. \A i \in 1 .. Len(u) : ClickStep(ev, x, u[i])
  BY <1>9 DEF ClickStep
<1>11. ASSUME NEW i \in 1 .. Len(u), NEW j \in 1 .. Len(u), u[i].do = "deliver", u[j].do = "deliver", u[i].at = u[j].at
       PROVE  i = j
  <2>1. \A y : pg(y).do = "page" /\ dl(y).at = y
    BY DEF Do
  <2>2. u[i] = dl(p[blk[i]]) /\ u[j] = dl(p[blk[j]])
    BY <1>9, <1>11, <2>1
  <2>3. p[blk[i]] = p[blk[j]]
    BY <1>11, <2>1, <2>2
  <2>4. blk[i] = blk[j]
    BY <1>1, <1>9, <2>3 DEF Distinct, n
  <2>5. off[i] = off[j] /\ off[i] \in Nat /\ blk[i] \in Nat
    <3>1. off[i] = Len(part(p[blk[i]])) /\ off[j] = Len(part(p[blk[j]])) /\ off[i] \in Nat
      <4>1. off \in [1 .. Len(u) -> Nat]
        BY <1>6 DEF Parts
      <4> QED
        BY <1>9, <2>2, <4>1
    <3> QED
      BY <1>1, <1>9, <2>4, <3>1
  <2>6. ~(i < j) /\ ~(j < i)
    <3>1. \A k, l \in 1 .. Len(u) : k < l => blk[k] < blk[l] \/ (blk[k] = blk[l] /\ off[k] < off[l])
      BY <1>6 DEF Parts
    <3> HIDE DEF pg, dl, C
    <3> QED
      BY <2>4, <2>5, <3>1
  <2> QED
    BY <1>8, <2>6
<1>12. ASSUME NEW T, \A s : ClickStep(ev, x, s) => s \in T
       PROVE  u \in Seq(T)
  <2>1. \A i \in 1 .. Len(u) : u[i] \in T
    BY <1>10, <1>12
  <2> HIDE DEF C
  <2> QED
    BY <1>5, <1>8, <2>1
<1> QED
  BY <1>8, <1>10, <1>11, <1>12 DEF u

QueueStep(ev, to, type, s) ==
    \E y \in Nodes : \E i \in 1 .. Len(handlers[to][type]) : s = Do("run", ev, to, y, type, handlers[to][type][i])

\* jQuery.event.handlers walks up without meeting a node twice,
LEMMA WalkFacts ==
    ASSUME IsTree, NEW x \in Nodes, NEW to \in Nodes
    PROVE  Walk(x, to) \in Seq(Nodes) /\ Distinct(Walk(x, to)) /\ Len(Walk(x, to)) \in Nat
<1> DEFINE p == Path(x)
           n == Len(p) - Len(Path(to))
           s == SubSeq(p, 1, n)
<1>1. p \in Seq(Nodes) /\ Distinct(p) /\ Len(p) \in Nat
  BY PathFacts
<1>2. n \in Int /\ n <= Len(p)
  BY <1>1, PathFacts
<1> HIDE DEF n, p
<1>3. s \in Seq(Nodes) /\ Len(s) \in Nat /\ \A i \in 1 .. Len(s) : i \in 1 .. Len(p) /\ s[i] = p[i]
  BY <1>1, <1>2, Prefix
<1> HIDE DEF s
<1>4. Distinct(s)
  BY <1>1, <1>3 DEF Distinct
<1>5. Walk(x, to) = s \/ Walk(x, to) = p
  BY DEF Walk, s, p, n
<1> QED
  BY <1>1, <1>3, <1>4, <1>5

\* so that no handler is put in the queue twice for the same element.
LEMMA QueueFacts ==
    ASSUME IsTree, NEW ev, NEW x \in Nodes, NEW type \in Keys, NEW to \in Nodes, NEW n,
           handlers[to][type] \in Seq(Handlers), delegates[to][type] \in Nat,
           ListOK(handlers[to][type], delegates[to][type], type, n)
    PROVE  LET u == HandlerQueue(Event(ev, x, type), to)
           IN  /\ \A T : (\A s : QueueStep(ev, to, type, s) => s \in T) => u \in Seq(T)
               /\ Len(u) \in Nat
               /\ \A i \in 1 .. Len(u) : QueueStep(ev, to, type, u[i])
               /\ Distinct(u)
<1> DEFINE list == handlers[to][type]
           count == delegates[to][type]
           delegated == SubSeq(list, 1, count)
           rest == SubSeq(list, count + 1, Len(list))
           cur == Walk(x, to)
           m == Len(cur)
           run(y, h) == Do("run", ev, to, y, type, h)
           left(y) == Without(delegated, {h \in Range(delegated) : ~Matching(h.sel, y)})
           part(y) == [j \in 1 .. Len(left(y)) |-> run(y, left(y)[j])]
           ss == [i \in 1 .. m |-> part(cur[i])]
           f == FlattenSeq(ss)
           d == [j \in 1 .. Len(rest) |-> run(to, rest[j])]
           C == {run(y, h) : y \in Nodes, h \in Handlers}
           u == HandlerQueue(Event(ev, x, type), to)
<1>1. Event(ev, x, type).ev = ev /\ Event(ev, x, type).target = x /\ Event(ev, x, type).type = type
  BY DEF Event
<1>2. u = f \o d
  BY <1>1 DEF HandlerQueue, Runs
<1>3. list \in Seq(Handlers) /\ count \in Nat /\ Len(list) \in Nat /\ count <= Len(list)
  BY DEF ListOK
<1>4. \A i, j \in 1 .. Len(list) : list[i] = list[j] => i = j
  BY DEF ListOK
<1>5. cur \in Seq(Nodes) /\ Distinct(cur) /\ m \in Nat /\ \A i \in 1 .. m : cur[i] \in Nodes
  <2>1. cur \in Seq(Nodes) /\ Distinct(cur) /\ m \in Nat
    BY WalkFacts
  <2> HIDE DEF cur
  <2> QED
    BY <2>1
<1> HIDE DEF list, count, cur, u
<1>6. /\ delegated \in Seq(Handlers) /\ Len(delegated) = count
      /\ \A i \in 1 .. count : i \in 1 .. Len(list) /\ delegated[i] = list[i]
  BY <1>3, Prefix
<1>7. /\ rest \in Seq(Handlers) /\ Len(rest) = Len(list) - count
      /\ \A i \in 1 .. Len(list) - count : count + i \in 1 .. Len(list) /\ rest[i] = list[count + i]
  BY <1>3, Suffix
<1> HIDE DEF delegated, rest
<1>8. Distinct(delegated)
  BY <1>4, <1>6 DEF Distinct
<1>9. ASSUME NEW y \in Nodes
      PROVE  /\ left(y) \in Seq(Handlers) /\ Len(left(y)) \in Nat /\ Distinct(left(y))
             /\ \A j \in 1 .. Len(left(y)) : \E i \in 1 .. count : left(y)[j] = list[i]
  <2>1. /\ left(y) \in Seq(Handlers) /\ Distinct(left(y))
        /\ \A j \in 1 .. Len(left(y)) : \E i \in 1 .. Len(delegated) : left(y)[j] = delegated[i]
    <3> DEFINE gone == {h \in Range(delegated) : ~Matching(h.sel, y)}
    <3>1. left(y) = Without(delegated, gone)
      OBVIOUS
    <3> HIDE DEF gone, left
    <3>2. /\ Without(delegated, gone) \in Seq(Handlers)
          /\ \A i \in 1 .. Len(Without(delegated, gone)) : \E j \in 1 .. Len(delegated) : Without(delegated, gone)[i] = delegated[j]
          /\ Distinct(Without(delegated, gone))
      BY <1>6, <1>8, WithoutDistinct
    <3> QED
      BY <3>1, <3>2
  <2> HIDE DEF left
  <2> QED
    BY <1>6, <2>1
<1> HIDE DEF left
<1>10. ASSUME NEW y \in Nodes
       PROVE  /\ part(y) \in Seq(C) /\ Len(part(y)) = Len(left(y))
              /\ \A j \in 1 .. Len(left(y)) : part(y)[j] = run(y, left(y)[j]) /\ left(y)[j] \in Handlers
  <2>1. \A j \in 1 .. Len(left(y)) : left(y)[j] \in Handlers
    BY <1>9
  <2> HIDE DEF run
  <2> QED
    BY <1>9, <2>1
<1>11. /\ \A i \in 1 .. m : ss[i] = part(cur[i])
       /\ ss \in [1 .. m -> Seq(C)]
  <2> HIDE DEF C, part
  <2> QED
    BY <1>5, <1>10
<1> HIDE DEF part, ss
<1>12. f \in Seq(C) /\ \E blk, off : Parts(f, ss, m, blk, off)
  <2> HIDE DEF C
  <2> QED
    BY <1>5, <1>11, Flattened
<1>13. PICK blk, off : Parts(f, ss, m, blk, off)
  BY <1>12
<1> HIDE DEF f, m
<1>14. ASSUME NEW i \in 1 .. Len(f)
       PROVE  /\ blk[i] \in 1 .. m /\ cur[blk[i]] \in Nodes /\ off[i] \in 1 .. Len(left(cur[blk[i]]))
              /\ f[i] = run(cur[blk[i]], left(cur[blk[i]])[off[i]])
              /\ \E q \in 1 .. count : left(cur[blk[i]])[off[i]] = list[q]
  <2>1. blk[i] \in 1 .. m /\ off[i] \in 1 .. Len(ss[blk[i]]) /\ f[i] = ss[blk[i]][off[i]]
    BY <1>13 DEF Parts
  <2>2. ss[blk[i]] = part(cur[blk[i]]) /\ cur[blk[i]] \in Nodes
    BY <1>5, <1>11, <2>1
  <2> DEFINE z == cur[blk[i]]
             o == off[i]
  <2>3. z \in Nodes /\ o \in 1 .. Len(part(z)) /\ f[i] = part(z)[o]
    BY <2>1, <2>2
  <2>4. Len(part(z)) = Len(left(z)) /\ \A k \in 1 .. Len(left(z)) : part(z)[k] = run(z, left(z)[k])
    <3> HIDE DEF z, run, C
    <3> QED
      BY <1>10, <2>3
  <2> HIDE DEF run, z, o
  <2>5. o \in 1 .. Len(left(z)) /\ f[i] = run(z, left(z)[o])
    BY <2>3, <2>4
  <2>6. \E q \in 1 .. count : left(z)[o] = list[q]
    BY <1>9, <2>3, <2>5
  <2> QED
    BY <2>1, <2>3, <2>5, <2>6 DEF z, o
<1>15. /\ d \in Seq(C) /\ Len(d) = Len(list) - count
       /\ \A j \in 1 .. Len(list) - count : d[j] = run(to, rest[j]) /\ rest[j] = list[count + j] /\ count + j \in 1 .. Len(list)
  <2>1. \A j \in 1 .. Len(rest) : run(to, rest[j]) \in C
    BY <1>7
  <2> HIDE DEF run, C
  <2> QED
    BY <1>7, <2>1
<1> HIDE DEF d
<1>16. /\ f \in Seq(C) /\ d \in Seq(C) /\ u \in Seq(C) /\ Len(u) = Len(f) + Len(d) /\ Len(f) \in Nat /\ Len(d) \in Nat
       /\ \A i \in 1 .. Len(f) : u[i] = f[i]
       /\ \A i \in 1 .. Len(u) : i \notin 1 .. Len(f) => i - Len(f) \in 1 .. Len(d) /\ u[i] = d[i - Len(f)]
  <2> HIDE DEF C
  <2> QED
    BY <1>2, <1>12, <1>15, Concat
<1> HIDE DEF C
<1>17. ASSUME NEW i \in 1 .. Len(u)
       PROVE  \/ /\ i \in 1 .. Len(f)
                 /\ \E q \in 1 .. count : q \in 1 .. Len(list) /\ u[i] = run(cur[blk[i]], list[q])
                 /\ cur[blk[i]] \in Nodes
              \/ /\ i \notin 1 .. Len(f)
                 /\ count + (i - Len(f)) \in 1 .. Len(list) /\ i - Len(f) >= 1
                 /\ u[i] = run(to, list[count + (i - Len(f))])
  <2>1. CASE i \in 1 .. Len(f)
    <3>1. u[i] = f[i]
      BY <1>16, <2>1
    <3>2. \A q \in 1 .. count : q \in 1 .. Len(list)
      BY <1>6
    <3> HIDE DEF run
    <3> QED
      BY <1>14, <2>1, <3>1, <3>2
  <2>2. CASE i \notin 1 .. Len(f)
    <3>1. i - Len(f) \in 1 .. Len(d) /\ u[i] = d[i - Len(f)] /\ i - Len(f) >= 1
      BY <1>16, <2>2
    <3> HIDE DEF run
    <3> QED
      BY <1>15, <2>2, <3>1
  <2> QED
    BY <2>1, <2>2
<1>18. \A i \in 1 .. Len(u) : QueueStep(ev, to, type, u[i])
  BY <1>17 DEF QueueStep, list
<1>19. \A y, h, z, g : run(y, h) = run(z, g) => y = z /\ h = g
  BY DEF Do
<1> HIDE DEF run
<1>20. ASSUME NEW i \in 1 .. Len(u), NEW j \in 1 .. Len(u), u[i] = u[j]
       PROVE  i = j
  <2>1. CASE i \in 1 .. Len(f) /\ j \in 1 .. Len(f)
    <3>1. run(cur[blk[i]], left(cur[blk[i]])[off[i]]) = run(cur[blk[j]], left(cur[blk[j]])[off[j]])
      BY <1>14, <1>16, <1>20, <2>1
    <3>2. cur[blk[i]] = cur[blk[j]] /\ left(cur[blk[i]])[off[i]] = left(cur[blk[j]])[off[j]]
      BY <1>19, <3>1
    <3>3. blk[i] = blk[j]
      BY <1>5, <1>14, <2>1, <3>2 DEF Distinct, m
    <3>4. off[i] = off[j]
      <4> DEFINE l == left(cur[blk[i]])
      <4>1. off[i] \in 1 .. Len(l) /\ off[j] \in 1 .. Len(l) /\ l[off[i]] = l[off[j]]
        BY <1>14, <2>1, <3>2, <3>3
      <4>2. Distinct(l)
        BY <1>9, <1>14, <2>1
      <4> QED
        BY <4>1, <4>2 DEF Distinct
    <3>5. off[i] \in Nat /\ blk[i] \in Nat
      BY <1>5, <1>13, <2>1 DEF Parts, m
    <3>6. \A k, l \in 1 .. Len(f) : k < l => blk[k] < blk[l] \/ (blk[k] = blk[l] /\ off[k] < off[l])
      BY <1>13 DEF Parts
    <3>7. ~(i < j) /\ ~(j < i)
      BY <2>1, <3>3, <3>4, <3>5, <3>6
    <3> QED
      BY <1>16, <3>7
  <2>2. CASE i \notin 1 .. Len(f) /\ j \notin 1 .. Len(f)
    <3>1. list[count + (i - Len(f))] = list[count + (j - Len(f))]
          /\ count + (i - Len(f)) \in 1 .. Len(list) /\ count + (j - Len(f)) \in 1 .. Len(list)
      BY <1>17, <1>19, <1>20, <2>2
    <3>2. count + (i - Len(f)) = count + (j - Len(f))
      BY <1>4, <3>1
    <3> QED
      BY <1>3, <1>16, <3>2
  <2>3. ASSUME NEW k \in 1 .. Len(u), NEW l \in 1 .. Len(u), k \in 1 .. Len(f), l \notin 1 .. Len(f), u[k] = u[l]
        PROVE  FALSE
    <3>1. PICK q \in 1 .. count : q \in 1 .. Len(list) /\ u[k] = run(cur[blk[k]], list[q])
      BY <1>17, <2>3
    <3>2. count + (l - Len(f)) \in 1 .. Len(list) /\ l - Len(f) >= 1 /\ u[l] = run(to, list[count + (l - Len(f))])
      BY <1>17, <2>3
    <3>3. q = count + (l - Len(f))
      <4>1. list[q] = list[count + (l - Len(f))]
        <5>1. run(cur[blk[k]], list[q]) = run(to, list[count + (l - Len(f))])
          BY <2>3, <3>1, <3>2
        <5> QED
          BY <1>19, <5>1
      <4> QED
        BY <1>4, <3>1, <3>2, <4>1
    <3> QED
      BY <1>3, <1>16, <3>2, <3>3
  <2> QED
    BY <1>20, <2>1, <2>2, <2>3
<1>21. ASSUME NEW T, \A s : QueueStep(ev, to, type, s) => s \in T
       PROVE  u \in Seq(T)
  <2>1. \A i \in 1 .. Len(u) : u[i] \in T
    BY <1>18, <1>21
  <2> QED
    BY <1>16, <2>1
<1> QED
  BY <1>16, <1>18, <1>20, <1>21 DEF u, Distinct

(***************************************************************************)
(* The agenda. Fits is what TypeOK and Prepared ask of a step, Ones those  *)
(* of one event.                                                           *)
(***************************************************************************)

-----------------------------------------------------------------------------
(***************************************************************************)
(* The type of the agenda.                                                 *)
(***************************************************************************)

Fits(n, c) ==
    {s \in Steps :
        /\ s.ev <= n
        /\ (s.do = "evaluate" \/ (s.do = "page" /\ s.key = "script")) <=> (s.ev = 0)
        /\ s.do \in {"fire", "deliver"} => s.at # None /\ s.key \in Keys
        /\ s.do \in {"default", "end"} => s.key \in {"click", "focus"}
        /\ s.do = "run" => s.at # None /\ s.h \in Handlers /\ s.key = Key(s.h.type, s.h.sel)
        /\ s.do = "evaluate" => (IF s.node = Copy THEN c ELSE s.node) = Script}

AgendaOK == agenda \in Seq(Fits(calls, copyOf))

\* The agenda has the steps that TypeOK and Prepared allow.
LEMMA AgendaFits == agenda \in Seq(Steps) /\ Prepared <=> AgendaOK
<1>1. ASSUME agenda \in Seq(Steps), Prepared
      PROVE  AgendaOK
  <2>1. \A i \in 1 .. Len(agenda) : agenda[i] \in Fits(calls, copyOf)
    BY <1>1 DEF Prepared, Fits, IsScript, Original
  <2> QED
    BY <1>1, <2>1 DEF AgendaOK
<1>2. ASSUME AgendaOK
      PROVE  agenda \in Seq(Steps) /\ Prepared
  <2>1. \A i \in 1 .. Len(agenda) : agenda[i] \in Fits(calls, copyOf)
    BY <1>2 DEF AgendaOK
  <2>2. agenda \in Seq(Steps)
    <3>1. Fits(calls, copyOf) \subseteq Steps
      BY DEF Fits
    <3> HIDE DEF Fits
    <3>2. \A i \in 1 .. Len(agenda) : agenda[i] \in Steps
      BY <2>1, <3>1
    <3> QED
      BY <1>2, <3>2 DEF AgendaOK
  <2>3. Prepared
    BY <2>1 DEF Prepared, Fits, IsScript, Original
  <2> QED
    BY <2>2, <2>3
<1> QED
  BY <1>1, <1>2

\* What fits goes on to fit,
LEMMA FitsGrow ==
    ASSUME NEW n \in Nat, NEW m \in Nat, n <= m, NEW c, NEW d, c = None \/ c = d, NEW s \in Seq(Fits(n, c))
    PROVE  s \in Seq(Fits(m, d))
<1>1. Fits(n, c) \subseteq Fits(m, d)
  <2>1. \A t \in Steps : t.ev \in Nat
    BY EventsAssumption DEF Steps
  <2>2. None # Script
    BY Constants
  <2> QED
    BY <2>1, <2>2 DEF Fits
<1>2. \A i \in 1 .. Len(s) : s[i] \in Fits(m, d)
  BY <1>1
<1> QED
  BY <1>2

\* and these steps do.
LEMMA StepFits ==
    ASSUME NEW n \in Nat, n <= MaxCalls, NEW c, NEW x \in Nodes, NEW y \in Nodes
    PROVE  /\ \A ev \in 1 .. n, k \in Keys :
                 /\ Do("fire", ev, x, y, k, None) \in Fits(n, c)
                 /\ Do("deliver", ev, x, y, k, None) \in Fits(n, c)
                 /\ \A h \in Handlers : k = Key(h.type, h.sel) => Do("run", ev, x, y, k, h) \in Fits(n, c)
           /\ \A ev \in 1 .. n : Do("page", ev, x, y, "plain", None) \in Fits(n, c)
           /\ \A ev \in 1 .. n, h \in Handlers : Do("page", ev, x, y, "handler", h) \in Fits(n, c)
           /\ \A ev \in 1 .. n, k \in {"click", "focus"} :
                 /\ Do("default", ev, x, y, k, None) \in Fits(n, c)
                 /\ Do("end", ev, x, y, k, None) \in Fits(n, c)
                 /\ Do("capture", ev, x, y, k, None) \in Fits(n, c)
           /\ Do("page", 0, x, y, "script", None) \in Fits(n, c)
           /\ (IF x = Copy THEN c ELSE x) = Script => Do("evaluate", 0, x, None, "script", None) \in Fits(n, c)
<1>1. MaxCalls \in Nat /\ y # None /\ {"click", "focus"} \subseteq Keys
      /\ \A k \in Keys : k \notin {"handler", "plain", "script"}
  BY EventsAssumption, Constants DEF Keys
<1>2. \A what, ev, at, k, h :
        /\ what \in {"fire", "deliver", "capture", "run", "page", "default", "end", "evaluate"} /\ ev \in 0 .. n
        /\ at \in Nodes \cup {None} /\ k \in Keys \cup {"handler", "plain", "script"} /\ h \in Handlers \cup {None}
        => Do(what, ev, x, at, k, h) \in Steps
  BY <1>1 DEF Do, Steps
<1>3. \A what, ev, at, k, h : LET s == Do(what, ev, x, at, k, h)
                              IN  s.do = what /\ s.ev = ev /\ s.node = x /\ s.at = at /\ s.key = k /\ s.h = h
  BY DEF Do
<1>4. \A ev \in 1 .. n : ev \in 0 .. n /\ ev <= n /\ ev # 0
  OBVIOUS
<1>5. 0 \in 0 .. n /\ 0 <= n
  OBVIOUS
<1> QED
  BY <1>1, <1>2, <1>3, <1>4, <1>5 DEF Fits

\* the steps of one event
Ones(n, c, ev) == {s \in Fits(n, c) : s.ev = ev}

\* Steps of one event.
LEMMA OnesFit ==
    ASSUME NEW n, NEW c, NEW ev, NEW s \in Seq(Ones(n, c, ev))
    PROVE  s \in Seq(Fits(n, c)) /\ \A i \in 1 .. Len(s) : s[i].ev = ev /\ s[i] \in Fits(n, c)
<1>1. \A i \in 1 .. Len(s) : s[i] \in Ones(n, c, ev)
  OBVIOUS
<1>2. \A t \in Ones(n, c, ev) : t \in Fits(n, c) /\ t.ev = ev
  BY DEF Ones
<1> HIDE DEF Ones, Fits
<1>3. \A i \in 1 .. Len(s) : s[i] \in Fits(n, c) /\ s[i].ev = ev
  BY <1>1, <1>2
<1> QED
  BY <1>3

LEMMA StepOnes ==
    ASSUME NEW n \in Nat, n <= MaxCalls, NEW c, NEW x \in Nodes, NEW y \in Nodes, NEW ev \in 1 .. n
    PROVE  /\ \A k \in Keys :
                 /\ Do("fire", ev, x, y, k, None) \in Ones(n, c, ev)
                 /\ Do("deliver", ev, x, y, k, None) \in Ones(n, c, ev)
                 /\ \A h \in Handlers : k = Key(h.type, h.sel) => Do("run", ev, x, y, k, h) \in Ones(n, c, ev)
           /\ Do("page", ev, x, y, "plain", None) \in Ones(n, c, ev)
           /\ \A h \in Handlers : Do("page", ev, x, y, "handler", h) \in Ones(n, c, ev)
           /\ \A k \in {"click", "focus"} :
                 /\ Do("default", ev, x, y, k, None) \in Ones(n, c, ev)
                 /\ Do("end", ev, x, y, k, None) \in Ones(n, c, ev)
                 /\ Do("capture", ev, x, y, k, None) \in Ones(n, c, ev)
<1>1. \A what, at, k, h : Do(what, ev, x, at, k, h).ev = ev
  BY DEF Do
<1> HIDE DEF Fits
<1> QED
  BY <1>1, StepFits DEF Ones

\* The sequences that the actions put on the agenda fit.
LEMMA NativeFits ==
    ASSUME IsTree, NEW n \in Nat, n <= MaxCalls, NEW c, NEW ev \in 1 .. n, NEW x \in Nodes, NEW type \in {"click", "focus"}
    PROVE  /\ NativeClick(ev, x) \in Seq(Ones(n, c, ev)) /\ NativeFocus(ev, x) \in Seq(Ones(n, c, ev))
           /\ Native(ev, x, type) \in Seq(Ones(n, c, ev))
<1>1. "click" \in Keys /\ "focus" \in Keys
  BY DEF Keys
<1>2. \A s : ClickStep(ev, x, s) => s \in Ones(n, c, ev)
  BY <1>1, StepOnes DEF ClickStep
<1>3. NativeClick(ev, x) \in Seq(Ones(n, c, ev))
  <2> HIDE DEF Ones
  <2> QED
    BY <1>2, ClickFacts
<1>4. NativeFocus(ev, x) \in Seq(Ones(n, c, ev))
  <2>1. Do("capture", ev, x, Doc, "focus", None) \in Ones(n, c, ev) /\ Do("deliver", ev, x, x, "focus", None) \in Ones(n, c, ev)
    BY <1>1, StepOnes, Constants
  <2> QED
    BY <2>1 DEF NativeFocus
<1> QED
  BY <1>3, <1>4 DEF Native

LEMMA FiresFit ==
    ASSUME NEW n \in Nat, n <= MaxCalls, NEW c, NEW ev \in 1 .. n, NEW x \in Nodes, NEW path \in Seq(Nodes), NEW k \in Keys
    PROVE  Fires(ev, x, path, k) \in Seq(Ones(n, c, ev))
<1>1. \A y \in Nodes : Do("fire", ev, x, y, k, None) \in Ones(n, c, ev)
  BY StepOnes
<1> QED
  BY <1>1, FiresFacts

LEMMA QueueFits ==
    ASSUME IsTree, Data, NEW c, NEW ev \in 1 .. calls, NEW x \in Nodes, NEW k \in Keys, NEW to \in Nodes
    PROVE  HandlerQueue(Event(ev, x, k), to) \in Seq(Ones(calls, c, ev))
<1>1. DataType /\ calls \in Nat /\ calls <= MaxCalls
  BY EventsAssumption DEF Data, DataType
<1>2. handlers[to][k] \in Seq(Handlers) /\ delegates[to][k] \in Nat /\ ListOK(handlers[to][k], delegates[to][k], k, calls)
  BY <1>1, ListType, DataLists
<1>3. ASSUME NEW s, QueueStep(ev, to, k, s)
      PROVE  s \in Ones(calls, c, ev)
  <2>1. PICK y \in Nodes, i \in 1 .. Len(handlers[to][k]) : s = Do("run", ev, to, y, k, handlers[to][k][i])
    BY <1>3 DEF QueueStep
  <2>2. handlers[to][k][i] \in Handlers /\ k = Key(handlers[to][k][i].type, handlers[to][k][i].sel)
    BY <1>2 DEF ListOK
  <2> QED
    BY <1>1, <2>1, <2>2, StepOnes
<1> HIDE DEF Ones
<1> QED
  BY <1>2, <1>3, QueueFacts

LEMMA EvaluationsFit ==
    ASSUME NEW n \in Nat, n <= MaxCalls, copyOf \in Elems \cup {None}, NEW x
    PROVE  /\ Disabled(x) \in Seq(Scripts(x))
           /\ Scripts(x) \subseteq {Script, Copy} /\ (copyOf = None => Scripts(x) \subseteq {Script})
           /\ [i \in 1 .. Len(Disabled(x)) |-> Do("evaluate", 0, Disabled(x)[i], None, "script", None)]
                 \in Seq(Fits(n, copyOf))
<1>1. Scripts(x) \subseteq {Script, Copy} /\ (copyOf = None => Scripts(x) \subseteq {Script})
  BY Constants DEF Scripts, Subtree, IsScript, Original
<1>2. IsFiniteSet(Scripts(x))
  <2>1. Scripts(x) \subseteq Nodes
    BY DEF Scripts, Subtree
  <2> QED
    BY <2>1, Constants, FS_Subset
<1>3. Disabled(x) \in Seq(Scripts(x))
  BY <1>2, Listed DEF Disabled
<1>4. ASSUME NEW i \in 1 .. Len(Disabled(x))
      PROVE  Do("evaluate", 0, Disabled(x)[i], None, "script", None) \in Fits(n, copyOf)
  <2> DEFINE y == Disabled(x)[i]
  <2>1. y \in Scripts(x)
    BY <1>3
  <2> HIDE DEF y
  <2>2. y \in Nodes /\ (IF y = Copy THEN copyOf ELSE y) = Script
    BY <2>1 DEF Scripts, Subtree, IsScript, Original
  <2>3. Do("evaluate", 0, y, None, "script", None) \in Fits(n, copyOf)
    BY <2>2, StepFits
  <2> QED
    BY <2>3 DEF y
<1>5. Len(Disabled(x)) \in Nat
  BY <1>3
<1> QED
  BY <1>1, <1>3, <1>4, <1>5

\* The step on top, and what is left below it.
LEMMA Popped ==
    ASSUME AgendaOK, agenda # <<>>
    PROVE  /\ Todo \in Fits(calls, copyOf) /\ Tail(agenda) \in Seq(Fits(calls, copyOf))
           /\ Len(agenda) \in Nat /\ Len(agenda) >= 1 /\ Len(Tail(agenda)) = Len(agenda) - 1 /\ Todo = agenda[1]
           /\ \A i \in 1 .. Len(agenda) - 1 : i + 1 \in 1 .. Len(agenda) /\ Tail(agenda)[i] = agenda[i + 1]
BY DEF AgendaOK, Todo

\* What the step on top has, according to what it is.
LEMMA TodoType ==
    ASSUME AgendaOK, agenda # <<>>
    PROVE  /\ Todo \in Steps /\ Todo.node \in Nodes /\ Todo.ev \in Nat /\ Todo.ev <= calls
           /\ Todo.do \notin {"evaluate", "page"} => Todo.ev >= 1
           /\ Todo.do = "page" => ((Todo.key = "script") <=> (Todo.ev = 0))
           /\ Todo.do \in {"fire", "deliver"} => Todo.at \in Nodes /\ Todo.key \in Keys
           /\ Todo.do \in {"default", "end"} => Todo.key \in {"click", "focus"}
           /\ Todo.do = "run" => Todo.at \in Nodes /\ Todo.h \in Handlers /\ Todo.key = Key(Todo.h.type, Todo.h.sel)
           /\ Todo.do = "evaluate" => (IF Todo.node = Copy THEN copyOf ELSE Todo.node) = Script
<1>1. Todo \in Fits(calls, copyOf)
  BY Popped
<1>2. Todo \in Steps
  BY <1>1 DEF Fits
<1>3. Todo.ev \in Nat /\ Todo.node \in Nodes /\ Todo.at \in Nodes \cup {None}
  BY <1>2, EventsAssumption DEF Steps
<1> QED
  BY <1>1, <1>2, <1>3 DEF Fits

(***************************************************************************)
(* Core is EventsInv, part by part. Each call and each step of the engine  *)
(* keeps it: first those that leave the document as it is.                 *)
(***************************************************************************)

-----------------------------------------------------------------------------
TreeOK == parent \in Parents /\ parent[Doc] = None /\ Rooted(parent) /\ copyOf \in Elems \cup {None}
Marks == marked \cup evaluated \subseteq {Script, Copy} /\ triggered \in {None, "click", "focus"}
Core == TreeOK /\ Data /\ Marks /\ Fresh /\ AgendaOK

\* Core says the same as EventsInv.
LEMMA CoreInv == EventsInv <=> Core
BY AgendaFits, RootedBelow DEF EventsInv, TypeOK, Core, TreeOK, Marks, Data, DataType, Lists, Parents, Rooted

LEMMA AgendaFitsNext == AgendaOK' => (agenda \in Seq(Steps) /\ Prepared)'
<1> SUFFICES ASSUME AgendaOK'
             PROVE  agenda' \in Seq(Steps) /\ Prepared'
  OBVIOUS
<1>1. \A i \in 1 .. Len(agenda') : agenda'[i] \in Fits(calls', copyOf')
  BY DEF AgendaOK
<1>2. agenda' \in Seq(Steps)
  <2>1. Fits(calls', copyOf') \subseteq Steps
    BY DEF Fits
  <2> HIDE DEF Fits
  <2>2. \A i \in 1 .. Len(agenda') : agenda'[i] \in Steps
    BY <1>1, <2>1
  <2> QED
    BY <2>2 DEF AgendaOK
<1>3. Prepared'
  BY <1>1 DEF Prepared, Fits, IsScript, Original
<1> QED
  BY <1>2, <1>3

LEMMA CoreInvNext == Core' => EventsInv'
BY AgendaFitsNext, RootedBelow DEF EventsInv, TypeOK, Core, TreeOK, Marks, Data, DataType, Lists, Parents, Rooted

\* What most steps need of it.
LEMMA CoreFacts ==
    ASSUME Core
    PROVE  /\ IsTree /\ DataType /\ calls \in Nat /\ calls <= MaxCalls /\ MaxCalls \in Nat
           /\ parent \in Parents /\ Rooted(parent) /\ parent[Doc] = None /\ copyOf \in Elems \cup {None}
           /\ agenda # <<>> => Len(agenda) >= 1
           /\ (copyOf # None \/ Copy \notin Present) /\ Present \subseteq Nodes
BY EventsAssumption, Constants DEF Core, TreeOK, IsTree, Data, DataType, Present, Nodes

\* Steps that fit can be pushed, by a call or in the place of the step on top.
LEMMA Pushed ==
    ASSUME Core, calls' \in {calls, calls + 1}, calls' <= MaxCalls, copyOf = None \/ copyOf' = copyOf,
           NEW steps \in Seq(Fits(calls', copyOf')), Call(steps) \/ (agenda # <<>> /\ Then(steps))
    PROVE  AgendaOK'
<1>1. calls \in Nat /\ calls' \in Nat /\ calls <= calls' /\ AgendaOK
  BY CoreFacts DEF Core
<1>2. agenda \in Seq(Fits(calls', copyOf'))
  BY <1>1, FitsGrow DEF AgendaOK
<1>3. agenda # <<>> => Tail(agenda) \in Seq(Fits(calls', copyOf'))
  BY <1>1, Popped, FitsGrow
<1> HIDE DEF Fits
<1>4. agenda' \in Seq(Fits(calls', copyOf'))
  <2> DEFINE F == Fits(calls', copyOf')
  <2>1. steps \in Seq(F) /\ agenda \in Seq(F)
    BY <1>2
  <2>2. agenda # <<>> => Tail(agenda) \in Seq(F)
    BY <1>3
  <2> HIDE DEF F
  <2>3. steps \o agenda \in Seq(F)
    BY <2>1
  <2>4. agenda # <<>> => steps \o Tail(agenda) \in Seq(F)
    BY <2>1, <2>2
  <2>5. agenda' \in Seq(F)
    BY <2>3, <2>4 DEF Call, Then
  <2> QED
    BY <2>5 DEF F
<1> QED
  BY <1>4 DEF AgendaOK

LEMMA PushedNone ==
    ASSUME Core, calls' \in {calls, calls + 1}, calls' <= MaxCalls, copyOf = None \/ copyOf' = copyOf,
           Call(<<>>) \/ (agenda # <<>> /\ Then(<<>>))
    PROVE  AgendaOK'
<1>1. <<>> \in Seq(Fits(calls', copyOf'))
  OBVIOUS
<1> QED
  BY <1>1, Pushed

\* a step that leaves the tree and the handlers as they are
LEMMA EngineStep ==
    ASSUME Core, UNCHANGED <<tree, data, marked>>, calls' \in {calls, calls + 1}, calls' <= MaxCalls,
           wrong \subseteq wrong', triggered' \in {None, "click", "focus"}, AgendaOK',
           evaluated' \subseteq evaluated \cup {s \in Nodes : IsScript(s)}
    PROVE  Core'
<1>1. TreeOK'
  BY DEF Core, TreeOK, tree
<1>2. Data'
  BY DataSame DEF Core
<1>3. \A s \in Nodes : IsScript(s) => s \in {Script, Copy} /\ (copyOf = None => s = Script)
  BY Constants DEF IsScript, Original
<1>4. Marks'
  BY <1>3 DEF Core, Marks
<1>5. Fresh'
  BY <1>3, Constants DEF Core, Fresh, tree, data
<1> QED
  BY <1>1, <1>2, <1>4, <1>5 DEF Core

\* Unbinding keeps the invariant, wherever it is done.
LEMMA UnbindStep ==
    ASSUME Core, UNCHANGED <<tree, marked, evaluated, triggered>>, calls' \in {calls, calls + 1}, calls' <= MaxCalls,
           wrong \subseteq wrong', AgendaOK', NEW x \in Nodes, NEW gone, Unbind(x, gone)
    PROVE  Core'
<1>1. TreeOK' /\ Marks'
  BY DEF Core, TreeOK, Marks, tree
<1>2. Data' /\ \A y \in Nodes, k \in Keys : handlers'[y][k] = IF y = x THEN Without(handlers[y][k], gone) ELSE handlers[y][k]
  BY DataUnbind DEF Core
<1>3. Fresh'
  <2> SUFFICES ASSUME copyOf = None
               PROVE  /\ \A k \in Keys : handlers'[Copy][k] = <<>>
                      /\ parent[Copy] = None /\ \A y \in Nodes : parent[y] # Copy
                      /\ Copy \notin marked \cup evaluated /\ listener'[Copy] = {}
    BY DEF Fresh, tree
  <2>1. Fresh /\ Copy \in Nodes /\ DataType
    BY Constants, CoreFacts DEF Core
  <2>2. listener'[Copy] = {}
    <3>1. listener' = [listener EXCEPT ![x] = @ \ TornDown(x, gone)]
      BY DEF Unbind, RemoveEvent
    <3> QED
      BY <2>1, <3>1 DEF Fresh, DataType
  <2>3. ASSUME NEW k \in Keys
        PROVE  handlers'[Copy][k] = <<>>
    <3>1. handlers[Copy][k] = <<>>
      BY <2>1 DEF Fresh
    <3>2. Without(<<>>, gone) = <<>>
      <4>1. <<>> \in Seq(Handlers)
        OBVIOUS
      <4>2. \A i \in 1 .. Len(Without(<<>>, gone)) : \E j \in 1 .. Len(<<>>) : TRUE
        BY <4>1, WithoutDistinct
      <4>3. Without(<<>>, gone) \in Seq(Handlers)
        BY <4>1, WithoutDistinct
      <4>4. Len(<<>>) = 0
        OBVIOUS
      <4> DEFINE w == Without(<<>>, gone)
      <4> HIDE DEF w
      <4>5. w \in Seq(Handlers) /\ \A i \in 1 .. Len(w) : FALSE
        <5>1. \A j \in 1 .. 0 : FALSE
          OBVIOUS
        <5> QED
          BY <4>2, <4>3, <4>4, <5>1 DEF w
      <4>6. Len(w) = 0
        <5>1. Len(w) \in Nat
          BY <4>5
        <5>2. Len(w) >= 1 => 1 \in 1 .. Len(w)
          BY <5>1
        <5> QED
          BY <4>5, <5>1, <5>2
      <4>7. w = <<>>
        BY <4>5, <4>6
      <4> QED
        BY <4>7 DEF w
    <3> QED
      BY <1>2, <2>1, <3>1, <3>2
  <2> QED
    BY <2>1, <2>2, <2>3 DEF Fresh
<1> QED
  BY <1>1, <1>2, <1>3 DEF Core

\* A call is counted.
LEMMA CallFacts ==
    ASSUME Core, Calling
    PROVE  calls' = calls + 1 /\ calls' \in {calls, calls + 1} /\ calls' <= MaxCalls /\ calls' \in Nat
           /\ calls' \in 1 .. calls' /\ calls' \in 1 .. MaxCalls
BY CoreFacts DEF Calling, MayCall

LEMMA OnStep ==
    ASSUME Core, NEW x \in Hosts \cap Present, NEW b \in Bindings, On(x, b)
    PROVE  Core'
<1>1. Calling /\ Add(x, [b EXCEPT !.id = calls']) /\ Call(<<>>) /\ UNCHANGED <<tree, marked, triggered, history>>
  BY DEF On
<1>2. x \in Nodes /\ (copyOf = None => x # Copy) /\ DataType
  BY CoreFacts
<1>3. calls' = calls + 1 /\ calls' \in {calls, calls + 1} /\ calls' <= MaxCalls
  BY <1>1, CallFacts
<1>4. AgendaOK'
  BY <1>1, <1>3, PushedNone DEF tree
<1>5. Data'
  BY <1>1, <1>2, <1>3, DataAdd DEF Core, history
<1>6. copyOf = None => handlers'[Copy] = handlers[Copy] /\ listener'[Copy] = listener[Copy]
  BY <1>1, <1>2, Constants DEF Add, DataType, Lists
<1>7. Fresh'
  BY <1>1, <1>6 DEF Core, Fresh, tree, history
<1>8. TreeOK' /\ Marks'
  BY <1>1 DEF Core, TreeOK, Marks, tree, history
<1> QED
  BY <1>4, <1>5, <1>7, <1>8 DEF Core

LEMMA OffStep ==
    ASSUME Core, NEW x \in Nodes, NEW gone, Calling, Unbind(x, gone), Call(<<>>), UNCHANGED <<tree, marked, triggered, history>>
    PROVE  Core'
<1>1. calls' \in {calls, calls + 1} /\ calls' <= MaxCalls
  BY CallFacts
<1>2. AgendaOK'
  BY <1>1, PushedNone DEF tree
<1> QED
  BY <1>1, <1>2, UnbindStep DEF tree, history

\* The calls that bind and unbind.
LEMMA BindingStep ==
    ASSUME Core, Binding
    PROVE  Core'
<1>1. PICK x \in Hosts \cap Present :
        \/ \E b \in Bindings : On(x, b) \/ Off(x, b.type, b.sel, b.fn) \/ Off(x, b.type, None, None)
        \/ OffAll(x)
  BY DEF Binding
<1>2. x \in Nodes
  BY CoreFacts
<1>3. ASSUME NEW type, NEW sel, NEW fn, Off(x, type, sel, fn)
      PROVE  Core'
  BY <1>2, <1>3, OffStep DEF Off
<1>4. CASE OffAll(x)
  BY <1>2, <1>4, OffStep DEF OffAll
<1> QED
  BY <1>1, <1>3, <1>4, OnStep

\* The calls that begin an event.
LEMMA BeginStep ==
    ASSUME Core, Calling, NEW steps \in Seq(Fits(calls', copyOf)), Begin(calls', steps)
    PROVE  Core'
<1>1. calls' \in {calls, calls + 1} /\ calls' <= MaxCalls
  BY CallFacts
<1>2. /\ Call(steps) /\ UNCHANGED <<tree, data, marked, triggered, spent, evaluated>> /\ wrong \subseteq wrong'
      /\ copyOf' = copyOf
  BY DEF Begin, tree
<1>3. AgendaOK'
  BY <1>1, <1>2, Pushed
<1>4. triggered' \in {None, "click", "focus"}
  BY <1>2 DEF Core, Marks
<1> QED
  BY <1>1, <1>2, <1>3, <1>4, EngineStep

\* what trigger(), triggerHandler() and the user put on the agenda
Beginning(ev, x, steps) ==
    \/ steps = NativeClick(ev, x)
    \/ steps = NativeFocus(ev, x)
    \/ steps = Fires(ev, x, Path(x), "click") \o <<Do("default", ev, x, x, "click", None)>>
    \/ \E type \in {"click", "focus"} : steps = Fires(ev, x, <<x>>, type)
    \/ steps = Fires(ev, x, <<x>>, "focus") \o Fires(ev, x, Path(x), "focusin") \o <<Do("default", ev, x, x, "focus", None)>>

\* With what an event begins.
LEMMA TriggeringBegins ==
    ASSUME Triggering
    PROVE  \E x, steps : x \in Targets \cap Present /\ Calling /\ Beginning(calls', x, steps) /\ Begin(calls', steps)
<1>1. PICK x \in Targets \cap Present :
        \/ TriggerClick(x) \/ \E focused \in BOOLEAN : TriggerFocus(x, focused)
        \/ \E type \in {"click", "focus"} : UserEvent(x, type) \/ TriggerHandler(x, type)
  BY DEF Triggering
<1>2. CASE TriggerClick(x)
  BY <1>2 DEF TriggerClick, Beginning
<1>3. ASSUME NEW focused \in BOOLEAN, TriggerFocus(x, focused)
      PROVE  \E steps : Calling /\ Beginning(calls', x, steps) /\ Begin(calls', steps)
  BY <1>3 DEF TriggerFocus, Beginning
<1>4. ASSUME NEW type \in {"click", "focus"}, UserEvent(x, type)
      PROVE  \E steps : Calling /\ Beginning(calls', x, steps) /\ Begin(calls', steps)
  BY <1>4 DEF UserEvent, Beginning, Native
<1>5. ASSUME NEW type \in {"click", "focus"}, TriggerHandler(x, type)
      PROVE  \E steps : Calling /\ Beginning(calls', x, steps) /\ Begin(calls', steps)
  BY <1>5 DEF TriggerHandler, Beginning
<1> QED
  BY <1>1, <1>2, <1>3, <1>4, <1>5

LEMMA BeginningFits ==
    ASSUME IsTree, NEW n \in Nat, n <= MaxCalls, NEW c, NEW ev \in 1 .. n, NEW x \in Nodes, NEW steps, Beginning(ev, x, steps)
    PROVE  steps \in Seq(Ones(n, c, ev))
<1> DEFINE F == Ones(n, c, ev)
<1>1. "click" \in Keys /\ "focus" \in Keys /\ "focusin" \in Keys
  BY DEF Keys
<1>2. NativeClick(ev, x) \in Seq(F) /\ NativeFocus(ev, x) \in Seq(F)
  BY NativeFits
<1>3. Path(x) \in Seq(Nodes) /\ <<x>> \in Seq(Nodes)
  BY PathFacts
<1>4. \A k \in Keys : Fires(ev, x, Path(x), k) \in Seq(F) /\ Fires(ev, x, <<x>>, k) \in Seq(F)
  BY <1>3, FiresFit
<1>5. \A k \in {"click", "focus"} : <<Do("default", ev, x, x, k, None)>> \in Seq(F)
  <2>1. \A k \in {"click", "focus"} : Do("default", ev, x, x, k, None) \in F
    BY StepOnes
  <2> HIDE DEF F
  <2> QED
    BY <2>1
<1> HIDE DEF F
<1>6. Fires(ev, x, Path(x), "click") \o <<Do("default", ev, x, x, "click", None)>> \in Seq(F)
  BY <1>1, <1>4, <1>5, Concat
<1>7. Fires(ev, x, <<x>>, "focus") \o Fires(ev, x, Path(x), "focusin") \in Seq(F)
  BY <1>1, <1>4, Concat
<1>8. (Fires(ev, x, <<x>>, "focus") \o Fires(ev, x, Path(x), "focusin")) \o <<Do("default", ev, x, x, "focus", None)>> \in Seq(F)
  BY <1>5, <1>7, Concat
<1>9. steps \in Seq(F)
  BY <1>1, <1>2, <1>4, <1>6, <1>8 DEF Beginning
<1> QED
  BY <1>9 DEF F

LEMMA TriggeringStep ==
    ASSUME Core, Triggering
    PROVE  Core'
<1>1. PICK x, steps : x \in Targets \cap Present /\ Calling /\ Beginning(calls', x, steps) /\ Begin(calls', steps)
  BY TriggeringBegins
<1>2. x \in Nodes /\ IsTree /\ calls' \in Nat /\ calls' <= MaxCalls /\ calls' \in 1 .. calls'
  BY <1>1, CoreFacts, CallFacts
<1>3. steps \in Seq(Fits(calls', copyOf))
  BY <1>1, <1>2, BeginningFits, OnesFit
<1> QED
  BY <1>1, <1>3, BeginStep

-----------------------------------------------------------------------------
\* The step on top is what it is.
LEMMA NowFacts ==
    ASSUME Core, NEW what, Now(what)
    PROVE  agenda # <<>> /\ Todo.do = what
BY DEF Now, Todo

LEMMA SameCalls ==
    ASSUME Core, UNCHANGED calls
    PROVE  calls' \in {calls, calls + 1} /\ calls' <= MaxCalls /\ calls \in Nat /\ calls <= MaxCalls
BY CoreFacts

\* The steps of the engine.
LEMMA CaptureStep ==
    ASSUME Core, Capture
    PROVE  Core'
<1> DEFINE steps == IF attaches > 0 THEN Simulated(Todo.ev, Todo.node) ELSE <<>>
<1>1. agenda # <<>> /\ Todo.do = "capture" /\ Then(steps) /\ UNCHANGED <<tree, data, marked, triggered, calls, history>>
  BY NowFacts DEF Capture
<1>2. AgendaOK /\ IsTree
  BY CoreFacts DEF Core
<1>3. Todo.ev \in 1 .. calls /\ Todo.node \in Nodes /\ Path(Todo.node) \in Seq(Nodes) /\ "focusin" \in Keys
  BY <1>1, <1>2, TodoType, PathFacts, CoreFacts DEF Keys
<1>4. steps \in Seq(Fits(calls, copyOf))
  <2>1. Fires(Todo.ev, Todo.node, Path(Todo.node), "focusin") \in Seq(Ones(calls, copyOf, Todo.ev))
    BY <1>3, FiresFit, CoreFacts
  <2>2. Fires(Todo.ev, Todo.node, Path(Todo.node), "focusin") \in Seq(Fits(calls, copyOf))
    BY <2>1, OnesFit
  <2> HIDE DEF Fits
  <2> QED
    BY <2>2 DEF Simulated
<1>5. calls' \in {calls, calls + 1} /\ calls' <= MaxCalls
  BY <1>1, SameCalls
<1> HIDE DEF steps
<1>6. AgendaOK'
  BY <1>1, <1>4, <1>5, Pushed DEF tree
<1> QED
  BY <1>1, <1>5, <1>6, EngineStep DEF history, Core, Marks

LEMMA HandleStep ==
    ASSUME Core, Handle
    PROVE  Core'
<1> DEFINE heard == IF Todo.do = "fire" THEN handlers[Todo.at][Todo.key] # <<>>
                    ELSE Todo.key \in listener[Todo.at]
           steps == IF heard /\ ~Discards(Todo.key) THEN HandlerQueue(Fixed(Todo), Todo.at) ELSE <<>>
<1>1. agenda # <<>> /\ Todo.do \in {"fire", "deliver"} /\ Then(steps) /\ UNCHANGED <<tree, data, marked, triggered, calls, history>>
  BY NowFacts DEF Handle
<1>2. AgendaOK /\ IsTree /\ Data
  BY CoreFacts DEF Core
<1>3. Todo.ev \in 1 .. calls /\ Todo.node \in Nodes /\ Todo.at \in Nodes /\ Todo.key \in Keys
  BY <1>1, <1>2, TodoType, CoreFacts
<1>4. steps \in Seq(Fits(calls, copyOf))
  <2>1. HandlerQueue(Fixed(Todo), Todo.at) \in Seq(Fits(calls, copyOf))
    <3>1. HandlerQueue(Fixed(Todo), Todo.at) \in Seq(Ones(calls, copyOf, Todo.ev))
      BY <1>2, <1>3, QueueFits DEF Fixed
    <3> QED
      BY <3>1, OnesFit
  <2> HIDE DEF heard, Fits
  <2> QED
    BY <2>1
<1>5. calls' \in {calls, calls + 1} /\ calls' <= MaxCalls
  BY <1>1, SameCalls
<1> HIDE DEF steps
<1>6. AgendaOK'
  BY <1>1, <1>4, <1>5, Pushed DEF tree
<1> QED
  BY <1>1, <1>5, <1>6, EngineStep DEF history, Core, Marks

LEMMA RunStep ==
    ASSUME Core, Run
    PROVE  Core'
<1> DEFINE steps == <<Do("page", Todo.ev, Todo.node, Todo.at, "handler", Todo.h)>>
<1>1. /\ agenda # <<>> /\ Todo.do = "run" /\ Then(steps) /\ UNCHANGED <<tree, marked, triggered, calls, stopped, evaluated>>
      /\ Unbind(Todo.node, Spends(Todo)) /\ wrong \subseteq wrong'
  BY NowFacts DEF Run
<1>2. Todo.ev \in 1 .. calls /\ Todo.node \in Nodes /\ Todo.at \in Nodes /\ Todo.h \in Handlers
  BY <1>1, TodoType, CoreFacts DEF Core
<1>3. steps \in Seq(Fits(calls, copyOf))
  <2>1. Do("page", Todo.ev, Todo.node, Todo.at, "handler", Todo.h) \in Fits(calls, copyOf)
    BY <1>2, StepFits, CoreFacts
  <2> HIDE DEF Fits
  <2> QED
    BY <2>1
<1>4. calls' \in {calls, calls + 1} /\ calls' <= MaxCalls
  BY <1>1, SameCalls
<1> HIDE DEF steps
<1>5. AgendaOK'
  BY <1>1, <1>3, <1>4, Pushed DEF tree
<1> QED
  BY <1>1, <1>2, <1>4, <1>5, UnbindStep

LEMMA PageReturnsStep ==
    ASSUME Core, NEW how, PageReturns(how)
    PROVE  Core'
<1>1. /\ agenda # <<>> /\ UNCHANGED <<tree, data, marked, triggered, calls, handled, spent, evaluated, wrong>>
      /\ \E gone : agenda' = Without(Tail(agenda), gone)
  BY NowFacts DEF PageReturns
<1>2. AgendaOK'
  <2>1. Tail(agenda) \in Seq(Fits(calls, copyOf))
    BY <1>1, Popped DEF Core
  <2>2. PICK gone : agenda' = Without(Tail(agenda), gone)
    BY <1>1
  <2> DEFINE F == Fits(calls, copyOf)
             t == Tail(agenda)
  <2>3. t \in Seq(F)
    BY <2>1
  <2>4. agenda' \in Seq(F)
    <3> HIDE DEF F, t
    <3>1. Without(t, gone) \in Seq(F)
      BY <2>3, WithoutDistinct
    <3> QED
      BY <2>2, <3>1 DEF t
  <2> QED
    BY <1>1, <2>4 DEF AgendaOK, tree
<1>3. calls' \in {calls, calls + 1} /\ calls' <= MaxCalls
  BY <1>1, SameCalls
<1> QED
  BY <1>1, <1>2, <1>3, EngineStep DEF Core, Marks

LEMMA DefaultStep ==
    ASSUME Core, Default
    PROVE  Core'
<1> DEFINE steps == Native(Todo.ev, Todo.node, Todo.key) \o <<Do("end", Todo.ev, Todo.node, Todo.at, Todo.key, None)>>
<1>1. /\ agenda # <<>> /\ Todo.do = "default" /\ Then(steps) /\ UNCHANGED <<tree, data, marked, calls, history>>
      /\ triggered' = Todo.key
  BY NowFacts DEF Default
<1>2. AgendaOK /\ IsTree
  BY CoreFacts DEF Core
<1>3. Todo.ev \in 1 .. calls /\ Todo.node \in Nodes /\ Todo.key \in {"click", "focus"} /\ Todo.at \in Nodes \cup {None}
  BY <1>1, <1>2, TodoType, CoreFacts DEF Steps
<1>4. steps \in Seq(Fits(calls, copyOf))
  <2>1. Native(Todo.ev, Todo.node, Todo.key) \in Seq(Fits(calls, copyOf))
    <3>1. Native(Todo.ev, Todo.node, Todo.key) \in Seq(Ones(calls, copyOf, Todo.ev))
      BY <1>2, <1>3, NativeFits, CoreFacts
    <3> QED
      BY <3>1, OnesFit
  <2>2. Do("end", Todo.ev, Todo.node, Todo.at, Todo.key, None) \in Fits(calls, copyOf)
    <3>1. Do("end", Todo.ev, Todo.node, Todo.at, Todo.key, None) \in Steps
      BY <1>3, CoreFacts DEF Do, Steps, Keys
    <3> QED
      BY <1>3, <3>1, CoreFacts DEF Do, Fits
  <2> HIDE DEF Fits
  <2> QED
    BY <2>1, <2>2, Concat
<1>5. calls' \in {calls, calls + 1} /\ calls' <= MaxCalls
  BY <1>1, SameCalls
<1> HIDE DEF steps
<1>6. AgendaOK'
  BY <1>1, <1>4, <1>5, Pushed DEF tree
<1> QED
  BY <1>1, <1>3, <1>5, <1>6, EngineStep DEF history

LEMMA EndStep ==
    ASSUME Core, End
    PROVE  Core'
<1>1. agenda # <<>> /\ Then(<<>>) /\ UNCHANGED <<tree, data, marked, calls, history>> /\ triggered' = None
  BY NowFacts DEF End
<1>2. calls' \in {calls, calls + 1} /\ calls' <= MaxCalls
  BY <1>1, SameCalls
<1>3. AgendaOK'
  BY <1>1, <1>2, PushedNone DEF tree
<1> QED
  BY <1>1, <1>2, <1>3, EngineStep DEF history

LEMMA EvaluateStep ==
    ASSUME Core, Evaluate
    PROVE  Core'
<1> DEFINE s == Todo.node
           skip == s \in marked \/ ~InDoc(s)
           steps == IF skip THEN <<>> ELSE GlobalEval(s)
<1>1. /\ agenda # <<>> /\ Todo.do = "evaluate" /\ Then(steps) /\ UNCHANGED <<tree, data, marked, triggered, calls>>
      /\ wrong \subseteq wrong' /\ evaluated' \subseteq evaluated \cup {s}
  <2>1. Now("evaluate") /\ UNCHANGED <<tree, data, marked, triggered, calls, handled, spent, stopped>>
    BY DEF Evaluate
  <2>2. agenda # <<>> /\ Todo.do = "evaluate"
    BY <2>1, NowFacts
  <2>3. CASE skip
    BY <2>1, <2>2, <2>3 DEF Evaluate
  <2>4. CASE ~skip
    BY <2>1, <2>2, <2>4 DEF Evaluate
  <2> QED
    BY <2>3, <2>4
<1>2. s \in Nodes /\ IsScript(s)
  BY <1>1, TodoType DEF Core, IsScript, Original
<1>3. steps \in Seq(Fits(calls, copyOf))
  <2>1. Do("page", 0, s, s, "script", None) \in Fits(calls, copyOf)
    BY <1>2, StepFits, CoreFacts
  <2> HIDE DEF skip, Fits
  <2> QED
    BY <2>1 DEF GlobalEval
<1>4. calls' \in {calls, calls + 1} /\ calls' <= MaxCalls
  BY <1>1, SameCalls
<1> HIDE DEF steps
<1>5. AgendaOK'
  BY <1>1, <1>3, <1>4, Pushed DEF tree
<1> QED
  BY <1>1, <1>2, <1>4, <1>5, EngineStep DEF Core, Marks

\* All steps of the engine together.
LEMMA EngineSteps ==
    ASSUME Core, Engine
    PROVE  Core'
BY CaptureStep, HandleStep, RunStep, DefaultStep, EndStep, EvaluateStep, PageReturnsStep DEF Engine

(***************************************************************************)
(* Calls that change the document.                                         *)
(***************************************************************************)

\* what a change of the document may be
Moves(g) ==
    /\ g \in Parents /\ Rooted(g) /\ g[Doc] = None
    /\ copyOf = None => g[Copy] = None /\ \A z \in Nodes : g[z] # Copy

\* Core needs this of it: the clone that is not there yet is nowhere, and is no script.
LEMMA MoveStep ==
    ASSUME Core, Calling, UNCHANGED <<copyOf, triggered>>, Moves(parent'), Data', AgendaOK',
           marked' \subseteq marked \cup {s \in Nodes : IsScript(s)}, evaluated' \subseteq evaluated,
           copyOf = None => listener'[Copy] = {} /\ \A k \in Keys : handlers'[Copy][k] = <<>>
    PROVE  Core'
<1>1. marked \cup evaluated \subseteq {Script, Copy} /\ copyOf \in Elems \cup {None} /\ Fresh
  BY DEF Core, Marks, TreeOK
<1>2. {s \in Nodes : IsScript(s)} \subseteq {Script, Copy}
  BY DEF IsScript, Original
<1>3. copyOf = None => Copy \notin {s \in Nodes : IsScript(s)}
  BY Constants DEF IsScript, Original
<1>4. Marks'
  BY <1>1, <1>2 DEF Marks, Core
<1>5. TreeOK'
  BY <1>1 DEF TreeOK, Moves
<1>6. Fresh'
  <2> SUFFICES ASSUME copyOf' = None
               PROVE  Fresh'
    BY DEF Fresh
  <2>1. copyOf = None
    OBVIOUS
  <2>2. Copy \notin marked' \cup evaluated'
    BY <1>1, <1>3, <2>1 DEF Fresh
  <2> QED
    BY <2>1, <2>2 DEF Fresh, Moves
<1> QED
  BY <1>4, <1>5, <1>6 DEF Core

\* A call that moves nodes and cleans some keeps the invariant,
LEMMA CleanMoveStep ==
    ASSUME Core, Calling, UNCHANGED <<copyOf, triggered>>, Moves(parent'), AgendaOK',
           NEW S \in SUBSET Nodes, CleanData(S), wrong \cup Cleaned(S) \subseteq wrong',
           marked' \subseteq marked \cup {s \in Nodes : IsScript(s)}
    PROVE  Core'
<1>1. Data /\ Fresh /\ DataType /\ Copy \in Nodes
  BY CoreFacts, Constants DEF Core
<1>2. calls' \in {calls, calls + 1} /\ calls' <= MaxCalls
  BY CallFacts
<1>3. Data' /\ \A y \in Nodes, k \in Keys : handlers'[y][k] = IF y \in S THEN <<>> ELSE handlers[y][k]
  BY <1>1, <1>2, DataClean
<1>4. evaluated' \subseteq evaluated /\ listener'[Copy] \in {listener[Copy], {}}
  BY <1>1 DEF CleanData
<1>5. copyOf = None => listener'[Copy] = {} /\ \A k \in Keys : handlers'[Copy][k] = <<>>
  BY <1>1, <1>3, <1>4 DEF Fresh
<1> QED
  BY <1>3, <1>4, <1>5, MoveStep

\* and one that only moves them.
LEMMA KeepMoveStep ==
    ASSUME Core, Calling, UNCHANGED <<copyOf, triggered, data, evaluated>>, Moves(parent'), AgendaOK', wrong \subseteq wrong',
           marked' \subseteq marked \cup {s \in Nodes : IsScript(s)}
    PROVE  Core'
<1>1. Data /\ Fresh
  BY DEF Core
<1>2. calls' \in {calls, calls + 1} /\ calls' <= MaxCalls
  BY CallFacts
<1>3. Data'
  BY <1>1, <1>2, DataSame
<1>4. copyOf = None => listener'[Copy] = {} /\ \A k \in Keys : handlers'[Copy][k] = <<>>
  BY <1>1 DEF Fresh, data
<1> QED
  BY <1>3, <1>4, MoveStep

\* Links may be cut,
LEMMA Cutting ==
    ASSUME Core, NEW g \in Parents, \A z \in Nodes : g[z] \in {parent[z], None}
    PROVE  Moves(g)
<1>1. Rooted(g)
  BY RootedCut, CoreFacts
<1> QED
  BY <1>1, CoreFacts, Constants DEF Moves, Fresh, Core

\* nodes put elsewhere,
LEMMA Putting ==
    ASSUME Core, NEW x \in Present, NEW to \in Present \cup {None}, x # Doc, to # None => ~Within(to, x)
    PROVE  Moves([parent EXCEPT ![x] = to])
<1> DEFINE g == [parent EXCEPT ![x] = to]
<1>1. x \in Nodes /\ to \in Nodes \cup {None} /\ parent \in Parents /\ Rooted(parent)
  BY CoreFacts, Constants
<1>2. Rooted(g)
  BY <1>1, RootedMove DEF Within, Up
<1>3. g \in Parents /\ g[Doc] = None
  BY <1>1, CoreFacts, Constants DEF Parents
<1>4. ASSUME copyOf = None
      PROVE  g[Copy] = None /\ \A z \in Nodes : g[z] # Copy
  <2>1. x # Copy /\ to # Copy
    BY <1>4, CoreFacts, Constants
  <2> QED
    BY <1>1, <1>4, <2>1, Constants DEF Fresh, Core, Parents
<1> QED
  BY <1>2, <1>3, <1>4 DEF Moves

\* put in the place of others,
LEMMA Replacing ==
    ASSUME Core, NEW x \in Present, NEW y \in Present, Doc \notin {x, y}, ~Within(y, x)
    PROVE  Moves([parent EXCEPT ![x] = parent[y], ![y] = None])
<1> DEFINE g == [parent EXCEPT ![x] = parent[y], ![y] = None]
<1>1. x \in Nodes /\ y \in Nodes /\ parent \in Parents /\ Rooted(parent) /\ Fresh
  BY CoreFacts DEF Core
<1>2. Rooted(g)
  BY <1>1, RootedReplace DEF Within, Up
<1>3. g \in Parents /\ g[Doc] = None
  BY <1>1, CoreFacts, Constants DEF Parents
<1>4. ASSUME copyOf = None
      PROVE  g[Copy] = None /\ \A z \in Nodes : g[z] # Copy
  <2>1. x # Copy /\ y # Copy /\ Copy # None
    BY <1>4, CoreFacts, Constants
  <2> QED
    BY <1>1, <1>4, <2>1, Constants DEF Fresh, Parents
<1> QED
  BY <1>2, <1>3, <1>4 DEF Moves

\* and taken out of their parents.
LEMMA Unwrapping ==
    ASSUME Core, NEW y \in Nodes, y # Doc
    PROVE  Moves([z \in Nodes |-> IF z = y THEN None ELSE IF parent[z] = y THEN parent[y] ELSE parent[z]])
<1> DEFINE g == [z \in Nodes |-> IF z = y THEN None ELSE IF parent[z] = y THEN parent[y] ELSE parent[z]]
<1>1. parent \in Parents /\ Rooted(parent) /\ Fresh /\ parent[Doc] = None
  BY CoreFacts DEF Core
<1>2. Rooted(g)
  BY <1>1, RootedUnwrap
<1>3. g \in Parents /\ g[Doc] = None
  BY <1>1, Constants DEF Parents
<1>4. ASSUME copyOf = None
      PROVE  g[Copy] = None /\ \A z \in Nodes : g[z] # Copy
  BY <1>1, <1>4, Constants DEF Fresh, Parents
<1> QED
  BY <1>2, <1>3, <1>4 DEF Moves

\* The scripts of a moved node are put in front of the agenda.
LEMMA Evaluating ==
    ASSUME Core, Calling, NEW x, Evaluations(x), copyOf = None \/ copyOf' = copyOf
    PROVE  AgendaOK'
<1>1. calls' \in {calls, calls + 1} /\ calls' <= MaxCalls /\ calls' \in Nat
  BY CallFacts
<1> DEFINE steps == [i \in 1 .. Len(Disabled(x)) |-> Do("evaluate", 0, Disabled(x)[i], None, "script", None)]
<1>2. steps \in Seq(Fits(calls', copyOf))
  BY <1>1, EvaluationsFit, CoreFacts
<1>3. steps \in Seq(Fits(calls', copyOf'))
  <2> HIDE DEF steps
  <2>1. \A s \in Seq(Fits(calls', copyOf)) : s \in Seq(Fits(calls', copyOf'))
    <3>1. calls' <= calls' /\ (copyOf = None \/ copyOf = copyOf')
      BY <1>1
    <3> QED
      BY <1>1, <3>1, FitsGrow
  <2> QED
    BY <1>2, <2>1
<1>4. Call(steps)
  BY DEF Evaluations
<1> HIDE DEF steps
<1> QED
  BY <1>1, <1>3, <1>4, Pushed

\* Only scripts are marked.
LEMMA Marking ==
    ASSUME NEW x
    PROVE  /\ SetGlobalEval(x) \subseteq marked \cup {s \in Nodes : IsScript(s)}
           /\ BuildFragment(x) \subseteq marked \cup {s \in Nodes : IsScript(s)}
           /\ Subtree(x) \subseteq Nodes
  BY DEF SetGlobalEval, BuildFragment, Scripts, Subtree

\* The calls one by one.
LEMMA RemoveStep ==
    ASSUME Core, NEW x \in Present, RemoveNode(x)
    PROVE  Core'
<1>1. Calling /\ UNCHANGED <<copyOf, triggered>> /\ CleanData(Subtree(x)) /\ wrong \cup Cleaned(Subtree(x)) \subseteq wrong'
      /\ marked' \subseteq marked /\ Call(<<>>) /\ parent' = [parent EXCEPT ![x] = None]
  BY DEF RemoveNode
<1>2. Moves(parent')
  BY <1>1, Cutting, CoreFacts DEF Parents
<1>3. AgendaOK'
  BY <1>1, CallFacts, PushedNone
<1> QED
  BY <1>1, <1>2, <1>3, Marking, CleanMoveStep

LEMMA EmptyStep ==
    ASSUME Core, NEW x \in Present, Empty(x)
    PROVE  Core'
<1> DEFINE S == Subtree(x) \ {x}
<1>1. Calling /\ UNCHANGED <<copyOf, triggered>> /\ CleanData(S) /\ wrong \cup Cleaned(S) \subseteq wrong'
      /\ marked' \subseteq marked /\ Call(<<>>)
      /\ parent' = [y \in Nodes |-> IF parent[y] = x THEN None ELSE parent[y]]
  BY DEF Empty
<1>2. Moves(parent')
  BY <1>1, Cutting, CoreFacts DEF Parents
<1>3. AgendaOK'
  BY <1>1, CallFacts, PushedNone
<1>4. S \in SUBSET Nodes
  BY Marking
<1> QED
  BY <1>1, <1>2, <1>3, <1>4, CleanMoveStep

LEMMA DetachStep ==
    ASSUME Core, NEW x \in Present, DetachNode(x)
    PROVE  Core'
<1>1. Calling /\ UNCHANGED <<copyOf, triggered, data, evaluated>> /\ wrong \subseteq wrong'
      /\ marked' = SetGlobalEval(x) /\ Call(<<>>) /\ parent' = [parent EXCEPT ![x] = None]
  BY DEF DetachNode
<1>2. Moves(parent')
  BY <1>1, Cutting, CoreFacts DEF Parents
<1>3. AgendaOK'
  BY <1>1, CallFacts, PushedNone
<1> QED
  BY <1>1, <1>2, <1>3, Marking, KeepMoveStep

LEMMA AppendStep ==
    ASSUME Core, NEW x \in Present, NEW y \in Present, AppendNode(x, y)
    PROVE  Core'
<1>1. Calling /\ UNCHANGED <<copyOf, triggered, data, evaluated>> /\ wrong \subseteq wrong'
      /\ marked' = BuildFragment(x) /\ Evaluations(x) /\ parent' = [parent EXCEPT ![x] = y] /\ x # Doc /\ ~Within(y, x)
  BY DEF AppendNode, DomManip
<1>2. Moves(parent')
  BY <1>1, Putting
<1> QED
  BY <1>1, <1>2, Evaluating, Marking, KeepMoveStep

LEMMA BesideStep ==
    ASSUME Core, NEW x \in Present, NEW y \in Present, InsertBeside(x, y)
    PROVE  Core'
<1>1. Calling /\ UNCHANGED <<copyOf, triggered, data, evaluated>> /\ wrong \subseteq wrong'
      /\ marked' = BuildFragment(x) /\ Evaluations(x) /\ parent' = [parent EXCEPT ![x] = parent[y]]
      /\ x # Doc /\ y # Doc /\ ~Within(y, x)
  BY DEF InsertBeside, DomManip
<1>2. parent[y] \in Present \cup {None}
  <2>1. parent[y] \in Nodes \cup {None}
    BY CoreFacts DEF Parents
  <2>2. copyOf = None => parent[y] # Copy
    BY CoreFacts DEF Fresh, Core
  <2> QED
    BY <2>1, <2>2 DEF Present, Nodes
<1>3. parent[y] # None => ~Within(parent[y], x)
  BY <1>1, <1>2, CoreFacts, UpStep DEF Within, Up
<1>4. Moves(parent')
  BY <1>1, <1>2, <1>3, Putting
<1> QED
  BY <1>1, <1>4, Evaluating, Marking, KeepMoveStep

LEMMA ReplaceStep ==
    ASSUME Core, NEW x \in Present, NEW y \in Present, ReplaceWith(y, x)
    PROVE  Core'
<1> DEFINE S == Subtree(y) \ Subtree(x)
<1>1. Calling /\ UNCHANGED <<copyOf, triggered>> /\ CleanData(S) /\ wrong \cup Cleaned(S) \subseteq wrong'
      /\ marked' = BuildFragment(x) \ S /\ Evaluations(x) /\ parent' = [parent EXCEPT ![x] = parent[y], ![y] = None]
      /\ Doc \notin {x, y} /\ ~Within(y, x)
  BY DEF ReplaceWith
<1>2. Moves(parent')
  BY <1>1, Replacing
<1>3. S \in SUBSET Nodes /\ marked' \subseteq marked \cup {s \in Nodes : IsScript(s)}
  BY <1>1, Marking
<1> QED
  BY <1>1, <1>2, <1>3, Evaluating, CleanMoveStep

LEMMA UnwrapStep ==
    ASSUME Core, NEW x \in Present, Unwrap(x)
    PROVE  Core'
<1> DEFINE y == parent[x]
<1>1. /\ Calling /\ UNCHANGED <<copyOf, triggered>> /\ CleanData({y}) /\ wrong \cup Cleaned({y}) \subseteq wrong'
      /\ marked' = BuildFragment(y) \ {y} /\ Evaluations(y) /\ y \notin {Doc, None}
      /\ parent' = [z \in Nodes |-> IF z = y THEN None ELSE IF parent[z] = y THEN parent[y] ELSE parent[z]]
  BY DEF Unwrap
<1>2. y \in Nodes
  BY <1>1, CoreFacts DEF Parents
<1>3. Moves(parent')
  BY <1>1, <1>2, Unwrapping
<1>4. {y} \in SUBSET Nodes /\ marked' \subseteq marked \cup {s \in Nodes : IsScript(s)}
  BY <1>1, <1>2, Marking
<1> QED
  BY <1>1, <1>3, <1>4, Evaluating, CleanMoveStep

\* What a clone brings: the scripts are those of before, and the clone of the script.
LEMMA CopyStep ==
    ASSUME Core, Calling, UNCHANGED triggered, NEW c \in Elems, copyOf = None, copyOf' = c, CloneCopyEvent(c),
           parent' \in Parents, Rooted(parent'), parent'[Doc] = None, AgendaOK', wrong \subseteq wrong',
           marked' \subseteq {Script, Copy}, evaluated' \subseteq evaluated \cup {Copy}
    PROVE  Core'
<1>1. Data /\ Fresh /\ Marks
  BY DEF Core
<1>2. calls' \in {calls, calls + 1} /\ calls' <= MaxCalls
  BY CallFacts
<1>3. Data'
  BY <1>1, <1>2, DataClone
<1>4. Marks'
  BY <1>1 DEF Marks
<1>5. c # None
  BY Constants DEF Nodes
<1>6. Fresh' /\ TreeOK'
  BY <1>5 DEF Fresh, TreeOK
<1> QED
  BY <1>3, <1>4, <1>6 DEF Core

LEMMA CloneStep ==
    ASSUME Core, NEW x \in Present, CloneNode(x)
    PROVE  Core'
<1>1. Calling /\ x \in Elems /\ copyOf = None /\ copyOf' = x /\ CloneCopyEvent(x) /\ Call(<<>>) /\ UNCHANGED <<parent, triggered>>
      /\ wrong \subseteq wrong' /\ marked' \subseteq marked \cup {Copy} /\ evaluated' \subseteq evaluated \cup {Copy}
  BY DEF CloneNode
<1>2. marked' \subseteq {Script, Copy}
  BY <1>1 DEF Core, Marks
<1>3. AgendaOK'
  BY <1>1, CallFacts, PushedNone
<1>4. parent' \in Parents /\ Rooted(parent') /\ parent'[Doc] = None
  BY <1>1, CoreFacts
<1> QED
  BY <1>1, <1>2, <1>3, <1>4, CopyStep

LEMMA WrapStep ==
    ASSUME Core, NEW x \in Present, NEW w \in Present, WrapAll(x, w)
    PROVE  Core'
<1>1. Calling /\ x # Doc /\ w \in Elems /\ copyOf = None /\ copyOf' = w /\ CloneCopyEvent(w) /\ Evaluations(x)
      /\ parent' = [parent EXCEPT ![Copy] = parent[x], ![x] = Copy] /\ marked' = BuildFragment(x)
      /\ wrong \subseteq wrong' /\ UNCHANGED <<triggered, evaluated>>
  BY DEF WrapAll
<1>2. x \in Nodes /\ x # Copy
  BY <1>1, CoreFacts
<1>3. Rooted(parent') /\ parent' \in Parents /\ parent'[Doc] = None
  <2>1. \A z \in Nodes : parent[z] # Copy
    BY <1>1 DEF Fresh, Core
  <2>2. Rooted(parent')
    BY <1>1, <1>2, <2>1, RootedWrap, CoreFacts, Constants
  <2> QED
    BY <1>1, <1>2, <2>2, CoreFacts, Constants DEF Parents
<1>4. marked' \subseteq {Script, Copy}
  BY <1>1, Marking, Constants DEF Core, Marks, IsScript, Original
<1> QED
  BY <1>1, <1>3, <1>4, Evaluating, CopyStep

\* All calls that change the document.
LEMMA ManipulatingStep ==
    ASSUME Core, Manipulating
    PROVE  Core'
  BY RemoveStep, EmptyStep, DetachStep, CloneStep, UnwrapStep, AppendStep, BesideStep, ReplaceStep, WrapStep DEF Manipulating, Html

(***************************************************************************)
(* In the beginning; and the invariant.                                    *)
(***************************************************************************)

\* The invariant holds in the beginning,
LEMMA InitTree ==
    ASSUME Init
    PROVE  parent \in Parents /\ Rooted(parent) /\ parent[Doc] = None /\ \A x \in Nodes : parent[x] # Copy
<1>1. parent = [x \in Nodes |-> IF x \in Elems THEN Tree[x] ELSE None] /\ Doc \notin Elems /\ Doc \in Nodes /\ Copy \notin Elems \cup {Doc}
      /\ Tree \in [Elems -> (Elems \ {Script}) \cup {Doc, None}] /\ None \notin Nodes
  BY EventsAssumption, Constants DEF Init
<1>2. parent \in Parents /\ parent[Doc] = None /\ \A x \in Nodes : parent[x] # Copy
  BY <1>1, Constants DEF Parents, Nodes
<1>3. Rooted(parent)
  <2> SUFFICES ASSUME NEW S \in SUBSET Nodes, S # {}
               PROVE  \E x \in S : parent[x] \notin S
    BY DEF Rooted
  <2>1. CASE S \subseteq Elems
    <3>1. PICK x \in S : Tree[x] \notin S
      BY <2>1, EventsAssumption
    <3> QED
      BY <1>1, <2>1, <3>1
  <2>2. CASE ~(S \subseteq Elems)
    BY <1>1, <2>2
  <2> QED
    BY <2>1, <2>2
<1> QED
  BY <1>2, <1>3

LEMMA InitData ==
    ASSUME Init
    PROVE  Data
<1>1. handlers = [x \in Nodes |-> [k \in Keys |-> <<>>]] /\ delegates = [x \in Nodes |-> [k \in Keys |-> 0]]
      /\ listener = [x \in Nodes |-> {}] /\ attaches = 0 /\ calls = 0
  BY DEF Init
<1>2. <<>> \in Seq(Handlers)
  OBVIOUS
<1>3. DataType
  <2>1. handlers \in Lists
    BY <1>1, <1>2 DEF Lists
  <2>2. delegates \in [Nodes -> [Keys -> Nat]] /\ listener \in [Nodes -> SUBSET Keys] /\ attaches \in Nat /\ calls \in 0 .. MaxCalls
    BY <1>1, EventsAssumption
  <2> QED
    BY <2>1, <2>2 DEF DataType
<1>4. \A x \in Nodes, k \in Keys : handlers[x][k] = <<>> /\ delegates[x][k] = 0 /\ listener[x] = {}
  BY <1>1
<1>5. Captured
  <2>1. Wanting = {}
    BY <1>4 DEF Wanting, Keys
  <2>2. Cardinality(Wanting) = 0 /\ attaches = 0
    BY <1>1, <2>1, FS_EmptySet
  <2>3. attaches >= Cardinality(Wanting) /\ attaches = Cardinality(Wanting)
    BY <2>2
  <2> QED
    BY <2>3 DEF Captured
<1> QED
  BY <1>3, <1>4, <1>5, ListEmpty, DataLists

LEMMA InitCore ==
    ASSUME Init
    PROVE  Core
<1>1. TreeOK /\ Data
  BY InitTree, InitData DEF TreeOK, Init
<1>2. Marks
  BY DEF Marks, Init
<1>3. Fresh
  <2>1. \A k \in Keys : handlers[Copy][k] = <<>>
    BY Constants DEF Init
  <2>2. parent[Copy] = None /\ \A x \in Nodes : parent[x] # Copy
    BY InitTree, EventsAssumption, Constants DEF Init
  <2>3. Copy \notin marked \cup evaluated /\ listener[Copy] = {}
    BY Constants DEF Init
  <2> QED
    BY <2>1, <2>2, <2>3 DEF Fresh
<1>4. AgendaOK
  <2>1. agenda = <<>>
    BY DEF Init
  <2> HIDE DEF Fits
  <2> QED
    BY <2>1 DEF AgendaOK
<1> QED
  BY <1>1, <1>2, <1>3, <1>4 DEF Core

\* and every step keeps it.
LEMMA CoreNext ==
    ASSUME Core, [Next]_vars
    PROVE  Core'
<1>1. CASE Next
  BY <1>1, BindingStep, TriggeringStep, ManipulatingStep, EngineSteps DEF Next
<1>2. CASE UNCHANGED vars
  <2>1. UNCHANGED <<tree, data, marked, triggered, agenda, calls, history>>
    BY <1>2 DEF vars
  <2>2. AgendaOK'
    <3> HIDE DEF Fits
    <3> QED
      BY <2>1 DEF Core, AgendaOK, tree
  <2>3. calls' \in {calls, calls + 1} /\ calls' <= MaxCalls /\ wrong \subseteq wrong'
    BY <2>1, CoreFacts DEF history
  <2> QED
    BY <2>1, <2>2, <2>3, EngineStep DEF history, Core, Marks
<1> QED
  BY <1>1, <1>2

\* The document, the handlers with their native listeners, and the agenda stay in order,
\* whatever the tree, the selectors and the bindings, and however many calls.
THEOREM Invariance == Spec => []EventsInv
<1>1. Init => EventsInv
  BY InitCore, CoreInv
<1>2. EventsInv /\ [Next]_vars => EventsInv'
  BY CoreNext, CoreInv, CoreInvNext
<1> QED
  BY <1>1, <1>2, PTL DEF Spec

\* The type invariant.
THEOREM TypeCorrect == Spec => []TypeOK
<1>1. EventsInv => TypeOK
  BY DEF EventsInv
<1> QED
  BY <1>1, Invariance, PTL

(***************************************************************************)
(* Scripts. What Evaluated says of an agenda is kept by what is put in     *)
(* front of it, by its tail, and by what leaves out no evaluation and no   *)
(* script.                                                                 *)
(***************************************************************************)

Evaluates(s) == s.do = "evaluate"
ScriptRuns(s) == s.do = "page" /\ s.key = "script"

\* what Evaluated says of the agenda
Order(a) ==
    \A i, j \in 1 .. Len(a) : Evaluates(a[i]) /\ j < i =>
        Evaluates(a[j]) \/ \E k \in j .. i : ScriptRuns(a[k])
Once(a) == \A i, j \in 1 .. Len(a) : Evaluates(a[i]) /\ Evaluates(a[j]) /\ a[i].node = a[j].node => i = j
Waiting(a) == {a[i].node : i \in {j \in 1 .. Len(a) : Evaluates(a[j])}}

\* and of the scripts
ScriptsOK(waiting) ==
    /\ marked \subseteq evaluated /\ \A s \in evaluated : IsScript(s)
    /\ waiting \cap evaluated \subseteq marked
    /\ \A s \in evaluated : s \in marked \/ InDoc(s)
    /\ \A s \in {Script, Copy} : IsScript(s) /\ InDoc(s) => s \in evaluated \cup waiting

\* Evaluated, in terms of the agenda and of the scripts that wait.
LEMMA EvaluatedParts ==
    Evaluated <=> (Still => Order(agenda) /\ Once(agenda) /\ ScriptsOK(Waiting(agenda)))
  BY DEF Evaluated, Order, Once, ScriptsOK, Waiting, Pending, Evaluates, ScriptRuns

\* Fewer evaluations, fewer scripts that wait.
LEMMA WaitingIn ==
    ASSUME NEW T, NEW a \in Seq(T), NEW b \in Seq(T),
           \A i \in 1 .. Len(a) : Evaluates(a[i]) => \E j \in 1 .. Len(b) : b[j] = a[i]
    PROVE  Waiting(a) \subseteq Waiting(b)
  BY DEF Waiting

\* Steps that are no evaluations are put in front of the agenda, or of its tail.
LEMMA InFront ==
    ASSUME NEW T, NEW s \in Seq(T), NEW t \in Seq(T), \A i \in 1 .. Len(s) : ~Evaluates(s[i]),
           Order(t), Once(t), \/ \A j \in 1 .. Len(s) : \E k \in j .. Len(s) : ScriptRuns(s[k])
                              \/ \A i \in 1 .. Len(t) : Evaluates(t[i]) => \E k \in 1 .. i : ScriptRuns(t[k])
    PROVE  Order(s \o t) /\ Once(s \o t) /\ Waiting(s \o t) = Waiting(t)
<1> DEFINE u == s \o t
<1>1. /\ u \in Seq(T) /\ Len(u) = Len(s) + Len(t) /\ Len(s) \in Nat /\ Len(t) \in Nat
      /\ \A i \in 1 .. Len(s) : u[i] = s[i]
      /\ \A i \in 1 .. Len(t) : Len(s) + i \in 1 .. Len(u) /\ u[Len(s) + i] = t[i]
      /\ \A i \in 1 .. Len(u) : i \notin 1 .. Len(s) => i - Len(s) \in 1 .. Len(t) /\ u[i] = t[i - Len(s)]
  BY Concat
<1> HIDE DEF u
<1>2. \A i \in 1 .. Len(u) : Evaluates(u[i]) => i - Len(s) \in 1 .. Len(t) /\ u[i] = t[i - Len(s)]
  BY <1>1
<1>3. ASSUME NEW i \in 1 .. Len(u), NEW j \in 1 .. Len(u), Evaluates(u[i]), j < i
      PROVE  Evaluates(u[j]) \/ \E k \in j .. i : ScriptRuns(u[k])
  <2>1. i - Len(s) \in 1 .. Len(t) /\ u[i] = t[i - Len(s)]
    BY <1>2, <1>3
  <2>2. CASE j \in 1 .. Len(s)
    <3>1. CASE \E k \in j .. Len(s) : ScriptRuns(s[k])
      <4>1. PICK k \in j .. Len(s) : ScriptRuns(s[k])
        BY <3>1
      <4>2. k \in 1 .. Len(s) /\ k \in j .. i
        BY <1>1, <2>1, <2>2, <4>1
      <4> QED
        BY <1>1, <4>1, <4>2
    <3>2. CASE \E k \in 1 .. i - Len(s) : ScriptRuns(t[k])
      <4>1. PICK k \in 1 .. i - Len(s) : ScriptRuns(t[k])
        BY <3>2
      <4>2. k \in 1 .. Len(t) /\ Len(s) + k \in j .. i
        BY <1>1, <2>1, <2>2, <4>1
      <4> QED
        BY <1>1, <4>1, <4>2
    <3> QED
      BY <1>3, <2>1, <2>2, <3>1, <3>2
  <2>3. CASE j \notin 1 .. Len(s)
    <3>1. j - Len(s) \in 1 .. Len(t) /\ u[j] = t[j - Len(s)] /\ j - Len(s) < i - Len(s)
      BY <1>1, <1>3, <2>3
    <3>2. Evaluates(t[j - Len(s)]) \/ \E k \in j - Len(s) .. i - Len(s) : ScriptRuns(t[k])
      BY <1>3, <2>1, <3>1 DEF Order
    <3>3. CASE \E k \in j - Len(s) .. i - Len(s) : ScriptRuns(t[k])
      <4>1. PICK k \in j - Len(s) .. i - Len(s) : ScriptRuns(t[k])
        BY <3>3
      <4>2. k \in 1 .. Len(t) /\ Len(s) + k \in j .. i
        BY <1>1, <2>1, <3>1, <4>1
      <4> QED
        BY <1>1, <4>1, <4>2
    <3> QED
      BY <3>1, <3>2, <3>3
  <2> QED
    BY <2>2, <2>3
<1>4. Once(u)
  <2> SUFFICES ASSUME NEW i \in 1 .. Len(u), NEW j \in 1 .. Len(u),
                      Evaluates(u[i]), Evaluates(u[j]), u[i].node = u[j].node
               PROVE  i = j
    BY DEF Once
  <2>1. i - Len(s) = j - Len(s)
    BY <1>2 DEF Once
  <2> QED
    BY <1>1, <2>1
<1>5. Waiting(u) \subseteq Waiting(t)
  <2>1. \A i \in 1 .. Len(u) : Evaluates(u[i]) => \E j \in 1 .. Len(t) : t[j] = u[i]
    BY <1>2
  <2> QED
    BY <1>1, <2>1, WaitingIn
<1>6. Waiting(t) \subseteq Waiting(u)
  <2>1. \A i \in 1 .. Len(t) : Evaluates(t[i]) => \E j \in 1 .. Len(u) : u[j] = t[i]
    BY <1>1
  <2> QED
    BY <1>1, <2>1, WaitingIn
<1> QED
  BY <1>3, <1>4, <1>5, <1>6 DEF u, Order

\* Evaluations are put in front of an agenda that has none.
LEMMA InFrontOnly ==
    ASSUME NEW T, NEW s \in Seq(T), NEW t \in Seq(T), \A i \in 1 .. Len(s) : Evaluates(s[i]), Once(s), Waiting(t) = {}
    PROVE  Order(s \o t) /\ Once(s \o t) /\ Waiting(s \o t) = Waiting(s)
<1> DEFINE u == s \o t
<1>1. /\ u \in Seq(T) /\ Len(u) = Len(s) + Len(t) /\ Len(s) \in Nat /\ Len(t) \in Nat
      /\ \A i \in 1 .. Len(s) : u[i] = s[i] /\ i \in 1 .. Len(u)
      /\ \A i \in 1 .. Len(u) : i \notin 1 .. Len(s) => i - Len(s) \in 1 .. Len(t) /\ u[i] = t[i - Len(s)]
  BY Concat
<1> HIDE DEF u
<1>2. \A i \in 1 .. Len(t) : ~Evaluates(t[i])
  BY DEF Waiting
<1>3. \A i \in 1 .. Len(u) : Evaluates(u[i]) => i \in 1 .. Len(s)
  BY <1>1, <1>2
<1>4. Order(u)
  BY <1>1, <1>3 DEF Order
<1>5. Once(u)
  BY <1>1, <1>3 DEF Once
<1>6. Waiting(u) \subseteq Waiting(s)
  BY <1>1, <1>3, WaitingIn
<1>7. Waiting(s) \subseteq Waiting(u)
  BY <1>1, WaitingIn
<1> QED
  BY <1>4, <1>5, <1>6, <1>7 DEF u

\* The agenda without its first step.
LEMMA TailOrder ==
    ASSUME NEW T, NEW a \in Seq(T), a # <<>>, Order(a), Once(a)
    PROVE  /\ Order(Tail(a)) /\ Once(Tail(a)) /\ Waiting(Tail(a)) \subseteq Waiting(a)
           /\ Waiting(a) \subseteq Waiting(Tail(a)) \cup {a[1].node}
           /\ ~Evaluates(a[1]) => Waiting(Tail(a)) = Waiting(a)
           /\ Evaluates(a[1]) => a[1].node \notin Waiting(Tail(a)) /\ a[1].node \in Waiting(a)
           /\ ~Evaluates(a[1]) /\ ~ScriptRuns(a[1]) =>
                 \A i \in 1 .. Len(Tail(a)) : Evaluates(Tail(a)[i]) => \E k \in 1 .. i : ScriptRuns(Tail(a)[k])
<1> DEFINE t == Tail(a)
<1>1. t \in Seq(T) /\ Len(a) \in Nat /\ Len(a) >= 1 /\ Len(t) = Len(a) - 1 /\ \A i \in 1 .. Len(t) : t[i] = a[i + 1] /\ i + 1 \in 1 .. Len(a)
  OBVIOUS
<1> HIDE DEF t
<1>2. \A i \in 1 .. Len(a) : i # 1 => i - 1 \in 1 .. Len(t) /\ a[i] = t[i - 1]
  <2> SUFFICES ASSUME NEW i \in 1 .. Len(a), i # 1
               PROVE  i - 1 \in 1 .. Len(t) /\ a[i] = t[i - 1]
    OBVIOUS
  <2>1. i - 1 \in 1 .. Len(t) /\ (i - 1) + 1 = i
    BY <1>1
  <2> QED
    BY <1>1, <2>1
<1>3. Order(t)
  <2> SUFFICES ASSUME NEW i \in 1 .. Len(t), NEW j \in 1 .. Len(t), Evaluates(t[i]), j < i
               PROVE  Evaluates(t[j]) \/ \E k \in j .. i : ScriptRuns(t[k])
    BY DEF Order
  <2>1. Evaluates(a[j + 1]) \/ \E k \in j + 1 .. i + 1 : ScriptRuns(a[k])
    <3>1. i + 1 \in 1 .. Len(a) /\ j + 1 \in 1 .. Len(a) /\ j + 1 < i + 1 /\ Evaluates(a[i + 1])
      BY <1>1
    <3> QED
      BY <3>1 DEF Order
  <2>2. CASE \E k \in j + 1 .. i + 1 : ScriptRuns(a[k])
    <3>1. PICK k \in j + 1 .. i + 1 : ScriptRuns(a[k])
      BY <2>2
    <3>2. k \in 1 .. Len(a) /\ k # 1 /\ k - 1 \in j .. i
      BY <1>1
    <3> QED
      BY <1>2, <3>1, <3>2
  <2> QED
    BY <1>1, <2>1, <2>2
<1>4. Once(t)
  <2> SUFFICES ASSUME NEW i \in 1 .. Len(t), NEW j \in 1 .. Len(t),
                      Evaluates(t[i]), Evaluates(t[j]), t[i].node = t[j].node
               PROVE  i = j
    BY DEF Once
  <2>1. i + 1 = j + 1
    BY <1>1 DEF Once
  <2> QED
    BY <2>1
<1>5. Waiting(t) \subseteq Waiting(a)
  BY <1>1, WaitingIn
<1>6. Waiting(a) \subseteq Waiting(t) \cup {a[1].node}
  BY <1>2 DEF Waiting
<1>7. ~Evaluates(a[1]) => Waiting(a) \subseteq Waiting(t)
  BY <1>2 DEF Waiting
<1>8. Evaluates(a[1]) => a[1].node \notin Waiting(t) /\ a[1].node \in Waiting(a)
  <2> SUFFICES ASSUME Evaluates(a[1])
               PROVE  a[1].node \notin Waiting(t) /\ a[1].node \in Waiting(a)
    OBVIOUS
  <2>1. 1 \in 1 .. Len(a)
    BY <1>1
  <2>2. ASSUME NEW i \in 1 .. Len(t), Evaluates(t[i]), t[i].node = a[1].node
        PROVE  FALSE
    <3>1. i + 1 = 1
      BY <1>1, <2>1, <2>2 DEF Once
    <3> QED
      BY <3>1
  <2> QED
    BY <2>1, <2>2 DEF Waiting
<1>9. ASSUME ~Evaluates(a[1]), ~ScriptRuns(a[1]), NEW i \in 1 .. Len(t), Evaluates(t[i])
      PROVE  \E k \in 1 .. i : ScriptRuns(t[k])
  <2>1. i + 1 \in 1 .. Len(a) /\ 1 \in 1 .. Len(a) /\ 1 < i + 1 /\ Evaluates(a[i + 1])
    BY <1>1, <1>9
  <2>2. PICK k \in 1 .. i + 1 : ScriptRuns(a[k])
    BY <1>9, <2>1 DEF Order
  <2>3. k \in 1 .. Len(a) /\ k # 1 /\ k - 1 \in 1 .. i
    BY <1>1, <1>9, <2>2
  <2> QED
    BY <1>2, <2>2, <2>3
<1> QED
  BY <1>3, <1>4, <1>5, <1>6, <1>7, <1>8, <1>9 DEF t

\* Nothing that is left out is an evaluation or a script that runs.
LEMMA WithoutOrder ==
    ASSUME NEW T, NEW a \in Seq(T), NEW gone, \A s \in gone : ~Evaluates(s) /\ ~ScriptRuns(s), Order(a), Once(a)
    PROVE  Order(Without(a, gone)) /\ Once(Without(a, gone)) /\ Waiting(Without(a, gone)) = Waiting(a)
<1> DEFINE w == Without(a, gone)
<1>1. w \in Seq(T) /\ Len(w) \in Nat /\ Len(a) \in Nat /\ \E e : Embeds(e, w, a, gone)
  BY WithoutEmbeds
<1>2. PICK e : Embeds(e, w, a, gone)
  BY <1>1
<1> HIDE DEF w
<1>3. /\ \A n \in 1 .. Len(w) : e[n] \in 1 .. Len(a) /\ w[n] = a[e[n]]
      /\ \A m, n \in 1 .. Len(w) : m < n => e[m] < e[n]
      /\ \A i \in 1 .. Len(a) : Evaluates(a[i]) \/ ScriptRuns(a[i]) => \E n \in 1 .. Len(w) : e[n] = i
  BY <1>2 DEF Embeds
<1>4. Order(w)
  <2> SUFFICES ASSUME NEW i \in 1 .. Len(w), NEW j \in 1 .. Len(w), Evaluates(w[i]), j < i
               PROVE  Evaluates(w[j]) \/ \E k \in j .. i : ScriptRuns(w[k])
    BY DEF Order
  <2>1. Evaluates(a[e[j]]) \/ \E k \in e[j] .. e[i] : ScriptRuns(a[k])
    BY <1>3 DEF Order
  <2>2. CASE \E k \in e[j] .. e[i] : ScriptRuns(a[k])
    <3>1. PICK k \in e[j] .. e[i] : ScriptRuns(a[k])
      BY <2>2
    <3>2. k \in 1 .. Len(a)
      BY <1>1, <1>3, <3>1
    <3>3. PICK n \in 1 .. Len(w) : e[n] = k
      BY <1>3, <3>1, <3>2
    <3>4. ~(n < j) /\ ~(i < n)
      <4>1. e[n] \in 1 .. Len(a) /\ e[i] \in 1 .. Len(a) /\ e[j] \in 1 .. Len(a) /\ e[j] <= e[n] /\ e[n] <= e[i]
        BY <1>3, <3>1, <3>3
      <4>2. (n < j => e[n] < e[j]) /\ (i < n => e[i] < e[n])
        BY <1>3
      <4> QED
        BY <1>1, <4>1, <4>2
    <3>5. n \in j .. i
      BY <1>1, <3>4
    <3> QED
      BY <1>3, <3>1, <3>3, <3>5
  <2> QED
    BY <1>3, <2>1, <2>2
<1>5. Once(w)
  <2> SUFFICES ASSUME NEW i \in 1 .. Len(w), NEW j \in 1 .. Len(w),
                      Evaluates(w[i]), Evaluates(w[j]), w[i].node = w[j].node
               PROVE  i = j
    BY DEF Once
  <2>1. e[i] = e[j] /\ e[i] \in 1 .. Len(a)
    <3>1. e[i] \in 1 .. Len(a) /\ e[j] \in 1 .. Len(a) /\ w[i] = a[e[i]] /\ w[j] = a[e[j]]
      BY <1>3
    <3> QED
      BY <3>1 DEF Once
  <2>2. (i < j => e[i] < e[j]) /\ (j < i => e[j] < e[i])
    BY <1>3
  <2> QED
    BY <1>1, <2>1, <2>2
<1>6. Waiting(w) \subseteq Waiting(a)
  BY <1>1, <1>3, WaitingIn
<1>7. Waiting(a) \subseteq Waiting(w)
  BY <1>1, <1>3, WaitingIn
<1> QED
  BY <1>4, <1>5, <1>6, <1>7 DEF w

(***************************************************************************)
(* Who is in the document after a change.                                  *)
(***************************************************************************)

\* Two nodes are not above each other.
LEMMA UpAnti ==
    ASSUME NEW f \in Parents, Rooted(f), NEW x \in Nodes, NEW y \in Nodes, Up(f, x, y), Up(f, y, x)
    PROVE  x = y
<1> SUFFICES ASSUME x # y
             PROVE  FALSE
  OBVIOUS
<1> DEFINE C == {z \in Nodes : Up(f, z, x) /\ Up(f, x, z)}
<1>1. x \in C /\ y \in C
  BY UpRefl
<1>2. ASSUME NEW z \in C
      PROVE  f[z] \in C
  <2>1. PICK w \in C : w # z
    BY <1>1
  <2>2. Up(f, z, w)
    BY <2>1, UpTrans
  <2>3. f[z] \in Nodes /\ Up(f, f[z], w)
    BY <2>1, <2>2, UpDown
  <2>4. Up(f, f[z], x)
    BY <2>1, <2>3, UpTrans
  <2>5. Up(f, z, f[z])
    BY <2>3, UpRefl, UpStep
  <2>6. Up(f, x, f[z])
    BY <2>3, <2>5, UpTrans
  <2> QED
    BY <2>3, <2>4, <2>6
<1>3. C \in SUBSET Nodes /\ C # {}
  BY <1>1
<1> QED
  BY <1>2, <1>3 DEF Rooted

\* Who is under a node after some links were cut was before.
LEMMA UpCut ==
    ASSUME NEW f \in Parents, NEW g \in Parents, \A z \in Nodes : g[z] \in {f[z], None},
           NEW x \in Nodes, NEW y \in Nodes, Up(g, x, y)
    PROVE  Up(f, x, y)
  BY DEF Up

\* Being in the document is being under it, before and after a step.
LEMMA InDocUp == \A x \in Nodes : InDoc(x) <=> x # Doc /\ Up(parent, x, Doc)
  BY DEF InDoc, Within, Up

LEMMA InDocUpNext == \A x \in Nodes : InDoc(x)' <=> x # Doc /\ Up(parent', x, Doc)
  BY DEF InDoc, Within, Up

LEMMA WithinUp == \A x, y : Within(x, y) <=> Up(parent, x, y)
  BY DEF Within, Up

\* The document is not in the subtree of anything else, so a set of nodes that have
\* their parents among them, or none, is not in the document.
LEMMA Outside ==
    ASSUME NEW g \in Parents, NEW S \in SUBSET Nodes, Doc \notin S, \A z \in S : g[z] \in S \cup {None}
    PROVE  \A z \in S : ~Up(g, z, Doc)
<1> SUFFICES ASSUME NEW z \in S
             PROVE  ~Up(g, z, Doc)
  OBVIOUS
<1>1. Doc \in Nodes \ S
  BY Constants
<1> QED
  BY <1>1, UpClosed

\* What is in a subtree is in the document if the subtree is.
LEMMA Below ==
    ASSUME Core, NEW x \in Nodes, x # Doc
    PROVE  /\ Doc \notin Subtree(x)
           /\ \A z \in Subtree(x) : z # x => parent[z] \in Subtree(x)
           /\ \A z \in Subtree(x) : InDoc(z) <=> InDoc(x)
<1>1. parent \in Parents /\ parent[Doc] = None /\ Doc \in Nodes
  BY CoreFacts, Constants
<1>2. ~Up(parent, Doc, x)
  BY <1>1, UpTop
<1>3. Doc \notin Subtree(x)
  BY <1>2, WithinUp DEF Subtree
<1>4. ASSUME NEW z \in Subtree(x), z # x
      PROVE  parent[z] \in Subtree(x)
  <2>1. z \in Nodes /\ Up(parent, z, x)
    BY WithinUp DEF Subtree
  <2>2. parent[z] \in Nodes /\ Up(parent, parent[z], x)
    BY <1>1, <1>4, <2>1, UpDown
  <2> QED
    BY <2>2, WithinUp DEF Subtree
<1>5. ASSUME NEW z \in Subtree(x)
      PROVE  InDoc(z) <=> InDoc(x)
  <2>1. z \in Nodes /\ Up(parent, z, x) /\ z # Doc
    BY <1>3, WithinUp DEF Subtree
  <2>2. Up(parent, x, Doc) => Up(parent, z, Doc)
    BY <1>1, <2>1, UpTrans
  <2>3. Up(parent, z, Doc) => Up(parent, x, Doc)
    BY <1>1, <1>2, <2>1, UpChain
  <2> QED
    BY <2>1, <2>2, <2>3, InDocUp
<1> QED
  BY <1>3, <1>4, <1>5

\* A node is in the document after a change exactly if it was, when nothing above it
\* has another parent.
LEMMA Unmoved ==
    ASSUME Core, NEW g \in Parents, parent' = g, NEW D \in SUBSET Nodes, \A z \in Nodes \ D : g[z] = parent[z],
           NEW s \in Nodes, \A d \in D : ~Within(s, d)
    PROVE  InDoc(s)' <=> InDoc(s)
<1>1. parent \in Parents /\ Doc \in Nodes
  BY CoreFacts, Constants
<1>2. \A d \in D : ~Up(parent, s, d)
  BY WithinUp
<1>3. Up(g, s, Doc) <=> Up(parent, s, Doc)
  BY <1>1, <1>2, UpSame
<1> QED
  BY <1>3, InDocUp, InDocUpNext

(***************************************************************************)
(* What a call does to the scripts, when no script has called it.          *)
(***************************************************************************)

After(waiting) ==
    /\ marked' \subseteq evaluated' /\ \A s \in evaluated' : IsScript(s)'
    /\ waiting \cap evaluated' \subseteq marked'
    /\ \A s \in evaluated' : s \in marked' \/ InDoc(s)'
    /\ \A s \in {Script, Copy} : IsScript(s)' /\ InDoc(s)' => s \in evaluated' \cup waiting

\* Evaluated after a step, part by part.
LEMMA AfterEvaluated ==
    ASSUME Still' => Order(agenda') /\ Once(agenda') /\ After(Waiting(agenda'))
    PROVE  Evaluated'
  BY DEF Evaluated, Order, Once, After, Waiting, Pending, Evaluates, ScriptRuns

\* What moves a script when no script runs finds no evaluation to come.
LEMMA Settled ==
    ASSUME Core, Evaluated, Calling, wrong \cup Moved \subseteq wrong', Still'
    PROVE  Still /\ Waiting(agenda) = {} /\ ScriptsOK({}) /\ Order(agenda) /\ Once(agenda)
<1>1. Still /\ ~InScript
  BY DEF Still, Moved, Odd
<1>2. Order(agenda) /\ Once(agenda) /\ ScriptsOK(Waiting(agenda))
  BY <1>1, EvaluatedParts
<1>3. Waiting(agenda) = {}
  <2> SUFFICES ASSUME NEW i \in 1 .. Len(agenda), Evaluates(agenda[i])
               PROVE  FALSE
    BY DEF Waiting
  <2>1. agenda \in Seq(Steps) /\ agenda # <<>>
    <3>1. agenda \in Seq(Steps)
      BY AgendaFits DEF Core
    <3> QED
      BY <3>1
  <2>2. agenda[1].do = "page" /\ 1 \in 1 .. Len(agenda) /\ Len(agenda) \in Nat
    BY <2>1 DEF Calling, MayCall, Now
  <2>3. i # 1 /\ 1 < i
    BY <2>2 DEF Evaluates
  <2>4. PICK k \in 1 .. i : ScriptRuns(agenda[k])
    BY <1>2, <2>2, <2>3 DEF Order, Evaluates
  <2>5. k \in 1 .. Len(agenda)
    BY <2>2
  <2> QED
    BY <1>1, <2>4, <2>5 DEF InScript, ScriptRuns
<1> QED
  BY <1>1, <1>2, <1>3

\* x is moved, and the nodes in G are cleaned.
LEMMA MovedScripts ==
    ASSUME Core, ScriptsOK({}), NEW x \in Nodes, x # Doc, NEW G \in SUBSET Nodes, NEW W,
           \A s \in Nodes : IsScript(s)' => IsScript(s), \A s \in evaluated : IsScript(s)',
           \A s \in Nodes : IsScript(s) /\ ~Within(s, x) /\ s \notin G => (InDoc(s)' <=> InDoc(s)),
           \A s \in G : ~Within(s, x) => ~InDoc(s)',
           W \subseteq Scripts(x), \A s \in Scripts(x) : s \in W \/ ~InDoc(s)',
           marked' = SetGlobalEval(x) \ G, evaluated' = evaluated \ G
    PROVE  After(W)
<1>1. /\ marked \subseteq evaluated /\ \A s \in evaluated : IsScript(s)
      /\ \A s \in evaluated : s \in marked \/ InDoc(s)
      /\ \A s \in {Script, Copy} : IsScript(s) /\ InDoc(s) => s \in evaluated
  BY DEF ScriptsOK
<1>2. Scripts(x) = {s \in Subtree(x) : IsScript(s)} /\ Scripts(x) \subseteq {Script, Copy} /\ {Script, Copy} \subseteq Nodes
      /\ Subtree(x) = {z \in Nodes : Within(z, x)}
  BY Constants DEF Scripts, IsScript, Original, Subtree
<1>3. \A s \in Scripts(x) : InDoc(s) <=> InDoc(x)
  BY <1>2, Below
<1>4. evaluated \subseteq Nodes
  BY <1>2 DEF Core, Marks
<1>5. InDoc(x) => Scripts(x) \subseteq evaluated /\ SetGlobalEval(x) = marked \cup Scripts(x)
  BY <1>1, <1>2, <1>3 DEF SetGlobalEval
<1>6. ~InDoc(x) => SetGlobalEval(x) = marked /\ Scripts(x) \cap evaluated \subseteq marked
  BY <1>1, <1>3 DEF SetGlobalEval
<1>7. SetGlobalEval(x) \subseteq evaluated /\ Scripts(x) \cap evaluated \subseteq SetGlobalEval(x) /\ marked \subseteq SetGlobalEval(x)
  BY <1>1, <1>5, <1>6
<1>8. marked' \subseteq evaluated' /\ (\A s \in evaluated' : IsScript(s)') /\ W \cap evaluated' \subseteq marked'
  BY <1>7
<1>9. ASSUME NEW s \in evaluated'
      PROVE  s \in marked' \/ InDoc(s)'
  <2>1. s \in evaluated /\ s \notin G /\ s \in Nodes /\ IsScript(s)
    BY <1>1, <1>4
  <2>2. CASE Within(s, x)
    BY <1>2, <1>7, <2>1, <2>2
  <2>3. CASE ~Within(s, x)
    BY <1>1, <1>7, <2>1, <2>3
  <2> QED
    BY <2>2, <2>3
<1>10. ASSUME NEW s \in {Script, Copy}, IsScript(s)', InDoc(s)'
       PROVE  s \in evaluated' \cup W
  <2>1. s \in Nodes /\ IsScript(s)
    BY <1>2, <1>10
  <2>2. CASE Within(s, x)
    BY <1>2, <1>10, <2>1, <2>2
  <2>3. CASE ~Within(s, x)
    BY <1>1, <1>10, <2>1, <2>3
  <2> QED
    BY <2>2, <2>3
<1> QED
  BY <1>8, <1>9, <1>10 DEF After

\* Nothing is moved, and the agenda waits for what it waited for.
LEMMA CleanedScripts ==
    ASSUME ScriptsOK(Waiting(agenda)), NEW G \in SUBSET Nodes, UNCHANGED copyOf,
           \A s \in Nodes : s \notin G => (InDoc(s)' <=> InDoc(s)), \A s \in G : ~InDoc(s)',
           marked' = marked \ G, evaluated' = evaluated \ G, evaluated \subseteq Nodes, {Script, Copy} \subseteq Nodes
    PROVE  After(Waiting(agenda))
<1>1. \A s : IsScript(s)' <=> IsScript(s)
  BY DEF IsScript, Original
<1> DEFINE W == Waiting(agenda)
<1> HIDE DEF W
<1> QED
  BY <1>1 DEF After, ScriptsOK, W

\* The evaluations that an insertion puts on the agenda.
LEMMA EvaluationsFacts ==
    ASSUME Core, Calling, NEW x, Evaluations(x), Waiting(agenda) = {}
    PROVE  Order(agenda') /\ Once(agenda') /\ Waiting(agenda') = Scripts(x)
<1> DEFINE n == Len(Disabled(x))
           steps == [i \in 1 .. n |-> Do("evaluate", 0, Disabled(x)[i], None, "script", None)]
           T == Fits(MaxCalls, copyOf)
<1>1. IsFiniteSet(Scripts(x))
  <2>1. Scripts(x) \subseteq Nodes
    BY DEF Scripts, Subtree
  <2> QED
    BY <2>1, Constants, FS_Subset
<1>2. /\ Disabled(x) \in Seq(Scripts(x))
      /\ \A s \in Scripts(x) : \E i \in 1 .. n : Disabled(x)[i] = s
      /\ \A i, j \in 1 .. n : Disabled(x)[i] = Disabled(x)[j] => i = j
  BY <1>1, Listed DEF Disabled
<1>3. steps \in Seq(T) /\ agenda \in Seq(T)
  <2>1. steps \in Seq(T)
    BY EvaluationsFit, CoreFacts
  <2>2. agenda \in Seq(Fits(calls, copyOf))
    BY DEF Core, AgendaOK
  <2>3. \A s \in Seq(Fits(calls, copyOf)) : s \in Seq(T)
    <3>1. calls \in Nat /\ MaxCalls \in Nat /\ calls <= MaxCalls
      BY CoreFacts
    <3> HIDE DEF Fits
    <3> QED
      BY <3>1, FitsGrow
  <2> HIDE DEF Fits, steps
  <2> QED
    BY <2>1, <2>2, <2>3
<1>4. Len(steps) = n /\ n \in Nat /\ \A i \in 1 .. n : Evaluates(steps[i]) /\ steps[i].node = Disabled(x)[i]
  BY <1>2 DEF Do, Evaluates
<1>5. agenda' = steps \o agenda
  BY DEF Evaluations, Call
<1> HIDE DEF steps, n, T
<1>6. Once(steps)
  BY <1>2, <1>4 DEF Once
<1>7. Order(steps \o agenda) /\ Once(steps \o agenda) /\ Waiting(steps \o agenda) = Waiting(steps)
  BY <1>3, <1>4, <1>6, InFrontOnly
<1>8. Waiting(steps) = Scripts(x)
  <2>1. \A i \in 1 .. n : Disabled(x)[i] \in Scripts(x)
    BY <1>2, <1>4 DEF n
  <2> QED
    BY <1>2, <1>4, <2>1 DEF Waiting
<1> QED
  BY <1>5, <1>7, <1>8

\* The same nodes are scripts while none is cloned.
LEMMA SameScripts ==
    ASSUME UNCHANGED copyOf
    PROVE  \A s : IsScript(s)' <=> IsScript(s)
  BY DEF IsScript, Original

\* Scripts are nodes.
LEMMA ScriptNodes ==
    ASSUME Core
    PROVE  evaluated \subseteq Nodes /\ {Script, Copy} \subseteq Nodes
  BY Constants DEF Core, Marks

\* An insertion evaluates the scripts of what was moved.
LEMMA InsertedScripts ==
    ASSUME Core, Evaluated, Calling, wrong \cup Moved \subseteq wrong', Still', NEW x \in Nodes, x # Doc, NEW G \in SUBSET Nodes,
           Evaluations(x), \A s \in Nodes : IsScript(s)' => IsScript(s), \A s \in evaluated : IsScript(s) => IsScript(s)',
           \A s \in Nodes : IsScript(s) /\ ~Within(s, x) /\ s \notin G => (InDoc(s)' <=> InDoc(s)),
           \A s \in G : ~Within(s, x) => ~InDoc(s)',
           marked' = SetGlobalEval(x) \ G, evaluated' = evaluated \ G
    PROVE  Evaluated'
<1>1. Waiting(agenda) = {} /\ ScriptsOK({})
  BY Settled
<1>2. Order(agenda') /\ Once(agenda') /\ Waiting(agenda') = Scripts(x)
  BY <1>1, EvaluationsFacts
<1>3. \A s \in evaluated : IsScript(s)'
  BY <1>1 DEF ScriptsOK
<1>4. \A W : W = Scripts(x) => After(W)
  BY <1>1, <1>3, MovedScripts
<1> QED
  BY <1>2, <1>4, AfterEvaluated

\* Scripts that are removed with their data are forgotten.
LEMMA ForgottenScripts ==
    ASSUME Core, Evaluated, Call(<<>>), wrong \subseteq wrong', UNCHANGED copyOf, NEW G \in SUBSET Nodes,
           \A s \in Nodes : s \notin G => (InDoc(s)' <=> InDoc(s)), \A s \in G : ~InDoc(s)',
           marked' = marked \ G, evaluated' = evaluated \ G
    PROVE  Evaluated'
<1> SUFFICES ASSUME Still'
             PROVE  Order(agenda') /\ Once(agenda') /\ After(Waiting(agenda'))
  BY AfterEvaluated
<1>1. Still
  BY DEF Still
<1>2. Order(agenda) /\ Once(agenda) /\ ScriptsOK(Waiting(agenda))
  BY <1>1, EvaluatedParts
<1>3. agenda' = agenda
  <2>1. agenda \in Seq(Steps)
    BY AgendaFits DEF Core
  <2> QED
    BY <2>1 DEF Call
<1>4. After(Waiting(agenda))
  BY <1>2, ScriptNodes, CleanedScripts
<1> QED
  BY <1>2, <1>3, <1>4

\* The calls that take nodes away,
LEMMA RemoveScripts ==
    ASSUME Core, Core', Evaluated, NEW x \in Nodes, RemoveNode(x)
    PROVE  Evaluated'
<1> DEFINE g == [parent EXCEPT ![x] = None]
           S == Subtree(x)
<1>1. Calling /\ UNCHANGED copyOf /\ CleanData(S) /\ wrong \subseteq wrong' /\ marked' = marked \ S /\ Call(<<>>) /\ parent' = g /\ x # Doc
  BY DEF RemoveNode
<1>2. evaluated' = evaluated \ S /\ S \in SUBSET Nodes
  BY <1>1, Marking DEF CleanData
<1>3. g \in Parents /\ parent \in Parents
  BY CoreFacts DEF Parents
<1>4. ASSUME NEW s \in Nodes, s \notin S
      PROVE  InDoc(s)' <=> InDoc(s)
  <2>1. {x} \in SUBSET Nodes /\ \A z \in Nodes \ {x} : g[z] = parent[z]
    BY <1>3 DEF Parents
  <2>2. \A d \in {x} : ~Within(s, d)
    BY <1>4 DEF Subtree
  <2> QED
    BY <1>1, <1>3, <2>1, <2>2, Unmoved
<1>5. \A s \in S : ~InDoc(s)'
  <2>1. Doc \notin S /\ \A z \in S : g[z] \in S \cup {None}
    BY <1>1, <1>2, <1>3, Below DEF Parents
  <2>2. \A s \in S : ~Up(g, s, Doc)
    BY <1>2, <1>3, <2>1, Outside
  <2> QED
    BY <1>1, <1>2, <2>2, InDocUpNext
<1> QED
  BY <1>1, <1>2, <1>4, <1>5, ForgottenScripts

LEMMA EmptyScripts ==
    ASSUME Core, Core', Evaluated, NEW x \in Nodes, Empty(x)
    PROVE  Evaluated'
<1> DEFINE g == [z \in Nodes |-> IF parent[z] = x THEN None ELSE parent[z]]
           S == Subtree(x) \ {x}
           D == {d \in Nodes : parent[d] = x}
<1>1. Calling /\ UNCHANGED copyOf /\ CleanData(S) /\ wrong \subseteq wrong' /\ marked' = marked \ S /\ Call(<<>>) /\ parent' = g /\ x # Doc
  BY DEF Empty
<1>2. evaluated' = evaluated \ S /\ S \in SUBSET Nodes
  BY <1>1, Marking DEF CleanData
<1>3. g \in Parents /\ parent \in Parents /\ Rooted(parent)
  BY CoreFacts DEF Parents
<1>4. ASSUME NEW s \in Nodes, s \notin S
      PROVE  InDoc(s)' <=> InDoc(s)
  <2>1. D \in SUBSET Nodes /\ \A z \in Nodes \ D : g[z] = parent[z]
    OBVIOUS
  <2>2. ASSUME NEW d \in D, Within(s, d)
        PROVE  FALSE
    <3>1. Up(parent, s, d) /\ Up(parent, d, x) /\ d \in Nodes
      BY <2>2, WithinUp, UpRefl, UpStep
    <3>2. Up(parent, s, x)
      BY <1>3, <3>1, UpTrans
    <3>3. s = x
      BY <1>4, <3>2, WithinUp DEF Subtree
    <3>4. d = x
      BY <1>3, <3>1, <3>3, UpAnti
    <3>5. parent[x] = x
      BY <3>4
    <3>6. {x} \in SUBSET Nodes /\ {x} # {}
      OBVIOUS
    <3> QED
      BY <1>3, <3>5, <3>6 DEF Rooted
  <2> QED
    BY <1>1, <1>3, <2>1, <2>2, Unmoved
<1>5. \A s \in S : ~InDoc(s)'
  <2>1. Doc \notin S /\ \A z \in S : g[z] \in S \cup {None}
    BY <1>1, <1>2, <1>3, Below
  <2>2. \A s \in S : ~Up(g, s, Doc)
    BY <1>2, <1>3, <2>1, Outside
  <2> QED
    BY <1>1, <1>2, <2>2, InDocUpNext
<1> QED
  BY <1>1, <1>2, <1>4, <1>5, ForgottenScripts

LEMMA DetachScripts ==
    ASSUME Core, Core', Evaluated, NEW x \in Nodes, DetachNode(x)
    PROVE  Evaluated'
<1> SUFFICES ASSUME Still'
             PROVE  Order(agenda') /\ Once(agenda') /\ After(Waiting(agenda'))
  BY AfterEvaluated
<1> DEFINE g == [parent EXCEPT ![x] = None]
           S == Subtree(x)
<1>1. Calling /\ UNCHANGED copyOf /\ wrong \cup Moved \subseteq wrong' /\ marked' = SetGlobalEval(x) /\ Call(<<>>) /\ parent' = g
      /\ x # Doc /\ evaluated' = evaluated
  BY DEF DetachNode
<1>2. Waiting(agenda) = {} /\ ScriptsOK({}) /\ Order(agenda) /\ Once(agenda)
  BY <1>1, Settled
<1>3. agenda' = agenda
  <2>1. agenda \in Seq(Steps)
    BY AgendaFits DEF Core
  <2> QED
    BY <1>1, <2>1 DEF Call
<1>4. g \in Parents /\ parent \in Parents /\ S \in SUBSET Nodes
  BY CoreFacts, Marking DEF Parents
<1>5. ASSUME NEW s \in Nodes, ~Within(s, x)
      PROVE  InDoc(s)' <=> InDoc(s)
  <2>1. {x} \in SUBSET Nodes /\ \A z \in Nodes \ {x} : g[z] = parent[z]
    BY <1>4 DEF Parents
  <2> QED
    BY <1>1, <1>4, <1>5, <2>1, Unmoved
<1>6. \A s \in S : ~InDoc(s)'
  <2>1. Doc \notin S /\ \A z \in S : g[z] \in S \cup {None}
    BY <1>1, <1>4, Below DEF Parents
  <2>2. \A s \in S : ~Up(g, s, Doc)
    BY <1>4, <2>1, Outside
  <2> QED
    BY <1>1, <1>4, <2>2, InDocUpNext
<1>7. After({})
  <2>1. \A s \in Scripts(x) : ~InDoc(s)'
    BY <1>6 DEF Scripts
  <2>2. \A s \in evaluated : IsScript(s)'
    BY <1>1, <1>2, SameScripts DEF ScriptsOK
  <2>3. marked' = SetGlobalEval(x) \ {} /\ evaluated' = evaluated \ {}
    BY <1>1
  <2>4. {} \in SUBSET Nodes /\ {} \subseteq Scripts(x) /\ \A s \in {} : ~Within(s, x) => ~InDoc(s)'
    OBVIOUS
  <2>5. \A s \in Nodes : IsScript(s)' => IsScript(s)
    BY <1>1, SameScripts
  <2> QED
    BY <1>1, <1>2, <1>5, <2>1, <2>2, <2>3, <2>4, <2>5, MovedScripts
<1> QED
  BY <1>2, <1>3, <1>7

\* A node is put elsewhere: append(), before() and after().
LEMMA PutScripts ==
    ASSUME Core, Core', Evaluated, Calling, wrong \cup Moved \subseteq wrong', UNCHANGED <<copyOf, evaluated>>,
           NEW x \in Nodes, x # Doc, NEW to, parent' = [parent EXCEPT ![x] = to], Evaluations(x), marked' = BuildFragment(x)
    PROVE  Evaluated'
<1> SUFFICES ASSUME Still'
             PROVE  Evaluated'
  BY DEF Evaluated
<1> DEFINE g == [parent EXCEPT ![x] = to]
<1>1. parent \in Parents /\ parent' \in Parents /\ {x} \in SUBSET Nodes /\ \A z \in Nodes \ {x} : parent'[z] = parent[z]
  BY CoreFacts DEF Core, TreeOK, Parents
<1>2. ASSUME NEW s \in Nodes, ~Within(s, x)
      PROVE  InDoc(s)' <=> InDoc(s)
  BY <1>1, <1>2, Unmoved
<1>3. marked' = SetGlobalEval(x) \ {} /\ evaluated' = evaluated \ {} /\ {} \in SUBSET Nodes
  BY DEF BuildFragment
<1> QED
  BY <1>2, <1>3, SameScripts, InsertedScripts

\* those that put them somewhere,
LEMMA AppendScripts ==
    ASSUME Core, Core', Evaluated, NEW x \in Nodes, NEW y, AppendNode(x, y)
    PROVE  Evaluated'
  BY PutScripts DEF AppendNode, DomManip

LEMMA BesideScripts ==
    ASSUME Core, Core', Evaluated, NEW x \in Nodes, NEW y, InsertBeside(x, y)
    PROVE  Evaluated'
<1>1. x # Doc /\ Calling /\ wrong \cup Moved \subseteq wrong' /\ UNCHANGED <<copyOf, evaluated>>
      /\ parent' = [parent EXCEPT ![x] = parent[y]] /\ Evaluations(x) /\ marked' = BuildFragment(x)
  BY DEF InsertBeside, DomManip
<1>2. \A to : to = parent[y] => parent' = [parent EXCEPT ![x] = to]
  BY <1>1
<1> QED
  BY <1>1, <1>2, PutScripts

LEMMA ReplaceScripts ==
    ASSUME Core, Core', Evaluated, NEW x \in Nodes, NEW y \in Nodes, ReplaceWith(y, x)
    PROVE  Evaluated'
<1> SUFFICES ASSUME Still'
             PROVE  Evaluated'
  BY DEF Evaluated
<1> DEFINE G == Subtree(y) \ Subtree(x)
<1>1. /\ Calling /\ UNCHANGED copyOf /\ CleanData(G) /\ wrong \cup Moved \subseteq wrong' /\ marked' = BuildFragment(x) \ G
      /\ Evaluations(x) /\ parent' = [parent EXCEPT ![x] = parent[y], ![y] = None] /\ x # Doc /\ y # Doc
  BY DEF ReplaceWith
<1>2. evaluated' = evaluated \ G /\ G \in SUBSET Nodes /\ marked' = SetGlobalEval(x) \ G
  BY <1>1, Marking DEF CleanData, BuildFragment
<1>3. parent \in Parents /\ parent' \in Parents
  BY CoreFacts DEF Core, TreeOK
<1>4. ASSUME NEW s \in Nodes, ~Within(s, x), s \notin G
      PROVE  InDoc(s)' <=> InDoc(s)
  <2>1. {x, y} \in SUBSET Nodes /\ \A z \in Nodes \ {x, y} : parent'[z] = parent[z]
    BY <1>1, <1>3 DEF Parents
  <2>2. \A d \in {x, y} : ~Within(s, d)
    BY <1>4 DEF Subtree
  <2> QED
    BY <1>3, <2>1, <2>2, Unmoved
<1>5. \A s \in G : ~InDoc(s)'
  <2>1. Doc \notin G
    BY <1>1, Below
  <2>2. ASSUME NEW z \in G
        PROVE  parent'[z] \in G \cup {None}
    <3>1. z \in Nodes /\ z # x /\ ~Within(z, x)
      BY UpRefl, WithinUp DEF Subtree
    <3>2. CASE z = y
      BY <1>1, <1>3, <3>1, <3>2 DEF Parents
    <3>3. CASE z # y
      <4>1. parent'[z] = parent[z] /\ parent[z] \in Subtree(y)
        BY <1>1, <1>3, <3>1, <3>3, Below DEF Parents
      <4>2. parent[z] \in Nodes
        BY <4>1 DEF Subtree
      <4>3. ~Within(parent[z], x)
        BY <3>1, <4>2, UpStep, WithinUp
      <4> QED
        BY <4>1, <4>3 DEF Subtree
    <3> QED
      BY <3>2, <3>3
  <2>3. \A s \in G : ~Up(parent', s, Doc)
    BY <1>2, <1>3, <2>1, <2>2, Outside
  <2> QED
    BY <1>2, <2>3, InDocUpNext
<1> QED
  BY <1>1, <1>2, <1>4, <1>5, SameScripts, InsertedScripts

LEMMA UnwrapScripts ==
    ASSUME Core, Core', Evaluated, NEW x \in Nodes, Unwrap(x)
    PROVE  Evaluated'
<1> SUFFICES ASSUME Still'
             PROVE  Evaluated'
  BY DEF Evaluated
<1> DEFINE y == parent[x]
           D == {d \in Nodes : d = y \/ parent[d] = y}
<1>1. /\ Calling /\ UNCHANGED copyOf /\ CleanData({y}) /\ wrong \cup Moved \subseteq wrong' /\ marked' = BuildFragment(y) \ {y}
      /\ Evaluations(y) /\ y \notin {Doc, None}
      /\ parent' = [z \in Nodes |-> IF z = y THEN None ELSE IF parent[z] = y THEN parent[y] ELSE parent[z]]
  BY DEF Unwrap
<1>2. parent \in Parents /\ parent' \in Parents /\ y \in Nodes
  BY <1>1, CoreFacts DEF Core, TreeOK, Parents
<1>3. evaluated' = evaluated \ {y} /\ {y} \in SUBSET Nodes /\ marked' = SetGlobalEval(y) \ {y}
  BY <1>1, <1>2 DEF CleanData, BuildFragment
<1>4. ASSUME NEW s \in Nodes, ~Within(s, y)
      PROVE  InDoc(s)' <=> InDoc(s)
  <2>1. D \in SUBSET Nodes /\ \A z \in Nodes \ D : parent'[z] = parent[z]
    BY <1>1
  <2>2. ASSUME NEW d \in D, Within(s, d)
        PROVE  FALSE
    <3>1. Up(parent, d, y) /\ d \in Nodes
      BY <1>2, UpRefl, UpStep
    <3> QED
      BY <1>2, <1>4, <2>2, <3>1, UpTrans, WithinUp
  <2> QED
    BY <1>2, <2>1, <2>2, Unmoved
<1>5. \A s \in {y} : Within(s, y)
  BY <1>2, UpRefl, WithinUp
<1> HIDE DEF y, D
<1> QED
  BY <1>1, <1>2, <1>3, <1>4, <1>5, SameScripts, InsertedScripts

LEMMA WrapScripts ==
    ASSUME Core, Core', Evaluated, NEW x \in Present, NEW w \in Nodes, WrapAll(x, w)
    PROVE  Evaluated'
<1> SUFFICES ASSUME Still'
             PROVE  Evaluated'
  BY DEF Evaluated
<1>1. /\ Calling /\ x # Doc /\ w \in Elems /\ ~IsScript(w) /\ copyOf = None /\ copyOf' = w /\ Evaluations(x)
      /\ parent' = [parent EXCEPT ![Copy] = parent[x], ![x] = Copy] /\ marked' = BuildFragment(x)
      /\ wrong \cup Moved \subseteq wrong' /\ UNCHANGED evaluated
  BY DEF WrapAll
<1>2. /\ x \in Nodes /\ x # Copy /\ parent \in Parents /\ parent' \in Parents /\ Copy \in Nodes /\ Script # Copy /\ None # Script
      /\ (\A z \in Nodes : parent[z] # Copy) /\ Copy \notin evaluated /\ w # Copy /\ Copy # None
  BY <1>1, CoreFacts, Constants, EventsAssumption DEF Core, TreeOK, Fresh, Nodes
<1>3. w # Script
  BY <1>1, <1>2 DEF IsScript, Original
<1>4. (\A s \in Nodes : IsScript(s)' => IsScript(s)) /\ (\A s \in Nodes : s # Copy => (IsScript(s)' <=> IsScript(s))) /\ ~IsScript(Copy)
  BY <1>1, <1>2, <1>3 DEF IsScript, Original
<1>5. ASSUME NEW s \in Nodes, ~Within(s, x), IsScript(s)
      PROVE  InDoc(s)' <=> InDoc(s)
  <2>1. {x, Copy} \in SUBSET Nodes /\ \A z \in Nodes \ {x, Copy} : parent'[z] = parent[z]
    BY <1>1, <1>2 DEF Parents
  <2>2. s # Copy
    BY <1>4, <1>5
  <2>3. ~Up(parent, s, Copy)
    <3>1. Nodes \ {Copy} \in SUBSET Nodes /\ s \in Nodes \ {Copy} /\ Copy \in Nodes \ (Nodes \ {Copy})
          /\ \A z \in Nodes \ {Copy} : parent[z] \in (Nodes \ {Copy}) \cup {None}
      BY <1>2, <2>2 DEF Parents
    <3> QED
      BY <3>1, UpClosed
  <2>4. \A d \in {x, Copy} : ~Within(s, d)
    BY <1>5, <2>3, WithinUp
  <2> QED
    BY <1>2, <2>1, <2>4, Unmoved
<1>6. marked' = SetGlobalEval(x) \ {} /\ evaluated' = evaluated \ {} /\ {} \in SUBSET Nodes
  BY <1>1 DEF BuildFragment
<1>7. \A s \in evaluated : s \in Nodes /\ s # Copy
  BY <1>2, ScriptNodes
<1> QED
  BY <1>1, <1>2, <1>4, <1>5, <1>6, <1>7, InsertedScripts

\* and clone().
LEMMA CloneScripts ==
    ASSUME Core, Core', Evaluated, NEW x \in Nodes, CloneNode(x)
    PROVE  Evaluated'
<1> SUFFICES ASSUME Still'
             PROVE  Order(agenda') /\ Once(agenda') /\ After(Waiting(agenda'))
  BY AfterEvaluated
<1>1. /\ Calling /\ x \in Elems /\ copyOf = None /\ copyOf' = x /\ Call(<<>>) /\ UNCHANGED parent /\ wrong \cup Moved \subseteq wrong'
      /\ marked' = (IF IsScript(x) /\ (InDoc(x) \/ x \in marked) THEN marked \cup {Copy} ELSE marked)
      /\ evaluated' = (IF x \in evaluated THEN evaluated \cup {Copy} ELSE evaluated)
  BY DEF CloneNode
<1>2. Waiting(agenda) = {} /\ ScriptsOK({}) /\ Order(agenda) /\ Once(agenda)
  BY <1>1, Settled
<1>3. agenda' = agenda
  <2>1. agenda \in Seq(Steps)
    BY AgendaFits DEF Core
  <2> QED
    BY <1>1, <2>1 DEF Call
<1>4. /\ Copy \in Nodes /\ Script \in Nodes /\ x # Copy /\ Script # Copy /\ None # Script /\ parent[Copy] = None /\ Copy # Doc /\ Doc \in Nodes
      /\ Copy \notin marked \cup evaluated
  BY <1>1, Constants, EventsAssumption DEF Core, Fresh, Nodes
<1>5. ~IsScript(Copy) /\ (IsScript(x) <=> x = Script) /\ (IsScript(Copy)' <=> x = Script) /\ IsScript(Script) /\ IsScript(Script)'
      /\ \A s : s # Copy => (IsScript(s)' <=> IsScript(s))
  BY <1>1, <1>4 DEF IsScript, Original
<1>6. ~InDoc(Copy)' /\ \A s \in Nodes : InDoc(s)' <=> InDoc(s)
  <2>1. ~Up(parent, Copy, Doc)
    BY <1>4, UpTop
  <2> QED
    BY <1>1, <1>4, <2>1, InDocUp, InDocUpNext
<1>7. /\ marked \subseteq evaluated /\ \A s \in evaluated : IsScript(s)
      /\ \A s \in evaluated : s \in marked \/ InDoc(s)
      /\ InDoc(Script) => Script \in evaluated
  BY <1>2, <1>5 DEF ScriptsOK
<1>8. evaluated \subseteq Nodes /\ evaluated' \subseteq Nodes
  BY <1>1, <1>4, ScriptNodes
<1>9. After({})
  <2>1. marked' \subseteq evaluated'
    BY <1>1, <1>5, <1>7
  <2>2. \A s \in evaluated' : IsScript(s)'
    BY <1>1, <1>4, <1>5, <1>7
  <2>3. \A s \in evaluated' : s \in marked' \/ InDoc(s)'
    BY <1>1, <1>4, <1>5, <1>6, <1>7, <1>8
  <2>4. \A s \in {Script, Copy} : IsScript(s)' /\ InDoc(s)' => s \in evaluated'
    BY <1>1, <1>4, <1>6, <1>7
  <2> QED
    BY <2>1, <2>2, <2>3, <2>4 DEF After
<1> QED
  BY <1>2, <1>3, <1>9

(***************************************************************************)
(* What the steps of events do to the scripts: nothing.                    *)
(***************************************************************************)

\* The steps of an event are no evaluations.
LEMMA OnesPlain ==
    ASSUME NEW n, NEW c, NEW ev \in Nat, ev # 0, NEW s \in Seq(Ones(n, c, ev))
    PROVE  \A i \in 1 .. Len(s) : ~Evaluates(s[i]) /\ ~ScriptRuns(s[i])
<1>1. \A i \in 1 .. Len(s) : s[i].ev = ev /\ s[i] \in Fits(n, c)
  BY OnesFit
<1>2. \A t \in Fits(n, c) : t.ev # 0 => ~Evaluates(t) /\ ~ScriptRuns(t)
  BY DEF Fits, Evaluates, ScriptRuns
<1> QED
  BY <1>1, <1>2

\* What the engine puts in the place of the step it takes.
LEMMA EngineAgenda ==
    ASSUME Core, Capture \/ Handle \/ Run \/ Default \/ End
    PROVE  /\ agenda # <<>> /\ Todo.do \notin {"page", "evaluate"} /\ Todo.ev \in 1 .. calls /\ UNCHANGED <<tree, marked, calls, evaluated>>
           /\ \E steps \in Seq(Ones(calls, copyOf, Todo.ev)) : Then(steps)
<1>1. AgendaOK /\ IsTree /\ Data /\ calls \in Nat /\ calls <= MaxCalls
  BY CoreFacts DEF Core
<1>2. <<>> \in Seq(Ones(calls, copyOf, Todo.ev))
  <2> HIDE DEF Ones
  <2> QED
    OBVIOUS
<1>3. CASE Capture
  <2>1. agenda # <<>> /\ Todo.do = "capture" /\ Then(IF attaches > 0 THEN Simulated(Todo.ev, Todo.node) ELSE <<>>)
        /\ UNCHANGED <<tree, marked, calls, evaluated>>
    BY <1>3, NowFacts DEF Capture, history
  <2>2. Todo.ev \in 1 .. calls /\ Todo.node \in Nodes /\ Path(Todo.node) \in Seq(Nodes) /\ "focusin" \in Keys
    BY <1>1, <2>1, TodoType, PathFacts DEF Keys
  <2>3. Fires(Todo.ev, Todo.node, Path(Todo.node), "focusin") \in Seq(Ones(calls, copyOf, Todo.ev))
    BY <1>1, <2>2, FiresFit
  <2>4. Simulated(Todo.ev, Todo.node) \in Seq(Ones(calls, copyOf, Todo.ev))
    BY <1>2, <2>3 DEF Simulated
  <2> HIDE DEF Ones
  <2> QED
    BY <1>2, <2>1, <2>2, <2>4
<1>4. CASE Handle
  <2> DEFINE heard == IF Todo.do = "fire" THEN handlers[Todo.at][Todo.key] # <<>>
                      ELSE Todo.key \in listener[Todo.at]
             queue == HandlerQueue(Fixed(Todo), Todo.at)
  <2>1. agenda # <<>> /\ Todo.do \in {"fire", "deliver"} /\ Then(IF heard /\ ~Discards(Todo.key) THEN queue ELSE <<>>)
        /\ UNCHANGED <<tree, marked, calls, evaluated>>
    BY <1>4, NowFacts DEF Handle, history
  <2>2. Todo.ev \in 1 .. calls /\ Todo.node \in Nodes /\ Todo.at \in Nodes /\ Todo.key \in Keys
    BY <1>1, <2>1, TodoType
  <2>3. queue \in Seq(Ones(calls, copyOf, Todo.ev))
    BY <1>1, <2>2, QueueFits DEF Fixed
  <2> HIDE DEF Ones, heard, queue
  <2> QED
    BY <1>2, <2>1, <2>2, <2>3
<1>5. CASE Run
  <2> DEFINE step == Do("page", Todo.ev, Todo.node, Todo.at, "handler", Todo.h)
  <2>1. agenda # <<>> /\ Todo.do = "run" /\ Then(<<step>>) /\ UNCHANGED <<tree, marked, calls, evaluated>>
    BY <1>5, NowFacts DEF Run
  <2>2. Todo.ev \in 1 .. calls /\ Todo.node \in Nodes /\ Todo.at \in Nodes /\ Todo.h \in Handlers
    BY <1>1, <2>1, TodoType
  <2>3. step \in Ones(calls, copyOf, Todo.ev)
    BY <1>1, <2>2, StepOnes
  <2> HIDE DEF Ones, step
  <2>4. <<step>> \in Seq(Ones(calls, copyOf, Todo.ev))
    BY <2>3
  <2>5. Todo.do \notin {"page", "evaluate"}
    BY <2>1
  <2> QED
    BY <2>1, <2>2, <2>4, <2>5
<1>6. CASE Default
  <2> DEFINE native == Native(Todo.ev, Todo.node, Todo.key)
             step == Do("end", Todo.ev, Todo.node, Todo.at, Todo.key, None)
  <2>1. agenda # <<>> /\ Todo.do = "default" /\ Then(native \o <<step>>) /\ UNCHANGED <<tree, marked, calls, evaluated>>
    BY <1>6, NowFacts DEF Default, history
  <2>2. Todo.ev \in 1 .. calls /\ Todo.node \in Nodes /\ Todo.key \in {"click", "focus"} /\ Todo \in Steps /\ Todo.at \in Nodes \cup {None}
    BY <1>1, <2>1, TodoType DEF Steps
  <2>3. native \in Seq(Ones(calls, copyOf, Todo.ev))
    BY <1>1, <2>2, NativeFits
  <2>4. step \in Ones(calls, copyOf, Todo.ev)
    BY <1>1, <2>2, EventsAssumption DEF Ones, Fits, Steps, Do, Keys
  <2> HIDE DEF Ones, native, step
  <2>5. native \o <<step>> \in Seq(Ones(calls, copyOf, Todo.ev))
    BY <2>3, <2>4
  <2> QED
    BY <2>1, <2>2, <2>5
<1>7. CASE End
  <2>1. agenda # <<>> /\ Todo.do = "end" /\ Then(<<>>) /\ UNCHANGED <<tree, marked, calls, evaluated>>
    BY <1>7, NowFacts DEF End, history
  <2>2. Todo.ev \in 1 .. calls
    BY <1>1, <2>1, TodoType
  <2> HIDE DEF Ones
  <2> QED
    BY <1>2, <2>1, <2>2
<1> QED
  BY <1>3, <1>4, <1>5, <1>6, <1>7

\* When no node moves, the scripts are as they were.
LEMMA UnmovedScripts ==
    ASSUME UNCHANGED <<tree, marked, evaluated>>, NEW W, ScriptsOK(W)
    PROVE  After(W)
  BY DEF ScriptsOK, After, tree, IsScript, Original, InDoc, Within

\* what a call puts in front of an agenda
LEMMA CalledScripts ==
    ASSUME Core, Evaluated, Calling, UNCHANGED <<tree, marked, evaluated>>, wrong \subseteq wrong',
           NEW steps \in Seq(Ones(calls', copyOf, calls')), Call(steps)
    PROVE  Evaluated'
<1> SUFFICES ASSUME Still'
             PROVE  Order(agenda') /\ Once(agenda') /\ After(Waiting(agenda'))
  BY AfterEvaluated
<1> DEFINE T == Fits(calls', copyOf)
<1>1. Still
  BY DEF Still
<1>2. Order(agenda) /\ Once(agenda) /\ ScriptsOK(Waiting(agenda))
  BY <1>1, EvaluatedParts
<1>3. calls' \in Nat /\ calls' # 0 /\ calls \in Nat /\ calls <= calls'
  BY CallFacts, CoreFacts
<1>4. steps \in Seq(T) /\ \A i \in 1 .. Len(steps) : ~Evaluates(steps[i])
  <2>1. steps \in Seq(T)
    BY OnesFit
  <2>2. \A i \in 1 .. Len(steps) : ~Evaluates(steps[i])
    BY <1>3, OnesPlain
  <2> HIDE DEF T, Ones
  <2> QED
    BY <2>1, <2>2
<1>5. agenda \in Seq(Fits(calls, copyOf))
  BY DEF Core, AgendaOK
<1>6. agenda \in Seq(T)
  <2>1. \A s \in Seq(Fits(calls, copyOf)) : s \in Seq(T)
    <3> HIDE DEF Fits
    <3> QED
      BY <1>3, FitsGrow
  <2> HIDE DEF T, Fits
  <2> QED
    BY <1>5, <2>1
<1>7. ASSUME NEW i \in 1 .. Len(agenda), Evaluates(agenda[i])
      PROVE  \E k \in 1 .. i : ScriptRuns(agenda[k])
  <2>1. agenda # <<>> /\ Len(agenda) \in Nat
    <3> HIDE DEF T
    <3> QED
      BY <1>6
  <2>2. agenda[1].do = "page" /\ 1 \in 1 .. Len(agenda)
    BY <2>1 DEF Calling, MayCall, Now
  <2>3. 1 < i
    BY <1>7, <2>1, <2>2 DEF Evaluates
  <2> QED
    BY <1>2, <1>7, <2>2, <2>3 DEF Order, Evaluates
<1> HIDE DEF T
<1>8. Order(steps \o agenda) /\ Once(steps \o agenda) /\ Waiting(steps \o agenda) = Waiting(agenda)
  BY <1>2, <1>4, <1>6, <1>7, InFront
<1>9. agenda' = steps \o agenda
  BY DEF Call
<1>10. After(Waiting(agenda))
  BY <1>2, UnmovedScripts
<1> QED
  BY <1>8, <1>9, <1>10

\* The steps of events.
LEMMA EngineScripts ==
    ASSUME Core, Evaluated, wrong \subseteq wrong', Capture \/ Handle \/ Run \/ Default \/ End
    PROVE  Evaluated'
<1> SUFFICES ASSUME Still'
             PROVE  Order(agenda') /\ Once(agenda') /\ After(Waiting(agenda'))
  BY AfterEvaluated
<1> DEFINE T == Fits(calls, copyOf)
<1>1. Still
  BY DEF Still
<1>2. Order(agenda) /\ Once(agenda) /\ ScriptsOK(Waiting(agenda))
  BY <1>1, EvaluatedParts
<1>3. agenda # <<>> /\ Todo.do \notin {"page", "evaluate"} /\ Todo.ev \in 1 .. calls /\ UNCHANGED <<tree, marked, calls, evaluated>>
      /\ calls \in Nat
  BY EngineAgenda, CoreFacts
<1>4. PICK steps \in Seq(Ones(calls, copyOf, Todo.ev)) : Then(steps)
  BY EngineAgenda
<1>5. steps \in Seq(T)
  BY <1>4, OnesFit
<1>6. \A i \in 1 .. Len(steps) : ~Evaluates(steps[i])
  BY <1>3, <1>4, OnesPlain
<1>7. agenda \in Seq(T) /\ Tail(agenda) \in Seq(T) /\ Todo = agenda[1]
  BY <1>3, Popped DEF Core, AgendaOK
<1>8. ~Evaluates(agenda[1]) /\ ~ScriptRuns(agenda[1])
  BY <1>3, <1>7 DEF Evaluates, ScriptRuns
<1>9. After(Waiting(agenda))
  BY <1>2, <1>3, UnmovedScripts
<1> HIDE DEF T
<1>10. /\ Order(Tail(agenda)) /\ Once(Tail(agenda)) /\ Waiting(Tail(agenda)) = Waiting(agenda)
       /\ \A i \in 1 .. Len(Tail(agenda)) : Evaluates(Tail(agenda)[i]) => \E k \in 1 .. i : ScriptRuns(Tail(agenda)[k])
  BY <1>2, <1>3, <1>7, <1>8, TailOrder
<1>11. /\ Order(steps \o Tail(agenda)) /\ Once(steps \o Tail(agenda))
       /\ Waiting(steps \o Tail(agenda)) = Waiting(Tail(agenda))
  BY <1>5, <1>6, <1>7, <1>10, InFront
<1> QED
  BY <1>4, <1>9, <1>10, <1>11 DEF Then

\* A function returns.
LEMMA PageScripts ==
    ASSUME Core, Evaluated, NEW how, PageReturns(how)
    PROVE  Evaluated'
<1> SUFFICES ASSUME Still'
             PROVE  Order(agenda') /\ Once(agenda') /\ After(Waiting(agenda'))
  BY AfterEvaluated
<1>1. agenda # <<>> /\ Todo.do = "page" /\ UNCHANGED <<tree, marked, evaluated, wrong>>
  BY NowFacts DEF PageReturns
<1>2. PICK gone : /\ agenda' = Without(Tail(agenda), gone)
                  /\ \A s \in gone : s.do \in {"fire", "deliver", "run", "default"}
  BY DEF PageReturns, Silences
<1>3. Order(agenda) /\ Once(agenda) /\ ScriptsOK(Waiting(agenda))
  BY <1>1, EvaluatedParts DEF Still
<1>4. agenda \in Seq(Steps) /\ Tail(agenda) \in Seq(Steps) /\ Todo = agenda[1]
  <2>1. agenda \in Seq(Steps)
    BY AgendaFits DEF Core
  <2> HIDE DEF Steps
  <2> QED
    BY <1>1, <2>1 DEF Todo
<1>5. Order(Tail(agenda)) /\ Once(Tail(agenda)) /\ Waiting(Tail(agenda)) = Waiting(agenda)
  <2>1. ~Evaluates(agenda[1])
    BY <1>1, <1>4 DEF Evaluates
  <2> HIDE DEF Steps
  <2> QED
    BY <1>1, <1>3, <1>4, <2>1, TailOrder
<1>6. \A s \in gone : ~Evaluates(s) /\ ~ScriptRuns(s)
  BY <1>2 DEF Evaluates, ScriptRuns
<1>7. Order(agenda') /\ Once(agenda') /\ Waiting(agenda') = Waiting(Tail(agenda))
  <2> HIDE DEF Steps
  <2> QED
    BY <1>2, <1>4, <1>5, <1>6, WithoutOrder
<1>8. After(Waiting(agenda))
  BY <1>1, <1>3, UnmovedScripts
<1> QED
  BY <1>5, <1>7, <1>8

(***************************************************************************)
(* A script is evaluated once.                                             *)
(***************************************************************************)

\* A script that is in the document and not marked has not been evaluated.
LEMMA EvaluateScripts ==
    ASSUME Core, Evaluated, Evaluate
    PROVE  Evaluated' /\ (Still' => ("evaluated twice" \in wrong' => "evaluated twice" \in wrong))
<1> SUFFICES ASSUME Still'
             PROVE  Order(agenda') /\ Once(agenda') /\ After(Waiting(agenda'))
                    /\ ("evaluated twice" \in wrong' => "evaluated twice" \in wrong)
  BY AfterEvaluated
<1> DEFINE s == Todo.node
           t == Tail(agenda)
           T == Fits(calls, copyOf)
           runs == ~(s \in marked \/ ~InDoc(s))
<1>1. /\ agenda # <<>> /\ Todo.do = "evaluate" /\ UNCHANGED <<tree, marked>> /\ wrong \subseteq wrong'
      /\ ~runs => Then(<<>>) /\ UNCHANGED <<evaluated, wrong>>
      /\ runs => Then(GlobalEval(s)) /\ evaluated' = evaluated \cup {s} /\ wrong' = wrong \cup Odd("evaluated twice", s \in evaluated)
  BY NowFacts DEF Evaluate
<1>2. Still
  BY <1>1 DEF Still
<1>3. Order(agenda) /\ Once(agenda) /\ ScriptsOK(Waiting(agenda))
  BY <1>2, EvaluatedParts
<1>4. agenda \in Seq(T) /\ t \in Seq(T) /\ Todo = agenda[1] /\ IsScript(s) /\ s \in Nodes
  <2>1. agenda \in Seq(T) /\ t \in Seq(T) /\ Todo = agenda[1]
    BY <1>1, Popped DEF Core, AgendaOK
  <2>2. IsScript(s) /\ s \in Nodes
    BY <1>1, TodoType DEF Core, IsScript, Original
  <2> QED
    BY <2>1, <2>2
<1>5. Evaluates(agenda[1]) /\ GlobalEval(s) \in Seq(T) /\ Len(GlobalEval(s)) = 1 /\ ScriptRuns(GlobalEval(s)[1])
  <2>1. Evaluates(agenda[1])
    BY <1>1, <1>4 DEF Evaluates
  <2>2. Do("page", 0, s, s, "script", None) \in T
    BY <1>4, StepFits, CoreFacts
  <2>3. ScriptRuns(Do("page", 0, s, s, "script", None))
    BY DEF ScriptRuns, Do
  <2> HIDE DEF T
  <2> QED
    BY <2>1, <2>2, <2>3 DEF GlobalEval
<1>6. /\ Order(t) /\ Once(t) /\ Waiting(t) \subseteq Waiting(agenda) /\ Waiting(agenda) \subseteq Waiting(t) \cup {s}
      /\ s \notin Waiting(t) /\ s \in Waiting(agenda)
  <2> HIDE DEF T
  <2> QED
    BY <1>1, <1>3, <1>4, <1>5, TailOrder
<1>7. /\ marked \subseteq evaluated /\ \A z \in evaluated : IsScript(z)
      /\ Waiting(agenda) \cap evaluated \subseteq marked
      /\ \A z \in evaluated : z \in marked \/ InDoc(z)
      /\ \A z \in {Script, Copy} : IsScript(z) /\ InDoc(z) => z \in evaluated \cup Waiting(agenda)
  BY <1>3 DEF ScriptsOK
<1>8. \A z : (IsScript(z)' <=> IsScript(z)) /\ (InDoc(z)' <=> InDoc(z))
  BY <1>1 DEF tree, IsScript, Original, InDoc, Within
<1>9. CASE ~runs
  <2>1. agenda' = t
    <3>1. agenda' = <<>> \o Tail(agenda) /\ Tail(agenda) \in Seq(T)
      BY <1>1, <1>4, <1>9 DEF Then
    <3> HIDE DEF T
    <3> QED
      BY <3>1
  <2>2. \A W : W = Waiting(t) => After(W)
    BY <1>1, <1>6, <1>7, <1>8, <1>9 DEF After
  <2> QED
    BY <1>1, <1>6, <1>9, <2>1, <2>2
<1>10. CASE runs
  <2>1. agenda' = GlobalEval(s) \o t
    BY <1>1, <1>10 DEF Then
  <2>2. \A i \in 1 .. Len(GlobalEval(s)) : ~Evaluates(GlobalEval(s)[i])
    BY <1>5 DEF Evaluates, ScriptRuns
  <2>3. Order(agenda') /\ Once(agenda') /\ Waiting(agenda') = Waiting(t)
    <3>1. \A j \in 1 .. Len(GlobalEval(s)) : \E k \in j .. Len(GlobalEval(s)) : ScriptRuns(GlobalEval(s)[k])
      BY <1>5
    <3> HIDE DEF T, t, s
    <3> QED
      BY <1>4, <1>5, <1>6, <2>1, <2>2, <3>1, InFront
  <2>4. s \notin evaluated
    BY <1>6, <1>7, <1>10
  <2>5. \A W : W = Waiting(t) => After(W)
    BY <1>1, <1>6, <1>7, <1>8, <1>10, <1>4 DEF After
  <2>6. wrong' = wrong
    BY <1>1, <1>10, <2>4 DEF Odd
  <2> QED
    BY <2>3, <2>5, <2>6
<1> QED
  BY <1>9, <1>10
-----------------------------------------------------------------------------
\* What on() and off() do to the agenda.
LEMMA BindingAgenda ==
    ASSUME Core, Binding
    PROVE  Calling /\ Call(<<>>) /\ UNCHANGED <<tree, marked, triggered, history>>
  BY DEF Binding, On, Off, OffAll

\* The calls, by kind.
LEMMA TriggeringScripts ==
    ASSUME Core, Evaluated, Triggering
    PROVE  Evaluated'
<1>1. PICK x, steps : x \in Targets \cap Present /\ Calling /\ Beginning(calls', x, steps) /\ Begin(calls', steps)
  BY TriggeringBegins
<1>2. x \in Nodes /\ IsTree /\ calls' \in Nat /\ calls' <= MaxCalls /\ calls' \in 1 .. calls'
  BY <1>1, CoreFacts, CallFacts
<1>3. steps \in Seq(Ones(calls', copyOf, calls'))
  BY <1>1, <1>2, BeginningFits
<1>4. Call(steps) /\ UNCHANGED <<tree, marked, evaluated>> /\ wrong \subseteq wrong'
  BY <1>1 DEF Begin
<1> QED
  BY <1>1, <1>3, <1>4, CalledScripts

LEMMA BindingScripts ==
    ASSUME Core, Evaluated, Binding
    PROVE  Evaluated'
<1>1. Calling /\ Call(<<>>) /\ UNCHANGED <<tree, marked, evaluated>> /\ wrong \subseteq wrong'
  BY BindingAgenda DEF history
<1>2. <<>> \in Seq(Ones(calls', copyOf, calls'))
  <2> HIDE DEF Ones
  <2> QED
    OBVIOUS
<1> QED
  BY <1>1, <1>2, CalledScripts

LEMMA ManipulatingScripts ==
    ASSUME Core, Core', Evaluated, Manipulating
    PROVE  Evaluated'
  BY CoreFacts, RemoveScripts, EmptyScripts, DetachScripts, CloneScripts, UnwrapScripts, AppendScripts, BesideScripts,
     ReplaceScripts, WrapScripts DEF Manipulating, Html

Twice == Still => "evaluated twice" \notin wrong

\* What has gone wrong has gone wrong,
LEMMA WrongGrows ==
    ASSUME [Next]_vars
    PROVE  wrong \subseteq wrong'
<1>1. CASE Engine
  BY <1>1 DEF Engine, Capture, Handle, Run, Default, End, Evaluate, PageReturns, history
<1>2. CASE Binding
  BY <1>2 DEF Binding, On, Off, OffAll, history
<1>3. CASE Triggering
  BY <1>3 DEF Triggering, TriggerClick, TriggerFocus, UserEvent, TriggerHandler, Begin
<1>4. CASE Manipulating
  BY <1>4 DEF Manipulating, RemoveNode, Empty, Html, DetachNode, CloneNode, Unwrap, AppendNode, InsertBeside, ReplaceWith, WrapAll
<1>5. CASE UNCHANGED vars
  BY <1>5 DEF vars, history
<1> QED
  BY <1>1, <1>2, <1>3, <1>4, <1>5 DEF Next

\* what each part of the next-state relation may find wrong
LEMMA WrongWhat ==
    /\ Binding => wrong' = wrong
    /\ Triggering => wrong' \subseteq wrong \cup {"triggered inside a native event", "triggered inside an event"}
    /\ Manipulating => wrong' \subseteq wrong \cup {"cleaned a delegated focus", "moved by a script"}
    /\ Run => wrong' \subseteq wrong \cup {"handled twice", "one twice", "heard when stopped"}
    /\ Evaluate => wrong' \subseteq wrong \cup {"evaluated twice"}
    /\ Engine => Run \/ Evaluate \/ wrong' = wrong
<1>1. Binding => wrong' = wrong
  BY DEF Binding, On, Off, OffAll, history
<1>2. ASSUME NEW ev, NEW steps, Begin(ev, steps)
      PROVE  wrong' \subseteq wrong \cup {"triggered inside a native event", "triggered inside an event"}
  BY <1>2 DEF Begin
<1>3. Triggering => wrong' \subseteq wrong \cup {"triggered inside a native event", "triggered inside an event"}
  BY <1>2, TriggeringBegins
<1> DEFINE M == wrong \cup {"cleaned a delegated focus", "moved by a script"}
<1>4. Moved \subseteq {"moved by a script"} /\ \A S : Cleaned(S) \subseteq {"cleaned a delegated focus"}
  BY DEF Moved, Odd, Cleaned
<1>5. Manipulating => wrong' \subseteq M
  <2>1. \A x : RemoveNode(x) \/ Empty(x) \/ Html(x) => wrong' \subseteq M
    BY <1>4 DEF RemoveNode, Empty, Html
  <2>2. \A x : DetachNode(x) \/ CloneNode(x) => wrong' \subseteq M
    BY <1>4 DEF DetachNode, CloneNode
  <2>3. \A x : Unwrap(x) => wrong' \subseteq M
    <3> SUFFICES ASSUME NEW x, Unwrap(x)
                 PROVE  wrong' \subseteq M
      OBVIOUS
    <3>1. wrong' = wrong \cup Cleaned({parent[x]}) \cup Moved
      BY DEF Unwrap
    <3> QED
      BY <1>4, <3>1
  <2>4. \A x, y : AppendNode(x, y) \/ InsertBeside(x, y) \/ WrapAll(x, y) => wrong' \subseteq M
    BY <1>4 DEF AppendNode, InsertBeside, WrapAll
  <2>5. \A x, y : ReplaceWith(y, x) => wrong' \subseteq M
    <3> SUFFICES ASSUME NEW x, NEW y, ReplaceWith(y, x)
                 PROVE  wrong' \subseteq M
      OBVIOUS
    <3>1. wrong' = wrong \cup Cleaned(Subtree(y) \ Subtree(x)) \cup Moved
      BY DEF ReplaceWith
    <3> QED
      BY <1>4, <3>1
  <2> QED
    BY <2>1, <2>2, <2>3, <2>4, <2>5 DEF Manipulating
<1>6. Run => wrong' \subseteq wrong \cup {"handled twice", "one twice", "heard when stopped"}
  BY DEF Run
<1>7. Evaluate => wrong' \subseteq wrong \cup {"evaluated twice"}
  <2> SUFFICES ASSUME Evaluate
               PROVE  wrong' \subseteq wrong \cup {"evaluated twice"}
    OBVIOUS
  <2>1. wrong' = wrong \/ \E when : wrong' = wrong \cup Odd("evaluated twice", when)
    BY DEF Evaluate
  <2> QED
    BY <2>1 DEF Odd
<1>8. Engine => Run \/ Evaluate \/ wrong' = wrong
  BY DEF Engine, Capture, Handle, Default, End, PageReturns, history
<1> QED
  BY <1>1, <1>3, <1>5, <1>6, <1>7, <1>8

\* No script is evaluated twice.
LEMMA TwiceNext ==
    ASSUME Core, Evaluated, Twice, [Next]_vars
    PROVE  Twice'
<1> SUFFICES ASSUME Still'
             PROVE  "evaluated twice" \notin wrong'
  BY DEF Twice
<1>1. Still /\ "evaluated twice" \notin wrong
  BY WrongGrows DEF Twice, Still
<1>2. CASE Evaluate
  BY <1>1, <1>2, EvaluateScripts
<1>3. CASE Engine /\ ~Evaluate
  BY <1>1, <1>3, WrongWhat
<1>4. CASE Binding \/ Triggering \/ Manipulating
  BY <1>1, <1>4, WrongWhat
<1>5. CASE UNCHANGED vars
  BY <1>1, <1>5 DEF vars, history
<1> QED
  BY <1>2, <1>3, <1>4, <1>5 DEF Next

\* Evaluated is kept by every step.
LEMMA EvaluatedNext ==
    ASSUME Core, Core', Evaluated, [Next]_vars
    PROVE  Evaluated'
<1>1. CASE Engine
  BY <1>1, WrongGrows, EngineScripts, PageScripts, EvaluateScripts DEF Engine
<1>2. CASE UNCHANGED vars
  <2>1. UNCHANGED <<tree, marked, evaluated, wrong, agenda>>
    BY <1>2 DEF vars, history
  <2>2. Still' => Order(agenda) /\ Once(agenda) /\ After(Waiting(agenda))
    BY <2>1, EvaluatedParts, UnmovedScripts DEF Still
  <2> QED
    BY <2>1, <2>2, AfterEvaluated
<1> QED
  BY <1>1, <1>2, BindingScripts, TriggeringScripts, ManipulatingScripts DEF Next

\* While no script has moved or cloned nodes: the scripts that jQuery has evaluated are those in
\* the document and the marked ones, and evaluations are never left for later.
THEOREM EvaluatedHolds == Spec => [](Evaluated /\ ("moved by a script" \notin wrong => "evaluated twice" \notin wrong))
<1>1. Init => Core /\ Evaluated /\ Twice
  <2> SUFFICES ASSUME Init
               PROVE  Core /\ Evaluated /\ Twice
    OBVIOUS
  <2>1. Core /\ agenda = <<>> /\ marked = {} /\ wrong = {} /\ evaluated = {s \in {Script} : InDoc(s)} /\ copyOf = None
    BY InitCore DEF Init
  <2>2. Order(agenda) /\ Once(agenda) /\ Waiting(agenda) = {}
    BY <2>1 DEF Order, Once, Waiting
  <2>3. ScriptsOK({})
    <3>1. ~IsScript(Copy) /\ IsScript(Script)
      BY <2>1, Constants, EventsAssumption DEF IsScript, Original, Nodes
    <3> QED
      BY <2>1, <3>1 DEF ScriptsOK
  <2> QED
    BY <2>1, <2>2, <2>3, EvaluatedParts DEF Twice
<1>2. Core /\ Evaluated /\ Twice /\ [Next]_vars => (Core /\ Evaluated /\ Twice)'
  BY CoreNext, EvaluatedNext, TwiceNext
<1> QED
  BY <1>1, <1>2, PTL DEF Spec, Twice, Still

\* When the page is at rest no script waits.
LEMMA NothingWaits == agenda = <<>> => Waiting(agenda) = {}
  BY DEF Waiting

\* A script is not evaluated twice between two calls of cleanData(), and one in the document
\* has been evaluated when the agenda is empty, unless a script moved or cloned nodes.
THEOREM ScriptsOnceHolds == Spec => []ScriptsOnce
<1>1. Evaluated /\ ("moved by a script" \notin wrong => "evaluated twice" \notin wrong) => ScriptsOnce
  <2> SUFFICES ASSUME Evaluated, Still, "evaluated twice" \notin wrong
               PROVE  ScriptsOnce
    BY DEF ScriptsOnce, Still
  <2>1. agenda = <<>> => Waiting(agenda) = {}
    BY NothingWaits
  <2>2. ScriptsOK(Waiting(agenda))
    BY EvaluatedParts
  <2> QED
    BY <2>1, <2>2 DEF ScriptsOnce, ScriptsOK
<1> QED
  BY <1>1, EvaluatedHolds, PTL

(***************************************************************************)
(* How an agenda follows from another.                                     *)
(***************************************************************************)

\* The agenda afterwards is n new steps and then steps it had, in their order and
\* without its first m; the step e[i] is at place i now.
Goes(n, m, e) ==
    /\ n \in Nat /\ m \in {0, 1} /\ n <= Len(agenda') /\ m <= Len(agenda) /\ Len(agenda') \in Nat /\ Len(agenda) \in Nat
    /\ \A i \in 1 .. Len(agenda') : i > n => e[i] \in 1 .. Len(agenda) /\ e[i] > m /\ agenda'[i] = agenda[e[i]]
    /\ \A i, j \in 1 .. Len(agenda') : n < i /\ i < j => e[i] < e[j]
    /\ \A k \in 1 .. Len(agenda) : k > m /\ agenda[k].do = "end" => \E i \in 1 .. Len(agenda') : i > n /\ e[i] = k

\* The agenda is a sequence.
LEMMA AgendaSeq ==
    ASSUME Core
    PROVE  agenda \in Seq(Steps) /\ Len(agenda) \in Nat
<1>1. agenda \in Seq(Steps)
  BY AgendaFits DEF Core
<1> HIDE DEF Steps
<1> QED
  BY <1>1

\* The ways in which an agenda changes: steps are pushed,
LEMMA CallGoes ==
    ASSUME Core, NEW steps \in Seq(Steps), Call(steps)
    PROVE  \E e : Goes(Len(steps), 0, e) /\ \A i \in 1 .. Len(steps) : i \in 1 .. Len(agenda') /\ agenda'[i] = steps[i]
<1>1. agenda \in Seq(Steps) /\ agenda' = steps \o agenda
  BY AgendaSeq DEF Call
<1> HIDE DEF Steps
<1>2. /\ Len(agenda') = Len(steps) + Len(agenda) /\ Len(steps) \in Nat /\ Len(agenda) \in Nat
      /\ \A i \in 1 .. Len(steps) : agenda'[i] = steps[i]
      /\ \A i \in 1 .. Len(agenda) : Len(steps) + i \in 1 .. Len(agenda') /\ agenda'[Len(steps) + i] = agenda[i]
      /\ \A i \in 1 .. Len(agenda') : i \notin 1 .. Len(steps) =>
            i - Len(steps) \in 1 .. Len(agenda) /\ agenda'[i] = agenda[i - Len(steps)]
  BY <1>1, Concat
<1> DEFINE e == [i \in 1 .. Len(agenda') |-> i - Len(steps)]
           n == Len(steps)
<1>3. \A i \in 1 .. Len(agenda') : i > n => e[i] \in 1 .. Len(agenda) /\ e[i] > 0 /\ agenda'[i] = agenda[e[i]]
  BY <1>2
<1>4. \A i, j \in 1 .. Len(agenda') : n < i /\ i < j => e[i] < e[j]
  BY <1>2
<1>5. \A k \in 1 .. Len(agenda) : \E i \in 1 .. Len(agenda') : i > n /\ e[i] = k
  <2> SUFFICES ASSUME NEW k \in 1 .. Len(agenda)
               PROVE  \E i \in 1 .. Len(agenda') : i > n /\ e[i] = k
    OBVIOUS
  <2>1. n + k \in 1 .. Len(agenda') /\ n + k > n /\ e[n + k] = k
    BY <1>2
  <2> QED
    BY <2>1
<1>6. n <= Len(agenda') /\ 0 <= Len(agenda) /\ Len(agenda') \in Nat /\ \A i \in 1 .. n : i \in 1 .. Len(agenda')
  BY <1>2
<1> HIDE DEF e
<1> QED
  BY <1>2, <1>3, <1>4, <1>5, <1>6 DEF Goes

\* take the place of the step on top,
LEMMA ThenGoes ==
    ASSUME Core, agenda # <<>>, NEW steps \in Seq(Steps), Then(steps)
    PROVE  \E e : Goes(Len(steps), 1, e) /\ \A i \in 1 .. Len(steps) : i \in 1 .. Len(agenda') /\ agenda'[i] = steps[i]
<1>1. agenda \in Seq(Steps) /\ agenda' = steps \o Tail(agenda)
  BY AgendaSeq DEF Then
<1> HIDE DEF Steps
<1> DEFINE t == Tail(agenda)
<1>2. t \in Seq(Steps) /\ Len(agenda) \in Nat /\ Len(agenda) >= 1 /\ Len(t) = Len(agenda) - 1
      /\ \A i \in 1 .. Len(t) : t[i] = agenda[i + 1]
  BY <1>1
<1> HIDE DEF t
<1>3. /\ Len(agenda') = Len(steps) + Len(t) /\ Len(steps) \in Nat /\ Len(t) \in Nat
      /\ \A i \in 1 .. Len(steps) : agenda'[i] = steps[i]
      /\ \A i \in 1 .. Len(t) : Len(steps) + i \in 1 .. Len(agenda') /\ agenda'[Len(steps) + i] = t[i]
      /\ \A i \in 1 .. Len(agenda') : i \notin 1 .. Len(steps) =>
            i - Len(steps) \in 1 .. Len(t) /\ agenda'[i] = t[i - Len(steps)]
  BY <1>1, <1>2, Concat DEF t
<1> DEFINE n == Len(steps)
           e == [i \in 1 .. Len(agenda') |-> i - n + 1]
<1>4. \A i \in 1 .. Len(agenda') : i > n => e[i] \in 1 .. Len(agenda) /\ e[i] > 1 /\ agenda'[i] = agenda[e[i]]
  <2> SUFFICES ASSUME NEW i \in 1 .. Len(agenda'), i > n
               PROVE  e[i] \in 1 .. Len(agenda) /\ e[i] > 1 /\ agenda'[i] = agenda[e[i]]
    OBVIOUS
  <2>1. i - n \in 1 .. Len(t) /\ agenda'[i] = t[i - n]
    BY <1>3
  <2>2. e[i] = (i - n) + 1 /\ e[i] \in 1 .. Len(agenda) /\ e[i] > 1
    BY <1>2, <1>3, <2>1
  <2> QED
    BY <1>2, <2>1, <2>2
<1>5. \A i, j \in 1 .. Len(agenda') : n < i /\ i < j => e[i] < e[j]
  BY <1>3
<1>6. \A k \in 1 .. Len(agenda) : k > 1 => \E i \in 1 .. Len(agenda') : i > n /\ e[i] = k
  <2> SUFFICES ASSUME NEW k \in 1 .. Len(agenda), k > 1
               PROVE  \E i \in 1 .. Len(agenda') : i > n /\ e[i] = k
    OBVIOUS
  <2>1. k - 1 \in 1 .. Len(t)
    BY <1>2
  <2>2. n + (k - 1) \in 1 .. Len(agenda') /\ n + (k - 1) > n
    BY <1>3, <2>1
  <2>3. e[n + (k - 1)] = k
    BY <1>3, <2>2
  <2> QED
    BY <2>2, <2>3
<1>7. n <= Len(agenda') /\ 1 <= Len(agenda) /\ Len(agenda') \in Nat /\ \A i \in 1 .. n : i \in 1 .. Len(agenda')
  BY <1>2, <1>3
<1> HIDE DEF e
<1> QED
  BY <1>2, <1>3, <1>4, <1>5, <1>6, <1>7 DEF Goes

\* or are left out.
LEMMA WithoutGoes ==
    ASSUME Core, agenda # <<>>, NEW gone, \A s \in gone : s.do # "end", agenda' = Without(Tail(agenda), gone)
    PROVE  /\ \E e : Goes(0, 1, e)
           /\ \A i \in 1 .. Len(agenda') : agenda'[i] \notin gone
<1>1. agenda \in Seq(Steps)
  BY AgendaSeq
<1> HIDE DEF Steps
<1> DEFINE t == Tail(agenda)
<1>2. t \in Seq(Steps) /\ Len(agenda) \in Nat /\ Len(agenda) >= 1 /\ Len(t) = Len(agenda) - 1 /\ Len(t) \in Nat
      /\ \A i \in 1 .. Len(t) : t[i] = agenda[i + 1] /\ i + 1 \in 1 .. Len(agenda)
  BY <1>1
<1>3. agenda' \in Seq(Steps) /\ \E f : Embeds(f, agenda', t, gone)
  BY <1>2, WithoutEmbeds
<1> HIDE DEF t
<1>4. PICK f : Embeds(f, agenda', t, gone)
  BY <1>3
<1>5. /\ \A i \in 1 .. Len(agenda') : f[i] \in 1 .. Len(t) /\ agenda'[i] = t[f[i]] /\ agenda'[i] \notin gone
      /\ \A i, j \in 1 .. Len(agenda') : i < j => f[i] < f[j]
      /\ \A k \in 1 .. Len(t) : t[k] \notin gone => \E i \in 1 .. Len(agenda') : f[i] = k
  BY <1>4 DEF Embeds
<1> DEFINE e == [i \in 1 .. Len(agenda') |-> f[i] + 1]
<1>6. \A i \in 1 .. Len(agenda') : e[i] \in 1 .. Len(agenda) /\ e[i] > 1 /\ agenda'[i] = agenda[e[i]]
  BY <1>2, <1>5
<1>7. \A i, j \in 1 .. Len(agenda') : i < j => e[i] < e[j]
  <2> SUFFICES ASSUME NEW i \in 1 .. Len(agenda'), NEW j \in 1 .. Len(agenda'), i < j
               PROVE  e[i] < e[j]
    OBVIOUS
  <2>1. f[i] < f[j] /\ f[i] \in Nat /\ f[j] \in Nat
    BY <1>2, <1>5
  <2> QED
    BY <2>1
<1>8. ASSUME NEW k \in 1 .. Len(agenda), k > 1, agenda[k].do = "end"
      PROVE  \E i \in 1 .. Len(agenda') : e[i] = k
  <2>1. k - 1 \in 1 .. Len(t) /\ (k - 1) + 1 = k
    BY <1>2, <1>8
  <2>2. t[k - 1] \notin gone
    BY <1>2, <1>8, <2>1
  <2>3. PICK i \in 1 .. Len(agenda') : f[i] = k - 1
    BY <1>5, <2>1, <2>2
  <2> QED
    BY <2>1, <2>3
<1>9. Len(agenda') \in Nat /\ 0 <= Len(agenda') /\ 1 <= Len(agenda) /\ \A i \in 1 .. Len(agenda') : i > 0
  BY <1>2, <1>3
<1> HIDE DEF e
<1>10. Goes(0, 1, e)
  BY <1>2, <1>6, <1>7, <1>8, <1>9 DEF Goes
<1> QED
  BY <1>5, <1>10

\* A step that stays is held by an end exactly if it was.
LEMMA HeldGoes ==
    ASSUME NEW n, NEW m, NEW e, Goes(n, m, e), NEW i \in 1 .. Len(agenda'), i > n
    PROVE  Held(i)' <=> Held(e[i])
<1>1. /\ n \in Nat /\ Len(agenda') \in Nat /\ Len(agenda) \in Nat /\ m \in {0, 1}
      /\ \A j \in 1 .. Len(agenda') : j > n => e[j] \in 1 .. Len(agenda) /\ e[j] > m /\ agenda'[j] = agenda[e[j]]
      /\ \A j, k \in 1 .. Len(agenda') : n < j /\ j < k => e[j] < e[k]
      /\ \A k \in 1 .. Len(agenda) : k > m /\ agenda[k].do = "end" => \E j \in 1 .. Len(agenda') : j > n /\ e[j] = k
  BY DEF Goes
<1>2. ASSUME NEW j \in 1 .. Len(agenda'), i < j, agenda'[j].do = "end"
      PROVE  Held(e[i])
  BY <1>1, <1>2 DEF Held
<1>3. ASSUME NEW k \in 1 .. Len(agenda), e[i] < k, agenda[k].do = "end"
      PROVE  \E j \in 1 .. Len(agenda') : i < j /\ agenda'[j].do = "end"
  <2>1. k > m
    BY <1>1, <1>3
  <2>2. PICK j \in 1 .. Len(agenda') : j > n /\ e[j] = k
    BY <1>1, <1>3, <2>1
  <2>3. j < i => e[j] < e[i]
    BY <1>1, <2>2
  <2>4. i < j
    BY <1>1, <1>3, <2>2, <2>3
  <2> QED
    BY <1>1, <1>3, <2>2, <2>4
<1> QED
  BY <1>2, <1>3 DEF Held

(***************************************************************************)
(* What the sequences that begin an event consist of.                      *)
(***************************************************************************)

Heard(s) == s.do \in {"fire", "deliver"}

\* what a native event consists of
NativeLike(ev, type, s) ==
    /\ \A i \in 1 .. Len(s) :
          /\ s[i].ev = ev /\ s[i].do \in {"page", "deliver", "capture"}
          /\ s[i].do = "page" => s[i].key = "plain"
          /\ s[i].do = "deliver" => s[i].key = type
          /\ s[i].do = "capture" => i = 1 /\ type = "focus" /\ \A j \in 1 .. Len(s) : j # 1 => s[j].do = "deliver" /\ s[j].key = "focus"
    /\ \A i, j \in 1 .. Len(s) : Heard(s[i]) /\ Heard(s[j]) /\ s[i].at = s[j].at => i = j

\* A native event has at most one capture, and reaches a node once,
LEMMA NativeElems ==
    ASSUME IsTree, NEW ev, NEW x \in Nodes, NEW type \in {"click", "focus"}
    PROVE  NativeLike(ev, type, Native(ev, x, type))
<1>1. CASE type = "click"
  <2> DEFINE s == NativeClick(ev, x)
  <2>1. /\ \A i \in 1 .. Len(s) : ClickStep(ev, x, s[i])
        /\ \A i, j \in 1 .. Len(s) : s[i].do = "deliver" /\ s[j].do = "deliver" /\ s[i].at = s[j].at => i = j
    BY ClickFacts
  <2>2. \A t : ClickStep(ev, x, t) => /\ t.ev = ev /\ t.do \in {"page", "deliver"} /\ (t.do = "page" => t.key = "plain")
                                      /\ (t.do = "deliver" => t.key = "click")
    BY DEF ClickStep, Do
  <2> HIDE DEF s
  <2>3. \A i \in 1 .. Len(s) : /\ s[i].ev = ev /\ s[i].do \in {"page", "deliver"} /\ (s[i].do = "page" => s[i].key = "plain")
                               /\ (s[i].do = "deliver" => s[i].key = "click")
    BY <2>1, <2>2
  <2>4. NativeLike(ev, "click", s)
    BY <2>1, <2>3 DEF NativeLike, Heard
  <2> QED
    BY <1>1, <2>4 DEF Native, s
<1>2. CASE type = "focus"
  <2> DEFINE s == NativeFocus(ev, x)
             c == Do("capture", ev, x, Doc, "focus", None)
             d == Do("deliver", ev, x, x, "focus", None)
  <2>1. c.ev = ev /\ c.do = "capture" /\ d.ev = ev /\ d.do = "deliver" /\ d.key = "focus"
    BY DEF Do
  <2>2. s = <<c, d>>
    BY DEF NativeFocus
  <2> HIDE DEF c, d, s
  <2>3. Len(s) = 2 /\ s[1] = c /\ s[2] = d /\ \A i \in 1 .. Len(s) : i = 1 \/ i = 2
    BY <2>2
  <2>4. NativeLike(ev, "focus", s)
    BY <2>1, <2>3 DEF NativeLike, Heard
  <2> QED
    BY <1>2, <2>4 DEF Native, s
<1> QED
  BY <1>1, <1>2

\* what an event of trigger(), triggerHandler() or the user begins with
BeginLike(ev, s) ==
    /\ \A i \in 1 .. Len(s) :
          /\ s[i].ev = ev /\ s[i].do \in {"fire", "page", "deliver", "capture", "default"}
          /\ s[i].do = "page" => s[i].key = "plain"
          /\ s[i].do = "capture" => i = 1 /\ \A j \in 1 .. Len(s) : j # 1 => s[j].do = "deliver" /\ s[j].key = "focus"
    /\ \A i, j \in 1 .. Len(s) : Heard(s[i]) /\ Heard(s[j]) /\ s[i].at = s[j].at /\ s[i].key = s[j].key => i = j

\* and it may begin an event.
LEMMA NativeBegins ==
    ASSUME NEW ev, NEW type, NEW s, NativeLike(ev, type, s)
    PROVE  BeginLike(ev, s)
  BY DEF NativeLike, BeginLike

\* fires along distinct nodes
FireLike(ev, key, s) ==
    /\ \A i \in 1 .. Len(s) : s[i].ev = ev /\ s[i].do = "fire" /\ s[i].key = key
    /\ \A i, j \in 1 .. Len(s) : s[i].at = s[j].at => i = j

\* trigger() reaches a node once,
LEMMA FiresElems ==
    ASSUME NEW ev, NEW x, NEW path \in Seq(Nodes), Distinct(path), NEW key
    PROVE  FireLike(ev, key, Fires(ev, x, path, key)) /\ Len(Fires(ev, x, path, key)) \in Nat
<1> DEFINE s == Fires(ev, x, path, key)
<1>1. Len(s) = Len(path) /\ Len(path) \in Nat /\ \A i \in 1 .. Len(path) : s[i] = Do("fire", ev, x, path[i], key, None)
  BY FiresFacts
<1> HIDE DEF s
<1>2. \A i \in 1 .. Len(s) : s[i].ev = ev /\ s[i].do = "fire" /\ s[i].key = key /\ s[i].at = path[i]
  <2>1. \A y : LET d == Do("fire", ev, x, y, key, None)
                IN  d.ev = ev /\ d.do = "fire" /\ d.key = key /\ d.at = y
    BY DEF Do
  <2> QED
    BY <1>1, <2>1
<1> QED
  BY <1>1, <1>2 DEF FireLike, Distinct, s

\* and it may begin an event.
LEMMA FireBegins ==
    ASSUME NEW ev, NEW key, NEW s, FireLike(ev, key, s)
    PROVE  BeginLike(ev, s)
  BY DEF FireLike, BeginLike, Heard

\* Two such beginnings for different types of handlers make one.
LEMMA JoinBegins ==
    ASSUME NEW T, NEW ev, NEW s \in Seq(T), NEW t \in Seq(T), BeginLike(ev, s), BeginLike(ev, t),
           \A i \in 1 .. Len(s) : s[i].do # "capture", \A i \in 1 .. Len(t) : t[i].do # "capture",
           \A i \in 1 .. Len(s), j \in 1 .. Len(t) : ~(Heard(s[i]) /\ Heard(t[j]) /\ s[i].key = t[j].key)
    PROVE  BeginLike(ev, s \o t) /\ \A i \in 1 .. Len(s \o t) : (s \o t)[i].do # "capture"
<1> DEFINE u == s \o t
<1>1. /\ u \in Seq(T) /\ Len(u) = Len(s) + Len(t) /\ Len(s) \in Nat /\ Len(t) \in Nat
      /\ \A i \in 1 .. Len(s) : u[i] = s[i]
      /\ \A i \in 1 .. Len(u) : i \notin 1 .. Len(s) => i - Len(s) \in 1 .. Len(t) /\ u[i] = t[i - Len(s)]
  BY Concat
<1> HIDE DEF u
<1>2. \A i \in 1 .. Len(u) :
        /\ u[i].ev = ev /\ u[i].do \in {"fire", "page", "deliver", "default"} /\ (u[i].do = "page" => u[i].key = "plain")
  BY <1>1 DEF BeginLike
<1>3. ASSUME NEW i \in 1 .. Len(u), NEW j \in 1 .. Len(u), Heard(u[i]), Heard(u[j]), u[i].at = u[j].at, u[i].key = u[j].key
      PROVE  i = j
  <2>1. CASE i \in 1 .. Len(s) /\ j \in 1 .. Len(s)
    BY <1>1, <1>3, <2>1 DEF BeginLike
  <2>2. CASE i \notin 1 .. Len(s) /\ j \notin 1 .. Len(s)
    <3>1. /\ i - Len(s) \in 1 .. Len(t) /\ t[i - Len(s)] = u[i]
          /\ j - Len(s) \in 1 .. Len(t) /\ t[j - Len(s)] = u[j]
      BY <1>1, <2>2
    <3>2. \A p, q \in 1 .. Len(t) : Heard(t[p]) /\ Heard(t[q]) /\ t[p].at = t[q].at /\ t[p].key = t[q].key => p = q
      BY DEF BeginLike
    <3>3. i - Len(s) = j - Len(s)
      BY <1>3, <3>1, <3>2
    <3> QED
      BY <1>1, <3>3
  <2>3. CASE i \in 1 .. Len(s) /\ j \notin 1 .. Len(s)
    BY <1>1, <1>3, <2>3
  <2>4. CASE i \notin 1 .. Len(s) /\ j \in 1 .. Len(s)
    BY <1>1, <1>3, <2>4
  <2> QED
    BY <2>1, <2>2, <2>3, <2>4
<1> QED
  BY <1>2, <1>3 DEF BeginLike, u

\* Whatever begins an event is of this form.
LEMMA BeginningElems ==
    ASSUME IsTree, NEW ev \in Nat, ev # 0, ev <= MaxCalls, NEW x \in Nodes, NEW steps, Beginning(ev, x, steps)
    PROVE  BeginLike(ev, steps)
<1>1. Path(x) \in Seq(Nodes) /\ Distinct(Path(x)) /\ <<x>> \in Seq(Nodes) /\ Distinct(<<x>>)
  <2>1. Distinct(<<x>>)
    BY DEF Distinct
  <2> QED
    BY <2>1, PathFacts
<1>2. BeginLike(ev, NativeClick(ev, x)) /\ BeginLike(ev, NativeFocus(ev, x))
  <2>1. Native(ev, x, "click") = NativeClick(ev, x) /\ Native(ev, x, "focus") = NativeFocus(ev, x)
    BY DEF Native
  <2>2. NativeLike(ev, "click", NativeClick(ev, x)) /\ NativeLike(ev, "focus", NativeFocus(ev, x))
    BY <2>1, NativeElems
  <2> QED
    BY <2>2, NativeBegins
<1>3. \A key : FireLike(ev, key, Fires(ev, x, Path(x), key)) /\ FireLike(ev, key, Fires(ev, x, <<x>>, key))
  BY <1>1, FiresElems
<1> DEFINE T == Ones(ev, None, ev)
<1>4. /\ \A key \in Keys : Fires(ev, x, Path(x), key) \in Seq(T) /\ Fires(ev, x, <<x>>, key) \in Seq(T)
      /\ \A key \in {"click", "focus"} : Do("default", ev, x, x, key, None) \in T
  <2>1. ev \in 1 .. ev /\ ev <= ev
    OBVIOUS
  <2> QED
    BY <1>1, <2>1, FiresFit, StepOnes
<1> HIDE DEF T
<1>5. ASSUME NEW key \in {"click", "focus"}, NEW s \in Seq(T), BeginLike(ev, s), \A i \in 1 .. Len(s) : s[i].do # "capture"
      PROVE  BeginLike(ev, s \o <<Do("default", ev, x, x, key, None)>>)
  <2> DEFINE d == Do("default", ev, x, x, key, None)
             t == <<d>>
  <2>1. d.ev = ev /\ d.do = "default"
    BY DEF Do
  <2>2. d \in T
    BY <1>4
  <2> HIDE DEF d
  <2>3. t \in Seq(T) /\ Len(t) = 1 /\ \A i \in 1 .. Len(t) : t[i] = d
    BY <2>2
  <2> HIDE DEF t
  <2>4. BeginLike(ev, t)
    BY <2>1, <2>3 DEF BeginLike, Heard
  <2>5. (\A i \in 1 .. Len(t) : t[i].do # "capture") /\ \A i \in 1 .. Len(t) : ~Heard(t[i])
    BY <2>1, <2>3 DEF Heard
  <2>6. BeginLike(ev, s \o t)
    BY <1>5, <2>3, <2>4, <2>5, JoinBegins
  <2> QED
    BY <2>6 DEF t, d
<1>6. "click" \in Keys /\ "focus" \in Keys /\ "focusin" \in Keys
  BY DEF Keys
<1> DEFINE f == Fires(ev, x, <<x>>, "focus")
           g == Fires(ev, x, Path(x), "focusin")
           c == Fires(ev, x, Path(x), "click")
<1>7. /\ \A i \in 1 .. Len(f) : f[i].do = "fire" /\ f[i].key = "focus"
      /\ \A i \in 1 .. Len(g) : g[i].do = "fire" /\ g[i].key = "focusin"
      /\ \A i \in 1 .. Len(c) : c[i].do = "fire"
      /\ f \in Seq(T) /\ g \in Seq(T) /\ c \in Seq(T) /\ BeginLike(ev, f) /\ BeginLike(ev, g) /\ BeginLike(ev, c)
  <2>1. f \in Seq(T) /\ g \in Seq(T) /\ c \in Seq(T)
    BY <1>4, <1>6
  <2>2. FireLike(ev, "focus", f) /\ FireLike(ev, "focusin", g) /\ FireLike(ev, "click", c)
    BY <1>3
  <2> HIDE DEF f, g, c
  <2>3. BeginLike(ev, f) /\ BeginLike(ev, g) /\ BeginLike(ev, c)
    BY <2>2, FireBegins
  <2> QED
    BY <2>1, <2>2, <2>3 DEF FireLike
<1> HIDE DEF f, g, c
<1>8. BeginLike(ev, c \o <<Do("default", ev, x, x, "click", None)>>)
  BY <1>5, <1>7
<1>9. BeginLike(ev, f \o g) /\ f \o g \in Seq(T) /\ \A i \in 1 .. Len(f \o g) : (f \o g)[i].do # "capture"
  <2>1. \A i \in 1 .. Len(f), j \in 1 .. Len(g) : ~(Heard(f[i]) /\ Heard(g[j]) /\ f[i].key = g[j].key)
    BY <1>7
  <2>2. (\A i \in 1 .. Len(f) : f[i].do # "capture") /\ (\A i \in 1 .. Len(g) : g[i].do # "capture")
    BY <1>7
  <2> QED
    <3>1. f \o g \in Seq(T)
      BY <1>7, Concat
    <3>2. BeginLike(ev, f \o g) /\ \A i \in 1 .. Len(f \o g) : (f \o g)[i].do # "capture"
      BY <1>7, <2>1, <2>2, JoinBegins
    <3> QED
      BY <3>1, <3>2
<1>10. BeginLike(ev, (f \o g) \o <<Do("default", ev, x, x, "focus", None)>>)
  <2> DEFINE h == f \o g
  <2> HIDE DEF h
  <2>1. BeginLike(ev, h) /\ h \in Seq(T) /\ \A i \in 1 .. Len(h) : h[i].do # "capture"
    BY <1>9 DEF h
  <2>2. BeginLike(ev, h \o <<Do("default", ev, x, x, "focus", None)>>)
    BY <1>5, <2>1
  <2> QED
    BY <2>2 DEF h
<1>11. \A key : BeginLike(ev, Fires(ev, x, <<x>>, key))
  BY <1>3, FireBegins
<1> QED
  BY <1>2, <1>8, <1>10, <1>11 DEF Beginning, f, g, c

(***************************************************************************)
(* What each action puts on the agenda.                                    *)
(***************************************************************************)

\* the agenda begins with these steps now
Leads(steps) == \A i \in 1 .. Len(steps) : i \in 1 .. Len(agenda') /\ agenda'[i] = steps[i]

\* Steps that fit are steps.
LEMMA OnesSteps ==
    ASSUME NEW n, NEW c, NEW ev, NEW s \in Seq(Ones(n, c, ev))
    PROVE  s \in Seq(Steps)
<1>1. s \in Seq(Fits(n, c)) /\ \A i \in 1 .. Len(s) : s[i] \in Fits(n, c)
  BY OnesFit
<1>2. \A t \in Fits(n, c) : t \in Steps
  BY DEF Fits
<1> HIDE DEF Steps, Fits, Ones
<1>3. \A i \in 1 .. Len(s) : s[i] \in Steps
  BY <1>1, <1>2
<1> QED
  BY <1>1, <1>3

LEMMA NoSteps == <<>> \in Seq(Steps) /\ Len(<<>>) = 0
<1> HIDE DEF Steps
<1> QED
  OBVIOUS

\* The step on top is the first.
LEMMA HeadFacts ==
    ASSUME Core, agenda # <<>>
    PROVE  Todo = agenda[1] /\ 1 \in 1 .. Len(agenda) /\ Len(agenda) \in Nat
<1>1. Todo = agenda[1] /\ Len(agenda) \in Nat /\ Len(agenda) >= 1
  BY Popped DEF Core
<1> QED
  BY <1>1

\* Calls that begin no event leave the histories as they are; they and the evaluation of a
\* script bring only evaluations and the running script.
LEMMA ManipulatingAgenda ==
    ASSUME Core, Manipulating
    PROVE  Calling /\ UNCHANGED <<triggered, stopped, handled, spent>> /\ (Call(<<>>) \/ \E x : Evaluations(x))
<1>1. \A x : RemoveNode(x) \/ Empty(x) \/ Html(x) => Calling /\ UNCHANGED <<triggered, stopped, handled, spent>> /\ Call(<<>>)
  BY DEF RemoveNode, Empty, Html, CleanData
<1>2. \A x : DetachNode(x) \/ CloneNode(x) => Calling /\ UNCHANGED <<triggered, stopped, handled, spent>> /\ Call(<<>>)
  BY DEF DetachNode, CloneNode
<1>3. \A x : Unwrap(x) => Calling /\ UNCHANGED <<triggered, stopped, handled, spent>> /\ \E y : Evaluations(y)
  BY DEF Unwrap, CleanData
<1>4. \A x, y : AppendNode(x, y) \/ InsertBeside(x, y) \/ ReplaceWith(y, x) \/ WrapAll(x, y) =>
        Calling /\ UNCHANGED <<triggered, stopped, handled, spent>> /\ Evaluations(x)
  BY DEF AppendNode, InsertBeside, ReplaceWith, WrapAll, DomManip, CleanData
<1> QED
  BY <1>1, <1>2, <1>3, <1>4 DEF Manipulating

\* On the agenda such a call leaves evaluations, and an evaluation a script.
LEMMA IdleFacts ==
    ASSUME Core, Binding \/ Manipulating \/ Evaluate \/ UNCHANGED vars
    PROVE  /\ UNCHANGED <<triggered, stopped, handled, spent>>
           /\ \E n, m, e :
                /\ Goes(n, m, e)
                /\ m = 1 => agenda[1].do = "evaluate"
                /\ \A i \in 1 .. n : /\ agenda'[i].ev = 0 /\ agenda'[i].do \in {"evaluate", "page"}
                                     /\ agenda'[i].do = "page" => agenda'[i].key = "script"
<1>1. CASE Binding
  <2>1. Call(<<>>) /\ UNCHANGED <<triggered, stopped, handled, spent>>
    BY <1>1, BindingAgenda DEF history
  <2>2. \E e : Goes(0, 0, e)
    BY <2>1, NoSteps, CallGoes
  <2>3. \A i \in 1 .. 0 : FALSE
    OBVIOUS
  <2> QED
    BY <2>1, <2>2, <2>3
<1>2. CASE Manipulating
  <2>1. Calling /\ UNCHANGED <<triggered, stopped, handled, spent>> /\ (Call(<<>>) \/ \E x : Evaluations(x))
    BY <1>2, ManipulatingAgenda
  <2>2. CASE Call(<<>>)
    <3>1. \E e : Goes(0, 0, e)
      BY <2>2, NoSteps, CallGoes
    <3>2. \A i \in 1 .. 0 : FALSE
      OBVIOUS
    <3> QED
      BY <2>1, <3>1, <3>2
  <2>3. CASE \E x : Evaluations(x)
    <3>1. PICK x : Evaluations(x)
      BY <2>3
    <3> DEFINE steps == [i \in 1 .. Len(Disabled(x)) |-> Do("evaluate", 0, Disabled(x)[i], None, "script", None)]
    <3>2. steps \in Seq(Fits(MaxCalls, copyOf)) /\ Len(Disabled(x)) \in Nat
      BY EvaluationsFit, CoreFacts
    <3>3. Call(steps)
      BY <3>1 DEF Evaluations
    <3>4. Len(steps) = Len(Disabled(x)) /\ \A i \in 1 .. Len(steps) : steps[i].ev = 0 /\ steps[i].do = "evaluate"
      BY <3>2 DEF Do
    <3>5. steps \in Seq(Steps)
      <4>1. \A i \in 1 .. Len(steps) : steps[i] \in Steps
        <5>1. \A t \in Fits(MaxCalls, copyOf) : t \in Steps
          BY DEF Fits
        <5> HIDE DEF Fits, steps
        <5> QED
          BY <3>2, <5>1
      <4> HIDE DEF Steps, Fits, steps
      <4> QED
        BY <3>2, <4>1
    <3> HIDE DEF steps
    <3>6. PICK e : Goes(Len(steps), 0, e) /\ \A i \in 1 .. Len(steps) : agenda'[i] = steps[i]
      BY <3>3, <3>5, CallGoes
    <3>7. \A i \in 1 .. Len(steps) : agenda'[i].ev = 0 /\ agenda'[i].do = "evaluate"
      BY <3>4, <3>6
    <3> QED
      BY <2>1, <3>6, <3>7
  <2> QED
    BY <2>1, <2>2, <2>3
<1>3. CASE Evaluate
  <2> DEFINE s == Todo.node
  <2>1. /\ agenda # <<>> /\ Todo.do = "evaluate" /\ UNCHANGED <<triggered, stopped, handled, spent>>
        /\ Then(<<>>) \/ Then(GlobalEval(s))
    BY <1>3, NowFacts DEF Evaluate
  <2>2. agenda[1].do = "evaluate"
    BY <2>1, HeadFacts
  <2>3. CASE Then(<<>>)
    <3>1. \E e : Goes(0, 1, e)
      BY <2>1, <2>3, NoSteps, ThenGoes
    <3>2. \A i \in 1 .. 0 : FALSE
      OBVIOUS
    <3> QED
      BY <2>1, <2>2, <3>1, <3>2
  <2>4. CASE Then(GlobalEval(s))
    <3> DEFINE g == Do("page", 0, s, s, "script", None)
    <3>1. g \in Steps
      <4>1. s \in Nodes /\ MaxCalls \in Nat
        BY <2>1, TodoType, CoreFacts DEF Core
      <4> QED
        BY <4>1, StepFits, CoreFacts DEF Fits
    <3>2. g.ev = 0 /\ g.do = "page" /\ g.key = "script"
      BY DEF Do
    <3> HIDE DEF g, Steps
    <3>3. <<g>> \in Seq(Steps) /\ Len(<<g>>) = 1 /\ <<g>>[1] = g /\ Then(<<g>>)
      BY <2>4, <3>1 DEF GlobalEval, g
    <3>4. PICK e : Goes(Len(<<g>>), 1, e) /\ \A i \in 1 .. Len(<<g>>) : agenda'[i] = <<g>>[i]
      BY <2>1, <3>3, ThenGoes
    <3>5. Goes(1, 1, e) /\ agenda'[1] = g
      BY <3>3, <3>4
    <3>6. \A i \in 1 .. 1 : i = 1
      OBVIOUS
    <3> QED
      BY <2>1, <2>2, <3>2, <3>5, <3>6
  <2> QED
    BY <2>1, <2>3, <2>4
<1>4. CASE UNCHANGED vars
  <2>1. agenda' = agenda /\ UNCHANGED <<triggered, stopped, handled, spent>>
    BY <1>4 DEF vars, history
  <2>2. Call(<<>>)
    <3>1. agenda \in Seq(Steps)
      BY AgendaSeq
    <3> HIDE DEF Steps
    <3> QED
      BY <2>1, <3>1 DEF Call
  <2>3. \E e : Goes(0, 0, e)
    BY <2>2, NoSteps, CallGoes
  <2>4. \A i \in 1 .. 0 : FALSE
    OBVIOUS
  <2> QED
    BY <2>1, <2>3, <2>4
<1> QED
  BY <1>1, <1>2, <1>3, <1>4

\* An event begins in front of everything else.
LEMMA BeginFacts ==
    ASSUME Core, Triggering
    PROVE  \E steps, e : /\ Calling /\ Begin(calls', steps) /\ BeginLike(calls', steps)
                         /\ Goes(Len(steps), 0, e) /\ Leads(steps)
<1>1. PICK x, steps : x \in Targets \cap Present /\ Calling /\ Beginning(calls', x, steps) /\ Begin(calls', steps)
  BY TriggeringBegins
<1>2. x \in Nodes /\ IsTree /\ calls' \in Nat /\ calls' <= MaxCalls /\ calls' \in 1 .. calls' /\ calls' # 0
  BY <1>1, CoreFacts, CallFacts
<1>3. steps \in Seq(Ones(calls', copyOf, calls'))
  BY <1>1, <1>2, BeginningFits
<1>4. steps \in Seq(Steps) /\ Call(steps)
  BY <1>1, <1>3, OnesSteps DEF Begin
<1>5. BeginLike(calls', steps)
  BY <1>1, <1>2, BeginningElems
<1> QED
  BY <1>1, <1>4, <1>5, CallGoes DEF Leads

\* The document captures a focus: focusin is simulated, unless trigger() has done it.
LEMMA CaptureFacts ==
    ASSUME Core, Capture
    PROVE  /\ agenda # <<>> /\ agenda[1].do = "capture" /\ UNCHANGED <<data, triggered, calls, history>>
           /\ \E steps, e : /\ Goes(Len(steps), 1, e) /\ Leads(steps) /\ FireLike(agenda[1].ev, "focusin", steps)
                            /\ triggered = "focus" => Len(steps) = 0
<1> DEFINE steps == IF attaches > 0 THEN Simulated(Todo.ev, Todo.node) ELSE <<>>
           fires == Fires(Todo.ev, Todo.node, Path(Todo.node), "focusin")
<1>1. agenda # <<>> /\ Todo.do = "capture" /\ Then(steps) /\ UNCHANGED <<data, triggered, calls, history>>
  BY NowFacts DEF Capture
<1>2. Todo.ev \in 1 .. calls /\ Todo.node \in Nodes /\ Path(Todo.node) \in Seq(Nodes) /\ Distinct(Path(Todo.node)) /\ "focusin" \in Keys
      /\ calls \in Nat /\ calls <= MaxCalls
  BY <1>1, TodoType, PathFacts, CoreFacts DEF Core, Keys
<1>3. fires \in Seq(Ones(calls, copyOf, Todo.ev)) /\ FireLike(Todo.ev, "focusin", fires)
  BY <1>2, FiresFit, FiresElems
<1>4. fires \in Seq(Steps)
  BY <1>3, OnesSteps
<1>5. FireLike(Todo.ev, "focusin", <<>>)
  BY DEF FireLike
<1>6. steps = fires \/ steps = <<>>
  BY DEF Simulated
<1>7. triggered = "focus" => steps = <<>>
  BY DEF Simulated
<1> HIDE DEF steps, fires
<1>8. steps \in Seq(Steps) /\ FireLike(Todo.ev, "focusin", steps)
  BY <1>3, <1>4, <1>5, <1>6, NoSteps
<1>9. PICK e : Goes(Len(steps), 1, e) /\ Leads(steps)
  BY <1>1, <1>8, ThenGoes DEF Leads
<1> QED
  BY <1>1, <1>7, <1>8, <1>9, HeadFacts, NoSteps

\* the handlers that hear the event on this node, once each
QueueLike(head, s) ==
    /\ \A i \in 1 .. Len(s) :
          /\ s[i].do = "run" /\ s[i].ev = head.ev /\ s[i].node = head.at /\ s[i].key = head.key
          /\ \E k \in 1 .. Len(handlers[head.at][head.key]) : s[i].h = handlers[head.at][head.key][k]
    /\ Distinct(s)

\* A node is reached: its handlers are queued, unless the event is discarded.
LEMMA HandleFacts ==
    ASSUME Core, Handle
    PROVE  /\ agenda # <<>> /\ agenda[1].do \in {"fire", "deliver"} /\ agenda[1].at \in Nodes /\ agenda[1].key \in Keys
           /\ agenda[1].ev \in 1 .. calls /\ UNCHANGED <<data, triggered, calls, copyOf, history>>
           /\ \E steps, e : /\ Goes(Len(steps), 1, e) /\ Leads(steps) /\ QueueLike(agenda[1], steps)
                            /\ triggered = agenda[1].key => Len(steps) = 0
<1> DEFINE heard == IF Todo.do = "fire" THEN handlers[Todo.at][Todo.key] # <<>>
                    ELSE Todo.key \in listener[Todo.at]
           queue == HandlerQueue(Fixed(Todo), Todo.at)
           steps == IF heard /\ ~Discards(Todo.key) THEN queue ELSE <<>>
<1>1. agenda # <<>> /\ Todo.do \in {"fire", "deliver"} /\ Then(steps) /\ UNCHANGED <<data, triggered, calls, copyOf, history>>
  BY NowFacts DEF Handle, tree
<1>2. Todo.ev \in 1 .. calls /\ Todo.node \in Nodes /\ Todo.at \in Nodes /\ Todo.key \in Keys /\ IsTree /\ Data /\ DataType /\ calls \in Nat
  BY <1>1, TodoType, CoreFacts DEF Core
<1>3. queue \in Seq(Ones(calls, copyOf, Todo.ev))
  BY <1>2, QueueFits DEF Fixed
<1>4. queue \in Seq(Steps)
  BY <1>3, OnesSteps
<1>5. QueueLike(Todo, queue)
  <2>1. handlers[Todo.at][Todo.key] \in Seq(Handlers) /\ delegates[Todo.at][Todo.key] \in Nat
        /\ ListOK(handlers[Todo.at][Todo.key], delegates[Todo.at][Todo.key], Todo.key, calls)
    BY <1>2, ListType, DataLists
  <2>2. (\A i \in 1 .. Len(queue) : QueueStep(Todo.ev, Todo.at, Todo.key, queue[i])) /\ Distinct(queue)
    BY <1>2, <2>1, QueueFacts DEF Fixed
  <2>3. \A s : QueueStep(Todo.ev, Todo.at, Todo.key, s) =>
          /\ s.do = "run" /\ s.ev = Todo.ev /\ s.node = Todo.at /\ s.key = Todo.key
          /\ \E k \in 1 .. Len(handlers[Todo.at][Todo.key]) : s.h = handlers[Todo.at][Todo.key][k]
    BY DEF QueueStep, Do
  <2> HIDE DEF queue
  <2> QED
    BY <2>2, <2>3 DEF QueueLike
<1>6. QueueLike(Todo, <<>>)
  BY DEF QueueLike, Distinct
<1>7. triggered = Todo.key => steps = <<>>
  BY DEF Discards
<1>8. steps = queue \/ steps = <<>>
  OBVIOUS
<1> HIDE DEF steps, queue
<1>9. steps \in Seq(Steps) /\ QueueLike(Todo, steps)
  BY <1>4, <1>5, <1>6, <1>8, NoSteps
<1>10. PICK e : Goes(Len(steps), 1, e) /\ Leads(steps)
  BY <1>1, <1>9, ThenGoes DEF Leads
<1> QED
  BY <1>1, <1>2, <1>7, <1>9, <1>10, HeadFacts, NoSteps

\* A handler runs: its function comes next.
LEMMA RunFacts ==
    ASSUME Core, Run
    PROVE  /\ agenda # <<>> /\ agenda[1].do = "run" /\ agenda[1].ev \in 1 .. calls /\ agenda[1].h \in Handlers
           /\ agenda[1].key = Key(agenda[1].h.type, agenda[1].h.sel)
           /\ Todo = agenda[1] /\ UNCHANGED <<triggered, calls, copyOf, stopped>>
           /\ \E e : Goes(1, 1, e)
           /\ agenda'[1].do = "page" /\ agenda'[1].ev = agenda[1].ev /\ agenda'[1].at = agenda[1].at /\ agenda'[1].key = "handler"
<1> DEFINE g == Do("page", Todo.ev, Todo.node, Todo.at, "handler", Todo.h)
<1>1. agenda # <<>> /\ Todo.do = "run" /\ Then(<<g>>) /\ UNCHANGED <<triggered, calls, copyOf, stopped>>
  BY NowFacts DEF Run, tree
<1>2. Todo.ev \in 1 .. calls /\ Todo.node \in Nodes /\ Todo.at \in Nodes /\ Todo.h \in Handlers /\ Todo.key = Key(Todo.h.type, Todo.h.sel)
  BY <1>1, TodoType, CoreFacts DEF Core
<1>3. g \in Steps
  <2>1. g \in Fits(calls, copyOf)
    BY <1>2, StepFits, CoreFacts
  <2> HIDE DEF g
  <2> QED
    BY <2>1 DEF Fits
<1>4. g.ev = Todo.ev /\ g.do = "page" /\ g.key = "handler" /\ g.at = Todo.at
  BY DEF Do
<1> HIDE DEF g
<1>5. <<g>> \in Seq(Steps) /\ Len(<<g>>) = 1 /\ <<g>>[1] = g
  <2> HIDE DEF Steps
  <2> QED
    BY <1>3
<1>6. PICK e : Goes(Len(<<g>>), 1, e) /\ \A i \in 1 .. Len(<<g>>) : agenda'[i] = <<g>>[i]
  BY <1>1, <1>5, ThenGoes
<1>7. Goes(1, 1, e) /\ agenda'[1] = g
  BY <1>5, <1>6
<1> QED
  BY <1>1, <1>2, <1>4, <1>7, HeadFacts

\* A function returns: what it has stopped is left out.
LEMMA PageFacts ==
    ASSUME Core, NEW how, PageReturns(how)
    PROVE  /\ agenda # <<>> /\ agenda[1].do = "page" /\ UNCHANGED <<data, triggered, calls, copyOf, handled, spent, wrong>>
           /\ \E e : Goes(0, 1, e)
           /\ \/ how = "nothing" /\ stopped' = stopped
              \/ /\ agenda[1].key = "handler" /\ stopped' = stopped \cup {<<agenda[1].ev, agenda[1].at>>}
                 /\ \A i \in 1 .. Len(agenda') : agenda'[i].ev = agenda[1].ev =>
                       agenda'[i].do \notin {"fire", "deliver"} /\ (agenda'[i].do = "run" => agenda'[i].at = agenda[1].at)
<1> DEFINE gone(s) == \/ how # "nothing" /\ Silences(s, Todo.ev, Todo.at)
                      \/ how = "immediate" /\ s.do = "run" /\ s.ev = Todo.ev
                      \/ how = "false" /\ s.do = "default" /\ s.ev = Todo.ev
           out == {s \in Range(agenda) : gone(s)}
<1>1. /\ agenda # <<>> /\ Todo.do = "page" /\ UNCHANGED <<data, triggered, calls, copyOf, handled, spent, wrong>>
      /\ how = "nothing" \/ Todo.key = "handler"
      /\ agenda' = Without(Tail(agenda), out)
      /\ stopped' = IF how = "nothing" THEN stopped ELSE stopped \cup {<<Todo.ev, Todo.at>>}
  BY NowFacts DEF PageReturns, tree
<1>2. \A s \in out : s.do # "end"
  BY DEF Silences
<1>3. \A s \in Range(agenda) : how # "nothing" /\ s.ev = Todo.ev /\ (s.do \in {"fire", "deliver"} \/ (s.do = "run" /\ s.at # Todo.at)) => s \in out
  BY DEF Silences
<1> HIDE DEF out, gone
<1>0. agenda # <<>> /\ agenda' = Without(Tail(agenda), out)
  BY <1>1
<1>4. (\E e : Goes(0, 1, e)) /\ \A i \in 1 .. Len(agenda') : agenda'[i] \notin out
  BY <1>0, <1>2, WithoutGoes
<1>5. Todo = agenda[1]
  BY <1>0, HeadFacts
<1>6. \A i \in 1 .. Len(agenda') : agenda'[i] \in Range(agenda)
  <2>1. PICK e : Goes(0, 1, e)
    BY <1>4
  <2>2. \A i \in 1 .. Len(agenda') : e[i] \in 1 .. Len(agenda) /\ agenda'[i] = agenda[e[i]]
    BY <2>1 DEF Goes
  <2>3. agenda \in Seq(Steps)
    BY AgendaSeq
  <2> HIDE DEF Steps
  <2> QED
    BY <2>2, <2>3, RangeIn
<1>7. ASSUME how # "nothing", NEW i \in 1 .. Len(agenda'), agenda'[i].ev = Todo.ev
      PROVE  agenda'[i].do \notin {"fire", "deliver"} /\ (agenda'[i].do = "run" => agenda'[i].at = Todo.at)
  BY <1>3, <1>4, <1>6, <1>7
<1>8. \/ how = "nothing" /\ stopped' = stopped
      \/ how # "nothing" /\ Todo.key = "handler" /\ stopped' = stopped \cup {<<Todo.ev, Todo.at>>}
  BY <1>1
<1> QED
  BY <1>1, <1>4, <1>5, <1>7, <1>8

\* The native method: a native event, and then its end.
LEMMA DefaultFacts ==
    ASSUME Core, Default
    PROVE  /\ agenda # <<>> /\ agenda[1].do = "default" /\ agenda[1].ev \in 1 .. calls /\ agenda[1].key \in {"click", "focus"}
           /\ UNCHANGED <<data, calls, copyOf, history>> /\ triggered' = agenda[1].key
           /\ \E s, e : /\ Goes(Len(s) + 1, 1, e) /\ Len(s) \in Nat /\ NativeLike(agenda[1].ev, agenda[1].key, s)
                        /\ Leads(s) /\ Len(s) + 1 \in 1 .. Len(agenda')
                        /\ agenda'[Len(s) + 1].do = "end" /\ agenda'[Len(s) + 1].ev = agenda[1].ev
<1> DEFINE s == Native(Todo.ev, Todo.node, Todo.key)
           g == Do("end", Todo.ev, Todo.node, Todo.at, Todo.key, None)
<1>1. agenda # <<>> /\ Todo.do = "default" /\ Then(s \o <<g>>) /\ UNCHANGED <<data, calls, copyOf, history>> /\ triggered' = Todo.key
  BY NowFacts DEF Default, tree
<1>2. Todo.ev \in 1 .. calls /\ Todo.node \in Nodes /\ Todo.key \in {"click", "focus"} /\ Todo \in Steps /\ IsTree
      /\ calls \in Nat /\ calls <= MaxCalls
  BY <1>1, TodoType, CoreFacts DEF Core
<1>3. s \in Seq(Ones(calls, copyOf, Todo.ev)) /\ NativeLike(Todo.ev, Todo.key, s)
  BY <1>2, NativeFits, NativeElems
<1>4. s \in Seq(Steps)
  BY <1>3, OnesSteps
<1>5. g \in Steps
  BY <1>2 DEF Steps, Do, Keys
<1>6. g.ev = Todo.ev /\ g.do = "end"
  BY DEF Do
<1> HIDE DEF s, g
<1> DEFINE u == s \o <<g>>
<1>7. /\ u \in Seq(Steps) /\ Len(u) = Len(s) + 1 /\ Len(s) \in Nat /\ u[Len(s) + 1] = g
      /\ \A i \in 1 .. Len(s) : u[i] = s[i] /\ i \in 1 .. Len(u)
  <2> HIDE DEF Steps
  <2>1. <<g>> \in Seq(Steps) /\ Len(<<g>>) = 1 /\ <<g>>[1] = g
    BY <1>5
  <2>2. /\ u \in Seq(Steps) /\ Len(u) = Len(s) + Len(<<g>>) /\ Len(s) \in Nat
        /\ \A i \in 1 .. Len(s) : u[i] = s[i]
        /\ \A i \in 1 .. Len(<<g>>) : u[Len(s) + i] = <<g>>[i]
    BY <1>4, <2>1, Concat
  <2> QED
    BY <2>1, <2>2
<1> HIDE DEF u
<1>8. PICK e : Goes(Len(u), 1, e) /\ Leads(u)
  <2>1. Then(u)
    BY <1>1 DEF u
  <2> QED
    BY <1>1, <1>7, <2>1, ThenGoes DEF Leads
<1>9. Goes(Len(s) + 1, 1, e) /\ Leads(s) /\ Len(s) + 1 \in 1 .. Len(agenda') /\ agenda'[Len(s) + 1] = g
  BY <1>7, <1>8 DEF Leads
<1> QED
  BY <1>1, <1>2, <1>3, <1>6, <1>7, <1>9, HeadFacts

\* The end of a native event.
LEMMA EndFacts ==
    ASSUME Core, End
    PROVE  /\ agenda # <<>> /\ agenda[1].do = "end" /\ UNCHANGED <<data, calls, copyOf, history>> /\ triggered' = None
           /\ \E e : Goes(0, 1, e)
<1>1. agenda # <<>> /\ Todo.do = "end" /\ Then(<<>>) /\ UNCHANGED <<data, calls, copyOf, history>> /\ triggered' = None
  BY NowFacts DEF End, tree
<1>2. \E e : Goes(0, 1, e)
  BY <1>1, NoSteps, ThenGoes
<1> QED
  BY <1>1, <1>2, HeadFacts

(***************************************************************************)
(* Ending: the native event behind trigger() is under way while triggered  *)
(* is set.                                                                 *)
(***************************************************************************)

\* what may be on the agenda while a native event of trigger() is under way
BeforeEnd(s, type) ==
    /\ s.do \in {"capture", "deliver", "page", "evaluate"}
    /\ s.do = "capture" => type = "focus"
    /\ s.do = "deliver" => s.key = type
    /\ s.do = "page" => s.key # "handler"

Ended == \A k \in 1 .. Len(agenda) : agenda[k].do = "end" => triggered # None
Holding == \A i \in 1 .. Len(agenda) : Held(i) => BeforeEnd(agenda[i], triggered)

\* Ending, step by step.
LEMMA EndingParts ==
    ASSUME Core
    PROVE  Ending <=> /\ triggered # None => \E k \in 1 .. Len(agenda) : agenda[k].do = "end"
                      /\ Calm => Quiet
                      /\ Quiet => Ended /\ Holding
<1> USE AgendaSeq
<1>1. ASSUME Ending, Quiet
      PROVE  Ended /\ Holding
  <2>1. Ended
    BY <1>1 DEF Ending, Ended
  <2>2. ASSUME NEW i \in 1 .. Len(agenda), Held(i)
        PROVE  BeforeEnd(agenda[i], triggered)
    <3>1. PICK k \in 1 .. Len(agenda) : i < k /\ agenda[k].do = "end"
      BY <2>2 DEF Held
    <3>2. i \in 1 .. k - 1
      BY <3>1
    <3> QED
      BY <1>1, <3>1, <3>2 DEF Ending, BeforeEnd
  <2> QED
    BY <2>1, <2>2 DEF Holding
<1>2. ASSUME Quiet, Ended, Holding, NEW k \in 1 .. Len(agenda), agenda[k].do = "end", NEW i \in 1 .. k - 1
      PROVE  BeforeEnd(agenda[i], triggered)
  <2>1. i \in 1 .. Len(agenda) /\ i < k
    OBVIOUS
  <2> QED
    BY <1>2, <2>1 DEF Holding, Held
<1> QED
  BY <1>1, <1>2 DEF Ending, Ended, BeforeEnd

LEMMA EndingPartsNext ==
    ASSUME Core', triggered' # None => \E k \in 1 .. Len(agenda') : agenda'[k].do = "end",
           Calm' => Quiet', Quiet' => Ended' /\ Holding'
    PROVE  Ending'
<1>1. agenda' \in Seq(Steps) /\ Len(agenda') \in Nat
  <2>1. agenda' \in Seq(Steps)
    BY CoreInvNext DEF EventsInv, TypeOK
  <2> HIDE DEF Steps
  <2> QED
    BY <2>1
<1>2. ASSUME Quiet', Ended', Holding', NEW k \in 1 .. Len(agenda'), agenda'[k].do = "end", NEW i \in 1 .. k - 1
      PROVE  BeforeEnd(agenda'[i], triggered')
  <2>1. i \in 1 .. Len(agenda') /\ i < k
    BY <1>1
  <2> QED
    BY <1>2, <2>1 DEF Holding, Held
<1> QED
  BY <1>2 DEF Ending, Ended, BeforeEnd

\* What is quiet was quiet.
LEMMA QuietBefore ==
    ASSUME wrong \subseteq wrong'
    PROVE  (Quiet' => Quiet) /\ (Calm' => Calm)
  BY DEF Quiet, Calm

\* What is new is held only when the head was.
LEMMA HeldNew ==
    ASSUME NEW n, NEW e, Goes(n, 1, e), \A i \in 1 .. n : agenda'[i].do # "end", NEW i \in 1 .. n, Held(i)'
    PROVE  Held(1)
<1>1. PICK k \in 1 .. Len(agenda') : i < k /\ agenda'[k].do = "end"
  BY DEF Held
<1>2. n \in Nat /\ Len(agenda') \in Nat /\ Len(agenda) \in Nat
  BY DEF Goes
<1>3. k > n
  BY <1>1, <1>2
<1>4. e[k] \in 1 .. Len(agenda) /\ 1 < e[k] /\ agenda[e[k]].do = "end"
  BY <1>1, <1>2, <1>3 DEF Goes
<1> QED
  BY <1>4 DEF Held

\* An end in the new agenda was there.
LEMMA EndGoes ==
    ASSUME NEW n, NEW m, NEW e, Goes(n, m, e), \A i \in 1 .. n : agenda'[i].do # "end",
           NEW k \in 1 .. Len(agenda'), agenda'[k].do = "end"
    PROVE  k > n /\ e[k] \in 1 .. Len(agenda) /\ e[k] > m /\ agenda[e[k]].do = "end"
<1>1. n \in Nat /\ Len(agenda') \in Nat
  BY DEF Goes
<1>2. k > n
  BY <1>1
<1> QED
  BY <1>2 DEF Goes

\* Ending is kept when nothing new is held that may not be.
LEMMA EndingGoes ==
    ASSUME Core, Core', Ending, Quiet' => Quiet, Calm' => Quiet', UNCHANGED triggered,
           NEW n, NEW m, NEW e, Goes(n, m, e), m = 1 => agenda[1].do # "end",
           \A i \in 1 .. n : agenda'[i].do # "end",
           Quiet' => \A i \in 1 .. n : Held(i)' => BeforeEnd(agenda'[i], triggered)
    PROVE  Ending'
<1>1. /\ triggered # None => \E k \in 1 .. Len(agenda) : agenda[k].do = "end"
      /\ Quiet => Ended /\ Holding
  BY EndingParts
<1>2. /\ n \in Nat /\ m \in {0, 1} /\ Len(agenda') \in Nat /\ Len(agenda) \in Nat
      /\ \A j \in 1 .. Len(agenda') : j > n => e[j] \in 1 .. Len(agenda) /\ agenda'[j] = agenda[e[j]]
      /\ \A k \in 1 .. Len(agenda) : k > m /\ agenda[k].do = "end" => \E i \in 1 .. Len(agenda') : i > n /\ e[i] = k
  BY DEF Goes
<1>3. triggered' # None => \E k \in 1 .. Len(agenda') : agenda'[k].do = "end"
  <2> SUFFICES ASSUME triggered # None
               PROVE  \E k \in 1 .. Len(agenda') : agenda'[k].do = "end"
    OBVIOUS
  <2>1. PICK k \in 1 .. Len(agenda) : agenda[k].do = "end"
    BY <1>1
  <2>2. k > m
    BY <1>2, <2>1
  <2> QED
    BY <1>2, <2>1, <2>2
<1>4. ASSUME Quiet'
      PROVE  Ended'
  <2> SUFFICES ASSUME NEW k \in 1 .. Len(agenda'), agenda'[k].do = "end"
               PROVE  triggered # None
    BY DEF Ended
  <2>1. e[k] \in 1 .. Len(agenda) /\ agenda[e[k]].do = "end"
    BY EndGoes
  <2> QED
    BY <1>1, <1>4, <2>1 DEF Ended
<1>5. ASSUME Quiet'
      PROVE  Holding'
  <2> SUFFICES ASSUME NEW i \in 1 .. Len(agenda'), Held(i)'
               PROVE  BeforeEnd(agenda'[i], triggered)
    BY DEF Holding
  <2>1. CASE i > n
    <3>1. Held(e[i])
      BY <2>1, HeldGoes
    <3> QED
      BY <1>1, <1>2, <1>5, <2>1, <3>1 DEF Holding
  <2>2. CASE ~(i > n)
    <3>1. i \in 1 .. n
      BY <1>2, <2>2
    <3> QED
      BY <1>5, <3>1
  <2> QED
    BY <2>1, <2>2
<1> QED
  BY <1>3, <1>4, <1>5, EndingPartsNext

\* Whether a step leaves the two histories quiet depends on what it may find wrong.
LEMMA QuietWrong ==
    ASSUME NEW W, wrong' \subseteq wrong \cup W, wrong \subseteq wrong',
           "triggered inside a native event" \notin W, "triggered inside an event" \notin W
    PROVE  (Quiet' <=> Quiet) /\ (Calm' <=> Calm)
  BY DEF Quiet, Calm

\* Only what triggers an event may trigger it inside another.
LEMMA QuietSteps ==
    ASSUME Binding \/ Manipulating \/ Engine \/ UNCHANGED vars, [Next]_vars
    PROVE  (Quiet' <=> Quiet) /\ (Calm' <=> Calm)
<1>1. wrong \subseteq wrong'
  BY WrongGrows
<1>2. wrong' \subseteq wrong \cup {"cleaned a delegated focus", "moved by a script", "handled twice", "one twice",
                                   "heard when stopped", "evaluated twice"}
  BY WrongWhat DEF vars, history
<1> QED
  BY <1>1, <1>2, QuietWrong

\* A node that is to hear of an event that has an end is before it.
LEMMA HeldFirst ==
    ASSUME Core, Ending, Quiet, NEW k \in 1 .. Len(agenda), agenda[k].do = "end", k # 1
    PROVE  Held(1) /\ BeforeEnd(agenda[1], triggered)
<1>1. k > 1 /\ 1 \in 1 .. Len(agenda)
  BY AgendaSeq
<1>2. Held(1)
  BY <1>1 DEF Held
<1> QED
  BY <1>1, <1>2, EndingParts DEF Holding

\* Each kind of step keeps Ending.
LEMMA IdleEnding ==
    ASSUME Core, Core', Ending, Binding \/ Manipulating \/ Evaluate \/ UNCHANGED vars, Quiet' <=> Quiet, Calm' <=> Calm
    PROVE  Ending'
<1>1. UNCHANGED triggered
  BY IdleFacts
<1>2. PICK n, m, e :
          /\ Goes(n, m, e)
          /\ m = 1 => agenda[1].do = "evaluate"
          /\ \A i \in 1 .. n : /\ agenda'[i].ev = 0 /\ agenda'[i].do \in {"evaluate", "page"}
                               /\ agenda'[i].do = "page" => agenda'[i].key = "script"
  BY IdleFacts
<1>3. \A i \in 1 .. n : agenda'[i].do # "end" /\ BeforeEnd(agenda'[i], triggered)
  BY <1>2 DEF BeforeEnd
<1>4. Calm' => Quiet'
  BY EndingParts
<1>5. (m = 1 => agenda[1].do # "end") /\ Goes(n, m, e)
  BY <1>2
<1> QED
  BY <1>1, <1>3, <1>4, <1>5, EndingGoes

LEMMA CaptureEnding ==
    ASSUME Core, Core', Ending, Capture, Quiet' <=> Quiet, Calm' <=> Calm
    PROVE  Ending'
<1>1. agenda # <<>> /\ agenda[1].do = "capture" /\ UNCHANGED triggered
  BY CaptureFacts
<1>2. PICK steps, e : /\ Goes(Len(steps), 1, e) /\ Leads(steps) /\ FireLike(agenda[1].ev, "focusin", steps)
                      /\ triggered = "focus" => Len(steps) = 0
  BY CaptureFacts
<1>3. \A i \in 1 .. Len(steps) : agenda'[i].do # "end"
  BY <1>2 DEF Leads, FireLike
<1>4. ASSUME Quiet', NEW i \in 1 .. Len(steps), Held(i)'
      PROVE  FALSE
  <2>1. Held(1)
    BY <1>2, <1>3, <1>4, HeldNew
  <2>2. BeforeEnd(agenda[1], triggered)
    BY <1>4, <2>1, EndingParts, HeadFacts, <1>1 DEF Holding
  <2>3. triggered = "focus"
    BY <1>1, <2>2 DEF BeforeEnd
  <2> QED
    BY <1>2, <2>3
<1>5. Calm' => Quiet'
  BY EndingParts
<1> QED
  BY <1>1, <1>2, <1>3, <1>4, <1>5, EndingGoes

LEMMA HandleEnding ==
    ASSUME Core, Core', Ending, Handle, Quiet' <=> Quiet, Calm' <=> Calm
    PROVE  Ending'
<1>1. agenda # <<>> /\ agenda[1].do \in {"fire", "deliver"} /\ UNCHANGED triggered
  BY HandleFacts
<1>2. PICK steps, e : /\ Goes(Len(steps), 1, e) /\ Leads(steps) /\ QueueLike(agenda[1], steps)
                      /\ triggered = agenda[1].key => Len(steps) = 0
  BY HandleFacts
<1>3. \A i \in 1 .. Len(steps) : agenda'[i].do # "end"
  BY <1>2 DEF Leads, QueueLike
<1>4. ASSUME Quiet', NEW i \in 1 .. Len(steps), Held(i)'
      PROVE  FALSE
  <2>1. Held(1)
    BY <1>2, <1>3, <1>4, HeldNew
  <2>2. BeforeEnd(agenda[1], triggered)
    BY <1>4, <2>1, EndingParts, HeadFacts, <1>1 DEF Holding
  <2>3. triggered = agenda[1].key
    BY <1>1, <2>2 DEF BeforeEnd
  <2> QED
    BY <1>2, <2>3
<1>5. Calm' => Quiet'
  BY EndingParts
<1> QED
  BY <1>1, <1>2, <1>3, <1>4, <1>5, EndingGoes

LEMMA RunEnding ==
    ASSUME Core, Core', Ending, Run, Quiet' <=> Quiet, Calm' <=> Calm
    PROVE  Ending'
<1>1. agenda # <<>> /\ agenda[1].do = "run" /\ UNCHANGED triggered /\ agenda'[1].do = "page"
  BY RunFacts
<1>2. PICK e : Goes(1, 1, e)
  BY RunFacts
<1>3. \A i \in 1 .. 1 : agenda'[i].do # "end"
  BY <1>1
<1>4. ASSUME Quiet', NEW i \in 1 .. 1, Held(i)'
      PROVE  FALSE
  <2>1. Held(1)
    BY <1>2, <1>3, <1>4, HeldNew
  <2>2. BeforeEnd(agenda[1], triggered)
    BY <1>4, <2>1, EndingParts, HeadFacts, <1>1 DEF Holding
  <2> QED
    BY <1>1, <2>2 DEF BeforeEnd
<1>5. Calm' => Quiet'
  BY EndingParts
<1> QED
  BY <1>1, <1>2, <1>3, <1>4, <1>5, EndingGoes

LEMMA PageEnding ==
    ASSUME Core, Core', Ending, NEW how, PageReturns(how), Quiet' <=> Quiet, Calm' <=> Calm
    PROVE  Ending'
<1>1. agenda # <<>> /\ agenda[1].do = "page" /\ UNCHANGED triggered
  BY PageFacts
<1>2. PICK e : Goes(0, 1, e)
  BY PageFacts
<1>3. Calm' => Quiet'
  BY EndingParts
<1> QED
  BY <1>1, <1>2, <1>3, EndingGoes

LEMMA DefaultEnding ==
    ASSUME Core, Core', Ending, Default, Quiet' <=> Quiet, Calm' <=> Calm
    PROVE  Ending'
<1>1. agenda # <<>> /\ agenda[1].do = "default" /\ triggered' = agenda[1].key /\ agenda[1].key \in {"click", "focus"}
  BY DefaultFacts
<1>2. PICK s, e : /\ Goes(Len(s) + 1, 1, e) /\ Len(s) \in Nat /\ NativeLike(agenda[1].ev, agenda[1].key, s)
                  /\ Leads(s) /\ Len(s) + 1 \in 1 .. Len(agenda')
                  /\ agenda'[Len(s) + 1].do = "end" /\ agenda'[Len(s) + 1].ev = agenda[1].ev
  BY DefaultFacts
<1>3. triggered' # None
  BY <1>1, EventsAssumption DEF Keys
<1>4. ASSUME Quiet, NEW k \in 1 .. Len(agenda)
      PROVE  agenda[k].do # "end"
  BY <1>1, <1>4, HeldFirst DEF BeforeEnd
<1>5. ASSUME Quiet', NEW i \in 1 .. Len(agenda'), Held(i)'
      PROVE  BeforeEnd(agenda'[i], triggered')
  <2>1. PICK k \in 1 .. Len(agenda') : i < k /\ agenda'[k].do = "end"
    BY <1>5 DEF Held
  <2>2. Len(agenda') \in Nat /\ \A j \in 1 .. Len(agenda') : j > Len(s) + 1 => e[j] \in 1 .. Len(agenda) /\ agenda'[j] = agenda[e[j]]
    BY <1>2 DEF Goes
  <2>3. ~(k > Len(s) + 1)
    BY <1>4, <1>5, <2>1, <2>2
  <2>4. i \in 1 .. Len(s)
    BY <1>2, <2>1, <2>2, <2>3
  <2>5. agenda'[i] = s[i]
    BY <1>2, <2>4 DEF Leads
  <2>6. /\ s[i].do \in {"page", "deliver", "capture"}
        /\ s[i].do = "page" => s[i].key = "plain"
        /\ s[i].do = "deliver" => s[i].key = agenda[1].key
        /\ s[i].do = "capture" => agenda[1].key = "focus"
    BY <1>2, <2>4 DEF NativeLike
  <2> QED
    BY <1>1, <2>5, <2>6 DEF BeforeEnd
<1>6. Calm' => Quiet'
  BY EndingParts
<1>7. \E k \in 1 .. Len(agenda') : agenda'[k].do = "end"
  BY <1>2
<1>8. Quiet' => Ended' /\ Holding'
  BY <1>3, <1>5 DEF Ended, Holding
<1> QED
  BY <1>6, <1>7, <1>8, EndingPartsNext

LEMMA EndEnding ==
    ASSUME Core, Core', Ending, End, Quiet' <=> Quiet, Calm' <=> Calm
    PROVE  Ending'
<1>1. agenda # <<>> /\ agenda[1].do = "end" /\ triggered' = None
  BY EndFacts
<1>2. PICK e : Goes(0, 1, e)
  BY EndFacts
<1>3. ASSUME Quiet', NEW k \in 1 .. Len(agenda'), agenda'[k].do = "end"
      PROVE  FALSE
  <2>1. e[k] \in 1 .. Len(agenda) /\ e[k] > 1 /\ agenda[e[k]].do = "end"
    BY <1>2, <1>3, EndGoes
  <2>2. e[k] # 1
    BY <2>1
  <2> QED
    BY <1>1, <1>3, <2>1, <2>2, HeldFirst DEF BeforeEnd
<1>4. Quiet' => Ended' /\ Holding'
  BY <1>3 DEF Ended, Holding, Held
<1>5. Calm' => Quiet'
  BY EndingParts
<1> QED
  BY <1>1, <1>4, <1>5, EndingPartsNext

\* What begins an event inside a native one of trigger() is not quiet.
LEMMA BeginWrong ==
    ASSUME NEW ev, NEW steps, Begin(ev, steps)
    PROVE  /\ UNCHANGED <<data, triggered, spent, copyOf>>
           /\ Quiet' <=> Quiet /\ triggered = None
           /\ Calm' <=> Calm /\ agenda = <<>>
           /\ agenda = <<>> => handled' = {} /\ stopped' = {}
           /\ agenda # <<>> => handled' = handled /\ stopped' = stopped
<1>1. wrong' = wrong \cup (IF triggered # None THEN {"triggered inside a native event"} ELSE {})
                     \cup (IF agenda # <<>> THEN {"triggered inside an event"} ELSE {})
  BY DEF Begin
<1>2. Quiet' <=> Quiet /\ triggered = None
  BY <1>1 DEF Quiet
<1>3. Calm' <=> Calm /\ agenda = <<>>
  BY <1>1 DEF Calm
<1> QED
  BY <1>2, <1>3 DEF Begin, tree

LEMMA BeginEnding ==
    ASSUME Core, Core', Ending, Triggering
    PROVE  Ending'
<1>1. PICK steps, e : /\ Calling /\ Begin(calls', steps) /\ BeginLike(calls', steps)
                      /\ Goes(Len(steps), 0, e) /\ Leads(steps)
  BY BeginFacts
<1>2. /\ UNCHANGED triggered
      /\ Quiet' <=> Quiet /\ triggered = None
      /\ Calm' <=> Calm /\ agenda = <<>>
  BY <1>1, BeginWrong
<1>3. \A i \in 1 .. Len(steps) : agenda'[i].do # "end"
  BY <1>1 DEF Leads, BeginLike
<1>4. ASSUME Quiet', NEW i \in 1 .. Len(steps), Held(i)'
      PROVE  FALSE
  <2>1. PICK k \in 1 .. Len(agenda') : agenda'[k].do = "end"
    BY <1>4 DEF Held
  <2>2. e[k] \in 1 .. Len(agenda) /\ agenda[e[k]].do = "end"
    BY <1>1, <1>3, <2>1, EndGoes
  <2> QED
    BY <1>2, <1>4, <2>2, EndingParts DEF Ended
<1>5. Calm' => Quiet'
  <2> SUFFICES ASSUME Calm', triggered # None
               PROVE  FALSE
    BY <1>2, EndingParts
  <2>1. PICK k \in 1 .. Len(agenda) : TRUE
    BY EndingParts
  <2>2. Len(agenda) = 0
    BY <1>2
  <2> QED
    BY <2>1, <2>2
<1>6. Goes(Len(steps), 0, e) /\ (0 = 1 => agenda[1].do # "end")
  BY <1>1
<1>7. Quiet' => Quiet
  BY <1>2
<1> QED
  BY <1>2, <1>3, <1>4, <1>5, <1>6, <1>7, EndingGoes

\* All steps keep it.
LEMMA EndingNext ==
    ASSUME Core, Core', Ending, [Next]_vars
    PROVE  Ending'
<1>1. CASE Triggering
  BY <1>1, BeginEnding
<1>2. CASE Binding \/ Manipulating \/ Engine \/ UNCHANGED vars
  <2>1. (Quiet' <=> Quiet) /\ (Calm' <=> Calm)
    BY <1>2, QuietSteps
  <2> QED
    BY <1>2, <2>1, IdleEnding, CaptureEnding, HandleEnding, RunEnding, PageEnding, DefaultEnding, EndEnding DEF Engine
<1> QED
  BY <1>1, <1>2 DEF Next

(***************************************************************************)
(* Stacked and Silent: what a handler has begun is over first, and stopped *)
(* is stopped.                                                             *)
(***************************************************************************)

\* what Stacked is about: a capture, or the function of a handler
Tall(s) == s.do = "capture" \/ (s.do = "page" /\ s.key = "handler")

\* The steps of the agenda belong to calls that were made.
LEMMA AgendaEvs ==
    ASSUME Core, NEW k \in 1 .. Len(agenda)
    PROVE  /\ agenda[k].ev \in Nat /\ agenda[k].ev <= calls /\ calls \in Nat
           /\ Tall(agenda[k]) => agenda[k].ev \in 1 .. calls
<1>1. agenda[k] \in Fits(calls, copyOf) /\ calls \in Nat
  BY CoreFacts DEF Core, AgendaOK
<1>2. /\ agenda[k] \in Steps /\ agenda[k].ev <= calls
      /\ (agenda[k].do = "evaluate" \/ (agenda[k].do = "page" /\ agenda[k].key = "script")) <=> (agenda[k].ev = 0)
  BY <1>1 DEF Fits
<1>3. agenda[k].ev \in Nat
  BY <1>2 DEF Steps
<1>4. Tall(agenda[k]) => agenda[k].ev # 0
  BY <1>2 DEF Tall
<1> QED
  BY <1>1, <1>2, <1>3, <1>4

\* Stacked is kept when the new steps are of one event, of which nothing tall is below.
LEMMA StackedGoes ==
    ASSUME Stacked, NEW n, NEW m, NEW e, Goes(n, m, e), NEW v, \A i \in 1 .. n : agenda'[i].ev = v,
           \A i \in 1 .. n : Tall(agenda'[i]) => i = 1,
           \A k \in 1 .. Len(agenda) : k > m /\ Tall(agenda[k]) => agenda[k].ev # v
    PROVE  Stacked'
<1> SUFFICES ASSUME NEW j \in 1 .. Len(agenda'), Tall(agenda'[j]), NEW i \in 1 .. j - 1
             PROVE  agenda'[i].ev # agenda'[j].ev
  BY DEF Stacked, Tall
<1>1. /\ n \in Nat /\ Len(agenda') \in Nat /\ Len(agenda) \in Nat /\ i \in 1 .. Len(agenda') /\ i < j
      /\ \A k \in 1 .. Len(agenda') : k > n => e[k] \in 1 .. Len(agenda) /\ e[k] > m /\ agenda'[k] = agenda[e[k]]
      /\ \A k, l \in 1 .. Len(agenda') : n < k /\ k < l => e[k] < e[l]
  BY DEF Goes
<1>2. CASE j <= n
  BY <1>1, <1>2
<1>3. CASE j > n /\ i <= n
  BY <1>1, <1>3
<1>4. CASE j > n /\ i > n
  <2>1. e[i] \in 1 .. e[j] - 1 /\ e[j] \in 1 .. Len(agenda) /\ agenda'[i] = agenda[e[i]] /\ agenda'[j] = agenda[e[j]]
    BY <1>1, <1>4
  <2> QED
    BY <2>1 DEF Stacked, Tall
<1> QED
  BY <1>1, <1>2, <1>3, <1>4

\* What the step on top brings is for its own event.
LEMMA StackedHead ==
    ASSUME Core, Stacked, agenda # <<>>, NEW n, NEW e, Goes(n, 1, e), \A i \in 1 .. n : agenda'[i].ev = agenda[1].ev,
           \A i \in 1 .. n : Tall(agenda'[i]) => i = 1
    PROVE  Stacked'
<1>1. ASSUME NEW k \in 1 .. Len(agenda), k > 1, Tall(agenda[k])
      PROVE  agenda[k].ev # agenda[1].ev
  BY <1>1 DEF Stacked, Tall
<1> QED
  BY <1>1, StackedGoes

\* Each kind of step keeps Stacked.
LEMMA IdleStacked ==
    ASSUME Core, Stacked, Binding \/ Manipulating \/ Evaluate \/ UNCHANGED vars
    PROVE  Stacked'
<1>1. PICK n, m, e :
          /\ Goes(n, m, e)
          /\ m = 1 => agenda[1].do = "evaluate"
          /\ \A i \in 1 .. n : /\ agenda'[i].ev = 0 /\ agenda'[i].do \in {"evaluate", "page"}
                               /\ agenda'[i].do = "page" => agenda'[i].key = "script"
  BY IdleFacts
<1>2. \A i \in 1 .. n : agenda'[i].ev = 0 /\ ~Tall(agenda'[i])
  BY <1>1 DEF Tall
<1>3. \A k \in 1 .. Len(agenda) : Tall(agenda[k]) => agenda[k].ev # 0
  BY AgendaEvs
<1> QED
  BY <1>1, <1>2, <1>3, StackedGoes

LEMMA BeginStacked ==
    ASSUME Core, Stacked, Triggering
    PROVE  Stacked'
<1>1. PICK steps, e : /\ Calling /\ Begin(calls', steps) /\ BeginLike(calls', steps)
                      /\ Goes(Len(steps), 0, e) /\ Leads(steps)
  BY BeginFacts
<1>2. \A i \in 1 .. Len(steps) : agenda'[i].ev = calls' /\ (Tall(agenda'[i]) => i = 1)
  BY <1>1 DEF Tall, BeginLike, Leads
<1>3. \A k \in 1 .. Len(agenda) : agenda[k].ev # calls'
  BY <1>1, AgendaEvs DEF Calling
<1> QED
  BY <1>1, <1>2, <1>3, StackedGoes

LEMMA EngineStacked ==
    ASSUME Core, Stacked, Capture \/ Handle \/ Run \/ Default \/ End \/ \E how : PageReturns(how)
    PROVE  Stacked'
<1>1. CASE Capture
  <2>1. PICK steps, e : Goes(Len(steps), 1, e) /\ Leads(steps) /\ FireLike(agenda[1].ev, "focusin", steps) /\ agenda # <<>>
    BY <1>1, CaptureFacts
  <2>2. \A i \in 1 .. Len(steps) : agenda'[i].ev = agenda[1].ev /\ ~Tall(agenda'[i])
    BY <2>1 DEF Tall, FireLike, Leads
  <2> QED
    BY <2>1, <2>2, StackedHead
<1>2. CASE Handle
  <2>1. PICK steps, e : Goes(Len(steps), 1, e) /\ Leads(steps) /\ QueueLike(agenda[1], steps) /\ agenda # <<>>
    BY <1>2, HandleFacts
  <2>2. \A i \in 1 .. Len(steps) : agenda'[i].ev = agenda[1].ev /\ ~Tall(agenda'[i])
    BY <2>1 DEF Tall, QueueLike, Leads
  <2> QED
    BY <2>1, <2>2, StackedHead
<1>3. CASE Run
  <2>1. PICK e : Goes(1, 1, e) /\ agenda # <<>> /\ agenda'[1].ev = agenda[1].ev
    BY <1>3, RunFacts
  <2>2. \A i \in 1 .. 1 : i = 1
    OBVIOUS
  <2> QED
    BY <2>1, <2>2, StackedHead
<1>4. CASE Default
  <2>1. PICK s, e : /\ Goes(Len(s) + 1, 1, e) /\ Len(s) \in Nat /\ NativeLike(agenda[1].ev, agenda[1].key, s)
                    /\ Leads(s) /\ agenda # <<>>
                    /\ agenda'[Len(s) + 1].do = "end" /\ agenda'[Len(s) + 1].ev = agenda[1].ev
    BY <1>4, DefaultFacts
  <2>2. \A i \in 1 .. Len(s) : agenda'[i].ev = agenda[1].ev /\ (Tall(agenda'[i]) => i = 1)
    BY <2>1 DEF Tall, NativeLike, Leads
  <2>3. ~Tall(agenda'[Len(s) + 1])
    BY <2>1 DEF Tall
  <2>4. \A i \in 1 .. Len(s) + 1 : i \in 1 .. Len(s) \/ i = Len(s) + 1
    BY <2>1
  <2> QED
    BY <2>1, <2>2, <2>3, <2>4, StackedHead
<1>5. CASE End
  <2>1. PICK e : Goes(0, 1, e) /\ agenda # <<>>
    BY <1>5, EndFacts
  <2>2. \A i \in 1 .. 0 : FALSE
    OBVIOUS
  <2> QED
    BY <2>1, <2>2, StackedHead
<1>6. CASE \E how : PageReturns(how)
  <2>1. PICK e : Goes(0, 1, e) /\ agenda # <<>>
    BY <1>6, PageFacts
  <2>2. \A i \in 1 .. 0 : FALSE
    OBVIOUS
  <2> QED
    BY <2>1, <2>2, StackedHead
<1> QED
  BY <1>1, <1>2, <1>3, <1>4, <1>5, <1>6

\* All steps keep it.
LEMMA StackedNext ==
    ASSUME Core, Stacked, [Next]_vars
    PROVE  Stacked'
  BY IdleStacked, BeginStacked, EngineStacked DEF Next, Engine

\* what Silent says of a step that belongs to a stopped event
SilentStep(s, held, at) ==
    /\ s.do \in {"fire", "deliver", "capture"} => held
    /\ s.do = "run" \/ (s.do = "page" /\ s.key = "handler") => s.at = at

\* Silent, step by step.
LEMMA SilentParts ==
    Silent <=> /\ \A s \in stopped : s[1] \in 1 .. calls
               /\ Quiet => \A s \in stopped : \A i \in 1 .. Len(agenda) :
                     agenda[i].ev = s[1] => SilentStep(agenda[i], Held(i), s[2])
  BY DEF Silent, SilentStep

\* Silent is kept when it says the truth of what is new.
LEMMA SilentGoes ==
    ASSUME Silent, Quiet' => Quiet, \A s \in stopped' : s[1] \in 1 .. calls', NEW n, NEW m, NEW e, Goes(n, m, e),
           Quiet' => \A s \in stopped' \ stopped : \A i \in 1 .. Len(agenda') :
                        agenda'[i].ev = s[1] => SilentStep(agenda'[i], Held(i)', s[2]),
           Quiet' => \A s \in stopped : \A i \in 1 .. n : agenda'[i].ev = s[1] => SilentStep(agenda'[i], Held(i)', s[2])
    PROVE  Silent'
<1>1. ASSUME Quiet', NEW s \in stopped', NEW i \in 1 .. Len(agenda'), agenda'[i].ev = s[1]
      PROVE  SilentStep(agenda'[i], Held(i)', s[2])
  <2>1. CASE s \notin stopped
    BY <1>1, <2>1
  <2>2. CASE s \in stopped /\ i > n
    <3>1. e[i] \in 1 .. Len(agenda) /\ agenda'[i] = agenda[e[i]]
      BY <2>2 DEF Goes
    <3>2. Held(i)' <=> Held(e[i])
      BY <2>2, HeldGoes
    <3>3. SilentStep(agenda[e[i]], Held(e[i]), s[2])
      BY <1>1, <2>2, <3>1, SilentParts
    <3> QED
      BY <3>1, <3>2, <3>3 DEF SilentStep
  <2>3. CASE s \in stopped /\ ~(i > n)
    <3>1. i \in 1 .. n
      BY <2>3 DEF Goes
    <3> QED
      BY <1>1, <2>3, <3>1
  <2> QED
    BY <2>1, <2>2, <2>3
<1> QED
  BY <1>1 DEF Silent, SilentStep

\* Each kind of step keeps Silent.
LEMMA IdleSilent ==
    ASSUME Core, Silent, calls' \in Nat, calls <= calls', Quiet' => Quiet, Binding \/ Manipulating \/ Evaluate \/ UNCHANGED vars
    PROVE  Silent'
<1>1. PICK n, m, e :
          /\ Goes(n, m, e)
          /\ m = 1 => agenda[1].do = "evaluate"
          /\ \A i \in 1 .. n : /\ agenda'[i].ev = 0 /\ agenda'[i].do \in {"evaluate", "page"}
                               /\ agenda'[i].do = "page" => agenda'[i].key = "script"
  BY IdleFacts
<1>2. stopped' = stopped /\ calls \in Nat
  BY IdleFacts, CoreFacts
<1>3. \A s \in stopped' : s[1] \in 1 .. calls' /\ s[1] # 0
  BY <1>2, SilentParts
<1>4. \A s \in stopped : \A i \in 1 .. n : agenda'[i].ev # s[1]
  BY <1>1, <1>2, <1>3
<1> QED
  BY <1>1, <1>2, <1>3, <1>4, SilentGoes

LEMMA BeginSilent ==
    ASSUME Core, Silent, Triggering, Quiet' => Quiet
    PROVE  Silent'
<1>1. PICK steps, e : /\ Calling /\ Begin(calls', steps) /\ BeginLike(calls', steps)
                      /\ Goes(Len(steps), 0, e) /\ Leads(steps)
  BY BeginFacts
<1>2. stopped' \subseteq stopped /\ calls \in Nat /\ calls' = calls + 1
  BY <1>1, CoreFacts DEF Begin, Calling
<1>3. \A s \in stopped : s[1] \in 1 .. calls' /\ s[1] # calls'
  BY <1>2, SilentParts
<1>4. \A i \in 1 .. Len(steps) : agenda'[i].ev = calls'
  BY <1>1 DEF BeginLike, Leads
<1> QED
  BY <1>1, <1>2, <1>3, <1>4, SilentGoes

LEMMA CaptureSilent ==
    ASSUME Core, Ending, Silent, Capture, Quiet' => Quiet
    PROVE  Silent'
<1>1. agenda # <<>> /\ agenda[1].do = "capture" /\ UNCHANGED <<stopped, calls>>
  BY CaptureFacts DEF history
<1>2. PICK steps, e : /\ Goes(Len(steps), 1, e) /\ Leads(steps) /\ FireLike(agenda[1].ev, "focusin", steps)
                      /\ triggered = "focus" => Len(steps) = 0
  BY CaptureFacts
<1>3. ASSUME Quiet, NEW s \in stopped, NEW i \in 1 .. Len(steps), agenda'[i].ev = s[1]
      PROVE  FALSE
  <2>1. agenda[1].ev = s[1]
    BY <1>2, <1>3 DEF Leads, FireLike
  <2>2. Held(1)
    BY <1>1, <1>3, <2>1, SilentParts, HeadFacts DEF SilentStep
  <2>3. BeforeEnd(agenda[1], triggered)
    BY <1>1, <1>3, <2>2, EndingParts, HeadFacts DEF Holding
  <2>4. triggered = "focus"
    BY <1>1, <2>3 DEF BeforeEnd
  <2> QED
    BY <1>2, <2>4
<1>4. \A s \in stopped' : s[1] \in 1 .. calls'
  BY <1>1, SilentParts
<1> QED
  BY <1>1, <1>2, <1>3, <1>4, SilentGoes

LEMMA HandleSilent ==
    ASSUME Core, Ending, Silent, Handle, Quiet' => Quiet
    PROVE  Silent'
<1>1. agenda # <<>> /\ agenda[1].do \in {"fire", "deliver"} /\ UNCHANGED <<stopped, calls>>
  BY HandleFacts DEF history
<1>2. PICK steps, e : /\ Goes(Len(steps), 1, e) /\ Leads(steps) /\ QueueLike(agenda[1], steps)
                      /\ triggered = agenda[1].key => Len(steps) = 0
  BY HandleFacts
<1>3. ASSUME Quiet, NEW s \in stopped, NEW i \in 1 .. Len(steps), agenda'[i].ev = s[1]
      PROVE  FALSE
  <2>1. agenda[1].ev = s[1]
    BY <1>2, <1>3 DEF Leads, QueueLike
  <2>2. Held(1)
    BY <1>1, <1>3, <2>1, SilentParts, HeadFacts DEF SilentStep
  <2>3. BeforeEnd(agenda[1], triggered)
    BY <1>1, <1>3, <2>2, EndingParts, HeadFacts DEF Holding
  <2>4. triggered = agenda[1].key
    BY <1>1, <2>3 DEF BeforeEnd
  <2> QED
    BY <1>2, <2>4
<1>4. \A s \in stopped' : s[1] \in 1 .. calls'
  BY <1>1, SilentParts
<1> QED
  BY <1>1, <1>2, <1>3, <1>4, SilentGoes

LEMMA RunSilent ==
    ASSUME Core, Silent, Run, Quiet' => Quiet
    PROVE  Silent'
<1>1. agenda # <<>> /\ agenda[1].do = "run" /\ UNCHANGED <<stopped, calls>>
  BY RunFacts
<1>2. PICK e : Goes(1, 1, e)
  BY RunFacts
<1>3. ASSUME Quiet, NEW s \in stopped, NEW i \in 1 .. 1, agenda'[i].ev = s[1]
      PROVE  SilentStep(agenda'[i], Held(i)', s[2])
  <2>1. i = 1 /\ agenda'[1].do = "page" /\ agenda'[1].ev = agenda[1].ev /\ agenda'[1].at = agenda[1].at
    BY RunFacts
  <2>2. agenda[1].at = s[2]
    BY <1>1, <1>3, <2>1, SilentParts, HeadFacts DEF SilentStep
  <2> QED
    BY <2>1, <2>2 DEF SilentStep
<1>4. \A s \in stopped' : s[1] \in 1 .. calls'
  BY <1>1, SilentParts
<1> QED
  BY <1>1, <1>2, <1>3, <1>4, SilentGoes

LEMMA PageSilent ==
    ASSUME Core, Stacked, Silent, NEW how, PageReturns(how), Quiet' => Quiet
    PROVE  Silent'
<1>1. agenda # <<>> /\ agenda[1].do = "page" /\ UNCHANGED calls
  BY PageFacts
<1>2. PICK e : Goes(0, 1, e)
  BY PageFacts
<1>3. \A s \in stopped : \A i \in 1 .. 0 : FALSE
  OBVIOUS
<1>4. CASE stopped' = stopped
  <2>1. \A s \in stopped' : s[1] \in 1 .. calls'
    BY <1>1, <1>4, SilentParts
  <2> QED
    BY <1>2, <1>3, <1>4, <2>1, SilentGoes
<1>5. CASE /\ agenda[1].key = "handler" /\ stopped' = stopped \cup {<<agenda[1].ev, agenda[1].at>>}
           /\ \A i \in 1 .. Len(agenda') : agenda'[i].ev = agenda[1].ev =>
                agenda'[i].do \notin {"fire", "deliver"} /\ (agenda'[i].do = "run" => agenda'[i].at = agenda[1].at)
  <2>1. Tall(agenda[1]) /\ 1 \in 1 .. Len(agenda)
    BY <1>1, <1>5, HeadFacts DEF Tall
  <2>2. agenda[1].ev \in 1 .. calls
    BY <2>1, AgendaEvs
  <2>3. \A s \in stopped' : s[1] \in 1 .. calls'
    BY <1>1, <1>5, <2>2, SilentParts
  <2>4. ASSUME NEW s \in stopped' \ stopped, NEW i \in 1 .. Len(agenda'), agenda'[i].ev = s[1]
        PROVE  SilentStep(agenda'[i], Held(i)', s[2])
    <3>1. s[1] = agenda[1].ev /\ s[2] = agenda[1].at
      BY <1>5, <2>4
    <3>2. e[i] \in 1 .. Len(agenda) /\ 1 \in 1 .. e[i] - 1 /\ agenda'[i] = agenda[e[i]]
      BY <1>2 DEF Goes
    <3>3. ~Tall(agenda'[i])
      BY <2>4, <3>1, <3>2 DEF Stacked, Tall
    <3> QED
      BY <1>5, <2>4, <3>1, <3>3 DEF SilentStep, Tall
  <2> QED
    BY <1>2, <1>3, <2>3, <2>4, SilentGoes
<1> QED
  BY <1>4, <1>5, PageFacts

LEMMA DefaultSilent ==
    ASSUME Core, Silent, Default, Quiet' => Quiet
    PROVE  Silent'
<1>1. UNCHANGED <<stopped, calls>>
  BY DefaultFacts DEF history
<1>2. PICK s, e : /\ Goes(Len(s) + 1, 1, e) /\ Len(s) \in Nat /\ NativeLike(agenda[1].ev, agenda[1].key, s)
                  /\ Leads(s) /\ Len(s) + 1 \in 1 .. Len(agenda')
                  /\ agenda'[Len(s) + 1].do = "end"
  BY DefaultFacts
<1>3. ASSUME NEW t \in stopped, NEW i \in 1 .. Len(s) + 1
      PROVE  SilentStep(agenda'[i], Held(i)', t[2])
  <2>1. CASE i = Len(s) + 1
    BY <1>2, <2>1 DEF SilentStep
  <2>2. CASE i # Len(s) + 1
    <3>1. i \in 1 .. Len(s) /\ i < Len(s) + 1
      BY <1>2, <2>2
    <3>2. Held(i)'
      BY <1>2, <3>1 DEF Held
    <3>3. agenda'[i].do \in {"page", "deliver", "capture"} /\ (agenda'[i].do = "page" => agenda'[i].key = "plain")
      BY <1>2, <3>1 DEF Leads, NativeLike
    <3> QED
      BY <3>2, <3>3 DEF SilentStep
  <2> QED
    BY <2>1, <2>2
<1>4. \A t \in stopped' : t[1] \in 1 .. calls'
  BY <1>1, SilentParts
<1> QED
  BY <1>1, <1>2, <1>3, <1>4, SilentGoes

LEMMA EndSilent ==
    ASSUME Core, Silent, End, Quiet' => Quiet
    PROVE  Silent'
<1>1. UNCHANGED <<stopped, calls>>
  BY EndFacts DEF history
<1>2. PICK e : Goes(0, 1, e)
  BY EndFacts
<1>3. \A s \in stopped' : s[1] \in 1 .. calls'
  BY <1>1, SilentParts
<1>4. \A s \in stopped : \A i \in 1 .. 0 : FALSE
  OBVIOUS
<1> QED
  BY <1>1, <1>2, <1>3, <1>4, SilentGoes

\* All steps keep it.
LEMMA SilentNext ==
    ASSUME Core, Core', Ending, Stacked, Silent, [Next]_vars
    PROVE  Silent'
<1>1. Quiet' => Quiet
  BY WrongGrows, QuietBefore
<1>2. Binding \/ Manipulating \/ Evaluate \/ UNCHANGED vars => calls' \in Nat /\ calls <= calls'
  <2>1. calls \in Nat
    BY CoreFacts
  <2>2. Binding => calls' = calls + 1
    BY BindingAgenda DEF Calling
  <2>3. Manipulating => calls' = calls + 1
    BY ManipulatingAgenda DEF Calling
  <2>4. Evaluate \/ UNCHANGED vars => calls' = calls
    BY DEF Evaluate, vars
  <2> QED
    BY <2>1, <2>2, <2>3, <2>4
<1> QED
  BY <1>1, <1>2, IdleSilent, BeginSilent, CaptureSilent, HandleSilent, RunSilent, PageSilent, DefaultSilent, EndSilent
  DEF Next, Engine

\* Nobody hears what was stopped: Silent says so before it could happen.
LEMMA StopsNext ==
    ASSUME Core, Silent, StopsForGood, [Next]_vars
    PROVE  StopsForGood'
<1>1. Quiet' => Quiet
  BY WrongGrows, QuietBefore
<1>2. CASE Run
  <2>1. Todo = agenda[1] /\ agenda[1].do = "run" /\ agenda # <<>>
    BY <1>2, RunFacts
  <2>2. wrong' = wrong
           \cup (IF <<Todo.ev, Todo.node, Todo.h, Todo.at>> \in handled THEN {"handled twice"} ELSE {})
           \cup (IF <<Todo.node, Todo.h.id, Todo.at>> \in spent THEN {"one twice"} ELSE {})
           \cup (IF \E s \in stopped : s[1] = Todo.ev /\ s[2] # Todo.at THEN {"heard when stopped"} ELSE {})
    BY <1>2 DEF Run
  <2>3. Quiet => \A s \in stopped : s[1] = Todo.ev => s[2] = Todo.at
    BY <2>1, SilentParts, HeadFacts DEF SilentStep
  <2>4. Quiet => ("heard when stopped" \in wrong' => "heard when stopped" \in wrong)
    BY <2>2, <2>3
  <2> QED
    BY <1>1, <2>4 DEF StopsForGood, Quiet
<1>3. CASE ~Run
  <2>1. "heard when stopped" \in wrong' => "heard when stopped" \in wrong
    BY <1>3, WrongWhat DEF Next, vars, history
  <2> QED
    BY <1>1, <2>1 DEF StopsForGood, Quiet
<1> QED
  BY <1>2, <1>3

\* In the beginning there is nothing on the agenda.
LEMMA InitEnding ==
    ASSUME Init
    PROVE  Ending /\ Stacked /\ Silent /\ StopsForGood
<1>1. agenda = <<>> /\ triggered = None /\ stopped = {} /\ wrong = {} /\ Len(agenda) = 0 /\ \A k \in 1 .. 0 : FALSE
  BY DEF Init
<1> QED
  BY <1>1 DEF Ending, Stacked, Silent, StopsForGood, Quiet, Calm

\* While the page triggers nothing inside a native event of trigger(): that event and its
\* steps are under way exactly while triggered is set, what a handler begins is over
\* before the next step of its event, and of a stopped event only the element that
\* stopped it hears more.
THEOREM EndingHolds == Spec => [](Ending /\ Stacked /\ Silent /\ StopsForGood)
<1>1. Core /\ Core' /\ Ending /\ Stacked /\ Silent /\ StopsForGood /\ [Next]_vars => (Ending /\ Stacked /\ Silent /\ StopsForGood)'
  BY EndingNext, StackedNext, SilentNext, StopsNext
<1>2. Core /\ [Next]_vars => Core'
  BY CoreNext
<1> QED
  BY <1>1, <1>2, InitCore, InitEnding, PTL DEF Spec

\* A handler that stops an event silences all that would have heard it elsewhere, unless a
\* listener triggers another event inside the native one.
THEOREM StopsForGoodHolds == Spec => []StopsForGood
  BY EndingHolds, PTL

(***************************************************************************)
(* Single: a list is gone through once for an event, a handler in it once. *)
(***************************************************************************)

\* a step that will reach handlers
LiveStep(s, held) == Heard(s) /\ ~held

\* what Single says of two steps, and of a step and a handler that has run
Apart(s, hs, t, ht) ==
    /\ LiveStep(s, hs) /\ (LiveStep(t, ht) \/ t.do = "run") => Slot(s) # Slot(t)
    /\ s.do = "run" => s # t
    /\ s.do = "capture" /\ ~hs /\ t.ev = s.ev => t.do = "deliver" /\ t.key = "focus"

Past(s, held, t) ==
    /\ LiveStep(s, held) => <<t[1], t[2], Key(t[3].type, t[3].sel)>> # Slot(s)
    /\ s.do = "run" => <<s.ev, s.node, s.h, s.at>> # t
    /\ s.do = "capture" /\ ~held => t[1] # s.ev

\* Single, step by step.
LEMMA SingleParts ==
    Single <=> /\ \A t \in handled : t[1] \in 1 .. calls
               /\ Quiet => \A i \in 1 .. Len(agenda) :
                     /\ \A t \in handled : Past(agenda[i], Held(i), t)
                     /\ \A j \in 1 .. Len(agenda) : i # j => Apart(agenda[i], Held(i), agenda[j], Held(j))
<1>1. ASSUME NEW i \in 1 .. Len(agenda)
      PROVE  /\ Live(i) =>
                  /\ \A t \in handled : <<t[1], t[2], Key(t[3].type, t[3].sel)>> # Slot(agenda[i])
                  /\ \A j \in 1 .. Len(agenda) : i # j /\ (Live(j) \/ agenda[j].do = "run") =>
                       Slot(agenda[i]) # Slot(agenda[j])
             /\ agenda[i].do = "run" =>
                  /\ <<agenda[i].ev, agenda[i].node, agenda[i].h, agenda[i].at>> \notin handled
                  /\ \A j \in 1 .. Len(agenda) : i # j => agenda[i] # agenda[j]
             /\ agenda[i].do = "capture" /\ ~Held(i) =>
                  /\ \A t \in handled : t[1] # agenda[i].ev
                  /\ \A j \in 1 .. Len(agenda) : i # j /\ agenda[j].ev = agenda[i].ev =>
                       agenda[j].do = "deliver" /\ agenda[j].key = "focus"
             <=>
             /\ \A t \in handled : Past(agenda[i], Held(i), t)
             /\ \A j \in 1 .. Len(agenda) : i # j => Apart(agenda[i], Held(i), agenda[j], Held(j))
  BY DEF Past, Apart, LiveStep, Live, Heard
<1> QED
  BY <1>1 DEF Single

\* Single is kept when the new steps are apart from each other and from the old ones.
LEMMA SingleGoes ==
    ASSUME Single, Quiet' => Quiet, \A t \in handled' : t[1] \in 1 .. calls', NEW n, NEW m, NEW e, Goes(n, m, e),
           Quiet' => \A t \in handled' \ handled : \A k \in 1 .. Len(agenda) : k > m => Past(agenda[k], Held(k), t),
           Quiet' => \A i \in 1 .. n : \A t \in handled' : Past(agenda'[i], Held(i)', t),
           Quiet' => \A i, j \in 1 .. n : i # j => Apart(agenda'[i], Held(i)', agenda'[j], Held(j)'),
           Quiet' => \A i \in 1 .. n : \A k \in 1 .. Len(agenda) : k > m =>
                        /\ Apart(agenda'[i], Held(i)', agenda[k], Held(k))
                        /\ Apart(agenda[k], Held(k), agenda'[i], Held(i)')
    PROVE  Single'
<1>1. /\ n \in Nat /\ Len(agenda') \in Nat /\ Len(agenda) \in Nat
      /\ \A k \in 1 .. Len(agenda') : k > n => e[k] \in 1 .. Len(agenda) /\ e[k] > m /\ agenda'[k] = agenda[e[k]]
      /\ \A k, l \in 1 .. Len(agenda') : n < k /\ k < l => e[k] < e[l]
  BY DEF Goes
<1>2. \A i \in 1 .. Len(agenda') : i > n \/ i \in 1 .. n
  BY <1>1
<1>3. \A i \in 1 .. Len(agenda') : i > n => (Held(i)' <=> Held(e[i]))
  BY HeldGoes
<1>4. ASSUME Quiet', NEW i \in 1 .. Len(agenda'), NEW t \in handled'
      PROVE  Past(agenda'[i], Held(i)', t)
  <2>1. CASE i \in 1 .. n
    BY <1>4, <2>1
  <2>2. CASE i > n
    <3>1. Past(agenda[e[i]], Held(e[i]), t)
      BY <1>1, <1>4, <2>2, SingleParts
    <3> QED
      BY <1>1, <1>3, <2>2, <3>1 DEF Past, LiveStep
  <2> QED
    BY <1>2, <2>1, <2>2
<1>5. ASSUME Quiet', NEW i \in 1 .. Len(agenda'), NEW j \in 1 .. Len(agenda'), i # j
      PROVE  Apart(agenda'[i], Held(i)', agenda'[j], Held(j)')
  <2>1. CASE i \in 1 .. n /\ j \in 1 .. n
    BY <1>5, <2>1
  <2>2. CASE i \in 1 .. n /\ j > n
    <3>1. Apart(agenda'[i], Held(i)', agenda[e[j]], Held(e[j]))
      BY <1>1, <1>5, <2>2
    <3> QED
      BY <1>1, <1>3, <2>2, <3>1 DEF Apart, LiveStep
  <2>3. CASE i > n /\ j \in 1 .. n
    <3>1. Apart(agenda[e[i]], Held(e[i]), agenda'[j], Held(j)')
      BY <1>1, <1>5, <2>3
    <3> QED
      BY <1>1, <1>3, <2>3, <3>1 DEF Apart, LiveStep
  <2>4. CASE i > n /\ j > n
    <3>1. i < j \/ j < i
      BY <1>1, <1>5
    <3>2. e[i] \in 1 .. Len(agenda) /\ e[j] \in 1 .. Len(agenda) /\ (e[i] < e[j] \/ e[j] < e[i])
      BY <1>1, <2>4, <3>1
    <3>3. e[i] # e[j]
      BY <3>2
    <3>4. Apart(agenda[e[i]], Held(e[i]), agenda[e[j]], Held(e[j]))
      BY <1>5, <3>2, <3>3, SingleParts
    <3> QED
      BY <1>1, <1>3, <2>4, <3>4 DEF Apart, LiveStep
  <2> QED
    BY <1>2, <2>1, <2>2, <2>3, <2>4
<1>6. Single' <=>
         /\ \A t \in handled' : t[1] \in 1 .. calls'
         /\ Quiet' => \A i \in 1 .. Len(agenda') :
               /\ \A t \in handled' : Past(agenda'[i], Held(i)', t)
               /\ \A j \in 1 .. Len(agenda') : i # j => Apart(agenda'[i], Held(i)', agenda'[j], Held(j)')
  <2>1. ASSUME NEW i \in 1 .. Len(agenda')
        PROVE  /\ Live(i)' =>
                    /\ \A t \in handled' : <<t[1], t[2], Key(t[3].type, t[3].sel)>> # Slot(agenda'[i])
                    /\ \A j \in 1 .. Len(agenda') : i # j /\ (Live(j)' \/ agenda'[j].do = "run") =>
                         Slot(agenda'[i]) # Slot(agenda'[j])
               /\ agenda'[i].do = "run" =>
                    /\ <<agenda'[i].ev, agenda'[i].node, agenda'[i].h, agenda'[i].at>> \notin handled'
                    /\ \A j \in 1 .. Len(agenda') : i # j => agenda'[i] # agenda'[j]
               /\ agenda'[i].do = "capture" /\ ~Held(i)' =>
                    /\ \A t \in handled' : t[1] # agenda'[i].ev
                    /\ \A j \in 1 .. Len(agenda') : i # j /\ agenda'[j].ev = agenda'[i].ev =>
                         agenda'[j].do = "deliver" /\ agenda'[j].key = "focus"
               <=>
               /\ \A t \in handled' : Past(agenda'[i], Held(i)', t)
               /\ \A j \in 1 .. Len(agenda') : i # j => Apart(agenda'[i], Held(i)', agenda'[j], Held(j)')
    BY DEF Past, Apart, LiveStep, Live, Heard
  <2> QED
    BY <2>1 DEF Single
<1> QED
  BY <1>4, <1>5, <1>6

\* A step that reaches no handler, and belongs to no event still to be captured, is
\* apart from all others.
LEMMA IdleApart ==
    ASSUME NEW s, NEW hs, NEW t, NEW ht, ~LiveStep(s, hs), s.do # "run", s.do = "capture" => hs,
           t.do = "capture" => t.ev # s.ev
    PROVE  Apart(s, hs, t, ht) /\ Apart(t, ht, s, hs)
  BY DEF Apart

\* And nothing it is about has run.
LEMMA IdlePast ==
    ASSUME NEW s, NEW hs, NEW t, ~LiveStep(s, hs), s.do # "run", s.do = "capture" => hs
    PROVE  Past(s, hs, t)
  BY DEF Past

\* the new steps belong to one event, and none of the old ones captures it
Belong(n, v) == \A i \in 1 .. n : agenda'[i].ev = v
Clear(m, v) == \A k \in 1 .. Len(agenda) : k > m /\ Tall(agenda[k]) => agenda[k].ev # v

\* When the new steps reach no handler themselves.
LEMMA SingleIdle ==
    ASSUME Single, Quiet' => Quiet, \A t \in handled' : t[1] \in 1 .. calls', NEW n, NEW m, NEW e, Goes(n, m, e),
           Quiet' => \A t \in handled' \ handled : \A k \in 1 .. Len(agenda) : k > m => Past(agenda[k], Held(k), t),
           NEW v, Belong(n, v), Clear(m, v),
           \A i \in 1 .. n : /\ ~LiveStep(agenda'[i], Held(i)') /\ agenda'[i].do # "run"
                             /\ agenda'[i].do = "capture" => Held(i)',
           \A i, j \in 1 .. n : agenda'[j].do = "capture" => Held(j)'
    PROVE  Single'
<1>1. \A i \in 1 .. n : \A t \in handled' : Past(agenda'[i], Held(i)', t)
  BY IdlePast
<1>2. \A i, j \in 1 .. n : i # j => Apart(agenda'[i], Held(i)', agenda'[j], Held(j)')
  BY DEF Apart
<1>3. ASSUME NEW i \in 1 .. n, NEW k \in 1 .. Len(agenda), k > m
      PROVE  /\ Apart(agenda'[i], Held(i)', agenda[k], Held(k))
             /\ Apart(agenda[k], Held(k), agenda'[i], Held(i)')
  <2>1. agenda[k].do = "capture" => agenda[k].ev # agenda'[i].ev
    BY <1>3 DEF Tall, Belong, Clear
  <2> QED
    BY <2>1, IdleApart
<1> QED
  BY <1>1, <1>2, <1>3, SingleGoes

\* Each kind of step keeps Single.
LEMMA IdleSingle ==
    ASSUME Core, Single, calls' \in Nat, calls <= calls', Quiet' => Quiet, Binding \/ Manipulating \/ Evaluate \/ UNCHANGED vars
    PROVE  Single'
<1>1. PICK n, m, e :
          /\ Goes(n, m, e)
          /\ m = 1 => agenda[1].do = "evaluate"
          /\ \A i \in 1 .. n : /\ agenda'[i].ev = 0 /\ agenda'[i].do \in {"evaluate", "page"}
                               /\ agenda'[i].do = "page" => agenda'[i].key = "script"
  BY IdleFacts
<1>2. handled' = handled /\ calls \in Nat
  BY IdleFacts, CoreFacts
<1>3. \A t \in handled' : t[1] \in 1 .. calls'
  BY <1>2, SingleParts
<1>4. \A i \in 1 .. n : /\ ~LiveStep(agenda'[i], Held(i)') /\ agenda'[i].do # "run"
                        /\ agenda'[i].do # "capture"
  BY <1>1 DEF LiveStep, Heard
<1>5. Clear(m, 0)
  BY AgendaEvs DEF Clear
<1>6. Belong(n, 0)
  BY <1>1 DEF Belong
<1>7. /\ \A i \in 1 .. n : /\ ~LiveStep(agenda'[i], Held(i)') /\ agenda'[i].do # "run"
                           /\ agenda'[i].do = "capture" => Held(i)'
      /\ \A i, j \in 1 .. n : agenda'[j].do = "capture" => Held(j)'
  BY <1>4
<1>8. Quiet' => \A t \in handled' \ handled : \A k \in 1 .. Len(agenda) : k > m => Past(agenda[k], Held(k), t)
  BY <1>2
<1>9. Goes(n, m, e)
  BY <1>1
<1> QED
  BY <1>3, <1>5, <1>6, <1>7, <1>8, <1>9, SingleIdle

LEMMA BeginSingle ==
    ASSUME Core, Single, Triggering, Quiet' => Quiet
    PROVE  Single'
<1>1. PICK steps, e : /\ Calling /\ Begin(calls', steps) /\ BeginLike(calls', steps)
                      /\ Goes(Len(steps), 0, e) /\ Leads(steps)
  BY BeginFacts
<1> DEFINE n == Len(steps)
<1>2. handled' \subseteq handled /\ calls \in Nat /\ calls' = calls + 1
  BY <1>1, CoreFacts DEF Begin, Calling
<1>3. \A t \in handled' : t[1] \in 1 .. calls' /\ t[1] # calls'
  BY <1>2, SingleParts
<1>4. \A k \in 1 .. Len(agenda) : agenda[k].ev # calls'
  BY <1>2, AgendaEvs
<1>5. /\ \A i \in 1 .. n :
           /\ agenda'[i].ev = calls' /\ agenda'[i].do \in {"fire", "page", "deliver", "capture", "default"}
           /\ agenda'[i].do = "capture" => i = 1 /\ \A j \in 1 .. n : j # 1 => agenda'[j].do = "deliver" /\ agenda'[j].key = "focus"
      /\ \A i, j \in 1 .. n : Heard(agenda'[i]) /\ Heard(agenda'[j]) /\ agenda'[i].at = agenda'[j].at
                              /\ agenda'[i].key = agenda'[j].key => i = j
  BY <1>1 DEF Leads, BeginLike
<1>6. \A i \in 1 .. n : \A t \in handled' : Past(agenda'[i], Held(i)', t)
  BY <1>3, <1>5 DEF Past, Slot
<1>7. ASSUME NEW i \in 1 .. n, NEW j \in 1 .. n, i # j
      PROVE  Apart(agenda'[i], Held(i)', agenda'[j], Held(j)')
  <2>1. Heard(agenda'[i]) /\ Heard(agenda'[j]) => Slot(agenda'[i]) # Slot(agenda'[j])
    BY <1>5, <1>7 DEF Slot, Heard
  <2>2. agenda'[i].do # "run" /\ agenda'[j].do # "run"
    BY <1>5
  <2>3. agenda'[i].do = "capture" => agenda'[j].do = "deliver" /\ agenda'[j].key = "focus"
    BY <1>5, <1>7
  <2> QED
    BY <2>1, <2>2, <2>3 DEF Apart, LiveStep
<1>8. ASSUME NEW i \in 1 .. n, NEW k \in 1 .. Len(agenda)
      PROVE  /\ Apart(agenda'[i], Held(i)', agenda[k], Held(k))
             /\ Apart(agenda[k], Held(k), agenda'[i], Held(i)')
  <2>1. agenda'[i].ev # agenda[k].ev
    BY <1>4, <1>5
  <2> QED
    BY <2>1 DEF Apart, Slot
<1>9. \A t \in handled' \ handled : FALSE
  BY <1>2
<1>10. \A t \in handled' : t[1] \in 1 .. calls'
  BY <1>3
<1> QED
  BY <1>1, <1>6, <1>7, <1>8, <1>9, <1>10, SingleGoes

\* A focus is captured before anything else is done about it.
LEMMA CaptureSingle ==
    ASSUME Core, Ending, Stacked, Single, Capture, Quiet' => Quiet
    PROVE  Single'
<1>1. agenda # <<>> /\ agenda[1].do = "capture" /\ UNCHANGED <<handled, calls>> /\ 1 \in 1 .. Len(agenda)
  BY CaptureFacts, HeadFacts DEF history
<1>2. PICK steps, e : /\ Goes(Len(steps), 1, e) /\ Leads(steps) /\ FireLike(agenda[1].ev, "focusin", steps)
                      /\ triggered = "focus" => Len(steps) = 0
  BY CaptureFacts
<1> DEFINE n == Len(steps)
<1>3. /\ \A i \in 1 .. n : agenda'[i].ev = agenda[1].ev /\ agenda'[i].do = "fire" /\ agenda'[i].key = "focusin"
      /\ \A i, j \in 1 .. n : agenda'[i].at = agenda'[j].at => i = j
  BY <1>2 DEF Leads, FireLike
<1>4. ASSUME Quiet, n # 0
      PROVE  /\ \A t \in handled : t[1] # agenda[1].ev
             /\ \A k \in 1 .. Len(agenda) : k > 1 /\ agenda[k].ev = agenda[1].ev =>
                   agenda[k].do = "deliver" /\ agenda[k].key = "focus"
  <2>1. ~Held(1)
    <3> SUFFICES ASSUME Held(1)
                 PROVE  FALSE
      OBVIOUS
    <3>1. BeforeEnd(agenda[1], triggered)
      BY <1>1, <1>4, EndingParts DEF Holding
    <3> QED
      BY <1>1, <1>2, <1>4, <3>1 DEF BeforeEnd
  <2>2. \A t \in handled : t[1] # agenda[1].ev
    BY <1>1, <1>4, <2>1, SingleParts DEF Past
  <2>3. ASSUME NEW k \in 1 .. Len(agenda), k > 1, agenda[k].ev = agenda[1].ev
        PROVE  agenda[k].do = "deliver" /\ agenda[k].key = "focus"
    BY <1>1, <1>4, <2>1, <2>3, SingleParts DEF Apart
  <2> QED
    BY <2>2, <2>3
<1>5. n \in Nat /\ \A i \in 1 .. n : n # 0
  BY <1>2 DEF Goes
<1>6. ASSUME Quiet, NEW i \in 1 .. n, NEW t \in handled'
      PROVE  Past(agenda'[i], Held(i)', t)
  BY <1>1, <1>3, <1>4, <1>5, <1>6 DEF Past, Slot
<1>7. ASSUME NEW i \in 1 .. n, NEW j \in 1 .. n, i # j
      PROVE  Apart(agenda'[i], Held(i)', agenda'[j], Held(j)')
  <2>1. Slot(agenda'[i]) # Slot(agenda'[j])
    BY <1>3, <1>7 DEF Slot
  <2> QED
    BY <1>3, <2>1 DEF Apart
<1>8. ASSUME Quiet, NEW i \in 1 .. n, NEW k \in 1 .. Len(agenda), k > 1
      PROVE  /\ Apart(agenda'[i], Held(i)', agenda[k], Held(k))
             /\ Apart(agenda[k], Held(k), agenda'[i], Held(i)')
  <2>1. agenda[k].ev = agenda[1].ev => agenda[k].do = "deliver" /\ agenda[k].key = "focus"
    BY <1>4, <1>5, <1>8
  <2>2. Slot(agenda'[i]) # Slot(agenda[k])
    BY <1>3, <2>1 DEF Slot
  <2>3. agenda[k].do = "capture" => agenda[k].ev # agenda[1].ev
    BY <2>1
  <2> QED
    BY <1>3, <2>2, <2>3 DEF Apart
<1>9. \A t \in handled' : t[1] \in 1 .. calls'
  BY <1>1, SingleParts
<1>10. \A t \in handled' \ handled : FALSE
  BY <1>1
<1> QED
  BY <1>2, <1>6, <1>7, <1>8, <1>9, <1>10, SingleGoes

\* The list of a node is gone through: what stood for the list stands for its handlers.
LEMMA HandleSingle ==
    ASSUME Core, Ending, Stacked, Single, Handle, Quiet' => Quiet
    PROVE  Single'
<1>1. agenda # <<>> /\ agenda[1].do \in {"fire", "deliver"} /\ agenda[1].at \in Nodes /\ agenda[1].key \in Keys
      /\ UNCHANGED <<handled, calls>> /\ 1 \in 1 .. Len(agenda)
  BY HandleFacts, HeadFacts DEF history
<1>2. PICK steps, e : /\ Goes(Len(steps), 1, e) /\ Leads(steps) /\ QueueLike(agenda[1], steps)
                      /\ triggered = agenda[1].key => Len(steps) = 0
  BY HandleFacts
<1> DEFINE n == Len(steps)
<1>3. ASSUME NEW i \in 1 .. n
      PROVE  /\ agenda'[i].do = "run" /\ agenda'[i].ev = agenda[1].ev /\ agenda'[i].node = agenda[1].at /\ agenda'[i].key = agenda[1].key
             /\ Key(agenda'[i].h.type, agenda'[i].h.sel) = agenda[1].key
             /\ Slot(agenda'[i]) = Slot(agenda[1])
  <2>1. /\ agenda'[i].do = "run" /\ agenda'[i].ev = agenda[1].ev /\ agenda'[i].node = agenda[1].at /\ agenda'[i].key = agenda[1].key
        /\ \E k \in 1 .. Len(handlers[agenda[1].at][agenda[1].key]) : agenda'[i].h = handlers[agenda[1].at][agenda[1].key][k]
    BY <1>2 DEF Leads, QueueLike
  <2>2. Key(agenda'[i].h.type, agenda'[i].h.sel) = agenda[1].key
    BY <1>1, <2>1 DEF Core, Data, Filed
  <2> QED
    BY <1>1, <2>1, <2>2 DEF Slot
<1>4. \A i, j \in 1 .. n : i # j => agenda'[i] # agenda'[j]
  BY <1>2 DEF Leads, QueueLike, Distinct
<1>5. n \in Nat /\ \A i \in 1 .. n : n # 0
  BY <1>2 DEF Goes
<1>6. ASSUME Quiet, n # 0
      PROVE  /\ \A t \in handled : <<t[1], t[2], Key(t[3].type, t[3].sel)>> # Slot(agenda[1])
             /\ \A k \in 1 .. Len(agenda) : k > 1 => Apart(agenda[1], FALSE, agenda[k], Held(k)) /\ Apart(agenda[k], Held(k), agenda[1], FALSE)
  <2>1. ~Held(1)
    <3> SUFFICES ASSUME Held(1)
                 PROVE  FALSE
      OBVIOUS
    <3>1. BeforeEnd(agenda[1], triggered)
      BY <1>1, <1>6, EndingParts DEF Holding
    <3> QED
      BY <1>1, <1>2, <1>6, <3>1 DEF BeforeEnd
  <2>2. LiveStep(agenda[1], Held(1))
    BY <1>1, <2>1 DEF LiveStep, Heard
  <2>3. ASSUME NEW t \in handled
        PROVE  <<t[1], t[2], Key(t[3].type, t[3].sel)>> # Slot(agenda[1])
    BY <1>1, <1>6, <2>2, <2>3, SingleParts DEF Past
  <2>4. ASSUME NEW k \in 1 .. Len(agenda), k > 1
        PROVE  Apart(agenda[1], FALSE, agenda[k], Held(k)) /\ Apart(agenda[k], Held(k), agenda[1], FALSE)
    BY <1>1, <1>6, <2>1, <2>4, SingleParts DEF Apart, LiveStep
  <2> QED
    BY <2>3, <2>4
<1>7. ASSUME Quiet, NEW i \in 1 .. n, NEW t \in handled'
      PROVE  Past(agenda'[i], Held(i)', t)
  <2>1. t \in handled /\ <<t[1], t[2], Key(t[3].type, t[3].sel)>> # Slot(agenda[1])
    BY <1>1, <1>5, <1>6, <1>7
  <2>2. <<agenda'[i].ev, agenda'[i].node, agenda'[i].h, agenda'[i].at>> # t
    BY <1>1, <1>3, <2>1 DEF Slot
  <2> QED
    BY <1>3, <2>2 DEF Past, LiveStep, Heard
<1>8. ASSUME NEW i \in 1 .. n, NEW j \in 1 .. n, i # j
      PROVE  Apart(agenda'[i], Held(i)', agenda'[j], Held(j)')
  BY <1>3, <1>4, <1>8 DEF Apart, LiveStep, Heard
<1>9. ASSUME Quiet, NEW i \in 1 .. n, NEW k \in 1 .. Len(agenda), k > 1
      PROVE  /\ Apart(agenda'[i], Held(i)', agenda[k], Held(k))
             /\ Apart(agenda[k], Held(k), agenda'[i], Held(i)')
  <2>1. Apart(agenda[1], FALSE, agenda[k], Held(k)) /\ Apart(agenda[k], Held(k), agenda[1], FALSE)
    BY <1>5, <1>6, <1>9
  <2>2. LiveStep(agenda[1], FALSE)
    BY <1>1 DEF LiveStep, Heard
  <2>3. agenda[k].do = "run" => agenda'[i] # agenda[k]
    BY <1>3, <2>1, <2>2 DEF Apart
  <2>4. LiveStep(agenda[k], Held(k)) => Slot(agenda[k]) # Slot(agenda'[i])
    BY <1>3, <2>1, <2>2 DEF Apart
  <2>5. agenda[k].do = "capture" => agenda[k].ev # agenda'[i].ev
    BY <1>3, <1>9 DEF Stacked
  <2> QED
    BY <1>3, <2>3, <2>4, <2>5 DEF Apart, LiveStep, Heard
<1>10. \A t \in handled' : t[1] \in 1 .. calls'
  BY <1>1, SingleParts
<1>11. \A t \in handled' \ handled : FALSE
  BY <1>1
<1> QED
  BY <1>2, <1>7, <1>8, <1>9, <1>10, <1>11, SingleGoes

\* A run is known by its event, element, handler and place: the key is the handler's.
LEMMA SameRun ==
    ASSUME Core, NEW i \in 1 .. Len(agenda), NEW j \in 1 .. Len(agenda), agenda[i].do = "run", agenda[j].do = "run",
           agenda[i].ev = agenda[j].ev, agenda[i].node = agenda[j].node, agenda[i].h = agenda[j].h, agenda[i].at = agenda[j].at
    PROVE  agenda[i] = agenda[j]
<1>1. agenda[i] \in Fits(calls, copyOf) /\ agenda[j] \in Fits(calls, copyOf)
  BY DEF Core, AgendaOK
<1>2. agenda[i] \in Steps /\ agenda[j] \in Steps /\ agenda[i].key = agenda[j].key
  BY <1>1 DEF Fits
<1> QED
  BY <1>2 DEF Steps

\* A handler has run: no other step is about the same one.
LEMMA RunSingle ==
    ASSUME Core, Stacked, Single, Run, Quiet' => Quiet
    PROVE  Single'
<1>1. agenda # <<>> /\ agenda[1].do = "run" /\ agenda[1].ev \in 1 .. calls /\ UNCHANGED calls /\ 1 \in 1 .. Len(agenda)
      /\ agenda[1].key = Key(agenda[1].h.type, agenda[1].h.sel) /\ Todo = agenda[1]
  BY RunFacts, HeadFacts
<1>2. agenda'[1].do = "page" /\ agenda'[1].ev = agenda[1].ev
  BY RunFacts
<1>3. PICK e : Goes(1, 1, e)
  BY RunFacts
<1> DEFINE r == <<agenda[1].ev, agenda[1].node, agenda[1].h, agenda[1].at>>
<1>4. handled' = handled \cup {r}
  BY <1>1 DEF Run
<1>5. \A t \in handled' : t[1] \in 1 .. calls'
  BY <1>1, <1>4, SingleParts
<1>6. ASSUME Quiet, NEW k \in 1 .. Len(agenda), k > 1
      PROVE  Past(agenda[k], Held(k), r)
  <2>1. Apart(agenda[k], Held(k), agenda[1], Held(1))
    BY <1>1, <1>6, SingleParts
  <2>2. LiveStep(agenda[k], Held(k)) => <<r[1], r[2], Key(r[3].type, r[3].sel)>> # Slot(agenda[k])
    BY <1>1, <2>1 DEF Apart, Slot
  <2>3. agenda[k].do = "run" => <<agenda[k].ev, agenda[k].node, agenda[k].h, agenda[k].at>> # r
    BY <1>1, <2>1, SameRun DEF Apart
  <2>4. agenda[k].do = "capture" => r[1] # agenda[k].ev
    BY <1>1, <1>6 DEF Stacked
  <2> QED
    BY <2>2, <2>3, <2>4 DEF Past
<1>7. Quiet' => \A t \in handled' \ handled : \A k \in 1 .. Len(agenda) : k > 1 => Past(agenda[k], Held(k), t)
  BY <1>4, <1>6
<1>8. \A i \in 1 .. 1 : i = 1
  OBVIOUS
<1>9. /\ \A i \in 1 .. 1 : /\ ~LiveStep(agenda'[i], Held(i)') /\ agenda'[i].do # "run"
                           /\ agenda'[i].do = "capture" => Held(i)'
      /\ \A i, j \in 1 .. 1 : agenda'[j].do = "capture" => Held(j)'
  BY <1>2, <1>8 DEF LiveStep, Heard
<1>10. Clear(1, agenda[1].ev)
  BY DEF Stacked, Tall, Clear
<1>11. Belong(1, agenda[1].ev)
  BY <1>2, <1>8 DEF Belong
<1> HIDE DEF r
<1> QED
  BY <1>3, <1>5, <1>7, <1>9, <1>10, <1>11, SingleIdle

\* Steps are taken away, and nothing comes.
LEMMA LessSingle ==
    ASSUME Single, Quiet' => Quiet, UNCHANGED <<handled, calls>>, NEW e, Goes(0, 1, e)
    PROVE  Single'
<1>1. \A t \in handled' : t[1] \in 1 .. calls'
  BY SingleParts
<1>2. \A i \in 1 .. 0 : FALSE
  OBVIOUS
<1>3. \A t \in handled' \ handled : FALSE
  OBVIOUS
<1> QED
  BY <1>1, <1>2, <1>3, SingleGoes

LEMMA PageSingle ==
    ASSUME Core, Single, NEW how, PageReturns(how), Quiet' => Quiet
    PROVE  Single'
<1>1. UNCHANGED <<handled, calls>> /\ \E e : Goes(0, 1, e)
  BY PageFacts
<1> QED
  BY <1>1, LessSingle

LEMMA EndSingle ==
    ASSUME Core, Single, End, Quiet' => Quiet
    PROVE  Single'
<1>1. UNCHANGED <<handled, calls>> /\ \E e : Goes(0, 1, e)
  BY EndFacts DEF history
<1> QED
  BY <1>1, LessSingle

LEMMA DefaultSingle ==
    ASSUME Core, Stacked, Single, Default, Quiet' => Quiet
    PROVE  Single'
<1>1. UNCHANGED <<handled, calls>>
  BY DefaultFacts DEF history
<1>2. PICK s, e : /\ Goes(Len(s) + 1, 1, e) /\ Len(s) \in Nat /\ NativeLike(agenda[1].ev, agenda[1].key, s)
                  /\ Leads(s) /\ Len(s) + 1 \in 1 .. Len(agenda')
                  /\ agenda'[Len(s) + 1].do = "end" /\ agenda'[Len(s) + 1].ev = agenda[1].ev
  BY DefaultFacts
<1> DEFINE n == Len(s) + 1
<1>3. ASSUME NEW i \in 1 .. n
      PROVE  /\ agenda'[i].ev = agenda[1].ev /\ ~LiveStep(agenda'[i], Held(i)') /\ agenda'[i].do # "run"
             /\ agenda'[i].do = "capture" => Held(i)'
  <2>1. CASE i = Len(s) + 1
    BY <1>2, <2>1 DEF LiveStep, Heard
  <2>2. CASE i # Len(s) + 1
    <3>1. i \in 1 .. Len(s) /\ i < Len(s) + 1
      BY <1>2, <2>2
    <3>2. Held(i)'
      BY <1>2, <3>1 DEF Held
    <3>3. agenda'[i].do \in {"page", "deliver", "capture"} /\ agenda'[i].ev = agenda[1].ev
      BY <1>2, <3>1 DEF Leads, NativeLike
    <3> QED
      BY <3>2, <3>3 DEF LiveStep
  <2> QED
    BY <2>1, <2>2
<1>4. \A t \in handled' : t[1] \in 1 .. calls'
  BY <1>1, SingleParts
<1>5. Quiet' => \A t \in handled' \ handled : \A k \in 1 .. Len(agenda) : k > 1 => Past(agenda[k], Held(k), t)
  BY <1>1
<1>6. Clear(1, agenda[1].ev)
  BY DEF Stacked, Tall, Clear
<1>7. Goes(n, 1, e)
  BY <1>2
<1>8. Belong(n, agenda[1].ev)
  BY <1>3 DEF Belong
<1>9. \A i \in 1 .. n : /\ ~LiveStep(agenda'[i], Held(i)') /\ agenda'[i].do # "run"
                        /\ agenda'[i].do = "capture" => Held(i)'
  BY <1>3
<1>10. \A i, j \in 1 .. n : agenda'[j].do = "capture" => Held(j)'
  BY <1>3
<1> HIDE DEF n
<1> QED
  BY <1>4, <1>5, <1>6, <1>7, <1>8, <1>9, <1>10, SingleIdle

\* All steps keep Single.
LEMMA SingleNext ==
    ASSUME Core, Core', Ending, Stacked, Single, [Next]_vars
    PROVE  Single'
<1>1. Quiet' => Quiet
  BY WrongGrows, QuietBefore
<1>2. Binding \/ Manipulating \/ Evaluate \/ UNCHANGED vars => calls' \in Nat /\ calls <= calls'
  <2>1. calls \in Nat
    BY CoreFacts
  <2>2. Binding => calls' = calls + 1
    BY BindingAgenda DEF Calling
  <2>3. Manipulating => calls' = calls + 1
    BY ManipulatingAgenda DEF Calling
  <2>4. Evaluate \/ UNCHANGED vars => calls' = calls
    BY DEF Evaluate, vars
  <2> QED
    BY <2>1, <2>2, <2>3, <2>4
<1> QED
  BY <1>1, <1>2, IdleSingle, BeginSingle, CaptureSingle, HandleSingle, RunSingle, PageSingle, DefaultSingle, EndSingle
  DEF Next, Engine

\* no handler is run twice on an element for one event
HandledTwice == Quiet => "handled twice" \notin wrong

\* Single says so before it could happen.
LEMMA HandledTwiceNext ==
    ASSUME Core, Single, HandledTwice, [Next]_vars
    PROVE  HandledTwice'
<1>1. Quiet' => Quiet
  BY WrongGrows, QuietBefore
<1>2. CASE Run
  <2>1. Todo = agenda[1] /\ agenda[1].do = "run" /\ agenda # <<>>
    BY <1>2, RunFacts
  <2>2. wrong' = wrong
           \cup (IF <<Todo.ev, Todo.node, Todo.h, Todo.at>> \in handled THEN {"handled twice"} ELSE {})
           \cup (IF <<Todo.node, Todo.h.id, Todo.at>> \in spent THEN {"one twice"} ELSE {})
           \cup (IF \E s \in stopped : s[1] = Todo.ev /\ s[2] # Todo.at THEN {"heard when stopped"} ELSE {})
    BY <1>2 DEF Run
  <2>3. Quiet => <<Todo.ev, Todo.node, Todo.h, Todo.at>> \notin handled
    BY <2>1, SingleParts, HeadFacts DEF Past
  <2>4. Quiet => ("handled twice" \in wrong' => "handled twice" \in wrong)
    BY <2>2, <2>3
  <2> QED
    BY <1>1, <2>4 DEF HandledTwice
<1>3. CASE ~Run
  <2>1. "handled twice" \in wrong' => "handled twice" \in wrong
    BY <1>3, WrongWhat DEF Next, vars, history
  <2> QED
    BY <1>1, <2>1 DEF HandledTwice
<1> QED
  BY <1>2, <1>3

(***************************************************************************)
(* Spent: a handler of one() that has run is off. First, which handlers    *)
(* there are.                                                              *)
(***************************************************************************)

\* The handlers known are those in the lists and those about to run.
LEMMA Known ==
    ASSUME Core
    PROVE  /\ \A x \in Nodes, k \in Keys : \A i \in 1 .. Len(handlers[x][k]) : handlers[x][k][i] \in AllHandlers
           /\ \A i \in 1 .. Len(agenda) : agenda[i].do = "run" => agenda[i].h \in AllHandlers
<1>1. \A x \in Nodes, k \in Keys : handlers[x][k] \in Seq(Handlers)
  BY ListType DEF Core, Data
<1>2. ASSUME NEW x \in Nodes, NEW k \in Keys, NEW i \in 1 .. Len(handlers[x][k])
      PROVE  handlers[x][k][i] \in AllHandlers
  <2>1. handlers[x][k][i] \in Handlers
    BY <1>1
  <2> QED
    BY <2>1 DEF AllHandlers
<1>3. ASSUME NEW i \in 1 .. Len(agenda), agenda[i].do = "run"
      PROVE  agenda[i].h \in AllHandlers
  <2>1. agenda[i] \in Fits(calls, copyOf)
    BY DEF Core, AgendaOK
  <2>2. agenda[i].h \in Handlers
    BY <1>3, <2>1 DEF Fits
  <2> QED
    BY <1>3, <2>2 DEF AllHandlers
<1> QED
  BY <1>2, <1>3

\* what a step may do to the lists: leave out handlers, put in those of N, and copy a
\* node's to the clone that it makes
Keeps(N) ==
    \A y \in Nodes, k \in Keys : \A i \in 1 .. Len(handlers'[y][k]) :
        \/ handlers'[y][k][i] \in N
        \/ \E z \in Nodes : /\ z = y \/ (y = Copy /\ copyOf = None /\ copyOf' # None)
                            /\ \E j \in 1 .. Len(handlers[z][k]) : handlers'[y][k][i] = handlers[z][k][j]

\* What each kind of call does to the lists.
LEMMA SameKeeps ==
    ASSUME UNCHANGED handlers
    PROVE  Keeps({})
  BY DEF Keeps

LEMMA OnKeeps ==
    ASSUME Core, NEW x \in Hosts \cap Present, NEW b \in Bindings, On(x, b)
    PROVE  \E h \in Handlers : h.id = calls' /\ Keeps({h})
<1>1. Calling /\ Add(x, [b EXCEPT !.id = calls']) /\ wrong \subseteq wrong'
  BY DEF On, history
<1>2. x \in Nodes /\ calls' = calls + 1 /\ calls' <= MaxCalls
  BY <1>1, CoreFacts, CallFacts
<1>3. PICK h \in Handlers : /\ h.id = calls'
                            /\ \A y \in Nodes, q \in Keys : \A i \in 1 .. Len(handlers'[y][q]) :
                                  handlers'[y][q][i] = h \/ \E j \in 1 .. Len(handlers[y][q]) : handlers'[y][q][i] = handlers[y][q][j]
  BY <1>1, <1>2, DataAdd DEF Core
<1> QED
  BY <1>3 DEF Keeps

\* Unbinding leaves handlers out.
LEMMA UnbindKeeps ==
    ASSUME Core, calls' \in {calls, calls + 1}, calls' <= MaxCalls, wrong \subseteq wrong', NEW x \in Nodes, NEW gone, Unbind(x, gone)
    PROVE  /\ Keeps({})
           /\ \A k \in Keys : \A i \in 1 .. Len(handlers'[x][k]) : handlers'[x][k][i] \notin gone
<1>1. \A y \in Nodes, k \in Keys : handlers'[y][k] = IF y = x THEN Without(handlers[y][k], gone) ELSE handlers[y][k]
  BY DataUnbind DEF Core
<1>2. \A y \in Nodes, k \in Keys : handlers[y][k] \in Seq(Handlers)
  BY ListType DEF Core, Data
<1>3. ASSUME NEW k \in Keys, NEW i \in 1 .. Len(handlers'[x][k])
      PROVE  handlers'[x][k][i] \notin gone /\ \E j \in 1 .. Len(handlers[x][k]) : handlers'[x][k][i] = handlers[x][k][j]
  BY <1>1, <1>2, WithoutDistinct
<1>4. ASSUME NEW y \in Nodes, NEW k \in Keys, NEW i \in 1 .. Len(handlers'[y][k])
      PROVE  \E j \in 1 .. Len(handlers[y][k]) : handlers'[y][k][i] = handlers[y][k][j]
  <2>1. CASE y = x
    BY <1>3, <2>1
  <2>2. CASE y # x
    BY <1>1, <2>2
  <2> QED
    BY <2>1, <2>2
<1> QED
  BY <1>3, <1>4 DEF Keeps

LEMMA CleanKeeps ==
    ASSUME Core, NEW S \in SUBSET Nodes, CleanData(S)
    PROVE  Keeps({})
<1>1. ASSUME NEW y \in Nodes, NEW k \in Keys
      PROVE  handlers'[y][k] = handlers[y][k] \/ handlers'[y][k] = <<>>
  BY DEF CleanData
<1>2. Len(<<>>) = 0 /\ \A i \in 1 .. 0 : FALSE
  OBVIOUS
<1> QED
  BY <1>1, <1>2 DEF Keeps

LEMMA CloneKeeps ==
    ASSUME Core, copyOf = None, copyOf' # None, NEW x \in Nodes, CloneCopyEvent(x)
    PROVE  Keeps({})
<1>1. handlers' = [handlers EXCEPT ![Copy] = handlers[x]] /\ handlers \in Lists
  BY DEF CloneCopyEvent, Core, Data, DataType
<1>2. ASSUME NEW y \in Nodes, NEW k \in Keys
      PROVE  handlers'[y][k] = IF y = Copy THEN handlers[x][k] ELSE handlers[y][k]
  BY <1>1 DEF Lists
<1> QED
  BY <1>2 DEF Keeps

LEMMA ManipulatingKeeps ==
    ASSUME Core, Manipulating
    PROVE  Keeps({}) /\ (copyOf' = None => copyOf = None) /\ UNCHANGED spent
<1>1. PICK x \in Present :
        \/ RemoveNode(x) \/ Empty(x) \/ DetachNode(x) \/ CloneNode(x) \/ Unwrap(x)
        \/ \E y \in Present : AppendNode(x, y) \/ InsertBeside(x, y) \/ ReplaceWith(y, x) \/ WrapAll(x, y)
  BY DEF Manipulating, Html
<1>2. x \in Nodes /\ None \notin Elems /\ \A y : Subtree(y) \subseteq Nodes
  BY CoreFacts, EventsAssumption DEF Subtree, Nodes
<1>3. CASE RemoveNode(x)
  BY <1>2, <1>3, CleanKeeps DEF RemoveNode, CleanData
<1>4. CASE Empty(x)
  <2>1. Subtree(x) \ {x} \in SUBSET Nodes
    BY <1>2
  <2> QED
    BY <1>4, <2>1, CleanKeeps DEF Empty, CleanData
<1>5. CASE DetachNode(x)
  BY <1>5, SameKeeps DEF DetachNode, data
<1>6. CASE CloneNode(x)
  BY <1>2, <1>6, CloneKeeps DEF CloneNode
<1>7. CASE Unwrap(x)
  <2>1. parent[x] \in Nodes
    <3>1. parent \in Parents /\ parent[x] # None
      BY <1>7, CoreFacts DEF Unwrap
    <3> QED
      BY <1>2, <3>1 DEF Parents
  <2>2. {parent[x]} \in SUBSET Nodes
    BY <2>1
  <2> QED
    BY <1>7, <2>2, CleanKeeps DEF Unwrap, CleanData
<1>8. CASE \E y \in Present : AppendNode(x, y) \/ InsertBeside(x, y) \/ ReplaceWith(y, x) \/ WrapAll(x, y)
  <2>1. PICK y \in Present : AppendNode(x, y) \/ InsertBeside(x, y) \/ ReplaceWith(y, x) \/ WrapAll(x, y)
    BY <1>8
  <2>2. y \in Nodes
    BY CoreFacts
  <2>3. CASE AppendNode(x, y)
    BY <2>3, SameKeeps DEF AppendNode, DomManip, data
  <2>4. CASE InsertBeside(x, y)
    BY <2>4, SameKeeps DEF InsertBeside, DomManip, data
  <2>5. CASE ReplaceWith(y, x)
    <3>1. Subtree(y) \ Subtree(x) \in SUBSET Nodes
      BY <1>2
    <3> QED
      BY <2>5, <3>1, CleanKeeps DEF ReplaceWith, CleanData
  <2>6. CASE WrapAll(x, y)
    <3>1. copyOf' = y /\ y \in Elems /\ copyOf = None /\ CloneCopyEvent(y) /\ UNCHANGED spent
      BY <2>6 DEF WrapAll
    <3> QED
      BY <1>2, <2>2, <3>1, CloneKeeps
  <2> QED
    BY <2>1, <2>3, <2>4, <2>5, <2>6
<1> QED
  BY <1>1, <1>3, <1>4, <1>5, <1>6, <1>7, <1>8

LEMMA BindingKeeps ==
    ASSUME Core, Binding
    PROVE  /\ Calling /\ UNCHANGED <<copyOf, spent>>
           /\ Keeps({}) \/ \E h \in Handlers : h.id = calls' /\ Keeps({h})
<1>1. Calling /\ UNCHANGED <<copyOf, spent, wrong>>
  BY BindingAgenda DEF tree, history
<1>2. PICK x \in Hosts \cap Present : (\E b \in Bindings : On(x, b)) \/ \E gone : Unbind(x, gone)
  BY DEF Binding, Off, OffAll
<1>3. CASE \E b \in Bindings : On(x, b)
  BY <1>1, <1>3, OnKeeps
<1>4. CASE \E gone : Unbind(x, gone)
  <2>1. x \in Nodes /\ calls' \in {calls, calls + 1} /\ calls' <= MaxCalls
    BY <1>1, CoreFacts, CallFacts
  <2> QED
    BY <1>1, <1>4, <2>1, UnbindKeeps
<1> QED
  BY <1>2, <1>3, <1>4

\* the part of Spent that holds whatever the page triggers
SpentOne(t) ==
    /\ t[1] \in Nodes /\ t[2] \in 1 .. calls
    /\ \A h \in AllHandlers : h.id = t[2] => h.once
    /\ \A k \in Keys : \A i \in 1 .. Len(handlers[t[1]][k]) : handlers[t[1]][k][i].id # t[2]

Ids ==
    /\ \A h \in AllHandlers : h.id <= calls
    /\ \A h \in AllHandlers, g \in AllHandlers : h.id = g.id => h = g
    /\ \A t \in spent : SpentOne(t)
    /\ copyOf = None =>
          /\ \A t \in spent : t[1] # Copy
          /\ \A i \in 1 .. Len(agenda) : agenda[i].do = "run" => agenda[i].node # Copy

\* and the part of it that needs events to be triggered one at a time
OneEvent == \A i, j \in 1 .. Len(agenda) : agenda[i].ev # 0 /\ agenda[j].ev # 0 => agenda[i].ev = agenda[j].ev

NotAgain ==
    \A t \in spent : \A i \in 1 .. Len(agenda) :
        agenda[i].do = "run" => <<agenda[i].node, agenda[i].h.id, agenda[i].at>> # t

\* Spent in two parts.
LEMMA SpentParts == Spent <=> Ids /\ (Calm => OneEvent /\ NotAgain)
  BY DEF Spent, Ids, SpentOne, OneEvent, NotAgain

\* what the step brings into play besides the handlers that were known
RunsKnown ==
    \A i \in 1 .. Len(agenda') : agenda'[i].do = "run" =>
        agenda'[i].h \in AllHandlers /\ (copyOf' = None => agenda'[i].node # Copy)

\* Only what is bound is new.
LEMMA KnownKept ==
    ASSUME Core, Core', NEW N, Keeps(N), RunsKnown
    PROVE  AllHandlers' \subseteq AllHandlers \cup N
<1> SUFFICES ASSUME NEW h \in AllHandlers'
             PROVE  h \in AllHandlers \cup N
  OBVIOUS
<1>1. CASE \E x \in Nodes : \E k \in Keys : \E i \in 1 .. Len(handlers'[x][k]) : h = handlers'[x][k][i]
  <2>1. PICK x \in Nodes, k \in Keys : \E i \in 1 .. Len(handlers'[x][k]) : h = handlers'[x][k][i]
    BY <1>1
  <2>2. PICK i \in 1 .. Len(handlers'[x][k]) : h = handlers'[x][k][i]
    BY <2>1
  <2>3. h \in N \/ \E z \in Nodes : \E j \in 1 .. Len(handlers[z][k]) : h = handlers[z][k][j]
    BY <2>2 DEF Keeps
  <2> QED
    BY <2>3, Known
<1>2. CASE \E i \in 1 .. Len(agenda') : agenda'[i].do = "run" /\ h = agenda'[i].h
  BY <1>2 DEF RunsKnown
<1> QED
  BY <1>1, <1>2 DEF AllHandlers

\* A new handler has a new guid.
LEMMA IdsKept ==
    ASSUME Core, Core', Ids, calls' \in Nat, calls <= calls', copyOf' = None => copyOf = None, RunsKnown,
           NEW N \in SUBSET Handlers, Keeps(N), \A h \in N : h.id = calls' /\ calls < calls', \A h, g \in N : h = g,
           \A t \in spent' \ spent : SpentOne(t)' /\ (copyOf = None => t[1] # Copy)
    PROVE  Ids'
<1>1. AllHandlers' \subseteq AllHandlers \cup N /\ calls \in Nat /\ \A h \in Handlers : h.id \in Nat
  BY KnownKept, CoreFacts, HandlerType
<1>2. \A h \in AllHandlers : h \in Handlers /\ h.id \in Nat /\ h.id <= calls
  BY <1>1 DEF AllHandlers, Ids
<1>3. \A h \in AllHandlers' : h.id <= calls'
  BY <1>1, <1>2
<1>4. \A h \in AllHandlers', g \in AllHandlers' : h.id = g.id => h = g
  <2>1. \A h \in N, g \in AllHandlers : h.id # g.id
    BY <1>1, <1>2
  <2> QED
    BY <1>1, <2>1 DEF Ids
<1>5. ASSUME NEW t \in spent
      PROVE  SpentOne(t)'
  <2>1. SpentOne(t)
    BY DEF Ids
  <2>3. t[1] \in Nodes /\ t[2] \in 1 .. calls'
    BY <1>1, <2>1 DEF SpentOne
  <2>4. \A h \in N : h.id # t[2]
    BY <1>1, <2>1 DEF SpentOne
  <2>5. \A h \in AllHandlers' : h.id = t[2] => h.once
    BY <1>1, <2>1, <2>4 DEF SpentOne
  <2>6. ASSUME NEW k \in Keys, NEW i \in 1 .. Len(handlers'[t[1]][k])
        PROVE  handlers'[t[1]][k][i].id # t[2]
    <3>1. CASE handlers'[t[1]][k][i] \in N
      BY <2>4, <3>1
    <3>2. CASE \E z \in Nodes : /\ z = t[1] \/ (t[1] = Copy /\ copyOf = None /\ copyOf' # None)
                                /\ \E j \in 1 .. Len(handlers[z][k]) : handlers'[t[1]][k][i] = handlers[z][k][j]
      <4>1. ~(t[1] = Copy /\ copyOf = None)
        BY DEF Ids
      <4>2. \E j \in 1 .. Len(handlers[t[1]][k]) : handlers'[t[1]][k][i] = handlers[t[1]][k][j]
        BY <3>2, <4>1
      <4> QED
        BY <2>1, <4>2 DEF SpentOne
    <3> QED
      BY <2>3, <3>1, <3>2 DEF Keeps
  <2> QED
    BY <2>3, <2>5, <2>6 DEF SpentOne
<1>6. \A t \in spent' : SpentOne(t)'
  BY <1>5
<1>7. copyOf' = None => /\ \A t \in spent' : t[1] # Copy
                        /\ \A i \in 1 .. Len(agenda') : agenda'[i].do = "run" => agenda'[i].node # Copy
  BY DEF Ids, RunsKnown
<1> QED
  BY <1>3, <1>4, <1>6, <1>7 DEF Ids

\* A run that stays on the agenda was known; new ones must be.
LEMMA RunsGo ==
    ASSUME Core, Ids, copyOf' = None => copyOf = None, NEW n, NEW m, NEW e, Goes(n, m, e),
           \A i \in 1 .. n : agenda'[i].do = "run" => agenda'[i].h \in AllHandlers /\ (copyOf' = None => agenda'[i].node # Copy)
    PROVE  RunsKnown
<1>1. ASSUME NEW i \in 1 .. Len(agenda'), agenda'[i].do = "run"
      PROVE  agenda'[i].h \in AllHandlers /\ (copyOf' = None => agenda'[i].node # Copy)
  <2>1. CASE i > n
    <3>1. e[i] \in 1 .. Len(agenda) /\ agenda'[i] = agenda[e[i]]
      BY <2>1 DEF Goes
    <3> QED
      BY <1>1, <3>1, Known DEF Ids
  <2>2. CASE ~(i > n)
    <3>1. i \in 1 .. n
      BY <2>2 DEF Goes
    <3> QED
      BY <1>1, <3>1
  <2> QED
    BY <2>1, <2>2
<1> QED
  BY <1>1 DEF RunsKnown

(***************************************************************************)
(* Guids belong to one handler each, and those that are spent to none in   *)
(* the list.                                                               *)
(***************************************************************************)

\* When the step binds nothing and no handler of one() runs.
LEMMA SameIds ==
    ASSUME Core, Core', Ids, calls' \in Nat, calls <= calls', copyOf' = None => copyOf = None, RunsKnown,
           Keeps({}), spent' = spent
    PROVE  Ids'
<1>1. /\ {} \in SUBSET Handlers /\ \A h \in {} : h.id = calls' /\ calls < calls'
      /\ \A h, g \in {} : h = g
      /\ \A t \in spent' \ spent : SpentOne(t)' /\ (copyOf = None => t[1] # Copy)
  OBVIOUS
<1> QED
  BY <1>1, IdsKept

\* Each kind of step keeps Ids.
LEMMA IdleIds ==
    ASSUME Core, Core', Ids, Binding \/ Manipulating \/ Evaluate \/ UNCHANGED vars
    PROVE  Ids'
<1>1. PICK n, m, e :
          /\ Goes(n, m, e)
          /\ m = 1 => agenda[1].do = "evaluate"
          /\ \A i \in 1 .. n : /\ agenda'[i].ev = 0 /\ agenda'[i].do \in {"evaluate", "page"}
                               /\ agenda'[i].do = "page" => agenda'[i].key = "script"
  BY IdleFacts
<1>2. Goes(n, m, e) /\ \A i \in 1 .. n : agenda'[i].do = "run" => agenda'[i].h \in AllHandlers /\ (copyOf' = None => agenda'[i].node # Copy)
  BY <1>1
<1>3. (copyOf' = None => copyOf = None) => RunsKnown
  BY <1>2, RunsGo
<1>4. calls \in Nat
  BY CoreFacts
<1>5. CASE Binding
  <2>1. /\ Calling /\ UNCHANGED <<copyOf, spent>>
        /\ Keeps({}) \/ \E h \in Handlers : h.id = calls' /\ Keeps({h})
    BY <1>5, BindingKeeps
  <2>2. calls' \in Nat /\ calls < calls' /\ calls <= calls'
    BY <1>4, <2>1 DEF Calling
  <2>3. CASE Keeps({})
    BY <1>3, <2>1, <2>2, <2>3, SameIds
  <2>4. CASE \E h \in Handlers : h.id = calls' /\ Keeps({h})
    <3>1. PICK h \in Handlers : h.id = calls' /\ Keeps({h})
      BY <2>4
    <3>2. /\ {h} \in SUBSET Handlers /\ \A g \in {h} : g.id = calls' /\ calls < calls'
          /\ \A f, g \in {h} : f = g
      BY <2>2, <3>1
    <3> QED
      BY <1>3, <2>1, <2>2, <3>1, <3>2, IdsKept
  <2> QED
    BY <2>1, <2>3, <2>4
<1>6. CASE Manipulating
  <2>1. Keeps({}) /\ (copyOf' = None => copyOf = None) /\ UNCHANGED spent
    BY <1>6, ManipulatingKeeps
  <2>2. calls' \in Nat /\ calls <= calls'
    BY <1>4, <1>6, ManipulatingAgenda DEF Calling
  <2> QED
    BY <1>3, <2>1, <2>2, SameIds
<1>7. CASE Evaluate \/ UNCHANGED vars
  <2>1. UNCHANGED <<handlers, spent, copyOf, calls>>
    BY <1>7 DEF Evaluate, vars, tree, data, history
  <2> QED
    BY <1>3, <1>4, <2>1, SameKeeps, SameIds
<1> QED
  BY <1>5, <1>6, <1>7

\* What only the agenda shows, when no handler comes to run.
LEMMA AgendaIds ==
    ASSUME Core, Core', Ids, UNCHANGED <<handlers, spent, copyOf>>, calls' \in Nat, calls <= calls',
           NEW n, NEW m, NEW e, Goes(n, m, e), \A i \in 1 .. n : agenda'[i].do # "run"
    PROVE  Ids'
<1>1. RunsKnown
  BY RunsGo
<1> QED
  BY <1>1, SameKeeps, SameIds

LEMMA BeginIds ==
    ASSUME Core, Core', Ids, Triggering
    PROVE  Ids'
<1>1. PICK steps, e : /\ Calling /\ Begin(calls', steps) /\ BeginLike(calls', steps)
                      /\ Goes(Len(steps), 0, e) /\ Leads(steps)
  BY BeginFacts
<1>2. UNCHANGED <<handlers, spent, copyOf>>
  BY <1>1 DEF Begin, data, tree
<1>3. calls' \in Nat /\ calls <= calls'
  BY <1>1, CoreFacts DEF Calling
<1>4. \A i \in 1 .. Len(steps) : agenda'[i].do # "run"
  BY <1>1 DEF Leads, BeginLike
<1> QED
  BY <1>1, <1>2, <1>3, <1>4, AgendaIds

\* The other steps of the engine bring no handler to run.
LEMMA NoRuns ==
    ASSUME Core, Capture \/ Default \/ End \/ \E how : PageReturns(how)
    PROVE  \E n, e : Goes(n, 1, e) /\ \A i \in 1 .. n : agenda'[i].do # "run"
<1>1. CASE Capture
  <2>1. PICK steps, e : Goes(Len(steps), 1, e) /\ Leads(steps) /\ FireLike(agenda[1].ev, "focusin", steps)
    BY <1>1, CaptureFacts
  <2>2. \A i \in 1 .. Len(steps) : agenda'[i].do # "run"
    BY <2>1 DEF FireLike, Leads
  <2> QED
    BY <2>1, <2>2
<1>2. CASE Default
  <2>1. PICK s, e : /\ Goes(Len(s) + 1, 1, e) /\ Len(s) \in Nat /\ NativeLike(agenda[1].ev, agenda[1].key, s)
                    /\ Leads(s) /\ agenda'[Len(s) + 1].do = "end"
    BY <1>2, DefaultFacts
  <2>2. \A i \in 1 .. Len(s) : agenda'[i].do # "run"
    BY <2>1 DEF NativeLike, Leads
  <2>3. \A i \in 1 .. Len(s) + 1 : i \in 1 .. Len(s) \/ i = Len(s) + 1
    BY <2>1
  <2> QED
    BY <2>1, <2>2, <2>3
<1>3. CASE End \/ \E how : PageReturns(how)
  <2>1. PICK e : Goes(0, 1, e)
    BY <1>3, EndFacts, PageFacts
  <2>2. \A i \in 1 .. 0 : FALSE
    OBVIOUS
  <2> QED
    BY <2>1, <2>2
<1> QED
  BY <1>1, <1>2, <1>3

LEMMA QuietIds ==
    ASSUME Core, Core', Ids, Capture \/ Default \/ End \/ \E how : PageReturns(how)
    PROVE  Ids'
<1>1. calls \in Nat
  BY CoreFacts
<1>2. UNCHANGED <<handlers, spent, copyOf, calls>>
  BY CaptureFacts, DefaultFacts, EndFacts, PageFacts DEF Capture, data, history, tree
<1>3. \E n, e : Goes(n, 1, e) /\ \A i \in 1 .. n : agenda'[i].do # "run"
  BY NoRuns
<1> QED
  BY <1>1, <1>2, <1>3, AgendaIds

\* The handlers that come to run were in a list.
LEMMA HandleIds ==
    ASSUME Core, Core', Ids, Handle
    PROVE  Ids'
<1>1. agenda[1].at \in Nodes /\ agenda[1].key \in Keys /\ UNCHANGED <<handlers, spent, copyOf, calls>> /\ calls \in Nat
  BY HandleFacts, CoreFacts DEF data, history
<1>2. PICK steps, e : Goes(Len(steps), 1, e) /\ Leads(steps) /\ QueueLike(agenda[1], steps)
  BY HandleFacts
<1>3. ASSUME NEW i \in 1 .. Len(steps)
      PROVE  agenda'[i].h \in AllHandlers /\ (copyOf' = None => agenda'[i].node # Copy)
  <2>1. agenda'[i].node = agenda[1].at
    BY <1>2 DEF Leads, QueueLike
  <2>2. PICK k \in 1 .. Len(handlers[agenda[1].at][agenda[1].key]) : agenda'[i].h = handlers[agenda[1].at][agenda[1].key][k]
    BY <1>2 DEF Leads, QueueLike
  <2>3. agenda'[i].h \in AllHandlers
    BY <1>1, <2>2, Known
  <2>4. ASSUME copyOf = None, agenda[1].at = Copy
        PROVE  FALSE
    <3>1. handlers[agenda[1].at][agenda[1].key] = <<>>
      BY <1>1, <2>4 DEF Core, Data, Fresh, EventsInv
    <3>2. k \in 1 .. 0
      BY <2>2, <3>1
    <3> QED
      BY <3>2
  <2> QED
    BY <1>1, <2>1, <2>3, <2>4
<1>4. RunsKnown
  BY <1>1, <1>2, <1>3, RunsGo
<1> QED
  BY <1>1, <1>4, SameKeeps, SameIds

\* A handler of one() that has run is off, and no other goes by its number.
LEMMA RunIds ==
    ASSUME Core, Core', Ids, Run
    PROVE  Ids'
<1> DEFINE r == agenda[1]
<1>0. PICK t : t = <<r.node, r.h.id, r.at>>
  OBVIOUS
<1>1. agenda # <<>> /\ r.do = "run" /\ r.h \in Handlers /\ Todo = r /\ UNCHANGED <<calls, copyOf>> /\ 1 \in 1 .. Len(agenda)
      /\ calls \in Nat
  BY RunFacts, HeadFacts, CoreFacts
<1>2. r.node \in Nodes
  BY <1>1, HeadFacts DEF Core, AgendaOK, Fits, Steps
<1>3. /\ Unbind(r.node, Spends(r)) /\ wrong \subseteq wrong'
      /\ spent' = IF r.h.once THEN spent \cup {t} ELSE spent
  BY <1>0, <1>1 DEF Run
<1>4. calls' \in {calls, calls + 1} /\ calls' <= MaxCalls /\ calls' \in Nat /\ calls <= calls'
  BY <1>1, CoreFacts
<1>5. /\ Keeps({})
      /\ \A k \in Keys : \A i \in 1 .. Len(handlers'[r.node][k]) : handlers'[r.node][k][i] \notin Spends(r)
  BY <1>2, <1>3, <1>4, UnbindKeeps
<1>6. RunsKnown
  <2>1. PICK e : Goes(1, 1, e)
    BY RunFacts
  <2>2. \A i \in 1 .. 1 : i = 1 /\ agenda'[1].do = "page"
    BY RunFacts
  <2>3. \A i \in 1 .. 1 : agenda'[i].do # "run"
    BY <2>2
  <2> QED
    BY <1>1, <2>1, <2>3, RunsGo
<1>7. r.h \in AllHandlers /\ (copyOf = None => r.node # Copy)
  BY <1>1, Known DEF Ids
<1>8. AllHandlers' \subseteq AllHandlers
  BY <1>5, <1>6, KnownKept
<1>9. ASSUME r.h.once, NEW k \in Keys, NEW i \in 1 .. Len(handlers'[r.node][k]), handlers'[r.node][k][i].id = r.h.id
      PROVE  FALSE
  <2> DEFINE g == handlers'[r.node][k][i]
  <2>1. \E z \in Nodes : /\ z = r.node \/ (r.node = Copy /\ copyOf = None /\ copyOf' # None)
                         /\ \E j \in 1 .. Len(handlers[z][k]) : g = handlers[z][k][j]
    BY <1>2, <1>5 DEF Keeps
  <2>2. PICK j \in 1 .. Len(handlers[r.node][k]) : g = handlers[r.node][k][j]
    BY <1>1, <2>1
  <2>3. g \in AllHandlers
    BY <1>2, <2>2, Known
  <2>4. g = r.h
    BY <1>7, <1>9, <2>3 DEF Ids
  <2>5. Key(r.h.type, r.h.sel) = k
    BY <1>2, <2>2, <2>4 DEF Core, Data, Filed
  <2>6. handlers[r.node][k] \in Seq(Handlers)
    BY <1>2, ListType DEF Core, Data
  <2>7. r.h \in Range(handlers[r.node][k])
    <3>1. DOMAIN handlers[r.node][k] = 1 .. Len(handlers[r.node][k])
      BY <2>6
    <3> QED
      BY <2>2, <2>4, <3>1 DEF Range
  <2>8. r.h \in Spends(r)
    BY <1>9, <2>5, <2>7 DEF Spends, Meant
  <2> QED
    BY <1>5, <2>4, <2>8
<1>10. r.h.once => SpentOne(t)' /\ (copyOf = None => t[1] # Copy)
  <2> SUFFICES ASSUME r.h.once
               PROVE  SpentOne(t)' /\ (copyOf = None => t[1] # Copy)
    OBVIOUS
  <2>1. t[1] = r.node /\ t[2] = r.h.id
    BY <1>0
  <2>2. t[2] \in 1 .. calls'
    <3>1. r.h.id \in Nat /\ r.h.id >= 1 /\ r.h.id <= calls
      BY <1>1, <1>7, HandlerType DEF Ids
    <3> QED
      BY <1>1, <2>1, <3>1
  <2>3. \A h \in AllHandlers' : h.id = t[2] => h.once
    BY <1>7, <1>8, <2>1 DEF Ids
  <2>4. \A k \in Keys : \A i \in 1 .. Len(handlers'[t[1]][k]) : handlers'[t[1]][k][i].id # t[2]
    BY <1>9, <2>1
  <2> QED
    BY <1>2, <1>7, <2>1, <2>2, <2>3, <2>4 DEF SpentOne
<1>11. /\ {} \in SUBSET Handlers /\ \A h \in {} : h.id = calls' /\ calls < calls'
       /\ \A h, g \in {} : h = g
  OBVIOUS
<1>12. \A u \in spent' \ spent : SpentOne(u)' /\ (copyOf = None => u[1] # Copy)
  <2>1. \A u \in spent' \ spent : u = t /\ r.h.once
    BY <1>3
  <2> QED
    BY <1>10, <2>1 DEF SpentOne
<1> HIDE DEF r
<1> QED
  BY <1>1, <1>4, <1>5, <1>6, <1>11, <1>12, IdsKept

\* All steps keep Ids.
LEMMA IdsNext ==
    ASSUME Core, Core', Ids, [Next]_vars
    PROVE  Ids'
  BY IdleIds, BeginIds, QuietIds, HandleIds, RunIds DEF Next, Engine

(***************************************************************************)
(* One event at a time.                                                    *)
(***************************************************************************)

\* The engine's steps replace the one on top with others of its event.
LEMMA EngineBelongs ==
    ASSUME Core, Capture \/ Handle \/ Run \/ Default \/ End \/ \E how : PageReturns(how)
    PROVE  agenda # <<>> /\ \E n, e : Goes(n, 1, e) /\ Belong(n, agenda[1].ev)
<1>1. CASE Capture
  <2>1. PICK steps, e : Goes(Len(steps), 1, e) /\ Leads(steps) /\ FireLike(agenda[1].ev, "focusin", steps) /\ agenda # <<>>
    BY <1>1, CaptureFacts
  <2>2. Belong(Len(steps), agenda[1].ev)
    BY <2>1 DEF Belong, FireLike, Leads
  <2> QED
    BY <2>1, <2>2
<1>2. CASE Handle
  <2>1. PICK steps, e : Goes(Len(steps), 1, e) /\ Leads(steps) /\ QueueLike(agenda[1], steps) /\ agenda # <<>>
    BY <1>2, HandleFacts
  <2>2. Belong(Len(steps), agenda[1].ev)
    BY <2>1 DEF Belong, QueueLike, Leads
  <2> QED
    BY <2>1, <2>2
<1>3. CASE Run
  <2>1. PICK e : Goes(1, 1, e) /\ agenda # <<>> /\ agenda'[1].ev = agenda[1].ev
    BY <1>3, RunFacts
  <2>2. \A i \in 1 .. 1 : i = 1
    OBVIOUS
  <2>3. Belong(1, agenda[1].ev)
    BY <2>1, <2>2 DEF Belong
  <2> QED
    BY <2>1, <2>3
<1>4. CASE Default
  <2>1. PICK s, e : /\ Goes(Len(s) + 1, 1, e) /\ Len(s) \in Nat /\ NativeLike(agenda[1].ev, agenda[1].key, s)
                    /\ Leads(s) /\ agenda # <<>> /\ agenda'[Len(s) + 1].ev = agenda[1].ev
    BY <1>4, DefaultFacts
  <2>2. \A i \in 1 .. Len(s) : agenda'[i].ev = agenda[1].ev
    BY <2>1 DEF NativeLike, Leads
  <2>3. \A i \in 1 .. Len(s) + 1 : i \in 1 .. Len(s) \/ i = Len(s) + 1
    BY <2>1
  <2>4. Belong(Len(s) + 1, agenda[1].ev)
    BY <2>1, <2>2, <2>3 DEF Belong
  <2> QED
    BY <2>1, <2>4
<1>5. CASE End \/ \E how : PageReturns(how)
  <2>1. PICK e : Goes(0, 1, e) /\ agenda # <<>>
    BY <1>5, EndFacts, PageFacts
  <2>2. \A i \in 1 .. 0 : FALSE
    OBVIOUS
  <2>3. Belong(0, agenda[1].ev)
    BY <2>2 DEF Belong
  <2> QED
    BY <2>1, <2>3
<1> QED
  BY <1>1, <1>2, <1>3, <1>4, <1>5

\* The agenda stays with one event when what comes belongs to it, or to none.
LEMMA OneGoes ==
    ASSUME OneEvent, NEW n, NEW m, NEW e, Goes(n, m, e), NEW v, Belong(n, v),
           v = 0 \/ \A k \in 1 .. Len(agenda) : agenda[k].ev # 0 => agenda[k].ev = v
    PROVE  OneEvent'
<1> SUFFICES ASSUME NEW i \in 1 .. Len(agenda'), NEW j \in 1 .. Len(agenda'), agenda'[i].ev # 0, agenda'[j].ev # 0
             PROVE  agenda'[i].ev = agenda'[j].ev
  BY DEF OneEvent
<1>1. \A k \in 1 .. Len(agenda') : \/ agenda'[k].ev = v
                                   \/ \E l \in 1 .. Len(agenda) : agenda'[k] = agenda[l]
  <2>1. ASSUME NEW k \in 1 .. Len(agenda')
        PROVE  k \in 1 .. n \/ k > n
    BY DEF Goes
  <2>2. \A k \in 1 .. Len(agenda') : k > n => e[k] \in 1 .. Len(agenda) /\ agenda'[k] = agenda[e[k]]
    BY DEF Goes
  <2> QED
    BY <2>1, <2>2 DEF Belong
<1> QED
  BY <1>1 DEF OneEvent

\* Unless the page triggers an event inside another there is one at a time.
LEMMA OneEventNext ==
    ASSUME Core, Calm => OneEvent, [Next]_vars
    PROVE  Calm' => OneEvent'
<1>1. CASE Triggering
  <2>1. PICK steps, e : /\ Calling /\ Begin(calls', steps) /\ BeginLike(calls', steps)
                        /\ Goes(Len(steps), 0, e) /\ Leads(steps)
    BY <1>1, BeginFacts
  <2>2. Calm' => Calm /\ agenda = <<>>
    BY <2>1, BeginWrong
  <2>3. agenda = <<>> => \A k \in 1 .. Len(agenda) : FALSE
    OBVIOUS
  <2>4. Belong(Len(steps), calls')
    BY <2>1 DEF Belong, BeginLike, Leads
  <2> QED
    BY <2>1, <2>2, <2>3, <2>4, OneGoes
<1>2. CASE Binding \/ Manipulating \/ Evaluate \/ UNCHANGED vars
  <2>1. PICK n, m, e :
          /\ Goes(n, m, e)
          /\ m = 1 => agenda[1].do = "evaluate"
          /\ \A i \in 1 .. n : /\ agenda'[i].ev = 0 /\ agenda'[i].do \in {"evaluate", "page"}
                               /\ agenda'[i].do = "page" => agenda'[i].key = "script"
    BY <1>2, IdleFacts
  <2>2. Goes(n, m, e) /\ Belong(n, 0)
    BY <2>1 DEF Belong
  <2>3. Calm' <=> Calm
    BY <1>2, QuietSteps DEF Engine
  <2> QED
    BY <2>2, <2>3, OneGoes
<1>3. CASE Capture \/ Handle \/ Run \/ Default \/ End \/ \E how : PageReturns(how)
  <2>1. agenda # <<>> /\ \E n, e : Goes(n, 1, e) /\ Belong(n, agenda[1].ev)
    BY <1>3, EngineBelongs
  <2>2. Calm' => Calm
    BY WrongGrows, QuietBefore
  <2>3. 1 \in 1 .. Len(agenda)
    BY <2>1, HeadFacts
  <2>4. OneEvent => \/ agenda[1].ev = 0
                    \/ \A k \in 1 .. Len(agenda) : agenda[k].ev # 0 => agenda[k].ev = agenda[1].ev
    BY <2>3 DEF OneEvent
  <2> QED
    BY <2>1, <2>2, <2>4, OneGoes
<1> QED
  BY <1>1, <1>2, <1>3 DEF Next, Engine

\* what NotAgain says of one step
Fresher(s, t) == s.do = "run" => <<s.node, s.h.id, s.at>> # t

\* NotAgain, step by step.
LEMMA NotAgainParts == NotAgain <=> \A t \in spent : \A i \in 1 .. Len(agenda) : Fresher(agenda[i], t)
  BY DEF NotAgain, Fresher

\* NotAgain is kept when it says the truth of what is new.
LEMMA NotAgainGoes ==
    ASSUME NotAgain, NEW n, NEW m, NEW e, Goes(n, m, e),
           \A i \in 1 .. n : \A t \in spent' : Fresher(agenda'[i], t),
           \A t \in spent' \ spent : \A k \in 1 .. Len(agenda) : k > m => Fresher(agenda[k], t)
    PROVE  NotAgain'
<1>1. ASSUME NEW t \in spent', NEW i \in 1 .. Len(agenda')
      PROVE  Fresher(agenda'[i], t)
  <2>1. CASE i > n
    <3>1. e[i] \in 1 .. Len(agenda) /\ e[i] > m /\ agenda'[i] = agenda[e[i]]
      BY <2>1 DEF Goes
    <3> QED
      BY <3>1, NotAgainParts
  <2>2. CASE ~(i > n)
    <3>1. i \in 1 .. n
      BY <2>2 DEF Goes
    <3> QED
      BY <3>1
  <2> QED
    BY <2>1, <2>2
<1> QED
  BY <1>1 DEF NotAgain, Fresher

\* When no handler comes to run and none has.
LEMMA NotAgainIdle ==
    ASSUME NotAgain, spent' = spent, NEW n, NEW m, NEW e, Goes(n, m, e), \A i \in 1 .. n : agenda'[i].do # "run"
    PROVE  NotAgain'
<1>1. \A i \in 1 .. n : \A t \in spent' : Fresher(agenda'[i], t)
  BY DEF Fresher
<1>2. \A t \in spent' \ spent : FALSE
  OBVIOUS
<1> QED
  BY <1>1, <1>2, NotAgainGoes

\* A handler of one() that has run is not in the list of its element.
LEMMA HandleNotAgain ==
    ASSUME Core, Ids, NotAgain, Handle
    PROVE  NotAgain'
<1>1. agenda[1].at \in Nodes /\ agenda[1].key \in Keys /\ spent' = spent
  BY HandleFacts DEF history
<1>2. PICK steps, e : Goes(Len(steps), 1, e) /\ Leads(steps) /\ QueueLike(agenda[1], steps)
  BY HandleFacts
<1>3. ASSUME NEW i \in 1 .. Len(steps), NEW t \in spent'
      PROVE  Fresher(agenda'[i], t)
  <2>1. agenda'[i].node = agenda[1].at
    BY <1>2 DEF Leads, QueueLike
  <2>2. PICK k \in 1 .. Len(handlers[agenda[1].at][agenda[1].key]) : agenda'[i].h = handlers[agenda[1].at][agenda[1].key][k]
    BY <1>2 DEF Leads, QueueLike
  <2>3. t[1] = agenda[1].at => agenda'[i].h.id # t[2]
    BY <1>1, <2>2 DEF Ids, SpentOne
  <2> QED
    BY <2>1, <2>3 DEF Fresher
<1>4. \A t \in spent' \ spent : FALSE
  BY <1>1
<1> QED
  BY <1>2, <1>3, <1>4, NotAgainGoes

\* The same handler is not about to run a second time where it runs now.
LEMMA RunNotAgain ==
    ASSUME Core, Ids, OneEvent, NotAgain, Quiet, Single, Run
    PROVE  NotAgain'
<1> DEFINE r == agenda[1]
<1>1. agenda # <<>> /\ r.do = "run" /\ r.ev \in 1 .. calls /\ Todo = r /\ 1 \in 1 .. Len(agenda)
  BY RunFacts, HeadFacts
<1>2. PICK e : Goes(1, 1, e)
  BY RunFacts
<1>3. \A i \in 1 .. 1 : agenda'[i].do # "run"
  <2>1. \A i \in 1 .. 1 : i = 1 /\ agenda'[1].do = "page"
    BY RunFacts
  <2> QED
    BY <2>1
<1>4. \A t \in spent' \ spent : t = <<r.node, r.h.id, r.at>>
  BY <1>1 DEF Run
<1>5. ASSUME NEW k \in 1 .. Len(agenda), k > 1, agenda[k].do = "run", agenda[k].node = r.node, agenda[k].h.id = r.h.id, agenda[k].at = r.at
      PROVE  FALSE
  <2>1. agenda[k].h = r.h
    BY <1>1, <1>5, Known DEF Ids
  <2>2. agenda[k].ev # 0 /\ r.ev # 0
    BY <1>1, <1>5 DEF Core, AgendaOK, Fits
  <2>3. agenda[k].ev = r.ev
    BY <1>1, <2>2 DEF OneEvent
  <2>4. agenda[k] = r
    BY <1>1, <1>5, <2>1, <2>3, SameRun
  <2>5. Apart(agenda[k], Held(k), agenda[1], Held(1))
    BY <1>1, <1>5, SingleParts
  <2> QED
    BY <1>5, <2>4, <2>5 DEF Apart
<1>6. \A t \in spent' \ spent : \A k \in 1 .. Len(agenda) : k > 1 => Fresher(agenda[k], t)
  BY <1>4, <1>5 DEF Fresher
<1>7. \A i \in 1 .. 1 : \A t \in spent' : Fresher(agenda'[i], t)
  BY <1>3 DEF Fresher
<1> QED
  BY <1>2, <1>6, <1>7, NotAgainGoes

\* All steps keep NotAgain.
LEMMA NotAgainNext ==
    ASSUME Core, Ids, Calm => OneEvent /\ NotAgain, Calm => Quiet, Single, [Next]_vars
    PROVE  Calm' => NotAgain'
<1>1. Calm' => Calm
  BY WrongGrows, QuietBefore
<1>2. CASE Handle
  BY <1>1, <1>2, HandleNotAgain
<1>3. CASE Run
  BY <1>1, <1>3, RunNotAgain
<1>4. CASE Triggering
  <2>1. PICK steps, e : /\ Calling /\ Begin(calls', steps) /\ BeginLike(calls', steps)
                        /\ Goes(Len(steps), 0, e) /\ Leads(steps)
    BY <1>4, BeginFacts
  <2>2. spent' = spent /\ \A i \in 1 .. Len(steps) : agenda'[i].do # "run"
    BY <2>1 DEF Begin, Leads, BeginLike
  <2> QED
    BY <1>1, <2>1, <2>2, NotAgainIdle
<1>5. CASE Binding \/ Manipulating \/ Evaluate \/ UNCHANGED vars
  <2>1. PICK n, m, e :
          /\ Goes(n, m, e)
          /\ m = 1 => agenda[1].do = "evaluate"
          /\ \A i \in 1 .. n : /\ agenda'[i].ev = 0 /\ agenda'[i].do \in {"evaluate", "page"}
                               /\ agenda'[i].do = "page" => agenda'[i].key = "script"
    BY <1>5, IdleFacts
  <2>2. Goes(n, m, e) /\ \A i \in 1 .. n : agenda'[i].do # "run"
    BY <2>1
  <2>3. spent' = spent
    BY <1>5, IdleFacts
  <2> QED
    BY <1>1, <2>2, <2>3, NotAgainIdle
<1>6. CASE Capture \/ Default \/ End \/ \E how : PageReturns(how)
  <2>1. spent' = spent
    BY <1>6, CaptureFacts, DefaultFacts, EndFacts, PageFacts DEF history
  <2>2. \E n, e : Goes(n, 1, e) /\ \A i \in 1 .. n : agenda'[i].do # "run"
    BY <1>6, NoRuns
  <2> QED
    BY <1>1, <2>1, <2>2, NotAgainIdle
<1> QED
  BY <1>2, <1>3, <1>4, <1>5, <1>6 DEF Next, Engine

\* All steps keep Spent.
LEMMA SpentNext ==
    ASSUME Core, Core', Ending, Single, Spent, [Next]_vars
    PROVE  Spent'
<1>1. Ids /\ (Calm => OneEvent /\ NotAgain)
  BY SpentParts
<1>2. Calm => Quiet
  BY EndingParts
<1>3. Ids' /\ (Calm' => OneEvent' /\ NotAgain')
  BY <1>1, <1>2, IdsNext, OneEventNext, NotAgainNext
<1> QED
  BY <1>3 DEF Spent, Ids, SpentOne, OneEvent, NotAgain

\* A handler of one() does not run twice in the same place.
OneTwice == Calm => "one twice" \notin wrong

\* Spent says so before it could happen.
LEMMA OneTwiceNext ==
    ASSUME Core, Spent, OneTwice, [Next]_vars
    PROVE  OneTwice'
<1>1. Calm' => Calm
  BY WrongGrows, QuietBefore
<1>2. CASE Run
  <2>1. Todo = agenda[1] /\ agenda[1].do = "run" /\ agenda # <<>>
    BY <1>2, RunFacts
  <2>2. wrong' = wrong
           \cup (IF <<Todo.ev, Todo.node, Todo.h, Todo.at>> \in handled THEN {"handled twice"} ELSE {})
           \cup (IF <<Todo.node, Todo.h.id, Todo.at>> \in spent THEN {"one twice"} ELSE {})
           \cup (IF \E s \in stopped : s[1] = Todo.ev /\ s[2] # Todo.at THEN {"heard when stopped"} ELSE {})
    BY <1>2 DEF Run
  <2>3. Calm => <<Todo.node, Todo.h.id, Todo.at>> \notin spent
    BY <2>1, SpentParts, HeadFacts DEF NotAgain
  <2>4. Calm => ("one twice" \in wrong' => "one twice" \in wrong)
    BY <2>2, <2>3
  <2> QED
    BY <1>1, <2>4 DEF OneTwice
<1>3. CASE ~Run
  <2>1. "one twice" \in wrong' => "one twice" \in wrong
    BY <1>3, WrongWhat DEF Next, vars, history
  <2> QED
    BY <1>1, <2>1 DEF OneTwice
<1> QED
  BY <1>2, <1>3

(***************************************************************************)
(* The theorems.                                                           *)
(***************************************************************************)

\* In the beginning nothing has run.
LEMMA InitSingle ==
    ASSUME Init
    PROVE  Single /\ Spent /\ HandledTwice /\ OneTwice
<1>1. agenda = <<>> /\ handled = {} /\ spent = {} /\ wrong = {} /\ Len(agenda) = 0 /\ \A k \in 1 .. 0 : FALSE
  BY DEF Init
<1>2. Single /\ HandledTwice /\ OneTwice
  BY <1>1 DEF Single, HandledTwice, OneTwice
<1>3. AllHandlers = {}
  <2>1. ASSUME NEW x \in Nodes, NEW k \in Keys
        PROVE  Len(handlers[x][k]) = 0
    <3>1. handlers[x][k] = <<>>
      BY DEF Init
    <3> QED
      BY <3>1
  <2> QED
    BY <1>1, <2>1 DEF AllHandlers
<1>4. Ids /\ OneEvent /\ NotAgain
  BY <1>1, <1>3 DEF Ids, OneEvent, NotAgain
<1> QED
  BY <1>2, <1>4, SpentParts

\* While the page triggers nothing inside an event: a list of handlers is gone through
\* once for an event, all steps of the agenda belong to one event, and a handler of
\* one() that has run is in no list of its element and will not run there again.
THEOREM SpentHolds == Spec => [](Single /\ Spent /\ HandledTwice /\ OneTwice)
<1>1. Core /\ Core' /\ Ending /\ Stacked /\ Single /\ Spent /\ HandledTwice /\ OneTwice /\ [Next]_vars
        => (Single /\ Spent /\ HandledTwice /\ OneTwice)'
  BY SingleNext, SpentNext, HandledTwiceNext, OneTwiceNext
<1>2. Core /\ [Next]_vars => Core'
  BY CoreNext
<1> QED
  BY <1>1, <1>2, InitCore, InitSingle, EndingHolds, PTL DEF Spec

\* Whatever trigger() and the native event it ends in call, no handler is run twice on
\* an element for one of them, and one of one() runs once for all, unless the page
\* triggers another event meanwhile; and triggered is cleared when all is done.
THEOREM HandledOnceHolds == Spec => []HandledOnce
<1>1. Core /\ Ending /\ HandledTwice /\ OneTwice => HandledOnce
  <2> SUFFICES ASSUME Core, Ending, HandledTwice, OneTwice
               PROVE  HandledOnce
    OBVIOUS
  <2>1. agenda = <<>> => triggered = None
    <3> SUFFICES ASSUME agenda = <<>>, triggered # None
                 PROVE  FALSE
      OBVIOUS
    <3>1. PICK k \in 1 .. Len(agenda) : TRUE
      BY EndingParts
    <3>2. Len(agenda) = 0
      OBVIOUS
    <3> QED
      BY <3>1, <3>2
  <2> QED
    BY <2>1 DEF HandledOnce, HandledTwice, OneTwice, Quiet, Calm
<1>2. Core /\ [Next]_vars => Core'
  BY CoreNext
<1> QED
  BY <1>1, <1>2, InitCore, EndingHolds, SpentHolds, PTL DEF Spec
==============================================================================
