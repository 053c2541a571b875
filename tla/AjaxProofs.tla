----------------------------- MODULE AjaxProofs -----------------------------
(***************************************************************************)
(* Requests are counted and completed once, names are private, and a JSONP *)
(* request gets its own data: proofs for any number of requests, for all   *)
(* options, and for whatever the page does in the functions jQuery runs.   *)
(***************************************************************************)
EXTENDS Ajax, FiniteSetTheorems, SequenceTheorems, TLAPS

(***************************************************************************)
(* What an agenda holds after a step.                                      *)
(***************************************************************************)

LEMMA HasConcat ==
    ASSUME NEW S, NEW s \in Seq(S), NEW t \in Seq(S), NEW r
    PROVE  /\ \A what : Has(s \o t, what, r) <=> Has(s, what, r) \/ Has(t, what, r)
           /\ \A whats : HasAny(s \o t, whats, r) <=> HasAny(s, whats, r) \/ HasAny(t, whats, r)
<1>1. /\ Len(s \o t) = Len(s) + Len(t) /\ Len(s) \in Nat /\ Len(t) \in Nat
      /\ \A i \in 1 .. Len(s) : (s \o t)[i] = s[i]
      /\ \A i \in Len(s) + 1 .. Len(s) + Len(t) : i - Len(s) \in 1 .. Len(t) /\ (s \o t)[i] = t[i - Len(s)]
  OBVIOUS
<1>2. \A i \in 1 .. Len(t) : i + Len(s) \in 1 .. Len(s \o t) /\ (s \o t)[i + Len(s)] = t[i]
  BY <1>1
<1>3. \A i \in 1 .. Len(s \o t) : i \in 1 .. Len(s) \/ i \in Len(s) + 1 .. Len(s) + Len(t)
  BY <1>1
<1>4. ASSUME NEW what
      PROVE  Has(s \o t, what, r) <=> Has(s, what, r) \/ Has(t, what, r)
  <2>1. Has(s \o t, what, r) => Has(s, what, r) \/ Has(t, what, r)
    BY <1>1, <1>3 DEF Has
  <2>2. Has(s, what, r) => Has(s \o t, what, r)
    BY <1>1 DEF Has
  <2>3. Has(t, what, r) => Has(s \o t, what, r)
    BY <1>2 DEF Has
  <2> QED
    BY <2>1, <2>2, <2>3
<1> QED
  BY <1>4 DEF HasAny

LEMMA HasOneConcat ==
    ASSUME NEW S, NEW s \in Seq(S), NEW t \in Seq(S), NEW whats, NEW r,
           HasOne(s, whats, r), HasOne(t, whats, r), ~(HasAny(s, whats, r) /\ HasAny(t, whats, r))
    PROVE  HasOne(s \o t, whats, r)
<1> DEFINE u == s \o t
<1>1. /\ Len(u) = Len(s) + Len(t) /\ Len(s) \in Nat /\ Len(t) \in Nat
      /\ \A i \in 1 .. Len(s) : u[i] = s[i]
      /\ \A i \in 1 .. Len(u) : i \notin 1 .. Len(s) => i - Len(s) \in 1 .. Len(t) /\ u[i] = t[i - Len(s)]
  OBVIOUS
<1>2. SUFFICES ASSUME NEW i \in 1 .. Len(u), NEW j \in 1 .. Len(u),
                      u[i].do \in whats, u[j].do \in whats, u[i].req = r, u[j].req = r
               PROVE  i = j
  BY DEF HasOne
<1>3. CASE i \in 1 .. Len(s) /\ j \in 1 .. Len(s)
  BY <1>1, <1>2, <1>3 DEF HasOne
<1>4. CASE i \notin 1 .. Len(s) /\ j \notin 1 .. Len(s)
  <2>1. i - Len(s) \in 1 .. Len(t) /\ j - Len(s) \in 1 .. Len(t) /\ u[i] = t[i - Len(s)] /\ u[j] = t[j - Len(s)]
    BY <1>1, <1>4
  <2>2. i - Len(s) = j - Len(s)
    BY <1>2, <2>1 DEF HasOne
  <2> QED
    BY <1>1, <2>2
<1>5. CASE i \in 1 .. Len(s) /\ j \notin 1 .. Len(s)
  BY <1>1, <1>2, <1>5 DEF HasAny, Has
<1>6. CASE i \notin 1 .. Len(s) /\ j \in 1 .. Len(s)
  BY <1>1, <1>2, <1>6 DEF HasAny, Has
<1> QED
  BY <1>3, <1>4, <1>5, <1>6

LEMMA HasLiteral ==
    /\ \A what, r : ~Has(<<>>, what, r)
    /\ \A whats, r : HasOne(<<>>, whats, r)
    /\ \A a, what, r : Has(<<a>>, what, r) <=> a.do = what /\ a.req = r
    /\ \A a, whats, r : HasOne(<<a>>, whats, r)
    /\ \A a, b, what, r : Has(<<a, b>>, what, r) <=> (a.do = what /\ a.req = r) \/ (b.do = what /\ b.req = r)
    /\ \A a, b, whats, r :
         ~(a.do \in whats /\ a.req = r /\ b.do \in whats /\ b.req = r) => HasOne(<<a, b>>, whats, r)
<1>1. \A what, r : ~Has(<<>>, what, r)
  BY DEF Has
<1>2. \A whats, r : HasOne(<<>>, whats, r)
  BY DEF HasOne
<1>3. ASSUME NEW a, NEW r
      PROVE  /\ \A what : Has(<<a>>, what, r) <=> a.do = what /\ a.req = r
             /\ \A whats : HasOne(<<a>>, whats, r)
  <2>1. Len(<<a>>) = 1 /\ <<a>>[1] = a
    OBVIOUS
  <2> QED
    BY <2>1 DEF Has, HasOne
<1>4. ASSUME NEW a, NEW b, NEW r
      PROVE  /\ \A what : Has(<<a, b>>, what, r) <=> (a.do = what /\ a.req = r) \/ (b.do = what /\ b.req = r)
             /\ \A whats : ~(a.do \in whats /\ a.req = r /\ b.do \in whats /\ b.req = r)
                               => HasOne(<<a, b>>, whats, r)
  <2>1. Len(<<a, b>>) = 2 /\ <<a, b>>[1] = a /\ <<a, b>>[2] = b
    OBVIOUS
  <2> QED
    BY <2>1 DEF Has, HasOne
<1> QED
  BY <1>1, <1>2, <1>3, <1>4

LEMMA HasHead ==
    ASSUME NEW S, NEW s \in Seq(S), s # <<>>, NEW r
    PROVE  /\ \A what : Has(s, what, r) <=> (Head(s).do = what /\ Head(s).req = r) \/ Has(Tail(s), what, r)
           /\ \A whats : HasOne(s, whats, r) =>
                /\ HasOne(Tail(s), whats, r)
                /\ Head(s).do \in whats /\ Head(s).req = r => ~HasAny(Tail(s), whats, r)
<1>1. /\ Head(s) = s[1] /\ Len(s) \in Nat /\ Len(s) >= 1 /\ Len(Tail(s)) = Len(s) - 1
      /\ \A i \in 1 .. Len(s) - 1 : Tail(s)[i] = s[i + 1] /\ i + 1 \in 1 .. Len(s)
  OBVIOUS
<1>2. \A i \in 1 .. Len(s) : i = 1 \/ (i - 1 \in 1 .. Len(Tail(s)) /\ Tail(s)[i - 1] = s[i])
  BY <1>1
<1>3. 1 \in 1 .. Len(s)
  BY <1>1
<1>4. ASSUME NEW what
      PROVE  Has(s, what, r) <=> (Head(s).do = what /\ Head(s).req = r) \/ Has(Tail(s), what, r)
  <2>1. Has(s, what, r) => (Head(s).do = what /\ Head(s).req = r) \/ Has(Tail(s), what, r)
    BY <1>1, <1>2 DEF Has
  <2>2. (Head(s).do = what /\ Head(s).req = r) \/ Has(Tail(s), what, r) => Has(s, what, r)
    BY <1>1, <1>3 DEF Has
  <2> QED
    BY <2>1, <2>2
<1>5. ASSUME NEW whats, HasOne(s, whats, r)
      PROVE  HasOne(Tail(s), whats, r)
  <2>1. SUFFICES ASSUME NEW i \in 1 .. Len(Tail(s)), NEW j \in 1 .. Len(Tail(s)),
                        Tail(s)[i].do \in whats, Tail(s)[j].do \in whats, Tail(s)[i].req = r, Tail(s)[j].req = r
                 PROVE  i = j
    BY DEF HasOne
  <2>2. i + 1 = j + 1
    BY <1>1, <1>5, <2>1 DEF HasOne
  <2> QED
    BY <1>1, <2>2
<1>6. ASSUME NEW whats, HasOne(s, whats, r), Head(s).do \in whats, Head(s).req = r, HasAny(Tail(s), whats, r)
      PROVE  FALSE
  <2>1. PICK i \in 1 .. Len(Tail(s)) : Tail(s)[i].do \in whats /\ Tail(s)[i].req = r
    BY <1>6 DEF HasAny, Has
  <2>2. i + 1 \in 1 .. Len(s) /\ s[i + 1] = Tail(s)[i]
    BY <1>1, <2>1
  <2>3. i + 1 = 1
    BY <1>1, <1>3, <1>6, <2>1, <2>2 DEF HasOne
  <2> QED
    BY <1>1, <2>1, <2>3
<1> QED
  BY <1>4, <1>5, <1>6

\* The sets of steps that the invariants speak of, word by word.
LEMMA HasKinds ==
    ASSUME NEW steps, NEW r
    PROVE  /\ HasAny(steps, Opening, r) <=>
                 \/ Has(steps, "start", r) \/ Has(steps, "configure", r) \/ Has(steps, "judge", r)
                 \/ Has(steps, "open", r) \/ Has(steps, "send", r)
           /\ HasAny(steps, Counting, r) <=>
                 \/ Has(steps, "configure", r) \/ Has(steps, "judge", r) \/ Has(steps, "open", r)
                 \/ Has(steps, "send", r) \/ Has(steps, "abort", r) \/ Has(steps, "done", r)
           /\ HasAny(steps, Finishing, r) <=>
                 Has(steps, "convert", r) \/ Has(steps, "settle", r) \/ Has(steps, "complete", r)
           /\ HasAny(steps, Closing, r) <=>
                 \/ Has(steps, "convert", r) \/ Has(steps, "settle", r) \/ Has(steps, "complete", r)
                 \/ Has(steps, "stop", r)
           /\ HasAny(steps, Whats, r) <=>
                 \/ HasAny(steps, Opening, r) \/ HasAny(steps, Closing, r)
                 \/ Has(steps, "abort", r) \/ Has(steps, "done", r) \/ Has(steps, "evaluate", r)
                 \/ Has(steps, "sent", r)
<1>1. HasAny(steps, Opening, r) <=>
                 \/ Has(steps, "start", r) \/ Has(steps, "configure", r) \/ Has(steps, "judge", r)
                 \/ Has(steps, "open", r) \/ Has(steps, "send", r)
  BY DEF HasAny, Opening
<1>2. HasAny(steps, Counting, r) <=>
                 \/ Has(steps, "configure", r) \/ Has(steps, "judge", r) \/ Has(steps, "open", r)
                 \/ Has(steps, "send", r) \/ Has(steps, "abort", r) \/ Has(steps, "done", r)
  BY DEF HasAny, Counting, Opening
<1>3. HasAny(steps, Finishing, r) <=>
                 Has(steps, "convert", r) \/ Has(steps, "settle", r) \/ Has(steps, "complete", r)
  BY DEF HasAny, Finishing
<1>4. HasAny(steps, Closing, r) <=>
                 \/ Has(steps, "convert", r) \/ Has(steps, "settle", r) \/ Has(steps, "complete", r)
                 \/ Has(steps, "stop", r)
  BY DEF HasAny, Closing, Finishing
<1>5. HasAny(steps, Whats, r) <=>
                 \/ HasAny(steps, Opening, r) \/ HasAny(steps, Closing, r)
                 \/ Has(steps, "abort", r) \/ Has(steps, "done", r) \/ Has(steps, "evaluate", r)
                 \/ Has(steps, "sent", r)
  BY <1>1 DEF HasAny, Whats, AtOnce, Opening
<1> QED
  BY <1>1, <1>2, <1>3, <1>4, <1>5

(***************************************************************************)
(* The agenda after a step that puts "steps" in place of its head, and     *)
(* after one that puts them in front.                                      *)
(***************************************************************************)

\* Steps that an action may put on the agenda.
Proper(steps) ==
    /\ steps \in Seq(StepSpace)
    /\ \A i \in 1 .. Len(steps) :
         /\ steps[i].req = None <=> steps[i].do = "page"
         /\ steps[i].do \in {"abort", "done", "convert", "settle"} => steps[i].result # None
         /\ steps[i].do = "abort" => steps[i].result # "success"
         /\ steps[i].do \in AtOnce => i = 1
         /\ steps[i].do = "evaluate" => Len(steps) > 1 /\ steps[2].do = "convert" /\ steps[2].req = steps[1].req

\* What is done at once is not left over.
NoneAtOnce(steps) == \A i \in 1 .. Len(steps) : steps[i].do \notin AtOnce

LEMMA ProperConcat ==
    ASSUME NEW s, NEW t, Proper(s), Proper(t), NoneAtOnce(t)
    PROVE  Proper(s \o t)
<1>1. /\ Len(s \o t) = Len(s) + Len(t) /\ Len(s) \in Nat /\ Len(t) \in Nat
      /\ \A i \in 1 .. Len(s) : (s \o t)[i] = s[i]
      /\ \A i \in Len(s) + 1 .. Len(s) + Len(t) : i - Len(s) \in 1 .. Len(t) /\ (s \o t)[i] = t[i - Len(s)]
      /\ s \o t \in Seq(StepSpace)
  BY DEF Proper
<1>2. \A i \in 1 .. Len(s \o t) : i \in 1 .. Len(s) \/ i \in Len(s) + 1 .. Len(s) + Len(t)
  BY <1>1
<1>3. ASSUME NEW i \in 1 .. Len(s)
      PROVE  /\ (s \o t)[i] = s[i]
             /\ s[i].do = "evaluate" => Len(s \o t) > 1 /\ (s \o t)[2] = s[2] /\ (s \o t)[1] = s[1]
  BY <1>1 DEF Proper
<1>4. ASSUME NEW i \in 1 .. Len(t)
      PROVE  t[i].do \notin AtOnce /\ t[i].do \notin {"abort", "done", "evaluate"}
  BY DEF NoneAtOnce, AtOnce
<1>5. ASSUME NEW i \in 1 .. Len(s \o t)
      PROVE  LET st == s \o t
             IN  /\ st[i].req = None <=> st[i].do = "page"
                 /\ st[i].do \in {"abort", "done", "convert", "settle"} => st[i].result # None
                 /\ st[i].do = "abort" => st[i].result # "success"
                 /\ st[i].do \in AtOnce => i = 1
                 /\ st[i].do = "evaluate" => Len(st) > 1 /\ st[2].do = "convert" /\ st[2].req = st[1].req
  <2>1. CASE i \in 1 .. Len(s)
    BY <2>1, <1>3 DEF Proper
  <2>2. CASE i \in Len(s) + 1 .. Len(s) + Len(t)
    BY <2>2, <1>1, <1>4 DEF Proper
  <2> QED
    BY <1>2, <2>1, <2>2
<1> QED
  BY <1>1, <1>5 DEF Proper

LEMMA TailProper ==
    ASSUME AgendaInv, agenda # <<>>
    PROVE  /\ Proper(agenda) /\ Todo \in StepSpace /\ Todo = agenda[1] /\ Len(agenda) > 0
           /\ Proper(Tail(agenda))
           /\ NoneAtOnce(Tail(agenda)) /\ Tail(agenda) \in Seq(StepSpace)
           /\ Len(Tail(agenda)) = Len(agenda) - 1
           /\ \A i \in 1 .. Len(Tail(agenda)) : i + 1 \in 2 .. Len(agenda) /\ Tail(agenda)[i] = agenda[i + 1]
<1>1. agenda \in Seq(StepSpace) /\ Proper(agenda)
  BY DEF AgendaInv, Proper
<1>2. /\ Todo = agenda[1] /\ Len(agenda) \in Nat /\ Len(agenda) > 0 /\ Len(Tail(agenda)) = Len(agenda) - 1
      /\ Tail(agenda) \in Seq(StepSpace)
      /\ \A i \in 1 .. Len(Tail(agenda)) : i + 1 \in 2 .. Len(agenda) /\ i + 1 # 1 /\ Tail(agenda)[i] = agenda[i + 1]
  BY <1>1 DEF Todo
<1>3. Todo \in StepSpace
  BY <1>1, <1>2
<1>4. NoneAtOnce(Tail(agenda))
  BY <1>1, <1>2 DEF NoneAtOnce, Proper
<1>5. \A i \in 1 .. Len(Tail(agenda)) : Tail(agenda)[i].do \notin AtOnce /\ Tail(agenda)[i].do # "evaluate"
  BY <1>4 DEF NoneAtOnce, AtOnce
<1>6. Proper(Tail(agenda))
  BY <1>1, <1>2, <1>5 DEF Proper
<1> QED
  BY <1>1, <1>2, <1>3, <1>4, <1>6

LEMMA ProperAgenda ==
    /\ AgendaInv <=> Proper(agenda) /\ broken \subseteq Requests
    /\ AgendaInv' <=> Proper(agenda') /\ broken' \subseteq Requests
BY DEF AgendaInv, Proper

\* The steps "rest" follow those that an action puts on the agenda: all but its head,
\* which is a step of r, or for a call and for a task of the browser all that there are.
Follows(rest, old, r) ==
    \/ agenda # <<>> /\ rest = Tail(agenda) /\ Todo.req = r /\ old = {Todo.do}
    \/ (agenda = <<>> \/ Now("page")) /\ rest = agenda /\ old = {}

LEMMA FollowsProper ==
    ASSUME AgendaInv, NEW rest, NEW old, NEW r0, Follows(rest, old, r0)
    PROVE  /\ Proper(rest) /\ NoneAtOnce(rest) /\ rest \in Seq(StepSpace)
           /\ \A what \in AtOnce : \A r : ~Has(rest, what, r)
<1>1. CASE agenda # <<>> /\ rest = Tail(agenda)
  BY <1>1, TailProper DEF Has, NoneAtOnce
<1>2. CASE agenda = <<>> /\ rest = agenda
  BY <1>2, ProperAgenda DEF Has, NoneAtOnce, Proper
<1>3. CASE Now("page") /\ rest = agenda
  <2>1. NoneAtOnce(rest)
    BY <1>3, ProperAgenda DEF NoneAtOnce, Now, Proper, AtOnce
  <2> QED
    BY <2>1, <1>3, ProperAgenda DEF Has, NoneAtOnce, Proper
<1> QED
  BY <1>1, <1>2, <1>3 DEF Follows

(***************************************************************************)
(* A request that an action is not about stays as it is.                   *)
(***************************************************************************)

RequestInv(r) == OpeningInv(r) /\ WaitingInv(r) /\ ClosingInv(r)

SameSteps(r) ==
    /\ \A what : Has(agenda', what, r) <=> Has(agenda, what, r)
    /\ \A whats : HasOne(agenda, whats, r) => HasOne(agenda', whats, r)

SameValues(r) ==
    /\ state'[r] = state[r] /\ opts'[r] = opts[r] /\ fireGlobals'[r] = fireGlobals[r] /\ timer'[r] = timer[r]
    /\ transport'[r] = transport[r] /\ callback'[r] = callback[r] /\ net'[r] = net[r]
    /\ callbackName'[r] = callbackName[r] /\ outcome'[r] = outcome[r] /\ completed'[r] = completed[r]
    /\ r \in broken' <=> r \in broken
    /\ r \in posted' <=> r \in posted

\* A request that is counted stays so, or is left to an exception.
Counted(r) ==
    /\ fireGlobals'[r] = fireGlobals[r]
    /\ fireGlobals[r] /\ UnderWay(r)' => UnderWay(r)
    /\ fireGlobals[r] /\ UnderWay(r) => UnderWay(r)' \/ r \in broken'

LEMMA RequestStays ==
    ASSUME NEW r, RequestInv(r), SameSteps(r), SameValues(r)
    PROVE  RequestInv(r)' /\ Counted(r)
<1>1. \A whats : HasAny(agenda', whats, r) <=> HasAny(agenda, whats, r)
  BY DEF SameSteps, HasAny
<1>2. OpeningInv(r)'
  BY <1>1 DEF RequestInv, SameValues, SameSteps, OpeningInv
<1>3. WaitingInv(r)'
  BY DEF RequestInv, SameValues, SameSteps, WaitingInv
<1>4. ClosingInv(r)'
  BY <1>1 DEF RequestInv, SameValues, SameSteps, ClosingInv
<1>5. Counted(r)
  BY <1>1 DEF SameValues, Counted, UnderWay
<1> QED
  BY <1>2, <1>3, <1>4, <1>5 DEF RequestInv

(***************************************************************************)
(* The steps that actions put on the agenda.                               *)
(***************************************************************************)

\* A step of request r, with what its result has to be.
ProperStep(step) ==
    /\ step \in StepSpace /\ step.do \in Whats \ {"evaluate"} /\ step.req \in Requests
    /\ step.do \in {"abort", "done", "convert", "settle"} => step.result # None
    /\ step.do = "abort" => step.result # "success"

LEMMA ProperDo ==
    ASSUME NEW r \in Requests, NEW what \in Whats \ {"evaluate", "abort", "done", "convert", "settle"}
    PROVE  ProperStep(Do(what, r)) /\ Do(what, r).do = what /\ Do(what, r).req = r
BY DEF ProperStep, StepSpace, Do

LEMMA ProperEnds ==
    ASSUME NEW r \in Requests, NEW result \in Results,
           NEW what \in {"abort", "done", "convert", "settle"}, what = "abort" => result # "success"
    PROVE  /\ ProperStep(Ends(what, r, result)) /\ Ends(what, r, result).do = what
           /\ Ends(what, r, result).req = r /\ Ends(what, r, result).result = result
BY AjaxAssumption DEF ProperStep, StepSpace, Ends, Whats, AtOnce, Closing, Finishing

LEMMA PageStep == PageCode \in StepSpace /\ PageCode.do = "page" /\ PageCode.req = None
BY DEF PageCode, Do, StepSpace

LEMMA ProperLiterals ==
    /\ Proper(<<>>) /\ Proper(<<PageCode>>)
    /\ \A a : ProperStep(a) => Proper(<<a>>)
    /\ \A a : ProperStep(a) /\ a.do \notin AtOnce => Proper(<<PageCode, a>>)
    /\ \A a, b : ProperStep(a) /\ ProperStep(b) /\ b.do \notin AtOnce => Proper(<<a, b>>)
    /\ \A a : ProperStep(a) /\ a.do \notin AtOnce => NoneAtOnce(<<a>>)
<1>1. Proper(<<>>)
  BY DEF Proper
<1>2. PageCode.do # "evaluate" /\ PageCode.do \notin AtOnce /\ PageCode.do \notin {"abort", "done", "convert", "settle"}
  BY PageStep DEF AtOnce
<1>3. ASSUME NEW a, ProperStep(a)
      PROVE  /\ a.do # "evaluate" /\ a.do # "page" /\ a.req # None
             /\ a \in StepSpace
  BY <1>3, AjaxAssumption DEF ProperStep, Whats, Opening, Closing, Finishing, AtOnce
<1>4. Proper(<<PageCode>>)
  <2>1. Len(<<PageCode>>) = 1 /\ <<PageCode>>[1] = PageCode /\ <<PageCode>> \in Seq(StepSpace)
    BY PageStep
  <2> QED
    BY <2>1, <1>2, PageStep DEF Proper
<1>5. ASSUME NEW a, ProperStep(a)
      PROVE  Proper(<<a>>) /\ (a.do \notin AtOnce => NoneAtOnce(<<a>>))
  <2>1. Len(<<a>>) = 1 /\ <<a>>[1] = a /\ <<a>> \in Seq(StepSpace)
    BY <1>3, <1>5
  <2> QED
    BY <2>1, <1>3, <1>5 DEF Proper, ProperStep, NoneAtOnce
<1>6. ASSUME NEW a, ProperStep(a), a.do \notin AtOnce
      PROVE  Proper(<<PageCode, a>>)
  <2>1. <<PageCode, a>> = <<PageCode>> \o <<a>>
    BY PageStep, <1>3, <1>6
  <2> QED
    BY <2>1, <1>4, <1>5, <1>6, ProperConcat
<1>7. ASSUME NEW a, NEW b, ProperStep(a), ProperStep(b), b.do \notin AtOnce
      PROVE  Proper(<<a, b>>)
  <2>1. a \in StepSpace /\ b \in StepSpace
    BY <1>3, <1>7
  <2>2. Len(<<a, b>>) = 2 /\ <<a, b>>[1] = a /\ <<a, b>>[2] = b /\ <<a, b>> \in Seq(StepSpace)
    BY <2>1
  <2> QED
    BY <2>2, <1>3, <1>7 DEF Proper, ProperStep
<1> QED
  BY <1>1, <1>4, <1>5, <1>6, <1>7

\* An action puts the steps s on the agenda: "new" for request r, and functions of the page.
Puts(s, new, r) ==
    /\ Proper(s)
    /\ \A i \in 1 .. Len(s) : s[i].req \in {r, None}
    /\ \A what : Has(s, what, r) <=> what \in new
    /\ HasOne(s, Opening, r) /\ HasOne(s, Closing, r)

LEMMA PutsConcat ==
    ASSUME NEW r \in Requests, NEW s, NEW t, NEW m, NEW n, Puts(s, m, r), Puts(t, n, r), NoneAtOnce(t),
           m \cap Opening = {} \/ n \cap Opening = {}, m \cap Closing = {} \/ n \cap Closing = {}
    PROVE  Puts(s \o t, m \cup n, r)
<1>1. Proper(s \o t) /\ s \in Seq(StepSpace) /\ t \in Seq(StepSpace)
  BY ProperConcat DEF Puts, Proper
<1>2. \A i \in 1 .. Len(s \o t) : (s \o t)[i].req \in {r, None}
  <2>1. /\ Len(s \o t) = Len(s) + Len(t) /\ Len(s) \in Nat /\ Len(t) \in Nat
        /\ \A i \in 1 .. Len(s) : (s \o t)[i] = s[i]
        /\ \A i \in 1 .. Len(s \o t) : i \notin 1 .. Len(s) => i - Len(s) \in 1 .. Len(t) /\ (s \o t)[i] = t[i - Len(s)]
    BY <1>1
  <2> QED
    BY <2>1 DEF Puts
<1>3. \A what : Has(s \o t, what, r) <=> what \in m \cup n
  BY <1>1, HasConcat DEF Puts
<1>4. \A whats : HasAny(s, whats, r) => m \cap whats # {}
  BY DEF Puts, HasAny
<1>5. \A whats : HasAny(t, whats, r) => n \cap whats # {}
  BY DEF Puts, HasAny
<1>6. HasOne(s \o t, Opening, r)
  BY <1>1, <1>4, <1>5, HasOneConcat DEF Puts
<1>7. HasOne(s \o t, Closing, r)
  BY <1>1, <1>4, <1>5, HasOneConcat DEF Puts
<1> QED
  BY <1>1, <1>2, <1>3, <1>6, <1>7 DEF Puts

LEMMA HeadOf ==
    ASSUME AgendaInv, NEW what, Now(what), what # "page"
    PROVE  \E r \in Requests :
               /\ r = Todo.req /\ Follows(Tail(agenda), {what}, r) /\ Todo.result \in Results \cup {None}
               /\ what \in {"abort", "done", "convert", "settle"} => Todo.result \in Results
               /\ what = "abort" => Todo.result # "success"
<1>1. agenda # <<>> /\ Todo.do = what
  BY DEF Now, Todo
<1>2. Todo \in StepSpace /\ Todo = agenda[1] /\ Len(agenda) \in Nat /\ Len(agenda) > 0 /\ Proper(agenda)
  BY <1>1, TailProper DEF AgendaInv
<1>3. Todo.req \in Requests
  BY <1>1, <1>2 DEF Proper, StepSpace
<1>4. /\ Todo.result \in Results \cup {None}
      /\ what \in {"abort", "done", "convert", "settle"} => Todo.result \in Results
      /\ what = "abort" => Todo.result # "success"
  BY <1>1, <1>2 DEF Proper, StepSpace
<1> QED
  BY <1>1, <1>3, <1>4 DEF Follows

LEMMA PutsNothing == \A r \in Requests : Puts(<<>>, {}, r) /\ Puts(<<PageCode>>, {}, r)
BY ProperLiterals, HasLiteral, PageStep, AjaxAssumption DEF Puts

\* Functions of the page may run before what an action puts on the agenda.
LEMMA PutsAfter ==
    ASSUME NEW r \in Requests, NEW t, NEW n, Puts(t, n, r), NoneAtOnce(t)
    PROVE  Puts(<<>> \o t, n, r) /\ Puts(<<PageCode>> \o t, n, r)
<1>1. {} \cup n = n /\ {} \cap Opening = {} /\ {} \cap Closing = {}
  OBVIOUS
<1>2. Puts(<<>> \o t, {} \cup n, r) /\ Puts(<<PageCode>> \o t, {} \cup n, r)
  BY <1>1, PutsNothing, PutsConcat
<1> QED
  BY <1>1, <1>2

LEMMA PutsOne ==
    ASSUME NEW r \in Requests, NEW a, ProperStep(a), a.req = r
    PROVE  /\ Puts(<<a>>, {a.do}, r)
           /\ a.do \notin AtOnce => /\ Puts(<<PageCode, a>>, {a.do}, r)
                                    /\ Puts(<<>> \o <<a>>, {a.do}, r) /\ Puts(<<PageCode>> \o <<a>>, {a.do}, r)
<1>1. <<a>>[1] = a /\ Len(<<a>>) = 1
  OBVIOUS
<1>2. <<PageCode, a>>[1] = PageCode /\ <<PageCode, a>>[2] = a /\ Len(<<PageCode, a>>) = 2
  OBVIOUS
<1>3. \A what : Has(<<a>>, what, r) <=> what \in {a.do}
  BY HasLiteral
<1>4. PageCode.req # r
  BY PageStep, AjaxAssumption
<1>5. \A what : Has(<<PageCode, a>>, what, r) <=> what \in {a.do}
  BY <1>4, HasLiteral
<1>6. Puts(<<a>>, {a.do}, r)
  BY <1>1, <1>3, ProperLiterals, HasLiteral DEF Puts
<1>7. ASSUME a.do \notin AtOnce
      PROVE  Puts(<<PageCode, a>>, {a.do}, r)
  BY <1>2, <1>4, <1>5, <1>7, PageStep, ProperLiterals, HasLiteral DEF Puts
<1>8. ASSUME a.do \notin AtOnce
      PROVE  Puts(<<>> \o <<a>>, {a.do}, r) /\ Puts(<<PageCode>> \o <<a>>, {a.do}, r)
  BY <1>6, <1>8, ProperLiterals, PutsAfter
<1> QED
  BY <1>6, <1>7, <1>8

LEMMA PutsEnds ==
    ASSUME NEW r \in Requests, NEW result \in Results,
           NEW what \in {"abort", "done", "convert", "settle"}, what = "abort" => result # "success"
    PROVE  /\ Puts(<<Ends(what, r, result)>>, {what}, r)
           /\ what \notin AtOnce =>
                /\ Puts(<<>> \o <<Ends(what, r, result)>>, {what}, r)
                /\ Puts(<<PageCode>> \o <<Ends(what, r, result)>>, {what}, r)
<1> DEFINE a == Ends(what, r, result)
<1>1. ProperStep(a) /\ a.do = what /\ a.req = r
  BY ProperEnds
<1> QED
  BY <1>1, PutsOne

LEMMA PutsTwo ==
    ASSUME NEW r \in Requests, NEW a, NEW b, ProperStep(a), ProperStep(b), a.req = r, b.req = r,
           b.do \notin AtOnce \cup Opening \cup Closing
    PROVE  Puts(<<a, b>>, {a.do, b.do}, r)
<1>1. <<a, b>>[1] = a /\ <<a, b>>[2] = b /\ Len(<<a, b>>) = 2
  OBVIOUS
<1>2. \A what : Has(<<a, b>>, what, r) <=> what \in {a.do, b.do}
  BY HasLiteral
<1> QED
  BY <1>1, <1>2, ProperLiterals, HasLiteral DEF Puts

\* A script that came as a text is evaluated before the conversion.
LEMMA PutsEvaluate ==
    ASSUME NEW r \in Requests, NEW result \in Results
    PROVE  Puts(<<Do("evaluate", r)>> \o <<Ends("convert", r, result)>>, {"evaluate", "convert"}, r)
<1> DEFINE a == Do("evaluate", r)
           b == Ends("convert", r, result)
           s == <<a>> \o <<b>>
<1>1. /\ a \in StepSpace /\ a.do = "evaluate" /\ a.req = r
      /\ b \in StepSpace /\ b.do = "convert" /\ b.req = r /\ b.result = result /\ result # None /\ r # None
  BY AjaxAssumption DEF Do, Ends, StepSpace, Whats, Closing, Finishing, AtOnce
<1> HIDE DEF a, b
<1>2. <<a>> \in Seq(StepSpace) /\ <<b>> \in Seq(StepSpace)
  BY <1>1
<1>3. s \in Seq(StepSpace) /\ Len(s) = 2 /\ s[1] = a /\ s[2] = b
  BY <1>2
<1>4. Proper(s)
  BY <1>1, <1>3 DEF Proper, AtOnce
<1>5. \A what : Has(s, what, r) <=> what \in {"evaluate", "convert"}
  <2>1. \A what : Has(s, what, r) <=> Has(<<a>>, what, r) \/ Has(<<b>>, what, r)
    BY <1>2, HasConcat
  <2>2. \A what : Has(<<a>>, what, r) <=> what = "evaluate"
    BY <1>1, HasLiteral
  <2>3. \A what : Has(<<b>>, what, r) <=> what = "convert"
    BY <1>1, HasLiteral
  <2> QED
    BY <2>1, <2>2, <2>3
<1>6. HasOne(s, Opening, r) /\ HasOne(s, Closing, r)
  BY <1>1, <1>3 DEF HasOne, Opening, Closing, Finishing
<1> QED
  BY <1>1, <1>3, <1>4, <1>5, <1>6 DEF Puts, a, b

(***************************************************************************)
(* Every action keeps the agenda in shape, and each request in step with   *)
(* what the agenda has in store for it.                                    *)
(***************************************************************************)

Sound == TypeOK /\ AgendaInv /\ \A r \in Requests : RequestInv(r)

Kept == AgendaInv' /\ \A r \in Requests : RequestInv(r)' /\ Counted(r)

\* The steps of request r before and after an action.
View(old, new, rest, r) ==
    /\ \A what : Has(agenda, what, r) <=> what \in old \/ Has(rest, what, r)
    /\ \A what : Has(agenda', what, r) <=> what \in new \/ Has(rest, what, r)
    /\ HasOne(agenda', Opening, r) /\ HasOne(agenda', Closing, r)
    /\ old \cap Opening # {} => ~HasAny(rest, Opening, r)
    /\ old \cap Closing # {} => ~HasAny(rest, Closing, r)
    /\ \A what \in AtOnce : ~Has(rest, what, r)

LEMMA Viewed ==
    ASSUME AgendaInv, NEW r \in Requests, RequestInv(r), NEW s, NEW new, Puts(s, new, r),
           NEW rest, NEW old, Follows(rest, old, r), agenda' = s \o rest,
           new \cap Opening # {} => old \cap Opening # {} \/ ~HasAny(agenda, Opening, r),
           new \cap Closing # {} => old \cap Closing # {} \/ state[r] # 2
    PROVE  View(old, new, rest, r)
<1>1. /\ HasOne(agenda, Opening, r) /\ HasOne(agenda, Closing, r) /\ (state[r] # 2 => ~HasAny(agenda, Closing, r))
      /\ agenda \in Seq(StepSpace) /\ rest \in Seq(StepSpace) /\ s \in Seq(StepSpace)
  BY FollowsProper DEF RequestInv, OpeningInv, ClosingInv, AgendaInv, Puts, Proper
<1>2. /\ \A what : Has(agenda, what, r) <=> what \in old \/ Has(rest, what, r)
      /\ \A whats : HasOne(agenda, whats, r) => HasOne(rest, whats, r)
      /\ \A whats : HasOne(agenda, whats, r) /\ old \cap whats # {} => ~HasAny(rest, whats, r)
  <2>1. CASE rest = agenda /\ old = {}
    BY <2>1
  <2>2. CASE agenda # <<>> /\ rest = Tail(agenda) /\ Todo.req = r /\ old = {Todo.do}
    BY <1>1, <2>2, HasHead DEF Todo
  <2> QED
    BY <2>1, <2>2 DEF Follows
<1>3. \A whats : HasAny(rest, whats, r) => HasAny(agenda, whats, r)
  BY <1>2 DEF HasAny
<1>4. \A whats : HasAny(s, whats, r) => new \cap whats # {}
  BY DEF HasAny, Puts
<1>5. HasOne(agenda', Opening, r)
  BY <1>1, <1>2, <1>3, <1>4, HasOneConcat DEF Puts
<1>6. HasOne(agenda', Closing, r)
  BY <1>1, <1>2, <1>3, <1>4, HasOneConcat DEF Puts
<1>7. \A what : Has(agenda', what, r) <=> what \in new \/ Has(rest, what, r)
  BY <1>1, HasConcat DEF Puts
<1> QED
  BY <1>1, <1>2, <1>5, <1>6, <1>7, FollowsProper DEF View

\* What all actions that are about a request r0 have in common.
LEMMA Framed ==
    ASSUME Sound, NEW r0 \in Requests, NEW s, NEW new, Puts(s, new, r0),
           NEW rest, NEW old, Follows(rest, old, r0), agenda' = s \o rest,
           new \cap Opening # {} => old \cap Opening # {} \/ ~HasAny(agenda, Opening, r0),
           new \cap Closing # {} => old \cap Closing # {} \/ state[r0] # 2,
           broken' = broken, \A r \in Requests \ {r0} : SameValues(r)
    PROVE  /\ AgendaInv' /\ View(old, new, rest, r0)
           /\ \A r \in Requests \ {r0} : RequestInv(r)' /\ Counted(r)
<1>1. AgendaInv'
  BY FollowsProper, ProperConcat, ProperAgenda DEF Sound, Puts
<1>2. ASSUME NEW r \in Requests, r # r0
      PROVE  SameSteps(r)
  <2>1. /\ agenda \in Seq(StepSpace) /\ rest \in Seq(StepSpace) /\ s \in Seq(StepSpace)
        /\ \A i \in 1 .. Len(s) : s[i].req # r
    BY <1>2, FollowsProper, AjaxAssumption DEF Sound, AgendaInv, Puts, Proper
  <2>2. /\ \A what : ~Has(s, what, r)
        /\ \A whats : ~HasAny(s, whats, r) /\ HasOne(s, whats, r)
    BY <2>1 DEF Has, HasAny, HasOne
  <2>3. /\ \A what : Has(agenda, what, r) <=> Has(rest, what, r)
        /\ \A whats : HasOne(agenda, whats, r) => HasOne(rest, whats, r)
    <3>1. CASE rest = agenda
      BY <3>1
    <3>2. CASE agenda # <<>> /\ rest = Tail(agenda) /\ Todo.req = r0
      BY <2>1, <3>2, <1>2, HasHead DEF Todo
    <3> QED
      BY <3>1, <3>2 DEF Follows
  <2> QED
    BY <2>1, <2>2, <2>3, HasConcat, HasOneConcat DEF SameSteps
<1>3. ASSUME NEW r \in Requests, r # r0
      PROVE  RequestInv(r)' /\ Counted(r)
  BY <1>2, <1>3, RequestStays DEF Sound
<1>4. View(old, new, rest, r0)
  BY Viewed DEF Sound
<1> QED
  BY <1>1, <1>3, <1>4

\* An action has put its steps in place of the head of the agenda.
Placed(new, r) == \E s : Puts(s, new, r) /\ agenda' = s \o Tail(agenda)

LEMMA ConfigureKeeps ==
    ASSUME Sound, Configure
    PROVE  Kept
<1>1. PICK r0 \in Requests :
         /\ r0 = Todo.req /\ Follows(Tail(agenda), {"configure"}, r0) /\ RequestInv(r0)
         /\ Now("configure")
  BY HeadOf DEF Sound, Configure
<1>2. PICK new : Placed(new, r0) /\ (new = {"judge"} \/ new = {"open"})
  <2>1. Puts(<<PageCode, Do("judge", r0)>>, {"judge"}, r0) /\ Puts(<<Do("open", r0)>>, {"open"}, r0)
    BY ProperDo, PutsOne DEF Whats, Opening, Closing, Finishing, AtOnce
  <2> QED
    BY <1>1, <2>1 DEF Placed, Configure, Then
<1>3. \A r \in Requests \ {r0} : SameValues(r)
  BY <1>1 DEF SameValues, Configure, lifecycle, link, jsonp, results
<1>4. AgendaInv' /\ View({"configure"}, new, Tail(agenda), r0) /\ \A r \in Requests \ {r0} : RequestInv(r)' /\ Counted(r)
  <2>1. broken' = broken
    BY DEF Configure
  <2>2. /\ new \cap Opening # {} => {"configure"} \cap Opening # {}
        /\ new \cap Closing # {} => {"configure"} \cap Closing # {} \/ state[r0] # 2
    BY <1>2 DEF Opening, Closing, Finishing
  <2>3. Follows(Tail(agenda), {"configure"}, r0)
    BY <1>1
  <2>4. PICK s : Puts(s, new, r0) /\ agenda' = s \o Tail(agenda)
    BY <1>2 DEF Placed
  <2> QED
    BY <1>3, <2>1, <2>2, <2>3, <2>4, Framed
<1>5. /\ \A what : Has(agenda, what, r0) <=> what = "configure" \/ Has(Tail(agenda), what, r0)
      /\ \A what : Has(agenda', what, r0) <=> what \in new \/ Has(Tail(agenda), what, r0)
      /\ HasOne(agenda', Opening, r0) /\ HasOne(agenda', Closing, r0)
      /\ \A what \in AtOnce : ~Has(Tail(agenda), what, r0)
      /\ ~HasAny(Tail(agenda), Opening, r0)
  BY <1>4 DEF View, Opening, Closing, Finishing
<1>6. /\ HasAny(agenda, Opening, r0) /\ HasAny(agenda', Opening, r0) /\ HasAny(agenda, Counting, r0)
      /\ HasAny(agenda', Counting, r0) /\ (HasAny(agenda', Finishing, r0) <=> HasAny(agenda, Finishing, r0))
      /\ (HasAny(agenda', Closing, r0) <=> HasAny(agenda, Closing, r0)) /\ ~Has(agenda', "start", r0)
      /\ ~Has(agenda', "send", r0) /\ ~Has(agenda', "done", r0)
      /\ (Has(agenda', "convert", r0) <=> Has(agenda, "convert", r0))
      /\ (Has(agenda', "settle", r0) <=> Has(agenda, "settle", r0))
      /\ (Has(agenda', "stop", r0) <=> Has(agenda, "stop", r0)) /\ HasAny(agenda, Whats, r0)
  BY <1>2, <1>5, HasKinds DEF AtOnce
<1>7. opts[r0] # None /\ state[r0] \in 0 .. 2 /\ state[r0] # 1
  BY <1>1, <1>6 DEF Sound, TypeOK, RequestInv, OpeningInv, ClosingInv
<1>8. SameValues(r0)
  BY <1>1 DEF SameValues, Configure, lifecycle, link, jsonp, results
<1>9. OpeningInv(r0)'
  BY <1>1, <1>2, <1>5, <1>6, <1>7, <1>8 DEF RequestInv, OpeningInv, SameValues
<1>10. WaitingInv(r0)'
  BY <1>1, <1>2, <1>6, <1>7, <1>8 DEF RequestInv, WaitingInv, SameValues
<1>11. ClosingInv(r0)' /\ Counted(r0)
  BY <1>1, <1>2, <1>5, <1>6, <1>7, <1>8 DEF RequestInv, ClosingInv, Counted, UnderWay, SameValues
<1> QED
  BY <1>4, <1>9, <1>10, <1>11 DEF Kept, RequestInv

LEMMA JudgeKeeps ==
    ASSUME Sound, Judge
    PROVE  Kept
<1>1. PICK r0 \in Requests :
         /\ r0 = Todo.req /\ Follows(Tail(agenda), {"judge"}, r0) /\ RequestInv(r0)
         /\ Now("judge")
  BY HeadOf DEF Sound, Judge
<1>2. PICK new : Placed(new, r0) /\ (new = {"open"} \/ new = {"abort"})
  <2>1. Puts(<<Do("open", r0)>>, {"open"}, r0)
    BY ProperDo, PutsOne DEF Whats, Opening, Closing, Finishing, AtOnce
  <2>2. "canceled" \in Results
    BY DEF Results
  <2>3. Puts(<<Ends("abort", r0, "canceled")>>, {"abort"}, r0)
    BY <2>2, PutsEnds
  <2> QED
    BY <1>1, <2>1, <2>2, <2>3 DEF Placed, Judge, Then
<1>3. \A r \in Requests \ {r0} : SameValues(r)
  BY <1>1 DEF SameValues, Judge, lifecycle, link, jsonp, results
<1>4. AgendaInv' /\ View({"judge"}, new, Tail(agenda), r0) /\ \A r \in Requests \ {r0} : RequestInv(r)' /\ Counted(r)
  <2>1. broken' = broken
    BY DEF Judge
  <2>2. /\ new \cap Opening # {} => {"judge"} \cap Opening # {}
        /\ new \cap Closing # {} => {"judge"} \cap Closing # {} \/ state[r0] # 2
    BY <1>2 DEF Opening, Closing, Finishing
  <2>3. Follows(Tail(agenda), {"judge"}, r0)
    BY <1>1
  <2>4. PICK s : Puts(s, new, r0) /\ agenda' = s \o Tail(agenda)
    BY <1>2 DEF Placed
  <2> QED
    BY <1>3, <2>1, <2>2, <2>3, <2>4, Framed
<1>5. /\ \A what : Has(agenda, what, r0) <=> what = "judge" \/ Has(Tail(agenda), what, r0)
      /\ \A what : Has(agenda', what, r0) <=> what \in new \/ Has(Tail(agenda), what, r0)
      /\ HasOne(agenda', Opening, r0) /\ HasOne(agenda', Closing, r0)
      /\ \A what \in AtOnce : ~Has(Tail(agenda), what, r0)
      /\ ~HasAny(Tail(agenda), Opening, r0)
  BY <1>4 DEF View, Opening, Closing, Finishing
<1>6. /\ HasAny(agenda, Opening, r0) /\ HasAny(agenda, Counting, r0) /\ HasAny(agenda', Counting, r0)
      /\ (HasAny(agenda', Finishing, r0) <=> HasAny(agenda, Finishing, r0))
      /\ (HasAny(agenda', Closing, r0) <=> HasAny(agenda, Closing, r0)) /\ ~Has(agenda', "start", r0)
      /\ ~Has(agenda', "send", r0) /\ ~Has(agenda', "done", r0)
      /\ (Has(agenda', "convert", r0) <=> Has(agenda, "convert", r0))
      /\ (Has(agenda', "settle", r0) <=> Has(agenda, "settle", r0))
      /\ (Has(agenda', "stop", r0) <=> Has(agenda, "stop", r0)) /\ HasAny(agenda, Whats, r0)
  BY <1>2, <1>5, HasKinds DEF AtOnce
<1>7. opts[r0] # None /\ state[r0] \in 0 .. 2 /\ state[r0] # 1
  BY <1>1, <1>6 DEF Sound, TypeOK, RequestInv, OpeningInv, ClosingInv
<1>8. SameValues(r0)
  BY <1>1 DEF SameValues, Judge, lifecycle, link, jsonp, results
<1>9. OpeningInv(r0)'
  BY <1>1, <1>2, <1>5, <1>6, <1>7, <1>8 DEF RequestInv, OpeningInv, SameValues
<1>10. WaitingInv(r0)'
  BY <1>1, <1>2, <1>6, <1>7, <1>8 DEF RequestInv, WaitingInv, SameValues
<1>11. ClosingInv(r0)' /\ Counted(r0)
  BY <1>1, <1>2, <1>5, <1>6, <1>7, <1>8 DEF RequestInv, ClosingInv, Counted, UnderWay, SameValues
<1> QED
  BY <1>4, <1>9, <1>10, <1>11 DEF Kept, RequestInv

LEMMA SendNothingKeeps ==
    ASSUME Sound, SendNothing
    PROVE  Kept
<1>1. PICK r0 \in Requests :
         /\ r0 = Todo.req /\ Follows(Tail(agenda), {"send"}, r0) /\ RequestInv(r0)
         /\ Now("send")
  BY HeadOf DEF Sound, SendNothing
<1>2. PICK new : Placed(new, r0) /\ new = {} /\ state[r0] = 2
  <2>1. Puts(<<>>, {}, r0)
    BY PutsNothing
  <2> QED
    BY <1>1, <2>1 DEF Placed, SendNothing, Then
<1>3. \A r \in Requests \ {r0} : SameValues(r)
  BY <1>1 DEF SameValues, SendNothing, lifecycle, link, jsonp, results
<1>4. AgendaInv' /\ View({"send"}, new, Tail(agenda), r0) /\ \A r \in Requests \ {r0} : RequestInv(r)' /\ Counted(r)
  <2>1. broken' = broken
    BY DEF SendNothing
  <2>2. /\ new \cap Opening # {} => {"send"} \cap Opening # {}
        /\ new \cap Closing # {} => {"send"} \cap Closing # {} \/ state[r0] # 2
    BY <1>2 DEF Opening, Closing, Finishing
  <2>3. Follows(Tail(agenda), {"send"}, r0)
    BY <1>1
  <2>4. PICK s : Puts(s, new, r0) /\ agenda' = s \o Tail(agenda)
    BY <1>2 DEF Placed
  <2> QED
    BY <1>3, <2>1, <2>2, <2>3, <2>4, Framed
<1>5. /\ \A what : Has(agenda, what, r0) <=> what = "send" \/ Has(Tail(agenda), what, r0)
      /\ \A what : Has(agenda', what, r0) <=> what \in new \/ Has(Tail(agenda), what, r0)
      /\ HasOne(agenda', Opening, r0) /\ HasOne(agenda', Closing, r0)
      /\ \A what \in AtOnce : ~Has(Tail(agenda), what, r0)
      /\ ~HasAny(Tail(agenda), Opening, r0)
  BY <1>4 DEF View, Opening, Closing, Finishing
<1>6. /\ HasAny(agenda, Opening, r0) /\ ~HasAny(agenda', Opening, r0) /\ HasAny(agenda, Counting, r0)
      /\ ~HasAny(agenda', Counting, r0) /\ (HasAny(agenda', Finishing, r0) <=> HasAny(agenda, Finishing, r0))
      /\ (HasAny(agenda', Closing, r0) <=> HasAny(agenda, Closing, r0)) /\ ~Has(agenda', "start", r0)
      /\ ~Has(agenda', "send", r0) /\ Has(agenda, "send", r0) /\ ~Has(agenda', "done", r0)
      /\ (Has(agenda', "convert", r0) <=> Has(agenda, "convert", r0))
      /\ (Has(agenda', "settle", r0) <=> Has(agenda, "settle", r0))
      /\ (Has(agenda', "stop", r0) <=> Has(agenda, "stop", r0)) /\ HasAny(agenda, Whats, r0)
  BY <1>2, <1>5, HasKinds DEF AtOnce
<1>7. opts[r0] # None /\ state[r0] \in 0 .. 2 /\ state[r0] # 1
  BY <1>1, <1>6 DEF Sound, TypeOK, RequestInv, OpeningInv, ClosingInv
<1>8. SameValues(r0)
  BY <1>1 DEF SameValues, SendNothing, lifecycle, link, jsonp, results
<1>9. OpeningInv(r0)'
  BY <1>1, <1>2, <1>5, <1>6, <1>7, <1>8 DEF RequestInv, OpeningInv, SameValues
<1>10. WaitingInv(r0)'
  BY <1>1, <1>2, <1>6, <1>7, <1>8 DEF RequestInv, WaitingInv, SameValues
<1>11. ClosingInv(r0)' /\ Counted(r0)
  BY <1>1, <1>2, <1>5, <1>6, <1>7, <1>8 DEF RequestInv, ClosingInv, Counted, UnderWay, SameValues
<1> QED
  BY <1>4, <1>9, <1>10, <1>11 DEF Kept, RequestInv

LEMMA SentKeeps ==
    ASSUME Sound, Sent
    PROVE  Kept
<1>1. PICK r0 \in Requests :
         /\ r0 = Todo.req /\ Follows(Tail(agenda), {"sent"}, r0) /\ RequestInv(r0)
         /\ Now("sent")
  BY HeadOf DEF Sound, Sent
<1>2. PICK new : Placed(new, r0) /\ new = {}
  <2>1. Puts(<<>>, {}, r0)
    BY PutsNothing
  <2> QED
    BY <1>1, <2>1 DEF Placed, Sent, Then
<1>3. \A r \in Requests \ {r0} : SameValues(r)
  BY <1>1 DEF SameValues, Sent, lifecycle, link, jsonp, results
<1>4. AgendaInv' /\ View({"sent"}, new, Tail(agenda), r0) /\ \A r \in Requests \ {r0} : RequestInv(r)' /\ Counted(r)
  <2>1. broken' = broken
    BY DEF Sent
  <2>2. /\ new \cap Opening # {} => {"sent"} \cap Opening # {}
        /\ new \cap Closing # {} => {"sent"} \cap Closing # {} \/ state[r0] # 2
    BY <1>2 DEF Opening, Closing, Finishing
  <2>3. Follows(Tail(agenda), {"sent"}, r0)
    BY <1>1
  <2>4. PICK s : Puts(s, new, r0) /\ agenda' = s \o Tail(agenda)
    BY <1>2 DEF Placed
  <2> QED
    BY <1>3, <2>1, <2>2, <2>3, <2>4, Framed
<1>5. /\ \A what : Has(agenda, what, r0) <=> what = "sent" \/ Has(Tail(agenda), what, r0)
      /\ \A what : Has(agenda', what, r0) <=> what \in new \/ Has(Tail(agenda), what, r0)
      /\ HasOne(agenda', Opening, r0) /\ HasOne(agenda', Closing, r0)
      /\ \A what \in AtOnce : ~Has(Tail(agenda), what, r0)
  BY <1>4 DEF View, Opening, Closing, Finishing
<1>6. /\ (HasAny(agenda', Opening, r0) <=> HasAny(agenda, Opening, r0))
      /\ (HasAny(agenda', Counting, r0) <=> HasAny(agenda, Counting, r0))
      /\ (HasAny(agenda', Finishing, r0) <=> HasAny(agenda, Finishing, r0))
      /\ (HasAny(agenda', Closing, r0) <=> HasAny(agenda, Closing, r0))
      /\ (Has(agenda', "start", r0) <=> Has(agenda, "start", r0))
      /\ (Has(agenda', "send", r0) <=> Has(agenda, "send", r0)) /\ ~Has(agenda', "done", r0)
      /\ (Has(agenda', "convert", r0) <=> Has(agenda, "convert", r0))
      /\ (Has(agenda', "settle", r0) <=> Has(agenda, "settle", r0))
      /\ (Has(agenda', "stop", r0) <=> Has(agenda, "stop", r0)) /\ HasAny(agenda, Whats, r0)
  BY <1>2, <1>5, HasKinds DEF AtOnce
<1>7. opts[r0] # None /\ state[r0] \in 0 .. 2
  BY <1>1, <1>6 DEF Sound, TypeOK, RequestInv, OpeningInv, ClosingInv
<1>8. SameValues(r0)
  BY <1>1 DEF SameValues, Sent, lifecycle, link, jsonp, results
<1>9. OpeningInv(r0)'
  BY <1>1, <1>2, <1>5, <1>6, <1>7, <1>8 DEF RequestInv, OpeningInv, SameValues
<1>10. WaitingInv(r0)'
  BY <1>1, <1>2, <1>6, <1>7, <1>8 DEF RequestInv, WaitingInv, SameValues
<1>11. ClosingInv(r0)' /\ Counted(r0)
  BY <1>1, <1>2, <1>5, <1>6, <1>7, <1>8 DEF RequestInv, ClosingInv, Counted, UnderWay, SameValues
<1> QED
  BY <1>4, <1>9, <1>10, <1>11 DEF Kept, RequestInv

LEMMA OpenKeeps ==
    ASSUME Sound, Open
    PROVE  Kept
<1>1. PICK r0 \in Requests :
         /\ r0 = Todo.req /\ Follows(Tail(agenda), {"open"}, r0) /\ RequestInv(r0)
         /\ Now("open")
  BY HeadOf DEF Sound, Open
<1>2. PICK new : Placed(new, r0) /\ ((Found(r0) /\ new = {"send"}) \/ (~Found(r0) /\ new = {"done"}))
  <2>1. Puts(<<PageCode, Do("send", r0)>>, {"send"}, r0) /\ Puts(<<Do("send", r0)>>, {"send"}, r0)
    BY ProperDo, PutsOne DEF Whats, Opening, Closing, Finishing, AtOnce
  <2>2. "error" \in Results
    BY DEF Results
  <2>3. Puts(<<Ends("done", r0, "error")>>, {"done"}, r0)
    BY <2>2, PutsEnds
  <2>4. CASE Found(r0)
    <3>1. agenda' = <<PageCode, Do("send", r0)>> \o Tail(agenda) \/ agenda' = <<Do("send", r0)>> \o Tail(agenda)
      BY <1>1, <2>4 DEF Open, Then
    <3>2. Placed({"send"}, r0)
      BY <3>1, <2>1, <2>2, <2>3 DEF Placed
    <3> QED
      BY <2>4, <3>2
  <2>5. CASE ~Found(r0)
    <3>1. agenda' = <<Ends("done", r0, "error")>> \o Tail(agenda)
      BY <1>1, <2>5 DEF Open, Then
    <3>2. Placed({"done"}, r0)
      BY <3>1, <2>1, <2>2, <2>3 DEF Placed
    <3> QED
      BY <2>5, <3>2
  <2> QED
    BY <2>4, <2>5
<1>3. \A r \in Requests \ {r0} : SameValues(r)
  BY <1>1 DEF Sound, TypeOK, SameValues, Open, lifecycle, link, jsonp, results
<1>4. AgendaInv' /\ View({"open"}, new, Tail(agenda), r0) /\ \A r \in Requests \ {r0} : RequestInv(r)' /\ Counted(r)
  <2>1. broken' = broken
    BY DEF Open
  <2>2. /\ new \cap Opening # {} => {"open"} \cap Opening # {}
        /\ new \cap Closing # {} => {"open"} \cap Closing # {} \/ state[r0] # 2
    BY <1>2 DEF Opening, Closing, Finishing
  <2>3. Follows(Tail(agenda), {"open"}, r0)
    BY <1>1
  <2>4. PICK s : Puts(s, new, r0) /\ agenda' = s \o Tail(agenda)
    BY <1>2 DEF Placed
  <2> QED
    BY <1>3, <2>1, <2>2, <2>3, <2>4, Framed
<1>5. /\ \A what : Has(agenda, what, r0) <=> what = "open" \/ Has(Tail(agenda), what, r0)
      /\ \A what : Has(agenda', what, r0) <=> what \in new \/ Has(Tail(agenda), what, r0)
      /\ HasOne(agenda', Opening, r0) /\ HasOne(agenda', Closing, r0)
      /\ \A what \in AtOnce : ~Has(Tail(agenda), what, r0)
      /\ ~HasAny(Tail(agenda), Opening, r0)
  BY <1>4 DEF View, Opening, Closing, Finishing
<1>6. /\ HasAny(agenda, Opening, r0) /\ (Found(r0) => HasAny(agenda', Opening, r0))
      /\ (~Found(r0) => ~HasAny(agenda', Opening, r0)) /\ HasAny(agenda, Counting, r0)
      /\ HasAny(agenda', Counting, r0) /\ (HasAny(agenda', Finishing, r0) <=> HasAny(agenda, Finishing, r0))
      /\ (HasAny(agenda', Closing, r0) <=> HasAny(agenda, Closing, r0)) /\ ~Has(agenda', "start", r0)
      /\ (Found(r0) => Has(agenda', "send", r0)) /\ (~Found(r0) => ~Has(agenda', "send", r0))
      /\ (Found(r0) => ~Has(agenda', "done", r0)) /\ (~Found(r0) => Has(agenda', "done", r0))
      /\ (Has(agenda', "convert", r0) <=> Has(agenda, "convert", r0))
      /\ (Has(agenda', "settle", r0) <=> Has(agenda, "settle", r0))
      /\ (Has(agenda', "stop", r0) <=> Has(agenda, "stop", r0)) /\ HasAny(agenda, Whats, r0)
  BY <1>2, <1>5, HasKinds DEF AtOnce
<1>7. opts[r0] # None /\ state[r0] \in 0 .. 2 /\ state[r0] # 1
  BY <1>1, <1>6 DEF Sound, TypeOK, RequestInv, OpeningInv, ClosingInv
<1>8. /\ state'[r0] = state[r0] /\ opts'[r0] = opts[r0] /\ fireGlobals'[r0] = fireGlobals[r0]
      /\ timer'[r0] = timer[r0] /\ transport'[r0] = Found(r0) /\ callback'[r0] = callback[r0]
      /\ net'[r0] = net[r0] /\ callbackName'[r0] = callbackName[r0] /\ outcome'[r0] = outcome[r0]
      /\ completed'[r0] = completed[r0] /\ (r0 \in posted' <=> r0 \in posted)
      /\ (r0 \in broken' <=> r0 \in broken)
  BY <1>1 DEF Sound, TypeOK, SameValues, Open, lifecycle, link, jsonp, results
<1>9. OpeningInv(r0)'
  BY <1>1, <1>2, <1>5, <1>6, <1>7, <1>8 DEF RequestInv, OpeningInv
<1>10. WaitingInv(r0)'
  BY <1>1, <1>2, <1>6, <1>7, <1>8 DEF RequestInv, WaitingInv
<1>11. ClosingInv(r0)' /\ Counted(r0)
  BY <1>1, <1>2, <1>5, <1>6, <1>7, <1>8 DEF RequestInv, ClosingInv, Counted, UnderWay
<1> QED
  BY <1>4, <1>9, <1>10, <1>11 DEF Kept, RequestInv

LEMMA SendKeeps ==
    ASSUME Sound, Send
    PROVE  Kept
<1>1. PICK r0 \in Requests :
         /\ r0 = Todo.req /\ Follows(Tail(agenda), {"send"}, r0) /\ RequestInv(r0)
         /\ Now("send")
  BY HeadOf DEF Sound, Send
<1>2. PICK new : Placed(new, r0) /\ new = {} /\ state[r0] # 2
  <2>1. Puts(<<>>, {}, r0)
    BY PutsNothing
  <2> QED
    BY <1>1, <2>1 DEF Placed, Send, SendWith, Then
<1>3. \A r \in Requests \ {r0} : SameValues(r)
  BY <1>1 DEF Sound, TypeOK, SameValues, Send, SendWith, lifecycle, link, jsonp, results
<1>4. AgendaInv' /\ View({"send"}, new, Tail(agenda), r0) /\ \A r \in Requests \ {r0} : RequestInv(r)' /\ Counted(r)
  <2>1. broken' = broken
    BY DEF Send, SendWith
  <2>2. /\ new \cap Opening # {} => {"send"} \cap Opening # {}
        /\ new \cap Closing # {} => {"send"} \cap Closing # {} \/ state[r0] # 2
    BY <1>2 DEF Opening, Closing, Finishing
  <2>3. Follows(Tail(agenda), {"send"}, r0)
    BY <1>1
  <2>4. PICK s : Puts(s, new, r0) /\ agenda' = s \o Tail(agenda)
    BY <1>2 DEF Placed
  <2> QED
    BY <1>3, <2>1, <2>2, <2>3, <2>4, Framed
<1>5. /\ \A what : Has(agenda, what, r0) <=> what = "send" \/ Has(Tail(agenda), what, r0)
      /\ \A what : Has(agenda', what, r0) <=> what \in new \/ Has(Tail(agenda), what, r0)
      /\ HasOne(agenda', Opening, r0) /\ HasOne(agenda', Closing, r0)
      /\ \A what \in AtOnce : ~Has(Tail(agenda), what, r0)
      /\ ~HasAny(Tail(agenda), Opening, r0)
  BY <1>4 DEF View, Opening, Closing, Finishing
<1>6. /\ HasAny(agenda, Opening, r0) /\ ~HasAny(agenda', Opening, r0) /\ HasAny(agenda, Counting, r0)
      /\ ~HasAny(agenda', Counting, r0) /\ (HasAny(agenda', Finishing, r0) <=> HasAny(agenda, Finishing, r0))
      /\ (HasAny(agenda', Closing, r0) <=> HasAny(agenda, Closing, r0)) /\ ~Has(agenda', "start", r0)
      /\ ~Has(agenda', "send", r0) /\ Has(agenda, "send", r0) /\ ~Has(agenda', "done", r0)
      /\ (Has(agenda', "convert", r0) <=> Has(agenda, "convert", r0))
      /\ (Has(agenda', "settle", r0) <=> Has(agenda, "settle", r0))
      /\ (Has(agenda', "stop", r0) <=> Has(agenda, "stop", r0)) /\ HasAny(agenda, Whats, r0)
  BY <1>2, <1>5, HasKinds DEF AtOnce
<1>7. opts[r0] # None /\ state[r0] \in 0 .. 2 /\ state[r0] # 1
  BY <1>1, <1>6 DEF Sound, TypeOK, RequestInv, OpeningInv, ClosingInv
<1>8. /\ state'[r0] = 1 /\ opts'[r0] = opts[r0] /\ fireGlobals'[r0] = fireGlobals[r0]
      /\ timer'[r0] = Timed(r0) /\ transport'[r0] = transport[r0] /\ callback'[r0] = TRUE
      /\ net'[r0] = "sent" /\ callbackName'[r0] = callbackName[r0] /\ outcome'[r0] = outcome[r0]
      /\ completed'[r0] = completed[r0] /\ (r0 \in posted' <=> r0 \in posted)
      /\ (r0 \in broken' <=> r0 \in broken)
  BY <1>1 DEF Sound, TypeOK, SameValues, Send, SendWith, lifecycle, link, jsonp, results
<1>9. OpeningInv(r0)'
  BY <1>1, <1>2, <1>5, <1>6, <1>7, <1>8 DEF RequestInv, OpeningInv
<1>10. WaitingInv(r0)'
  BY <1>1, <1>2, <1>6, <1>7, <1>8 DEF RequestInv, WaitingInv
<1>11. ClosingInv(r0)' /\ Counted(r0)
  BY <1>1, <1>2, <1>5, <1>6, <1>7, <1>8 DEF RequestInv, ClosingInv, Counted, UnderWay
<1> QED
  BY <1>4, <1>9, <1>10, <1>11 DEF Kept, RequestInv

LEMMA SendSyncKeeps ==
    ASSUME Sound, SendSync
    PROVE  Kept
<1>1. PICK r0 \in Requests :
         /\ r0 = Todo.req /\ Follows(Tail(agenda), {"send"}, r0) /\ RequestInv(r0)
         /\ Now("send")
  BY HeadOf DEF Sound, SendSync
<1>2. PICK new : Placed(new, r0) /\ new = {"done", "sent"} /\ state[r0] # 2
  <2>1. "success" \in Results /\ "error" \in Results
    BY DEF Results
  <2>2. ASSUME NEW result \in Results
       PROVE  Puts(<<Ends("done", r0, result), Do("sent", r0)>>, {"done", "sent"}, r0)
    BY ProperEnds, ProperDo, PutsTwo DEF Whats, Opening, Closing, Finishing, AtOnce
  <2> QED
    BY <1>1, <2>1, <2>2 DEF Placed, SendSync, SendWith, Then
<1>3. \A r \in Requests \ {r0} : SameValues(r)
  BY <1>1 DEF Sound, TypeOK, SameValues, SendSync, SendWith, lifecycle, link, jsonp, results
<1>4. AgendaInv' /\ View({"send"}, new, Tail(agenda), r0) /\ \A r \in Requests \ {r0} : RequestInv(r)' /\ Counted(r)
  <2>1. broken' = broken
    BY DEF SendSync, SendWith
  <2>2. /\ new \cap Opening # {} => {"send"} \cap Opening # {}
        /\ new \cap Closing # {} => {"send"} \cap Closing # {} \/ state[r0] # 2
    BY <1>2 DEF Opening, Closing, Finishing
  <2>3. Follows(Tail(agenda), {"send"}, r0)
    BY <1>1
  <2>4. PICK s : Puts(s, new, r0) /\ agenda' = s \o Tail(agenda)
    BY <1>2 DEF Placed
  <2> QED
    BY <1>3, <2>1, <2>2, <2>3, <2>4, Framed
<1>5. /\ \A what : Has(agenda, what, r0) <=> what = "send" \/ Has(Tail(agenda), what, r0)
      /\ \A what : Has(agenda', what, r0) <=> what \in new \/ Has(Tail(agenda), what, r0)
      /\ HasOne(agenda', Opening, r0) /\ HasOne(agenda', Closing, r0)
      /\ \A what \in AtOnce : ~Has(Tail(agenda), what, r0)
      /\ ~HasAny(Tail(agenda), Opening, r0)
  BY <1>4 DEF View, Opening, Closing, Finishing
<1>6. /\ HasAny(agenda, Opening, r0) /\ ~HasAny(agenda', Opening, r0) /\ HasAny(agenda, Counting, r0)
      /\ HasAny(agenda', Counting, r0) /\ (HasAny(agenda', Finishing, r0) <=> HasAny(agenda, Finishing, r0))
      /\ (HasAny(agenda', Closing, r0) <=> HasAny(agenda, Closing, r0)) /\ ~Has(agenda', "start", r0)
      /\ ~Has(agenda', "send", r0) /\ Has(agenda, "send", r0) /\ Has(agenda', "done", r0)
      /\ (Has(agenda', "convert", r0) <=> Has(agenda, "convert", r0))
      /\ (Has(agenda', "settle", r0) <=> Has(agenda, "settle", r0))
      /\ (Has(agenda', "stop", r0) <=> Has(agenda, "stop", r0)) /\ HasAny(agenda, Whats, r0)
  BY <1>2, <1>5, HasKinds DEF AtOnce
<1>7. opts[r0] # None /\ state[r0] \in 0 .. 2 /\ state[r0] # 1
  BY <1>1, <1>6 DEF Sound, TypeOK, RequestInv, OpeningInv, ClosingInv
<1>8. /\ state'[r0] = 1 /\ opts'[r0] = opts[r0] /\ fireGlobals'[r0] = fireGlobals[r0]
      /\ timer'[r0] = Timed(r0) /\ transport'[r0] = transport[r0] /\ callback'[r0] = callback[r0]
      /\ net'[r0] = "over" /\ callbackName'[r0] = callbackName[r0] /\ outcome'[r0] = outcome[r0]
      /\ completed'[r0] = completed[r0] /\ (r0 \in posted' <=> r0 \in posted)
      /\ (r0 \in broken' <=> r0 \in broken)
  BY <1>1 DEF Sound, TypeOK, SameValues, SendSync, SendWith, lifecycle, link, jsonp, results
<1>9. OpeningInv(r0)'
  BY <1>1, <1>2, <1>5, <1>6, <1>7, <1>8 DEF RequestInv, OpeningInv
<1>10. WaitingInv(r0)'
  BY <1>1, <1>2, <1>6, <1>7, <1>8 DEF RequestInv, WaitingInv
<1>11. ClosingInv(r0)' /\ Counted(r0)
  BY <1>1, <1>2, <1>5, <1>6, <1>7, <1>8 DEF RequestInv, ClosingInv, Counted, UnderWay
<1> QED
  BY <1>4, <1>9, <1>10, <1>11 DEF Kept, RequestInv

LEMMA SendThrowsKeeps ==
    ASSUME Sound, SendThrows
    PROVE  Kept
<1>1. PICK r0 \in Requests :
         /\ r0 = Todo.req /\ Follows(Tail(agenda), {"send"}, r0) /\ RequestInv(r0)
         /\ Now("send")
  BY HeadOf DEF Sound, SendThrows
<1>2. PICK new : Placed(new, r0) /\ new = {"done"} /\ state[r0] # 2
  <2>1. "error" \in Results
    BY DEF Results
  <2>2. Puts(<<Ends("done", r0, "error")>>, {"done"}, r0)
    BY <2>1, PutsEnds
  <2> QED
    BY <1>1, <2>1, <2>2 DEF Placed, SendThrows, SendWith, Then
<1>3. \A r \in Requests \ {r0} : SameValues(r)
  BY <1>1 DEF Sound, TypeOK, SameValues, SendThrows, SendWith, lifecycle, link, jsonp, results
<1>4. AgendaInv' /\ View({"send"}, new, Tail(agenda), r0) /\ \A r \in Requests \ {r0} : RequestInv(r)' /\ Counted(r)
  <2>1. broken' = broken
    BY DEF SendThrows, SendWith
  <2>2. /\ new \cap Opening # {} => {"send"} \cap Opening # {}
        /\ new \cap Closing # {} => {"send"} \cap Closing # {} \/ state[r0] # 2
    BY <1>2 DEF Opening, Closing, Finishing
  <2>3. Follows(Tail(agenda), {"send"}, r0)
    BY <1>1
  <2>4. PICK s : Puts(s, new, r0) /\ agenda' = s \o Tail(agenda)
    BY <1>2 DEF Placed
  <2> QED
    BY <1>3, <2>1, <2>2, <2>3, <2>4, Framed
<1>5. /\ \A what : Has(agenda, what, r0) <=> what = "send" \/ Has(Tail(agenda), what, r0)
      /\ \A what : Has(agenda', what, r0) <=> what \in new \/ Has(Tail(agenda), what, r0)
      /\ HasOne(agenda', Opening, r0) /\ HasOne(agenda', Closing, r0)
      /\ \A what \in AtOnce : ~Has(Tail(agenda), what, r0)
      /\ ~HasAny(Tail(agenda), Opening, r0)
  BY <1>4 DEF View, Opening, Closing, Finishing
<1>6. /\ HasAny(agenda, Opening, r0) /\ ~HasAny(agenda', Opening, r0) /\ HasAny(agenda, Counting, r0)
      /\ HasAny(agenda', Counting, r0) /\ (HasAny(agenda', Finishing, r0) <=> HasAny(agenda, Finishing, r0))
      /\ (HasAny(agenda', Closing, r0) <=> HasAny(agenda, Closing, r0)) /\ ~Has(agenda', "start", r0)
      /\ ~Has(agenda', "send", r0) /\ Has(agenda, "send", r0) /\ Has(agenda', "done", r0)
      /\ (Has(agenda', "convert", r0) <=> Has(agenda, "convert", r0))
      /\ (Has(agenda', "settle", r0) <=> Has(agenda, "settle", r0))
      /\ (Has(agenda', "stop", r0) <=> Has(agenda, "stop", r0)) /\ HasAny(agenda, Whats, r0)
  BY <1>2, <1>5, HasKinds DEF AtOnce
<1>7. opts[r0] # None /\ state[r0] \in 0 .. 2 /\ state[r0] # 1
  BY <1>1, <1>6 DEF Sound, TypeOK, RequestInv, OpeningInv, ClosingInv
<1>8. /\ state'[r0] = 1 /\ opts'[r0] = opts[r0] /\ fireGlobals'[r0] = fireGlobals[r0]
      /\ timer'[r0] = Timed(r0) /\ transport'[r0] = transport[r0] /\ net'[r0] = net[r0]
      /\ callbackName'[r0] = callbackName[r0] /\ outcome'[r0] = outcome[r0]
      /\ completed'[r0] = completed[r0] /\ (r0 \in posted' <=> r0 \in posted)
      /\ (r0 \in broken' <=> r0 \in broken)
  BY <1>1 DEF Sound, TypeOK, SameValues, SendThrows, SendWith, lifecycle, link, jsonp, results
<1>9. OpeningInv(r0)'
  BY <1>1, <1>2, <1>5, <1>6, <1>7, <1>8 DEF RequestInv, OpeningInv
<1>10. WaitingInv(r0)'
  BY <1>1, <1>2, <1>6, <1>7, <1>8 DEF RequestInv, WaitingInv
<1>11. ClosingInv(r0)' /\ Counted(r0)
  BY <1>1, <1>2, <1>5, <1>6, <1>7, <1>8 DEF RequestInv, ClosingInv, Counted, UnderWay
<1> QED
  BY <1>4, <1>9, <1>10, <1>11 DEF Kept, RequestInv

LEMMA AbortKeeps ==
    ASSUME Sound, Abort
    PROVE  Kept
<1>1. PICK r0 \in Requests :
         /\ r0 = Todo.req /\ Follows(Tail(agenda), {"abort"}, r0) /\ RequestInv(r0)
         /\ Now("abort") /\ Todo.result \in Results
  BY HeadOf DEF Sound, Abort
<1>2. PICK new : Placed(new, r0) /\ new = {"done"}
  <2>1. ASSUME NEW result \in Results
       PROVE  Puts(<<Ends("done", r0, result)>>, {"done"}, r0)
    BY PutsEnds
  <2> QED
    BY <1>1, <2>1 DEF Placed, Abort, Then
<1>3. \A r \in Requests \ {r0} : SameValues(r)
  BY <1>1 DEF Sound, TypeOK, SameValues, Abort, lifecycle, link, jsonp, results
<1>4. AgendaInv' /\ View({"abort"}, new, Tail(agenda), r0) /\ \A r \in Requests \ {r0} : RequestInv(r)' /\ Counted(r)
  <2>1. broken' = broken
    BY DEF Abort
  <2>2. /\ new \cap Opening # {} => {"abort"} \cap Opening # {}
        /\ new \cap Closing # {} => {"abort"} \cap Closing # {} \/ state[r0] # 2
    BY <1>2 DEF Opening, Closing, Finishing
  <2>3. Follows(Tail(agenda), {"abort"}, r0)
    BY <1>1
  <2>4. PICK s : Puts(s, new, r0) /\ agenda' = s \o Tail(agenda)
    BY <1>2 DEF Placed
  <2> QED
    BY <1>3, <2>1, <2>2, <2>3, <2>4, Framed
<1>5. /\ \A what : Has(agenda, what, r0) <=> what = "abort" \/ Has(Tail(agenda), what, r0)
      /\ \A what : Has(agenda', what, r0) <=> what \in new \/ Has(Tail(agenda), what, r0)
      /\ HasOne(agenda', Opening, r0) /\ HasOne(agenda', Closing, r0)
      /\ \A what \in AtOnce : ~Has(Tail(agenda), what, r0)
  BY <1>4 DEF View, Opening, Closing, Finishing
<1>6. /\ (HasAny(agenda', Opening, r0) <=> HasAny(agenda, Opening, r0)) /\ HasAny(agenda, Counting, r0)
      /\ HasAny(agenda', Counting, r0) /\ (HasAny(agenda', Finishing, r0) <=> HasAny(agenda, Finishing, r0))
      /\ (HasAny(agenda', Closing, r0) <=> HasAny(agenda, Closing, r0))
      /\ (Has(agenda', "start", r0) <=> Has(agenda, "start", r0))
      /\ (Has(agenda', "send", r0) <=> Has(agenda, "send", r0)) /\ Has(agenda', "done", r0)
      /\ (Has(agenda', "convert", r0) <=> Has(agenda, "convert", r0))
      /\ (Has(agenda', "settle", r0) <=> Has(agenda, "settle", r0))
      /\ (Has(agenda', "stop", r0) <=> Has(agenda, "stop", r0)) /\ HasAny(agenda, Whats, r0)
  BY <1>2, <1>5, HasKinds DEF AtOnce
<1>7. opts[r0] # None /\ state[r0] \in 0 .. 2
  BY <1>1, <1>6 DEF Sound, TypeOK, RequestInv, OpeningInv, ClosingInv
<1>8. /\ state'[r0] = state[r0] /\ opts'[r0] = opts[r0] /\ fireGlobals'[r0] = fireGlobals[r0]
      /\ timer'[r0] = timer[r0] /\ transport'[r0] = transport[r0]
      /\ callbackName'[r0] = callbackName[r0] /\ outcome'[r0] = outcome[r0]
      /\ completed'[r0] = completed[r0] /\ (r0 \in posted' <=> r0 \in posted)
      /\ (r0 \in broken' <=> r0 \in broken)
      /\ (callback'[r0] <=> callback[r0] /\ ~Cut(r0))
      /\ (net'[r0] = "sent" => net[r0] = "sent" /\ ~Cut(r0))
      /\ (net[r0] = "none" => net'[r0] = "none")
  BY <1>1 DEF Sound, TypeOK, SameValues, Abort, lifecycle, link, jsonp, results
<1>9. OpeningInv(r0)'
  BY <1>1, <1>2, <1>5, <1>6, <1>7, <1>8 DEF RequestInv, OpeningInv
<1>10. WaitingInv(r0)'
  BY <1>1, <1>2, <1>6, <1>7, <1>8 DEF RequestInv, WaitingInv, Cut
<1>11. ClosingInv(r0)' /\ Counted(r0)
  BY <1>1, <1>2, <1>5, <1>6, <1>7, <1>8 DEF RequestInv, ClosingInv, Counted, UnderWay
<1> QED
  BY <1>4, <1>9, <1>10, <1>11 DEF Kept, RequestInv

LEMMA EvaluateKeeps ==
    ASSUME Sound, Evaluate
    PROVE  Kept
<1>1. PICK r0 \in Requests :
         /\ r0 = Todo.req /\ Follows(Tail(agenda), {"evaluate"}, r0) /\ RequestInv(r0)
         /\ Now("evaluate")
  BY HeadOf DEF Sound, Evaluate
<1>2. PICK new : Placed(new, r0) /\ new = {} /\ state[r0] = 2
  <2>1. Puts(<<>>, {}, r0)
    BY PutsNothing
  <2>2. Len(agenda) > 1 /\ agenda[1].do = "evaluate" /\ agenda[1].req = r0 /\ agenda \in Seq(StepSpace)
    BY <1>1, TailProper DEF Sound, AgendaInv, Now, Todo
  <2>3. 2 \in 1 .. Len(agenda) /\ agenda[2].do = "convert" /\ agenda[2].req = r0
    BY <2>2 DEF Sound, AgendaInv
  <2>4. Has(agenda, "convert", r0)
    BY <2>3 DEF Has
  <2>5. state[r0] = 2
    BY <1>1, <2>4, HasKinds DEF RequestInv, ClosingInv
  <2> QED
    BY <1>1, <2>1, <2>2, <2>3, <2>4, <2>5 DEF Placed, Evaluate, Then
<1>3. \A r \in Requests \ {r0} : SameValues(r)
  BY <1>1 DEF Sound, TypeOK, SameValues, Evaluate, ScriptRuns, lifecycle, results
<1>4. AgendaInv' /\ View({"evaluate"}, new, Tail(agenda), r0) /\ \A r \in Requests \ {r0} : RequestInv(r)' /\ Counted(r)
  <2>1. broken' = broken
    BY DEF Evaluate
  <2>2. /\ new \cap Opening # {} => {"evaluate"} \cap Opening # {}
        /\ new \cap Closing # {} => {"evaluate"} \cap Closing # {} \/ state[r0] # 2
    BY <1>2 DEF Opening, Closing, Finishing
  <2>3. Follows(Tail(agenda), {"evaluate"}, r0)
    BY <1>1
  <2>4. PICK s : Puts(s, new, r0) /\ agenda' = s \o Tail(agenda)
    BY <1>2 DEF Placed
  <2> QED
    BY <1>3, <2>1, <2>2, <2>3, <2>4, Framed
<1>5. /\ \A what : Has(agenda, what, r0) <=> what = "evaluate" \/ Has(Tail(agenda), what, r0)
      /\ \A what : Has(agenda', what, r0) <=> what \in new \/ Has(Tail(agenda), what, r0)
      /\ HasOne(agenda', Opening, r0) /\ HasOne(agenda', Closing, r0)
      /\ \A what \in AtOnce : ~Has(Tail(agenda), what, r0)
  BY <1>4 DEF View, Opening, Closing, Finishing
<1>6. /\ (HasAny(agenda', Opening, r0) <=> HasAny(agenda, Opening, r0))
      /\ (HasAny(agenda', Counting, r0) <=> HasAny(agenda, Counting, r0))
      /\ (HasAny(agenda', Finishing, r0) <=> HasAny(agenda, Finishing, r0))
      /\ (HasAny(agenda', Closing, r0) <=> HasAny(agenda, Closing, r0))
      /\ (Has(agenda', "start", r0) <=> Has(agenda, "start", r0))
      /\ (Has(agenda', "send", r0) <=> Has(agenda, "send", r0)) /\ ~Has(agenda', "done", r0)
      /\ (Has(agenda', "convert", r0) <=> Has(agenda, "convert", r0))
      /\ (Has(agenda', "settle", r0) <=> Has(agenda, "settle", r0))
      /\ (Has(agenda', "stop", r0) <=> Has(agenda, "stop", r0)) /\ HasAny(agenda, Whats, r0)
  BY <1>2, <1>5, HasKinds DEF AtOnce
<1>7. opts[r0] # None /\ state[r0] \in 0 .. 2
  BY <1>1, <1>6 DEF Sound, TypeOK, RequestInv, OpeningInv, ClosingInv
<1>8. /\ state'[r0] = state[r0] /\ opts'[r0] = opts[r0] /\ fireGlobals'[r0] = fireGlobals[r0]
      /\ timer'[r0] = timer[r0] /\ transport'[r0] = transport[r0] /\ callback'[r0] = callback[r0]
      /\ callbackName'[r0] = callbackName[r0] /\ outcome'[r0] = outcome[r0]
      /\ completed'[r0] = completed[r0] /\ (r0 \in posted' <=> r0 \in posted)
      /\ (r0 \in broken' <=> r0 \in broken)
      /\ net'[r0] \in {"over", "silent"}
  BY <1>1 DEF Sound, TypeOK, SameValues, Evaluate, ScriptRuns, lifecycle, results
<1>9. OpeningInv(r0)'
  BY <1>1, <1>2, <1>5, <1>6, <1>7, <1>8 DEF RequestInv, OpeningInv
<1>10. WaitingInv(r0)'
  BY <1>1, <1>2, <1>6, <1>7, <1>8 DEF RequestInv, WaitingInv
<1>11. ClosingInv(r0)' /\ Counted(r0)
  BY <1>1, <1>2, <1>5, <1>6, <1>7, <1>8 DEF RequestInv, ClosingInv, Counted, UnderWay
<1> QED
  BY <1>4, <1>9, <1>10, <1>11 DEF Kept, RequestInv

LEMMA StopKeeps ==
    ASSUME Sound, Stop
    PROVE  AgendaInv' /\ \A r \in Requests : /\ RequestInv(r)' /\ (r # Todo.req => Counted(r))
                                            /\ (r = Todo.req => fireGlobals[r] /\ UnderWay(r) /\ ~UnderWay(r)')
<1>1. PICK r0 \in Requests :
         /\ r0 = Todo.req /\ Follows(Tail(agenda), {"stop"}, r0) /\ RequestInv(r0)
         /\ Now("stop")
  BY HeadOf DEF Sound, Stop
<1>2. PICK new : Placed(new, r0) /\ new = {}
  <2>1. Puts(<<>>, {}, r0) /\ Puts(<<PageCode>>, {}, r0)
    BY PutsNothing
  <2> QED
    BY <1>1, <2>1 DEF Placed, Stop, Then
<1>3. \A r \in Requests \ {r0} : SameValues(r)
  BY <1>1 DEF SameValues, Stop, lifecycle, link, jsonp, results
<1>4. AgendaInv' /\ View({"stop"}, new, Tail(agenda), r0) /\ \A r \in Requests \ {r0} : RequestInv(r)' /\ Counted(r)
  <2>1. broken' = broken
    BY DEF Stop
  <2>2. /\ new \cap Opening # {} => {"stop"} \cap Opening # {}
        /\ new \cap Closing # {} => {"stop"} \cap Closing # {} \/ state[r0] # 2
    BY <1>2 DEF Opening, Closing, Finishing
  <2>3. Follows(Tail(agenda), {"stop"}, r0)
    BY <1>1
  <2>4. PICK s : Puts(s, new, r0) /\ agenda' = s \o Tail(agenda)
    BY <1>2 DEF Placed
  <2> QED
    BY <1>3, <2>1, <2>2, <2>3, <2>4, Framed
<1>5. /\ \A what : Has(agenda, what, r0) <=> what = "stop" \/ Has(Tail(agenda), what, r0)
      /\ \A what : Has(agenda', what, r0) <=> what \in new \/ Has(Tail(agenda), what, r0)
      /\ HasOne(agenda', Opening, r0) /\ HasOne(agenda', Closing, r0)
      /\ \A what \in AtOnce : ~Has(Tail(agenda), what, r0)
      /\ ~HasAny(Tail(agenda), Closing, r0)
  BY <1>4 DEF View, Opening, Closing, Finishing
<1>6. /\ (HasAny(agenda', Opening, r0) <=> HasAny(agenda, Opening, r0))
      /\ (HasAny(agenda', Counting, r0) <=> HasAny(agenda, Counting, r0))
      /\ (HasAny(agenda', Finishing, r0) <=> HasAny(agenda, Finishing, r0)) /\ HasAny(agenda, Closing, r0)
      /\ ~HasAny(agenda', Closing, r0) /\ (Has(agenda', "start", r0) <=> Has(agenda, "start", r0))
      /\ (Has(agenda', "send", r0) <=> Has(agenda, "send", r0)) /\ ~Has(agenda', "done", r0)
      /\ ~Has(agenda', "convert", r0) /\ ~Has(agenda', "settle", r0) /\ ~Has(agenda', "stop", r0)
      /\ Has(agenda, "stop", r0) /\ HasAny(agenda, Whats, r0)
  BY <1>2, <1>5, HasKinds DEF AtOnce
<1>7. opts[r0] # None /\ state[r0] \in 0 .. 2 /\ state[r0] = 2 /\ fireGlobals[r0]
  BY <1>1, <1>6 DEF Sound, TypeOK, RequestInv, OpeningInv, ClosingInv
<1>8. SameValues(r0)
  BY <1>1 DEF SameValues, Stop, lifecycle, link, jsonp, results
<1>9. OpeningInv(r0)'
  BY <1>1, <1>2, <1>5, <1>6, <1>7, <1>8 DEF RequestInv, OpeningInv, SameValues
<1>10. WaitingInv(r0)'
  BY <1>1, <1>2, <1>6, <1>7, <1>8 DEF RequestInv, WaitingInv, SameValues
<1>11. ClosingInv(r0)' /\ fireGlobals[r0] /\ UnderWay(r0) /\ ~UnderWay(r0)'
  BY <1>1, <1>2, <1>5, <1>6, <1>7, <1>8 DEF RequestInv, ClosingInv, UnderWay, SameValues
<1> QED
  BY <1>1, <1>4, <1>9, <1>10, <1>11 DEF Kept, RequestInv

LEMMA SettleKeeps ==
    ASSUME Sound, Settle
    PROVE  Kept
<1>1. PICK r0 \in Requests :
         /\ r0 = Todo.req /\ Follows(Tail(agenda), {"settle"}, r0) /\ RequestInv(r0)
         /\ Now("settle") /\ Todo.result \in Results
  BY HeadOf DEF Sound, Settle
<1>2. PICK new : Placed(new, r0) /\ new = {"complete"}
  <2>1. Puts(<<PageCode, Do("complete", r0)>>, {"complete"}, r0)
    BY ProperDo, PutsOne DEF Whats, Opening, Closing, Finishing, AtOnce
  <2> QED
    BY <1>1, <2>1 DEF Placed, Settle, Then
<1>3. \A r \in Requests \ {r0} : SameValues(r)
  BY <1>1 DEF Sound, TypeOK, SameValues, Settle, CleanUp, lifecycle, link, jsonp, results
<1>4. AgendaInv' /\ View({"settle"}, new, Tail(agenda), r0) /\ \A r \in Requests \ {r0} : RequestInv(r)' /\ Counted(r)
  <2>1. broken' = broken
    BY DEF Settle
  <2>2. /\ new \cap Opening # {} => {"settle"} \cap Opening # {}
        /\ new \cap Closing # {} => {"settle"} \cap Closing # {} \/ state[r0] # 2
    BY <1>2 DEF Opening, Closing, Finishing
  <2>3. Follows(Tail(agenda), {"settle"}, r0)
    BY <1>1
  <2>4. PICK s : Puts(s, new, r0) /\ agenda' = s \o Tail(agenda)
    BY <1>2 DEF Placed
  <2> QED
    BY <1>3, <2>1, <2>2, <2>3, <2>4, Framed
<1>5. /\ \A what : Has(agenda, what, r0) <=> what = "settle" \/ Has(Tail(agenda), what, r0)
      /\ \A what : Has(agenda', what, r0) <=> what \in new \/ Has(Tail(agenda), what, r0)
      /\ HasOne(agenda', Opening, r0) /\ HasOne(agenda', Closing, r0)
      /\ \A what \in AtOnce : ~Has(Tail(agenda), what, r0)
      /\ ~HasAny(Tail(agenda), Closing, r0)
  BY <1>4 DEF View, Opening, Closing, Finishing
<1>6. /\ (HasAny(agenda', Opening, r0) <=> HasAny(agenda, Opening, r0))
      /\ (HasAny(agenda', Counting, r0) <=> HasAny(agenda, Counting, r0)) /\ HasAny(agenda, Finishing, r0)
      /\ HasAny(agenda', Finishing, r0) /\ HasAny(agenda, Closing, r0) /\ HasAny(agenda', Closing, r0)
      /\ (Has(agenda', "start", r0) <=> Has(agenda, "start", r0))
      /\ (Has(agenda', "send", r0) <=> Has(agenda, "send", r0)) /\ ~Has(agenda', "done", r0)
      /\ ~Has(agenda', "convert", r0) /\ ~Has(agenda', "settle", r0) /\ Has(agenda, "settle", r0)
      /\ ~Has(agenda', "stop", r0) /\ HasAny(agenda, Whats, r0)
  BY <1>2, <1>5, HasKinds DEF AtOnce
<1>7. opts[r0] # None /\ state[r0] \in 0 .. 2 /\ state[r0] = 2 /\ outcome[r0] = None /\ completed[r0] = 0
  BY <1>1, <1>6 DEF Sound, TypeOK, RequestInv, OpeningInv, ClosingInv
<1>8. /\ state'[r0] = state[r0] /\ opts'[r0] = opts[r0] /\ fireGlobals'[r0] = fireGlobals[r0]
      /\ timer'[r0] = timer[r0] /\ transport'[r0] = transport[r0] /\ callback'[r0] = callback[r0]
      /\ net'[r0] = net[r0] /\ callbackName'[r0] = callbackName[r0] /\ completed'[r0] = completed[r0]
      /\ (r0 \in posted' <=> r0 \in posted) /\ (r0 \in broken' <=> r0 \in broken)
  BY <1>1 DEF Sound, TypeOK, SameValues, Settle, CleanUp, lifecycle, link, jsonp, results
<1>9. OpeningInv(r0)'
  BY <1>1, <1>2, <1>5, <1>6, <1>7, <1>8 DEF RequestInv, OpeningInv
<1>10. WaitingInv(r0)'
  BY <1>1, <1>2, <1>6, <1>7, <1>8 DEF RequestInv, WaitingInv
<1>11. ClosingInv(r0)' /\ Counted(r0)
  BY <1>1, <1>2, <1>5, <1>6, <1>7, <1>8 DEF RequestInv, ClosingInv, Counted, UnderWay
<1> QED
  BY <1>4, <1>9, <1>10, <1>11 DEF Kept, RequestInv

LEMMA CompleteKeeps ==
    ASSUME Sound, Complete
    PROVE  Kept
<1>1. PICK r0 \in Requests :
         /\ r0 = Todo.req /\ Follows(Tail(agenda), {"complete"}, r0) /\ RequestInv(r0)
         /\ Now("complete")
  BY HeadOf DEF Sound, Complete
<1>2. PICK new : Placed(new, r0) /\ ((fireGlobals[r0] /\ new = {"stop"}) \/ (~fireGlobals[r0] /\ new = {}))
  <2>1. ProperStep(Do("stop", r0)) /\ Do("stop", r0).do = "stop" /\ Do("stop", r0).req = r0 /\ "stop" \notin AtOnce
    BY ProperDo DEF Whats, Opening, Closing, Finishing, AtOnce
  <2>2. Puts(<<PageCode>> \o <<Do("stop", r0)>>, {"stop"}, r0)
    BY <2>1, PutsOne
  <2>3. Puts(<<PageCode>> \o <<>>, {}, r0)
    BY PutsNothing, PutsAfter DEF NoneAtOnce
  <2>4. CASE fireGlobals[r0]
    <3>1. agenda' = (<<PageCode>> \o <<Do("stop", r0)>>) \o Tail(agenda)
      BY <1>1, <2>4 DEF Complete, Then
    <3>2. Placed({"stop"}, r0)
      BY <3>1, <2>1, <2>2, <2>3 DEF Placed
    <3> QED
      BY <2>4, <3>2
  <2>5. CASE ~fireGlobals[r0]
    <3>1. agenda' = (<<PageCode>> \o <<>>) \o Tail(agenda)
      BY <1>1, <2>5 DEF Complete, Then
    <3>2. Placed({}, r0)
      BY <3>1, <2>1, <2>2, <2>3 DEF Placed
    <3> QED
      BY <2>5, <3>2
  <2> QED
    BY <2>4, <2>5
<1>3. \A r \in Requests \ {r0} : SameValues(r)
  BY <1>1 DEF Sound, TypeOK, SameValues, Complete, lifecycle, link, jsonp, results
<1>4. AgendaInv' /\ View({"complete"}, new, Tail(agenda), r0) /\ \A r \in Requests \ {r0} : RequestInv(r)' /\ Counted(r)
  <2>1. broken' = broken
    BY DEF Complete
  <2>2. /\ new \cap Opening # {} => {"complete"} \cap Opening # {}
        /\ new \cap Closing # {} => {"complete"} \cap Closing # {} \/ state[r0] # 2
    BY <1>2 DEF Opening, Closing, Finishing
  <2>3. Follows(Tail(agenda), {"complete"}, r0)
    BY <1>1
  <2>4. PICK s : Puts(s, new, r0) /\ agenda' = s \o Tail(agenda)
    BY <1>2 DEF Placed
  <2> QED
    BY <1>3, <2>1, <2>2, <2>3, <2>4, Framed
<1>5. /\ \A what : Has(agenda, what, r0) <=> what = "complete" \/ Has(Tail(agenda), what, r0)
      /\ \A what : Has(agenda', what, r0) <=> what \in new \/ Has(Tail(agenda), what, r0)
      /\ HasOne(agenda', Opening, r0) /\ HasOne(agenda', Closing, r0)
      /\ \A what \in AtOnce : ~Has(Tail(agenda), what, r0)
      /\ ~HasAny(Tail(agenda), Closing, r0)
  BY <1>4 DEF View, Opening, Closing, Finishing
<1>6. /\ (HasAny(agenda', Opening, r0) <=> HasAny(agenda, Opening, r0))
      /\ (HasAny(agenda', Counting, r0) <=> HasAny(agenda, Counting, r0)) /\ HasAny(agenda, Finishing, r0)
      /\ ~HasAny(agenda', Finishing, r0) /\ HasAny(agenda, Closing, r0)
      /\ (fireGlobals[r0] => HasAny(agenda', Closing, r0)) /\ (~fireGlobals[r0] => ~HasAny(agenda', Closing, r0))
      /\ (Has(agenda', "start", r0) <=> Has(agenda, "start", r0))
      /\ (Has(agenda', "send", r0) <=> Has(agenda, "send", r0)) /\ ~Has(agenda', "done", r0)
      /\ ~Has(agenda', "convert", r0) /\ ~Has(agenda', "settle", r0)
      /\ (fireGlobals[r0] => Has(agenda', "stop", r0)) /\ (~fireGlobals[r0] => ~Has(agenda', "stop", r0))
      /\ HasAny(agenda, Whats, r0)
  BY <1>2, <1>5, HasKinds DEF AtOnce
<1>7. opts[r0] # None /\ state[r0] \in 0 .. 2 /\ state[r0] = 2 /\ completed[r0] = 0
  BY <1>1, <1>6 DEF Sound, TypeOK, RequestInv, OpeningInv, ClosingInv
<1>8. /\ state'[r0] = state[r0] /\ opts'[r0] = opts[r0] /\ fireGlobals'[r0] = fireGlobals[r0]
      /\ timer'[r0] = timer[r0] /\ transport'[r0] = transport[r0] /\ callback'[r0] = callback[r0]
      /\ net'[r0] = net[r0] /\ callbackName'[r0] = callbackName[r0] /\ outcome'[r0] = outcome[r0]
      /\ completed'[r0] = completed[r0] + 1 /\ (r0 \in posted' <=> r0 \in posted)
      /\ (r0 \in broken' <=> r0 \in broken)
  BY <1>1 DEF Sound, TypeOK, SameValues, Complete, lifecycle, link, jsonp, results
<1>9. OpeningInv(r0)'
  BY <1>1, <1>2, <1>5, <1>6, <1>7, <1>8 DEF RequestInv, OpeningInv
<1>10. WaitingInv(r0)'
  BY <1>1, <1>2, <1>6, <1>7, <1>8 DEF RequestInv, WaitingInv
<1>11. ClosingInv(r0)' /\ Counted(r0)
  BY <1>1, <1>2, <1>5, <1>6, <1>7, <1>8 DEF RequestInv, ClosingInv, Counted, UnderWay
<1> QED
  BY <1>4, <1>9, <1>10, <1>11 DEF Kept, RequestInv

LEMMA ConvertKeeps ==
    ASSUME Sound, Convert
    PROVE  Kept
<1>1. PICK r0 \in Requests :
         /\ r0 = Todo.req /\ Follows(Tail(agenda), {"convert"}, r0) /\ RequestInv(r0)
         /\ Now("convert") /\ Todo.result \in Results
  BY HeadOf DEF Sound, Convert
<1>2. PICK new : Placed(new, r0) /\ new = {"settle"}
  <2>1. PICK result \in Results : Then((IF Todo.result = "success" THEN <<PageCode>> ELSE <<>>) \o <<Ends("settle", r0, result)>>)
    BY <1>1 DEF Convert, Results
  <2>2. "settle" \notin AtOnce
    BY DEF AtOnce
  <2>3. /\ Puts(<<>> \o <<Ends("settle", r0, result)>>, {"settle"}, r0)
       /\ Puts(<<PageCode>> \o <<Ends("settle", r0, result)>>, {"settle"}, r0)
    BY <2>2, PutsEnds
  <2>4. CASE Todo.result = "success"
    <3>1. agenda' = (<<PageCode>> \o <<Ends("settle", r0, result)>>) \o Tail(agenda)
      BY <1>1, <2>1, <2>4 DEF Then
    <3>2. Placed({"settle"}, r0)
      BY <3>1, <2>1, <2>2, <2>3 DEF Placed
    <3> QED
      BY <2>4, <3>2
  <2>5. CASE Todo.result # "success"
    <3>1. agenda' = (<<>> \o <<Ends("settle", r0, result)>>) \o Tail(agenda)
      BY <1>1, <2>1, <2>5 DEF Then
    <3>2. Placed({"settle"}, r0)
      BY <3>1, <2>1, <2>2, <2>3 DEF Placed
    <3> QED
      BY <2>5, <3>2
  <2> QED
    BY <2>4, <2>5
<1>3. \A r \in Requests \ {r0} : SameValues(r)
  BY <1>1 DEF SameValues, Convert, lifecycle, link, jsonp, results
<1>4. AgendaInv' /\ View({"convert"}, new, Tail(agenda), r0) /\ \A r \in Requests \ {r0} : RequestInv(r)' /\ Counted(r)
  <2>1. broken' = broken
    BY DEF Convert
  <2>2. /\ new \cap Opening # {} => {"convert"} \cap Opening # {}
        /\ new \cap Closing # {} => {"convert"} \cap Closing # {} \/ state[r0] # 2
    BY <1>2 DEF Opening, Closing, Finishing
  <2>3. Follows(Tail(agenda), {"convert"}, r0)
    BY <1>1
  <2>4. PICK s : Puts(s, new, r0) /\ agenda' = s \o Tail(agenda)
    BY <1>2 DEF Placed
  <2> QED
    BY <1>3, <2>1, <2>2, <2>3, <2>4, Framed
<1>5. /\ \A what : Has(agenda, what, r0) <=> what = "convert" \/ Has(Tail(agenda), what, r0)
      /\ \A what : Has(agenda', what, r0) <=> what \in new \/ Has(Tail(agenda), what, r0)
      /\ HasOne(agenda', Opening, r0) /\ HasOne(agenda', Closing, r0)
      /\ \A what \in AtOnce : ~Has(Tail(agenda), what, r0)
      /\ ~HasAny(Tail(agenda), Closing, r0)
  BY <1>4 DEF View, Opening, Closing, Finishing
<1>6. /\ (HasAny(agenda', Opening, r0) <=> HasAny(agenda, Opening, r0))
      /\ (HasAny(agenda', Counting, r0) <=> HasAny(agenda, Counting, r0)) /\ HasAny(agenda, Finishing, r0)
      /\ HasAny(agenda', Finishing, r0) /\ HasAny(agenda, Closing, r0) /\ HasAny(agenda', Closing, r0)
      /\ (Has(agenda', "start", r0) <=> Has(agenda, "start", r0))
      /\ (Has(agenda', "send", r0) <=> Has(agenda, "send", r0)) /\ ~Has(agenda', "done", r0)
      /\ ~Has(agenda', "convert", r0) /\ Has(agenda, "convert", r0) /\ Has(agenda', "settle", r0)
      /\ ~Has(agenda', "stop", r0) /\ HasAny(agenda, Whats, r0)
  BY <1>2, <1>5, HasKinds DEF AtOnce
<1>7. opts[r0] # None /\ state[r0] \in 0 .. 2 /\ state[r0] = 2 /\ outcome[r0] = None /\ completed[r0] = 0
  BY <1>1, <1>6 DEF Sound, TypeOK, RequestInv, OpeningInv, ClosingInv
<1>8. SameValues(r0)
  BY <1>1 DEF SameValues, Convert, lifecycle, link, jsonp, results
<1>9. OpeningInv(r0)'
  BY <1>1, <1>2, <1>5, <1>6, <1>7, <1>8 DEF RequestInv, OpeningInv, SameValues
<1>10. WaitingInv(r0)'
  BY <1>1, <1>2, <1>6, <1>7, <1>8 DEF RequestInv, WaitingInv, SameValues
<1>11. ClosingInv(r0)' /\ Counted(r0)
  BY <1>1, <1>2, <1>5, <1>6, <1>7, <1>8 DEF RequestInv, ClosingInv, Counted, UnderWay, SameValues
<1> QED
  BY <1>4, <1>9, <1>10, <1>11 DEF Kept, RequestInv

LEMMA StartKeeps ==
    ASSUME Sound, Start
    PROVE  AgendaInv' /\ \A r \in Requests : RequestInv(r)' /\ (r # Todo.req => Counted(r))
<1>1. PICK r0 \in Requests :
         /\ r0 = Todo.req /\ Follows(Tail(agenda), {"start"}, r0) /\ RequestInv(r0)
         /\ Now("start")
  BY HeadOf DEF Sound, Start
<1>2. PICK new : Placed(new, r0) /\ ((state[r0] = 2 /\ new = {}) \/ (state[r0] # 2 /\ new = {"configure"}))
  <2>1. ProperStep(Do("configure", r0)) /\ Do("configure", r0).do = "configure" /\ Do("configure", r0).req = r0
       /\ "configure" \notin AtOnce
    BY ProperDo DEF Whats, Opening, Closing, Finishing, AtOnce
  <2>2. Puts(<<>> \o <<Do("configure", r0)>>, {"configure"}, r0) /\ Puts(<<PageCode>> \o <<Do("configure", r0)>>, {"configure"}, r0)
    BY <2>1, PutsOne
  <2>3. Puts(<<>> \o <<>>, {}, r0) /\ Puts(<<PageCode>> \o <<>>, {}, r0)
    BY PutsNothing, PutsAfter DEF NoneAtOnce
  <2>4. CASE state[r0] = 2
    <3>1. agenda' = (<<>> \o <<>>) \o Tail(agenda) \/ agenda' = (<<PageCode>> \o <<>>) \o Tail(agenda)
      BY <1>1, <2>4 DEF Start, Then
    <3>2. Placed({}, r0)
      BY <3>1, <2>1, <2>2, <2>3 DEF Placed
    <3> QED
      BY <2>4, <3>2
  <2>5. CASE state[r0] # 2
    <3>1. agenda' = (<<>> \o <<Do("configure", r0)>>) \o Tail(agenda) \/ agenda' = (<<PageCode>> \o <<Do("configure", r0)>>) \o Tail(agenda)
      BY <1>1, <2>5 DEF Start, Then
    <3>2. Placed({"configure"}, r0)
      BY <3>1, <2>1, <2>2, <2>3 DEF Placed
    <3> QED
      BY <2>5, <3>2
  <2> QED
    BY <2>4, <2>5
<1>3. \A r \in Requests \ {r0} : SameValues(r)
  BY <1>1 DEF Sound, TypeOK, SameValues, CountsFrom, Start, lifecycle, link, jsonp, results
<1>4. AgendaInv' /\ View({"start"}, new, Tail(agenda), r0) /\ \A r \in Requests \ {r0} : RequestInv(r)' /\ Counted(r)
  <2>1. broken' = broken
    BY DEF Start, lifecycle
  <2>2. /\ new \cap Opening # {} => {"start"} \cap Opening # {}
        /\ new \cap Closing # {} => {"start"} \cap Closing # {} \/ state[r0] # 2
    BY <1>2 DEF Opening, Closing, Finishing
  <2>3. Follows(Tail(agenda), {"start"}, r0)
    BY <1>1
  <2>4. PICK s : Puts(s, new, r0) /\ agenda' = s \o Tail(agenda)
    BY <1>2 DEF Placed
  <2> QED
    BY <1>3, <2>1, <2>2, <2>3, <2>4, Framed
<1>5. /\ \A what : Has(agenda, what, r0) <=> what = "start" \/ Has(Tail(agenda), what, r0)
      /\ \A what : Has(agenda', what, r0) <=> what \in new \/ Has(Tail(agenda), what, r0)
      /\ HasOne(agenda', Opening, r0) /\ HasOne(agenda', Closing, r0)
      /\ \A what \in AtOnce : ~Has(Tail(agenda), what, r0)
      /\ ~HasAny(Tail(agenda), Opening, r0)
  BY <1>4 DEF View, Opening, Closing, Finishing
<1>6. /\ HasAny(agenda, Opening, r0) /\ (state[r0] = 2 => ~HasAny(agenda', Opening, r0))
      /\ (state[r0] # 2 => HasAny(agenda', Opening, r0))
      /\ (state[r0] = 2 => (HasAny(agenda', Counting, r0) <=> HasAny(agenda, Counting, r0)))
      /\ (state[r0] # 2 => HasAny(agenda', Counting, r0))
      /\ (HasAny(agenda', Finishing, r0) <=> HasAny(agenda, Finishing, r0))
      /\ (HasAny(agenda', Closing, r0) <=> HasAny(agenda, Closing, r0)) /\ ~Has(agenda', "start", r0)
      /\ Has(agenda, "start", r0) /\ ~Has(agenda', "send", r0) /\ ~Has(agenda', "done", r0)
      /\ (Has(agenda', "convert", r0) <=> Has(agenda, "convert", r0))
      /\ (Has(agenda', "settle", r0) <=> Has(agenda, "settle", r0))
      /\ (Has(agenda', "stop", r0) <=> Has(agenda, "stop", r0)) /\ HasAny(agenda, Whats, r0)
  BY <1>2, <1>5, HasKinds DEF AtOnce
<1>7. opts[r0] # None /\ state[r0] \in 0 .. 2 /\ state[r0] # 1 /\ ~fireGlobals[r0]
  BY <1>1, <1>6 DEF Sound, TypeOK, RequestInv, OpeningInv, ClosingInv
<1>8. /\ state'[r0] = state[r0] /\ opts'[r0] = opts[r0] /\ timer'[r0] = timer[r0]
      /\ transport'[r0] = transport[r0] /\ callback'[r0] = callback[r0] /\ net'[r0] = net[r0]
      /\ callbackName'[r0] = callbackName[r0] /\ outcome'[r0] = outcome[r0]
      /\ completed'[r0] = completed[r0] /\ (r0 \in posted' <=> r0 \in posted)
      /\ (r0 \in broken' <=> r0 \in broken)
      /\ (fireGlobals'[r0] => state[r0] # 2)
  BY <1>1 DEF Sound, TypeOK, SameValues, CountsFrom, Start, lifecycle, link, jsonp, results
<1>9. OpeningInv(r0)'
  BY <1>1, <1>2, <1>5, <1>6, <1>7, <1>8 DEF RequestInv, OpeningInv
<1>10. WaitingInv(r0)'
  BY <1>1, <1>2, <1>6, <1>7, <1>8 DEF RequestInv, WaitingInv
<1>11. ClosingInv(r0)'
  BY <1>1, <1>2, <1>5, <1>6, <1>7, <1>8 DEF RequestInv, ClosingInv
<1> QED
  BY <1>1, <1>4, <1>9, <1>10, <1>11 DEF Kept, RequestInv

LEMMA DoneKeeps ==
    ASSUME Sound, Done
    PROVE  Kept
<1>1. PICK r0 \in Requests :
         /\ r0 = Todo.req /\ Follows(Tail(agenda), {"done"}, r0) /\ RequestInv(r0)
         /\ Now("done") /\ Todo.result \in Results
  BY HeadOf DEF Sound, Done
<1>2. PICK new : Placed(new, r0) /\ ((state[r0] = 2 /\ new = {}) \/ (state[r0] # 2 /\ new = {"convert"}) \/ (state[r0] # 2 /\ new = {"evaluate", "convert"}))
  <2>1. Puts(<<>>, {}, r0)
    BY PutsNothing
  <2>2. "convert" \notin AtOnce
    BY DEF AtOnce
  <2>3. /\ Puts(<<Do("evaluate", r0)>> \o <<Ends("convert", r0, Todo.result)>>, {"evaluate", "convert"}, r0)
       /\ Puts(<<>> \o <<Ends("convert", r0, Todo.result)>>, {"convert"}, r0)
    BY <1>1, <2>2, PutsEvaluate, PutsEnds
  <2>4. CASE state[r0] = 2
    <3>1. agenda' = <<>> \o Tail(agenda)
      BY <1>1, <2>4 DEF Done, CalledBefore, Then
    <3>2. Placed({}, r0)
      BY <3>1, <2>1, <2>2, <2>3 DEF Placed
    <3> QED
      BY <2>4, <3>2
  <2>5. CASE state[r0] # 2 /\ Evaluates(r0, Todo.result)
    <3>1. agenda' = (<<Do("evaluate", r0)>> \o <<Ends("convert", r0, Todo.result)>>) \o Tail(agenda)
      BY <1>1, <2>5 DEF Done, CalledBefore, Then
    <3>2. Placed({"evaluate", "convert"}, r0)
      BY <3>1, <2>1, <2>2, <2>3 DEF Placed
    <3> QED
      BY <2>5, <3>2
  <2>6. CASE state[r0] # 2 /\ ~Evaluates(r0, Todo.result)
    <3>1. agenda' = (<<>> \o <<Ends("convert", r0, Todo.result)>>) \o Tail(agenda)
      BY <1>1, <2>6 DEF Done, CalledBefore, Then
    <3>2. Placed({"convert"}, r0)
      BY <3>1, <2>1, <2>2, <2>3 DEF Placed
    <3> QED
      BY <2>6, <3>2
  <2> QED
    BY <2>4, <2>5, <2>6
<1>3. \A r \in Requests \ {r0} : SameValues(r)
  BY <1>1 DEF Sound, TypeOK, SameValues, CalledBefore, Done, lifecycle, link, jsonp, results
<1>4. AgendaInv' /\ View({"done"}, new, Tail(agenda), r0) /\ \A r \in Requests \ {r0} : RequestInv(r)' /\ Counted(r)
  <2>1. broken' = broken
    BY DEF Done
  <2>2. /\ new \cap Opening # {} => {"done"} \cap Opening # {}
        /\ new \cap Closing # {} => {"done"} \cap Closing # {} \/ state[r0] # 2
    BY <1>2 DEF Opening, Closing, Finishing
  <2>3. Follows(Tail(agenda), {"done"}, r0)
    BY <1>1
  <2>4. PICK s : Puts(s, new, r0) /\ agenda' = s \o Tail(agenda)
    BY <1>2 DEF Placed
  <2> QED
    BY <1>3, <2>1, <2>2, <2>3, <2>4, Framed
<1>5. /\ \A what : Has(agenda, what, r0) <=> what = "done" \/ Has(Tail(agenda), what, r0)
      /\ \A what : Has(agenda', what, r0) <=> what \in new \/ Has(Tail(agenda), what, r0)
      /\ HasOne(agenda', Opening, r0) /\ HasOne(agenda', Closing, r0)
      /\ \A what \in AtOnce : ~Has(Tail(agenda), what, r0)
  BY <1>4 DEF View, Opening, Closing, Finishing
<1>6. /\ (HasAny(agenda', Opening, r0) <=> HasAny(agenda, Opening, r0)) /\ HasAny(agenda, Counting, r0)
      /\ (state[r0] = 2 => (HasAny(agenda', Finishing, r0) <=> HasAny(agenda, Finishing, r0)))
      /\ (state[r0] # 2 => HasAny(agenda', Finishing, r0))
      /\ (state[r0] = 2 => (HasAny(agenda', Closing, r0) <=> HasAny(agenda, Closing, r0)))
      /\ (state[r0] # 2 => HasAny(agenda', Closing, r0))
      /\ (Has(agenda', "start", r0) <=> Has(agenda, "start", r0))
      /\ (Has(agenda', "send", r0) <=> Has(agenda, "send", r0)) /\ ~Has(agenda', "done", r0)
      /\ Has(agenda, "done", r0)
      /\ (state[r0] = 2 => (Has(agenda', "convert", r0) <=> Has(agenda, "convert", r0)))
      /\ (state[r0] # 2 => Has(agenda', "convert", r0))
      /\ (Has(agenda', "settle", r0) <=> Has(agenda, "settle", r0))
      /\ (Has(agenda', "stop", r0) <=> Has(agenda, "stop", r0)) /\ HasAny(agenda, Whats, r0)
  BY <1>2, <1>5, HasKinds DEF AtOnce
<1>7. opts[r0] # None /\ state[r0] \in 0 .. 2
  BY <1>1, <1>6 DEF Sound, TypeOK, RequestInv, OpeningInv, ClosingInv
<1>8. /\ opts'[r0] = opts[r0] /\ fireGlobals'[r0] = fireGlobals[r0] /\ callback'[r0] = callback[r0]
      /\ net'[r0] = net[r0] /\ callbackName'[r0] = callbackName[r0] /\ outcome'[r0] = outcome[r0]
      /\ completed'[r0] = completed[r0] /\ (r0 \in posted' <=> r0 \in posted)
      /\ (r0 \in broken' <=> r0 \in broken)
      /\ state'[r0] = 2 /\ (timer'[r0] => timer[r0] /\ state[r0] = 2)
  BY <1>1 DEF Sound, TypeOK, SameValues, CalledBefore, Done, lifecycle, link, jsonp, results
<1>9. OpeningInv(r0)'
  BY <1>1, <1>2, <1>5, <1>6, <1>7, <1>8 DEF RequestInv, OpeningInv
<1>10. WaitingInv(r0)'
  BY <1>1, <1>2, <1>6, <1>7, <1>8 DEF RequestInv, WaitingInv
<1>11. ClosingInv(r0)' /\ Counted(r0)
  BY <1>1, <1>2, <1>5, <1>6, <1>7, <1>8 DEF RequestInv, ClosingInv, Counted, UnderWay
<1> QED
  BY <1>4, <1>9, <1>10, <1>11 DEF Kept, RequestInv

\* A call of the page, or a task of the browser, has put its steps in front.
Posted(new, r) == \E s : Puts(s, new, r) /\ agenda' = s \o agenda

LEMMA AjaxKeeps ==
    ASSUME Sound, NEW r0 \in Requests, NEW o \in Options, Ajax(r0, o)
    PROVE  Kept
<1>1. Follows(agenda, {}, r0) /\ RequestInv(r0)
  BY DEF Sound, Follows, Ajax, Calling
<1>2. opts[r0] = None /\ state[r0] = 0 /\ ~fireGlobals[r0] /\ ~HasAny(agenda, Whats, r0)
      /\ ~HasAny(agenda, Opening, r0) /\ ~HasAny(agenda, Closing, r0) /\ state[r0] \in 0 .. 2
  BY <1>1, HasKinds DEF Sound, TypeOK, RequestInv, OpeningInv, WaitingInv, Ajax
<1>3. PICK new : Posted(new, r0) /\ new = {"start"}
  <2>1. Puts(<<PageCode, Do("start", r0)>>, {"start"}, r0)
    BY ProperDo, PutsOne DEF Whats, Opening, Closing, Finishing, AtOnce
  <2> QED
    BY <2>1 DEF Posted, Ajax
<1>4. \A r \in Requests \ {r0} : SameValues(r)
  BY DEF Sound, TypeOK, SameValues, Ajax, Prefilter, InstallCallback, lifecycle, link, jsonp, results
<1>5. AgendaInv' /\ View({}, new, agenda, r0) /\ \A r \in Requests \ {r0} : RequestInv(r)' /\ Counted(r)
  <2>1. broken' = broken
    BY DEF Ajax
  <2>2. /\ new \cap Opening # {} => {} \cap Opening # {} \/ ~HasAny(agenda, Opening, r0)
        /\ new \cap Closing # {} => {} \cap Closing # {} \/ state[r0] # 2
    BY <1>2, <1>3 DEF Opening, Closing, Finishing
  <2>3. PICK s : Puts(s, new, r0) /\ agenda' = s \o agenda
    BY <1>3 DEF Posted
  <2> QED
    BY <1>1, <1>4, <2>1, <2>2, <2>3, Framed
<1>6. /\ \A what : Has(agenda', what, r0) <=> what \in new \/ Has(agenda, what, r0)
      /\ HasOne(agenda', Opening, r0) /\ HasOne(agenda', Closing, r0)
      /\ \A what \in AtOnce : ~Has(agenda, what, r0)
  BY <1>5 DEF View
<1>7. /\ HasAny(agenda', Opening, r0) /\ (HasAny(agenda', Counting, r0) <=> HasAny(agenda, Counting, r0))
      /\ (HasAny(agenda', Finishing, r0) <=> HasAny(agenda, Finishing, r0))
      /\ (HasAny(agenda', Closing, r0) <=> HasAny(agenda, Closing, r0)) /\ Has(agenda', "start", r0)
      /\ (Has(agenda', "send", r0) <=> Has(agenda, "send", r0)) /\ ~Has(agenda', "done", r0)
      /\ (Has(agenda', "convert", r0) <=> Has(agenda, "convert", r0))
      /\ (Has(agenda', "settle", r0) <=> Has(agenda, "settle", r0))
      /\ (Has(agenda', "stop", r0) <=> Has(agenda, "stop", r0))
  BY <1>3, <1>6, HasKinds DEF AtOnce
<1>8. /\ state'[r0] = state[r0] /\ opts'[r0] = o /\ fireGlobals'[r0] = fireGlobals[r0]
      /\ timer'[r0] = timer[r0] /\ transport'[r0] = transport[r0] /\ callback'[r0] = callback[r0]
      /\ net'[r0] = net[r0] /\ outcome'[r0] = outcome[r0] /\ completed'[r0] = completed[r0]
      /\ (r0 \in posted' <=> r0 \in posted) /\ (r0 \in broken' <=> r0 \in broken)
  BY DEF Sound, TypeOK, Ajax, Prefilter, InstallCallback, lifecycle, link, jsonp, results
<1>9. OpeningInv(r0)'
  BY <1>1, <1>2, <1>3, <1>6, <1>7, <1>8, AjaxAssumption DEF RequestInv, OpeningInv
<1>10. WaitingInv(r0)'
  BY <1>1, <1>2, <1>3, <1>7, <1>8 DEF RequestInv, WaitingInv
<1>11. ClosingInv(r0)' /\ Counted(r0)
  BY <1>1, <1>2, <1>3, <1>6, <1>7, <1>8 DEF RequestInv, ClosingInv, Counted, UnderWay
<1> QED
  BY <1>5, <1>9, <1>10, <1>11 DEF Kept, RequestInv

LEMMA PageAbortsKeeps ==
    ASSUME Sound, NEW r0 \in Requests, PageAborts(r0)
    PROVE  Kept
<1>1. Follows(agenda, {}, r0) /\ RequestInv(r0)
  BY DEF Sound, Follows, PageAborts, Calling
<1>2. opts[r0] # None /\ state[r0] \in 0 .. 2
  BY <1>1 DEF Sound, TypeOK, RequestInv, OpeningInv, WaitingInv, PageAborts
<1>3. PICK new : Posted(new, r0) /\ new = {"abort"}
  <2>1. "abort" \in Results
    BY DEF Results
  <2>2. Puts(<<Ends("abort", r0, "abort")>>, {"abort"}, r0)
    BY <2>1, PutsEnds
  <2> QED
    BY <2>1, <2>2 DEF Posted, PageAborts
<1>4. \A r \in Requests \ {r0} : SameValues(r)
  BY DEF SameValues, PageAborts, lifecycle, link, jsonp, results
<1>5. AgendaInv' /\ View({}, new, agenda, r0) /\ \A r \in Requests \ {r0} : RequestInv(r)' /\ Counted(r)
  <2>1. broken' = broken
    BY DEF PageAborts
  <2>2. /\ new \cap Opening # {} => {} \cap Opening # {} \/ ~HasAny(agenda, Opening, r0)
        /\ new \cap Closing # {} => {} \cap Closing # {} \/ state[r0] # 2
    BY <1>2, <1>3 DEF Opening, Closing, Finishing
  <2>3. PICK s : Puts(s, new, r0) /\ agenda' = s \o agenda
    BY <1>3 DEF Posted
  <2> QED
    BY <1>1, <1>4, <2>1, <2>2, <2>3, Framed
<1>6. /\ \A what : Has(agenda', what, r0) <=> what \in new \/ Has(agenda, what, r0)
      /\ HasOne(agenda', Opening, r0) /\ HasOne(agenda', Closing, r0)
      /\ \A what \in AtOnce : ~Has(agenda, what, r0)
  BY <1>5 DEF View
<1>7. /\ (HasAny(agenda', Opening, r0) <=> HasAny(agenda, Opening, r0)) /\ HasAny(agenda', Counting, r0)
      /\ (HasAny(agenda', Finishing, r0) <=> HasAny(agenda, Finishing, r0))
      /\ (HasAny(agenda', Closing, r0) <=> HasAny(agenda, Closing, r0))
      /\ (Has(agenda', "start", r0) <=> Has(agenda, "start", r0))
      /\ (Has(agenda', "send", r0) <=> Has(agenda, "send", r0)) /\ ~Has(agenda', "done", r0)
      /\ (Has(agenda', "convert", r0) <=> Has(agenda, "convert", r0))
      /\ (Has(agenda', "settle", r0) <=> Has(agenda, "settle", r0))
      /\ (Has(agenda', "stop", r0) <=> Has(agenda, "stop", r0))
  BY <1>3, <1>6, HasKinds DEF AtOnce
<1>8. SameValues(r0)
  BY DEF SameValues, PageAborts, lifecycle, link, jsonp, results
<1>9. OpeningInv(r0)'
  BY <1>1, <1>2, <1>3, <1>6, <1>7, <1>8 DEF RequestInv, OpeningInv, SameValues
<1>10. WaitingInv(r0)'
  BY <1>1, <1>2, <1>3, <1>7, <1>8 DEF RequestInv, WaitingInv, SameValues
<1>11. ClosingInv(r0)' /\ Counted(r0)
  BY <1>1, <1>2, <1>3, <1>6, <1>7, <1>8 DEF RequestInv, ClosingInv, Counted, UnderWay, SameValues
<1> QED
  BY <1>5, <1>9, <1>10, <1>11 DEF Kept, RequestInv

\* A task of the browser begins with an empty agenda.
LEMMA PostedTask ==
    ASSUME NEW r \in Requests, agenda = <<>>, NEW s, NEW new, Puts(s, new, r), agenda' = s
    PROVE  Posted(new, r)
<1>1. s \in Seq(StepSpace)
  BY DEF Puts, Proper
<1>2. agenda' = s \o agenda
  BY <1>1
<1> QED
  BY <1>2 DEF Posted

LEMMA TimeoutKeeps ==
    ASSUME Sound, NEW r0 \in Requests, Timeout(r0)
    PROVE  Kept
<1>1. Follows(agenda, {}, r0) /\ RequestInv(r0)
  BY DEF Sound, Follows, Timeout, Idle
<1>2. opts[r0] # None /\ state[r0] # 0 /\ state[r0] \in 0 .. 2
  BY <1>1 DEF Sound, TypeOK, RequestInv, OpeningInv, WaitingInv, Timeout
<1>3. PICK new : Posted(new, r0) /\ new = {"abort"}
  <2>1. "timeout" \in Results
    BY DEF Results
  <2>2. Puts(<<Ends("abort", r0, "timeout")>>, {"abort"}, r0)
    BY <2>1, PutsEnds
  <2> QED
    BY <2>2, PostedTask DEF Timeout, Timeout, Idle
<1>4. \A r \in Requests \ {r0} : SameValues(r)
  BY DEF Sound, TypeOK, SameValues, Timeout, lifecycle, link, jsonp, results
<1>5. AgendaInv' /\ View({}, new, agenda, r0) /\ \A r \in Requests \ {r0} : RequestInv(r)' /\ Counted(r)
  <2>1. broken' = broken
    BY DEF Timeout
  <2>2. /\ new \cap Opening # {} => {} \cap Opening # {} \/ ~HasAny(agenda, Opening, r0)
        /\ new \cap Closing # {} => {} \cap Closing # {} \/ state[r0] # 2
    BY <1>2, <1>3 DEF Opening, Closing, Finishing
  <2>3. PICK s : Puts(s, new, r0) /\ agenda' = s \o agenda
    BY <1>3 DEF Posted
  <2> QED
    BY <1>1, <1>4, <2>1, <2>2, <2>3, Framed
<1>6. /\ \A what : Has(agenda', what, r0) <=> what \in new \/ Has(agenda, what, r0)
      /\ HasOne(agenda', Opening, r0) /\ HasOne(agenda', Closing, r0)
      /\ \A what \in AtOnce : ~Has(agenda, what, r0)
  BY <1>5 DEF View
<1>7. /\ (HasAny(agenda', Opening, r0) <=> HasAny(agenda, Opening, r0)) /\ HasAny(agenda', Counting, r0)
      /\ (HasAny(agenda', Finishing, r0) <=> HasAny(agenda, Finishing, r0))
      /\ (HasAny(agenda', Closing, r0) <=> HasAny(agenda, Closing, r0))
      /\ (Has(agenda', "start", r0) <=> Has(agenda, "start", r0))
      /\ (Has(agenda', "send", r0) <=> Has(agenda, "send", r0)) /\ ~Has(agenda', "done", r0)
      /\ (Has(agenda', "convert", r0) <=> Has(agenda, "convert", r0))
      /\ (Has(agenda', "settle", r0) <=> Has(agenda, "settle", r0))
      /\ (Has(agenda', "stop", r0) <=> Has(agenda, "stop", r0))
  BY <1>3, <1>6, HasKinds DEF AtOnce
<1>8. /\ state'[r0] = state[r0] /\ opts'[r0] = opts[r0] /\ fireGlobals'[r0] = fireGlobals[r0]
      /\ timer'[r0] = FALSE /\ transport'[r0] = transport[r0] /\ callback'[r0] = callback[r0]
      /\ net'[r0] = net[r0] /\ callbackName'[r0] = callbackName[r0] /\ outcome'[r0] = outcome[r0]
      /\ completed'[r0] = completed[r0] /\ (r0 \in posted' <=> r0 \in posted)
      /\ (r0 \in broken' <=> r0 \in broken)
  BY DEF Sound, TypeOK, Timeout, lifecycle, link, jsonp, results
<1>9. OpeningInv(r0)'
  BY <1>1, <1>2, <1>3, <1>6, <1>7, <1>8 DEF RequestInv, OpeningInv
<1>10. WaitingInv(r0)'
  BY <1>1, <1>2, <1>3, <1>7, <1>8 DEF RequestInv, WaitingInv
<1>11. ClosingInv(r0)' /\ Counted(r0)
  BY <1>1, <1>2, <1>3, <1>6, <1>7, <1>8 DEF RequestInv, ClosingInv, Counted, UnderWay
<1> QED
  BY <1>5, <1>9, <1>10, <1>11 DEF Kept, RequestInv

LEMMA XhrEndsKeeps ==
    ASSUME Sound, NEW r0 \in Requests, XhrEnds(r0)
    PROVE  Kept
<1>1. Follows(agenda, {}, r0) /\ RequestInv(r0)
  BY DEF Sound, Follows, XhrEnds, Idle
<1>2. opts[r0] # None /\ state[r0] # 0 /\ state[r0] \in 0 .. 2
  BY <1>1 DEF Sound, TypeOK, RequestInv, OpeningInv, WaitingInv, XhrEnds
<1>3. PICK new : Posted(new, r0) /\ ((callback[r0] /\ new = {"done"}) \/ (~callback[r0] /\ new = {}))
  <2>1. "success" \in Results /\ "error" \in Results
    BY DEF Results
  <2>2. ASSUME NEW result \in Results
       PROVE  Puts(<<Ends("done", r0, result)>>, {"done"}, r0)
    BY PutsEnds
  <2>3. Puts(<<>>, {}, r0)
    BY PutsNothing
  <2>4. CASE callback[r0]
    BY <2>1, <2>2, <2>4, PostedTask DEF XhrEnds, Idle
  <2>5. CASE ~callback[r0]
    BY <2>3, <2>5, PostedTask DEF XhrEnds, Idle
  <2> QED
    BY <2>4, <2>5
<1>4. \A r \in Requests \ {r0} : SameValues(r)
  BY DEF Sound, TypeOK, SameValues, XhrEnds, lifecycle, link, jsonp, results
<1>5. AgendaInv' /\ View({}, new, agenda, r0) /\ \A r \in Requests \ {r0} : RequestInv(r)' /\ Counted(r)
  <2>1. broken' = broken
    BY DEF XhrEnds
  <2>2. /\ new \cap Opening # {} => {} \cap Opening # {} \/ ~HasAny(agenda, Opening, r0)
        /\ new \cap Closing # {} => {} \cap Closing # {} \/ state[r0] # 2
    BY <1>2, <1>3 DEF Opening, Closing, Finishing
  <2>3. PICK s : Puts(s, new, r0) /\ agenda' = s \o agenda
    BY <1>3 DEF Posted
  <2> QED
    BY <1>1, <1>4, <2>1, <2>2, <2>3, Framed
<1>6. /\ \A what : Has(agenda', what, r0) <=> what \in new \/ Has(agenda, what, r0)
      /\ HasOne(agenda', Opening, r0) /\ HasOne(agenda', Closing, r0)
      /\ \A what \in AtOnce : ~Has(agenda, what, r0)
  BY <1>5 DEF View
<1>7. /\ (HasAny(agenda', Opening, r0) <=> HasAny(agenda, Opening, r0))
      /\ (callback[r0] => HasAny(agenda', Counting, r0))
      /\ (~callback[r0] => (HasAny(agenda', Counting, r0) <=> HasAny(agenda, Counting, r0)))
      /\ (HasAny(agenda', Finishing, r0) <=> HasAny(agenda, Finishing, r0))
      /\ (HasAny(agenda', Closing, r0) <=> HasAny(agenda, Closing, r0))
      /\ (Has(agenda', "start", r0) <=> Has(agenda, "start", r0))
      /\ (Has(agenda', "send", r0) <=> Has(agenda, "send", r0)) /\ (callback[r0] => Has(agenda', "done", r0))
      /\ (~callback[r0] => ~Has(agenda', "done", r0))
      /\ (Has(agenda', "convert", r0) <=> Has(agenda, "convert", r0))
      /\ (Has(agenda', "settle", r0) <=> Has(agenda, "settle", r0))
      /\ (Has(agenda', "stop", r0) <=> Has(agenda, "stop", r0))
  BY <1>3, <1>6, HasKinds DEF AtOnce
<1>8. /\ state'[r0] = state[r0] /\ opts'[r0] = opts[r0] /\ fireGlobals'[r0] = fireGlobals[r0]
      /\ timer'[r0] = timer[r0] /\ transport'[r0] = transport[r0] /\ callback'[r0] = FALSE
      /\ net'[r0] = "over" /\ callbackName'[r0] = callbackName[r0] /\ outcome'[r0] = outcome[r0]
      /\ completed'[r0] = completed[r0] /\ (r0 \in broken' <=> r0 \in broken)
  BY DEF Sound, TypeOK, XhrEnds, lifecycle, link, jsonp, results
<1>9. OpeningInv(r0)'
  BY <1>1, <1>2, <1>3, <1>6, <1>7, <1>8 DEF RequestInv, OpeningInv
<1>10. WaitingInv(r0)'
  BY <1>1, <1>2, <1>3, <1>7, <1>8 DEF RequestInv, WaitingInv
<1>11. ClosingInv(r0)' /\ Counted(r0)
  BY <1>1, <1>2, <1>3, <1>6, <1>7, <1>8 DEF RequestInv, ClosingInv, Counted, UnderWay
<1> QED
  BY <1>5, <1>9, <1>10, <1>11 DEF Kept, RequestInv

LEMMA XhrVanishesKeeps ==
    ASSUME Sound, NEW r0 \in Requests, XhrVanishes(r0)
    PROVE  Kept
<1>1. Follows(agenda, {}, r0) /\ RequestInv(r0)
  BY DEF Sound, Follows, XhrVanishes, Idle
<1>2. opts[r0] # None /\ state[r0] # 0 /\ state[r0] \in 0 .. 2
  BY <1>1 DEF Sound, TypeOK, RequestInv, OpeningInv, WaitingInv, XhrVanishes
<1>3. PICK new : Posted(new, r0) /\ new = {}
  <2>1. Puts(<<>>, {}, r0)
    BY PutsNothing
  <2> QED
    BY <2>1, PostedTask DEF XhrVanishes, Idle
<1>4. \A r \in Requests \ {r0} : SameValues(r)
  BY DEF Sound, TypeOK, SameValues, XhrVanishes, lifecycle, link, jsonp, results
<1>5. AgendaInv' /\ View({}, new, agenda, r0) /\ \A r \in Requests \ {r0} : RequestInv(r)' /\ Counted(r)
  <2>1. broken' = broken
    BY DEF XhrVanishes
  <2>2. /\ new \cap Opening # {} => {} \cap Opening # {} \/ ~HasAny(agenda, Opening, r0)
        /\ new \cap Closing # {} => {} \cap Closing # {} \/ state[r0] # 2
    BY <1>2, <1>3 DEF Opening, Closing, Finishing
  <2>3. PICK s : Puts(s, new, r0) /\ agenda' = s \o agenda
    BY <1>3 DEF Posted
  <2> QED
    BY <1>1, <1>4, <2>1, <2>2, <2>3, Framed
<1>6. /\ \A what : Has(agenda', what, r0) <=> what \in new \/ Has(agenda, what, r0)
      /\ HasOne(agenda', Opening, r0) /\ HasOne(agenda', Closing, r0)
      /\ \A what \in AtOnce : ~Has(agenda, what, r0)
  BY <1>5 DEF View
<1>7. /\ (HasAny(agenda', Opening, r0) <=> HasAny(agenda, Opening, r0))
      /\ (HasAny(agenda', Counting, r0) <=> HasAny(agenda, Counting, r0))
      /\ (HasAny(agenda', Finishing, r0) <=> HasAny(agenda, Finishing, r0))
      /\ (HasAny(agenda', Closing, r0) <=> HasAny(agenda, Closing, r0))
      /\ (Has(agenda', "start", r0) <=> Has(agenda, "start", r0))
      /\ (Has(agenda', "send", r0) <=> Has(agenda, "send", r0)) /\ ~Has(agenda', "done", r0)
      /\ (Has(agenda', "convert", r0) <=> Has(agenda, "convert", r0))
      /\ (Has(agenda', "settle", r0) <=> Has(agenda, "settle", r0))
      /\ (Has(agenda', "stop", r0) <=> Has(agenda, "stop", r0))
  BY <1>3, <1>6, HasKinds DEF AtOnce
<1>8. /\ state'[r0] = state[r0] /\ opts'[r0] = opts[r0] /\ fireGlobals'[r0] = fireGlobals[r0]
      /\ timer'[r0] = timer[r0] /\ transport'[r0] = transport[r0] /\ callback'[r0] = callback[r0]
      /\ net'[r0] = "over" /\ callbackName'[r0] = callbackName[r0] /\ outcome'[r0] = outcome[r0]
      /\ completed'[r0] = completed[r0] /\ (r0 \in broken' <=> r0 \in broken)
  BY DEF Sound, TypeOK, XhrVanishes, lifecycle, link, jsonp, results
<1>9. OpeningInv(r0)'
  BY <1>1, <1>2, <1>3, <1>6, <1>7, <1>8 DEF RequestInv, OpeningInv
<1>10. WaitingInv(r0)'
  BY <1>1, <1>2, <1>3, <1>7, <1>8 DEF RequestInv, WaitingInv
<1>11. ClosingInv(r0)' /\ Counted(r0)
  BY <1>1, <1>2, <1>3, <1>6, <1>7, <1>8 DEF RequestInv, ClosingInv, Counted, UnderWay
<1> QED
  BY <1>5, <1>9, <1>10, <1>11 DEF Kept, RequestInv

LEMMA PostedErrorKeeps ==
    ASSUME Sound, NEW r0 \in Requests, PostedError(r0)
    PROVE  Kept
<1>1. Follows(agenda, {}, r0) /\ RequestInv(r0)
  BY DEF Sound, Follows, PostedError, Idle
<1>2. opts[r0] # None /\ state[r0] # 0 /\ state[r0] \in 0 .. 2
  BY <1>1 DEF Sound, TypeOK, RequestInv, OpeningInv, WaitingInv, PostedError
<1>3. PICK new : Posted(new, r0) /\ ((callback[r0] /\ new = {"done"}) \/ (~callback[r0] /\ new = {}))
  <2>1. "success" \in Results /\ "error" \in Results
    BY DEF Results
  <2>2. ASSUME NEW result \in Results
       PROVE  Puts(<<Ends("done", r0, result)>>, {"done"}, r0)
    BY PutsEnds
  <2>3. Puts(<<>>, {}, r0)
    BY PutsNothing
  <2>4. CASE callback[r0]
    BY <2>1, <2>2, <2>4, PostedTask DEF PostedError, Idle
  <2>5. CASE ~callback[r0]
    BY <2>3, <2>5, PostedTask DEF PostedError, Idle
  <2> QED
    BY <2>4, <2>5
<1>4. \A r \in Requests \ {r0} : SameValues(r)
  BY DEF Sound, TypeOK, SameValues, PostedError, lifecycle, link, jsonp, results
<1>5. AgendaInv' /\ View({}, new, agenda, r0) /\ \A r \in Requests \ {r0} : RequestInv(r)' /\ Counted(r)
  <2>1. broken' = broken
    BY DEF PostedError
  <2>2. /\ new \cap Opening # {} => {} \cap Opening # {} \/ ~HasAny(agenda, Opening, r0)
        /\ new \cap Closing # {} => {} \cap Closing # {} \/ state[r0] # 2
    BY <1>2, <1>3 DEF Opening, Closing, Finishing
  <2>3. PICK s : Puts(s, new, r0) /\ agenda' = s \o agenda
    BY <1>3 DEF Posted
  <2> QED
    BY <1>1, <1>4, <2>1, <2>2, <2>3, Framed
<1>6. /\ \A what : Has(agenda', what, r0) <=> what \in new \/ Has(agenda, what, r0)
      /\ HasOne(agenda', Opening, r0) /\ HasOne(agenda', Closing, r0)
      /\ \A what \in AtOnce : ~Has(agenda, what, r0)
  BY <1>5 DEF View
<1>7. /\ (HasAny(agenda', Opening, r0) <=> HasAny(agenda, Opening, r0))
      /\ (callback[r0] => HasAny(agenda', Counting, r0))
      /\ (~callback[r0] => (HasAny(agenda', Counting, r0) <=> HasAny(agenda, Counting, r0)))
      /\ (HasAny(agenda', Finishing, r0) <=> HasAny(agenda, Finishing, r0))
      /\ (HasAny(agenda', Closing, r0) <=> HasAny(agenda, Closing, r0))
      /\ (Has(agenda', "start", r0) <=> Has(agenda, "start", r0))
      /\ (Has(agenda', "send", r0) <=> Has(agenda, "send", r0)) /\ (callback[r0] => Has(agenda', "done", r0))
      /\ (~callback[r0] => ~Has(agenda', "done", r0))
      /\ (Has(agenda', "convert", r0) <=> Has(agenda, "convert", r0))
      /\ (Has(agenda', "settle", r0) <=> Has(agenda, "settle", r0))
      /\ (Has(agenda', "stop", r0) <=> Has(agenda, "stop", r0))
  BY <1>3, <1>6, HasKinds DEF AtOnce
<1>8. /\ state'[r0] = state[r0] /\ opts'[r0] = opts[r0] /\ fireGlobals'[r0] = fireGlobals[r0]
      /\ timer'[r0] = timer[r0] /\ transport'[r0] = transport[r0] /\ callback'[r0] = FALSE
      /\ net'[r0] = net[r0] /\ callbackName'[r0] = callbackName[r0] /\ outcome'[r0] = outcome[r0]
      /\ completed'[r0] = completed[r0] /\ (r0 \in broken' <=> r0 \in broken)
  BY DEF Sound, TypeOK, PostedError, lifecycle, link, jsonp, results
<1>9. OpeningInv(r0)'
  BY <1>1, <1>2, <1>3, <1>6, <1>7, <1>8 DEF RequestInv, OpeningInv
<1>10. WaitingInv(r0)'
  BY <1>1, <1>2, <1>3, <1>7, <1>8 DEF RequestInv, WaitingInv
<1>11. ClosingInv(r0)' /\ Counted(r0)
  BY <1>1, <1>2, <1>3, <1>6, <1>7, <1>8 DEF RequestInv, ClosingInv, Counted, UnderWay
<1> QED
  BY <1>5, <1>9, <1>10, <1>11 DEF Kept, RequestInv

LEMMA ScriptLoadsKeeps ==
    ASSUME Sound, NEW r0 \in Requests, NEW answers \in BOOLEAN, ScriptLoads(r0, answers)
    PROVE  Kept
<1>1. Follows(agenda, {}, r0) /\ RequestInv(r0)
  BY DEF Sound, Follows, ScriptLoads, Idle
<1>2. opts[r0] # None /\ state[r0] # 0 /\ state[r0] \in 0 .. 2
  BY <1>1 DEF Sound, TypeOK, RequestInv, OpeningInv, WaitingInv, ScriptLoads
<1>3. PICK new : Posted(new, r0) /\ ((callback[r0] /\ new = {"done"}) \/ (~callback[r0] /\ new = {}))
  <2>1. "success" \in Results /\ "error" \in Results
    BY DEF Results
  <2>2. ASSUME NEW result \in Results
       PROVE  Puts(<<Ends("done", r0, result)>>, {"done"}, r0)
    BY PutsEnds
  <2>3. Puts(<<>>, {}, r0)
    BY PutsNothing
  <2>4. CASE callback[r0]
    BY <2>1, <2>2, <2>4, PostedTask DEF ScriptLoads, Idle
  <2>5. CASE ~callback[r0]
    BY <2>3, <2>5, PostedTask DEF ScriptLoads, Idle
  <2> QED
    BY <2>4, <2>5
<1>4. \A r \in Requests \ {r0} : SameValues(r)
  BY DEF Sound, TypeOK, SameValues, ScriptLoads, ScriptRuns, lifecycle, results
<1>5. AgendaInv' /\ View({}, new, agenda, r0) /\ \A r \in Requests \ {r0} : RequestInv(r)' /\ Counted(r)
  <2>1. broken' = broken
    BY DEF ScriptLoads
  <2>2. /\ new \cap Opening # {} => {} \cap Opening # {} \/ ~HasAny(agenda, Opening, r0)
        /\ new \cap Closing # {} => {} \cap Closing # {} \/ state[r0] # 2
    BY <1>2, <1>3 DEF Opening, Closing, Finishing
  <2>3. PICK s : Puts(s, new, r0) /\ agenda' = s \o agenda
    BY <1>3 DEF Posted
  <2> QED
    BY <1>1, <1>4, <2>1, <2>2, <2>3, Framed
<1>6. /\ \A what : Has(agenda', what, r0) <=> what \in new \/ Has(agenda, what, r0)
      /\ HasOne(agenda', Opening, r0) /\ HasOne(agenda', Closing, r0)
      /\ \A what \in AtOnce : ~Has(agenda, what, r0)
  BY <1>5 DEF View
<1>7. /\ (HasAny(agenda', Opening, r0) <=> HasAny(agenda, Opening, r0))
      /\ (callback[r0] => HasAny(agenda', Counting, r0))
      /\ (~callback[r0] => (HasAny(agenda', Counting, r0) <=> HasAny(agenda, Counting, r0)))
      /\ (HasAny(agenda', Finishing, r0) <=> HasAny(agenda, Finishing, r0))
      /\ (HasAny(agenda', Closing, r0) <=> HasAny(agenda, Closing, r0))
      /\ (Has(agenda', "start", r0) <=> Has(agenda, "start", r0))
      /\ (Has(agenda', "send", r0) <=> Has(agenda, "send", r0)) /\ (callback[r0] => Has(agenda', "done", r0))
      /\ (~callback[r0] => ~Has(agenda', "done", r0))
      /\ (Has(agenda', "convert", r0) <=> Has(agenda, "convert", r0))
      /\ (Has(agenda', "settle", r0) <=> Has(agenda, "settle", r0))
      /\ (Has(agenda', "stop", r0) <=> Has(agenda, "stop", r0))
  BY <1>3, <1>6, HasKinds DEF AtOnce
<1>8. /\ state'[r0] = state[r0] /\ opts'[r0] = opts[r0] /\ fireGlobals'[r0] = fireGlobals[r0]
      /\ timer'[r0] = timer[r0] /\ transport'[r0] = transport[r0] /\ callback'[r0] = FALSE
      /\ callbackName'[r0] = callbackName[r0] /\ outcome'[r0] = outcome[r0]
      /\ completed'[r0] = completed[r0] /\ (r0 \in posted' <=> r0 \in posted)
      /\ (r0 \in broken' <=> r0 \in broken)
      /\ net'[r0] \in {"over", "silent"}
  BY DEF Sound, TypeOK, ScriptLoads, ScriptRuns, lifecycle, results
<1>9. OpeningInv(r0)'
  BY <1>1, <1>2, <1>3, <1>6, <1>7, <1>8 DEF RequestInv, OpeningInv
<1>10. WaitingInv(r0)'
  BY <1>1, <1>2, <1>3, <1>7, <1>8 DEF RequestInv, WaitingInv
<1>11. ClosingInv(r0)' /\ Counted(r0)
  BY <1>1, <1>2, <1>3, <1>6, <1>7, <1>8 DEF RequestInv, ClosingInv, Counted, UnderWay
<1> QED
  BY <1>5, <1>9, <1>10, <1>11 DEF Kept, RequestInv

LEMMA ScriptFailsKeeps ==
    ASSUME Sound, NEW r0 \in Requests, ScriptFails(r0)
    PROVE  Kept
<1>1. Follows(agenda, {}, r0) /\ RequestInv(r0)
  BY DEF Sound, Follows, ScriptFails, Idle
<1>2. opts[r0] # None /\ state[r0] # 0 /\ state[r0] \in 0 .. 2
  BY <1>1 DEF Sound, TypeOK, RequestInv, OpeningInv, WaitingInv, ScriptFails
<1>3. PICK new : Posted(new, r0) /\ ((callback[r0] /\ new = {"done"}) \/ (~callback[r0] /\ new = {}))
  <2>1. "success" \in Results /\ "error" \in Results
    BY DEF Results
  <2>2. ASSUME NEW result \in Results
       PROVE  Puts(<<Ends("done", r0, result)>>, {"done"}, r0)
    BY PutsEnds
  <2>3. Puts(<<>>, {}, r0)
    BY PutsNothing
  <2>4. CASE callback[r0]
    BY <2>1, <2>2, <2>4, PostedTask DEF ScriptFails, Idle
  <2>5. CASE ~callback[r0]
    BY <2>3, <2>5, PostedTask DEF ScriptFails, Idle
  <2> QED
    BY <2>4, <2>5
<1>4. \A r \in Requests \ {r0} : SameValues(r)
  BY DEF Sound, TypeOK, SameValues, ScriptFails, lifecycle, link, jsonp, results
<1>5. AgendaInv' /\ View({}, new, agenda, r0) /\ \A r \in Requests \ {r0} : RequestInv(r)' /\ Counted(r)
  <2>1. broken' = broken
    BY DEF ScriptFails
  <2>2. /\ new \cap Opening # {} => {} \cap Opening # {} \/ ~HasAny(agenda, Opening, r0)
        /\ new \cap Closing # {} => {} \cap Closing # {} \/ state[r0] # 2
    BY <1>2, <1>3 DEF Opening, Closing, Finishing
  <2>3. PICK s : Puts(s, new, r0) /\ agenda' = s \o agenda
    BY <1>3 DEF Posted
  <2> QED
    BY <1>1, <1>4, <2>1, <2>2, <2>3, Framed
<1>6. /\ \A what : Has(agenda', what, r0) <=> what \in new \/ Has(agenda, what, r0)
      /\ HasOne(agenda', Opening, r0) /\ HasOne(agenda', Closing, r0)
      /\ \A what \in AtOnce : ~Has(agenda, what, r0)
  BY <1>5 DEF View
<1>7. /\ (HasAny(agenda', Opening, r0) <=> HasAny(agenda, Opening, r0))
      /\ (callback[r0] => HasAny(agenda', Counting, r0))
      /\ (~callback[r0] => (HasAny(agenda', Counting, r0) <=> HasAny(agenda, Counting, r0)))
      /\ (HasAny(agenda', Finishing, r0) <=> HasAny(agenda, Finishing, r0))
      /\ (HasAny(agenda', Closing, r0) <=> HasAny(agenda, Closing, r0))
      /\ (Has(agenda', "start", r0) <=> Has(agenda, "start", r0))
      /\ (Has(agenda', "send", r0) <=> Has(agenda, "send", r0)) /\ (callback[r0] => Has(agenda', "done", r0))
      /\ (~callback[r0] => ~Has(agenda', "done", r0))
      /\ (Has(agenda', "convert", r0) <=> Has(agenda, "convert", r0))
      /\ (Has(agenda', "settle", r0) <=> Has(agenda, "settle", r0))
      /\ (Has(agenda', "stop", r0) <=> Has(agenda, "stop", r0))
  BY <1>3, <1>6, HasKinds DEF AtOnce
<1>8. /\ state'[r0] = state[r0] /\ opts'[r0] = opts[r0] /\ fireGlobals'[r0] = fireGlobals[r0]
      /\ timer'[r0] = timer[r0] /\ transport'[r0] = transport[r0] /\ callback'[r0] = FALSE
      /\ net'[r0] = "over" /\ callbackName'[r0] = callbackName[r0] /\ outcome'[r0] = outcome[r0]
      /\ completed'[r0] = completed[r0] /\ (r0 \in posted' <=> r0 \in posted)
      /\ (r0 \in broken' <=> r0 \in broken)
  BY DEF Sound, TypeOK, ScriptFails, lifecycle, link, jsonp, results
<1>9. OpeningInv(r0)'
  BY <1>1, <1>2, <1>3, <1>6, <1>7, <1>8 DEF RequestInv, OpeningInv
<1>10. WaitingInv(r0)'
  BY <1>1, <1>2, <1>3, <1>7, <1>8 DEF RequestInv, WaitingInv
<1>11. ClosingInv(r0)' /\ Counted(r0)
  BY <1>1, <1>2, <1>3, <1>6, <1>7, <1>8 DEF RequestInv, ClosingInv, Counted, UnderWay
<1> QED
  BY <1>5, <1>9, <1>10, <1>11 DEF Kept, RequestInv

LEMMA PageReturnsKeeps ==
    ASSUME Sound, PageReturns
    PROVE  Kept
<1>1. /\ agenda # <<>> /\ Todo.do = "page" /\ agenda \in Seq(StepSpace) /\ Tail(agenda) \in Seq(StepSpace)
      /\ Proper(agenda) /\ Proper(Tail(agenda)) /\ Todo = agenda[1] /\ 1 \in 1 .. Len(agenda)
  BY TailProper DEF Sound, PageReturns, Now, Todo, AgendaInv
<1>2. Todo.req = None
  BY <1>1 DEF Proper
<1>3. agenda' = Tail(agenda)
  BY <1>1 DEF PageReturns, Then
<1>4. AgendaInv'
  BY <1>1, <1>3, ProperAgenda DEF Sound, PageReturns
<1>5. ASSUME NEW r \in Requests
      PROVE  RequestInv(r)' /\ Counted(r)
  <2>1. SameSteps(r)
    BY <1>1, <1>2, <1>3, HasHead, AjaxAssumption DEF SameSteps, Todo
  <2>2. SameValues(r)
    BY DEF PageReturns, SameValues, lifecycle, link, jsonp, results
  <2> QED
    BY <2>1, <2>2, RequestStays DEF Sound
<1> QED
  BY <1>4, <1>5 DEF Kept

\* What an exception takes off the agenda is of requests that count as broken from then on.
LEMMA UnwoundKeeps ==
    ASSUME Sound, Unwound, Now("page") \/ Now("convert"), UNCHANGED <<lifecycle, link, active, jsonp, results>>
    PROVE  Kept /\ broken \subseteq broken'
<1>1. PICK kept \in 1 .. Len(agenda) :
        /\ agenda' = SubSeq(agenda, kept + 1, Len(agenda))
        /\ broken' = broken \cup {agenda[i].req : i \in {j \in 1 .. kept :
                                    agenda[j].do \notin {"page", "abort", "sent"}}}
  BY DEF Unwound
<1>2. agenda \in Seq(StepSpace) /\ Len(agenda) \in Nat /\ Proper(agenda) /\ broken \subseteq Requests
  BY ProperAgenda DEF Sound, Proper
<1>3. /\ agenda' \in Seq(StepSpace) /\ Len(agenda') = Len(agenda) - kept
      /\ \A i \in 1 .. Len(agenda') : i + kept \in 1 .. Len(agenda) /\ i + kept # 1 /\ agenda'[i] = agenda[i + kept]
  BY <1>1, <1>2
<1>4. \A i \in 1 .. Len(agenda) : agenda[i].do # "abort"
  BY <1>2 DEF Proper, AtOnce, Now
<1>5. Proper(agenda')
  <2>1. ASSUME NEW i \in 1 .. Len(agenda')
        PROVE  /\ agenda'[i].req = None <=> agenda'[i].do = "page"
               /\ agenda'[i].do \in {"abort", "done", "convert", "settle"} => agenda'[i].result # None
               /\ agenda'[i].do = "abort" => agenda'[i].result # "success"
               /\ agenda'[i].do \notin AtOnce /\ agenda'[i].do # "evaluate"
    <3>1. i + kept \in 1 .. Len(agenda) /\ i + kept # 1 /\ agenda'[i] = agenda[i + kept]
      BY <1>1, <1>2, <1>3
    <3> QED
      BY <1>2, <3>1 DEF Proper, AtOnce
  <2> QED
    BY <1>3, <2>1 DEF Proper
<1>6. broken \subseteq broken' /\ broken' \subseteq Requests
  <2>1. ASSUME NEW i \in 1 .. kept, agenda[i].do \notin {"page", "abort", "sent"}
        PROVE  agenda[i].req \in Requests
    <3>1. i \in 1 .. Len(agenda) /\ agenda[i] \in StepSpace
      BY <1>1, <1>2
    <3> QED
      BY <1>2, <2>1, <3>1 DEF Proper, StepSpace
  <2> QED
    BY <1>1, <1>2, <2>1
<1>7. AgendaInv'
  BY <1>5, <1>6, ProperAgenda
<1>8. ASSUME NEW r \in Requests
      PROVE  RequestInv(r)' /\ Counted(r)
  <2>1. ASSUME NEW what, Has(agenda', what, r)
        PROVE  Has(agenda, what, r)
    <3>1. PICK i \in 1 .. Len(agenda') : agenda'[i].do = what /\ agenda'[i].req = r
      BY <2>1 DEF Has
    <3>2. i + kept \in 1 .. Len(agenda) /\ agenda[i + kept] = agenda'[i]
      BY <1>1, <1>2, <1>3
    <3> QED
      BY <3>1, <3>2 DEF Has
  <2>2. ASSUME NEW what, Has(agenda, what, r), r \notin broken', what \notin {"page", "abort", "sent"}
        PROVE  Has(agenda', what, r)
    <3>1. PICK i \in 1 .. Len(agenda) : agenda[i].do = what /\ agenda[i].req = r
      BY <2>2 DEF Has
    <3>2. i \notin 1 .. kept
      BY <1>1, <2>2, <3>1
    <3>3. i - kept \in 1 .. Len(agenda') /\ agenda'[i - kept] = agenda[i]
      BY <1>1, <1>2, <1>3, <3>2
    <3> QED
      BY <3>1, <3>3 DEF Has
  <2>3. ASSUME NEW whats, HasOne(agenda, whats, r)
        PROVE  HasOne(agenda', whats, r)
    <3>1. SUFFICES ASSUME NEW i \in 1 .. Len(agenda'), NEW j \in 1 .. Len(agenda'),
                          agenda'[i].do \in whats, agenda'[j].do \in whats, agenda'[i].req = r, agenda'[j].req = r
                   PROVE  i = j
      BY DEF HasOne
    <3>2. /\ i + kept \in 1 .. Len(agenda) /\ j + kept \in 1 .. Len(agenda)
          /\ agenda[i + kept] = agenda'[i] /\ agenda[j + kept] = agenda'[j]
      BY <1>3
    <3>3. i + kept = j + kept
      BY <2>3, <3>1, <3>2 DEF HasOne
    <3> QED
      BY <1>1, <3>3
  <2>4. RequestInv(r) /\ ~Has(agenda, "abort", r)
    BY <1>4 DEF Sound, Has
  <2>5. /\ HasAny(agenda', Opening, r) => HasAny(agenda, Opening, r)
        /\ HasAny(agenda', Closing, r) => HasAny(agenda, Closing, r)
        /\ HasAny(agenda', Finishing, r) => HasAny(agenda, Finishing, r)
        /\ HasAny(agenda', Whats, r) => HasAny(agenda, Whats, r)
    BY <2>1 DEF HasAny
  <2>6. r \notin broken' =>
          /\ HasAny(agenda, Closing, r) => HasAny(agenda', Closing, r)
          /\ HasAny(agenda, Finishing, r) => HasAny(agenda', Finishing, r)
          /\ HasAny(agenda, Counting, r) => HasAny(agenda', Counting, r)
    BY <2>2, <2>4, HasKinds
  <2>7. OpeningInv(r)'
    BY <1>6, <2>1, <2>3, <2>4, <2>5, <2>6 DEF RequestInv, OpeningInv, lifecycle, jsonp
  <2>8. WaitingInv(r)'
    BY <2>1, <2>4 DEF RequestInv, WaitingInv, lifecycle, link
  <2>9. ClosingInv(r)'
    BY <1>6, <2>1, <2>3, <2>4, <2>5, <2>6 DEF RequestInv, ClosingInv, lifecycle, results
  <2>10. Counted(r)
    BY <2>5, <2>6 DEF Counted, UnderWay, lifecycle
  <2> QED
    BY <2>7, <2>8, <2>9, <2>10 DEF RequestInv
<1> QED
  BY <1>6, <1>7, <1>8 DEF Kept

(***************************************************************************)
(* The counter: which requests it counts.                                  *)
(***************************************************************************)

LEMMA CountStays ==
    ASSUME CountInv, \A r \in Requests : Counted(r), broken \subseteq broken', active' = active
    PROVE  CountInv'
<1>1. PICK counted \in SUBSET Requests :
        /\ active = Cardinality(counted)
        /\ \A r \in Requests :
             /\ fireGlobals[r] /\ UnderWay(r) => r \in counted
             /\ r \in counted => fireGlobals[r] /\ (UnderWay(r) \/ r \in broken)
  BY DEF CountInv
<1>2. ASSUME NEW r \in Requests
      PROVE  /\ fireGlobals'[r] /\ UnderWay(r)' => r \in counted
             /\ r \in counted => fireGlobals'[r] /\ (UnderWay(r)' \/ r \in broken')
  BY <1>1 DEF Counted
<1> QED
  BY <1>1, <1>2 DEF CountInv

LEMMA StartCounts ==
    ASSUME Sound, CountInv, Start
    PROVE  CountInv'
<1>1. PICK r0 \in Requests : r0 = Todo.req /\ Has(agenda, "start", r0)
  <2>1. PICK r0 \in Requests : r0 = Todo.req
    BY HeadOf DEF Sound, Start
  <2>2. 1 \in 1 .. Len(agenda) /\ Todo = agenda[1] /\ agenda[1].do = "start"
    BY TailProper DEF Sound, Start, Now, Todo, AgendaInv
  <2> QED
    BY <2>1, <2>2 DEF Has
<1>2. ~fireGlobals[r0]
  BY <1>1 DEF Sound, RequestInv, OpeningInv
<1>3. /\ fireGlobals' = [fireGlobals EXCEPT ![r0] = CountsFrom(r0)]
      /\ active' = IF CountsFrom(r0) THEN active + 1 ELSE active
      /\ state' = state /\ broken' = broken
  BY <1>1 DEF Start, lifecycle
<1>4. \A r \in Requests : r # r0 => Counted(r)
  BY <1>1, StartKeeps
<1>5. PICK counted \in SUBSET Requests :
        /\ active = Cardinality(counted)
        /\ \A r \in Requests :
             /\ fireGlobals[r] /\ UnderWay(r) => r \in counted
             /\ r \in counted => fireGlobals[r] /\ (UnderWay(r) \/ r \in broken)
  BY DEF CountInv
<1>6. IsFiniteSet(counted)
  BY FS_Subset, AjaxAssumption
<1>7. CASE CountsFrom(r0)
  <2>1. r0 \notin counted
    BY <1>2, <1>5
  <2>2. Cardinality(counted \cup {r0}) = active'
    BY <1>3, <1>5, <1>6, <1>7, <2>1, FS_AddElement
  <2>3. fireGlobals'[r0] /\ UnderWay(r0)'
    BY <1>3, <1>7 DEF Sound, TypeOK, CountsFrom, UnderWay
  <2>4. ASSUME NEW r \in Requests
        PROVE  /\ fireGlobals'[r] /\ UnderWay(r)' => r \in counted \cup {r0}
               /\ r \in counted \cup {r0} => fireGlobals'[r] /\ (UnderWay(r)' \/ r \in broken')
    BY <1>3, <1>4, <1>5, <2>3 DEF Counted
  <2> QED
    BY <2>2, <2>4 DEF CountInv
<1>8. CASE ~CountsFrom(r0)
  <2>1. ~fireGlobals'[r0] /\ r0 \notin counted
    BY <1>2, <1>3, <1>5, <1>8 DEF Sound, TypeOK
  <2>2. ASSUME NEW r \in Requests
        PROVE  /\ fireGlobals'[r] /\ UnderWay(r)' => r \in counted
               /\ r \in counted => fireGlobals'[r] /\ (UnderWay(r)' \/ r \in broken')
    BY <1>3, <1>4, <1>5, <2>1 DEF Counted
  <2> QED
    BY <1>3, <1>5, <1>8, <2>2 DEF CountInv
<1> QED
  BY <1>7, <1>8

LEMMA StopCounts ==
    ASSUME Sound, CountInv, Stop
    PROVE  CountInv' /\ active' \in Nat
<1>1. PICK r0 \in Requests : r0 = Todo.req
  BY HeadOf DEF Sound, Stop
<1>2. active' = active - 1 /\ broken' = broken
  BY DEF Stop
<1>3. /\ \A r \in Requests : r # r0 => Counted(r)
      /\ fireGlobals[r0] /\ UnderWay(r0) /\ ~UnderWay(r0)'
  BY <1>1, StopKeeps
<1>4. PICK counted \in SUBSET Requests :
        /\ active = Cardinality(counted)
        /\ \A r \in Requests :
             /\ fireGlobals[r] /\ UnderWay(r) => r \in counted
             /\ r \in counted => fireGlobals[r] /\ (UnderWay(r) \/ r \in broken)
  BY DEF CountInv
<1>5. IsFiniteSet(counted) /\ r0 \in counted
  BY <1>3, <1>4, FS_Subset, AjaxAssumption
<1>6. Cardinality(counted \ {r0}) = active' /\ active' \in Nat
  <2>1. IsFiniteSet(counted \ {r0})
    BY <1>5, FS_Subset
  <2> QED
    BY <1>2, <1>4, <1>5, <2>1, FS_RemoveElement, FS_CardinalityType
<1>7. ASSUME NEW r \in Requests
      PROVE  /\ fireGlobals'[r] /\ UnderWay(r)' => r \in counted \ {r0}
             /\ r \in counted \ {r0} => fireGlobals'[r] /\ (UnderWay(r)' \/ r \in broken')
  BY <1>2, <1>3, <1>4 DEF Counted
<1> QED
  BY <1>6, <1>7 DEF CountInv

(***************************************************************************)
(* Every step: the agenda, the requests and the counter.                   *)
(***************************************************************************)

LEMMA EngineKeeps ==
    ASSUME Sound, CountInv, Engine
    PROVE  AgendaInv' /\ (\A r \in Requests : RequestInv(r)') /\ CountInv'
<1>1. CASE PageReturns
  BY <1>1, PageReturnsKeeps, CountStays DEF Kept, PageReturns
<1>2. CASE Start
  BY <1>2, StartKeeps, StartCounts
<1>3. CASE Configure
  BY <1>3, ConfigureKeeps, CountStays DEF Kept, Configure
<1>4. CASE Judge
  BY <1>4, JudgeKeeps, CountStays DEF Kept, Judge
<1>5. CASE Open
  BY <1>5, OpenKeeps, CountStays DEF Kept, Open
<1>6. CASE Send
  BY <1>6, SendKeeps, CountStays DEF Kept, Send, SendWith
<1>7. CASE SendSync
  BY <1>7, SendSyncKeeps, CountStays DEF Kept, SendSync, SendWith
<1>8. CASE SendThrows
  BY <1>8, SendThrowsKeeps, CountStays DEF Kept, SendThrows, SendWith
<1>9. CASE SendNothing
  BY <1>9, SendNothingKeeps, CountStays DEF Kept, SendNothing
<1>10. CASE Sent
  BY <1>10, SentKeeps, CountStays DEF Kept, Sent
<1>11. CASE Abort
  BY <1>11, AbortKeeps, CountStays DEF Kept, Abort
<1>12. CASE Done
  BY <1>12, DoneKeeps, CountStays DEF Kept, Done
<1>13. CASE Evaluate
  BY <1>13, EvaluateKeeps, CountStays DEF Kept, Evaluate
<1>14. CASE Convert
  BY <1>14, ConvertKeeps, CountStays DEF Kept, Convert
<1>15. CASE Settle
  BY <1>15, SettleKeeps, CountStays DEF Kept, Settle
<1>16. CASE Complete
  BY <1>16, CompleteKeeps, CountStays DEF Kept, Complete
<1>17. CASE Stop
  BY <1>17, StopKeeps, StopCounts
<1> QED
  BY <1>1, <1>2, <1>3, <1>4, <1>5, <1>6, <1>7, <1>8, <1>9, <1>10, <1>11, <1>12, <1>13, <1>14,
     <1>15, <1>16, <1>17 DEF Engine

LEMMA StepKeeps ==
    ASSUME Sound, CountInv, [Next]_vars
    PROVE  AgendaInv' /\ (\A r \in Requests : RequestInv(r)') /\ CountInv'
<1>1. CASE Page
  <2>1. PICK r0 \in Requests : PageAborts(r0) \/ \E o \in Options : Ajax(r0, o)
    BY <1>1 DEF Page
  <2>2. CASE PageAborts(r0)
    BY <2>2, PageAbortsKeeps, CountStays DEF Kept, PageAborts
  <2>3. ASSUME NEW o \in Options, Ajax(r0, o)
        PROVE  AgendaInv' /\ (\A r \in Requests : RequestInv(r)') /\ CountInv'
    BY <2>3, AjaxKeeps, CountStays DEF Kept, Ajax
  <2> QED
    BY <2>1, <2>2, <2>3
<1>2. CASE PageThrows
  BY <1>2, UnwoundKeeps, CountStays DEF Kept, PageThrows
<1>3. CASE ConvertThrows
  BY <1>3, UnwoundKeeps, CountStays DEF Kept, ConvertThrows
<1>4. CASE Engine
  BY <1>4, EngineKeeps
<1>5. CASE Network
  <2>1. PICK r0 \in Requests :
          \/ XhrEnds(r0) \/ XhrVanishes(r0) \/ PostedError(r0)
          \/ ScriptFails(r0) \/ \E answers \in BOOLEAN : ScriptLoads(r0, answers)
    BY <1>5 DEF Network
  <2>2. CASE XhrEnds(r0)
    BY <2>2, XhrEndsKeeps, CountStays DEF Kept, XhrEnds
  <2>3. CASE XhrVanishes(r0)
    BY <2>3, XhrVanishesKeeps, CountStays DEF Kept, XhrVanishes
  <2>4. CASE PostedError(r0)
    BY <2>4, PostedErrorKeeps, CountStays DEF Kept, PostedError
  <2>5. CASE ScriptFails(r0)
    BY <2>5, ScriptFailsKeeps, CountStays DEF Kept, ScriptFails
  <2>6. ASSUME NEW answers \in BOOLEAN, ScriptLoads(r0, answers)
        PROVE  AgendaInv' /\ (\A r \in Requests : RequestInv(r)') /\ CountInv'
    BY <2>6, ScriptLoadsKeeps, CountStays DEF Kept, ScriptLoads
  <2> QED
    BY <2>1, <2>2, <2>3, <2>4, <2>5, <2>6
<1>6. ASSUME NEW r0 \in Requests, Timeout(r0)
      PROVE  AgendaInv' /\ (\A r \in Requests : RequestInv(r)') /\ CountInv'
  BY <1>6, TimeoutKeeps, CountStays DEF Kept, Timeout
<1>7. CASE UNCHANGED vars
  <2>1. ASSUME NEW r \in Requests
        PROVE  RequestInv(r)' /\ Counted(r)
    BY <1>7, RequestStays DEF Sound, SameSteps, SameValues, vars, lifecycle, link, jsonp, results
  <2>2. AgendaInv'
    BY <1>7, ProperAgenda DEF Sound, vars
  <2> QED
    BY <1>7, <2>1, <2>2, CountStays DEF vars
<1> QED
  BY <1>1, <1>2, <1>3, <1>4, <1>5, <1>6, <1>7 DEF Next

(***************************************************************************)
(* The names of callbacks.                                                 *)
(***************************************************************************)

\* A fresh name is in none of the requests' hands, and there are enough names for all of them.
LEMMA FreshNameFits ==
    ASSUME Sound, NamesInv, NEW r0 \in Requests, opts[r0] = None
    PROVE  /\ IsFiniteSet(UsedNames) /\ FreshName = Cardinality(UsedNames) + 1
           /\ FreshName \in CallbackNames \ {Given} /\ FreshName \notin UsedNames
           /\ UsedNames \cup {FreshName} = 1 .. FreshName
<1> DEFINE named == {r \in Requests : callbackName[r] \in UsedNames}
           f == [r \in named |-> callbackName[r]]
<1>1. callbackName[r0] = None /\ None \notin CallbackNames /\ IsFiniteSet(Requests)
  BY AjaxAssumption DEF Sound, RequestInv, OpeningInv
<1>2. IsFiniteSet(named) /\ Cardinality(named) <= Cardinality(Requests \ {r0})
  <2>1. r0 \notin named
    BY <1>1 DEF UsedNames
  <2>2. named \in SUBSET (Requests \ {r0}) /\ IsFiniteSet(Requests \ {r0})
    BY <1>1, <2>1, FS_RemoveElement
  <2> QED
    BY <2>2, FS_Subset
<1>3. f \in Surjection(named, UsedNames)
  <2>1. f \in [named -> UsedNames]
    OBVIOUS
  <2>2. \A n \in UsedNames : \E r \in named : f[r] = n
    BY DEF UsedNames
  <2> QED
    BY <2>1, <2>2 DEF Surjection
<1>4. IsFiniteSet(UsedNames) /\ Cardinality(UsedNames) <= Cardinality(named)
  <2> HIDE DEF named, f
  <2> QED
    BY <1>2, <1>3, FS_Surjection
<1>5. /\ Cardinality(Requests \ {r0}) = Cardinality(Requests) - 1 /\ Cardinality(Requests) \in Nat
      /\ Cardinality(named) \in Nat /\ Cardinality(UsedNames) \in Nat
  BY <1>1, <1>2, <1>4, FS_RemoveElement, FS_CardinalityType
<1>6. FreshName = Cardinality(UsedNames) + 1 /\ UsedNames = 1 .. Cardinality(UsedNames)
  BY DEF FreshName, UsedNames, NamesInv
<1> HIDE DEF named, f
<1>7. FreshName \in 1 .. Cardinality(Requests)
  BY <1>2, <1>4, <1>5, <1>6
<1>8. FreshName \in CallbackNames \ {Given}
  BY <1>5, <1>7 DEF CallbackNames, Given
<1>9. FreshName \notin UsedNames /\ UsedNames \cup {FreshName} = 1 .. FreshName
  BY <1>5, <1>6
<1> QED
  BY <1>4, <1>6, <1>8, <1>9

\* The name that a request of jQuery's own naming gets: nobody's function is there.
LEMMA PooledNameFits ==
    ASSUME Sound, NamesInv, NamesPrivate, NEW r0 \in Requests, opts[r0] = None,
           NEW n, n = PooledName, NEW rest, rest = IF oldCallbacks = <<>> THEN oldCallbacks ELSE Front(oldCallbacks)
    PROVE  /\ n \in CallbackNames \ {Given} /\ window[n] = None
           /\ UsedNames \cup {n} = 1 .. Cardinality(UsedNames \cup {n})
           /\ \A r \in Requests : PooledAt(r) /\ outcome[r] = None => callbackName[r] # n
           /\ rest \in Seq(CallbackNames) /\ ToSet(rest) \subseteq ToSet(oldCallbacks) /\ IsInjective(rest)
           /\ \A i \in DOMAIN rest : rest[i] # n /\ i \in DOMAIN oldCallbacks /\ rest[i] = oldCallbacks[i]
<1>1. /\ oldCallbacks \in Seq(CallbackNames) /\ callbackName \in [Requests -> CallbackNames \cup {None}]
      /\ opts \in [Requests -> Options \cup {None}] /\ window \in [CallbackNames -> Requests \cup {None}]
  BY DEF Sound, TypeOK
<1>2. ASSUME NEW r \in Requests, PooledAt(r), outcome[r] = None
      PROVE  callbackName[r] \in UsedNames
  <2>1. opts[r].name # "none" /\ opts[r].name # "given" /\ opts[r] # None
    BY <1>2 DEF PooledAt
  <2> QED
    BY <2>1 DEF UsedNames, NamesInv
<1>3. CASE oldCallbacks = <<>>
  <2>1. n = FreshName /\ rest = <<>>
    BY <1>3 DEF PooledName
  <2>2. /\ IsFiniteSet(UsedNames) /\ n = Cardinality(UsedNames) + 1
        /\ n \in CallbackNames \ {Given} /\ n \notin UsedNames /\ UsedNames \cup {n} = 1 .. n
    BY <2>1, FreshNameFits
  <2>3. window[n] = None
    <3>1. n \in CallbackNames /\ n # None /\ n # Given
      BY <2>2, AjaxAssumption
    <3>2. ASSUME window[n] # None
          PROVE  window[n] \in Requests /\ callbackName[window[n]] = n
      BY <1>1, <3>1, <3>2 DEF NamesInv
    <3>3. \A r \in Requests : callbackName[r] = n => n \in UsedNames
      BY <3>1 DEF UsedNames
    <3> QED
      BY <2>2, <3>2, <3>3
  <2>4. Cardinality(UsedNames \cup {n}) = n
    BY <2>2, FS_AddElement
  <2>5. rest \in Seq(CallbackNames) /\ ToSet(rest) \subseteq ToSet(oldCallbacks) /\ IsInjective(rest) /\ DOMAIN rest = {}
    BY <1>3, <2>1 DEF IsInjective
  <2> QED
    BY <1>2, <2>2, <2>3, <2>4, <2>5
<1>4. CASE oldCallbacks # <<>>
  <2>1. PICK k \in Nat \ {0} :
          /\ k = Len(oldCallbacks) /\ n = oldCallbacks[k] /\ k \in DOMAIN oldCallbacks
          /\ DOMAIN oldCallbacks = 1 .. k
    BY <1>1, <1>4 DEF PooledName, Last
  <2>2. /\ rest \in Seq(CallbackNames) /\ DOMAIN rest = 1 .. k - 1
        /\ \A i \in 1 .. k - 1 : rest[i] = oldCallbacks[i] /\ i \in 1 .. k /\ i # k
    <3>1. PICK j \in Nat : j = k - 1 /\ rest = SubSeq(oldCallbacks, 1, j) /\ j <= Len(oldCallbacks)
      BY <1>4, <2>1 DEF Front
    <3>2. SubSeq(oldCallbacks, 1, j) \in Seq(CallbackNames) /\ Len(SubSeq(oldCallbacks, 1, j)) = j
      BY <1>1, <3>1, SubSeqProperties
    <3>3. \A i \in 1 .. j : SubSeq(oldCallbacks, 1, j)[i] = oldCallbacks[i]
      <4>1. \A i \in 1 .. j - 1 + 1 : SubSeq(oldCallbacks, 1, j)[i] = oldCallbacks[1 + i - 1]
        BY <1>1, <3>1, SubSeqProperties
      <4> QED
        BY <3>1, <4>1
    <3> QED
      BY <2>1, <3>1, <3>2, <3>3
  <2>3. \A i, j \in 1 .. k : oldCallbacks[i] = oldCallbacks[j] => i = j
    BY <2>1 DEF NamesPrivate, IsInjective
  <2>4. \A i \in DOMAIN rest : rest[i] # n /\ i \in DOMAIN oldCallbacks /\ rest[i] = oldCallbacks[i]
    BY <2>1, <2>2, <2>3
  <2>5. IsInjective(rest)
    BY <2>2, <2>3 DEF IsInjective
  <2>6. ToSet(rest) \subseteq ToSet(oldCallbacks)
    BY <2>1, <2>2 DEF ToSet
  <2>7. window[n] = None
    BY <2>1 DEF NamesPrivate
  <2>8. n \in UsedNames
    BY <2>1 DEF NamesInv, ToSet
  <2>9. n \in CallbackNames \ {Given}
    BY <1>1, <2>1, <2>8 DEF UsedNames
  <2>10. UsedNames \cup {n} = 1 .. Cardinality(UsedNames \cup {n})
    <3>1. UsedNames \cup {n} = UsedNames
      BY <2>8
    <3> QED
      BY <3>1 DEF NamesInv
  <2>11. ASSUME NEW r \in Requests, PooledAt(r), outcome[r] = None
         PROVE  callbackName[r] # n
    BY <2>1, <2>11, <1>1 DEF NamesPrivate, Contains
  <2> QED
    BY <2>2, <2>4, <2>5, <2>6, <2>7, <2>9, <2>10, <2>11
<1> QED
  BY <1>3, <1>4

LEMMA NamesStay ==
    ASSUME NamesInv, NamesPrivate,
           UNCHANGED <<window, callbackName, overwritten, oldCallbacks, outcome, opts>>
    PROVE  NamesInv' /\ NamesPrivate'
<1>1. NamesInv'
  BY DEF NamesInv, UsedNames
<1>2. NamesPrivate'
  BY DEF NamesPrivate, PooledAt
<1> QED
  BY <1>1, <1>2

NamesWell == NamesInv /\ NamesPrivate

LEMMA NamesAtAjax ==
    ASSUME Sound, NamesWell, NEW r0 \in Requests, NEW o \in Options, Ajax(r0, o)
    PROVE  TypeOK' /\ NamesInv' /\ NamesPrivate'
<1>1. /\ opts[r0] = None /\ callbackName[r0] = None /\ opts' = [opts EXCEPT ![r0] = o]
      /\ o \in OptionSpace /\ o # None /\ outcome' = outcome /\ response' = response
  BY AjaxAssumption DEF Sound, RequestInv, OpeningInv, Ajax, Prefilter, results
<1>2. /\ oldCallbacks \in Seq(CallbackNames) /\ callbackName \in [Requests -> CallbackNames \cup {None}]
      /\ opts \in [Requests -> Options \cup {None}] /\ window \in [CallbackNames -> Requests \cup {None}]
      /\ overwritten \in [Requests -> Requests \cup {None}]
      /\ None \notin CallbackNames /\ Given \in CallbackNames /\ None # Given /\ None \notin Requests
  BY AjaxAssumption, FS_CardinalityType DEF Sound, TypeOK, Given, CallbackNames
<1>3. ASSUME opts' \in [Requests -> Options \cup {None}], window' \in [CallbackNames -> Requests \cup {None}],
             callbackName' \in [Requests -> CallbackNames \cup {None}],
             overwritten' \in [Requests -> Requests \cup {None}], oldCallbacks' \in Seq(CallbackNames)
      PROVE  TypeOK'
  BY <1>1, <1>3, AjaxAssumption DEF Sound, TypeOK, Ajax, Calling, link, results
<1>4. opts' \in [Requests -> Options \cup {None}]
  BY <1>1, <1>2
<1>5. \A r \in Requests : r # r0 => opts'[r] = opts[r] /\ (PooledAt(r)' <=> PooledAt(r))
  BY <1>1, <1>2 DEF PooledAt
<1>6. \A n \in CallbackNames : window[n] # r0
  BY <1>1, <1>2 DEF NamesWell, NamesInv
<1>7. CASE o.name = "none"
  <2>1. UNCHANGED <<window, callbackName, overwritten, oldCallbacks>>
    BY <1>1, <1>7 DEF Ajax, Prefilter
  <2>2. NamesInv'
    <3>1. ASSUME NEW r \in Requests, opts'[r] # None
          PROVE  /\ callbackName'[r] = None <=> opts'[r].name = "none"
                 /\ callbackName'[r] = Given <=> opts'[r].name = "given"
      BY <1>1, <1>2, <1>5, <1>7, <2>1, <3>1 DEF NamesWell, NamesInv
    <3> QED
      BY <2>1, <3>1 DEF NamesWell, NamesInv, UsedNames
  <2>3. NamesPrivate'
    <3>1. ~PooledAt(r0)'
      BY <1>1, <1>2, <1>7 DEF PooledAt
    <3> QED
      BY <1>1, <1>5, <2>1, <3>1 DEF NamesWell, NamesPrivate
  <2> QED
    BY <1>2, <1>3, <1>4, <2>1, <2>2, <2>3
<1>8. ASSUME NEW n \in CallbackNames, InstallCallback(r0, n)
      PROVE  /\ window' \in [CallbackNames -> Requests \cup {None}] /\ window'[n] = r0
             /\ callbackName' \in [Requests -> CallbackNames \cup {None}] /\ callbackName'[r0] = n
             /\ overwritten' \in [Requests -> Requests \cup {None}] /\ overwritten'[r0] = window[n]
             /\ \A m \in CallbackNames : m # n => window'[m] = window[m]
             /\ \A r \in Requests : r # r0 => callbackName'[r] = callbackName[r] /\ overwritten'[r] = overwritten[r]
             /\ UsedNames' = UsedNames \cup ({n} \ {Given})
             /\ \A m \in CallbackNames : window'[m] # None => callbackName'[window'[m]] = m
  <2>1. /\ window' \in [CallbackNames -> Requests \cup {None}] /\ window'[n] = r0
        /\ \A m \in CallbackNames : m # n => window'[m] = window[m]
    BY <1>2, <1>8 DEF InstallCallback
  <2>2. /\ callbackName' \in [Requests -> CallbackNames \cup {None}] /\ callbackName'[r0] = n
        /\ \A r \in Requests : r # r0 => callbackName'[r] = callbackName[r]
    BY <1>2, <1>8 DEF InstallCallback
  <2>3. /\ overwritten' \in [Requests -> Requests \cup {None}] /\ overwritten'[r0] = window[n]
        /\ \A r \in Requests : r # r0 => overwritten'[r] = overwritten[r]
    BY <1>2, <1>8 DEF InstallCallback
  <2>4. UsedNames' = UsedNames \cup ({n} \ {Given})
    BY <1>1, <1>2, <2>2 DEF UsedNames
  <2>5. \A m \in CallbackNames : window'[m] # None => callbackName'[window'[m]] = m
    BY <1>2, <1>6, <2>1, <2>2 DEF NamesWell, NamesInv
  <2> QED
    BY <2>1, <2>2, <2>3, <2>4, <2>5
<1>9. CASE o.name = "given"
  <2>1. InstallCallback(r0, Given) /\ oldCallbacks' = oldCallbacks
    BY <1>9 DEF Ajax, Prefilter
  <2>2. /\ window' \in [CallbackNames -> Requests \cup {None}]
        /\ callbackName' \in [Requests -> CallbackNames \cup {None}] /\ callbackName'[r0] = Given
        /\ overwritten' \in [Requests -> Requests \cup {None}] /\ overwritten'[r0] = window[Given]
        /\ \A m \in CallbackNames : m # Given => window'[m] = window[m]
        /\ \A r \in Requests : r # r0 => callbackName'[r] = callbackName[r] /\ overwritten'[r] = overwritten[r]
        /\ UsedNames' = UsedNames
        /\ \A m \in CallbackNames : window'[m] # None => callbackName'[window'[m]] = m
    BY <1>2, <1>8, <2>1
  <2>3. NamesInv'
    <3>1. ASSUME NEW r \in Requests, opts'[r] # None
          PROVE  /\ callbackName'[r] = None <=> opts'[r].name = "none"
                 /\ callbackName'[r] = Given <=> opts'[r].name = "given"
      BY <1>1, <1>2, <1>5, <1>9, <2>2, <3>1 DEF NamesWell, NamesInv
    <3>2. ASSUME NEW r \in Requests, overwritten'[r] # None
          PROVE  callbackName'[r] = Given /\ callbackName'[overwritten'[r]] = Given
      <4>1. CASE r = r0
        BY <1>2, <1>6, <2>2, <3>2, <4>1 DEF NamesWell, NamesInv
      <4>2. CASE r # r0
        <5>1. callbackName[r] = Given /\ callbackName[overwritten[r]] = Given /\ overwritten[r] \in Requests
          BY <1>2, <2>2, <3>2, <4>2 DEF NamesWell, NamesInv
        <5> QED
          BY <1>1, <1>2, <2>2, <4>2, <5>1
      <4> QED
        BY <4>1, <4>2
    <3>3. UsedNames' = 1 .. Cardinality(UsedNames') /\ ToSet(oldCallbacks') \subseteq UsedNames'
      BY <2>1, <2>2 DEF NamesWell, NamesInv
    <3> QED
      BY <2>2, <3>1, <3>2, <3>3 DEF NamesInv
  <2>4. NamesPrivate'
    <3>1. ~PooledAt(r0)'
      BY <1>1, <1>2, <1>9 DEF PooledAt
    <3>2. ASSUME NEW r \in Requests, PooledAt(r)', outcome'[r] = None
          PROVE  window'[callbackName'[r]] = r /\ ~Contains(oldCallbacks', callbackName'[r])
      <4>1. r # r0 /\ PooledAt(r) /\ outcome[r] = None
        BY <1>1, <1>5, <3>1, <3>2
      <4>2. callbackName[r] \in CallbackNames \ {Given}
        BY <1>2, <4>1 DEF PooledAt, NamesWell, NamesInv
      <4> QED
        BY <2>1, <2>2, <4>1, <4>2 DEF NamesWell, NamesPrivate
    <3>3. \A i \in DOMAIN oldCallbacks : oldCallbacks[i] \in CallbackNames /\ oldCallbacks[i] # Given
      <4>1. \A i \in DOMAIN oldCallbacks : oldCallbacks[i] \in UsedNames
        BY DEF NamesWell, NamesInv, ToSet
      <4> QED
        BY <1>2, <4>1 DEF UsedNames
    <3>4. \A i \in DOMAIN oldCallbacks' : window'[oldCallbacks'[i]] = None
      BY <2>1, <2>2, <3>3 DEF NamesWell, NamesPrivate
    <3> QED
      BY <2>1, <3>2, <3>4 DEF NamesWell, NamesPrivate
  <2> QED
    BY <1>2, <1>3, <1>4, <2>1, <2>2, <2>3, <2>4
<1>10. CASE o.name = "pooled"
  <2>1. PICK n, rest :
          /\ n = PooledName /\ rest = (IF oldCallbacks = <<>> THEN oldCallbacks ELSE Front(oldCallbacks))
          /\ InstallCallback(r0, n) /\ oldCallbacks' = rest
    BY <1>10 DEF Ajax, Prefilter
  <2>2. /\ n \in CallbackNames \ {Given} /\ window[n] = None
        /\ UsedNames \cup {n} = 1 .. Cardinality(UsedNames \cup {n})
        /\ \A r \in Requests : PooledAt(r) /\ outcome[r] = None => callbackName[r] # n
        /\ rest \in Seq(CallbackNames) /\ ToSet(rest) \subseteq ToSet(oldCallbacks) /\ IsInjective(rest)
        /\ \A i \in DOMAIN rest : rest[i] # n /\ i \in DOMAIN oldCallbacks /\ rest[i] = oldCallbacks[i]
    BY <1>1, <2>1, PooledNameFits DEF NamesWell
  <2>3. /\ window' \in [CallbackNames -> Requests \cup {None}] /\ window'[n] = r0
        /\ callbackName' \in [Requests -> CallbackNames \cup {None}] /\ callbackName'[r0] = n
        /\ overwritten' \in [Requests -> Requests \cup {None}] /\ overwritten'[r0] = None
        /\ \A m \in CallbackNames : m # n => window'[m] = window[m]
        /\ \A r \in Requests : r # r0 => callbackName'[r] = callbackName[r] /\ overwritten'[r] = overwritten[r]
        /\ UsedNames' = UsedNames \cup {n}
        /\ \A m \in CallbackNames : window'[m] # None => callbackName'[window'[m]] = m
    BY <1>8, <2>1, <2>2
  <2>4. NamesInv'
    <3>1. ASSUME NEW r \in Requests, opts'[r] # None
          PROVE  /\ callbackName'[r] = None <=> opts'[r].name = "none"
                 /\ callbackName'[r] = Given <=> opts'[r].name = "given"
      BY <1>1, <1>2, <1>5, <1>10, <2>2, <2>3, <3>1 DEF NamesWell, NamesInv
    <3>2. ASSUME NEW r \in Requests, overwritten'[r] # None
          PROVE  callbackName'[r] = Given /\ callbackName'[overwritten'[r]] = Given
      <4>1. r # r0
        BY <2>3, <3>2
      <4>2. callbackName[r] = Given /\ callbackName[overwritten[r]] = Given /\ overwritten[r] \in Requests
        BY <1>2, <2>3, <3>2, <4>1 DEF NamesWell, NamesInv
      <4> QED
        BY <1>1, <1>2, <2>3, <4>1, <4>2
    <3>3. UsedNames' = 1 .. Cardinality(UsedNames') /\ ToSet(oldCallbacks') \subseteq UsedNames'
      BY <2>1, <2>2, <2>3 DEF NamesWell, NamesInv
    <3> QED
      BY <2>3, <3>1, <3>2, <3>3 DEF NamesInv
  <2>5. NamesPrivate'
    <3>1. ASSUME NEW r \in Requests, PooledAt(r)', outcome'[r] = None
          PROVE  window'[callbackName'[r]] = r /\ ~Contains(oldCallbacks', callbackName'[r])
      <4>1. CASE r = r0
        BY <2>1, <2>2, <2>3, <4>1 DEF Contains
      <4>2. CASE r # r0
        <5>1. PooledAt(r) /\ outcome[r] = None /\ callbackName[r] # n
          BY <1>1, <1>5, <2>2, <3>1, <4>2
        <5>2. window[callbackName[r]] = r /\ ~Contains(oldCallbacks, callbackName[r]) /\ callbackName[r] \in CallbackNames
          BY <1>2, <5>1 DEF NamesWell, NamesPrivate, PooledAt, NamesInv
        <5>3. ~Contains(rest, callbackName[r])
          BY <1>2, <2>2, <5>2 DEF Contains
        <5> QED
          BY <2>1, <2>3, <4>2, <5>1, <5>2, <5>3
      <4> QED
        BY <4>1, <4>2
    <3>2. \A i \in DOMAIN rest : window'[rest[i]] = None
      BY <1>2, <2>2, <2>3 DEF NamesWell, NamesPrivate
    <3> QED
      BY <2>1, <2>2, <3>1, <3>2 DEF NamesPrivate
  <2> QED
    BY <1>3, <1>4, <2>1, <2>2, <2>3, <2>4, <2>5
<1> QED
  BY <1>1, <1>7, <1>9, <1>10 DEF OptionSpace, Names

\* The step that an action is about is that of a request which has it in store.
LEMMA HeadHas ==
    ASSUME Sound, NEW what, Now(what), what # "page"
    PROVE  \E r \in Requests :
               /\ r = Todo.req /\ Has(agenda, what, r) /\ RequestInv(r)
               /\ Todo.result \in Results \cup {None}
               /\ what \in {"abort", "done", "convert", "settle"} => Todo.result \in Results
               /\ what = "abort" => Todo.result # "success"
<1>1. PICK r \in Requests :
         /\ r = Todo.req /\ Todo.result \in Results \cup {None}
         /\ what \in {"abort", "done", "convert", "settle"} => Todo.result \in Results
         /\ what = "abort" => Todo.result # "success"
  BY HeadOf DEF Sound
<1>2. 1 \in 1 .. Len(agenda) /\ agenda[1] = Todo /\ Todo.do = what
  BY TailProper DEF Sound, Now, Todo, AgendaInv
<1>3. Has(agenda, what, r)
  BY <1>1, <1>2 DEF Has
<1> QED
  BY <1>1, <1>3 DEF Sound

LEMMA NamesAtSettle ==
    ASSUME Sound, NamesWell, Settle
    PROVE  TypeOK' /\ NamesInv' /\ NamesPrivate'
<1>1. PICK r0 \in Requests :
        r0 = Todo.req /\ Has(agenda, "settle", r0) /\ RequestInv(r0) /\ Todo.result \in Results
  BY HeadHas DEF Settle
<1>2. outcome[r0] = None /\ opts[r0] # None
  BY <1>1, HasKinds DEF RequestInv, OpeningInv, ClosingInv
<1>3. CleanUp(r0) /\ outcome' = [outcome EXCEPT ![r0] = Todo.result] /\ opts' = opts /\ state' = state
  BY <1>1 DEF Settle, lifecycle
<1>4. /\ oldCallbacks \in Seq(CallbackNames) /\ callbackName \in [Requests -> CallbackNames \cup {None}]
      /\ opts \in [Requests -> Options \cup {None}] /\ window \in [CallbackNames -> Requests \cup {None}]
      /\ overwritten \in [Requests -> Requests \cup {None}] /\ response \in [Requests -> Requests \cup {None}]
      /\ None \notin CallbackNames /\ None # Given /\ None \notin Requests /\ None \notin Results
      /\ outcome \in [Requests -> Results \cup {None}] /\ opts[r0] \in OptionSpace
      /\ Given \in CallbackNames
  BY <1>2, AjaxAssumption, FS_CardinalityType DEF Sound, TypeOK, Given, CallbackNames
<1>5. /\ outcome' \in [Requests -> Results \cup {None}] /\ outcome'[r0] # None
      /\ \A r \in Requests : r # r0 => outcome'[r] = outcome[r]
  BY <1>1, <1>3, <1>4
<1>6. ASSUME window' \in [CallbackNames -> Requests \cup {None}], callbackName' = callbackName,
             overwritten' \in [Requests -> Requests \cup {None}], oldCallbacks' \in Seq(CallbackNames),
             response' \in [Requests -> Requests \cup {None}]
      PROVE  TypeOK'
  BY <1>3, <1>5, <1>6 DEF Sound, TypeOK, Settle, lifecycle, link
<1>7. \A r \in Requests : PooledAt(r)' <=> PooledAt(r)
  BY <1>3 DEF PooledAt
<1>8. \A r \in Requests : PooledAt(r) => callbackName[r] \in CallbackNames \ {Given} /\ callbackName[r] \in UsedNames
  BY <1>4 DEF PooledAt, NamesWell, NamesInv, UsedNames
<1>9. CASE ~IsJsonp(r0)
  <2>1. UNCHANGED <<window, callbackName, overwritten, response, oldCallbacks>>
    BY <1>3, <1>9 DEF CleanUp, jsonp
  <2>2. NamesInv'
    BY <1>3, <2>1 DEF NamesWell, NamesInv, UsedNames
  <2>3. NamesPrivate'
    BY <1>5, <1>7, <2>1 DEF NamesWell, NamesPrivate
  <2> QED
    BY <1>4, <1>6, <2>1, <2>2, <2>3
<1>10. CASE IsJsonp(r0)
  <2>1. PICK n \in CallbackNames : n = callbackName[r0]
    BY <1>4, <1>10 DEF IsJsonp
  <2>2. /\ window' = [window EXCEPT ![n] = overwritten[r0]]
        /\ oldCallbacks' = IF opts[r0].name = "pooled" THEN Append(oldCallbacks, n) ELSE oldCallbacks
        /\ response' = [x \in Requests |->
                           IF x = overwritten[r0] /\ response[r0] # None THEN response[r0]
                           ELSE IF x = r0 THEN None ELSE response[x]]
        /\ overwritten' = [overwritten EXCEPT ![r0] = None]
        /\ callbackName' = callbackName
    BY <1>3, <1>10, <2>1 DEF CleanUp, Restored
  <2>3. /\ window' \in [CallbackNames -> Requests \cup {None}] /\ window'[n] = overwritten[r0]
        /\ \A m \in CallbackNames : m # n => window'[m] = window[m]
    BY <1>4, <2>2
  <2>4. /\ overwritten' \in [Requests -> Requests \cup {None}] /\ overwritten'[r0] = None
        /\ \A r \in Requests : r # r0 => overwritten'[r] = overwritten[r]
    BY <1>4, <2>2
  <2>5. response' \in [Requests -> Requests \cup {None}]
    BY <1>4, <2>2
  <2>6. overwritten[r0] # None => n = Given /\ callbackName[overwritten[r0]] = Given
    BY <2>1 DEF NamesWell, NamesInv
  <2>7. \A m \in CallbackNames : window'[m] # None => callbackName'[window'[m]] = m
    BY <2>2, <2>3, <2>6 DEF NamesWell, NamesInv
  <2>8. ASSUME NEW r \in Requests, overwritten'[r] # None
        PROVE  callbackName'[r] = Given /\ callbackName'[overwritten'[r]] = Given
    BY <2>2, <2>4, <2>8 DEF NamesWell, NamesInv
  <2>9. UsedNames' = UsedNames
    BY <2>2 DEF UsedNames
  <2>10. ASSUME ToSet(oldCallbacks') \subseteq UsedNames
         PROVE  NamesInv'
    BY <1>3, <2>2, <2>7, <2>8, <2>9, <2>10 DEF NamesWell, NamesInv
  <2>11. CASE opts[r0].name = "pooled"
    <3> DEFINE k == Len(oldCallbacks)
    <3>1. PooledAt(r0) /\ n \in UsedNames /\ n # Given /\ overwritten[r0] = None
      BY <1>2, <1>8, <2>1, <2>6, <2>11 DEF PooledAt
    <3>2. window[n] = r0 /\ ~Contains(oldCallbacks, n)
      BY <1>2, <2>1, <3>1 DEF NamesWell, NamesPrivate
    <3>3. /\ oldCallbacks' = Append(oldCallbacks, n) /\ oldCallbacks' \in Seq(CallbackNames)
          /\ k \in Nat /\ DOMAIN oldCallbacks = 1 .. k
          /\ DOMAIN oldCallbacks' = 1 .. k + 1 /\ oldCallbacks'[k + 1] = n
          /\ \A i \in 1 .. k : oldCallbacks'[i] = oldCallbacks[i]
      BY <1>4, <2>1, <2>2, <2>11
    <3> HIDE DEF k
    <3>4. \A i \in DOMAIN oldCallbacks' : i = k + 1 \/ i \in 1 .. k
      BY <3>3
    <3>5. \A i \in 1 .. k : oldCallbacks[i] # n /\ oldCallbacks[i] \in UsedNames /\ oldCallbacks[i] \in CallbackNames
      BY <1>4, <3>2, <3>3 DEF Contains, NamesWell, NamesInv, ToSet, k
    <3>6. ToSet(oldCallbacks') \subseteq UsedNames
      BY <3>1, <3>3, <3>4, <3>5 DEF ToSet
    <3>7. IsInjective(oldCallbacks')
      <4>1. \A i, j \in 1 .. k : oldCallbacks[i] = oldCallbacks[j] => i = j
        BY <3>3 DEF NamesWell, NamesPrivate, IsInjective
      <4> QED
        BY <3>3, <3>4, <3>5, <4>1 DEF IsInjective
    <3>8. \A i \in DOMAIN oldCallbacks' : window'[oldCallbacks'[i]] = None
      <4>1. window'[n] = None
        BY <2>3, <3>1
      <4>2. \A i \in 1 .. k : window[oldCallbacks[i]] = None
        BY <3>3 DEF NamesWell, NamesPrivate
      <4> QED
        BY <2>3, <3>3, <3>4, <3>5, <4>1, <4>2
    <3>9. ASSUME NEW r \in Requests, PooledAt(r)', outcome'[r] = None
          PROVE  window'[callbackName'[r]] = r /\ ~Contains(oldCallbacks', callbackName'[r])
      <4>1. r # r0 /\ PooledAt(r) /\ outcome[r] = None
        BY <1>5, <1>7, <3>9
      <4>2. window[callbackName[r]] = r /\ ~Contains(oldCallbacks, callbackName[r]) /\ callbackName[r] \in CallbackNames
        BY <1>8, <4>1 DEF NamesWell, NamesPrivate
      <4>3. callbackName[r] # n
        BY <3>2, <4>1, <4>2
      <4>4. \A i \in 1 .. k : oldCallbacks[i] # callbackName[r]
        BY <4>2 DEF Contains, k
      <4>5. \A i \in DOMAIN oldCallbacks' : oldCallbacks'[i] # callbackName[r]
        BY <3>3, <3>4, <4>3, <4>4
      <4>6. ~Contains(oldCallbacks', callbackName[r])
        BY <1>4, <3>3, <4>5 DEF Contains
      <4> QED
        BY <2>2, <2>3, <4>2, <4>3, <4>6
    <3>10. NamesPrivate'
      BY <3>7, <3>8, <3>9 DEF NamesPrivate
    <3> QED
      BY <1>6, <2>2, <2>3, <2>4, <2>5, <2>10, <3>3, <3>6, <3>10
  <2>12. CASE opts[r0].name # "pooled"
    <3>1. n = Given /\ oldCallbacks' = oldCallbacks
      BY <1>2, <1>4, <1>10, <2>1, <2>2, <2>12 DEF NamesWell, NamesInv, IsJsonp, OptionSpace, Names
    <3>2. \A i \in DOMAIN oldCallbacks : oldCallbacks[i] \in CallbackNames /\ oldCallbacks[i] # Given
      <4>1. \A i \in DOMAIN oldCallbacks : oldCallbacks[i] \in UsedNames
        BY DEF NamesWell, NamesInv, ToSet
      <4> QED
        BY <1>4, <4>1 DEF UsedNames
    <3>3. \A i \in DOMAIN oldCallbacks' : window'[oldCallbacks'[i]] = None
      BY <2>3, <3>1, <3>2 DEF NamesWell, NamesPrivate
    <3>4. ASSUME NEW r \in Requests, PooledAt(r)', outcome'[r] = None
          PROVE  window'[callbackName'[r]] = r /\ ~Contains(oldCallbacks', callbackName'[r])
      <4>1. PooledAt(r) /\ outcome[r] = None
        BY <1>5, <1>7, <3>4
      <4> QED
        BY <1>8, <2>2, <2>3, <3>1, <4>1 DEF NamesWell, NamesPrivate
    <3>5. NamesPrivate'
      BY <3>1, <3>3, <3>4 DEF NamesWell, NamesPrivate
    <3>6. ToSet(oldCallbacks') \subseteq UsedNames
      BY <3>1 DEF NamesWell, NamesInv
    <3> QED
      BY <1>4, <1>6, <2>2, <2>3, <2>4, <2>5, <2>10, <3>1, <3>5, <3>6
  <2> QED
    BY <2>11, <2>12
<1> QED
  BY <1>9, <1>10

\* The types and the names, at a step of the engine.
LEMMA EngineNames ==
    ASSUME Sound, CountInv, NamesWell, Engine
    PROVE  TypeOK' /\ NamesInv' /\ NamesPrivate'
<1>1. CASE PageReturns \/ Configure \/ Judge \/ SendNothing \/ Sent \/ Convert
  BY <1>1, NamesStay DEF NamesWell, Sound, TypeOK, PageReturns, Configure, Judge, SendNothing, Sent, Convert,
     lifecycle, link, jsonp, results
<1>2. CASE Start
  <2>1. PICK r0 \in Requests : r0 = Todo.req /\ RequestInv(r0) /\ Has(agenda, "start", r0)
    BY <1>2, HeadHas DEF Start
  <2>2. opts[r0] # None
    BY <2>1, HasKinds DEF RequestInv, OpeningInv
  <2>3. opts[r0] \in OptionSpace
    BY <2>2, AjaxAssumption DEF Sound, TypeOK
  <2>4. CountsFrom(r0) \in BOOLEAN
    BY <2>3 DEF CountsFrom, OptionSpace
  <2>5. /\ fireGlobals' = [fireGlobals EXCEPT ![r0] = CountsFrom(r0)]
        /\ active' = IF CountsFrom(r0) THEN active + 1 ELSE active
        /\ UNCHANGED <<state, opts, timer, link, jsonp, results, calls>>
    BY <1>2, <2>1 DEF Start
  <2>6. TypeOK'
    BY <2>4, <2>5 DEF Sound, TypeOK, link, jsonp, results
  <2> QED
    BY <2>5, <2>6, NamesStay DEF NamesWell, jsonp, results
<1>3. CASE Open
  <2>1. PICK r0 \in Requests : r0 = Todo.req /\ transport' = [transport EXCEPT ![r0] = Found(r0)]
    BY <1>3, HeadHas DEF Open
  <2>2. UNCHANGED <<lifecycle, callback, net, posted, active, jsonp, results, calls>>
    BY <1>3 DEF Open
  <2>3. TypeOK'
    BY <2>1, <2>2 DEF Sound, TypeOK, Found, lifecycle, jsonp, results
  <2> QED
    BY <2>2, <2>3, NamesStay DEF NamesWell, lifecycle, jsonp, results
<1>4. CASE Send \/ SendSync \/ SendThrows
  <2>1. PICK r0 \in Requests : r0 = Todo.req /\ RequestInv(r0) /\ Has(agenda, "send", r0)
    BY <1>4, HeadHas DEF Send, SendSync, SendThrows
  <2>2. opts[r0] # None
    BY <2>1, HasKinds DEF RequestInv, OpeningInv
  <2>3. opts[r0] \in OptionSpace
    BY <2>2, AjaxAssumption DEF Sound, TypeOK
  <2>4. Timed(r0) \in BOOLEAN
    BY <2>3 DEF Timed, OptionSpace
  <2>5. SendWith(r0)
    BY <1>4, <2>1 DEF Send, SendSync, SendThrows
  <2>6. timer' \in [Requests -> BOOLEAN] /\ state' \in [Requests -> 0 .. 2]
    BY <2>4, <2>5 DEF Sound, TypeOK, SendWith
  <2>7. /\ callback' \in [Requests -> BOOLEAN]
        /\ net' \in [Requests -> {"none", "sent", "orphan", "over", "silent"}]
    BY <1>4, <2>1 DEF Sound, TypeOK, Send, SendSync, SendThrows
  <2>8. TypeOK'
    BY <2>5, <2>6, <2>7 DEF Sound, TypeOK, SendWith, jsonp, results
  <2> QED
    BY <2>5, <2>8, NamesStay DEF NamesWell, SendWith, jsonp, results
<1>5. CASE Abort
  <2>1. PICK r0 \in Requests : r0 = Todo.req
    BY <1>5, HeadHas DEF Abort
  <2>2. /\ callback' = [callback EXCEPT ![r0] = @ /\ ~Cut(r0)]
        /\ net' = [net EXCEPT ![r0] = IF ~Cut(r0) \/ @ # "sent" THEN @
                                        ELSE IF opts[r0].kind = "script" THEN "orphan" ELSE "over"]
        /\ UNCHANGED <<lifecycle, transport, posted, active, jsonp, results, calls>>
    BY <1>5, <2>1 DEF Abort
  <2>3. callback' \in [Requests -> BOOLEAN]
    BY <2>2 DEF Sound, TypeOK
  <2>4. net' \in [Requests -> {"none", "sent", "orphan", "over", "silent"}]
    BY <2>2 DEF Sound, TypeOK
  <2>5. TypeOK'
    BY <2>2, <2>3, <2>4 DEF Sound, TypeOK, lifecycle, jsonp, results
  <2> QED
    BY <2>2, <2>5, NamesStay DEF NamesWell, lifecycle, jsonp, results
<1>6. CASE Done
  <2>1. PICK r0 \in Requests : r0 = Todo.req
    BY <1>6, HeadHas DEF Done
  <2>2. /\ state' \in [Requests -> 0 .. 2] /\ timer' \in [Requests -> BOOLEAN] /\ transport' \in [Requests -> BOOLEAN]
    <3>1. \/ UNCHANGED <<state, timer, transport>>
          \/ /\ state' = [state EXCEPT ![r0] = 2] /\ timer' = [timer EXCEPT ![r0] = FALSE]
             /\ transport' = [transport EXCEPT ![r0] = FALSE]
      BY <1>6, <2>1 DEF Done
    <3>2. /\ state \in [Requests -> 0 .. 2] /\ timer \in [Requests -> BOOLEAN] /\ transport \in [Requests -> BOOLEAN]
      BY DEF Sound, TypeOK
    <3>3. state' \in [Requests -> 0 .. 2]
      BY <3>1, <3>2
    <3>4. timer' \in [Requests -> BOOLEAN]
      BY <3>1, <3>2
    <3>5. transport' \in [Requests -> BOOLEAN]
      BY <3>1, <3>2
    <3> QED
      BY <3>3, <3>4, <3>5
  <2>3. UNCHANGED <<opts, fireGlobals, callback, net, posted, active, jsonp, results, calls>>
    BY <1>6 DEF Done
  <2>4. TypeOK'
    BY <2>2, <2>3 DEF Sound, TypeOK, jsonp, results
  <2> QED
    BY <2>3, <2>4, NamesStay DEF NamesWell, jsonp, results
<1>7. CASE Evaluate
  <2>1. PICK r0 \in Requests : r0 = Todo.req
    BY <1>7, HeadHas DEF Evaluate
  <2>2. PICK answers \in BOOLEAN : ScriptRuns(r0, answers)
    BY <1>7, <2>1 DEF Evaluate
  <2>3. net' \in [Requests -> {"none", "sent", "orphan", "over", "silent"}]
    BY <2>2 DEF Sound, TypeOK, ScriptRuns
  <2>4. response' \in [Requests -> Requests \cup {None}]
    BY <2>2 DEF Sound, TypeOK, ScriptRuns
  <2>5. UNCHANGED <<lifecycle, transport, callback, posted, active, window, callbackName, overwritten,
                    oldCallbacks, results, calls>>
    BY <1>7 DEF Evaluate
  <2>6. TypeOK'
    BY <2>3, <2>4, <2>5 DEF Sound, TypeOK, lifecycle, results
  <2> QED
    BY <2>5, <2>6, NamesStay DEF NamesWell, lifecycle, results
<1>8. CASE Settle
  BY <1>8, NamesAtSettle
<1>9. CASE Complete
  <2>1. PICK r0 \in Requests : r0 = Todo.req
    BY <1>9, HeadHas DEF Complete
  <2>2. completed' \in [Requests -> Nat]
    BY <1>9, <2>1 DEF Sound, TypeOK, Complete
  <2>3. UNCHANGED <<lifecycle, link, active, jsonp, outcome, calls>>
    BY <1>9 DEF Complete
  <2>4. TypeOK'
    BY <2>2, <2>3 DEF Sound, TypeOK, lifecycle, link, jsonp
  <2> QED
    BY <2>3, <2>4, NamesStay DEF NamesWell, lifecycle, jsonp
<1>10. CASE Stop
  <2>1. active' \in Nat
    BY <1>10, StopCounts
  <2>2. TypeOK'
    BY <1>10, <2>1 DEF Sound, TypeOK, Stop, lifecycle, link, jsonp, results
  <2> QED
    BY <1>10, <2>2, NamesStay DEF NamesWell, Stop, lifecycle, jsonp, results
<1> QED
  BY <1>1, <1>2, <1>3, <1>4, <1>5, <1>6, <1>7, <1>8, <1>9, <1>10 DEF Engine

LEMMA StepNames ==
    ASSUME Sound, CountInv, NamesWell, [Next]_vars
    PROVE  TypeOK' /\ NamesInv' /\ NamesPrivate'
<1>1. CASE Page
  <2>1. PICK r0 \in Requests : PageAborts(r0) \/ \E o \in Options : Ajax(r0, o)
    BY <1>1 DEF Page
  <2>2. CASE PageAborts(r0)
    <3>1. TypeOK'
      BY <2>2, AjaxAssumption DEF Sound, TypeOK, PageAborts, Calling, lifecycle, link, jsonp, results
    <3> QED
      BY <2>2, <3>1, NamesStay DEF NamesWell, PageAborts, lifecycle, jsonp, results
  <2> QED
    BY <2>1, <2>2, NamesAtAjax
<1>2. CASE PageThrows \/ ConvertThrows
  <2>1. TypeOK'
    BY <1>2, AjaxAssumption DEF Sound, TypeOK, PageThrows, ConvertThrows, Calling, lifecycle, link, jsonp, results
  <2> QED
    BY <1>2, <2>1, NamesStay DEF NamesWell, PageThrows, ConvertThrows, lifecycle, jsonp, results
<1>3. CASE Engine
  BY <1>3, EngineNames
<1>4. CASE Network
  <2>1. PICK r0 \in Requests :
          \/ XhrEnds(r0) \/ XhrVanishes(r0) \/ PostedError(r0)
          \/ ScriptFails(r0) \/ \E answers \in BOOLEAN : ScriptLoads(r0, answers)
    BY <1>4 DEF Network
  <2>2. CASE XhrEnds(r0) \/ XhrVanishes(r0) \/ PostedError(r0) \/ ScriptFails(r0)
    <3>1. /\ net' \in [Requests -> {"none", "sent", "orphan", "over", "silent"}] /\ posted' \subseteq Requests
          /\ callback' \in [Requests -> BOOLEAN]
      BY <2>2 DEF Sound, TypeOK, XhrEnds, XhrVanishes, PostedError, ScriptFails
    <3>2. UNCHANGED <<lifecycle, transport, active, jsonp, results, calls>>
      BY <2>2 DEF XhrEnds, XhrVanishes, PostedError, ScriptFails
    <3>3. TypeOK'
      BY <3>1, <3>2 DEF Sound, TypeOK, lifecycle, jsonp, results
    <3> QED
      BY <3>2, <3>3, NamesStay DEF NamesWell, lifecycle, jsonp, results
  <2>3. ASSUME NEW answers \in BOOLEAN, ScriptLoads(r0, answers)
        PROVE  TypeOK' /\ NamesInv' /\ NamesPrivate'
    <3>1. ScriptRuns(r0, answers) /\ callback' = [callback EXCEPT ![r0] = FALSE]
      BY <2>3 DEF ScriptLoads
    <3>2. net' \in [Requests -> {"none", "sent", "orphan", "over", "silent"}] /\ callback' \in [Requests -> BOOLEAN]
      BY <3>1 DEF Sound, TypeOK, ScriptRuns
    <3>3. response' \in [Requests -> Requests \cup {None}]
      BY <3>1 DEF Sound, TypeOK, ScriptRuns
    <3>4. UNCHANGED <<lifecycle, transport, posted, active, window, callbackName, overwritten,
                      oldCallbacks, results, calls>>
      BY <2>3 DEF ScriptLoads
    <3>5. TypeOK'
      BY <3>2, <3>3, <3>4 DEF Sound, TypeOK, lifecycle, results
    <3> QED
      BY <3>4, <3>5, NamesStay DEF NamesWell, lifecycle, results
  <2> QED
    BY <2>1, <2>2, <2>3
<1>5. ASSUME NEW r0 \in Requests, Timeout(r0)
      PROVE  TypeOK' /\ NamesInv' /\ NamesPrivate'
  <2>1. TypeOK'
    BY <1>5 DEF Sound, TypeOK, Timeout, link, jsonp, results
  <2> QED
    BY <1>5, <2>1, NamesStay DEF NamesWell, Timeout, jsonp, results
<1>6. CASE UNCHANGED vars
  BY <1>6, NamesStay DEF NamesWell, Sound, TypeOK, vars, lifecycle, link, jsonp, results
<1> QED
  BY <1>1, <1>2, <1>3, <1>4, <1>5, <1>6 DEF Next

(***************************************************************************)
(* Whose data a JSONP request gets.                                        *)
(***************************************************************************)

\* A step of request r that carries a success.
Success(steps, what, r) ==
    \E i \in 1 .. Len(steps) : steps[i].do = what /\ steps[i].req = r /\ steps[i].result = "success"

\* What AnswerInv says, with no place in the agenda.
AnswerOf(r) ==
    PooledAt(r) =>
      /\ Success(agenda, "convert", r) \/ Success(agenda, "settle", r) => OwnAnswer(r) \/ Has(agenda, "evaluate", r)
      /\ Success(agenda, "done", r) /\ opts[r].kind = "script" /\ state[r] # 2 => OwnAnswer(r)

Answered == \A r \in Requests : AnswerOf(r)

LEMMA AnsweredIs ==
    ASSUME Sound, Answered
    PROVE  AnswerInv
<1>1. SUFFICES ASSUME NEW i \in 1 .. Len(agenda), agenda[i].result = "success", agenda[i].do # "page",
                      PooledAt(agenda[i].req)
               PROVE  /\ agenda[i].do \in {"convert", "settle"} =>
                             (i = 2 /\ agenda[1].do = "evaluate") \/ OwnAnswer(agenda[i].req)
                      /\ agenda[i].do = "done" /\ opts[agenda[i].req].kind = "script" /\ state[agenda[i].req] # 2
                             => OwnAnswer(agenda[i].req)
  BY DEF AnswerInv
<1>2. agenda \in Seq(StepSpace) /\ Proper(agenda) /\ Len(agenda) \in Nat
  BY ProperAgenda DEF Sound, Proper
<1>3. PICK r \in Requests : r = agenda[i].req
  <2>1. agenda[i] \in StepSpace /\ agenda[i].req # None
    BY <1>1, <1>2 DEF Proper
  <2> QED
    BY <2>1 DEF StepSpace
<1>4. AnswerOf(r) /\ PooledAt(r) /\ HasOne(agenda, Closing, r)
  BY <1>1, <1>3 DEF Answered, Sound, RequestInv, ClosingInv
<1>5. \A what : agenda[i].do = what => Success(agenda, what, r)
  BY <1>1, <1>3 DEF Success
<1>6. CASE agenda[i].do \in {"convert", "settle"}
  <2>1. CASE Has(agenda, "evaluate", r)
    <3>1. PICK j \in 1 .. Len(agenda) : agenda[j].do = "evaluate" /\ agenda[j].req = r
      BY <2>1 DEF Has
    <3>2. j = 1 /\ agenda[1].do = "evaluate" /\ agenda[1].req = r
      BY <1>2, <3>1 DEF Proper, AtOnce
    <3>3. 2 \in 1 .. Len(agenda) /\ agenda[2].do = "convert" /\ agenda[2].req = r
      BY <1>2, <3>1, <3>2 DEF Proper
    <3>4. i = 2
      BY <1>3, <1>4, <1>6, <3>3 DEF HasOne, Closing, Finishing
    <3> QED
      BY <1>6, <3>2, <3>4
  <2>2. CASE ~Has(agenda, "evaluate", r)
    BY <1>3, <1>4, <1>5, <1>6, <2>2 DEF AnswerOf
  <2> QED
    BY <2>1, <2>2
<1>7. CASE agenda[i].do \notin {"convert", "settle"}
  BY <1>3, <1>4, <1>5, <1>7 DEF AnswerOf
<1> QED
  BY <1>6, <1>7

\* The steps s, in front of the rest of the agenda, are no success of r.
NoSuccess(s, r) ==
    s \in Seq(StepSpace) /\ \A i \in 1 .. Len(s) : ~(s[i].req = r /\ s[i].result = "success")

\* The part of the agenda that an action leaves: all of it but a head that is no script to
\* evaluate.
Leaves(rest) ==
    \/ agenda # <<>> /\ Todo.do # "evaluate" /\ rest = Tail(agenda)
    \/ (agenda = <<>> \/ Now("page")) /\ rest = agenda

LEMMA NoSuccessLiterals ==
    /\ \A r : NoSuccess(<<>>, r)
    /\ \A a \in StepSpace : \A r : a.result # "success" \/ a.req # r => NoSuccess(<<a>>, r)
    /\ \A a, b \in StepSpace : \A r :
         (a.result # "success" \/ a.req # r) /\ (b.result # "success" \/ b.req # r) => NoSuccess(<<a, b>>, r)
    /\ \A s, t, r : NoSuccess(s, r) /\ NoSuccess(t, r) => NoSuccess(s \o t, r)
<1>1. \A r : NoSuccess(<<>>, r)
  BY DEF NoSuccess
<1>2. ASSUME NEW a \in StepSpace, NEW r, a.result # "success" \/ a.req # r
      PROVE  NoSuccess(<<a>>, r)
  <2>1. <<a>> \in Seq(StepSpace) /\ Len(<<a>>) = 1 /\ <<a>>[1] = a
    OBVIOUS
  <2> QED
    BY <1>2, <2>1 DEF NoSuccess
<1>3. ASSUME NEW a \in StepSpace, NEW b \in StepSpace, NEW r, a.result # "success" \/ a.req # r,
             b.result # "success" \/ b.req # r
      PROVE  NoSuccess(<<a, b>>, r)
  <2>1. <<a, b>> \in Seq(StepSpace) /\ Len(<<a, b>>) = 2 /\ <<a, b>>[1] = a /\ <<a, b>>[2] = b
    OBVIOUS
  <2> QED
    BY <1>3, <2>1 DEF NoSuccess
<1>4. ASSUME NEW s, NEW t, NEW r, NoSuccess(s, r), NoSuccess(t, r)
      PROVE  NoSuccess(s \o t, r)
  <2>1. /\ s \in Seq(StepSpace) /\ t \in Seq(StepSpace) /\ s \o t \in Seq(StepSpace)
        /\ Len(s \o t) = Len(s) + Len(t) /\ Len(s) \in Nat /\ Len(t) \in Nat
        /\ \A i \in 1 .. Len(s) : (s \o t)[i] = s[i]
        /\ \A i \in 1 .. Len(s \o t) : i \notin 1 .. Len(s) => i - Len(s) \in 1 .. Len(t) /\ (s \o t)[i] = t[i - Len(s)]
    BY <1>4 DEF NoSuccess
  <2> QED
    BY <1>4, <2>1 DEF NoSuccess
<1> QED
  BY <1>1, <1>2, <1>3, <1>4

\* The steps of the model: all but some of those of Ends carry no success.
LEMMA StepsOf ==
    ASSUME NEW r \in Requests
    PROVE  /\ \A what \in Whats : Do(what, r) \in StepSpace /\ Do(what, r).result # "success" /\ Do(what, r).req = r
           /\ PageCode \in StepSpace /\ PageCode.result # "success"
           /\ \A what \in Whats, result \in Results :
                /\ Ends(what, r, result) \in StepSpace /\ Ends(what, r, result).req = r
                /\ Ends(what, r, result).do = what /\ Ends(what, r, result).result = result
<1>1. None # "success"
  BY AjaxAssumption DEF Results
<1> QED
  BY <1>1 DEF StepSpace, Do, Ends, PageCode

LEMMA AnswerStays ==
    ASSUME AgendaInv, NEW r \in Requests, AnswerOf(r), NEW s, NEW rest, Leaves(rest), agenda' = s \o rest, NoSuccess(s, r),
           opts'[r] = opts[r], state[r] = 2 => state'[r] = 2, PooledAt(r) /\ OwnAnswer(r) => OwnAnswer(r)'
    PROVE  AnswerOf(r)'
<1>1. /\ agenda \in Seq(StepSpace) /\ rest \in Seq(StepSpace) /\ s \in Seq(StepSpace)
      /\ \A i \in 1 .. Len(agenda) : agenda[i].do = "evaluate" => i = 1
  <2>1. agenda \in Seq(StepSpace) /\ s \in Seq(StepSpace)
    BY DEF AgendaInv, NoSuccess
  <2>2. rest \in Seq(StepSpace)
    <3>1. agenda # <<>> => Tail(agenda) \in Seq(StepSpace)
      BY <2>1
    <3> QED
      BY <2>1, <3>1 DEF Leaves
  <2>3. \A i \in 1 .. Len(agenda) : agenda[i].do \in AtOnce => i = 1
    BY DEF AgendaInv
  <2> QED
    BY <2>1, <2>2, <2>3 DEF AtOnce
<1>2. ~Has(agenda, "evaluate", r)
  <2>1. 1 \in 1 .. Len(agenda) => agenda # <<>> /\ Todo = agenda[1]
    BY <1>1 DEF Todo
  <2>2. agenda # <<>> => Todo.do # "evaluate"
    BY DEF Leaves, Now, Todo
  <2> QED
    BY <1>1, <2>1, <2>2 DEF Has
<1>3. ASSUME NEW what, Success(agenda', what, r)
      PROVE  Success(agenda, what, r)
  <2>1. /\ Len(s \o rest) = Len(s) + Len(rest) /\ Len(s) \in Nat /\ Len(rest) \in Nat
        /\ \A i \in 1 .. Len(s) : (s \o rest)[i] = s[i]
        /\ \A i \in 1 .. Len(s \o rest) :
             i \notin 1 .. Len(s) => i - Len(s) \in 1 .. Len(rest) /\ (s \o rest)[i] = rest[i - Len(s)]
    BY <1>1
  <2>2. PICK i \in 1 .. Len(agenda') : agenda'[i].do = what /\ agenda'[i].req = r /\ agenda'[i].result = "success"
    BY <1>3 DEF Success
  <2>3. PICK j \in 1 .. Len(rest) : rest[j].do = what /\ rest[j].req = r /\ rest[j].result = "success"
    BY <2>1, <2>2 DEF NoSuccess
  <2>4. CASE rest = agenda
    BY <2>3, <2>4 DEF Success
  <2>5. CASE agenda # <<>> /\ rest = Tail(agenda)
    <3>1. j + 1 \in 1 .. Len(agenda) /\ agenda[j + 1] = rest[j]
      BY <1>1, <2>5
    <3> QED
      BY <2>3, <3>1 DEF Success
  <2> QED
    BY <2>4, <2>5 DEF Leaves
<1>4. PooledAt(r)' <=> PooledAt(r)
  BY DEF PooledAt
<1> QED
  BY <1>2, <1>3, <1>4 DEF AnswerOf

\* The same for all requests, at an action that puts no success on the agenda.
LEMMA AllAnswersStay ==
    ASSUME Sound, Answered, NEW s, NEW rest, Leaves(rest), agenda' = s \o rest, \A r \in Requests : NoSuccess(s, r),
           \A r \in Requests : /\ opts'[r] = opts[r] /\ (state[r] = 2 => state'[r] = 2)
                               /\ response'[r] = response[r] /\ (net[r] = "silent" => net'[r] = "silent")
    PROVE  Answered'
<1>1. ASSUME NEW r \in Requests
      PROVE  AnswerOf(r)'
  <2>1. OwnAnswer(r) => OwnAnswer(r)'
    BY DEF OwnAnswer
  <2> QED
    BY <2>1, AnswerStays DEF Sound, Answered
<1> QED
  BY <1>1 DEF Answered

\* The answer that a request got is not lost: what an action does to net and to response.
Unanswered ==
    /\ opts' = opts /\ response' = response
    /\ \A r \in Requests : (state[r] = 2 => state'[r] = 2) /\ (net[r] = "silent" => net'[r] = "silent")

LEMMA HeadLeaves ==
    ASSUME NEW what, Now(what), what # "evaluate"
    PROVE  Leaves(Tail(agenda))
BY DEF Leaves, Now, Todo

LEMMA QuietAnswers ==
    ASSUME Sound, Answered, Unanswered, NEW s, NEW rest, Leaves(rest), agenda' = s \o rest,
           \A r \in Requests : NoSuccess(s, r)
    PROVE  Answered'
BY AllAnswersStay DEF Unanswered

LEMMA ControlAnswers ==
    ASSUME Sound, Answered, PageReturns \/ Start \/ Configure \/ Judge \/ SendNothing \/ Sent \/ Complete \/ Stop
    PROVE  Answered'
<1>1. Unanswered
  BY DEF Unanswered, PageReturns, Start, Configure, Judge, SendNothing, Sent, Complete, Stop, lifecycle, link, jsonp
<1>2. \E s : agenda' = s \o Tail(agenda) /\ \A r \in Requests : NoSuccess(s, r)
  <2>1. CASE PageReturns \/ SendNothing \/ Sent
    BY <2>1, NoSuccessLiterals DEF PageReturns, SendNothing, Sent, Then
  <2>2. CASE Stop
    <3>1. \A r \in Requests : NoSuccess(<<PageCode>>, r) /\ NoSuccess(<<>>, r)
      BY NoSuccessLiterals, StepsOf
    <3> QED
      BY <2>2, <3>1 DEF Stop, Then
  <2>3. ASSUME NEW what, what # "page", Now(what), Start \/ Configure \/ Judge \/ Complete
        PROVE  \E s : agenda' = s \o Tail(agenda) /\ \A r \in Requests : NoSuccess(s, r)
    <3>1. PICK r0 \in Requests : r0 = Todo.req
      BY <2>3, HeadHas
    <3>2. \A what2 \in Whats : Do(what2, r0) \in StepSpace /\ Do(what2, r0).result # "success"
      BY StepsOf
    <3>3. /\ "configure" \in Whats /\ "judge" \in Whats /\ "open" \in Whats /\ "stop" \in Whats /\ "abort" \in Whats
          /\ "canceled" \in Results /\ "canceled" # "success"
      BY DEF Whats, Opening, Closing, AtOnce, Results
    <3>4. Ends("abort", r0, "canceled") \in StepSpace /\ Ends("abort", r0, "canceled").result # "success"
      BY <3>3, StepsOf
    <3>5. PageCode \in StepSpace /\ PageCode.result # "success"
      BY <3>1, StepsOf
    <3>6. ASSUME NEW r \in Requests
          PROVE  /\ NoSuccess(<<>>, r) /\ NoSuccess(<<PageCode>>, r)
                 /\ \A what2 \in Whats : NoSuccess(<<Do(what2, r0)>>, r) /\ NoSuccess(<<PageCode, Do(what2, r0)>>, r)
                 /\ NoSuccess(<<Ends("abort", r0, "canceled")>>, r)
      BY <3>2, <3>4, <3>5, NoSuccessLiterals
    <3>7. CASE Start
      <4>1. PICK s, t : /\ agenda' = (s \o t) \o Tail(agenda)
                        /\ s = <<PageCode>> \/ s = <<>>
                        /\ t = <<>> \/ t = <<Do("configure", r0)>>
        BY <3>1, <3>7 DEF Start, Then
      <4>2. \A r \in Requests : NoSuccess(s, r) /\ NoSuccess(t, r)
        BY <3>3, <3>6, <4>1
      <4>3. \A r \in Requests : NoSuccess(s \o t, r)
        BY <4>2, NoSuccessLiterals
      <4> QED
        BY <4>1, <4>3
    <3>8. CASE Configure
      BY <3>1, <3>3, <3>6, <3>8 DEF Configure, Then
    <3>9. CASE Judge
      BY <3>1, <3>3, <3>6, <3>9 DEF Judge, Then
    <3>10. CASE Complete
      <4>1. PICK t : agenda' = (<<PageCode>> \o t) \o Tail(agenda) /\ (t = <<>> \/ t = <<Do("stop", r0)>>)
        BY <3>1, <3>10 DEF Complete, Then
      <4>2. \A r \in Requests : NoSuccess(<<PageCode>>, r) /\ NoSuccess(t, r)
        BY <3>3, <3>6, <4>1
      <4>3. \A r \in Requests : NoSuccess(<<PageCode>> \o t, r)
        BY <4>2, NoSuccessLiterals
      <4> QED
        BY <4>1, <4>3
    <3> QED
      BY <2>3, <3>7, <3>8, <3>9, <3>10
  <2> QED
    BY <2>1, <2>2, <2>3 DEF Start, Configure, Judge, Complete
<1>3. Leaves(Tail(agenda))
  BY HeadLeaves DEF PageReturns, Start, Configure, Judge, SendNothing, Sent, Complete, Stop
<1> QED
  BY <1>1, <1>2, <1>3, QuietAnswers

\* Between open() and done() nothing is handed over yet.
LEMMA SendingAnswers ==
    ASSUME Sound, Answered, Open \/ Send \/ SendSync \/ SendThrows
    PROVE  Answered'
<1>1. PICK r0 \in Requests : r0 = Todo.req /\ RequestInv(r0) /\ (Has(agenda, "open", r0) \/ Has(agenda, "send", r0))
  BY HeadHas DEF Open, Send, SendSync, SendThrows
<1>2. Leaves(Tail(agenda))
  BY HeadLeaves DEF Open, Send, SendSync, SendThrows
<1>3. state[r0] # 1 /\ (Send \/ SendSync => state[r0] = 0 /\ net[r0] = "none")
  <2>1. state[r0] # 1 /\ state[r0] \in 0 .. 2
    BY <1>1, HasKinds DEF RequestInv, OpeningInv, Sound, TypeOK
  <2> QED
    BY <1>1, <2>1 DEF RequestInv, WaitingInv, Send, SendSync, SendWith
<1>4. Unanswered
  <2>1. opts' = opts /\ response' = response
    BY DEF Open, Send, SendSync, SendThrows, SendWith, lifecycle, jsonp
  <2>2. \A r \in Requests : state[r] = 2 => state'[r] = 2
    BY <1>1 DEF Sound, TypeOK, Open, Send, SendSync, SendThrows, SendWith, lifecycle
  <2>3. \A r \in Requests : net[r] = "silent" => net'[r] = "silent"
    BY <1>1, <1>3 DEF Sound, TypeOK, Open, Send, SendSync, SendThrows, SendWith
  <2> QED
    BY <2>1, <2>2, <2>3 DEF Unanswered
<1>5. /\ \A what \in Whats : Do(what, r0) \in StepSpace /\ Do(what, r0).result # "success"
      /\ \A what \in Whats, result \in Results :
           Ends(what, r0, result) \in StepSpace /\ Ends(what, r0, result).result = result /\ Ends(what, r0, result).req = r0
      /\ PageCode \in StepSpace /\ PageCode.result # "success"
      /\ "send" \in Whats /\ "sent" \in Whats /\ "done" \in Whats /\ "error" \in Results /\ "success" \in Results
  BY StepsOf DEF Whats, Opening, AtOnce, Results
<1>6. CASE Open \/ Send \/ SendThrows
  <2>1. ASSUME NEW r \in Requests
        PROVE  /\ NoSuccess(<<>>, r) /\ NoSuccess(<<Do("send", r0)>>, r) /\ NoSuccess(<<PageCode, Do("send", r0)>>, r)
               /\ NoSuccess(<<Ends("done", r0, "error")>>, r)
    BY <1>5, NoSuccessLiterals
  <2>2. \E s : agenda' = s \o Tail(agenda) /\ \A r \in Requests : NoSuccess(s, r)
    BY <1>1, <1>6, <2>1 DEF Open, Send, SendThrows, Then
  <2> QED
    BY <1>2, <1>4, <2>2, QuietAnswers
<1>7. CASE SendSync
  <2>1. PICK result \in {"success", "error"} :
          agenda' = <<Ends("done", r0, result), Do("sent", r0)>> \o Tail(agenda)
    BY <1>1, <1>7 DEF SendSync, Then
  <2>2. ASSUME NEW r \in Requests, r # r0
        PROVE  AnswerOf(r)'
    <3>1. NoSuccess(<<Ends("done", r0, result), Do("sent", r0)>>, r)
      BY <1>5, <2>1, <2>2, NoSuccessLiterals
    <3>2. OwnAnswer(r) => OwnAnswer(r)'
      BY <1>4 DEF Unanswered, OwnAnswer
    <3> QED
      BY <1>2, <1>4, <2>1, <3>1, <3>2, AnswerStays DEF Sound, Answered, Unanswered
  <2>3. AnswerOf(r0)'
    <3>1. opts'[r0].kind # "script"
      BY <1>1, <1>4, <1>7 DEF Unanswered, SendSync
    <3>2. state'[r0] = 1 /\ RequestInv(r0)'
      BY <1>1, <1>7, SendSyncKeeps DEF SendSync, SendWith, Kept, Sound, TypeOK
    <3>3. ~Has(agenda', "convert", r0) /\ ~Has(agenda', "settle", r0)
      BY <3>2, HasKinds DEF RequestInv, ClosingInv
    <3>4. ~Success(agenda', "convert", r0) /\ ~Success(agenda', "settle", r0)
      BY <3>3 DEF Success, Has
    <3> QED
      BY <3>1, <3>4 DEF AnswerOf
  <2> QED
    BY <2>2, <2>3 DEF Answered
<1> QED
  BY <1>6, <1>7

LEMMA AbortAnswers ==
    ASSUME Sound, Answered, Abort
    PROVE  Answered'
<1>1. PICK r0 \in Requests : r0 = Todo.req /\ Todo.result \in Results /\ Todo.result # "success"
  BY HeadHas DEF Abort
<1>2. Unanswered
  BY <1>1 DEF Unanswered, Abort, lifecycle, jsonp, Sound, TypeOK
<1>3. \A r \in Requests : NoSuccess(<<Ends("done", r0, Todo.result)>>, r)
  <2>1. "done" \in Whats
    BY DEF Whats, AtOnce
  <2> QED
    BY <1>1, <2>1, StepsOf, NoSuccessLiterals
<1>4. Leaves(Tail(agenda)) /\ agenda' = <<Ends("done", r0, Todo.result)>> \o Tail(agenda)
  BY <1>1, HeadLeaves DEF Abort, Then
<1> QED
  BY <1>2, <1>3, <1>4, QuietAnswers

\* A success at the head of the agenda.
LEMMA HeadSuccess ==
    ASSUME Sound, Answered, NEW what, Now(what), what # "page", NEW r0, r0 = Todo.req, Todo.result = "success"
    PROVE  Success(agenda, what, r0) /\ (what # "evaluate" => ~Has(agenda, "evaluate", r0))
<1>1. /\ 1 \in 1 .. Len(agenda) /\ agenda[1] = Todo /\ Todo.do = what
      /\ \A i \in 1 .. Len(agenda) : agenda[i].do \in AtOnce => i = 1
  BY TailProper DEF Sound, Now, Todo, AgendaInv
<1> QED
  BY <1>1 DEF Success, Has, AtOnce

LEMMA ConvertAnswers ==
    ASSUME Sound, Answered, Convert
    PROVE  Answered'
<1>1. PICK r0 \in Requests : r0 = Todo.req /\ Todo.result \in Results /\ RequestInv(r0) /\ Has(agenda, "convert", r0)
  BY HeadHas DEF Convert
<1>2. Unanswered /\ state' = state /\ net' = net /\ callbackName' = callbackName
  BY DEF Unanswered, Convert, lifecycle, link, jsonp
<1>3. PICK result \in Results, t \in {<<>>, <<PageCode>>} :
        /\ agenda' = (t \o <<Ends("settle", r0, result)>>) \o Tail(agenda)
        /\ result = "success" => Todo.result = "success"
  <2>1. "parsererror" \in Results /\ "parsererror" # "success"
    BY DEF Results
  <2> QED
    BY <1>1, <2>1 DEF Convert, Then
<1>4. /\ Ends("settle", r0, result) \in StepSpace /\ Ends("settle", r0, result).req = r0
      /\ Ends("settle", r0, result).result = result
      /\ PageCode \in StepSpace /\ PageCode.result # "success"
  <2>1. "settle" \in Whats
    BY DEF Whats, Closing, Finishing
  <2> QED
    BY <2>1, StepsOf
<1>5. ASSUME NEW r \in Requests, r # r0 \/ result # "success"
      PROVE  AnswerOf(r)'
  <2>1. NoSuccess(<<Ends("settle", r0, result)>>, r) /\ NoSuccess(t, r)
    BY <1>3, <1>4, <1>5, NoSuccessLiterals
  <2>2. NoSuccess(t \o <<Ends("settle", r0, result)>>, r)
    BY <2>1, NoSuccessLiterals
  <2>3. Leaves(Tail(agenda))
    BY HeadLeaves DEF Convert
  <2>4. OwnAnswer(r) => OwnAnswer(r)'
    BY <1>2 DEF Unanswered, OwnAnswer
  <2> QED
    BY <1>2, <1>3, <2>2, <2>3, <2>4, AnswerStays DEF Sound, Answered, Unanswered
<1>6. ASSUME result = "success"
      PROVE  AnswerOf(r0)'
  <2>1. Success(agenda, "convert", r0) /\ ~Has(agenda, "evaluate", r0)
    BY <1>1, <1>3, <1>6, HeadSuccess DEF Convert
  <2>2. PooledAt(r0) => OwnAnswer(r0)
    BY <2>1 DEF Answered, AnswerOf
  <2>3. PooledAt(r0)' => OwnAnswer(r0)'
    BY <1>2, <2>2 DEF Unanswered, OwnAnswer, PooledAt
  <2> QED
    BY <2>3 DEF AnswerOf
<1> QED
  BY <1>5, <1>6 DEF Answered

LEMMA DoneAnswers ==
    ASSUME Sound, NamesWell, Answered, Done
    PROVE  Answered'
<1>1. PICK r0 \in Requests : r0 = Todo.req /\ Todo.result \in Results /\ RequestInv(r0) /\ Has(agenda, "done", r0)
  BY HeadHas DEF Done
<1>2. opts[r0] # None /\ agenda # <<>> /\ Tail(agenda) \in Seq(StepSpace) /\ agenda \in Seq(StepSpace)
  BY <1>1, HasKinds, TailProper DEF RequestInv, OpeningInv, Done, Now, Sound, AgendaInv
<1>3. /\ opts' = opts /\ response' = response /\ net' = net /\ callbackName' = callbackName
      /\ \A r \in Requests : (state[r] = 2 => state'[r] = 2)
  BY <1>1 DEF Done, jsonp, Sound, TypeOK
<1>4. Unanswered
  BY <1>3 DEF Unanswered
<1>5. Leaves(Tail(agenda))
  BY HeadLeaves DEF Done
<1>6. CASE CalledBefore(r0)
  <2>1. agenda' = <<>> \o Tail(agenda)
    BY <1>1, <1>6 DEF Done, Then
  <2> QED
    BY <1>4, <1>5, <2>1, NoSuccessLiterals, QuietAnswers
<1>7. CASE ~CalledBefore(r0)
  <2>1. PICK t :
          /\ agenda' = (t \o <<Ends("convert", r0, Todo.result)>>) \o Tail(agenda)
          /\ t = IF Evaluates(r0, Todo.result) THEN <<Do("evaluate", r0)>> ELSE <<>>
    BY <1>1, <1>7 DEF Done, Then
  <2>2. /\ Ends("convert", r0, Todo.result) \in StepSpace /\ Ends("convert", r0, Todo.result).req = r0
        /\ Ends("convert", r0, Todo.result).result = Todo.result
        /\ Do("evaluate", r0) \in StepSpace /\ Do("evaluate", r0).result # "success"
    <3>1. "convert" \in Whats /\ "evaluate" \in Whats
      BY DEF Whats, Closing, Finishing, AtOnce
    <3> QED
      BY <1>1, <3>1, StepsOf
  <2>3. ASSUME NEW r \in Requests, r # r0 \/ Todo.result # "success"
        PROVE  AnswerOf(r)'
    <3>1. NoSuccess(<<Ends("convert", r0, Todo.result)>>, r) /\ NoSuccess(t, r)
      BY <2>1, <2>2, <2>3, NoSuccessLiterals
    <3>2. NoSuccess(t \o <<Ends("convert", r0, Todo.result)>>, r)
      BY <3>1, NoSuccessLiterals
    <3>3. OwnAnswer(r) => OwnAnswer(r)'
      BY <1>3 DEF OwnAnswer
    <3> QED
      BY <1>3, <1>5, <2>1, <3>2, <3>3, AnswerStays DEF Sound, Answered
  <2>4. ASSUME Todo.result = "success", PooledAt(r0)
        PROVE  OwnAnswer(r0)' \/ Has(agenda', "evaluate", r0)
    <3>1. CASE opts[r0].kind = "script"
      <4>1. Success(agenda, "done", r0)
        BY <1>1, <2>4, HeadSuccess DEF Done
      <4>2. OwnAnswer(r0)
        BY <1>7, <2>4, <3>1, <4>1 DEF Answered, AnswerOf, CalledBefore
      <4> QED
        BY <1>3, <4>2 DEF OwnAnswer
    <3>2. CASE opts[r0].kind # "script"
      <4>1. callbackName[r0] # None
        BY <2>4 DEF PooledAt, NamesWell, NamesInv
      <4>2. t = <<Do("evaluate", r0)>>
        BY <2>1, <2>4, <3>2, <4>1 DEF Evaluates, IsJsonp
      <4>3. Has(<<Do("evaluate", r0)>>, "evaluate", r0)
        BY HasLiteral DEF Do
      <4>4. <<Ends("convert", r0, Todo.result)>> \in Seq(StepSpace) /\ <<Do("evaluate", r0)>> \in Seq(StepSpace)
        BY <2>2
      <4>5. Has(t \o <<Ends("convert", r0, Todo.result)>>, "evaluate", r0)
        BY <4>2, <4>3, <4>4, HasConcat
      <4>6. t \o <<Ends("convert", r0, Todo.result)>> \in Seq(StepSpace)
        BY <4>2, <4>4
      <4> QED
        BY <1>2, <2>1, <4>5, <4>6, HasConcat
    <3> QED
      BY <3>1, <3>2
  <2>5. ASSUME Todo.result = "success"
        PROVE  AnswerOf(r0)'
    <3>1. state'[r0] = 2
      BY <1>1, <1>7 DEF Done, Sound, TypeOK
    <3>2. PooledAt(r0)' <=> PooledAt(r0)
      BY <1>3 DEF PooledAt
    <3> QED
      BY <2>4, <2>5, <3>1, <3>2 DEF AnswerOf
  <2> QED
    BY <2>3, <2>5 DEF Answered
<1> QED
  BY <1>6, <1>7

\* A script that is evaluated calls the function that its name stands for: that of its own request,
\* while that one is not settled.
LEMMA OwnFunction ==
    ASSUME Sound, NamesWell, NEW r0 \in Requests, NEW answers \in BOOLEAN, ScriptRuns(r0, answers)
    PROVE  /\ \A r \in Requests : r # r0 => net'[r] = net[r]
           /\ net'[r0] = IF answers THEN "over" ELSE "silent"
           /\ PooledAt(r0) /\ outcome[r0] = None =>
                /\ answers => response'[r0] = r0
                /\ \A r \in Requests : r # r0 => response'[r] = response[r]
           /\ \A r \in Requests : PooledAt(r) /\ outcome[r] = None /\ r # r0 =>
                response'[r] = response[r]
                \/ (callbackName[r0] = callbackName[r] /\ PooledAt(r0) /\ outcome[r0] # None)
<1>1. /\ callbackName \in [Requests -> CallbackNames \cup {None}] /\ response \in [Requests -> Requests \cup {None}]
      /\ window \in [CallbackNames -> Requests \cup {None}] /\ net \in [Requests -> {"none", "sent", "orphan", "over", "silent"}]
      /\ None \notin Requests /\ None \notin CallbackNames /\ None # Given
  BY AjaxAssumption, FS_CardinalityType DEF Sound, TypeOK, CallbackNames, Given
<1>2. /\ net' = [net EXCEPT ![r0] = IF answers THEN "over" ELSE "silent"]
      /\ response' = IF answers /\ IsJsonp(r0) /\ window[callbackName[r0]] # None
                     THEN [response EXCEPT ![window[callbackName[r0]]] = r0]
                     ELSE response
  BY DEF ScriptRuns
<1>3. (\A r \in Requests : r # r0 => net'[r] = net[r]) /\ net'[r0] = IF answers THEN "over" ELSE "silent"
  BY <1>1, <1>2
<1>4. ASSUME NEW r \in Requests, PooledAt(r)
      PROVE  callbackName[r] \in CallbackNames \ {Given} /\ callbackName[r] # None
  BY <1>1, <1>4 DEF PooledAt, NamesWell, NamesInv
<1>5. ASSUME PooledAt(r0), outcome[r0] = None
      PROVE  /\ answers => response'[r0] = r0
             /\ \A r \in Requests : r # r0 => response'[r] = response[r]
  <2>1. window[callbackName[r0]] = r0
    BY <1>5 DEF NamesWell, NamesPrivate
  <2> QED
    BY <1>1, <1>2, <1>4, <1>5, <2>1 DEF IsJsonp
<1>6. ASSUME NEW r \in Requests, PooledAt(r), outcome[r] = None, r # r0, response'[r] # response[r]
      PROVE  callbackName[r0] = callbackName[r] /\ PooledAt(r0) /\ outcome[r0] # None
  <2>1. callbackName[r0] # None /\ window[callbackName[r0]] = r
    BY <1>1, <1>2, <1>6 DEF IsJsonp
  <2>2. callbackName[r0] \in CallbackNames /\ callbackName[r] = callbackName[r0]
    BY <1>1, <1>6, <2>1 DEF NamesWell, NamesInv
  <2>3. opts[r0] # None /\ opts[r0] \in OptionSpace
    BY <2>1, AjaxAssumption DEF Sound, TypeOK, RequestInv, OpeningInv
  <2>4. opts[r0].name # "none" /\ opts[r0].name # "given"
    BY <1>4, <1>6, <2>1, <2>2, <2>3 DEF NamesWell, NamesInv
  <2>5. PooledAt(r0)
    BY <2>3, <2>4 DEF PooledAt, OptionSpace, Names
  <2>6. outcome[r0] # None
    BY <1>5, <1>6, <2>5
  <2> QED
    BY <2>2, <2>5, <2>6
<1> QED
  BY <1>3, <1>5, <1>6

LEMMA EvaluateAnswers ==
    ASSUME Sound, NamesWell, Answered, Evaluate
    PROVE  Answered'
<1>1. PICK r0 \in Requests : r0 = Todo.req /\ RequestInv(r0) /\ Has(agenda, "evaluate", r0) /\ Now("evaluate")
  BY HeadHas DEF Evaluate
<1>2. PICK answers \in BOOLEAN : ScriptRuns(r0, answers)
  BY <1>1 DEF Evaluate
<1>3. /\ agenda' = Tail(agenda) /\ opts' = opts /\ state' = state /\ agenda # <<>>
      /\ agenda \in Seq(StepSpace) /\ Tail(agenda) \in Seq(StepSpace)
  <2>1. agenda # <<>> /\ agenda \in Seq(StepSpace) /\ Tail(agenda) \in Seq(StepSpace)
    BY <1>1, TailProper DEF Sound, AgendaInv, Now
  <2> QED
    BY <2>1 DEF Evaluate, Then, lifecycle
<1>4. outcome[r0] = None
  <2>1. /\ 1 \in 1 .. Len(agenda) /\ agenda[1].do = "evaluate" /\ agenda[1].req = r0
    BY <1>1, TailProper DEF Sound, Now, Todo, AgendaInv
  <2>2. 2 \in 1 .. Len(agenda) /\ agenda[2].do = "convert" /\ agenda[2].req = r0
    BY <1>3, <2>1 DEF Sound, AgendaInv
  <2>3. Has(agenda, "convert", r0)
    BY <2>2 DEF Has
  <2> QED
    BY <1>1, <2>3 DEF RequestInv, ClosingInv
<1>5. ASSUME NEW what, NEW r, Success(agenda', what, r)
      PROVE  Success(agenda, what, r) /\ Has(agenda, what, r)
  <2>1. PICK i \in 1 .. Len(agenda') : agenda'[i].do = what /\ agenda'[i].req = r /\ agenda'[i].result = "success"
    BY <1>5 DEF Success
  <2>2. i + 1 \in 1 .. Len(agenda) /\ agenda[i + 1] = agenda'[i]
    BY <1>3, <2>1
  <2> QED
    BY <2>1, <2>2 DEF Success, Has
<1>6. \A r \in Requests : PooledAt(r)' <=> PooledAt(r)
  BY <1>3 DEF PooledAt
<1>7. AnswerOf(r0)'
  <2>1. PooledAt(r0) => OwnAnswer(r0)'
    BY <1>2, <1>4, OwnFunction DEF OwnAnswer
  <2> QED
    BY <1>6, <2>1 DEF AnswerOf
<1>8. ASSUME NEW r \in Requests, r # r0
      PROVE  AnswerOf(r)'
  <2>1. ~Has(agenda, "evaluate", r)
    <3>1. \A i \in 1 .. Len(agenda) : agenda[i].do = "evaluate" => agenda[i].req = r0
      BY <1>1, TailProper DEF Sound, AgendaInv, AtOnce, Now, Todo
    <3> QED
      BY <1>8, <3>1 DEF Has
  <2>2. ASSUME PooledAt(r), outcome[r] = None, OwnAnswer(r)
        PROVE  OwnAnswer(r)'
    BY <1>2, <1>4, <1>8, <2>2, OwnFunction DEF OwnAnswer
  <2>3. /\ Has(agenda, "convert", r) \/ Has(agenda, "settle", r) => outcome[r] = None
        /\ state[r] # 2 => outcome[r] = None
    BY DEF Sound, RequestInv, ClosingInv
  <2>4. AnswerOf(r)
    BY DEF Answered
  <2>5. ASSUME PooledAt(r), Success(agenda', "convert", r) \/ Success(agenda', "settle", r)
        PROVE  OwnAnswer(r)'
    BY <1>5, <2>1, <2>2, <2>3, <2>4, <2>5 DEF AnswerOf
  <2>6. ASSUME PooledAt(r), Success(agenda', "done", r), opts[r].kind = "script", state[r] # 2
        PROVE  OwnAnswer(r)'
    BY <1>5, <2>2, <2>3, <2>4, <2>6 DEF AnswerOf
  <2> QED
    BY <1>3, <1>6, <2>5, <2>6 DEF AnswerOf
<1> QED
  BY <1>7, <1>8 DEF Answered

LEMMA SettleAnswers ==
    ASSUME Sound, NamesWell, Answered, Settle
    PROVE  Answered'
<1>1. PICK r0 \in Requests :
        r0 = Todo.req /\ Has(agenda, "settle", r0) /\ RequestInv(r0) /\ Todo.result \in Results /\ Now("settle")
  BY HeadHas DEF Settle
<1>2. /\ CleanUp(r0) /\ opts' = opts /\ state' = state /\ net' = net
      /\ agenda' = <<PageCode, Do("complete", r0)>> \o Tail(agenda)
  BY <1>1 DEF Settle, lifecycle, link, Then
<1>3. ASSUME NEW r \in Requests
      PROVE  NoSuccess(<<PageCode, Do("complete", r0)>>, r)
  <2>1. "complete" \in Whats
    BY DEF Whats, Closing, Finishing
  <2> QED
    BY <2>1, StepsOf, NoSuccessLiterals
<1>4. Leaves(Tail(agenda))
  BY <1>1, HeadLeaves
<1>5. ASSUME NEW r \in Requests, r # r0
      PROVE  AnswerOf(r)'
  <2>1. ASSUME PooledAt(r), OwnAnswer(r)
        PROVE  OwnAnswer(r)'
    <3>1. CASE ~IsJsonp(r0)
      BY <1>2, <2>1, <3>1 DEF CleanUp, OwnAnswer, jsonp
    <3>2. CASE IsJsonp(r0)
      <4>1. callbackName[r] # Given
        BY <2>1 DEF PooledAt, NamesWell, NamesInv
      <4>2. r # overwritten[r0]
        BY <4>1, AjaxAssumption DEF NamesWell, NamesInv
      <4>3. response'[r] = response[r]
        BY <1>2, <1>5, <3>2, <4>2 DEF CleanUp
      <4> QED
        BY <1>2, <2>1, <4>3 DEF OwnAnswer
    <3> QED
      BY <3>1, <3>2
  <2> QED
    BY <1>2, <1>3, <1>4, <2>1, AnswerStays DEF Sound, Answered
<1>6. AnswerOf(r0)'
  <2>1. state'[r0] = 2
    BY <1>1, <1>2, HasKinds DEF RequestInv, ClosingInv
  <2>2. RequestInv(r0)' /\ outcome'[r0] # None
    <3>1. outcome'[r0] = Todo.result
      BY <1>1 DEF Settle, Sound, TypeOK
    <3> QED
      BY <1>1, <3>1, SettleKeeps, AjaxAssumption DEF Kept
  <2>3. ~Has(agenda', "convert", r0) /\ ~Has(agenda', "settle", r0)
    BY <2>2 DEF RequestInv, ClosingInv
  <2>4. ~Success(agenda', "convert", r0) /\ ~Success(agenda', "settle", r0)
    BY <2>3 DEF Success, Has
  <2> QED
    BY <2>1, <2>4 DEF AnswerOf
<1> QED
  BY <1>5, <1>6 DEF Answered

LEMMA AjaxAnswers ==
    ASSUME Sound, Answered, NEW r0 \in Requests, NEW o \in Options, Ajax(r0, o)
    PROVE  Answered'
<1>1. /\ opts[r0] = None /\ opts' = [opts EXCEPT ![r0] = o] /\ UNCHANGED <<state, net, response>>
      /\ agenda' = <<PageCode, Do("start", r0)>> \o agenda /\ Leaves(agenda)
  BY DEF Ajax, Prefilter, link, Leaves, Calling
<1>2. ASSUME NEW r \in Requests
      PROVE  NoSuccess(<<PageCode, Do("start", r0)>>, r)
  <2>1. "start" \in Whats
    BY DEF Whats, Opening
  <2> QED
    BY <2>1, StepsOf, NoSuccessLiterals
<1>3. ASSUME NEW r \in Requests, r # r0
      PROVE  AnswerOf(r)'
  <2>1. opts'[r] = opts[r]
    BY <1>1, <1>3 DEF Sound, TypeOK
  <2>2. OwnAnswer(r) => OwnAnswer(r)'
    BY <1>1 DEF OwnAnswer
  <2> QED
    BY <1>1, <1>2, <2>1, <2>2, AnswerStays DEF Sound, Answered
<1>4. AnswerOf(r0)'
  <2>1. ~HasAny(agenda, Whats, r0) /\ agenda \in Seq(StepSpace)
    BY <1>1 DEF Sound, RequestInv, OpeningInv, AgendaInv
  <2>2. PageCode \in StepSpace /\ Do("start", r0) \in StepSpace /\ PageCode.do = "page" /\ Do("start", r0).do = "start"
    BY PageStep DEF Do, StepSpace, Whats, Opening
  <2>3. <<PageCode, Do("start", r0)>> \in Seq(StepSpace)
    BY <2>2
  <2>4. /\ ~Has(agenda', "convert", r0) /\ ~Has(agenda', "settle", r0) /\ ~Has(agenda', "done", r0)
    <3>1. ~Has(agenda, "convert", r0) /\ ~Has(agenda, "settle", r0) /\ ~Has(agenda, "done", r0)
      BY <2>1, HasKinds
    <3>2. \A what : Has(<<PageCode, Do("start", r0)>>, what, r0) => what \in {"page", "start"}
      BY <2>2, HasLiteral
    <3>3. \A what : Has(agenda', what, r0) <=> Has(<<PageCode, Do("start", r0)>>, what, r0) \/ Has(agenda, what, r0)
      BY <1>1, <2>1, <2>3, HasConcat
    <3> QED
      BY <3>1, <3>2, <3>3
  <2>5. ~Success(agenda', "convert", r0) /\ ~Success(agenda', "settle", r0) /\ ~Success(agenda', "done", r0)
    BY <2>4 DEF Success, Has
  <2> QED
    BY <2>5 DEF AnswerOf
<1> QED
  BY <1>3, <1>4 DEF Answered

\* Aborts, timeouts and failures carry no success.
LEMMA FailureAnswers ==
    ASSUME Sound, Answered, NEW r0 \in Requests,
           PageAborts(r0) \/ Timeout(r0) \/ XhrVanishes(r0) \/ PostedError(r0) \/ ScriptFails(r0)
    PROVE  Answered'
<1>1. Leaves(agenda) /\ agenda \in Seq(StepSpace)
  BY DEF Leaves, PageAborts, Timeout, XhrVanishes, PostedError, ScriptFails, Calling, Idle, Sound, AgendaInv
<1>2. Unanswered
  BY DEF Unanswered, PageAborts, Timeout, XhrVanishes, PostedError, ScriptFails, lifecycle, link, jsonp, Sound, TypeOK
<1>3. ASSUME NEW r \in Requests
      PROVE  /\ NoSuccess(<<>>, r) /\ NoSuccess(<<Ends("abort", r0, "abort")>>, r)
             /\ NoSuccess(<<Ends("abort", r0, "timeout")>>, r) /\ NoSuccess(<<Ends("done", r0, "error")>>, r)
  <2>1. "abort" \in Whats /\ "done" \in Whats /\ "abort" \in Results /\ "timeout" \in Results /\ "error" \in Results
    BY DEF Whats, AtOnce, Results
  <2> QED
    BY <2>1, StepsOf, NoSuccessLiterals
<1>4. \E s : agenda' = s \o agenda /\ \A r \in Requests : NoSuccess(s, r)
  <2>1. CASE PageAborts(r0)
    BY <1>3, <2>1 DEF PageAborts
  <2>2. CASE Timeout(r0) \/ XhrVanishes(r0) \/ PostedError(r0) \/ ScriptFails(r0)
    <3>1. agenda = <<>>
      BY <2>2 DEF Timeout, XhrVanishes, PostedError, ScriptFails, Idle
    <3>2. PICK s : agenda' = s /\ \A r \in Requests : NoSuccess(s, r)
      BY <1>3, <2>2, <3>1 DEF Timeout, XhrVanishes, PostedError, ScriptFails
    <3>3. s \in Seq(StepSpace)
      BY <3>2 DEF NoSuccess
    <3>4. s = s \o agenda
      BY <3>1, <3>3
    <3> QED
      BY <3>2, <3>4
  <2> QED
    BY <2>1, <2>2
<1> QED
  BY <1>1, <1>2, <1>4, QuietAnswers

\* An answer comes in a task of its own.
LEMMA ArrivalAnswers ==
    ASSUME Sound, NamesWell, Answered, NEW r0 \in Requests,
           XhrEnds(r0) \/ \E answers \in BOOLEAN : ScriptLoads(r0, answers)
    PROVE  Answered'
<1>1. PICK result \in Results : agenda' = <<Ends("done", r0, result)>> \/ agenda' = <<>>
  <2>1. "success" \in Results /\ "error" \in Results
    BY DEF Results
  <2> QED
    BY <2>1 DEF XhrEnds, ScriptLoads
<1>2. \A what, r : Success(agenda', what, r) => what = "done" /\ r = r0
  <2>1. /\ Len(<<>>) = 0 /\ Len(<<Ends("done", r0, result)>>) = 1
        /\ <<Ends("done", r0, result)>>[1] = Ends("done", r0, result)
    OBVIOUS
  <2>2. Ends("done", r0, result).do = "done" /\ Ends("done", r0, result).req = r0
    BY DEF Ends
  <2> QED
    BY <1>1, <2>1, <2>2 DEF Success
<1>3. ASSUME PooledAt(r0)', Success(agenda', "done", r0), opts'[r0].kind = "script", state'[r0] # 2
      PROVE  OwnAnswer(r0)'
  <2>1. opts' = opts /\ state' = state
    BY DEF XhrEnds, ScriptLoads, lifecycle
  <2>2. PICK answers \in BOOLEAN : ScriptLoads(r0, answers)
    BY <1>3, <2>1 DEF XhrEnds
  <2>3. outcome[r0] = None
    BY <1>3, <2>1 DEF Sound, RequestInv, ClosingInv
  <2>4. PooledAt(r0)
    BY <1>3, <2>1 DEF PooledAt
  <2>5. ScriptRuns(r0, answers)
    BY <2>2 DEF ScriptLoads
  <2> QED
    BY <2>3, <2>4, <2>5, OwnFunction DEF OwnAnswer
<1> QED
  BY <1>2, <1>3 DEF Answered, AnswerOf

LEMMA UnwoundAnswers ==
    ASSUME Sound, Answered, Unwound, Now("page") \/ Now("convert"), UNCHANGED <<lifecycle, link, active, jsonp, results>>
    PROVE  Answered'
<1>1. PICK kept \in 1 .. Len(agenda) : agenda' = SubSeq(agenda, kept + 1, Len(agenda))
  BY DEF Unwound
<1>2. agenda \in Seq(StepSpace) /\ Len(agenda) \in Nat /\ Proper(agenda)
  BY ProperAgenda DEF Sound, Proper
<1>3. /\ agenda' \in Seq(StepSpace) /\ Len(agenda') = Len(agenda) - kept
      /\ \A i \in 1 .. Len(agenda') : i + kept \in 1 .. Len(agenda) /\ agenda'[i] = agenda[i + kept]
  BY <1>1, <1>2
<1>4. \A i \in 1 .. Len(agenda) : agenda[i].do # "evaluate"
  BY <1>2 DEF Proper, AtOnce, Now
<1>5. ASSUME NEW r \in Requests
      PROVE  AnswerOf(r)'
  <2>1. \A what : Success(agenda', what, r) => Success(agenda, what, r)
    BY <1>3 DEF Success
  <2>2. ~Has(agenda, "evaluate", r)
    BY <1>4 DEF Has
  <2>3. /\ PooledAt(r)' <=> PooledAt(r)
        /\ OwnAnswer(r)' <=> OwnAnswer(r)
        /\ state' = state /\ opts' = opts
    BY DEF PooledAt, OwnAnswer, lifecycle, link, jsonp
  <2> QED
    BY <2>1, <2>2, <2>3 DEF Answered, AnswerOf
<1> QED
  BY <1>5 DEF Answered

LEMMA StepAnswers ==
    ASSUME Sound, NamesWell, Answered, [Next]_vars
    PROVE  Answered'
<1>1. CASE Page
  BY <1>1, AjaxAnswers, FailureAnswers DEF Page
<1>2. CASE PageThrows \/ ConvertThrows
  BY <1>2, UnwoundAnswers DEF PageThrows, ConvertThrows
<1>3. CASE Engine
  BY <1>3, ControlAnswers, SendingAnswers, AbortAnswers, DoneAnswers, EvaluateAnswers, ConvertAnswers, SettleAnswers
     DEF Engine
<1>4. CASE Network
  BY <1>4, FailureAnswers, ArrivalAnswers DEF Network
<1>5. CASE \E r \in Requests : Timeout(r)
  BY <1>5, FailureAnswers
<1>6. CASE UNCHANGED vars
  BY <1>6 DEF Answered, AnswerOf, PooledAt, OwnAnswer, vars, lifecycle, link, jsonp
<1> QED
  BY <1>1, <1>2, <1>3, <1>4, <1>5, <1>6 DEF Next

(***************************************************************************)
(* The inductive invariant, and what it says between two tasks.            *)
(***************************************************************************)

Core == Sound /\ CountInv /\ NamesWell /\ Answered

LEMMA CoreAtFirst ==
    ASSUME Init
    PROVE  Core
<1>1. agenda = <<>> /\ Len(<<>>) = 0
  BY DEF Init
<1>2. TypeOK
  BY AjaxAssumption DEF Init, TypeOK, Results
<1>3. AgendaInv
  BY <1>1 DEF Init, AgendaInv
<1>4. /\ \A what, r : ~Has(agenda, what, r) /\ ~Success(agenda, what, r)
      /\ \A whats, r : ~HasAny(agenda, whats, r) /\ HasOne(agenda, whats, r)
  BY <1>1 DEF Has, HasAny, HasOne, Success
<1>5. ASSUME NEW r \in Requests
      PROVE  RequestInv(r)
  BY <1>4 DEF Init, RequestInv, OpeningInv, WaitingInv, ClosingInv
<1>6. CountInv
  <2>1. Cardinality({}) = 0
    BY FS_EmptySet
  <2>2. \A r \in Requests : ~fireGlobals[r]
    BY DEF Init
  <2> QED
    BY <2>1, <2>2 DEF Init, CountInv
<1>7. UsedNames = {} /\ \A r \in Requests : opts[r] = None
  BY DEF Init, UsedNames
<1>8. NamesInv
  <2>1. UsedNames = 1 .. Cardinality(UsedNames)
    BY <1>7, FS_EmptySet
  <2>2. ToSet(oldCallbacks) = {}
    BY DEF Init, ToSet
  <2> QED
    BY <1>7, <2>1, <2>2 DEF Init, NamesInv
<1>9. NamesPrivate
  <2>1. DOMAIN oldCallbacks = {}
    BY DEF Init
  <2> QED
    BY <1>7, <2>1 DEF NamesPrivate, PooledAt, IsInjective
<1>10. Answered
  BY <1>4 DEF Answered, AnswerOf
<1> QED
  BY <1>2, <1>3, <1>5, <1>6, <1>8, <1>9, <1>10 DEF Core, Sound, NamesWell

LEMMA CoreStays ==
    ASSUME Core, [Next]_vars
    PROVE  Core'
<1>1. AgendaInv' /\ (\A r \in Requests : RequestInv(r)') /\ CountInv'
  BY StepKeeps DEF Core
<1>2. TypeOK' /\ NamesInv' /\ NamesPrivate'
  BY StepNames DEF Core
<1>3. Answered'
  BY StepAnswers DEF Core
<1> QED
  BY <1>1, <1>2, <1>3 DEF Core, Sound, NamesWell

LEMMA CoreCounts ==
    ASSUME Core
    PROVE  ActiveExact
<1>1. SUFFICES ASSUME agenda = <<>>, NEW waiting, waiting = {r \in Requests \ broken : fireGlobals[r] /\ state[r] = 1}
               PROVE  Cardinality(waiting) <= active /\ active <= Cardinality(waiting) + Cardinality(broken)
  BY DEF ActiveExact, Idle
<1>2. \A whats, r : ~HasAny(agenda, whats, r)
  BY <1>1 DEF HasAny, Has
<1>3. PICK counted \in SUBSET Requests :
        /\ active = Cardinality(counted)
        /\ \A r \in Requests :
             /\ fireGlobals[r] /\ UnderWay(r) => r \in counted
             /\ r \in counted => fireGlobals[r] /\ (UnderWay(r) \/ r \in broken)
  BY DEF Core, CountInv
<1>4. waiting \subseteq counted
  BY <1>1, <1>3 DEF UnderWay
<1>5. counted \subseteq waiting \cup broken
  <2>1. SUFFICES ASSUME NEW r \in counted, r \notin broken
                 PROVE  fireGlobals[r] /\ state[r] = 1
    BY <1>1, <1>3
  <2>2. fireGlobals[r] /\ state[r] # 2
    BY <1>2, <1>3, <2>1 DEF UnderWay
  <2>3. state[r] # 0
    BY <1>2, <1>3, <2>1, <2>2 DEF Core, Sound, RequestInv, OpeningInv
  <2>4. state[r] \in 0 .. 2
    BY <1>3, <2>1 DEF Core, Sound, TypeOK
  <2> QED
    BY <2>2, <2>3, <2>4
<1>6. IsFiniteSet(counted) /\ IsFiniteSet(waiting) /\ IsFiniteSet(broken)
  BY <1>1, <1>3, FS_Subset, AjaxAssumption DEF Core, Sound, AgendaInv
<1>7. Cardinality(waiting) <= Cardinality(counted)
  BY <1>4, <1>6, FS_Subset
<1>8. IsFiniteSet(waiting \cup broken) /\ Cardinality(waiting \cup broken) <= Cardinality(waiting) + Cardinality(broken)
  <2>1. IsFiniteSet(waiting \cap broken)
    BY <1>6, FS_Subset
  <2>2. /\ Cardinality(waiting \cap broken) \in Nat /\ Cardinality(waiting) \in Nat /\ Cardinality(broken) \in Nat
    BY <1>6, <2>1, FS_CardinalityType
  <2>3. /\ IsFiniteSet(waiting \cup broken)
        /\ Cardinality(waiting \cup broken) = Cardinality(waiting) + Cardinality(broken) - Cardinality(waiting \cap broken)
    BY <1>6, FS_Union
  <2> QED
    BY <2>2, <2>3
<1>9. Cardinality(counted) <= Cardinality(waiting \cup broken)
  BY <1>5, <1>8, FS_Subset
<1>10. /\ Cardinality(waiting) \in Nat /\ Cardinality(counted) \in Nat /\ Cardinality(broken) \in Nat
       /\ Cardinality(waiting \cup broken) \in Nat
  BY <1>6, <1>8, FS_CardinalityType
<1> QED
  BY <1>3, <1>7, <1>8, <1>9, <1>10

LEMMA CoreIs ==
    ASSUME Core
    PROVE  AjaxInv
<1>1. QuietAfterDone
  BY DEF Core, Sound, RequestInv, WaitingInv, QuietAfterDone
<1>2. CompletesOnce
  <2>1. SUFFICES ASSUME agenda = <<>>, NEW r \in Requests
                 PROVE  completed[r] <= 1 /\ (state[r] = 2 /\ r \notin broken => completed[r] = 1)
    BY DEF CompletesOnce, Idle
  <2>2. ~HasAny(agenda, Finishing, r)
    BY <2>1 DEF HasAny, Has
  <2>3. completed[r] \in Nat /\ ClosingInv(r)
    BY DEF Core, Sound, TypeOK, RequestInv
  <2> QED
    BY <2>2, <2>3 DEF ClosingInv
<1>3. ActiveExact
  BY CoreCounts
<1>4. AnswerInv
  BY AnsweredIs DEF Core
<1> QED
  BY <1>1, <1>2, <1>3, <1>4 DEF Core, Sound, RequestInv, NamesWell, AjaxInv

\* The outcome of a request is its settling.
LEMMA OnlySettleSettles ==
    ASSUME [Next]_vars, ~Settle
    PROVE  outcome' = outcome
BY DEF Next, Page, Engine, Network, PageAborts, Ajax, PageThrows, ConvertThrows, PageReturns, Start, Configure, Judge,
   Open, Send, SendSync, SendThrows, SendWith, SendNothing, Sent, Abort, Done, Evaluate, Convert, Complete, Stop,
   XhrEnds, XhrVanishes, PostedError, ScriptFails, ScriptLoads, Timeout, results, vars

LEMMA SettlesWithItsOwn ==
    ASSUME Core, [Next]_vars, NEW r \in Requests, PooledAt(r), outcome[r] = None, outcome'[r] = "success",
           net[r] # "silent"
    PROVE  response[r] = r
<1>1. None # "success"
  BY AjaxAssumption DEF Results
<1>2. Settle
  BY <1>1, OnlySettleSettles
<1>3. PICK r0 \in Requests : r0 = Todo.req /\ Now("settle")
  BY <1>2, HeadHas DEF Core, Settle
<1>4. outcome' = [outcome EXCEPT ![r0] = Todo.result]
  BY <1>2, <1>3 DEF Settle
<1>5. r = r0 /\ Todo.result = "success"
  BY <1>1, <1>4 DEF Core, Sound, TypeOK
<1>6. Success(agenda, "settle", r) /\ ~Has(agenda, "evaluate", r)
  BY <1>3, <1>5, HeadSuccess DEF Core
<1>7. OwnAnswer(r)
  BY <1>6 DEF Core, Answered, AnswerOf
<1> QED
  BY <1>7 DEF OwnAnswer

\* jQuery.active counts the requests under way, ajaxStop included; each request is completed
\* once, is quiet after it is done, and owns the name of its callback until it is settled:
\* whatever the functions of the page start, abort or throw.
THEOREM Invariance == Spec => []AjaxInv
<1>1. Init => Core
  BY CoreAtFirst
<1>2. Core /\ [Next]_vars => Core'
  BY CoreStays
<1>3. Core => AjaxInv
  BY CoreIs
<1> QED
  BY <1>1, <1>2, <1>3, PTL DEF Spec

\* Every variable keeps its type, for any requests, settings and names of callbacks.
THEOREM TypeCorrect == Spec => []TypeOK
<1>1. AjaxInv => TypeOK
  BY DEF AjaxInv
<1> QED
  BY <1>1, Invariance, PTL

\* A JSONP request that succeeds has been handed its own data, however many scripts of
\* aborted requests still run and however often names are used again.
THEOREM OwnHolds == Spec => JsonpOwn
<1>1. Init => Core
  BY CoreAtFirst
<1>2. Core /\ [Next]_vars => Core'
  BY CoreStays
<1>3. Core /\ [Next]_vars =>
        [\A r \in Requests :
            PooledAt(r) /\ outcome[r] = None /\ outcome'[r] = "success" /\ net[r] # "silent"
              => response[r] = r]_vars
  BY SettlesWithItsOwn
<1> QED
  BY <1>1, <1>2, <1>3, PTL DEF Spec, JsonpOwn

=============================================================================
