---------------------------- MODULE LoaderProofs ----------------------------
(***************************************************************************)
(* Double-checked locking builds one object and implements module Once,    *)
(* for any number of threads, any suppliers and any number of failures.    *)
(***************************************************************************)
EXTENDS Loader, TLAPS

\* The initial states satisfy the inductive invariant.
LEMMA InitInv == Init => LoaderInv
  BY ConstantsAssumption
  DEF Init, LoaderInv, TypeOK, LockInv, LabelInv, BuiltInv, Inside, Outside

\* Every step of getInstance preserves the inductive invariant.
LEMMA NextInv == LoaderInv /\ [Next]_vars => LoaderInv'
<1> SUFFICES ASSUME LoaderInv, [Next]_vars PROVE LoaderInv'
  OBVIOUS
<1> USE ConstantsAssumption
        DEF LoaderInv, TypeOK, LockInv, LabelInv, BuiltInv, Inside, Outside, Goto
<1>1. ASSUME NEW t \in Threads, Call(t) PROVE LoaderInv'
  BY <1>1 DEF Call
<1>2. ASSUME NEW t \in Threads, Check1(t) PROVE LoaderInv'
  BY <1>2 DEF Check1
<1>3. ASSUME NEW t \in Threads, Enter(t) PROVE LoaderInv'
  BY <1>3 DEF Enter
<1>4. ASSUME NEW t \in Threads, Check2(t) PROVE LoaderInv'
  BY <1>4 DEF Check2
<1>5. ASSUME NEW t \in Threads, Supply(t) PROVE LoaderInv'
  BY <1>5 DEF Supply
<1>6. ASSUME NEW t \in Threads, SupplyThrows(t) PROVE LoaderInv'
  BY <1>6 DEF SupplyThrows
<1>7. ASSUME NEW t \in Threads, Assign(t) PROVE LoaderInv'
  BY <1>7 DEF Assign
<1>8. ASSUME NEW t \in Threads, Read14(t) PROVE LoaderInv'
  BY <1>8 DEF Read14
<1>9. ASSUME NEW t \in Threads, Exit(t) PROVE LoaderInv'
  BY <1>9 DEF Exit
<1>10. ASSUME NEW t \in Threads, Unwind(t) PROVE LoaderInv'
  BY <1>10 DEF Unwind
<1>11. ASSUME NEW t \in Threads, Read18(t) PROVE LoaderInv'
  BY <1>11 DEF Read18
<1>12. CASE UNCHANGED vars
  BY <1>12 DEF vars
<1> QED
  BY <1>1, <1>2, <1>3, <1>4, <1>5, <1>6, <1>7, <1>8, <1>9, <1>10, <1>11, <1>12
  DEF Next, Step

\* The inductive invariant holds of every state getInstance can reach.
THEOREM Invariance == Spec => []LoaderInv
  BY InitInv, NextInv, PTL DEF Spec

\* The variables of getInstance keep their types.
THEOREM TypeCorrect == Spec => []TypeOK
<1>1. LoaderInv => TypeOK
  BY DEF LoaderInv
<1> QED BY <1>1, Invariance, PTL

\* No two threads are between lines 10 and 15 at once.
THEOREM MutualExclusion ==
  Spec => [](\A s, t \in Threads : pc[s] \in Inside /\ pc[t] \in Inside => s = t)
<1>1. LoaderInv => \A s, t \in Threads : pc[s] \in Inside /\ pc[t] \in Inside => s = t
  BY DEF LoaderInv, LockInv
<1> QED BY <1>1, Invariance, PTL

\* At most one supplier call ever returns an object (lines 9 to 12).
THEOREM SingleBuildHolds == Spec => []SingleBuild
<1>1. LoaderInv => SingleBuild
  BY DEF LoaderInv, TypeOK, LabelInv, BuiltInv, SingleBuild
<1> QED BY <1>1, Invariance, PTL

\* All normal returns of getInstance agree (lines 12, 14 and 18).
THEOREM SameAnswerHolds == Spec => []SameAnswer
<1>1. LoaderInv => SameAnswer
  BY ConstantsAssumption DEF LoaderInv, LabelInv, SameAnswer
<1> QED BY <1>1, Invariance, PTL
-----------------------------------------------------------------------------
\* Every initial state of Loader is one of Once.
LEMMA RefinesInit == Init => Promise!Init
  BY DEF Init, Promise!Init

\* Every step of Loader is a step of Once or a stutter: lines 9, 10, 11 and 14
\* and the supplier change nothing Once sees, the volatile write publishes.
LEMMA RefinesNext == LoaderInv /\ [Next]_vars => [Promise!Next]_(Promise!vars)
<1> SUFFICES ASSUME LoaderInv, [Next]_vars PROVE [Promise!Next]_(Promise!vars)
  OBVIOUS
<1> USE ConstantsAssumption
        DEF LoaderInv, TypeOK, LockInv, LabelInv, Inside, Outside, Goto, Promise!vars
<1>1. ASSUME NEW t \in Threads, Call(t) PROVE Promise!Call(t)
  BY <1>1 DEF Call, Promise!Call
<1>2. ASSUME NEW t \in Threads,
             Check1(t) \/ Enter(t) \/ Check2(t) \/ Supply(t) \/ SupplyThrows(t) \/ Read14(t)
      PROVE UNCHANGED Promise!vars
  BY <1>2 DEF Check1, Enter, Check2, Supply, SupplyThrows, Read14
<1>3. ASSUME NEW t \in Threads, Assign(t) PROVE Promise!Publish
  BY <1>3 DEF Assign, Promise!Publish
<1>4. ASSUME NEW t \in Threads, Exit(t) PROVE Promise!Return(t)
  BY <1>4 DEF Exit, Promise!Return
<1>5. ASSUME NEW t \in Threads, Read18(t) PROVE Promise!Return(t)
  BY <1>5 DEF Read18, Promise!Return
<1>6. ASSUME NEW t \in Threads, Unwind(t) PROVE Promise!Fail(t)
  BY <1>6 DEF Unwind, Promise!Fail
<1>7. CASE UNCHANGED vars
  BY <1>7 DEF vars
<1> QED
  BY <1>1, <1>2, <1>3, <1>4, <1>5, <1>6, <1>7 DEF Next, Step, Promise!Next

\* Double-checked locking implements the singleton of module Once.
THEOREM Refinement == Spec => ImplementsOnce
  BY RefinesInit, RefinesNext, Invariance, PTL DEF Spec, ImplementsOnce, Promise!Spec
=============================================================================
