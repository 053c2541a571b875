------------------------------- MODULE Loader -------------------------------
(***************************************************************************)
(* Loader.getInstance: the double-checked locking that builds every shared *)
(* object of the repository (ZooKeeper clients, token stores, services).   *)
(* One action per volatile access of the field, per monitor operation and  *)
(* for the call of the supplier; the line each one stands for is given     *)
(* next to it.  The field is volatile, so its reads and writes are atomic  *)
(* and totally ordered.                                                    *)
(***************************************************************************)
EXTENDS Naturals

CONSTANTS
    Threads,        \* the threads that share the Loader
    Values,         \* the objects a supplier may build
    NULL,           \* Java's null
    Failed,         \* the outcome of a call that ends with an exception
    MaxFailures     \* bound: how often a supplier may throw in a behaviour

ASSUME ConstantsAssumption ==
    /\ NULL \notin Values
    /\ Failed \notin Values
    /\ Failed # NULL
    /\ NULL \notin Threads
    /\ MaxFailures \in Nat

VARIABLES
    instance,   \* the volatile field
    monitor,    \* the thread that holds the Loader's monitor, or NULL
    pc,         \* where each thread is in getInstance
    local,      \* the value a thread is about to return
    answer,     \* the outcome of each thread's last call, NULL before it ends
    built,      \* history: the objects the suppliers have returned
    failures    \* history: how often a supplier has thrown

vars == <<instance, monitor, pc, local, answer, built, failures>>

\* "check1" is about to read line 9, "enter" to lock at 10, "check2" to read
\* line 11, "supply" to call the supplier of line 12, "assign" to store its
\* result, "read14" and "read18" to read the field for the return, "exit" and
\* "unwind" to leave the monitor with a value or with an exception.
Outside == {"idle", "check1", "enter", "read18"}
Inside  == {"check2", "supply", "assign", "read14", "exit", "unwind"}

Init ==
    /\ instance = NULL
    /\ monitor = NULL
    /\ pc = [t \in Threads |-> "idle"]
    /\ local = [t \in Threads |-> NULL]
    /\ answer = [t \in Threads |-> NULL]
    /\ built = {}
    /\ failures = 0

Goto(t, label) == pc' = [pc EXCEPT ![t] = label]

Call(t) ==
    /\ pc[t] = "idle"
    /\ Goto(t, "check1")
    /\ answer' = [answer EXCEPT ![t] = NULL]
    /\ UNCHANGED <<instance, monitor, local, built, failures>>

\* mutant of Check1: a build in progress is taken for a finished one
Check1TrustsBuilder(t) ==
    /\ pc[t] = "check1"
    /\ Goto(t, IF instance = NULL /\ monitor = NULL THEN "enter" ELSE "read18")
    /\ UNCHANGED <<instance, monitor, local, answer, built, failures>>

\* line 9: the first look at the field, without the monitor
Check1(t) ==
    /\ pc[t] = "check1"
    /\ Goto(t, IF instance = NULL THEN "enter" ELSE "read18")
    /\ UNCHANGED <<instance, monitor, local, answer, built, failures>>

\* line 10
Enter(t) ==
    /\ pc[t] = "enter"
    /\ monitor = NULL
    /\ monitor' = t
    /\ Goto(t, "check2")
    /\ UNCHANGED <<instance, local, answer, built, failures>>

\* mutant of Check2: no second look
Check2Omitted(t) ==
    /\ pc[t] = "check2"
    /\ Goto(t, "supply")
    /\ UNCHANGED <<instance, monitor, local, answer, built, failures>>

\* line 11: the second look, with the monitor
Check2(t) ==
    /\ pc[t] = "check2"
    /\ Goto(t, IF instance = NULL THEN "supply" ELSE "read14")
    /\ UNCHANGED <<instance, monitor, local, answer, built, failures>>

\* line 12, supplier.get() returns an object of its own
Supply(t) ==
    /\ pc[t] = "supply"
    /\ \E v \in Values \ built :
         /\ local' = [local EXCEPT ![t] = v]
         /\ built' = built \cup {v}
    /\ Goto(t, "assign")
    /\ UNCHANGED <<instance, monitor, answer, failures>>

\* line 12, supplier.get() throws
SupplyThrows(t) ==
    /\ pc[t] = "supply"
    /\ failures < MaxFailures
    /\ failures' = failures + 1
    /\ Goto(t, "unwind")
    /\ UNCHANGED <<instance, monitor, local, answer, built>>

\* line 12, the volatile write; the value of the assignment is what is returned
Assign(t) ==
    /\ pc[t] = "assign"
    /\ instance' = local[t]
    /\ Goto(t, "exit")
    /\ UNCHANGED <<monitor, local, answer, built, failures>>

\* line 14
Read14(t) ==
    /\ pc[t] = "read14"
    /\ local' = [local EXCEPT ![t] = instance]
    /\ Goto(t, "exit")
    /\ UNCHANGED <<instance, monitor, answer, built, failures>>

\* lines 12 and 14: leave the monitor and return
Exit(t) ==
    /\ pc[t] = "exit"
    /\ monitor' = NULL
    /\ answer' = [answer EXCEPT ![t] = local[t]]
    /\ Goto(t, "idle")
    /\ UNCHANGED <<instance, local, built, failures>>

\* mutant of Unwind: an explicit lock whose unlock is not in a finally block
UnwindKeepsMonitor(t) ==
    /\ pc[t] = "unwind"
    /\ answer' = [answer EXCEPT ![t] = Failed]
    /\ Goto(t, "idle")
    /\ UNCHANGED <<instance, monitor, local, built, failures>>

\* the exception leaves the synchronized block, which releases the monitor
Unwind(t) ==
    /\ pc[t] = "unwind"
    /\ monitor' = NULL
    /\ answer' = [answer EXCEPT ![t] = Failed]
    /\ Goto(t, "idle")
    /\ UNCHANGED <<instance, local, built, failures>>

\* line 18: the field is read a second time, without the monitor
Read18(t) ==
    /\ pc[t] = "read18"
    /\ answer' = [answer EXCEPT ![t] = instance]
    /\ Goto(t, "idle")
    /\ UNCHANGED <<instance, monitor, local, built, failures>>

\* what a thread does once it has called getInstance
Step(t) ==
    \/ Check1(t) \/ Enter(t) \/ Check2(t)
    \/ Supply(t) \/ SupplyThrows(t) \/ Assign(t)
    \/ Read14(t) \/ Exit(t) \/ Unwind(t) \/ Read18(t)

Next == \E t \in Threads : Call(t) \/ Step(t)

Spec == Init /\ [][Next]_vars

\* A thread inside getInstance keeps running; nobody has to call it.  The
\* monitor needs no stronger fairness: between two calls it is contended only
\* until the first success, and MaxFailures bounds the rounds before that.
FairSpec == Spec /\ \A t \in Threads : WF_vars(Step(t))

-----------------------------------------------------------------------------
\* The type invariant, the first conjunct of the inductive one.
TypeOK ==
    /\ instance \in Values \cup {NULL}
    /\ monitor \in Threads \cup {NULL}
    /\ pc \in [Threads -> Outside \cup Inside]
    /\ local \in [Threads -> Values \cup {NULL}]
    /\ answer \in [Threads -> Values \cup {NULL, Failed}]
    /\ built \subseteq Values
    /\ failures \in 0 .. MaxFailures

\* However the threads race on lines 9 to 12, and however often a supplier
\* throws and is called again, at most one supplier call ever returns an
\* object: nobody builds a second ZooKeeper client or token store.
SingleBuild == \A u, v \in built : u = v

\* Two calls that both returned normally returned the same object, whether
\* they left through line 12, 14 or 18.
SameAnswer ==
    \A s, t \in Threads :
        {answer[s], answer[t]} \subseteq Values => answer[s] = answer[t]

-----------------------------------------------------------------------------
\* The monitor is held by the one thread that is inside the block.
LockInv == \A t \in Threads : pc[t] \in Inside <=> monitor = t

\* What a thread at each label knows about the field.
LabelInv ==
    \A t \in Threads :
        /\ pc[t] \in {"supply", "assign", "unwind"} => instance = NULL
        /\ pc[t] = "assign" => local[t] \in Values /\ built = {local[t]}
        /\ pc[t] \in {"read14", "read18"} => instance # NULL
        /\ pc[t] = "exit" => instance # NULL /\ local[t] = instance
        /\ answer[t] \in {NULL, Failed, instance}

\* Nothing is built unless it is published or about to be.
BuiltInv ==
    /\ instance # NULL => built = {instance}
    /\ instance = NULL => built = {} \/ \E t \in Threads : pc[t] = "assign"

\* The inductive invariant: SingleBuild and SameAnswer alone say nothing of the
\* threads that have looked at the field and not acted yet.
LoaderInv == TypeOK /\ LockInv /\ LabelInv /\ BuiltInv

\* A getInstance that is called returns or throws: neither a lost race nor a
\* supplier that throws inside the monitor leaves a caller blocked.
CallReturns == \A t \in Threads : pc[t] # "idle" ~> pc[t] = "idle"

Promise == INSTANCE Once WITH calling <- {t \in Threads : pc[t] # "idle"}

\* Double-checked locking implements the singleton of module Once: the
\* published object never changes, no call returns null, and an exception is
\* reported only while nothing is published.
ImplementsOnce == Promise!Spec
=============================================================================
