-------------------------------- MODULE Once --------------------------------
(***************************************************************************)
(* What a lazily built singleton promises its callers.  One value is       *)
(* published, once and for all; every call that returns normally returns   *)
(* that value; a call may only fail while nothing has been published.      *)
(* How the value is built, by whom and under which lock is left to the     *)
(* implementation (module Loader).                                         *)
(***************************************************************************)
CONSTANTS
    Threads,    \* the callers
    Values,     \* the objects that may be published
    NULL,       \* "not published yet", and the answer of a call in progress
    Failed      \* the answer of a call that ended with an exception

VARIABLES
    instance,   \* the published value, or NULL
    calling,    \* the threads that are inside a call
    answer      \* the answer of each thread's last call

vars == <<instance, calling, answer>>

Init ==
    /\ instance = NULL
    /\ calling = {}
    /\ answer = [t \in Threads |-> NULL]

Call(t) ==
    /\ t \notin calling
    /\ calling' = calling \cup {t}
    /\ answer' = [answer EXCEPT ![t] = NULL]
    /\ UNCHANGED instance

Publish ==
    /\ instance = NULL
    /\ instance' \in Values
    /\ UNCHANGED <<calling, answer>>

Return(t) ==
    /\ t \in calling
    /\ instance # NULL
    /\ calling' = calling \ {t}
    /\ answer' = [answer EXCEPT ![t] = instance]
    /\ UNCHANGED instance

Fail(t) ==
    /\ t \in calling
    /\ instance = NULL
    /\ calling' = calling \ {t}
    /\ answer' = [answer EXCEPT ![t] = Failed]
    /\ UNCHANGED instance

Next ==
    \/ Publish
    \/ \E t \in Threads : Call(t) \/ Return(t) \/ Fail(t)

Spec == Init /\ [][Next]_vars
=============================================================================
