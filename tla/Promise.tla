------------------------------ MODULE Promise ------------------------------
(***************************************************************************)
(* What a promise means to those who hold it: it is settled at most once,  *)
(* one way or the other, and a function that waits for one outcome is      *)
(* called at most once, and only after that outcome.                       *)
(***************************************************************************)
CONSTANTS Promises, Functions, Outcomes, Pending

VARIABLES outcome,    \* outcome[p]: Pending, or how p was settled
          heard       \* heard[p][o]: the functions called for outcome o of p

vars == <<outcome, heard>>

Init ==
    /\ outcome = [p \in Promises |-> Pending]
    /\ heard = [p \in Promises |-> [o \in Outcomes |-> {}]]

Settle(p, o) ==
    /\ outcome[p] = Pending
    /\ outcome' = [outcome EXCEPT ![p] = o]
    /\ UNCHANGED heard

Hear(p, f) ==
    LET o == outcome[p]
    IN  /\ o # Pending
        /\ f \notin heard[p][o]
        /\ heard' = [heard EXCEPT ![p][o] = @ \cup {f}]
        /\ UNCHANGED outcome

Next ==
    \E p \in Promises :
        \/ \E o \in Outcomes : Settle(p, o)
        \/ \E f \in Functions : Hear(p, f)

Spec == Init /\ [][Next]_vars
=============================================================================
