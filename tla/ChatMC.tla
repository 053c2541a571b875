------------------------------- MODULE ChatMC -------------------------------
(* Three users; the second and the third, who share an event loop, are alike. *)
EXTENDS Chat, TLC

CONSTANTS u1, u2, u3, l1, l2

Loops == [u \in Users |-> IF u = u1 THEN l1 ELSE l2]

Perms == Permutations({u2, u3})
=============================================================================
