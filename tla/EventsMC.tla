------------------------------ MODULE EventsMC ------------------------------
(* A document with an element a, an element b in it, and a script that is not *)
(* in the document; "ab" is a selector that matches a and b.                  *)
EXTENDS Events

CONSTANTS a, b, ab

MCTree == (a :> Doc) @@ (b :> a) @@ (Script :> None)

MCMatches == ab :> {a, b}

Bind(type, sel, fn, once) == [type |-> type, sel |-> sel, fn |-> fn, once |-> once, id |-> 0]

MCBindings ==
    {Bind("click", None, "f", FALSE), Bind("click", ab, "f", TRUE),
     Bind("focus", ab, "g", FALSE), Bind("focus", None, "g", FALSE), Bind("focusin", None, "g", FALSE)}
=============================================================================
