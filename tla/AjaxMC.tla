------------------------------- MODULE AjaxMC -------------------------------
(***************************************************************************)
(* Ajax for TLC: the options that matter.                                  *)
(***************************************************************************)
EXTENDS Ajax

Option(kind, global, beforeSend, timeout, name) ==
    [kind |-> kind, global |-> global, beforeSend |-> beforeSend, timeout |-> timeout, name |-> name]

MCOptions ==
    { Option("xhr", TRUE, TRUE, TRUE, "none"),
      Option("sync", FALSE, FALSE, TRUE, "pooled"),
      Option("none", TRUE, FALSE, FALSE, "none"),
      Option("script", TRUE, FALSE, TRUE, "pooled"),
      Option("script", TRUE, TRUE, FALSE, "given") }
=============================================================================
