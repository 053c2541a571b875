----------------------------- MODULE TagEditorMC -----------------------------
(* Two tags, one of them shown in the beginning and kept by the page when it  *)
(* is emptied.                                                                *)
EXTENDS TagEditor

CONSTANTS x, y

MCInitial == <<x>>

MCTyped == {Blank, Simple(x), Simple(y), Value(<<x, y>>, TRUE)}
=============================================================================
