------------------------------- MODULE Ready -------------------------------
(***************************************************************************)
(* jQuery.ready: the deferred that tells when the document is ready, the   *)
(* count of what it waits for, holdReady(), and the two events of which    *)
(* the first one makes it ready.  The functions a page gives to ready()    *)
(* are those it adds to the deferred's promise; handlers of an event       *)
(* "ready" are left out.                                                   *)
(***************************************************************************)
EXTENDS Deferred, Integers

CONSTANT ReadyList     \* the deferred

ASSUME ReadyAssumption == ReadyList \in Withheld

VARIABLES isReady,    \* jQuery.isReady
          readyWait,  \* jQuery.readyWait
          loaded,     \* history: DOMContentLoaded or load has called completed()
          holds,      \* history: holdReady(true) less holdReady(false)
          excess,     \* history: holdReady(false) was called for no holdReady(true)
          due         \* history: the document was loaded while nothing held

ready == <<isReady, readyWait, loaded, holds, excess, due>>
readyVars == <<vars, ready>>

Properties == isReady = FALSE /\ readyWait = 1

ReadyInit ==
    /\ Init
    /\ Properties
    /\ loaded = FALSE /\ holds = 0 /\ excess = FALSE /\ due = FALSE
-----------------------------------------------------------------------------
\* mutant of Passes: a second event, or an event while the page holds, is not told apart
PassesUnheld(wait, left) == IF wait THEN left = 0 ELSE ~isReady

\* jQuery.ready(wait) goes on to the functions; "left" is what it waits for then
Passes(wait, left) == IF wait THEN left = 0 ELSE ~isReady /\ left <= 0

ResolveReady(wait) ==
    LET left == IF wait \/ ~isReady THEN readyWait - 1 ELSE readyWait
    IN  /\ readyWait' = left
        /\ isReady' = (isReady \/ ~wait \/ left = 0)
        /\ IF Passes(wait, left) THEN Perform(Op("fire", <<ReadyList, "done">>, Nothing), cb, stack)
           ELSE UNCHANGED <<cb, stack>>
        /\ UNCHANGED <<closure, history>>

Hold ==
    /\ Calling
    /\ readyWait' = readyWait + 1
    /\ holds' = holds + 1
    /\ UNCHANGED <<cb, stack, closure, history, isReady, loaded, excess, due>>

Release ==
    /\ Calling
    /\ ResolveReady(TRUE)
    /\ holds' = holds - 1
    /\ excess' = (excess \/ holds = 0)
    /\ due' = (due \/ (loaded /\ holds = 1))
    /\ UNCHANGED loaded

\* the first of the two events, in a task of its own; it takes both listeners away
Completed ==
    /\ Idle /\ ~loaded
    /\ loaded' = TRUE
    /\ due' = (holds = 0)
    /\ ResolveReady(FALSE)
    /\ UNCHANGED <<calls, holds, excess>>
-----------------------------------------------------------------------------
ReadyNext == (Next /\ UNCHANGED ready) \/ Hold \/ Release \/ Completed

ReadySpec == ReadyInit /\ [][ReadyNext]_readyVars

\* What Deferred's FairSpec says; nobody owes the end of a hold.
ReadyFairSpec == ReadySpec /\ WF_readyVars(Engine /\ UNCHANGED ready)
-----------------------------------------------------------------------------
\* The functions given to ready() run when the document is loaded and the page has
\* released all its holds, in whatever order these come; not before, and not never.
\* A hold that comes later changes nothing.
RunsWhenReady ==
    ~excess =>
        /\ (state[ReadyList] # "pending" \/ called[<<ReadyList, "done">>] # <<>>) => due
        /\ readyWait = holds + (IF loaded THEN 0 ELSE 1)
        /\ Idle /\ due /\ ~cb[<<ReadyList, "done">>].firing => state[ReadyList] = "resolved"

\* The page's calls are what readyWait counts, and the deferred is fired when the
\* document is due, and by nothing else.
ReadyFollows ==
    LET done == <<ReadyList, "done">>
        fail == <<ReadyList, "fail">>
    IN  /\ readyWait \in Int /\ holds \in Int /\ {isReady, loaded, excess, due} \subseteq BOOLEAN
        /\ ~cb[fail].memory
        /\ called[done] # <<>> => cb[done].memory
        /\ ~excess => /\ holds >= 0 /\ readyWait = holds + (IF loaded THEN 0 ELSE 1)
                      /\ (isReady <=> loaded) /\ (due => loaded) /\ (due <=> cb[done].memory)

ReadyInv == DeferredInv /\ ReadyFollows /\ RunsWhenReady
=============================================================================
