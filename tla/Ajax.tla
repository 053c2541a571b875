-------------------------------- MODULE Ajax --------------------------------
(***************************************************************************)
(* jQuery.ajax with its two transports, the JSONP prefilter and the        *)
(* counter behind ajaxStart and ajaxStop.                                  *)
(*                                                                         *)
(* One thread runs everything.  "agenda" is what the current task of the   *)
(* event loop still has to do, the next thing first.  Where a function of  *)
(* the page runs (a prefilter, beforeSend, a callback, a global event) it  *)
(* may start or abort requests, or throw.  Headers, URLs and the choice of *)
(* a data type are left out; a conversion succeeds, fails or throws.       *)
(***************************************************************************)
EXTENDS Naturals, Sequences, FiniteSets, SequencesExt

CONSTANTS Requests,   \* calls of jQuery.ajax
          Options,    \* the options they may be given
          OldBrowser, \* xhr.onabort is undefined: IE 9
          MaxCalls,   \* bound: what the functions of the page do
          None

Kinds == {"xhr", "sync", "script", "none"}
Names == {"none", "given", "pooled"}
Results == {"success", "parsererror", "error", "abort", "canceled", "timeout"}

\* name: no JSONP, the page's jsonpCallback or one of jQuery's own
OptionSpace == [kind : Kinds, global : BOOLEAN, beforeSend : BOOLEAN, timeout : BOOLEAN, name : Names]

Given == 0
CallbackNames == 0 .. Cardinality(Requests)

ASSUME AjaxAssumption ==
    /\ IsFiniteSet(Requests) /\ Options \subseteq OptionSpace
    /\ None \notin Requests /\ None \notin Options /\ None \notin CallbackNames /\ None \notin Results
    /\ OldBrowser \in BOOLEAN /\ MaxCalls \in Nat

VARIABLES state,      \* 0, 1, 2
          opts,       \* opts[r]: None before the call
          fireGlobals,
          transport,  \* the variable "transport" is set
          timer,      \* timeoutTimer is running
          callback,   \* the transport's variable "callback" is set
          net,        \* what became of the request: "none", "sent", "orphan", "over", "silent"
          posted,     \* IE 9: errorCallback is posted
          active,     \* jQuery.active
          window,     \* window[n]: the request whose function is installed
          callbackName,
          overwritten,
          response,   \* responseContainer: the request whose script filled it
          oldCallbacks,
          outcome,    \* how the deferred was settled
          completed,  \* how often completeDeferred was fired
          agenda,
          calls,
          broken      \* history: requests that were under way when a function threw

lifecycle == <<state, opts, fireGlobals, timer>>
link == <<transport, callback, net, posted>>
jsonp == <<window, callbackName, overwritten, response, oldCallbacks>>
results == <<outcome, completed>>
vars == <<lifecycle, link, active, jsonp, results, agenda, calls, broken>>

Init ==
    /\ state = [r \in Requests |-> 0]
    /\ opts = [r \in Requests |-> None]
    /\ fireGlobals = [r \in Requests |-> FALSE]
    /\ transport = [r \in Requests |-> FALSE]
    /\ timer = [r \in Requests |-> FALSE]
    /\ callback = [r \in Requests |-> FALSE]
    /\ net = [r \in Requests |-> "none"]
    /\ posted = {}
    /\ active = 0
    /\ window = [n \in CallbackNames |-> None]
    /\ callbackName = [r \in Requests |-> None]
    /\ overwritten = [r \in Requests |-> None]
    /\ response = [r \in Requests |-> None]
    /\ oldCallbacks = <<>>
    /\ outcome = [r \in Requests |-> None]
    /\ completed = [r \in Requests |-> 0]
    /\ agenda = <<>>
    /\ calls = 0
    /\ broken = {}
-----------------------------------------------------------------------------
\* The steps an agenda is made of.
Do(what, r) == [do |-> what, req |-> r, result |-> None]
Ends(what, r, result) == [do |-> what, req |-> r, result |-> result]

PageCode == Do("page", None)

Now(what) == agenda # <<>> /\ Head(agenda).do = what
Todo == Head(agenda)
Then(steps) == agenda' = steps \o Tail(agenda)

IsJsonp(r) == callbackName[r] # None

\* What the page does: in a task of its own, or in a function that jQuery runs.
Calling ==
    /\ agenda = <<>> \/ Now("page")
    /\ calls < MaxCalls
    /\ calls' = calls + 1

\* mutant of FreshName: the nonce stays
FreshNameFixed == 1

FreshName == Cardinality({callbackName[r] : r \in Requests} \ {None, Given}) + 1

\* jsonpCallback(): a name that is free again, or a fresh one
PooledName ==
    IF oldCallbacks # <<>> THEN Last(oldCallbacks) ELSE FreshName

\* The JSONP prefilter.
InstallCallback(r, name) ==
    /\ callbackName' = [callbackName EXCEPT ![r] = name]
    /\ overwritten' = [overwritten EXCEPT ![r] = window[name]]
    /\ window' = [window EXCEPT ![name] = r]

Prefilter(r, o) ==
    /\ UNCHANGED response
    /\ \/ o.name = "none" /\ UNCHANGED <<window, callbackName, overwritten, oldCallbacks>>
       \/ o.name = "given" /\ InstallCallback(r, Given) /\ UNCHANGED oldCallbacks
       \/ /\ o.name = "pooled" /\ InstallCallback(r, PooledName)
          /\ oldCallbacks' = IF oldCallbacks = <<>> THEN oldCallbacks ELSE Front(oldCallbacks)

Ajax(r, o) ==
    /\ Calling /\ opts[r] = None
    /\ opts' = [opts EXCEPT ![r] = o]
    /\ Prefilter(r, o)
    /\ agenda' = <<PageCode, Do("start", r)>> \o agenda
    /\ UNCHANGED <<state, fireGlobals, timer, link, active, results, broken>>

PageAborts(r) ==
    /\ Calling /\ opts[r] # None
    /\ agenda' = <<Ends("abort", r, "abort")>> \o agenda
    /\ UNCHANGED <<lifecycle, link, active, jsonp, results, broken>>

PageReturns ==
    /\ Now("page")
    /\ Then(<<>>)
    /\ UNCHANGED <<lifecycle, link, active, jsonp, results, calls, broken>>

\* An exception ends the task; it does not leave a synchronous send(), whose
\* callbacks are event handlers.
Unwound ==
    \E kept \in 1 .. Len(agenda) :
        /\ \A i \in 1 .. kept - 1 : agenda[i].do # "sent"
        /\ kept = Len(agenda) \/ agenda[kept].do = "sent"
        /\ agenda' = SubSeq(agenda, kept + 1, Len(agenda))
        /\ broken' = broken \cup {agenda[i].req : i \in {j \in 1 .. kept :
                                    agenda[j].do \notin {"page", "abort", "sent"}}}

PageThrows ==
    /\ Now("page") /\ Calling
    /\ Unwound
    /\ UNCHANGED <<lifecycle, link, active, jsonp, results>>
-----------------------------------------------------------------------------
CountsFrom(r) == opts[r].global /\ state[r] # 2

\* jQuery.ajax behind its prefilters
Start ==
    /\ Now("start")
    /\ LET r == Todo.req
           counts == CountsFrom(r)
       IN  /\ fireGlobals' = [fireGlobals EXCEPT ![r] = counts]
           /\ active' = IF counts THEN active + 1 ELSE active
           /\ Then((IF counts /\ active = 0 THEN <<PageCode>> ELSE <<>>)
                   \o (IF state[r] = 2 THEN <<>> ELSE <<Do("configure", r)>>))
    /\ UNCHANGED <<state, opts, timer, link, jsonp, results, calls, broken>>

Configure ==
    /\ Now("configure")
    /\ LET r == Todo.req
       IN  Then(IF opts[r].beforeSend THEN <<PageCode, Do("judge", r)>> ELSE <<Do("open", r)>>)
    /\ UNCHANGED <<lifecycle, link, active, jsonp, results, calls, broken>>

\* beforeSend returned
Judge ==
    /\ Now("judge")
    /\ LET r == Todo.req
       IN  \E proceed \in BOOLEAN :
             Then(IF proceed /\ state[r] # 2 THEN <<Do("open", r)>>
                  ELSE <<Ends("abort", r, "canceled")>>)
    /\ UNCHANGED <<lifecycle, link, active, jsonp, results, calls, broken>>

\* inspectPrefiltersOrTransports returns a transport; there may be none for the type
Found(r) == opts[r].kind # "none"

Open ==
    /\ Now("open")
    /\ LET r == Todo.req
       IN  /\ transport' = [transport EXCEPT ![r] = Found(r)]
           /\ Then(IF ~Found(r) THEN <<Ends("done", r, "error")>>
                   ELSE IF fireGlobals[r] THEN <<PageCode, Do("send", r)>> ELSE <<Do("send", r)>>)
    /\ UNCHANGED <<lifecycle, callback, net, posted, active, jsonp, results, calls, broken>>

\* mutant of Timed: no timeout is ever set
TimedNever(r) == FALSE

Timed(r) == opts[r].timeout /\ opts[r].kind # "sync"

SendWith(r) ==
    /\ state[r] # 2
    /\ timer' = [timer EXCEPT ![r] = Timed(r)]
    /\ state' = [state EXCEPT ![r] = 1]
    /\ UNCHANGED <<opts, fireGlobals, transport, posted, active, jsonp, results, calls, broken>>

Send ==
    /\ Now("send") /\ opts[Todo.req].kind # "sync"
    /\ SendWith(Todo.req)
    /\ callback' = [callback EXCEPT ![Todo.req] = TRUE]
    /\ net' = [net EXCEPT ![Todo.req] = "sent"]
    /\ Then(<<>>)

\* A synchronous request calls back before send() returns or throws.
SendSync ==
    /\ Now("send") /\ opts[Todo.req].kind = "sync"
    /\ SendWith(Todo.req)
    /\ net' = [net EXCEPT ![Todo.req] = "over"]
    /\ \E result \in {"success", "error"} :
          Then(<<Ends("done", Todo.req, result), Do("sent", Todo.req)>>)
    /\ UNCHANGED callback

\* open(), setRequestHeader() or send() throws, with or without handlers set
SendThrows ==
    /\ Now("send") /\ opts[Todo.req].kind # "script"
    /\ SendWith(Todo.req)
    /\ \E set \in BOOLEAN : callback' = [callback EXCEPT ![Todo.req] = set]
    /\ Then(<<Ends("done", Todo.req, "error")>>)
    /\ UNCHANGED net

SendNothing ==
    /\ Now("send") /\ state[Todo.req] = 2
    /\ Then(<<>>)
    /\ UNCHANGED <<lifecycle, link, active, jsonp, results, calls, broken>>

Sent ==
    /\ Now("sent")
    /\ Then(<<>>)
    /\ UNCHANGED <<lifecycle, link, active, jsonp, results, calls, broken>>
-----------------------------------------------------------------------------
\* transport.abort() has something to abort
Cut(r) == transport[r] /\ callback[r]

\* jqXHR.abort.  The script of an aborted request is out of the document; it runs
\* all the same when it comes.
Abort ==
    /\ Now("abort")
    /\ LET r == Todo.req
       IN  /\ callback' = [callback EXCEPT ![r] = @ /\ ~Cut(r)]
           /\ net' = [net EXCEPT ![r] = IF ~Cut(r) \/ @ # "sent" THEN @
                                        ELSE IF opts[r].kind = "script" THEN "orphan" ELSE "over"]
           /\ Then(<<Ends("done", r, Todo.result)>>)
    /\ UNCHANGED <<lifecycle, transport, posted, active, jsonp, results, calls, broken>>

\* mutant of CalledBefore: done() is not guarded
CalledBeforeIgnored(r) == FALSE

CalledBefore(r) == state[r] = 2

\* JSONP of the same origin: the script comes as a text, and "text script" runs it
Evaluates(r, result) == IsJsonp(r) /\ result = "success" /\ opts[r].kind # "script"

\* done(), up to the conversion
Done ==
    /\ Now("done")
    /\ LET r == Todo.req
       IN  IF CalledBefore(r) THEN Then(<<>>) /\ UNCHANGED <<state, timer, transport>>
           ELSE /\ state' = [state EXCEPT ![r] = 2]
                /\ timer' = [timer EXCEPT ![r] = FALSE]
                /\ transport' = [transport EXCEPT ![r] = FALSE]
                /\ Then((IF Evaluates(r, Todo.result) THEN <<Do("evaluate", r)>> ELSE <<>>)
                        \o <<Ends("convert", r, Todo.result)>>)
    /\ UNCHANGED <<opts, fireGlobals, callback, net, posted, active, jsonp, results, calls, broken>>

\* The script of r runs, and calls the function that has its name now.
ScriptRuns(r, answers) ==
    /\ net' = [net EXCEPT ![r] = IF answers THEN "over" ELSE "silent"]
    /\ response' = IF answers /\ IsJsonp(r) /\ window[callbackName[r]] # None
                   THEN [response EXCEPT ![window[callbackName[r]]] = r]
                   ELSE response

Evaluate ==
    /\ Now("evaluate")
    /\ \E answers \in BOOLEAN : ScriptRuns(Todo.req, answers)
    /\ Then(<<>>)
    /\ UNCHANGED <<lifecycle, transport, callback, posted, active, window, callbackName,
                   overwritten, oldCallbacks, results, calls, broken>>

\* ajaxHandleResponses and ajaxConvert.  A converter may evaluate a script of the
\* page; "script json" fails when the callback was not called.
Convert ==
    /\ Now("convert")
    /\ LET r == Todo.req
       IN  \E result \in {Todo.result, "parsererror"} :
             /\ Todo.result # "success" => result = Todo.result
             /\ Todo.result = "success" /\ IsJsonp(r) =>
                    (result = "success" <=> response[r] # None)
             /\ Then((IF Todo.result = "success" THEN <<PageCode>> ELSE <<>>)
                     \o <<Ends("settle", r, result)>>)
    /\ UNCHANGED <<lifecycle, link, active, jsonp, results, calls, broken>>

\* With the option "throws" the exception of a converter leaves done().
ConvertThrows ==
    /\ Now("convert")
    /\ calls < MaxCalls /\ calls' = calls + 1
    /\ Todo.result = "success" \/ (IsJsonp(Todo.req) /\ response[Todo.req] = None)
    /\ Unwound
    /\ UNCHANGED <<lifecycle, link, active, jsonp, results>>

Restored(r) == overwritten[r]

\* The clean-up of the JSONP prefilter: the first function on the deferred's lists.
CleanUp(r) ==
    IF ~IsJsonp(r) THEN UNCHANGED jsonp
    ELSE /\ window' = [window EXCEPT ![callbackName[r]] = Restored(r)]
         /\ oldCallbacks' = IF opts[r].name = "pooled" THEN Append(oldCallbacks, callbackName[r])
                            ELSE oldCallbacks
         /\ response' = [x \in Requests |->
                           IF x = overwritten[r] /\ response[r] # None THEN response[r]
                           ELSE IF x = r THEN None ELSE response[x]]
         /\ overwritten' = [overwritten EXCEPT ![r] = None]
         /\ UNCHANGED callbackName

\* resolveWith or rejectWith; then the page's callbacks, ajaxSuccess or ajaxError
Settle ==
    /\ Now("settle")
    /\ LET r == Todo.req
       IN  /\ CleanUp(r)
           /\ outcome' = [outcome EXCEPT ![r] = Todo.result]
           /\ Then(<<PageCode, Do("complete", r)>>)
    /\ UNCHANGED <<lifecycle, link, active, completed, calls, broken>>

\* completeDeferred, ajaxComplete
Complete ==
    /\ Now("complete")
    /\ LET r == Todo.req
       IN  /\ completed' = [completed EXCEPT ![r] = @ + 1]
           /\ Then(<<PageCode>> \o (IF fireGlobals[r] THEN <<Do("stop", r)>> ELSE <<>>))
    /\ UNCHANGED <<lifecycle, link, active, jsonp, outcome, calls, broken>>

Stop ==
    /\ Now("stop")
    /\ active' = active - 1
    /\ Then(IF active = 1 THEN <<PageCode>> ELSE <<>>)
    /\ UNCHANGED <<lifecycle, link, jsonp, results, calls, broken>>
-----------------------------------------------------------------------------
\* What the browser does, each time in a task of its own.
Idle == agenda = <<>>

Timeout(r) ==
    /\ Idle /\ timer[r]
    /\ timer' = [timer EXCEPT ![r] = FALSE]
    /\ agenda' = <<Ends("abort", r, "timeout")>>
    /\ UNCHANGED <<state, opts, fireGlobals, link, active, jsonp, results, calls, broken>>

\* onload or onerror, if they are still set
XhrEnds(r) ==
    /\ Idle /\ net[r] = "sent" /\ opts[r].kind = "xhr"
    /\ net' = [net EXCEPT ![r] = "over"]
    /\ posted' = IF OldBrowser THEN posted \cup {r} ELSE posted
    /\ callback' = [callback EXCEPT ![r] = FALSE]
    /\ \E result \in {"success", "error"} :
          agenda' = IF callback[r] THEN <<Ends("done", r, result)>> ELSE <<>>
    /\ UNCHANGED <<lifecycle, transport, active, jsonp, results, calls, broken>>

\* A native abort that IE 9 tells of by readyState only.
XhrVanishes(r) ==
    /\ Idle /\ net[r] = "sent" /\ opts[r].kind = "xhr" /\ OldBrowser
    /\ net' = [net EXCEPT ![r] = "over"]
    /\ posted' = posted \cup {r}
    /\ UNCHANGED <<lifecycle, transport, callback, active, jsonp, results, agenda, calls, broken>>

PostedError(r) ==
    /\ Idle /\ r \in posted
    /\ posted' = posted \ {r}
    /\ callback' = [callback EXCEPT ![r] = FALSE]
    /\ agenda' = IF callback[r] THEN <<Ends("done", r, "error")>> ELSE <<>>
    /\ UNCHANGED <<lifecycle, transport, net, active, jsonp, results, calls, broken>>

\* The script runs, then "load" is fired.
ScriptLoads(r, answers) ==
    /\ Idle /\ net[r] \in {"sent", "orphan"} /\ opts[r].kind = "script"
    /\ ScriptRuns(r, answers)
    /\ callback' = [callback EXCEPT ![r] = FALSE]
    /\ agenda' = IF callback[r] THEN <<Ends("done", r, "success")>> ELSE <<>>
    /\ UNCHANGED <<lifecycle, transport, posted, active, window, callbackName, overwritten,
                   oldCallbacks, results, calls, broken>>

ScriptFails(r) ==
    /\ Idle /\ net[r] \in {"sent", "orphan"} /\ opts[r].kind = "script"
    /\ net' = [net EXCEPT ![r] = "over"]
    /\ callback' = [callback EXCEPT ![r] = FALSE]
    /\ agenda' = IF callback[r] THEN <<Ends("done", r, "error")>> ELSE <<>>
    /\ UNCHANGED <<lifecycle, transport, posted, active, jsonp, results, calls, broken>>
-----------------------------------------------------------------------------
Page == \E r \in Requests : PageAborts(r) \/ \E o \in Options : Ajax(r, o)

Engine ==
    \/ PageReturns
    \/ Start \/ Configure \/ Judge \/ Open \/ Send \/ SendSync \/ SendThrows \/ SendNothing \/ Sent
    \/ Abort \/ Done \/ Evaluate \/ Convert \/ Settle \/ Complete \/ Stop

Network ==
    \E r \in Requests :
        XhrEnds(r) \/ XhrVanishes(r) \/ PostedError(r)
        \/ ScriptFails(r) \/ \E answers \in BOOLEAN : ScriptLoads(r, answers)

Next == Page \/ PageThrows \/ ConvertThrows \/ Engine \/ Network \/ \E r \in Requests : Timeout(r)

Spec == Init /\ [][Next]_vars

\* Functions of the page return and timeouts go off; nothing obliges the network.
FairSpec == Spec /\ WF_vars(Engine) /\ \A r \in Requests : WF_vars(Timeout(r))
-----------------------------------------------------------------------------
\* The type invariant.
TypeOK ==
    /\ state \in [Requests -> 0 .. 2] /\ opts \in [Requests -> Options \cup {None}]
    /\ fireGlobals \in [Requests -> BOOLEAN] /\ timer \in [Requests -> BOOLEAN]
    /\ transport \in [Requests -> BOOLEAN] /\ callback \in [Requests -> BOOLEAN]
    /\ net \in [Requests -> {"none", "sent", "orphan", "over", "silent"}]
    /\ posted \subseteq Requests /\ active \in Nat
    /\ window \in [CallbackNames -> Requests \cup {None}]
    /\ callbackName \in [Requests -> CallbackNames \cup {None}]
    /\ overwritten \in [Requests -> Requests \cup {None}]
    /\ response \in [Requests -> Requests \cup {None}]
    /\ oldCallbacks \in Seq(CallbackNames)
    /\ outcome \in [Requests -> Results \cup {None}]
    /\ completed \in [Requests -> Nat] /\ calls \in 0 .. MaxCalls

\* What the agenda has in store for a request: steps on its way to send(), steps on its
\* way from done() to the end, and steps that are done at once.
Opening == {"start", "configure", "judge", "open", "send"}
Finishing == {"convert", "settle", "complete"}
Closing == Finishing \cup {"stop"}
AtOnce == {"open", "abort", "done", "evaluate"}
Whats == Opening \cup Closing \cup AtOnce \cup {"sent"}

\* From here on a request that is counted gets to done().
Counting == (Opening \ {"start"}) \cup {"abort", "done"}

Has(steps, what, r) == \E i \in 1 .. Len(steps) : steps[i].do = what /\ steps[i].req = r

HasAny(steps, whats, r) == \E what \in whats : Has(steps, what, r)

HasOne(steps, whats, r) ==
    \A i, j \in 1 .. Len(steps) :
        {steps[i].do, steps[j].do} \subseteq whats /\ steps[i].req = r /\ steps[j].req = r => i = j

StepSpace ==
    [do : Whats \cup {"page"}, req : Requests \cup {None}, result : Results \cup {None}]

AgendaInv ==
    /\ agenda \in Seq(StepSpace) /\ broken \subseteq Requests
    /\ \A i \in 1 .. Len(agenda) :
         /\ agenda[i].req = None <=> agenda[i].do = "page"
         /\ agenda[i].do \in {"abort", "done", "convert", "settle"} => agenda[i].result # None
         /\ agenda[i].do = "abort" => agenda[i].result # "success"
         /\ agenda[i].do \in AtOnce => i = 1
         /\ agenda[i].do = "evaluate" => Len(agenda) > 1 /\ agenda[2].do = "convert" /\ agenda[2].req = agenda[1].req

\* The life of a request: which steps are still to come for what it is, and what is
\* set for the answer that it waits for.
OpeningInv(r) ==
    /\ HasOne(agenda, Opening, r)
    /\ opts[r] = None => /\ state[r] = 0 /\ ~fireGlobals[r] /\ callbackName[r] = None
                         /\ ~HasAny(agenda, Whats, r)
    /\ HasAny(agenda, Opening, r) => state[r] # 1
    /\ Has(agenda, "start", r) => ~fireGlobals[r]
    /\ fireGlobals[r] /\ state[r] = 0 /\ r \notin broken =>
           HasAny(agenda, Counting, r)

WaitingInv(r) ==
    /\ state[r] = 1 \/ (state[r] = 0 /\ Has(agenda, "send", r)) => transport[r]
    /\ state[r] = 0 => net[r] = "none" /\ ~timer[r] /\ ~callback[r] /\ r \notin posted
    /\ state[r] = 2 \/ Has(agenda, "done", r) => ~(callback[r] /\ net[r] = "sent")
    /\ state[r] = 2 => ~timer[r]

ClosingInv(r) ==
    /\ HasOne(agenda, Closing, r)
    /\ state[r] # 2 => completed[r] = 0 /\ outcome[r] = None /\ ~HasAny(agenda, Closing, r)
    /\ Has(agenda, "convert", r) \/ Has(agenda, "settle", r) => outcome[r] = None
    /\ HasAny(agenda, Finishing, r) => completed[r] = 0
    /\ completed[r] <= 1
    /\ state[r] = 2 /\ r \notin broken /\ completed[r] = 0 => HasAny(agenda, Finishing, r)
    /\ Has(agenda, "stop", r) => fireGlobals[r]

\* The requests that are counted: those that have begun and are not at their end, and
\* perhaps some whose end an exception has prevented.
UnderWay(r) == state[r] # 2 \/ HasAny(agenda, Closing, r)

CountInv ==
    \E counted \in SUBSET Requests :
        /\ active = Cardinality(counted)
        /\ \A r \in Requests :
             /\ fireGlobals[r] /\ UnderWay(r) => r \in counted
             /\ r \in counted => fireGlobals[r] /\ (UnderWay(r) \/ r \in broken)

\* Between two tasks a request that is done has nothing left that could call it
\* back: its timeout is cleared and no handler waits for an answer under way.
QuietAfterDone ==
    Idle => \A r \in Requests : state[r] = 2 => ~timer[r] /\ ~(callback[r] /\ net[r] = "sent")

\* jQuery.active counts the requests that wait for an answer, wherever requests
\* were started and aborted: ajaxStop comes when the last one is done.  Only a
\* function of the page that throws can leave a request counted for ever.
ActiveExact ==
    Idle =>
        LET waiting == Cardinality({r \in Requests \ broken : fireGlobals[r] /\ state[r] = 1})
        IN  waiting <= active /\ active <= waiting + Cardinality(broken)

\* Each request that is done fires its complete callbacks once, whatever came
\* first: answer, timeout, abort or an exception of send().
CompletesOnce ==
    Idle => \A r \in Requests :
                completed[r] <= 1 /\ (state[r] = 2 /\ r \notin broken => completed[r] = 1)

PooledAt(r) == opts[r] # None /\ opts[r].name = "pooled"

UsedNames == {callbackName[r] : r \in Requests} \ {None, Given}

\* Which names are whose: jQuery's own are numbered on, a function that is installed is
\* of a request with that name, and so is the one that it took the place of.
NamesInv ==
    /\ \A r \in Requests : opts[r] # None =>
          /\ callbackName[r] = None <=> opts[r].name = "none"
          /\ callbackName[r] = Given <=> opts[r].name = "given"
    /\ UsedNames = 1 .. Cardinality(UsedNames)
    /\ ToSet(oldCallbacks) \subseteq UsedNames
    /\ \A n \in CallbackNames : window[n] # None => callbackName[window[n]] = n
    /\ \A r \in Requests : overwritten[r] # None =>
          callbackName[r] = Given /\ callbackName[overwritten[r]] = Given

\* A name that jQuery chose is that of one request until it is settled, and its
\* function stays installed; then the name is free, once, and the property gone.
NamesPrivate ==
    /\ \A r \in Requests : PooledAt(r) /\ outcome[r] = None =>
          window[callbackName[r]] = r /\ ~Contains(oldCallbacks, callbackName[r])
    /\ IsInjective(oldCallbacks)
    /\ \A i \in DOMAIN oldCallbacks : window[oldCallbacks[i]] = None

\* What a request that is about to succeed has been handed is its own.
OwnAnswer(r) == net[r] = "silent" \/ response[r] = r

AnswerInv ==
    \A i \in 1 .. Len(agenda) :
        LET r == agenda[i].req
        IN  agenda[i].result = "success" /\ agenda[i].do # "page" /\ PooledAt(r) =>
              /\ agenda[i].do \in {"convert", "settle"} => (i = 2 /\ agenda[1].do = "evaluate") \/ OwnAnswer(r)
              /\ agenda[i].do = "done" /\ opts[r].kind = "script" /\ state[r] # 2 => OwnAnswer(r)

AjaxInv ==
    /\ TypeOK /\ AgendaInv /\ QuietAfterDone /\ ActiveExact /\ CompletesOnce
    /\ \A r \in Requests : OpeningInv(r) /\ WaitingInv(r) /\ ClosingInv(r)
    /\ CountInv /\ NamesInv /\ NamesPrivate /\ AnswerInv

\* A JSONP request succeeds with what its own script handed over, although the
\* scripts of aborted requests still run and names are used again.  Excluded are
\* names that the page gives to two requests, and scripts that call nothing.
JsonpOwn ==
    [][\A r \in Requests :
          PooledAt(r) /\ outcome[r] = None /\ outcome'[r] = "success" /\ net[r] # "silent"
            => response[r] = r]_vars

\* A request with a timeout is settled although the network never answers.
TimedRequestsEnd ==
    \A r \in Requests : (state[r] = 1 /\ opts[r].timeout) ~> (completed[r] = 1 \/ r \in broken)
=============================================================================
