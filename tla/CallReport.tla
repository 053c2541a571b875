----------------------------- MODULE CallReport ------------------------------
(***************************************************************************)
(* Load balancing over the data of the providers' ZooKeeper nodes.  A call *)
(* picks a provider by the reports it reads there (loadBalancingRpcClient) *)
(* and then writes a report of its own (reportCallMsg): when it ended and  *)
(* how long it took.  CallReportJob blanks the reports that are old, so    *)
(* that slow providers get another chance.  Each access of a node is a     *)
(* round trip of its own, and the node may be gone by then.                *)
(*                                                                         *)
(* Times are kept as ages, which stop at the last value that matters.      *)
(***************************************************************************)
EXTENDS Integers

CONSTANTS
    Services,       \* the providers, also the names of their nodes
    Callers,        \* the threads that make calls
    Staleness,      \* the 5000 ms of CallReportJob
    MaxUse,         \* bound: durations of calls from this one on are alike
    MaxRound,       \* bound: time that passes during one run of the job
    MaxLeaves,      \* bound: how often a provider goes
    GONE,           \* no node
    BLANK,          \* the node's data is empty
    NONE            \* Java's null

ASSUME ConstantsAssumption ==
    /\ Staleness \in Nat
    /\ MaxUse \in Nat
    /\ MaxRound \in Nat
    /\ MaxLeaves \in Nat
    /\ NONE \notin Services
    /\ GONE # BLANK

MaxAge == Staleness + 1 + MaxRound

Reports == [age : 0 .. MaxAge, use : 0 .. MaxUse]

ASSUME DataAssumption == GONE \notin Reports /\ BLANK \notin Reports

VARIABLES
    data,       \* the data of each node: GONE, BLANK or a report
    entries,    \* the keys of rpcClientMap
    departed,   \* those whose removal the listener has still to handle
    leaves,     \* how often a provider has gone
    pc,         \* "idle", "scanning" (59 to 74), "calling" (42), "reporting" (44)
    todo,       \* the entries a caller's iteration has still to return
    best,       \* rpcClient: the provider a caller would pick, or has picked
    baseTime,   \* the use time of best
    report,     \* the report of a call: use runs while calling, age afterwards
    outcome,    \* how each caller's last call ended
    job,        \* "idle", "listing" (line 47), "reading" (52), "blanking" (63)
    elapsed,    \* time since the job read its clock (line 44)
    nodes,      \* nodeList, as far as the job has not come to it
    node,       \* the node the job is about to blank
    disturbed,  \* history: callers whose scan met a change of the map or the data
    touched     \* history: nodes created or written to since the job began

registry == <<data, entries, departed, leaves>>
callers == <<pc, todo, best, baseTime, report, outcome>>
round == <<job, elapsed, nodes, node>>
vars == <<registry, callers, round, disturbed, touched>>

NoReport == [age |-> 0, use |-> 0]

Init ==
    /\ data = [s \in Services |-> GONE]
    /\ entries = {} /\ departed = {} /\ leaves = 0
    /\ pc = [c \in Callers |-> "idle"]
    /\ todo = [c \in Callers |-> {}]
    /\ best = [c \in Callers |-> NONE]
    /\ baseTime = [c \in Callers |-> 0]
    /\ report = [c \in Callers |-> NoReport]
    /\ outcome = [c \in Callers |-> "none"]
    /\ job = "idle" /\ elapsed = 0 /\ nodes = {} /\ node = NONE
    /\ disturbed = {} /\ touched = {}

Scanning == {c \in Callers : pc[c] = "scanning"}

\* Everybody who is scanning notices that something has changed.
Disturb == disturbed' = disturbed \cup Scanning

Smaller(x, y) == IF x < y THEN x ELSE y

Older(r) == [r EXCEPT !.age = Smaller(@ + 1, MaxAge)]

Longer(r) == [r EXCEPT !.use = Smaller(@ + 1, MaxUse)]

\* Time passes for the reports, the calls and the job.
Tick ==
    /\ job = "idle" \/ elapsed < MaxRound
    /\ elapsed' = IF job = "idle" THEN 0 ELSE elapsed + 1
    /\ data' = [s \in Services |->
                  IF data[s] \in {GONE, BLANK} THEN data[s] ELSE Older(data[s])]
    /\ report' = [c \in Callers |->
                    CASE pc[c] = "calling" -> Longer(report[c])
                      [] pc[c] = "reporting" -> Older(report[c])
                      [] OTHER -> report[c]]
    /\ UNCHANGED <<entries, departed, leaves, pc, todo, best, baseTime, outcome,
                   job, nodes, node, disturbed, touched>>

\* A provider registers: reportServerMsg creates its node with empty data.
Join(s) ==
    /\ data[s] = GONE
    /\ data' = [data EXCEPT ![s] = BLANK]
    /\ touched' = touched \cup {s}
    /\ Disturb
    /\ UNCHANGED <<entries, departed, leaves, callers, round>>

\* mutant of Leave: the listener is not told
LeaveUnnoticed(s) ==
    /\ leaves < MaxLeaves
    /\ data[s] # GONE
    /\ data' = [data EXCEPT ![s] = GONE]
    /\ leaves' = leaves + 1
    /\ Disturb
    /\ UNCHANGED <<entries, departed, callers, round, touched>>

\* Its session ends.
Leave(s) ==
    /\ leaves < MaxLeaves
    /\ data[s] # GONE
    /\ data' = [data EXCEPT ![s] = GONE]
    /\ departed' = departed \cup ({s} \cap entries)
    /\ leaves' = leaves + 1
    /\ Disturb
    /\ UNCHANGED <<entries, callers, round, touched>>

\* connectProviderService; an iteration under way may or may not come to the entry
AddEntry(s) ==
    /\ s \notin entries
    /\ data[s] # GONE
    /\ entries' = entries \cup {s}
    /\ \E lucky \in SUBSET Scanning :
         todo' = [c \in Callers |-> IF c \in lucky THEN todo[c] \cup {s} ELSE todo[c]]
    /\ Disturb
    /\ UNCHANGED <<data, departed, leaves, pc, best, baseTime, report, outcome, round, touched>>

\* disconnectProviderService
RemoveEntry(s) ==
    /\ s \in departed
    /\ entries' = entries \ {s}
    /\ departed' = departed \ {s}
    /\ Disturb
    /\ UNCHANGED <<data, leaves, callers, round, touched>>

\* The call ends with an exception.
Fail(c, why) ==
    /\ pc' = [pc EXCEPT ![c] = "idle"]
    /\ outcome' = [outcome EXCEPT ![c] = why]
    /\ todo' = [todo EXCEPT ![c] = {}]
    /\ best' = [best EXCEPT ![c] = NONE]
    /\ baseTime' = [baseTime EXCEPT ![c] = 0]
    /\ disturbed' = disturbed \ {c}
    /\ UNCHANGED <<registry, report, round, touched>>

\* line 41: the provider is chosen, the call's clock starts
Pick(c, s) ==
    /\ pc' = [pc EXCEPT ![c] = "calling"]
    /\ best' = [best EXCEPT ![c] = s]
    /\ todo' = [todo EXCEPT ![c] = {}]
    /\ baseTime' = [baseTime EXCEPT ![c] = 0]
    /\ disturbed' = disturbed \ {c}
    /\ UNCHANGED <<registry, report, outcome, round, touched>>

\* mutant of NoTime: a start value that a use time can reach
NoTimeTooSmall == MaxUse

\* Long.MAX_VALUE, line 56
NoTime == MaxUse + 1

\* lines 34 and 55 to 59
BeginScan(c) ==
    /\ pc[c] = "idle"
    /\ entries # {}
    /\ pc' = [pc EXCEPT ![c] = "scanning"]
    /\ todo' = [todo EXCEPT ![c] = entries]
    /\ baseTime' = [baseTime EXCEPT ![c] = NoTime]
    /\ outcome' = [outcome EXCEPT ![c] = "none"]
    /\ UNCHANGED <<registry, best, report, round, disturbed, touched>>

\* lines 55 and 79
FindNoEntry(c) ==
    /\ pc[c] = "idle"
    /\ entries = {}
    /\ Fail(c, "noProvider")

\* line 60: getData throws NoNodeException, which nobody catches
VisitGone(c, s) ==
    /\ pc[c] = "scanning"
    /\ s \in todo[c] /\ data[s] = GONE
    /\ Fail(c, "noNode")

\* lines 61 to 67
VisitBlank(c, s) ==
    /\ pc[c] = "scanning"
    /\ s \in todo[c] /\ data[s] = BLANK
    /\ Pick(c, s)

\* mutant of VisitReport: baseTime is not updated
VisitReportKeepsBase(c, s) ==
    /\ pc[c] = "scanning"
    /\ s \in todo[c] /\ data[s] \in Reports
    /\ todo' = [todo EXCEPT ![c] = @ \ {s}]
    /\ best' = IF data[s].use < baseTime[c] THEN [best EXCEPT ![c] = s] ELSE best
    /\ UNCHANGED <<registry, pc, baseTime, report, outcome, round, disturbed, touched>>

\* lines 68 to 73
VisitReport(c, s) ==
    /\ pc[c] = "scanning"
    /\ s \in todo[c] /\ data[s] \in Reports
    /\ todo' = [todo EXCEPT ![c] = @ \ {s}]
    /\ IF data[s].use < baseTime[c]
         THEN /\ best' = [best EXCEPT ![c] = s]
              /\ baseTime' = [baseTime EXCEPT ![c] = data[s].use]
         ELSE UNCHANGED <<best, baseTime>>
    /\ UNCHANGED <<registry, pc, report, outcome, round, disturbed, touched>>

\* An entry removed since the iteration began may not be returned any more.
SkipRemoved(c, s) ==
    /\ pc[c] = "scanning"
    /\ s \in todo[c] \ entries
    /\ todo' = [todo EXCEPT ![c] = @ \ {s}]
    /\ UNCHANGED <<registry, pc, best, baseTime, report, outcome, round, disturbed, touched>>

\* lines 75 to 79
EndScan(c) ==
    /\ pc[c] = "scanning"
    /\ todo[c] = {}
    /\ IF best[c] = NONE THEN Fail(c, "noProvider") ELSE Pick(c, best[c])

\* lines 42 and 43, and the arguments of line 44
Finish(c) ==
    /\ pc[c] = "calling"
    /\ pc' = [pc EXCEPT ![c] = "reporting"]
    /\ UNCHANGED <<registry, todo, best, baseTime, report, outcome, round, disturbed, touched>>

\* lines 82 to 91: if the node is gone the exception is printed, and that is all
ReportCallMsg(c) ==
    /\ pc[c] = "reporting"
    /\ IF data[best[c]] = GONE
         THEN UNCHANGED <<data, touched, disturbed>>
         ELSE /\ data' = [data EXCEPT ![best[c]] = report[c]]
              /\ touched' = touched \cup {best[c]}
              /\ Disturb
    /\ pc' = [pc EXCEPT ![c] = "idle"]
    /\ best' = [best EXCEPT ![c] = NONE]
    /\ report' = [report EXCEPT ![c] = NoReport]
    /\ outcome' = [outcome EXCEPT ![c] = "returned"]
    /\ UNCHANGED <<entries, departed, leaves, todo, baseTime, round>>

Call(c) ==
    \/ BeginScan(c) \/ FindNoEntry(c) \/ EndScan(c) \/ Finish(c) \/ ReportCallMsg(c)
    \/ \E s \in Services :
         VisitGone(c, s) \/ VisitBlank(c, s) \/ VisitReport(c, s) \/ SkipRemoved(c, s)

\* The job's run is over, by a return or an exception.
EndRound ==
    /\ job' = "idle"
    /\ elapsed' = 0 /\ nodes' = {} /\ node' = NONE
    /\ touched' = {}

\* line 44
JobBegin ==
    /\ job = "idle"
    /\ job' = "listing"
    /\ touched' = {}
    /\ UNCHANGED <<registry, callers, elapsed, nodes, node, disturbed>>

\* lines 46 to 50
JobList ==
    /\ job = "listing"
    /\ LET children == {s \in Services : data[s] # GONE}
       IN  IF children = {}
             THEN EndRound
             ELSE /\ job' = "reading"
                  /\ nodes' = children
                  /\ UNCHANGED <<elapsed, node, touched>>
    /\ UNCHANGED <<registry, callers, disturbed>>

\* nowTime > endTime + 5000
IsStale(s) == data[s] \in Reports /\ data[s].age - elapsed > Staleness

\* lines 52 and 66: NoNodeException ends the run
JobReadGone(s) ==
    /\ job = "reading"
    /\ s \in nodes /\ data[s] = GONE
    /\ EndRound
    /\ UNCHANGED <<registry, callers, disturbed>>

\* mutant of JobReadKeep: a node without a report ends the loop
JobReadKeepReturns(s) ==
    /\ job = "reading"
    /\ s \in nodes /\ data[s] # GONE /\ ~IsStale(s)
    /\ nodes' = IF data[s] = BLANK THEN {} ELSE nodes \ {s}
    /\ UNCHANGED <<registry, callers, job, elapsed, node, disturbed, touched>>

\* lines 53 to 62
JobReadKeep(s) ==
    /\ job = "reading"
    /\ s \in nodes /\ data[s] # GONE /\ ~IsStale(s)
    /\ nodes' = nodes \ {s}
    /\ UNCHANGED <<registry, callers, job, elapsed, node, disturbed, touched>>

\* mutant of JobReadStale: any report is stale
JobReadStaleAlways(s) ==
    /\ job = "reading"
    /\ s \in nodes /\ data[s] \in Reports
    /\ job' = "blanking"
    /\ nodes' = nodes \ {s}
    /\ node' = s
    /\ UNCHANGED <<registry, callers, elapsed, disturbed, touched>>

\* line 62
JobReadStale(s) ==
    /\ job = "reading"
    /\ s \in nodes /\ IsStale(s)
    /\ job' = "blanking"
    /\ nodes' = nodes \ {s}
    /\ node' = s
    /\ UNCHANGED <<registry, callers, elapsed, disturbed, touched>>

\* mutant of JobBlank: the write that ends the run is left out
JobBlankSkips ==
    /\ job = "blanking"
    /\ job' = "reading"
    /\ node' = NONE
    /\ UNCHANGED <<registry, callers, elapsed, nodes, disturbed, touched>>

\* line 63, whatever the node holds by now
JobBlank ==
    /\ job = "blanking"
    /\ IF data[node] = GONE
         THEN EndRound /\ UNCHANGED <<data, disturbed>>
         ELSE /\ data' = [data EXCEPT ![node] = BLANK]
              /\ job' = "reading"
              /\ node' = NONE
              /\ Disturb
              /\ UNCHANGED <<elapsed, nodes, touched>>
    /\ UNCHANGED <<entries, departed, leaves, callers>>

\* The loop of lines 51 to 65 is done.
JobEnd ==
    /\ job = "reading"
    /\ nodes = {}
    /\ EndRound
    /\ UNCHANGED <<registry, callers, disturbed>>

Job ==
    \/ JobBegin \/ JobList \/ JobBlank \/ JobEnd
    \/ \E s \in Services : JobReadGone(s) \/ JobReadKeep(s) \/ JobReadStale(s)

Next ==
    \/ Tick
    \/ \E s \in Services : Join(s) \/ Leave(s) \/ AddEntry(s) \/ RemoveEntry(s)
    \/ \E c \in Callers : Call(c)
    \/ Job

Spec == Init /\ [][Next]_vars

\* The scheduler runs the job every five seconds, and ZooKeeper answers it.
FairSpec == Spec /\ WF_vars(Job)
-----------------------------------------------------------------------------
\* The type invariant.
TypeOK ==
    /\ data \in [Services -> Reports \cup {GONE, BLANK}]
    /\ entries \subseteq Services
    /\ departed \subseteq entries
    /\ leaves \in 0 .. MaxLeaves
    /\ pc \in [Callers -> {"idle", "scanning", "calling", "reporting"}]
    /\ todo \in [Callers -> SUBSET Services]
    /\ best \in [Callers -> Services \cup {NONE}]
    /\ baseTime \in [Callers -> 0 .. MaxUse + 1]
    /\ report \in [Callers -> Reports]
    /\ outcome \in [Callers -> {"none", "returned", "noNode", "noProvider"}]
    /\ job \in {"idle", "listing", "reading", "blanking"}
    /\ elapsed \in 0 .. MaxRound
    /\ nodes \subseteq Services
    /\ node \in Services \cup {NONE}
    /\ disturbed \subseteq Scanning
    /\ touched \subseteq Services

\* Where a caller and the job stand: who has picked a provider has one, who
\* blanks a node has one, the others have none, and an entry without a node is
\* about to be removed.
PlaceInv ==
    /\ \A c \in Callers : pc[c] \in {"calling", "reporting"} => best[c] \in Services
    /\ \A c \in Callers : pc[c] = "idle" => best[c] = NONE
    /\ IF job = "blanking" THEN node \in Services ELSE node = NONE
    /\ \A s \in entries : data[s] = GONE => s \in departed

\* What an undisturbed scan has seen: the entries it has passed hold reports, of
\* which "best" is the fastest.
ScanInv ==
    \A c \in Scanning \ disturbed :
        LET passed == entries \ todo[c]
        IN  /\ todo[c] \subseteq entries
            /\ \A s \in passed : data[s] \in Reports /\ baseTime[c] <= data[s].use
            /\ IF best[c] = NONE THEN baseTime[c] = NoTime
               ELSE best[c] \in passed /\ data[best[c]].use = baseTime[c]

\* What a run of the job has still to do: a report that is stale is ahead of it, or
\* came while it ran; and so is one that it is about to blank.
RoundInv ==
    job \in {"reading", "blanking"} =>
        /\ \A s \in Services : IsStale(s) => s \in touched \cup nodes \cup {node}
        /\ node # NONE /\ data[node] \in Reports => IsStale(node) \/ node \in touched

\* The inductive invariant.
CallReportInv == TypeOK /\ PlaceInv /\ ScanInv /\ RoundInv

\* The balancer's choice (lines 54 to 80), for a scan during which neither the
\* map nor a node has changed: a provider without a report, else one of the
\* fastest, although each node is read at another moment.
PickIsFastest ==
    [][\A c \in Callers :
         pc[c] = "scanning" /\ pc'[c] = "calling" /\ c \notin disturbed =>
            /\ best'[c] \in entries
            /\ \/ data[best'[c]] = BLANK
               \/ \A s \in entries : data[s] # BLANK /\ data[best'[c]].use <= data[s].use
      ]_vars

\* A call finds no provider only if the map is empty, a provider in the map has
\* just gone, or things changed during the scan: a provider that was there all
\* the time is found, however slow its reports say it is.
FailsForCause ==
    [][\A c \in Callers :
         pc'[c] = "idle" /\ outcome'[c] \in {"noNode", "noProvider"}
             /\ <<pc[c], outcome[c]>> # <<pc'[c], outcome'[c]>> =>
            entries = {} \/ departed # {} \/ c \in disturbed
      ]_vars

\* A run of the job that comes to its end leaves no report that was stale when it
\* began: lines 54 and 58 go on to the next node, they do not leave the loop.
RoundIsThorough ==
    [][job = "reading" /\ nodes = {} /\ job' = "idle" =>
         \A s \in Services : IsStale(s) => s \in touched]_vars

\* The job's write may fall upon a newer report than the one it has read, but
\* only if a call has reported, or the provider registered, during the same run:
\* any other report that is lost was stale (lines 52 to 63).
LostReportsRaced ==
    [][job = "blanking" /\ data[node] \in Reports /\ data'[node] = BLANK =>
         IsStale(node) \/ node \in touched]_vars

\* A provider is not judged by one report for ever: reports are replaced, or
\* blanked once they are old, even if some runs of the job fail.
OldReportsGo ==
    \A s \in Services :
        LET old == data[s] \in Reports /\ data[s].age = MaxAge
        IN  old ~> ~old
=============================================================================
