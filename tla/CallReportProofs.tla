-------------------------- MODULE CallReportProofs ---------------------------
(***************************************************************************)
(* What the balancer and the job achieve for any number of providers and   *)
(* callers, although each node is read at another moment.                  *)
(***************************************************************************)
EXTENDS CallReport, TLAPS

\* The bounds are numbers, and a report fits them.
LEMMA Bounds ==
  /\ MaxAge \in Nat /\ MaxAge = Staleness + 1 + MaxRound
  /\ NoTime = MaxUse + 1 /\ NoTime \in Nat /\ NoReport \in Reports
BY ConstantsAssumption DEF MaxAge, NoTime, NoReport, Reports

\* A report that grows older stays a report, of the same use time.
LEMMA OlderReport ==
  ASSUME NEW r \in Reports
  PROVE  /\ Older(r) \in Reports /\ Older(r).use = r.use
         /\ Older(r).age = IF r.age + 1 < MaxAge THEN r.age + 1 ELSE MaxAge
<1>1. r.age \in 0 .. MaxAge /\ r.use \in 0 .. MaxUse /\ r = [age |-> r.age, use |-> r.use]
  BY DEF Reports
<1>2. Older(r) = [age |-> Smaller(r.age + 1, MaxAge), use |-> r.use]
  BY <1>1 DEF Older
<1>3. Smaller(r.age + 1, MaxAge) \in 0 .. MaxAge
  BY <1>1, Bounds DEF Smaller
<1> QED BY <1>1, <1>2, <1>3 DEF Reports, Smaller

\* A call that takes longer still has a report that fits.
LEMMA LongerReport ==
  ASSUME NEW r \in Reports
  PROVE  Longer(r) \in Reports
<1>1. r.age \in 0 .. MaxAge /\ r.use \in 0 .. MaxUse /\ r = [age |-> r.age, use |-> r.use]
  BY DEF Reports
<1>2. Longer(r) = [age |-> r.age, use |-> Smaller(r.use + 1, MaxUse)]
  BY <1>1 DEF Longer
<1>3. Smaller(r.use + 1, MaxUse) \in 0 .. MaxUse
  BY <1>1, ConstantsAssumption DEF Smaller
<1> QED BY <1>1, <1>2, <1>3 DEF Reports

\* What time does to the data of a node.
LEMMA TickedData ==
  ASSUME TypeOK, Tick, NEW s \in Services
  PROVE  IF data[s] \in Reports THEN data'[s] = Older(data[s]) ELSE data'[s] = data[s]
BY DataAssumption DEF TypeOK, Tick

\* Every step keeps the types; a call that reports and a job that blanks know where.
LEMMA TypeNext == TypeOK /\ PlaceInv /\ [Next]_vars => TypeOK'
<1> SUFFICES ASSUME TypeOK, PlaceInv, [Next]_vars PROVE TypeOK'
  OBVIOUS
<1> USE Bounds, ConstantsAssumption DEF Scanning
<1>1. ASSUME Tick PROVE TypeOK'
  <2>1. data' \in [Services -> Reports \cup {GONE, BLANK}]
    <3>1. \A s \in Services : data'[s] \in Reports \cup {GONE, BLANK}
      BY <1>1, TickedData, OlderReport DEF TypeOK
    <3> QED BY <1>1, <3>1 DEF Tick
  <2>2. report' \in [Callers -> Reports]
    BY <1>1, OlderReport, LongerReport DEF Tick, TypeOK
  <2>3. elapsed' \in 0 .. MaxRound
    BY <1>1 DEF Tick, TypeOK
  <2> QED BY <1>1, <2>1, <2>2, <2>3 DEF Tick, TypeOK
<1>2. ASSUME NEW s \in Services, Join(s) PROVE TypeOK'
  BY <1>2 DEF Join, Disturb, TypeOK, callers, round
<1>3. ASSUME NEW s \in Services, Leave(s) PROVE TypeOK'
  BY <1>3 DEF Leave, Disturb, TypeOK, callers, round
<1>4. ASSUME NEW s \in Services, AddEntry(s) PROVE TypeOK'
  BY <1>4 DEF AddEntry, Disturb, TypeOK, round
<1>5. ASSUME NEW s \in Services, RemoveEntry(s) PROVE TypeOK'
  BY <1>5 DEF RemoveEntry, Disturb, TypeOK, callers, round
<1>6. ASSUME NEW c \in Callers, NEW why \in {"noNode", "noProvider"}, Fail(c, why)
      PROVE  TypeOK'
  BY <1>6 DEF Fail, TypeOK, registry, round
<1>7. ASSUME NEW c \in Callers, NEW s \in Services, Pick(c, s) PROVE TypeOK'
  BY <1>7 DEF Pick, TypeOK, registry, round
<1>8. ASSUME NEW c \in Callers, BeginScan(c) PROVE TypeOK'
  BY <1>8 DEF BeginScan, TypeOK, registry, round
<1>9. ASSUME NEW c \in Callers, EndScan(c) PROVE TypeOK'
  BY <1>6, <1>7, <1>9 DEF EndScan, TypeOK
<1>10. ASSUME NEW c \in Callers, Finish(c) PROVE TypeOK'
  BY <1>10 DEF Finish, TypeOK, registry, round
<1>11. ASSUME NEW c \in Callers, ReportCallMsg(c) PROVE TypeOK'
  <2>1. best[c] \in Services
    BY <1>11 DEF ReportCallMsg, PlaceInv
  <2>2. disturbed' \subseteq Scanning'
    BY <1>11 DEF ReportCallMsg, Disturb, TypeOK
  <2>3. data' \in [Services -> Reports \cup {GONE, BLANK}] /\ touched' \subseteq Services
    BY <1>11, <2>1 DEF ReportCallMsg, TypeOK
  <2> QED BY <1>11, <2>2, <2>3 DEF ReportCallMsg, TypeOK, round
<1>12. ASSUME NEW c \in Callers, NEW s \in Services, VisitReport(c, s) PROVE TypeOK'
  <2>1. data[s].use \in 0 .. MaxUse
    BY <1>12 DEF VisitReport, Reports
  <2>2. best' \in [Callers -> Services \cup {NONE}] /\ baseTime' \in [Callers -> 0 .. MaxUse + 1]
    BY <1>12, <2>1 DEF VisitReport, TypeOK
  <2> QED BY <1>12, <2>2 DEF VisitReport, TypeOK, registry, round
<1>13. ASSUME NEW c \in Callers, NEW s \in Services, SkipRemoved(c, s) PROVE TypeOK'
  BY <1>13 DEF SkipRemoved, TypeOK, registry, round
<1>14. ASSUME NEW c \in Callers, Call(c) PROVE TypeOK'
  BY <1>6, <1>7, <1>8, <1>9, <1>10, <1>11, <1>12, <1>13, <1>14
    DEF Call, FindNoEntry, VisitGone, VisitBlank
<1>15. ASSUME Job PROVE TypeOK'
  <2>1. ASSUME JobBegin PROVE TypeOK'
    BY <2>1 DEF JobBegin, TypeOK, registry, callers
  <2>2. ASSUME JobList PROVE TypeOK'
    BY <2>2 DEF JobList, EndRound, TypeOK, registry, callers
  <2>3. ASSUME JobBlank PROVE TypeOK'
    <3>1. node \in Services
      BY <2>3 DEF JobBlank, PlaceInv
    <3> QED BY <2>3, <3>1 DEF JobBlank, EndRound, Disturb, TypeOK, callers
  <2>4. ASSUME JobEnd PROVE TypeOK'
    BY <2>4 DEF JobEnd, EndRound, TypeOK, registry, callers
  <2>5. ASSUME NEW s \in Services, JobReadGone(s) PROVE TypeOK'
    BY <2>5 DEF JobReadGone, EndRound, TypeOK, registry, callers
  <2>6. ASSUME NEW s \in Services, JobReadKeep(s) PROVE TypeOK'
    BY <2>6 DEF JobReadKeep, TypeOK, registry, callers
  <2>7. ASSUME NEW s \in Services, JobReadStale(s) PROVE TypeOK'
    BY <2>7 DEF JobReadStale, TypeOK, registry, callers
  <2> QED BY <1>15, <2>1, <2>2, <2>3, <2>4, <2>5, <2>6, <2>7 DEF Job
<1>16. CASE UNCHANGED vars
  BY <1>16 DEF vars, registry, callers, round, TypeOK
<1> QED BY <1>1, <1>2, <1>3, <1>4, <1>5, <1>14, <1>15, <1>16 DEF Next

\* Who has picked a provider keeps it until the report, the job keeps its node until
\* the write, and an entry that loses its node is told to the listener.
LEMMA PlaceNext == TypeOK /\ PlaceInv /\ [Next]_vars => PlaceInv'
<1> SUFFICES ASSUME TypeOK, PlaceInv, [Next]_vars PROVE PlaceInv'
  OBVIOUS
<1> USE ConstantsAssumption DEF PlaceInv
<1>1. ASSUME Tick PROVE PlaceInv'
  <2>1. \A s \in Services : data'[s] = GONE => data[s] = GONE
    BY <1>1, TickedData, OlderReport, DataAssumption
  <2> QED BY <1>1, <2>1 DEF Tick, TypeOK
<1>2. ASSUME NEW s \in Services, Join(s) PROVE PlaceInv'
  BY <1>2 DEF Join, TypeOK, callers, round
<1>3. ASSUME NEW s \in Services, Leave(s) PROVE PlaceInv'
  BY <1>3 DEF Leave, TypeOK, callers, round
<1>4. ASSUME NEW s \in Services, AddEntry(s) PROVE PlaceInv'
  BY <1>4 DEF AddEntry, TypeOK, round
<1>5. ASSUME NEW s \in Services, RemoveEntry(s) PROVE PlaceInv'
  BY <1>5 DEF RemoveEntry, TypeOK, callers, round
<1>6. ASSUME NEW c \in Callers, NEW why, Fail(c, why) PROVE PlaceInv'
  BY <1>6 DEF Fail, TypeOK, registry, round
<1>7. ASSUME NEW c \in Callers, NEW s \in Services, Pick(c, s) PROVE PlaceInv'
  BY <1>7 DEF Pick, TypeOK, registry, round
<1>8. ASSUME NEW c \in Callers, Call(c) PROVE PlaceInv'
  <2>1. ASSUME BeginScan(c) PROVE PlaceInv'
    BY <2>1 DEF BeginScan, TypeOK, registry, round
  <2>2. ASSUME EndScan(c) PROVE PlaceInv'
    BY <1>6, <1>7, <2>2 DEF EndScan, TypeOK
  <2>3. ASSUME Finish(c) PROVE PlaceInv'
    BY <2>3 DEF Finish, TypeOK, registry, round
  <2>4. ASSUME ReportCallMsg(c) PROVE PlaceInv'
    <3>1. \A s \in Services : data'[s] = GONE => data[s] = GONE
      BY <2>4, DataAssumption DEF ReportCallMsg, TypeOK
    <3> QED BY <2>4, <3>1 DEF ReportCallMsg, TypeOK, round
  <2>5. ASSUME NEW s \in Services, VisitReport(c, s) PROVE PlaceInv'
    BY <2>5 DEF VisitReport, TypeOK, registry, round
  <2>6. ASSUME NEW s \in Services, SkipRemoved(c, s) PROVE PlaceInv'
    BY <2>6 DEF SkipRemoved, TypeOK, registry, round
  <2> QED
    BY <1>6, <1>7, <1>8, <2>1, <2>2, <2>3, <2>4, <2>5, <2>6
    DEF Call, FindNoEntry, VisitGone, VisitBlank
<1>9. ASSUME JobBlank PROVE PlaceInv'
  <2>1. \A s \in Services : data'[s] = GONE => data[s] = GONE
    BY <1>9 DEF JobBlank, EndRound, TypeOK
  <2> QED BY <1>9, <2>1 DEF JobBlank, EndRound, TypeOK, callers
<1>10. ASSUME Job PROVE PlaceInv'
  BY <1>9, <1>10
  DEF Job, JobBegin, JobList, JobEnd, JobReadGone, JobReadKeep, JobReadStale, EndRound, TypeOK,
      registry, callers
<1>11. CASE UNCHANGED vars
  BY <1>11 DEF vars, registry, callers, round
<1> QED BY <1>1, <1>2, <1>3, <1>4, <1>5, <1>8, <1>10, <1>11 DEF Next

\* A step of another caller, or one that disturbs, leaves nothing to show of a scan.
LEMMA ScanUntouched ==
  ASSUME TypeOK, ScanInv, UNCHANGED <<data, entries>>,
         NEW c \in Scanning \ disturbed,
         UNCHANGED <<todo[c], best[c], baseTime[c]>>
  PROVE  /\ todo'[c] \subseteq entries'
         /\ \A s \in entries' \ todo'[c] : data'[s] \in Reports /\ baseTime'[c] <= data'[s].use
         /\ IF best'[c] = NONE THEN baseTime'[c] = NoTime
            ELSE best'[c] \in entries' \ todo'[c] /\ data'[best'[c]].use = baseTime'[c]
BY DEF ScanInv

\* A scan that nothing has disturbed has seen what is there.
LEMMA ScanNext == TypeOK /\ PlaceInv /\ ScanInv /\ [Next]_vars => ScanInv'
<1> SUFFICES ASSUME TypeOK, PlaceInv, ScanInv, [Next]_vars,
                    NEW c \in (Scanning \ disturbed)'
             PROVE  /\ todo'[c] \subseteq entries'
                    /\ \A s \in entries' \ todo'[c] :
                         data'[s] \in Reports /\ baseTime'[c] <= data'[s].use
                    /\ IF best'[c] = NONE THEN baseTime'[c] = NoTime
                       ELSE best'[c] \in entries' \ todo'[c] /\ data'[best'[c]].use = baseTime'[c]
  BY Bounds DEF ScanInv, NoTime
<1> DEFINE Goal == /\ todo'[c] \subseteq entries'
                   /\ \A s \in entries' \ todo'[c] :
                        data'[s] \in Reports /\ baseTime'[c] <= data'[s].use
                   /\ IF best'[c] = NONE THEN baseTime'[c] = NoTime
                      ELSE best'[c] \in entries' \ todo'[c] /\ data'[best'[c]].use = baseTime'[c]
<1>0. c \in Callers /\ pc'[c] = "scanning" /\ c \notin disturbed'
  BY DEF Scanning
<1>1. ASSUME Tick PROVE Goal
  <2>1. c \in Scanning \ disturbed
    BY <1>0, <1>1 DEF Tick, Scanning
  <2>2. \A s \in Services : data[s] \in Reports => data'[s] \in Reports /\ data'[s].use = data[s].use
    BY <1>1, TickedData, OlderReport
  <2> QED BY <1>1, <2>1, <2>2 DEF Tick, ScanInv, TypeOK
<1>2. ASSUME Disturb, pc' = pc PROVE Goal
  BY <1>0, <1>2 DEF Disturb, Scanning
<1>3. ASSUME NEW d \in Callers, Call(d), d # c PROVE Goal
  <2>1. \/ UNCHANGED <<data, entries, todo[c], best[c], baseTime[c], pc[c]>> /\ c \notin disturbed
        \/ Disturb /\ pc'[c] = pc[c]
    BY <1>0, <1>3
    DEF Call, BeginScan, FindNoEntry, EndScan, Finish, ReportCallMsg, VisitGone, VisitBlank,
        VisitReport, SkipRemoved, Fail, Pick, registry, TypeOK
  <2>2. CASE Disturb /\ pc'[c] = pc[c]
    BY <1>0, <2>2 DEF Disturb, Scanning
  <2>3. CASE UNCHANGED <<data, entries, todo[c], best[c], baseTime[c], pc[c]>> /\ c \notin disturbed
    <3>1. c \in Scanning \ disturbed
      BY <1>0, <2>3 DEF Scanning
    <3> QED BY <2>3, <3>1, ScanUntouched
  <2> QED BY <2>1, <2>2, <2>3
<1>4. ASSUME Call(c) PROVE Goal
  <2>1. ASSUME BeginScan(c) PROVE Goal
    BY <1>0, <2>1 DEF BeginScan, PlaceInv, TypeOK, registry
  <2>2. ASSUME NEW s \in Services, VisitReport(c, s) PROVE Goal
    <3>1. c \in Scanning \ disturbed
      BY <1>0, <2>2 DEF VisitReport, Scanning
    <3>2. data[s] \in Reports /\ data[s].use \in 0 .. MaxUse /\ s \in entries
      BY <2>2, <3>1 DEF VisitReport, Reports, ScanInv
    <3>3. /\ todo'[c] = todo[c] \ {s} /\ data' = data /\ entries' = entries
          /\ IF data[s].use < baseTime[c] THEN best'[c] = s /\ baseTime'[c] = data[s].use
             ELSE best'[c] = best[c] /\ baseTime'[c] = baseTime[c]
      BY <1>0, <2>2 DEF VisitReport, TypeOK, registry
    <3>4. \A t \in entries \ todo[c] : data[t] \in Reports /\ baseTime[c] <= data[t].use
      BY <3>1 DEF ScanInv
    <3>5. \A t \in entries \ todo[c] : data[t].use \in 0 .. MaxUse
      BY <3>4 DEF Reports
    <3>6. baseTime[c] \in 0 .. MaxUse + 1
      BY <1>0 DEF TypeOK
    <3>7. todo'[c] \subseteq entries'
      BY <3>1, <3>3 DEF ScanInv
    <3>8. \A t \in entries' \ todo'[c] : data'[t] \in Reports /\ baseTime'[c] <= data'[t].use
      BY <3>2, <3>3, <3>4, <3>5, <3>6, ConstantsAssumption
    <3>9. IF best'[c] = NONE THEN baseTime'[c] = NoTime
          ELSE best'[c] \in entries' \ todo'[c] /\ data'[best'[c]].use = baseTime'[c]
      BY <2>2, <3>1, <3>2, <3>3, ConstantsAssumption DEF ScanInv, VisitReport
    <3> QED BY <3>7, <3>8, <3>9
  <2>3. ASSUME NEW s \in Services, SkipRemoved(c, s) PROVE Goal
    BY <1>0, <2>3 DEF SkipRemoved, Scanning, ScanInv, registry
  <2> QED
    BY <1>0, <1>4, <2>1, <2>2, <2>3
    DEF Call, FindNoEntry, EndScan, Finish, ReportCallMsg, VisitGone, VisitBlank, Fail, Pick, TypeOK
<1>5. ASSUME Job PROVE Goal
  <2>1. Disturb \/ UNCHANGED <<data, disturbed>>
    BY <1>5 DEF Job, JobBegin, JobList, JobEnd, JobBlank, JobReadGone, JobReadKeep, JobReadStale, registry
  <2>2. UNCHANGED <<entries, callers>>
    BY <1>5 DEF Job, JobBegin, JobList, JobEnd, JobBlank, JobReadGone, JobReadKeep, JobReadStale, registry
  <2>3. CASE UNCHANGED <<data, disturbed>>
    <3>1. c \in Scanning \ disturbed
      BY <1>0, <2>2, <2>3 DEF Scanning, callers
    <3> QED BY <2>2, <2>3, <3>1, ScanUntouched DEF callers
  <2> QED BY <1>2, <2>1, <2>2, <2>3 DEF callers
<1>6. CASE UNCHANGED vars
  <2>1. c \in Scanning \ disturbed
    BY <1>0, <1>6 DEF Scanning, vars, callers
  <2> QED BY <1>6, <2>1, ScanUntouched DEF vars, registry, callers
<1> QED
  BY <1>1, <1>2, <1>3, <1>4, <1>5, <1>6 DEF Next, Join, Leave, AddEntry, RemoveEntry, callers

\* While the job runs, what is stale by its reading of the clock stays so, and
\* nothing else becomes it: an age that has reached its bound is stale all along.
LEMMA StaleTicked ==
  ASSUME TypeOK, Tick, job # "idle", NEW s \in Services
  PROVE  IsStale(s)' <=> IsStale(s)
<1>1. elapsed' = elapsed + 1 /\ elapsed \in 0 .. MaxRound /\ elapsed' \in 0 .. MaxRound
  BY ConstantsAssumption DEF Tick, TypeOK
<1>2. CASE data[s] \in Reports
  <2>1. data'[s] = Older(data[s]) /\ data'[s] \in Reports
    BY <1>2, TickedData, OlderReport
  <2>2. data[s].age \in 0 .. MaxAge
    BY <1>2 DEF Reports
  <2>3. data'[s].age = IF data[s].age + 1 < MaxAge THEN data[s].age + 1 ELSE MaxAge
    BY <1>2, <2>1, OlderReport
  <2>4. data'[s].age - elapsed' > Staleness <=> data[s].age - elapsed > Staleness
    BY <1>1, <2>2, <2>3, Bounds, ConstantsAssumption
  <2> QED BY <1>2, <2>1, <2>4 DEF IsStale
<1>3. CASE data[s] \notin Reports
  BY <1>3, TickedData DEF IsStale
<1> QED BY <1>2, <1>3

\* A write to a node, by whomever, is a report that is not stale, or is noted.
LEMMA RoundNext == TypeOK /\ PlaceInv /\ RoundInv /\ [Next]_vars => RoundInv'
<1> SUFFICES ASSUME TypeOK, PlaceInv, RoundInv, [Next]_vars, (job \in {"reading", "blanking"})'
             PROVE  /\ \A s \in Services : IsStale(s)' => s \in touched' \cup nodes' \cup {node'}
                    /\ node' # NONE /\ data'[node'] \in Reports =>
                         IsStale(node)' \/ node' \in touched'
  BY DEF RoundInv
<1> DEFINE Goal == /\ \A s \in Services : IsStale(s)' => s \in touched' \cup nodes' \cup {node'}
                   /\ node' # NONE /\ data'[node'] \in Reports =>
                        IsStale(node)' \/ node' \in touched'
<1> USE ConstantsAssumption, DataAssumption
<1>1. ASSUME Tick PROVE Goal
  <2>1. job \in {"reading", "blanking"} /\ UNCHANGED <<touched, nodes, node>>
    BY <1>1 DEF Tick
  <2>2. \A s \in Services : IsStale(s)' <=> IsStale(s)
    BY <1>1, <2>1, StaleTicked
  <2>3. \A s \in Services : data'[s] \in Reports => data[s] \in Reports
    BY <1>1, TickedData
  <2>4. node # NONE => node \in Services /\ node' = node
    BY <2>1 DEF TypeOK
  <2>5. node # NONE => (IsStale(node)' <=> IsStale(node))
    BY <2>2, <2>4
  <2> QED BY <2>1, <2>2, <2>3, <2>4, <2>5 DEF RoundInv
<1>2. ASSUME UNCHANGED round, NEW s \in Services, NEW value,
             data' = [data EXCEPT ![s] = value],
             (value \notin Reports /\ touched' = touched) \/ touched' = touched \cup {s}
      PROVE  Goal
  <2>1. job \in {"reading", "blanking"} /\ UNCHANGED <<elapsed, nodes, node>>
    BY <1>2 DEF round
  <2>2. \A t \in Services \ {s} : data'[t] = data[t] /\ (IsStale(t)' <=> IsStale(t))
    BY <1>2, <2>1 DEF IsStale, TypeOK
  <2>3. (data'[s] \notin Reports /\ ~IsStale(s)') \/ s \in touched'
    BY <1>2 DEF IsStale, TypeOK
  <2>4. touched \subseteq touched'
    BY <1>2
  <2>5. ASSUME node' # NONE, data'[node'] \in Reports PROVE IsStale(node)' \/ node' \in touched'
    <3>1. node \in Services /\ node' = node /\ node # NONE
      BY <2>1, <2>5 DEF TypeOK
    <3>2. CASE node = s
      BY <2>3, <2>5, <3>1, <3>2
    <3>3. CASE node # s
      <4>1. data[node] \in Reports /\ (IsStale(node)' <=> IsStale(node))
        BY <2>2, <2>5, <3>1, <3>3
      <4> QED BY <2>1, <2>4, <3>1, <4>1 DEF RoundInv
    <3> QED BY <3>2, <3>3
  <2> QED BY <2>1, <2>2, <2>3, <2>4, <2>5 DEF RoundInv
<1>3. ASSUME UNCHANGED <<data, round, touched>> PROVE Goal
  BY <1>3 DEF round, RoundInv, IsStale
<1>4. ASSUME NEW c \in Callers, Call(c) PROVE Goal
  <2>1. ASSUME ReportCallMsg(c) PROVE Goal
    <3>1. best[c] \in Services
      BY <2>1 DEF ReportCallMsg, PlaceInv
    <3> QED BY <1>2, <1>3, <2>1, <3>1 DEF ReportCallMsg
  <2> QED
    BY <1>3, <1>4, <2>1
    DEF Call, BeginScan, FindNoEntry, EndScan, Finish, VisitGone, VisitBlank, VisitReport,
        SkipRemoved, Fail, Pick, registry
<1>5. ASSUME Job PROVE Goal
  <2>1. ASSUME JobList PROVE Goal
    BY <2>1 DEF JobList, EndRound, IsStale, registry, PlaceInv
  <2>2. ASSUME JobBlank PROVE Goal
    <3>1. /\ node \in Services /\ data' = [data EXCEPT ![node] = BLANK] /\ node' = NONE
          /\ UNCHANGED <<elapsed, nodes, touched>> /\ job = "blanking"
      BY <2>2 DEF JobBlank, EndRound, PlaceInv
    <3>2. \A s \in Services : IsStale(s)' => IsStale(s) /\ s # node
      BY <3>1 DEF IsStale, TypeOK
    <3> QED BY <3>1, <3>2 DEF RoundInv
  <2>3. ASSUME NEW s \in Services, JobReadKeep(s) PROVE Goal
    BY <2>3 DEF JobReadKeep, RoundInv, IsStale, PlaceInv, registry
  <2>4. ASSUME NEW s \in Services, JobReadStale(s) PROVE Goal
    BY <2>4 DEF JobReadStale, RoundInv, IsStale, PlaceInv, registry
  <2> QED BY <1>5, <2>1, <2>2, <2>3, <2>4 DEF Job, JobBegin, JobEnd, JobReadGone, EndRound
<1>6. CASE UNCHANGED vars
  BY <1>3, <1>6 DEF vars, registry
<1>7. ASSUME NEW s \in Services, Join(s) \/ Leave(s) PROVE Goal
  BY <1>2, <1>7 DEF Join, Leave
<1>8. ASSUME NEW s \in Services, AddEntry(s) \/ RemoveEntry(s) PROVE Goal
  BY <1>3, <1>8 DEF AddEntry, RemoveEntry
<1> QED BY <1>1, <1>4, <1>5, <1>6, <1>7, <1>8 DEF Next

\* At the start there is no provider, and nobody is doing anything.
LEMMA InitInv == Init => CallReportInv
<1> SUFFICES ASSUME Init PROVE CallReportInv
  OBVIOUS
<1>1. TypeOK
  BY Bounds, ConstantsAssumption DEF Init, TypeOK, Scanning
<1>2. PlaceInv /\ ScanInv /\ RoundInv
  BY DEF Init, PlaceInv, ScanInv, RoundInv, Scanning
<1> QED BY <1>1, <1>2 DEF CallReportInv

\* Every reachable state satisfies the inductive invariant.
THEOREM Invariance == Spec => []CallReportInv
<1>1. CallReportInv /\ [Next]_vars => CallReportInv'
  BY TypeNext, PlaceNext, ScanNext, RoundNext DEF CallReportInv
<1> QED BY InitInv, <1>1, PTL DEF Spec

\* The data of nodes, the map, the callers and the job keep their types.
THEOREM TypeCorrect == Spec => []TypeOK
<1>1. CallReportInv => TypeOK
  BY DEF CallReportInv
<1> QED BY Invariance, <1>1, PTL

\* loadBalancingRpcClient (lines 54 to 80) picks a provider without a report or one
\* of the fastest, if neither the map nor a node has changed during the scan.
THEOREM FastestHolds == Spec => PickIsFastest
<1>1. CallReportInv /\ [Next]_vars =>
        [\A c \in Callers :
           pc[c] = "scanning" /\ pc'[c] = "calling" /\ c \notin disturbed =>
              /\ best'[c] \in entries
              /\ \/ data[best'[c]] = BLANK
                 \/ \A s \in entries : data[s] # BLANK /\ data[best'[c]].use <= data[s].use]_vars
  <2> SUFFICES ASSUME CallReportInv, Next, NEW c \in Callers,
                      pc[c] = "scanning", pc'[c] = "calling", c \notin disturbed
               PROVE  /\ best'[c] \in entries
                      /\ \/ data[best'[c]] = BLANK
                         \/ \A s \in entries : data[s] # BLANK /\ data[best'[c]].use <= data[s].use
    OBVIOUS
  <2>1. c \in Scanning \ disturbed /\ TypeOK /\ ScanInv
    BY DEF Scanning, CallReportInv
  <2>2. (\E s \in Services : VisitBlank(c, s)) \/ (EndScan(c) /\ best[c] # NONE)
    BY <2>1
    DEF Next, Tick, Join, Leave, AddEntry, RemoveEntry, Job, JobBegin, JobList, JobEnd, JobBlank,
        JobReadGone, JobReadKeep, JobReadStale, Call, BeginScan, FindNoEntry, EndScan, Finish,
        ReportCallMsg, VisitGone, VisitBlank, VisitReport, SkipRemoved, Fail, Pick, callers, TypeOK
  <2>3. CASE \E s \in Services : VisitBlank(c, s)
    BY <2>1, <2>3 DEF VisitBlank, Pick, TypeOK, ScanInv
  <2>4. CASE EndScan(c) /\ best[c] # NONE
    <3>1. best'[c] = best[c] /\ todo[c] = {}
      BY <2>1, <2>4 DEF EndScan, Pick, TypeOK
    <3>2. best[c] \in entries /\ \A s \in entries : data[s] \in Reports /\ data[best[c]].use <= data[s].use
      BY <2>1, <2>4, <3>1 DEF ScanInv
    <3> QED BY <3>1, <3>2, DataAssumption
  <2> QED BY <2>2, <2>3, <2>4
<1> QED BY Invariance, <1>1, PTL DEF Spec, PickIsFastest

\* A call fails only because there is no provider, one has just gone, or the scan
\* was disturbed: however slow, a provider that stays is found (lines 56 and 75 to 79).
THEOREM CauseHolds == Spec => FailsForCause
<1>1. CallReportInv /\ [Next]_vars =>
        [\A c \in Callers :
           pc'[c] = "idle" /\ outcome'[c] \in {"noNode", "noProvider"}
               /\ <<pc[c], outcome[c]>> # <<pc'[c], outcome'[c]>> =>
              entries = {} \/ departed # {} \/ c \in disturbed]_vars
  <2> SUFFICES ASSUME CallReportInv, Next, NEW c \in Callers,
                      pc'[c] = "idle", outcome'[c] \in {"noNode", "noProvider"},
                      <<pc[c], outcome[c]>> # <<pc'[c], outcome'[c]>>,
                      entries # {}, c \notin disturbed
               PROVE  departed # {}
    OBVIOUS
  <2>1. TypeOK /\ PlaceInv /\ ScanInv
    BY DEF CallReportInv
  <2>2. (\E s \in Services : VisitGone(c, s)) \/ (EndScan(c) /\ best[c] = NONE)
    BY <2>1
    DEF Next, Tick, Join, Leave, AddEntry, RemoveEntry, Job, JobBegin, JobList, JobEnd, JobBlank,
        JobReadGone, JobReadKeep, JobReadStale, Call, BeginScan, FindNoEntry, EndScan, Finish,
        ReportCallMsg, VisitGone, VisitBlank, VisitReport, SkipRemoved, Fail, Pick, callers, TypeOK
  <2>3. c \in Scanning \ disturbed
    BY <2>2 DEF VisitGone, EndScan, Scanning
  <2>4. CASE \E s \in Services : VisitGone(c, s)
    BY <2>1, <2>3, <2>4 DEF VisitGone, ScanInv, PlaceInv
  <2>5. CASE EndScan(c) /\ best[c] = NONE
    <3>1. PICK s \in entries : TRUE
      OBVIOUS
    <3>2. data[s] \in Reports /\ NoTime <= data[s].use
      BY <2>3, <2>5, <3>1, <2>1 DEF ScanInv, EndScan
    <3> QED BY <3>2, Bounds, ConstantsAssumption DEF Reports
  <2> QED BY <2>2, <2>4, <2>5
<1> QED BY Invariance, <1>1, PTL DEF Spec, FailsForCause

\* A run of the job that reaches the end of its list (line 65) leaves no report
\* that was stale when it began.
THEOREM ThoroughHolds == Spec => RoundIsThorough
<1>1. CallReportInv /\ [Next]_vars =>
        [job = "reading" /\ nodes = {} /\ job' = "idle" =>
           \A s \in Services : IsStale(s) => s \in touched]_vars
  BY ConstantsAssumption DEF CallReportInv, PlaceInv, RoundInv
<1> QED BY Invariance, <1>1, PTL DEF Spec, RoundIsThorough

\* What the job's write (line 63) destroys is stale, or came while the job ran.
THEOREM RacedHolds == Spec => LostReportsRaced
<1>1. CallReportInv /\ [Next]_vars =>
        [job = "blanking" /\ data[node] \in Reports /\ data'[node] = BLANK =>
           IsStale(node) \/ node \in touched]_vars
  BY ConstantsAssumption DEF CallReportInv, PlaceInv, RoundInv
<1> QED BY Invariance, <1>1, PTL DEF Spec, LostReportsRaced
=============================================================================
