---------------------------- MODULE PipelineProofs ----------------------------
(***************************************************************************)
(* Proofs about what becomes of market data: the trading-day calendar, the *)
(* stock master, the calculator's averages, the detector's alerts and the  *)
(* executor's signals, and the composition of the nine components of       *)
(* MCPipeline.                                                             *)
(***************************************************************************)
EXTENDS MCPipeline, CollectorProofs, EventIngestProofs, WellFoundedInduction,
        NaturalsInduction

-----------------------------------------------------------------------------
(* KrxCalendar: the copies are real, and every change reaches them.        *)

CalTask == [pc: {"idle", "upsert", "query", "answer", "subscribe", "publish"},
            csv: [TradeDates -> Day], days: [TradeDates -> Day], rev: Nat]

\* A table nobody has written is empty, as the copy of a restarted pod is.
FirstRevision == calendarRev = 0 => krxCalendar = EmptyCalendar

\* A pod's start ends with its subscription, and while nothing fails the pod stays
\* subscribed.
StartsSubscribe ==
    \A p \in CalendarPods :
        /\ calTask[p]["start"].pc \in {"query", "answer", "subscribe", "idle"}
        /\ calendarFaults = 0 /\ calTask[p]["start"].pc = "idle" => p \in listening

\* Somebody has written and will announce it.
Writing(t) == t["sync"].pc \in {"upsert", "query", "answer", "publish"}
              \/ t["override"].pc \in {"query", "answer", "publish"}
\* The pod is about to read the table, or holds an answer that is up to date.
Reading(t, rev) == \E k \in TaskKinds : t[k].pc = "query" \/ (t[k].pc = "answer" /\ t[k].rev = rev)

\* While nothing fails, a pod that has not read the last change is going to.
ChangesAreComing ==
    calendarFaults = 0 => \A p \in CalendarPods \ deaf :
        \/ readRev[p] = calendarRev \/ calHints[p] > 0 \/ Reading(calTask[p], calendarRev)
        \/ \E q \in CalendarPods : Writing(calTask[q])

CalendarInv == CalendarTypeOK /\ CopiesAreReal /\ FirstRevision /\ StartsSubscribe /\ ChangesAreComing

LEMMA CalendarTypes ==
    /\ EmptyCalendar \in [TradeDates -> Day] /\ NoDay \in Day
    /\ CalIdle \in CalTask /\ CalIdle.pc = "idle" /\ {"start", "sync", "override"} \subseteq TaskKinds
    /\ NoCopy \in [days: [TradeDates -> Day], rev: Nat] /\ NoCopy.days = EmptyCalendar /\ NoCopy.rev = 0
    /\ \A pc \in {"idle", "upsert", "query", "answer", "subscribe", "publish"} :
         [CalIdle EXCEPT !.pc = pc] \in CalTask /\ [CalIdle EXCEPT !.pc = pc].pc = pc
<1>1. EmptyCalendar \in [TradeDates -> Day] /\ NoDay \in Day
  BY DEF EmptyCalendar, Day
<1> QED BY <1>1 DEF CalIdle, CalTask, NoCopy, TaskKinds

\* The tasks of a pod that has just started.
Started == [k \in TaskKinds |-> IF k = "start" THEN [CalIdle EXCEPT !.pc = "query"] ELSE CalIdle]
LEMMA StartedTasks ==
    /\ Started \in [TaskKinds -> CalTask] /\ Started["start"].pc = "query"
    /\ \A k \in TaskKinds : Started[k].pc # "answer"
BY CalendarTypes DEF Started

LEMMA CalendarInitInv == ASSUME CalendarInit PROVE CalendarInv
<1>1. \A p \in CalendarPods : calTask[p] = Started /\ dbDays[p] = NoCopy /\ readRev[p] = 0
  BY DEF CalendarInit, Started
<1>2. calTask \in [CalendarPods -> [TaskKinds -> CalTask]]
      /\ dbDays \in [CalendarPods -> [days: [TradeDates -> Day], rev: Nat]]
  BY StartedTasks, CalendarTypes DEF CalendarInit, Started
<1>3. CalendarTypeOK
  <2>1. /\ krxCalendar \in [TradeDates -> Day] /\ calendarRev \in Nat /\ readRev \in [CalendarPods -> Nat]
        /\ listening \subseteq CalendarPods /\ deaf \subseteq CalendarPods
        /\ calHints \in [CalendarPods -> Nat]
        /\ syncRun \in [CalendarPods -> {"none", "RUNNING", "SUCCESS", "FAILED"}]
        /\ calendarWrites \in 0..MaxCalendarWrites /\ calendarFaults \in 0..MaxCalendarFaults
    BY CalendarTypes, CalendarAssumption DEF CalendarInit
  <2> QED BY <1>2, <2>1 DEF CalendarTypeOK, CalTask
<1>4. CopiesAreReal /\ FirstRevision
  BY <1>1, StartedTasks, CalendarTypes DEF CalendarInit, CopiesAreReal, FirstRevision
<1>5. StartsSubscribe /\ ChangesAreComing
  BY <1>1, StartedTasks, CalendarTypes DEF CalendarInit, StartsSubscribe, ChangesAreComing
<1> QED BY <1>3, <1>4, <1>5 DEF CalendarInv

\* A step of one task of one pod.
Became(p, k, t) ==
    /\ calTask' \in [CalendarPods -> [TaskKinds -> CalTask]]
    /\ calTask'[p][k] = t
    /\ \A q \in CalendarPods : \A j \in TaskKinds :
         q # p \/ j # k => calTask'[q][j] = calTask[q][j]
    /\ \A q \in CalendarPods : q # p => calTask'[q] = calTask[q]
LEMMA TaskBecomes ==
    ASSUME CalendarInv, NEW p \in CalendarPods, NEW k \in TaskKinds, NEW t \in CalTask,
           calTask' = [calTask EXCEPT ![p][k] = t]
    PROVE  Became(p, k, t)
<1>1. calTask \in [CalendarPods -> [TaskKinds -> CalTask]]
  BY DEF CalendarInv, CalendarTypeOK, CalTask
<1> QED BY <1>1 DEF Became

LEMMA TasksTyped ==
    ASSUME CalendarInv
    PROVE  /\ calTask \in [CalendarPods -> [TaskKinds -> CalTask]]
           /\ \A p \in CalendarPods : \A k \in TaskKinds : calTask[p][k] \in CalTask
BY DEF CalendarInv, CalendarTypeOK, CalTask

LEMMA GotoBecomes ==
    ASSUME CalendarInv, NEW p \in CalendarPods, NEW k \in TaskKinds,
           NEW pc \in {"idle", "upsert", "query", "answer", "subscribe", "publish"}, CalGoto(p, k, pc)
    PROVE  \E t \in CalTask : t.pc = pc /\ calTask' = [calTask EXCEPT ![p][k] = t]
<1>1. PICK t : t = [calTask[p][k] EXCEPT !.pc = pc]
  OBVIOUS
<1>2. t \in CalTask /\ t.pc = pc /\ calTask' = [calTask EXCEPT ![p][k] = t]
  <2>1. calTask[p][k] \in CalTask
    BY TasksTyped
  <2>2. t \in CalTask /\ t.pc = pc
    BY <1>1, <2>1 DEF CalTask
  <2>3. calTask' = [calTask EXCEPT ![p][k] = t]
    BY <1>1 DEF CalGoto
  <2> QED BY <2>2, <2>3
<1> QED BY <1>2

\* The query is answered with the table as it is.
LEMMA QueryInv ==
    ASSUME CalendarInv, NEW p \in CalendarPods, NEW k \in TaskKinds, QueryCalendar(p, k)
    PROVE  CalendarInv'
<1>1. PICK t : /\ t = [calTask[p][k] EXCEPT !.pc = "answer", !.days = krxCalendar, !.rev = calendarRev]
               /\ calTask' = [calTask EXCEPT ![p][k] = t]
  BY DEF QueryCalendar
<1>2. t \in CalTask /\ t.pc = "answer" /\ t.days = krxCalendar /\ t.rev = calendarRev
  <2>1. calTask[p][k] \in CalTask /\ krxCalendar \in [TradeDates -> Day] /\ calendarRev \in Nat
    BY TasksTyped DEF CalendarInv, CalendarTypeOK
  <2> QED BY <1>1, <2>1 DEF CalTask
<1>14. Became(p, k, t)
  BY <1>1, <1>2, TaskBecomes
<1>3. /\ calTask' \in [CalendarPods -> [TaskKinds -> CalTask]] /\ calTask'[p][k] = t
      /\ \A q \in CalendarPods : \A j \in TaskKinds : q # p \/ j # k => calTask'[q][j] = calTask[q][j]
      /\ \A q \in CalendarPods : q # p => calTask'[q] = calTask[q]
  BY <1>14 DEF Became
<1>4. /\ calTask[p][k].pc = "query"
      /\ UNCHANGED <<tableVars, copyVars, listening, calHints, syncRun, deaf, calendarWrites, calendarFaults>>
  BY DEF QueryCalendar
<1>5. CalendarTypeOK'
  BY <1>3, <1>4 DEF CalendarInv, CalendarTypeOK, CalTask, tableVars, copyVars
<1>6. CopiesAreReal' /\ FirstRevision'
  <2>1. calendarRev \in Nat
    BY DEF CalendarInv, CalendarTypeOK
  <2>2. \A q \in CalendarPods : \A j \in TaskKinds : calTask'[q][j].pc = "answer" =>
             /\ calTask'[q][j].rev <= calendarRev
             /\ calTask'[q][j].rev = calendarRev => calTask'[q][j].days = krxCalendar
    BY <1>2, <1>3, <2>1 DEF CalendarInv, CopiesAreReal
  <2> QED BY <1>4, <2>2 DEF CalendarInv, CopiesAreReal, FirstRevision, tableVars, copyVars
<1>7. StartsSubscribe'
  BY <1>2, <1>3, <1>4, CalendarTypes DEF CalendarInv, StartsSubscribe
<1>8. \A q \in CalendarPods : /\ Reading(calTask[q], calendarRev) => Reading(calTask'[q], calendarRev)
                              /\ Writing(calTask[q]) => Writing(calTask'[q])
  BY <1>2, <1>3, <1>4, CalendarTypes DEF Reading, Writing
<1>9. ChangesAreComing'
  BY <1>4, <1>8 DEF CalendarInv, ChangesAreComing, tableVars, copyVars
<1> QED BY <1>5, <1>6, <1>7, <1>9 DEF CalendarInv

LEMMA AfterRefreshIs ==
    \A k \in TaskKinds : /\ AfterRefresh(k) \in {"idle", "subscribe", "publish"}
                         /\ k = "start" => AfterRefresh(k) = "subscribe"
                         /\ k \in {"sync", "override"} => AfterRefresh(k) = "publish"
BY DEF AfterRefresh

\* The answer replaces the copy.
LEMMA ApplyInv ==
    ASSUME CalendarInv, NEW p \in CalendarPods, NEW k \in TaskKinds, ApplyCalendar(p, k)
    PROVE  CalendarInv'
<1>1. PICK t : /\ t = [CalIdle EXCEPT !.pc = AfterRefresh(k)]
               /\ calTask' = [calTask EXCEPT ![p][k] = t]
  BY DEF ApplyCalendar
<1>2. t \in CalTask /\ t.pc = AfterRefresh(k) /\ t.pc \notin {"query", "answer"}
  BY <1>1, CalendarTypes, AfterRefreshIs
<1>14. Became(p, k, t)
  BY <1>1, <1>2, TaskBecomes
<1>3. /\ calTask' \in [CalendarPods -> [TaskKinds -> CalTask]] /\ calTask'[p][k] = t
      /\ \A q \in CalendarPods : \A j \in TaskKinds : q # p \/ j # k => calTask'[q][j] = calTask[q][j]
      /\ \A q \in CalendarPods : q # p => calTask'[q] = calTask[q]
  BY <1>14 DEF Became
<1>4. PICK rev \in Nat, days \in [TradeDates -> Day] :
        /\ rev = calTask[p][k].rev /\ days = calTask[p][k].days
        /\ calTask[p][k].pc = "answer"
        /\ dbDays' = [dbDays EXCEPT ![p] = [days |-> days, rev |-> rev]]
        /\ readRev' = [readRev EXCEPT ![p] = IF readRev[p] < rev THEN rev ELSE readRev[p]]
        /\ deaf' = IF rev = calendarRev THEN deaf \ {p} ELSE deaf
        /\ UNCHANGED <<tableVars, listening, calHints, syncRun, calendarWrites, calendarFaults>>
  BY TasksTyped DEF ApplyCalendar, CalTask
<1>5. rev <= calendarRev /\ (rev = calendarRev => days = krxCalendar) /\ calendarRev \in Nat
  BY <1>4 DEF CalendarInv, CopiesAreReal, CalendarTypeOK
<1>6. /\ dbDays' \in [CalendarPods -> [days: [TradeDates -> Day], rev: Nat]]
      /\ dbDays'[p].rev = rev /\ dbDays'[p].days = days
      /\ \A q \in CalendarPods : q # p => dbDays'[q] = dbDays[q] /\ readRev'[q] = readRev[q]
      /\ readRev' \in [CalendarPods -> Nat] /\ readRev'[p] >= rev /\ readRev'[p] >= readRev[p]
      /\ readRev'[p] <= calendarRev /\ (readRev[p] = calendarRev => readRev'[p] = calendarRev)
  BY <1>4, <1>5 DEF CalendarInv, CalendarTypeOK, CopiesAreReal
<1>7. CalendarTypeOK'
  BY <1>3, <1>4, <1>6 DEF CalendarInv, CalendarTypeOK, CalTask, tableVars
<1>8. CopiesAreReal' /\ FirstRevision'
  <2>1. FirstRevision'
    BY <1>4 DEF CalendarInv, FirstRevision, tableVars
  <2>2. \A q \in CalendarPods : \A j \in TaskKinds : calTask'[q][j].pc = "answer" =>
             /\ calTask'[q][j].rev <= calendarRev
             /\ calTask'[q][j].rev = calendarRev => calTask'[q][j].days = krxCalendar
    BY <1>2, <1>3 DEF CalendarInv, CopiesAreReal
  <2>3. \A q \in CalendarPods :
        /\ dbDays'[q].rev <= readRev'[q] /\ readRev'[q] <= calendarRev
        /\ dbDays'[q].rev = calendarRev => dbDays'[q].days = krxCalendar
    BY <1>5, <1>6 DEF CalendarInv, CopiesAreReal
  <2> QED BY <1>4, <2>1, <2>2, <2>3 DEF CopiesAreReal, tableVars
<1>9. StartsSubscribe'
  BY <1>2, <1>3, <1>4, CalendarTypes, AfterRefreshIs DEF CalendarInv, StartsSubscribe
<1>10. \A q \in CalendarPods : Writing(calTask[q]) => Writing(calTask'[q])
  BY <1>2, <1>3, <1>4, CalendarTypes, AfterRefreshIs DEF Writing
<1>11. \A q \in CalendarPods : Reading(calTask[q], calendarRev) =>
          Reading(calTask'[q], calendarRev) \/ (q = p /\ rev = calendarRev)
  BY <1>2, <1>3, <1>4 DEF Reading
<1>12. rev = calendarRev => readRev'[p] = calendarRev
  <2>1. readRev'[p] \in Nat /\ readRev'[p] >= rev /\ readRev'[p] <= calendarRev
    BY <1>6
  <2> QED BY <1>5, <2>1
<1>13. ChangesAreComing'
  <2> SUFFICES ASSUME calendarFaults = 0, NEW q \in CalendarPods \ deaf'
               PROVE  \/ readRev'[q] = calendarRev \/ calHints[q] > 0 \/ Reading(calTask'[q], calendarRev)
                      \/ \E r \in CalendarPods : Writing(calTask'[r])
    BY <1>4 DEF ChangesAreComing, tableVars
  <2>1. CASE q \in deaf
    BY <1>4, <1>12, <2>1
  <2>2. CASE q \notin deaf
    BY <1>6, <1>10, <1>11, <1>12, <2>2 DEF CalendarInv, ChangesAreComing
  <2> QED BY <2>1, <2>2
<1> QED BY <1>7, <1>8, <1>9, <1>13 DEF CalendarInv

\* A step that fails: nothing is promised of changes from then on.
LEMMA CalendarFaults ==
    ASSUME CalendarInv, CalendarFault
    PROVE  calendarFaults' \in 0..MaxCalendarFaults /\ calendarFaults' # 0
BY CalendarAssumption DEF CalendarInv, CalendarTypeOK, CalendarFault

\* A step of one task that touches neither the table nor a copy nor the revisions.
LEMMA TaskOnly ==
    ASSUME CalendarInv, CalendarTypeOK', NEW p \in CalendarPods, NEW k \in TaskKinds, NEW t \in CalTask,
           Became(p, k, t), t.pc # "answer", UNCHANGED <<tableVars, copyVars>>
    PROVE  CopiesAreReal' /\ FirstRevision'
<1>1. \A q \in CalendarPods : \A j \in TaskKinds : calTask'[q][j].pc = "answer" =>
             calTask'[q][j] = calTask[q][j]
  BY DEF Became
<1> QED BY <1>1 DEF CalendarInv, CopiesAreReal, FirstRevision, tableVars, copyVars

LEMMA RefreshFailsInv ==
    ASSUME CalendarInv, NEW p \in CalendarPods, NEW k \in TaskKinds, RefreshFails(p, k)
    PROVE  CalendarInv'
<1>1. PICK t \in CalTask : /\ t.pc = AfterRefresh(k) /\ t.pc \notin {"query", "answer"}
                           /\ calTask' = [calTask EXCEPT ![p][k] = t]
  <2>1. PICK pc \in {"idle", "subscribe", "publish"} : pc = AfterRefresh(k) /\ CalGoto(p, k, pc)
    BY AfterRefreshIs DEF RefreshFails
  <2> QED BY <2>1, GotoBecomes
<1>2. Became(p, k, t)
  BY <1>1, TaskBecomes
<1>3. /\ calendarFaults' \in 0..MaxCalendarFaults /\ calendarFaults' # 0
      /\ UNCHANGED <<tableVars, copyVars, listening, calHints, syncRun, deaf, calendarWrites>>
  BY CalendarFaults DEF RefreshFails
<1>4. CalendarTypeOK'
  BY <1>2, <1>3 DEF CalendarInv, CalendarTypeOK, CalTask, Became, tableVars, copyVars
<1>5. CopiesAreReal' /\ FirstRevision'
  BY <1>1, <1>2, <1>3, <1>4, TaskOnly
<1>6. StartsSubscribe' /\ ChangesAreComing'
  BY <1>1, <1>2, <1>3, CalendarTypes, AfterRefreshIs DEF CalendarInv, StartsSubscribe, ChangesAreComing, Became
<1> QED BY <1>4, <1>5, <1>6 DEF CalendarInv

LEMMA SubscribeInv ==
    ASSUME CalendarInv, NEW p \in CalendarPods, CalendarSubscribe(p)
    PROVE  CalendarInv'
<1>1. PICK t \in CalTask : t.pc = "idle" /\ calTask' = [calTask EXCEPT ![p]["start"] = t]
  BY GotoBecomes, CalendarTypes DEF CalendarSubscribe
<1>2. Became(p, "start", t) /\ "start" \in TaskKinds
  BY <1>1, TaskBecomes, CalendarTypes
<1>3. /\ calTask[p]["start"].pc = "subscribe"
      /\ UNCHANGED <<tableVars, copyVars, calHints, syncRun, deaf, calendarWrites>>
      /\ \/ listening' = listening \cup {p} /\ calendarFaults' = calendarFaults
         \/ /\ calendarFaults' \in 0..MaxCalendarFaults /\ calendarFaults' # 0
            /\ listening' = listening
  BY CalendarFaults DEF CalendarSubscribe
<1>4. CalendarTypeOK'
  BY <1>2, <1>3 DEF CalendarInv, CalendarTypeOK, CalTask, Became, tableVars, copyVars
<1>5. CopiesAreReal' /\ FirstRevision'
  BY <1>1, <1>2, <1>3, <1>4, TaskOnly
<1>6. StartsSubscribe'
  BY <1>1, <1>2, <1>3, CalendarTypes DEF CalendarInv, StartsSubscribe, Became
<1>7. \A q \in CalendarPods : /\ Writing(calTask[q]) => Writing(calTask'[q])
                              /\ Reading(calTask[q], calendarRev) => Reading(calTask'[q], calendarRev)
  BY <1>1, <1>2, <1>3, CalendarTypes DEF Writing, Reading, Became
<1>8. ChangesAreComing'
  BY <1>3, <1>7 DEF CalendarInv, ChangesAreComing, tableVars, copyVars
<1> QED BY <1>4, <1>5, <1>6, <1>8 DEF CalendarInv

\* The announcement: who listens gets a hint, who has read but does not listen yet is
\* deaf, and who has not read is about to.
LEMMA PublishInv ==
    ASSUME CalendarInv, NEW p \in CalendarPods, NEW k \in TaskKinds, PublishCalendarChanged(p, k)
    PROVE  CalendarInv'
<1>1. PICK t \in CalTask : t.pc = "idle" /\ calTask' = [calTask EXCEPT ![p][k] = t]
  BY GotoBecomes DEF PublishCalendarChanged
<1>2. Became(p, k, t)
  BY <1>1, TaskBecomes
<1>3. /\ calTask[p][k].pc = "publish"
      /\ UNCHANGED <<tableVars, copyVars, listening, syncRun, calendarWrites>>
      /\ \/ /\ calHints' = [q \in CalendarPods |-> calHints[q] + IF q \in listening THEN 1 ELSE 0]
            /\ deaf' = deaf \cup {q \in CalendarPods : calTask[q]["start"].pc \in {"answer", "subscribe"}}
            /\ calendarFaults' = calendarFaults
         \/ /\ calendarFaults' \in 0..MaxCalendarFaults /\ calendarFaults' # 0
            /\ UNCHANGED <<calHints, deaf>>
  BY CalendarFaults DEF PublishCalendarChanged
<1>4. CalendarTypeOK'
  <2>2. calHints \in [CalendarPods -> Nat] /\ deaf \subseteq CalendarPods
        /\ calendarFaults \in 0..MaxCalendarFaults
    BY DEF CalendarInv, CalendarTypeOK
  <2>1. calHints' \in [CalendarPods -> Nat] /\ deaf' \subseteq CalendarPods
        /\ calendarFaults' \in 0..MaxCalendarFaults
    BY <1>3, <2>2
  <2> QED BY <1>2, <1>3, <2>1 DEF CalendarInv, CalendarTypeOK, CalTask, Became, tableVars, copyVars
<1>5. CopiesAreReal' /\ FirstRevision'
  BY <1>1, <1>2, <1>3, <1>4, TaskOnly
<1>6. StartsSubscribe'
  BY <1>1, <1>2, <1>3, CalendarTypes DEF CalendarInv, StartsSubscribe, Became
<1>7. ChangesAreComing'
  <2> SUFFICES ASSUME calendarFaults' = 0, NEW q \in CalendarPods \ deaf'
               PROVE  calHints'[q] > 0 \/ Reading(calTask'[q], calendarRev)
    BY <1>3 DEF ChangesAreComing, tableVars, copyVars
  <2>1. /\ calHints' = [r \in CalendarPods |-> calHints[r] + IF r \in listening THEN 1 ELSE 0]
        /\ q \notin deaf /\ calTask[q]["start"].pc \notin {"answer", "subscribe"}
        /\ calendarFaults = 0
    BY <1>3
  <2>2. CASE q \in listening
    BY <2>1, <2>2 DEF CalendarInv, CalendarTypeOK
  <2>3. CASE q \notin listening
    <3>1. calTask[q]["start"].pc = "query"
      BY <2>1, <2>3 DEF CalendarInv, StartsSubscribe
    <3>2. calTask'[q]["start"].pc = "query" /\ "start" \in TaskKinds
      BY <1>2, <1>3, <3>1, CalendarTypes DEF Became
    <3> QED BY <3>2 DEF Reading
  <2> QED BY <2>2, <2>3
<1> QED BY <1>4, <1>5, <1>6, <1>7 DEF CalendarInv

LEMMA ChangedInv ==
    ASSUME CalendarInv, NEW p \in CalendarPods, NEW k \in TaskKinds, CalendarChanged(p, k)
    PROVE  CalendarInv'
<1>1. PICK t \in CalTask : t.pc = "query" /\ calTask' = [calTask EXCEPT ![p][k] = t]
  BY GotoBecomes DEF CalendarChanged
<1>2. Became(p, k, t)
  BY <1>1, TaskBecomes
<1>3. /\ calTask[p][k].pc = "idle" /\ calHints[p] > 0 /\ k \notin {"start", "sync", "override"}
      /\ calHints' = [calHints EXCEPT ![p] = calHints[p] - 1]
      /\ UNCHANGED <<tableVars, copyVars, listening, syncRun, deaf, calendarWrites, calendarFaults>>
  BY CalendarAssumption DEF CalendarChanged
<1>4. CalendarTypeOK'
  <2>1. calHints' \in [CalendarPods -> Nat]
    BY <1>3 DEF CalendarInv, CalendarTypeOK
  <2> QED BY <1>2, <1>3, <2>1 DEF CalendarInv, CalendarTypeOK, CalTask, Became, tableVars, copyVars
<1>5. CopiesAreReal' /\ FirstRevision'
  BY <1>1, <1>2, <1>3, <1>4, TaskOnly
<1>6. StartsSubscribe'
  BY <1>1, <1>2, <1>3, CalendarTypes DEF CalendarInv, StartsSubscribe, Became
<1>7. \A q \in CalendarPods : /\ Writing(calTask[q]) => Writing(calTask'[q])
                              /\ Reading(calTask[q], calendarRev) => Reading(calTask'[q], calendarRev)
  BY <1>1, <1>2, <1>3, CalendarTypes DEF Writing, Reading, Became
<1>8. Reading(calTask'[p], calendarRev) /\ \A q \in CalendarPods : q # p => calHints'[q] = calHints[q]
  BY <1>1, <1>2, <1>3 DEF Reading, Became, CalendarInv, CalendarTypeOK
<1>9. ChangesAreComing'
  BY <1>3, <1>7, <1>8 DEF CalendarInv, ChangesAreComing, tableVars, copyVars
<1> QED BY <1>4, <1>5, <1>6, <1>9 DEF CalendarInv

LEMMA CalendarCrashInv ==
    ASSUME CalendarInv, NEW p \in CalendarPods, CalendarPodCrash(p)
    PROVE  CalendarInv'
<1>1. /\ calTask' = [calTask EXCEPT ![p] = Started]
      /\ dbDays' = [dbDays EXCEPT ![p] = NoCopy] /\ readRev' = [readRev EXCEPT ![p] = 0]
      /\ listening' = listening \ {p} /\ calHints' = [calHints EXCEPT ![p] = 0]
      /\ UNCHANGED <<tableVars, syncRun, deaf, calendarWrites>>
      /\ calendarFaults' \in 0..MaxCalendarFaults /\ calendarFaults' # 0
  BY CalendarFaults DEF CalendarPodCrash, Started
<1>2. /\ calTask' \in [CalendarPods -> [TaskKinds -> CalTask]] /\ calTask'[p] = Started
      /\ \A q \in CalendarPods : q # p => calTask'[q] = calTask[q]
  BY <1>1, TasksTyped, StartedTasks
<1>3. /\ dbDays' \in [CalendarPods -> [days: [TradeDates -> Day], rev: Nat]] /\ dbDays'[p] = NoCopy
      /\ readRev' \in [CalendarPods -> Nat] /\ readRev'[p] = 0
      /\ \A q \in CalendarPods : q # p => dbDays'[q] = dbDays[q] /\ readRev'[q] = readRev[q]
      /\ calHints' \in [CalendarPods -> Nat] /\ listening' \subseteq CalendarPods /\ calendarRev \in Nat
  BY <1>1, CalendarTypes DEF CalendarInv, CalendarTypeOK
<1>4. CalendarTypeOK'
  BY <1>1, <1>2, <1>3 DEF CalendarInv, CalendarTypeOK, CalTask, tableVars
<1>5. FirstRevision'
  BY <1>1 DEF CalendarInv, FirstRevision, tableVars
<1>6. CopiesAreReal'
  <2> SUFFICES ASSUME NEW q \in CalendarPods
               PROVE  /\ dbDays'[q].rev <= readRev'[q] /\ readRev'[q] <= calendarRev
                      /\ dbDays'[q].rev = calendarRev => dbDays'[q].days = krxCalendar
                      /\ \A j \in TaskKinds : calTask'[q][j].pc = "answer" =>
                           /\ calTask'[q][j].rev <= calendarRev
                           /\ calTask'[q][j].rev = calendarRev => calTask'[q][j].days = krxCalendar
    BY <1>1 DEF CopiesAreReal, tableVars
  <2>1. CASE q = p
    BY <1>2, <1>3, <2>1, StartedTasks, CalendarTypes DEF CalendarInv, FirstRevision
  <2>2. CASE q # p
    <3>1. dbDays'[q] = dbDays[q] /\ readRev'[q] = readRev[q] /\ calTask'[q] = calTask[q]
      BY <1>2, <1>3, <2>2
    <3>2. /\ dbDays[q].rev <= readRev[q] /\ readRev[q] <= calendarRev
          /\ dbDays[q].rev = calendarRev => dbDays[q].days = krxCalendar
          /\ \A j \in TaskKinds : calTask[q][j].pc = "answer" =>
               /\ calTask[q][j].rev <= calendarRev
               /\ calTask[q][j].rev = calendarRev => calTask[q][j].days = krxCalendar
      BY DEF CalendarInv, CopiesAreReal
    <3> QED BY <3>1, <3>2
  <2> QED BY <2>1, <2>2
<1>7. StartsSubscribe' /\ ChangesAreComing'
  BY <1>1, <1>2, StartedTasks DEF CalendarInv, StartsSubscribe, ChangesAreComing
<1> QED BY <1>4, <1>5, <1>6, <1>7 DEF CalendarInv

\* A row is written: whoever had the table of before does not have the revision of now.
LEMMA DayWritten ==
    ASSUME CalendarInv, CalendarTypeOK', NEW d \in TradeDates, NEW day \in Day \ {NoDay}, UpsertDay(d, day),
           UNCHANGED copyVars,
           \A q \in CalendarPods : \A j \in TaskKinds : calTask'[q][j].pc = "answer" =>
               calTask'[q][j] = calTask[q][j]
    PROVE  CopiesAreReal' /\ FirstRevision'
<1>1. /\ calendarRev \in Nat /\ dbDays \in [CalendarPods -> [days: [TradeDates -> Day], rev: Nat]]
      /\ readRev \in [CalendarPods -> Nat] /\ krxCalendar \in [TradeDates -> Day]
      /\ \A q \in CalendarPods : \A j \in TaskKinds : calTask[q][j].rev \in Nat
  BY DEF CalendarInv, CalendarTypeOK
<1>2. CASE day = krxCalendar[d]
  <2>1. krxCalendar' = krxCalendar /\ calendarRev' = calendarRev
    BY <1>1, <1>2 DEF UpsertDay
  <2> QED BY <2>1 DEF CalendarInv, CopiesAreReal, FirstRevision, copyVars
<1>3. CASE day # krxCalendar[d]
  <2>1. calendarRev' = calendarRev + 1
    BY <1>3 DEF UpsertDay
  <2>2. FirstRevision'
    BY <1>1, <2>1 DEF FirstRevision
  <2>3. \A q \in CalendarPods : /\ dbDays[q].rev <= readRev[q] /\ readRev[q] <= calendarRev
                                /\ dbDays[q].rev \in Nat /\ readRev[q] \in Nat
    BY <1>1 DEF CalendarInv, CopiesAreReal
  <2>4. \A q \in CalendarPods : \A j \in TaskKinds : calTask[q][j].pc = "answer" =>
               calTask[q][j].rev <= calendarRev
    BY DEF CalendarInv, CopiesAreReal
  <2>5. \A q \in CalendarPods : /\ dbDays'[q].rev <= readRev'[q] /\ readRev'[q] <= calendarRev'
                                /\ dbDays'[q].rev # calendarRev'
    BY <1>1, <2>1, <2>3 DEF copyVars
  <2>6. \A q \in CalendarPods : \A j \in TaskKinds : calTask'[q][j].pc = "answer" =>
               calTask'[q][j].rev <= calendarRev' /\ calTask'[q][j].rev # calendarRev'
    BY <1>1, <2>1, <2>4
  <2> QED BY <2>2, <2>5, <2>6 DEF CopiesAreReal
<1> QED BY <1>2, <1>3

\* ... and the table keeps its type, and an override the override it is.
LEMMA DayTyped ==
    ASSUME CalendarInv, NEW d \in TradeDates, NEW day \in Day, UpsertDay(d, day)
    PROVE  /\ krxCalendar' \in [TradeDates -> Day] /\ calendarRev' \in Nat
           /\ krxCalendar'[d] = day
           /\ \A e \in TradeDates : e # d => krxCalendar'[e] = krxCalendar[e]
BY DEF UpsertDay, CalendarInv, CalendarTypeOK

LEMMA SyncedIs ==
    ASSUME NEW old \in Day, NEW kind \in DayKinds
    PROVE  /\ SyncedDay(old, kind) \in Day \ {NoDay}
           /\ old.source = "manual_override" => SyncedDay(old, kind) = old
BY DEF SyncedDay, Day, NoDay

LEMMA CsvRows ==
    ASSUME NEW csv \in CalendarFiles
    PROVE  Rows(csv) \in [TradeDates -> Day]
BY CalendarAssumption DEF Rows, Day

LEMMA SyncStartInv ==
    ASSUME CalendarInv, NEW p \in CalendarPods, SyncStart(p)
    PROVE  CalendarInv'
<1>1. PICK csv \in CalendarFiles :
        calTask' = [calTask EXCEPT ![p]["sync"] = [CalIdle EXCEPT !.pc = "upsert", !.csv = Rows(csv)]]
  BY DEF SyncStart
<1>2. PICK t \in CalTask : t.pc = "upsert" /\ calTask' = [calTask EXCEPT ![p]["sync"] = t]
  <2> DEFINE u == [CalIdle EXCEPT !.pc = "upsert", !.csv = Rows(csv)]
  <2>1. CalIdle \in CalTask /\ Rows(csv) \in [TradeDates -> Day]
    BY CsvRows, CalendarTypes DEF CalIdle, CalTask
  <2>2. u \in CalTask /\ u.pc = "upsert"
    BY <2>1 DEF CalTask
  <2> QED BY <1>1, <2>2
<1>3. Became(p, "sync", t) /\ "sync" \in TaskKinds
  BY <1>2, TaskBecomes, CalendarTypes
<1>4. /\ calTask[p]["sync"].pc = "idle" /\ calendarWrites' \in 0..MaxCalendarWrites
      /\ syncRun' = [syncRun EXCEPT ![p] = "RUNNING"]
      /\ UNCHANGED <<tableVars, copyVars, listening, calHints, deaf, calendarFaults>>
  BY CalendarAssumption DEF SyncStart, CalendarInv, CalendarTypeOK
<1>5. CalendarTypeOK'
  BY <1>3, <1>4 DEF CalendarInv, CalendarTypeOK, CalTask, Became, tableVars, copyVars
<1>6. CopiesAreReal' /\ FirstRevision'
  BY <1>2, <1>3, <1>4, <1>5, TaskOnly
<1>7. StartsSubscribe'
  BY <1>2, <1>3, <1>4, CalendarTypes DEF CalendarInv, StartsSubscribe, Became
<1>8. Writing(calTask'[p])
  BY <1>2, <1>3 DEF Writing, Became
<1>9. ChangesAreComing'
  BY <1>8 DEF ChangesAreComing
<1> QED BY <1>5, <1>6, <1>7, <1>9 DEF CalendarInv

LEMMA SyncUpsertInv ==
    ASSUME CalendarInv, NEW p \in CalendarPods, SyncUpsert(p)
    PROVE  CalendarInv' /\ OverrideKept
<1>1. PICK csv \in [TradeDates -> Day] : csv = calTask[p]["sync"].csv
  BY TasksTyped, CalendarTypes DEF CalTask
<1>2. PICK d : d = CHOOSE e \in Unwritten(csv) : \A f \in Unwritten(csv) : e <= f
  OBVIOUS
<1>3. /\ calTask[p]["sync"].pc = "upsert" /\ Unwritten(csv) # {}
      /\ UpsertDay(d, SyncedDay(krxCalendar[d], csv[d].kind))
      /\ calTask' = [calTask EXCEPT ![p]["sync"].csv[d] = NoDay]
      /\ UNCHANGED <<copyVars, listening, calHints, syncRun, deaf, calendarWrites, calendarFaults>>
  BY <1>1, <1>2 DEF SyncUpsert
<1>4. d \in TradeDates /\ csv[d] # NoDay
  <2>1. Unwritten(csv) \subseteq Nat
    BY CalendarAssumption DEF Unwritten
  <2>2. PICK e \in Unwritten(csv) : \A f \in Unwritten(csv) : ~(<<f, e>> \in OpToRel(<, Nat))
    BY <1>3, <2>1, NatLessThanWellFounded, WFMin
  <2>3. ASSUME NEW f \in Unwritten(csv) PROVE e <= f
    <3>1. ~(f < e)
      BY <2>1, <2>2 DEF OpToRel
    <3> QED BY <2>1, <3>1
  <2>4. d \in Unwritten(csv)
    BY <1>2, <2>3
  <2> QED BY <2>4 DEF Unwritten
<1>5. PICK day \in Day \ {NoDay} :
        UpsertDay(d, day) /\ (krxCalendar[d].source = "manual_override" => day = krxCalendar[d])
  <2>1. krxCalendar[d] \in Day /\ csv[d].kind \in DayKinds
    BY <1>4 DEF CalendarInv, CalendarTypeOK, Day
  <2> QED BY <1>3, <2>1, SyncedIs
<1>6. PICK t : /\ t = [calTask[p]["sync"] EXCEPT !.csv[d] = NoDay]
               /\ calTask' = [calTask EXCEPT ![p]["sync"] = t]
  BY <1>3
<1>7. t \in CalTask /\ t.pc = "upsert"
  <2>1. calTask[p]["sync"] \in CalTask /\ [csv EXCEPT ![d] = NoDay] \in [TradeDates -> Day]
    BY <1>1, TasksTyped, CalendarTypes
  <2>2. t = [calTask[p]["sync"] EXCEPT !.csv = [csv EXCEPT ![d] = NoDay]]
    BY <1>1, <1>6
  <2> QED BY <1>3, <2>1, <2>2 DEF CalTask
<1>8. Became(p, "sync", t) /\ "sync" \in TaskKinds
  BY <1>6, <1>7, TaskBecomes, CalendarTypes
<1>9. /\ krxCalendar' \in [TradeDates -> Day] /\ calendarRev' \in Nat /\ krxCalendar'[d] = day
      /\ \A e \in TradeDates : e # d => krxCalendar'[e] = krxCalendar[e]
  BY <1>4, <1>5, DayTyped
<1>10. CalendarTypeOK'
  BY <1>3, <1>8, <1>9 DEF CalendarInv, CalendarTypeOK, CalTask, Became, copyVars
<1>11. CopiesAreReal' /\ FirstRevision'
  <2>1. \A q \in CalendarPods : \A j \in TaskKinds : calTask'[q][j].pc = "answer" =>
               calTask'[q][j] = calTask[q][j]
    BY <1>7, <1>8 DEF Became
  <2> QED BY <1>3, <1>4, <1>5, <1>10, <2>1, DayWritten
<1>12. StartsSubscribe'
  BY <1>3, <1>8, CalendarTypes DEF CalendarInv, StartsSubscribe, Became
<1>13. ChangesAreComing'
  BY <1>7, <1>8 DEF ChangesAreComing, Writing, Became
<1> QED BY <1>5, <1>9, <1>10, <1>11, <1>12, <1>13 DEF CalendarInv, OverrideKept

LEMMA SyncEndsInv ==
    ASSUME CalendarInv, NEW p \in CalendarPods, SyncFinish(p) \/ SyncFails(p)
    PROVE  CalendarInv'
<1>1. PICK t \in CalTask : /\ calTask' = [calTask EXCEPT ![p]["sync"] = t]
                           /\ t.pc = "query" \/ (t.pc = "idle" /\ calendarFaults' # 0)
  <2>1. CASE SyncFinish(p)
    BY <2>1, GotoBecomes, CalendarTypes DEF SyncFinish
  <2>2. CASE SyncFails(p)
    BY <2>2, CalendarTypes, CalendarFaults DEF SyncFails
  <2> QED BY <2>1, <2>2
<1>2. Became(p, "sync", t) /\ "sync" \in TaskKinds
  BY <1>1, TaskBecomes, CalendarTypes
<1>3. /\ UNCHANGED <<tableVars, copyVars, listening, calHints, deaf, calendarWrites>>
      /\ calendarFaults' \in 0..MaxCalendarFaults /\ (calendarFaults' = 0 => calendarFaults = 0)
      /\ syncRun' \in [CalendarPods -> {"none", "RUNNING", "SUCCESS", "FAILED"}]
  BY CalendarFaults DEF SyncFinish, SyncFails, CalendarInv, CalendarTypeOK
<1>4. CalendarTypeOK'
  BY <1>2, <1>3 DEF CalendarInv, CalendarTypeOK, CalTask, Became, tableVars, copyVars
<1>5. CopiesAreReal' /\ FirstRevision'
  BY <1>1, <1>2, <1>3, <1>4, TaskOnly
<1>6. StartsSubscribe'
  BY <1>2, <1>3, CalendarTypes DEF CalendarInv, StartsSubscribe, Became
<1>7. ChangesAreComing'
  BY <1>1, <1>2 DEF ChangesAreComing, Writing, Became
<1> QED BY <1>4, <1>5, <1>6, <1>7 DEF CalendarInv

LEMMA OverrideInv ==
    ASSUME CalendarInv, NEW p \in CalendarPods, NEW d \in TradeDates, NEW kind \in DayKinds,
           UpsertManualOverride(p, d, kind)
    PROVE  CalendarInv' /\ OverrideKept
<1>1. PICK t \in CalTask : t.pc = "query" /\ calTask' = [calTask EXCEPT ![p]["override"] = t]
  BY GotoBecomes, CalendarTypes DEF UpsertManualOverride
<1>2. Became(p, "override", t) /\ "override" \in TaskKinds
  BY <1>1, TaskBecomes, CalendarTypes
<1>3. PICK day \in Day \ {NoDay} : day.source = "manual_override" /\ UpsertDay(d, day)
  BY DEF UpsertManualOverride, Day, NoDay
<1>4. /\ calTask[p]["override"].pc = "idle" /\ calendarWrites' \in 0..MaxCalendarWrites
      /\ UNCHANGED <<copyVars, listening, calHints, syncRun, deaf, calendarFaults>>
  BY CalendarAssumption DEF UpsertManualOverride, CalendarInv, CalendarTypeOK
<1>5. /\ krxCalendar' \in [TradeDates -> Day] /\ calendarRev' \in Nat /\ krxCalendar'[d] = day
      /\ \A e \in TradeDates : e # d => krxCalendar'[e] = krxCalendar[e]
  BY <1>3, DayTyped
<1>6. CalendarTypeOK'
  BY <1>2, <1>4, <1>5 DEF CalendarInv, CalendarTypeOK, CalTask, Became, copyVars
<1>7. CopiesAreReal' /\ FirstRevision'
  <2>1. \A q \in CalendarPods : \A j \in TaskKinds : calTask'[q][j].pc = "answer" =>
               calTask'[q][j] = calTask[q][j]
    BY <1>1, <1>2 DEF Became
  <2> QED BY <1>3, <1>4, <1>6, <2>1, DayWritten
<1>8. StartsSubscribe'
  BY <1>2, <1>4, CalendarTypes DEF CalendarInv, StartsSubscribe, Became
<1>9. ChangesAreComing'
  BY <1>1, <1>2 DEF ChangesAreComing, Writing, Became
<1>10. OverrideKept
  BY <1>1, <1>2, <1>3, <1>4, <1>5 DEF OverrideKept, Became
<1> QED BY <1>6, <1>7, <1>8, <1>9, <1>10 DEF CalendarInv

LEMMA ImportInv ==
    ASSUME CalendarInv, NEW d \in TradeDates, NEW kind \in DayKinds, ImportDay(d, kind)
    PROVE  CalendarInv' /\ OverrideKept
<1>1. PICK day \in Day \ {NoDay} :
        UpsertDay(d, day) /\ (krxCalendar[d].source = "manual_override" => day = krxCalendar[d])
  <2>1. krxCalendar[d] \in Day
    BY DEF CalendarInv, CalendarTypeOK
  <2> QED BY <2>1, SyncedIs DEF ImportDay
<1>2. /\ calendarFaults' \in 0..MaxCalendarFaults /\ calendarFaults' # 0
      /\ UNCHANGED <<copyVars, calTask, listening, calHints, syncRun, deaf, calendarWrites>>
  BY CalendarFaults DEF ImportDay
<1>3. /\ krxCalendar' \in [TradeDates -> Day] /\ calendarRev' \in Nat /\ krxCalendar'[d] = day
      /\ \A e \in TradeDates : e # d => krxCalendar'[e] = krxCalendar[e]
  BY <1>1, DayTyped
<1>4. CalendarTypeOK'
  BY <1>2, <1>3 DEF CalendarInv, CalendarTypeOK, copyVars
<1>5. CopiesAreReal' /\ FirstRevision'
  BY <1>1, <1>2, <1>4, DayWritten
<1>6. StartsSubscribe' /\ ChangesAreComing'
  BY <1>2 DEF CalendarInv, StartsSubscribe, ChangesAreComing
<1> QED BY <1>1, <1>3, <1>4, <1>5, <1>6 DEF CalendarInv, OverrideKept

LEMMA CalendarStep ==
    ASSUME CalendarInv, [CalendarNext]_calendarVars PROVE CalendarInv' /\ OverrideKept
<1>1. ASSUME NEW p \in CalendarPods,
             CalendarSubscribe(p) \/ CalendarPodCrash(p) \/ SyncStart(p) \/ SyncFinish(p) \/ SyncFails(p)
      PROVE  CalendarInv' /\ krxCalendar' = krxCalendar
  <2>1. CalendarInv'
    BY <1>1, SubscribeInv, CalendarCrashInv, SyncStartInv, SyncEndsInv
  <2> QED BY <1>1, <2>1 DEF CalendarSubscribe, CalendarPodCrash, SyncStart, SyncFinish, SyncFails, tableVars
<1>2. ASSUME NEW p \in CalendarPods, NEW k \in TaskKinds,
             QueryCalendar(p, k) \/ ApplyCalendar(p, k) \/ RefreshFails(p, k)
               \/ PublishCalendarChanged(p, k) \/ CalendarChanged(p, k)
      PROVE  CalendarInv' /\ krxCalendar' = krxCalendar
  <2>1. CalendarInv'
    BY <1>2, QueryInv, ApplyInv, RefreshFailsInv, PublishInv, ChangedInv
  <2> QED BY <1>2, <2>1 DEF QueryCalendar, ApplyCalendar, RefreshFails, PublishCalendarChanged,
                            CalendarChanged, tableVars
<1>3. ASSUME NEW p \in CalendarPods, SyncUpsert(p) PROVE CalendarInv' /\ OverrideKept
  BY <1>3, SyncUpsertInv
<1>4. ASSUME NEW p \in CalendarPods, NEW o \in Overrides, UpsertManualOverride(p, o[1], o[2])
      PROVE  CalendarInv' /\ OverrideKept
  <2>1. o[1] \in TradeDates /\ o[2] \in DayKinds
    BY CalendarAssumption
  <2> QED BY <1>4, <2>1, OverrideInv
<1>5. ASSUME NEW csv \in CalendarFiles, NEW d \in TradeDates, ImportDay(d, csv[d])
      PROVE  CalendarInv' /\ OverrideKept
  <2>1. csv[d] \in DayKinds
    BY CalendarAssumption
  <2> QED BY <1>5, <2>1, ImportInv
<1>6. CASE UNCHANGED calendarVars
  BY <1>6 DEF calendarVars, CalendarInv, CalendarTypeOK, CopiesAreReal, FirstRevision, StartsSubscribe,
              ChangesAreComing, OverrideKept
<1>7. krxCalendar' = krxCalendar => OverrideKept
  BY DEF OverrideKept
<1> QED BY <1>1, <1>2, <1>3, <1>4, <1>5, <1>6, <1>7 DEF CalendarNext

\* Nothing in flight and nothing failed: every pod that is not deaf has read the last change.
LEMMA CalendarInvSafe == CalendarInv => CalendarTypeOK /\ CalendarSafe
<1>1. ASSUME CalendarInv, CalendarQuiet, calendarFaults = 0, NEW p \in CalendarPods \ deaf
      PROVE  readRev[p] = calendarRev
  <2>1. calHints[p] = 0 /\ ~Reading(calTask[p], calendarRev)
    BY <1>1 DEF CalendarQuiet, Reading
  <2>2. \A q \in CalendarPods : ~Writing(calTask[q])
    BY <1>1, CalendarTypes DEF CalendarQuiet, Writing
  <2> QED BY <1>1, <2>1, <2>2 DEF CalendarInv, ChangesAreComing
<1> QED BY <1>1 DEF CalendarInv, CalendarSafe, ChangesReachPods

\* KrxCalendar.CalendarSafe for any pods, dates, files, writers and overlapping
\* refreshes: a copy is a table the database had, and once everything in flight has
\* settled without a failure every pod has read the last change.
THEOREM CalendarIsSafe == CalendarSpec => [](CalendarTypeOK /\ CalendarSafe)
BY CalendarInitInv, CalendarStep, CalendarInvSafe, PTL DEF CalendarSpec

\* No sync and no import changes an operator's override (the WHERE of the upsert).
THEOREM OverridesAreKept == CalendarSpec => OverridesStand
<1>1. CalendarSpec => []CalendarInv
  BY CalendarInitInv, CalendarStep, PTL DEF CalendarSpec
<1>2. ASSUME CalendarInv, [CalendarNext]_calendarVars PROVE [OverrideKept]_calendarVars
  BY <1>2, CalendarStep
<1> QED BY <1>1, <1>2, PTL DEF CalendarSpec, OverridesStand

-----------------------------------------------------------------------------
(* StockMaster: a sync leaves no gap, and is_observed is the operators'.   *)

StockRun == [pc: {"idle", "resolve", "find", "write"}, entries: SUBSET Stocks,
             todo: SUBSET Stocks, found: BOOLEAN]

\* The row in hand, once found, is there until an operator deletes it.
FoundRowsExist ==
    \A p \in MasterPods :
        stockRun[p].pc = "write" /\ stockRun[p].found /\ RowInHand(p) \in Stocks =>
            stocks[RowInHand(p)] # "absent" \/ RowInHand(p) \in deletedStocks

\* Where reference data is seeded, the markets are there before a pod looks one up.
SeededFirst ==
    seeding => \A p \in MasterPods :
        /\ ensured[p] => markets = MarketCodes
        /\ stockRun[p].pc # "idle" => ensured[p]

StockInv ==
    StockTypeOK /\ PassedRowsExist /\ FoundRowsExist /\ SeededFirst /\ SeededMarketsKnown

LEMMA StockInitInv == ASSUME StockInit PROVE StockInv
<1>1. RunIdle \in StockRun /\ RunIdle.pc = "idle"
  BY DEF RunIdle, StockRun
<1>2. NothingCached \in [MarketCodes -> {"unset", "id", "null"}]
      /\ \A c \in MarketCodes : NothingCached[c] = "unset"
  BY DEF NothingCached
<1>3. /\ \A p \in MasterPods : stockRun[p] = RunIdle /\ marketIds[p] = NothingCached
      /\ stockRun \in [MasterPods -> StockRun]
      /\ marketIds \in [MasterPods -> [MarketCodes -> {"unset", "id", "null"}]]
      /\ \A p \in MasterPods : ~ensured[p]
  BY <1>1, <1>2 DEF StockInit
<1>4. StockTypeOK
  BY <1>3, StockAssumption DEF StockInit, StockTypeOK, StockRun
<1>5. PassedRowsExist /\ FoundRowsExist /\ SeededFirst /\ SeededMarketsKnown
  BY <1>1, <1>2, <1>3 DEF PassedRowsExist, FoundRowsExist, SeededFirst, SeededMarketsKnown
<1> QED BY <1>4, <1>5 DEF StockInv

\* What a pod's own step may do to its run: the others look at nothing of it, as
\* long as rows only vanish by the hand of an operator and no market is dropped.
LEMMA MasterStep ==
    ASSUME StockInv, StockTypeOK', NEW p \in MasterPods,
           \A q \in MasterPods : q # p =>
               stockRun'[q] = stockRun[q] /\ marketIds'[q] = marketIds[q] /\ ensured'[q] = ensured[q],
           UNCHANGED <<seeding, deletedStocks>>,
           \A s \in Stocks : stocks[s] # "absent" => stocks'[s] # "absent",
           markets = MarketCodes => markets' = MarketCodes,
           stockRun'[p].pc \in {"find", "write"} =>
               \A s \in stockRun'[p].entries \ (stockRun'[p].todo \cup deletedStocks) :
                   stocks'[s] # "absent" \/ marketIds'[p][MarketCode(s)] = "null",
           stockRun'[p].pc = "write" /\ stockRun'[p].found /\ RowInHand(p)' \in Stocks =>
               stocks'[RowInHand(p)'] # "absent" \/ RowInHand(p)' \in deletedStocks,
           seeding => /\ ensured'[p] => markets' = MarketCodes
                      /\ stockRun'[p].pc # "idle" => ensured'[p]
                      /\ \A c \in MarketCodes : marketIds'[p][c] # "null"
    PROVE  StockInv'
<1>1. PassedRowsExist'
  <2> SUFFICES ASSUME NEW q \in MasterPods, stockRun'[q].pc \in {"find", "write"},
                      NEW s \in stockRun'[q].entries \ (stockRun'[q].todo \cup deletedStocks')
               PROVE  stocks'[s] # "absent" \/ marketIds'[q][MarketCode(s)] = "null"
    BY DEF PassedRowsExist
  <2>1. stockRun'[q].entries \subseteq Stocks
    BY DEF StockTypeOK
  <2>2. CASE q = p
    BY <2>2
  <2>3. CASE q # p
    BY <2>1, <2>3 DEF StockInv, PassedRowsExist
  <2> QED BY <2>2, <2>3
<1>2. FoundRowsExist'
  <2> SUFFICES ASSUME NEW q \in MasterPods, stockRun'[q].pc = "write", stockRun'[q].found,
                      RowInHand(q)' \in Stocks
               PROVE  stocks'[RowInHand(q)'] # "absent" \/ RowInHand(q)' \in deletedStocks'
    BY DEF FoundRowsExist
  <2>1. CASE q = p
    BY <2>1
  <2>2. CASE q # p
    <3>1. RowInHand(q)' = RowInHand(q)
      BY <2>2 DEF RowInHand
    <3>2. stocks[RowInHand(q)] # "absent" \/ RowInHand(q) \in deletedStocks
      BY <2>2, <3>1 DEF StockInv, FoundRowsExist
    <3> QED BY <3>1, <3>2
  <2> QED BY <2>1, <2>2
<1>3. SeededFirst' /\ SeededMarketsKnown'
  BY DEF StockInv, SeededFirst, SeededMarketsKnown
<1> QED BY <1>1, <1>2, <1>3 DEF StockInv

LEMMA StockFaultType ==
    ASSUME StockTypeOK
    PROVE  /\ StockFault => stockFaults' \in 0..MaxStockFaults
           /\ StockChange => stockChanges' \in 0..MaxStockChanges
BY StockAssumption DEF StockTypeOK, StockFault, StockChange

\* A run begins with the reference data.
LEMMA StockListSyncInv ==
    ASSUME StockInv, NEW p \in MasterPods, StockListSync(p) PROVE StockInv'
<1>1. PICK listed \in SUBSET MarketCodes :
        stockRun' = [stockRun EXCEPT ![p] = [RunIdle EXCEPT !.pc = "resolve",
                        !.entries = {s \in Stocks : MarketCode(s) \in listed}]]
  BY DEF StockListSync
<1>2. /\ stockRun' \in [MasterPods -> StockRun] /\ stockRun'[p].pc = "resolve"
      /\ \A q \in MasterPods : q # p => stockRun'[q] = stockRun[q]
  BY <1>1 DEF StockInv, StockTypeOK, StockRun, RunIdle
<1>3. NothingCached \in [MarketCodes -> {"unset", "id", "null"}]
      /\ \A c \in MarketCodes : NothingCached[c] = "unset"
  BY DEF NothingCached
<1>4. /\ ensured' \in [MasterPods -> BOOLEAN] /\ ensured'[p]
      /\ \A q \in MasterPods : q # p => ensured'[q] = ensured[q] /\ marketIds'[q] = marketIds[q]
      /\ marketIds' \in [MasterPods -> [MarketCodes -> {"unset", "id", "null"}]]
      /\ markets' \subseteq MarketCodes /\ (markets = MarketCodes => markets' = MarketCodes)
  BY <1>3 DEF StockListSync, EnsureKrxReferenceData, StockInv, StockTypeOK
<1>5. seeding => markets' = MarketCodes /\ \A c \in MarketCodes : marketIds'[p][c] # "null"
  BY <1>3 DEF StockListSync, EnsureKrxReferenceData, StockInv, StockTypeOK, SeededFirst,
              SeededMarketsKnown
<1>6. /\ UNCHANGED <<seeding, stocks, lastRunOk, deletedStocks, stockChanges, stockFaults>>
      /\ stockRuns' \in 0..MaxStockRuns
  BY StockAssumption DEF StockListSync, StockInv, StockTypeOK
<1>7. StockTypeOK'
  BY <1>2, <1>4, <1>6 DEF StockInv, StockTypeOK, StockRun
<1> QED BY <1>2, <1>4, <1>5, <1>6, <1>7, MasterStep

LEMMA ResolveInv ==
    ASSUME StockInv, NEW p \in MasterPods, NEW c \in MarketCodes, ResolveMarketId(p, c)
    PROVE  StockInv'
<1>1. PICK id : /\ id = IF c \in markets THEN "id" ELSE "null"
                /\ marketIds' = [marketIds EXCEPT ![p][c] = id]
  BY DEF ResolveMarketId
<1>2. /\ stockRun[p].pc = "resolve"
      /\ UNCHANGED <<seeding, markets, stocks, ensured, stockRun, lastRunOk, deletedStocks, countVars>>
  BY DEF ResolveMarketId
<1>3. StockTypeOK' /\ (seeding => id = "id")
  BY <1>1, <1>2 DEF StockInv, StockTypeOK, SeededFirst, countVars
<1>4. /\ \A q \in MasterPods : q # p => marketIds'[q] = marketIds[q]
      /\ seeding => \A d \in MarketCodes : marketIds'[p][d] # "null"
  BY <1>1, <1>3 DEF StockInv, StockTypeOK, SeededMarketsKnown
<1>5. seeding => (ensured[p] => markets = MarketCodes) /\ ensured[p]
  BY <1>2 DEF StockInv, SeededFirst
<1> QED BY <1>2, <1>3, <1>4, <1>5, MasterStep

\* The run with its next row, or its end.
LEMMA NextStockRun ==
    ASSUME StockTypeOK, NEW p \in MasterPods, NEW todo \in SUBSET Stocks, NextStock(p, todo)
    PROVE  /\ stockRun' \in [MasterPods -> StockRun] /\ lastRunOk' \in [MasterPods -> BOOLEAN]
           /\ \A q \in MasterPods : q # p => stockRun'[q] = stockRun[q]
           /\ stockRun'[p].pc \in {"idle", "find"}
           /\ stockRun'[p].pc = "find" =>
                 stockRun'[p].entries = stockRun[p].entries /\ stockRun'[p].todo = todo
<1> DEFINE next == [stockRun[p] EXCEPT !.pc = "find", !.todo = todo, !.found = FALSE]
<1>1. stockRun \in [MasterPods -> StockRun] /\ lastRunOk \in [MasterPods -> BOOLEAN]
  BY DEF StockTypeOK, StockRun
<1>2. RunIdle \in StockRun /\ RunIdle.pc = "idle"
  BY DEF RunIdle, StockRun
<1>3. /\ next \in StockRun /\ next.pc = "find" /\ next.todo = todo
      /\ next.entries = stockRun[p].entries
  BY <1>1 DEF StockRun
<1>4. CASE todo = {}
  <2>1. Complete(stockRun[p].entries) \in BOOLEAN
    BY DEF Complete
  <2> QED BY <1>1, <1>2, <1>4, <2>1 DEF NextStock
<1>5. CASE todo # {}
  <2>1. stockRun' = [stockRun EXCEPT ![p] = next] /\ lastRunOk' = lastRunOk
    BY <1>1, <1>5 DEF NextStock
  <2> HIDE DEF next
  <2> QED BY <1>1, <1>3, <2>1
<1> QED BY <1>4, <1>5

LEMMA UpsertManyInv ==
    ASSUME StockInv, NEW p \in MasterPods, UpsertMany(p) PROVE StockInv'
<1>1. PICK todo \in SUBSET Stocks :
        /\ todo = {s \in stockRun[p].entries : marketIds[p][MarketCode(s)] = "id"}
        /\ NextStock(p, todo)
  BY DEF UpsertMany, StockInv, StockTypeOK
<1>2. /\ stockRun' \in [MasterPods -> StockRun] /\ lastRunOk' \in [MasterPods -> BOOLEAN]
      /\ \A q \in MasterPods : q # p => stockRun'[q] = stockRun[q]
      /\ stockRun'[p].pc \in {"idle", "find"}
      /\ stockRun'[p].pc = "find" =>
            stockRun'[p].entries = stockRun[p].entries /\ stockRun'[p].todo = todo
  BY <1>1, NextStockRun DEF StockInv
<1>3. /\ stockRun[p].pc = "resolve"
      /\ \A s \in stockRun[p].entries : marketIds[p][MarketCode(s)] # "unset"
      /\ UNCHANGED <<seeding, markets, stocks, marketIds, ensured, deletedStocks, countVars>>
  BY DEF UpsertMany
<1>4. StockTypeOK'
  BY <1>2, <1>3 DEF StockInv, StockTypeOK, StockRun, countVars
<1>5. \A s \in stockRun[p].entries : MarketCode(s) \in MarketCodes /\
         marketIds[p][MarketCode(s)] \in {"unset", "id", "null"}
  BY StockAssumption DEF StockInv, StockTypeOK
<1>6. seeding => /\ ensured[p] => markets = MarketCodes
                 /\ ensured[p] /\ \A c \in MarketCodes : marketIds[p][c] # "null"
  BY <1>3 DEF StockInv, SeededFirst, SeededMarketsKnown
<1> QED BY <1>1, <1>2, <1>3, <1>4, <1>5, <1>6, MasterStep

LEMMA FindStockInv ==
    ASSUME StockInv, NEW p \in MasterPods, FindStock(p) PROVE StockInv'
<1>1. /\ stockRun[p].pc = "find"
      /\ stockRun' = [stockRun EXCEPT ![p].pc = "write", ![p].found = (stocks[RowInHand(p)] # "absent")]
      /\ UNCHANGED <<seeding, markets, stocks, marketIds, ensured, lastRunOk, deletedStocks, countVars>>
  BY DEF FindStock
<1>2. /\ stockRun' \in [MasterPods -> StockRun]
      /\ \A q \in MasterPods : q # p => stockRun'[q] = stockRun[q]
      /\ stockRun'[p].pc = "write" /\ stockRun'[p].entries = stockRun[p].entries
      /\ stockRun'[p].todo = stockRun[p].todo
      /\ stockRun'[p].found = (stocks[RowInHand(p)] # "absent")
  BY <1>1 DEF StockInv, StockTypeOK, StockRun
<1>3. StockTypeOK'
  BY <1>1, <1>2 DEF StockInv, StockTypeOK, StockRun, countVars
<1>4. RowInHand(p)' = RowInHand(p)
  BY <1>2 DEF RowInHand
<1>5. seeding => /\ ensured[p] => markets = MarketCodes
                 /\ ensured[p] /\ \A c \in MarketCodes : marketIds[p][c] # "null"
  BY <1>1 DEF StockInv, SeededFirst, SeededMarketsKnown
<1>6. \A s \in stockRun[p].entries \ (stockRun[p].todo \cup deletedStocks) :
            stocks[s] # "absent" \/ marketIds[p][MarketCode(s)] = "null"
  BY <1>1 DEF StockInv, PassedRowsExist
<1>7. /\ UNCHANGED <<seeding, deletedStocks, markets, stocks, marketIds, ensured>>
      /\ stockRun'[p].pc # "idle"
  BY <1>1, <1>2
<1>8. \A s \in stockRun'[p].entries \ (stockRun'[p].todo \cup deletedStocks) :
            stocks'[s] # "absent" \/ marketIds'[p][MarketCode(s)] = "null"
  BY <1>2, <1>6, <1>7
<1>9. stockRun'[p].found => stocks'[RowInHand(p)'] # "absent"
  BY <1>2, <1>4, <1>7
<1> QED BY <1>2, <1>3, <1>5, <1>7, <1>8, <1>9, MasterStep

LEMMA WriteStockInv ==
    ASSUME StockInv, NEW p \in MasterPods, WriteStock(p) PROVE StockInv' /\ ObservationStays
<1>1. PICK s : s = RowInHand(p)
  OBVIOUS
<1>2. /\ stockRun[p].pc = "write" /\ (stockRun[p].found \/ stocks[s] = "absent")
      /\ stocks' = IF stockRun[p].found THEN stocks ELSE [stocks EXCEPT ![s] = "unobserved"]
      /\ NextStock(p, stockRun[p].todo \ {s})
      /\ UNCHANGED <<seeding, markets, marketIds, ensured, deletedStocks, countVars>>
  BY <1>1 DEF WriteStock, Updated
<1>3. /\ stockRun' \in [MasterPods -> StockRun] /\ lastRunOk' \in [MasterPods -> BOOLEAN]
      /\ \A q \in MasterPods : q # p => stockRun'[q] = stockRun[q]
      /\ stockRun'[p].pc \in {"idle", "find"}
      /\ stockRun'[p].pc = "find" => /\ stockRun'[p].entries = stockRun[p].entries
                                     /\ stockRun'[p].todo = stockRun[p].todo \ {s}
  <2>1. stockRun[p].todo \ {s} \in SUBSET Stocks
    BY DEF StockInv, StockTypeOK
  <2> QED BY <1>2, <2>1, NextStockRun DEF StockInv
<1>4. /\ stocks' \in [Stocks -> {"absent", "observed", "unobserved"}]
      /\ \A u \in Stocks : stocks[u] # "absent" => stocks'[u] = stocks[u]
      /\ \A u \in Stocks : stocks'[u] # stocks[u] => stocks[u] = "absent" /\ stocks'[u] = "unobserved"
      /\ s \in Stocks \ deletedStocks => stocks'[s] # "absent"
  BY <1>1, <1>2 DEF StockInv, StockTypeOK, FoundRowsExist
<1>5. StockTypeOK'
  BY <1>2, <1>3, <1>4 DEF StockInv, StockTypeOK, StockRun, countVars
<1>6. \A u \in stockRun[p].entries \ (stockRun[p].todo \cup deletedStocks) :
            u \in Stocks /\ (stocks[u] # "absent" \/ marketIds[p][MarketCode(u)] = "null")
  BY <1>2 DEF StockInv, StockTypeOK, PassedRowsExist
<1>7. \A u \in stockRun[p].entries \ ((stockRun[p].todo \ {s}) \cup deletedStocks) :
            stocks'[u] # "absent" \/ marketIds[p][MarketCode(u)] = "null"
  <2>1. stockRun[p].entries \subseteq Stocks
    BY DEF StockInv, StockTypeOK
  <2> QED BY <1>4, <1>6, <2>1
<1>8. seeding => /\ ensured[p] => markets = MarketCodes
                 /\ ensured[p] /\ \A c \in MarketCodes : marketIds[p][c] # "null"
  BY <1>2 DEF StockInv, SeededFirst, SeededMarketsKnown
<1>9. StockInv'
  BY <1>2, <1>3, <1>4, <1>5, <1>7, <1>8, MasterStep
<1> QED BY <1>4, <1>9 DEF ObservationStays

\* A run that ends early, with or without its pod.
LEMMA StockRunEndsInv ==
    ASSUME StockInv, NEW p \in MasterPods, StockRunFails(p) \/ MasterPodRestart(p) PROVE StockInv'
<1>1. RunIdle \in StockRun /\ RunIdle.pc = "idle"
  BY DEF RunIdle, StockRun
<1>2. NothingCached \in [MarketCodes -> {"unset", "id", "null"}]
      /\ \A c \in MarketCodes : NothingCached[c] = "unset"
  BY DEF NothingCached
<1>3. /\ stockRun' = [stockRun EXCEPT ![p] = RunIdle] /\ lastRunOk' = [lastRunOk EXCEPT ![p] = FALSE]
      /\ UNCHANGED <<seeding, markets, stocks, deletedStocks, stockRuns, stockChanges>>
      /\ stockFaults' \in 0..MaxStockFaults
      /\ \/ UNCHANGED <<marketIds, ensured>>
         \/ /\ marketIds' = [marketIds EXCEPT ![p] = NothingCached]
            /\ ensured' = [ensured EXCEPT ![p] = FALSE]
  BY StockFaultType DEF StockInv, StockTypeOK, StockRunFails, MasterPodRestart
<1>4. /\ stockRun' \in [MasterPods -> StockRun] /\ stockRun'[p].pc = "idle"
      /\ lastRunOk' \in [MasterPods -> BOOLEAN]
      /\ \A q \in MasterPods : q # p => stockRun'[q] = stockRun[q]
  BY <1>1, <1>3 DEF StockInv, StockTypeOK, StockRun
<1>5. /\ marketIds' \in [MasterPods -> [MarketCodes -> {"unset", "id", "null"}]]
      /\ ensured' \in [MasterPods -> BOOLEAN] /\ (ensured'[p] => ensured[p])
      /\ \A q \in MasterPods : q # p => marketIds'[q] = marketIds[q] /\ ensured'[q] = ensured[q]
      /\ \A c \in MarketCodes : marketIds'[p][c] = "null" => marketIds[p][c] = "null"
  <2>1. /\ marketIds \in [MasterPods -> [MarketCodes -> {"unset", "id", "null"}]]
        /\ ensured \in [MasterPods -> BOOLEAN]
    BY DEF StockInv, StockTypeOK
  <2>2. CASE UNCHANGED <<marketIds, ensured>>
    BY <2>1, <2>2
  <2>3. CASE /\ marketIds' = [marketIds EXCEPT ![p] = NothingCached]
             /\ ensured' = [ensured EXCEPT ![p] = FALSE]
    BY <1>2, <2>1, <2>3
  <2> QED BY <1>3, <2>2, <2>3
<1>6. StockTypeOK'
  BY <1>3, <1>4, <1>5 DEF StockInv, StockTypeOK, StockRun
<1>7. seeding => /\ ensured'[p] => markets = MarketCodes
                 /\ \A c \in MarketCodes : marketIds'[p][c] # "null"
  BY <1>5 DEF StockInv, SeededFirst, SeededMarketsKnown
<1> QED BY <1>3, <1>4, <1>5, <1>6, <1>7, MasterStep

LEMMA OperatorChangesInv ==
    ASSUME StockInv, OperatorChanges PROVE StockInv'
<1>1. /\ UNCHANGED <<seeding, marketIds, ensured, stockRun, lastRunOk, stockRuns, stockFaults>>
      /\ stockChanges' \in 0..MaxStockChanges
  BY StockFaultType DEF OperatorChanges, StockInv
<1>2. /\ stocks' \in [Stocks -> {"absent", "observed", "unobserved"}]
      /\ markets' \subseteq MarketCodes /\ markets \subseteq markets'
      /\ deletedStocks' \subseteq Stocks /\ deletedStocks \subseteq deletedStocks'
      /\ \A s \in Stocks : stocks[s] # "absent" => stocks'[s] # "absent" \/ s \in deletedStocks'
  <2>1. CASE \E c \in MarketCodes \ markets : markets' = markets \cup {c} /\ UNCHANGED <<stocks, deletedStocks>>
    BY <2>1 DEF StockInv, StockTypeOK
  <2>2. CASE \E s \in Stocks :
               /\ \/ /\ stocks' = [stocks EXCEPT ![s] = IF @ = "observed" THEN "unobserved" ELSE "observed"]
                     /\ UNCHANGED deletedStocks
                  \/ stocks' = [stocks EXCEPT ![s] = "absent"] /\ deletedStocks' = deletedStocks \cup {s}
               /\ UNCHANGED markets
    BY <2>2 DEF StockInv, StockTypeOK
  <2> QED BY <2>1, <2>2 DEF OperatorChanges
<1>3. StockTypeOK'
  BY <1>1, <1>2 DEF StockInv, StockTypeOK
<1>4. PassedRowsExist'
  BY <1>1, <1>2 DEF StockInv, StockTypeOK, PassedRowsExist
<1>5. FoundRowsExist'
  <2>1. \A p \in MasterPods : RowInHand(p)' = RowInHand(p)
    BY <1>1 DEF RowInHand
  <2> QED BY <1>1, <1>2, <2>1 DEF StockInv, FoundRowsExist
<1>6. SeededFirst' /\ SeededMarketsKnown'
  BY <1>1, <1>2 DEF StockInv, SeededFirst, SeededMarketsKnown
<1> QED BY <1>3, <1>4, <1>5, <1>6 DEF StockInv

LEMMA StockStep ==
    ASSUME StockInv, [StockNext]_stockVars PROVE StockInv' /\ ObservationStays
<1>1. ASSUME NEW p \in MasterPods,
             StockListSync(p) \/ UpsertMany(p) \/ FindStock(p) \/ StockRunFails(p) \/ MasterPodRestart(p)
               \/ \E c \in MarketCodes : ResolveMarketId(p, c)
      PROVE  StockInv' /\ stocks' = stocks
  <2>1. StockInv'
    BY <1>1, StockListSyncInv, UpsertManyInv, FindStockInv, StockRunEndsInv, ResolveInv
  <2>2. stocks' = stocks
    BY <1>1 DEF StockListSync, UpsertMany, FindStock, StockRunFails, MasterPodRestart, ResolveMarketId
  <2> QED BY <2>1, <2>2
<1>2. ASSUME NEW p \in MasterPods, WriteStock(p) PROVE StockInv' /\ ObservationStays
  BY <1>2, WriteStockInv
<1>3. CASE OperatorChanges
  <2>1. stockChanges' # stockChanges
    BY <1>3 DEF OperatorChanges, StockChange, StockInv, StockTypeOK
  <2> QED BY <1>3, <2>1, OperatorChangesInv DEF ObservationStays
<1>4. CASE UNCHANGED stockVars
  <2>1. \A p \in MasterPods : RowInHand(p)' = RowInHand(p)
    BY <1>4 DEF RowInHand, stockVars
  <2> QED BY <1>4, <2>1 DEF stockVars, StockInv, StockTypeOK, PassedRowsExist, FoundRowsExist,
                            SeededFirst, SeededMarketsKnown, ObservationStays
<1> QED BY <1>1, <1>2, <1>3, <1>4 DEF StockNext, ObservationStays

LEMMA StockInvSafe == StockInv => StockTypeOK /\ MasterSafe
BY DEF StockInv, MasterSafe

\* StockMaster.MasterSafe for any pods, stocks, markets, operators and faults: a row a
\* run has passed exists unless an operator deleted it, although other pods' runs
\* insert rows between its SELECT and its INSERT, and seeding comes before a look-up.
THEOREM MasterIsSafe == StockSpec => [](StockTypeOK /\ MasterSafe)
BY StockInvSafe, StockInitInv, StockStep, PTL DEF StockSpec

\* No sync changes is_observed of a stock, and a stock it adds is not observed
\* (upsertMany names every column but that one).
THEOREM ObservationIsKept == StockSpec => ObservationKept
<1>1. StockSpec => []StockInv
  BY StockInitInv, StockStep, PTL DEF StockSpec
<1>2. ASSUME StockInv, [StockNext]_stockVars PROVE [ObservationStays]_stockVars
  BY <1>2, StockStep
<1> QED BY <1>1, <1>2, PTL DEF StockSpec, ObservationKept

-----------------------------------------------------------------------------
(* Indicators: an emitted average leaves no candle of its symbol out.      *)

Handling == {"sma", "ema", "ack"}
Calculator == [pc: {"down", "read", "update", "sma", "ema", "ack"}, batch: Seq(1..MaxCandles)]
Windows == [Symbols -> Seq(1..MaxCandles)]

\* The types; a batch only while it is worked through.
CalcShape ==
    /\ IndicatorTypeOK /\ candleStream.last <= candleStream.size
    /\ calc \in [Calculators -> Calculator] /\ closes \in [Calculators -> Windows]
    /\ \A p \in Calculators : calc[p].batch = <<>> <=> calc[p].pc \in {"down", "read"}

\* A window holds candles of its symbol, none left out between them or after the last
\* of them up to candle q.
Gapless(w, s, q) ==
    /\ \A i \in 1..Len(w) : CandleSymbol(w[i]) = s
    /\ \A i \in 1..Len(w) - 1 : \A d \in w[i] + 1 .. w[i + 1] - 1 : CandleSymbol(d) # s
    /\ w # <<>> => \A d \in w[Len(w)] + 1 .. q : CandleSymbol(d) # s

\* The last candle in the windows of a calculator, if it alone has read up to `last'.
Pushed(c, last) == last - Len(c.batch) + (IF c.pc \in Handling THEN 1 ELSE 0)

\* A calculator alone: its batch ends where the group has read to, and its windows
\* are gapless up to the candle in hand.
InStep(c, w, last) ==
    /\ \A i \in 1..Len(c.batch) : c.batch[i] = last - Len(c.batch) + i
    /\ \A s \in Symbols : Gapless(w[s], s, Pushed(c, last))
    /\ c.pc = "down" => \A s \in Symbols : w[s] = <<>>
    /\ c.pc \in Handling =>
         LET x == w[CandleSymbol(Head(c.batch))] IN x # <<>> /\ x[Len(x)] = Head(c.batch)

Alone == Cardinality(Calculators) = 1
CalcInStep == Alone => \A p \in Calculators : InStep(calc[p], closes[p], candleStream.last)

\* An average as it has to be.
GoodAverage(k, v) ==
    k[2] = "sma" /\ v # Warming =>
        /\ v[Len(v)] = k[1]
        /\ \A i \in 1..Len(v) - 1 :
             /\ CandleSymbol(v[i]) = CandleSymbol(k[1])
             /\ \A c \in v[i] + 1 .. v[i + 1] - 1 : CandleSymbol(c) # CandleSymbol(k[1])
RowsGapless == Alone => \A k \in DOMAIN indicators : GoodAverage(k, indicators[k])

IndicatorInv == CalcShape /\ CalcInStep /\ RowsGapless

LEMMA RowsAreAverages == RowsGapless => AveragesAreGapless
BY DEF RowsGapless, AveragesAreGapless, GoodAverage, Alone

LEMMA IndicatorInitInv == ASSUME IndicatorInit PROVE IndicatorInv
<1> USE IndicatorAssumption
<1>1. /\ \A p \in Calculators : calc[p] = [pc |-> "down", batch |-> <<>>]
      /\ \A p \in Calculators : \A s \in Symbols : closes[p][s] = <<>>
  BY DEF IndicatorInit
<1>2. CalcShape
  <2>1. [pc |-> "down", batch |-> <<>>] \in Calculator
    BY DEF Calculator
  <2>2. [s \in Symbols |-> <<>>] \in Windows
    BY DEF Windows
  <2>3. calc \in [Calculators -> Calculator] /\ closes \in [Calculators -> Windows]
    BY <2>1, <2>2 DEF IndicatorInit
  <2>4. candleStream \in StreamType(MaxCandles) /\ candleStream.last <= candleStream.size
    BY DEF IndicatorInit, EmptyStream, StreamType
  <2>5. DOMAIN indicators = {} /\ calcFaults \in 0..MaxCalcFaults
    BY DEF IndicatorInit
  <2>6. \A p \in Calculators : \A s \in Symbols : Len(closes[p][s]) <= Window
    <3>1. Len(<<>>) <= Window
      OBVIOUS
    <3> QED BY <1>1, <3>1
  <2>7. \A p \in Calculators : /\ calc[p].pc \in {"down", "read", "update", "sma", "ema", "ack"}
                               /\ calc[p].batch \in Seq(1..MaxCandles)
    BY <2>3 DEF Calculator
  <2>8. IndicatorTypeOK
    BY <2>4, <2>5, <2>6, <2>7 DEF IndicatorTypeOK
  <2> QED BY <1>1, <2>3, <2>4, <2>8 DEF CalcShape
<1>3. ASSUME NEW p \in Calculators PROVE InStep(calc[p], closes[p], candleStream.last)
  <2>1. /\ Len(calc[p].batch) = 0 /\ calc[p].pc \notin Handling
        /\ \A s \in Symbols : closes[p][s] = <<>>
    BY <1>1 DEF Handling
  <2>2. \A s \in Symbols : Len(closes[p][s]) = 0
    BY <2>1
  <2> QED BY <2>1, <2>2 DEF InStep, Gapless
<1>4. RowsGapless
  BY DEF RowsGapless, IndicatorInit
<1> QED BY <1>2, <1>3, <1>4 DEF IndicatorInv, CalcInStep

\* The only calculator there is.
LEMMA OnlyCalculator ==
    ASSUME Alone, NEW p \in Calculators, NEW r \in Calculators PROVE p = r
<1>1. PICK x : Calculators = {x}
  BY FS_Singleton, IndicatorAssumption DEF Alone
<1> QED BY <1>1

\* A step of one calculator: what it must say of its own loop and windows.
LEMMA CalculatorMoves ==
    ASSUME IndicatorInv, NEW p \in Calculators, NEW c \in Calculator, NEW w \in Windows,
           calc' = [calc EXCEPT ![p] = c], closes' = [closes EXCEPT ![p] = w],
           c.batch = <<>> <=> c.pc \in {"down", "read"},
           \A s \in Symbols : Len(w[s]) <= Window,
           candleStream' \in StreamType(MaxCandles), candleStream'.last <= candleStream'.size,
           calcFaults' \in 0..MaxCalcFaults,
           DOMAIN indicators' \subseteq (1..MaxCandles) \X {"sma", "ema"},
           Alone => InStep(c, w, candleStream'.last),
           Alone => \A k \in DOMAIN indicators' :
                       \/ k \in DOMAIN indicators /\ indicators'[k] = indicators[k]
                       \/ GoodAverage(k, indicators'[k])
    PROVE  IndicatorInv'
<1>0. CalcShape /\ CalcInStep /\ RowsGapless /\ IndicatorTypeOK
  BY DEF IndicatorInv, CalcShape
<1>1. /\ calc' \in [Calculators -> Calculator] /\ closes' \in [Calculators -> Windows]
      /\ calc'[p] = c /\ closes'[p] = w
      /\ \A r \in Calculators : r # p => calc'[r] = calc[r] /\ closes'[r] = closes[r]
  BY <1>0 DEF CalcShape
<1>2. /\ \A r \in Calculators : calc'[r].pc \in {"down", "read", "update", "sma", "ema", "ack"}
      /\ \A r \in Calculators : calc'[r].batch \in Seq(1..MaxCandles)
  BY <1>1 DEF Calculator
<1>3. \A r \in Calculators : \A s \in Symbols : Len(closes'[r][s]) <= Window
  BY <1>0, <1>1 DEF IndicatorTypeOK
<1>4. IndicatorTypeOK'
  BY <1>2, <1>3 DEF IndicatorTypeOK
<1>5. \A r \in Calculators : calc'[r].batch = <<>> <=> calc'[r].pc \in {"down", "read"}
  BY <1>0, <1>1 DEF CalcShape
<1>6. CalcShape'
  BY <1>1, <1>4, <1>5 DEF CalcShape
<1>7. CalcInStep'
  <2> SUFFICES ASSUME Alone, NEW r \in Calculators
               PROVE  InStep(calc'[r], closes'[r], candleStream'.last)
    BY DEF CalcInStep, Alone
  <2>1. r = p
    BY OnlyCalculator
  <2> QED BY <1>1, <2>1
<1>8. RowsGapless'
  BY <1>0 DEF RowsGapless, Alone
<1> QED BY <1>6, <1>7, <1>8 DEF IndicatorInv

\* What the invariant says of one calculator.
LEMMA CalculatorIs ==
    ASSUME IndicatorInv, NEW p \in Calculators
    PROVE  /\ calc[p] \in Calculator /\ closes[p] \in Windows
           /\ calc[p].batch = <<>> <=> calc[p].pc \in {"down", "read"}
           /\ \A s \in Symbols : Len(closes[p][s]) <= Window
           /\ Alone => InStep(calc[p], closes[p], candleStream.last)
           /\ candleStream \in StreamType(MaxCandles) /\ candleStream.last <= candleStream.size
           /\ calcFaults \in 0..MaxCalcFaults
           /\ DOMAIN indicators \subseteq (1..MaxCandles) \X {"sma", "ema"}
           /\ closes = [closes EXCEPT ![p] = closes[p]]
BY DEF IndicatorInv, CalcShape, IndicatorTypeOK, CalcInStep

LEMMA FirstOf ==
    ASSUME NEW S, NEW b \in Seq(S), b # <<>>
    PROVE  Len(b) \in Nat \ {0} /\ Head(b) = b[1] /\ Head(b) \in S
OBVIOUS

LEMMA CandleInHand ==
    ASSUME IndicatorInv, NEW p \in Calculators, calc[p].pc \notin {"down", "read"}
    PROVE  /\ calc[p].batch \in Seq(1..MaxCandles) /\ calc[p].batch # <<>>
           /\ Len(calc[p].batch) \in Nat \ {0} /\ Candle(p) = calc[p].batch[1]
           /\ Candle(p) \in 1..MaxCandles /\ CandleSymbol(Candle(p)) \in Symbols
<1>1. calc[p].batch \in Seq(1..MaxCandles) /\ calc[p].batch # <<>>
  <2>1. calc[p] \in Calculator /\ (calc[p].batch = <<>> <=> calc[p].pc \in {"down", "read"})
    BY CalculatorIs
  <2> QED BY <2>1 DEF Calculator
<1>2. /\ Len(calc[p].batch) \in Nat \ {0} /\ Head(calc[p].batch) = calc[p].batch[1]
      /\ Head(calc[p].batch) \in 1..MaxCandles
  BY <1>1, FirstOf
<1> QED BY <1>1, <1>2 DEF Candle, Symbols

\* A calculator that only changes its step between the upserts.
LEMMA StepOfCandle ==
    ASSUME IndicatorInv, NEW p \in Calculators, NEW next \in Handling,
           calc[p].pc \in Handling
    PROVE  LET c == [calc[p] EXCEPT !.pc = next]
           IN  /\ c \in Calculator /\ c.batch # <<>> /\ c.pc \notin {"down", "read"}
               /\ Alone => InStep(c, closes[p], candleStream.last)
<1> DEFINE c == [calc[p] EXCEPT !.pc = next]
<1>1. calc[p] \in Calculator
  BY CalculatorIs
<1>2. c.batch = calc[p].batch /\ c.pc = next /\ c \in Calculator
  BY <1>1 DEF Calculator, Handling
<1>3. c.batch # <<>> /\ c.pc \notin {"down", "read"}
  BY <1>2, CandleInHand DEF Handling
<1> HIDE DEF c
<1>4. ASSUME Alone PROVE InStep(c, closes[p], candleStream.last)
  <2>1. InStep(calc[p], closes[p], candleStream.last)
    BY <1>4, CalculatorIs
  <2>2. Pushed(c, candleStream.last) = Pushed(calc[p], candleStream.last)
    BY <1>2 DEF Pushed
  <2>3. c.pc # "down"
    BY <1>3
  <2> QED BY <1>2, <2>1, <2>2, <2>3 DEF InStep
<1> QED BY <1>2, <1>3, <1>4 DEF c

LEMMA PushTyped ==
    ASSUME NEW w \in Seq(1..MaxCandles), Len(w) <= Window, NEW e \in 1..MaxCandles
    PROVE  PushClose(w, e) \in Seq(1..MaxCandles) /\ Len(PushClose(w, e)) <= Window
<1> DEFINE l == Append(w, e)
<1>1. l \in Seq(1..MaxCandles) /\ Len(l) = Len(w) + 1 /\ l # <<>>
  BY AppendProperties
<1> HIDE DEF l
<1>2. Tail(l) \in Seq(1..MaxCandles) /\ Len(Tail(l)) = Len(w) + 1 - 1
  BY <1>1, HeadTailProperties
<1>3. PushClose(w, e) = IF Len(l) > Window THEN Tail(l) ELSE l
  BY DEF PushClose, l
<1>4. Len(w) \in Nat /\ Window \in Nat
  BY IndicatorAssumption
<1>5. CASE Len(l) > Window
  <2>1. Len(w) + 1 - 1 <= Window
    BY <1>4
  <2> QED BY <1>2, <1>3, <1>5, <2>1
<1>6. CASE ~(Len(l) > Window)
  <2>1. Len(l) <= Window
    BY <1>1, <1>4, <1>6
  <2> QED BY <1>1, <1>3, <1>6, <2>1
<1> QED BY <1>5, <1>6

\* Pushing the next candle of its symbol keeps a window gapless.
LEMMA PushKeepsGapless ==
    ASSUME NEW w \in Seq(1..MaxCandles), Len(w) <= Window, NEW q \in Nat,
           q + 1 \in 1..MaxCandles, NEW s, CandleSymbol(q + 1) = s, Gapless(w, s, q)
    PROVE  LET x == PushClose(w, q + 1)
           IN  /\ x \in Seq(1..MaxCandles) /\ Len(x) <= Window /\ x # <<>>
               /\ x[Len(x)] = q + 1 /\ Gapless(x, s, q + 1)
<1> USE IndicatorAssumption
<1> DEFINE l == Append(w, q + 1)
           n == Len(w)
<1>1. /\ l \in Seq(1..MaxCandles) /\ Len(l) = n + 1 /\ l # <<>> /\ l[n + 1] = q + 1
      /\ \A i \in 1..n : l[i] = w[i]
  BY AppendProperties
<1>2. n \in Nat /\ n <= Window /\ (n = 0 <=> w = <<>>)
  OBVIOUS
<1>3. \A i \in 1..n : w[i] \in 1..MaxCandles
  BY ElementOfSeq
<1>4. /\ \A i \in 1..n : CandleSymbol(w[i]) = s
      /\ \A i \in 1..n - 1 : \A d \in w[i] + 1 .. w[i + 1] - 1 : CandleSymbol(d) # s
      /\ n # 0 => \A d \in w[n] + 1 .. q : CandleSymbol(d) # s
  <2>1. Gapless(w, s, q)
    OBVIOUS
  <2> QED BY <1>2, <2>1 DEF Gapless
<1> HIDE DEF l, n
<1>5. ASSUME NEW i \in 1..n + 1 PROVE CandleSymbol(l[i]) = s
  <2>1. i = n + 1 \/ i \in 1..n
    BY <1>2
  <2> QED BY <1>1, <1>4, <2>1
<1>6. ASSUME NEW i \in 1..n, NEW d \in l[i] + 1 .. l[i + 1] - 1 PROVE CandleSymbol(d) # s
  <2>1. l[i] = w[i] /\ l[n + 1] = q + 1 /\ q + 1 - 1 = q
    BY <1>1
  <2>2. CASE i = n
    BY <1>2, <1>4, <2>1, <2>2
  <2>3. CASE i # n
    <3>1. i \in 1..n - 1 /\ i + 1 \in 1..n
      BY <1>2, <2>3
    <3>2. l[i + 1] = w[i + 1]
      BY <1>1, <3>1
    <3> QED BY <1>4, <2>1, <3>1, <3>2
  <2> QED BY <2>2, <2>3
<1>7. CASE Len(l) > Window
  <2> DEFINE x == Tail(l)
  <2>1. /\ x \in Seq(1..MaxCandles) /\ Len(x) = n /\ \A i \in 1..n : x[i] = l[i + 1]
    BY <1>1, <1>2, HeadTailProperties
  <2>2. n = Window /\ PushClose(w, q + 1) = x
    BY <1>1, <1>2, <1>7 DEF PushClose, l
  <2> HIDE DEF x
  <2>3. n # 0 /\ x # <<>> /\ x[n] = q + 1
    BY <1>1, <1>2, <2>1, <2>2
  <2>4. ASSUME NEW i \in 1..n PROVE CandleSymbol(x[i]) = s
    <3>1. i + 1 \in 1..n + 1 /\ x[i] = l[i + 1]
      BY <1>2, <2>1
    <3> QED BY <1>5, <3>1
  <2>5. ASSUME NEW i \in 1..n - 1, NEW d \in x[i] + 1 .. x[i + 1] - 1 PROVE CandleSymbol(d) # s
    <3>1. i \in 1..n /\ i + 1 \in 1..n
      BY <1>2
    <3>2. x[i] = l[i + 1] /\ x[i + 1] = l[i + 1 + 1]
      BY <2>1, <3>1
    <3> QED BY <1>6, <3>1, <3>2
  <2>6. \A d \in x[n] + 1 .. q + 1 : CandleSymbol(d) # s
    BY <2>3
  <2>7. Gapless(x, s, q + 1)
    BY <2>1, <2>4, <2>5, <2>6 DEF Gapless
  <2> QED BY <1>2, <2>1, <2>2, <2>3, <2>7
<1>8. CASE ~(Len(l) > Window)
  <2>1. PushClose(w, q + 1) = l
    BY <1>8 DEF PushClose, l
  <2>2. Len(l) - 1 = n /\ Len(l) <= Window
    BY <1>1, <1>2, <1>8
  <2>3. \A d \in l[n + 1] + 1 .. q + 1 : CandleSymbol(d) # s
    BY <1>1
  <2>4. Gapless(l, s, q + 1)
    BY <1>1, <1>5, <1>6, <2>2, <2>3 DEF Gapless
  <2> QED BY <1>1, <2>1, <2>2, <2>4
<1> QED BY <1>7, <1>8

LEMMA OthersStayGapless ==
    ASSUME NEW w, NEW q \in Nat, NEW s, CandleSymbol(q + 1) # s, Gapless(w, s, q),
           w \in Seq(1..MaxCandles)
    PROVE  Gapless(w, s, q + 1)
<1>1. w # <<>> => w[Len(w)] \in 1..MaxCandles
  <2>1. w # <<>> => Len(w) \in 1..Len(w)
    OBVIOUS
  <2> QED BY <2>1, ElementOfSeq
<1>2. \A d : d \in w[Len(w)] + 1 .. q + 1 /\ w # <<>> => d = q + 1 \/ d \in w[Len(w)] + 1 .. q
  BY <1>1
<1> QED BY <1>2 DEF Gapless

-----------------------------------------------------------------------------
\* What XREADGROUP hands out: the entries after the last one, in order.
LEMMA UnreadInOrder ==
    ASSUME NEW st, st \in StreamType(MaxCandles), st.last < st.size
    PROVE  LET u == Unread(st, CandleBatch)
               next == XReadGroup(st, CandleBatch)
           IN  /\ u \in Seq(1..MaxCandles) /\ u # <<>>
               /\ next \in StreamType(MaxCandles) /\ next.last <= next.size
               /\ next.last = st.last + Len(u)
               /\ \A i \in 1..Len(u) : u[i] = st.last + i
<1> USE IndicatorAssumption
<1> DEFINE u == Unread(st, CandleBatch)
           size == st.size
           last == st.last
           k == IF size - last < CandleBatch THEN size - last ELSE CandleBatch
<1>1. u = [i \in 1..k |-> last + i]
  BY DEF Unread
<1>2. size \in 0..MaxCandles /\ last \in 0..MaxCandles /\ last < size
  BY DEF StreamType
<1> HIDE DEF size, last
<1>3. k \in Nat /\ 1 <= k /\ last + k <= size
  BY <1>2
<1> HIDE DEF k
<1>4. \A i \in 1..k : last + i \in 1..MaxCandles
  BY <1>2, <1>3
<1>5. u \in Seq(1..MaxCandles) /\ Len(u) = k /\ \A i \in 1..Len(u) : u[i] = last + i
  BY <1>1, <1>3, <1>4
<1>6. u # <<>>
  BY <1>3, <1>5
<1> HIDE DEF u
<1>7. {u[i] : i \in 1..Len(u)} \subseteq 1..MaxCandles
  BY <1>4, <1>5
<1>8. last + Len(u) \in 0..MaxCandles /\ last + Len(u) <= size
  BY <1>2, <1>3, <1>5
<1> DEFINE next == XReadGroup(st, CandleBatch)
<1>9. next = [st EXCEPT !.last = @ + Len(u), !.pending = @ \cup {u[i] : i \in 1..Len(u)}]
  BY DEF XReadGroup, u
<1>10. next \in StreamType(MaxCandles) /\ next.last = last + Len(u) /\ next.size = size
  BY <1>7, <1>8, <1>9 DEF StreamType, size, last
<1> HIDE DEF next
<1> QED BY <1>5, <1>6, <1>8, <1>10 DEF u, next, size, last

\* Adding an entry and creating the group.
LEMMA StreamMoves ==
    ASSUME NEW st \in StreamType(MaxCandles), st.last <= st.size
    PROVE  /\ EnsureGroup(st) \in StreamType(MaxCandles)
           /\ EnsureGroup(st).last <= EnsureGroup(st).size
           /\ st.size < MaxCandles =>
                /\ XAdd(st) \in StreamType(MaxCandles) /\ XAdd(st).last = st.last
                /\ XAdd(st).last <= XAdd(st).size
<1>1. st.size \in 0..MaxCandles /\ st.last \in 0..MaxCandles /\ MaxCandles \in Nat
  BY IndicatorAssumption DEF StreamType
<1>2. EnsureGroup(st) = st \/ EnsureGroup(st) = [st EXCEPT !.grouped = TRUE, !.last = st.size]
  BY DEF EnsureGroup
<1>3. /\ EnsureGroup(st) \in StreamType(MaxCandles)
      /\ EnsureGroup(st).last <= EnsureGroup(st).size
  <2>1. CASE EnsureGroup(st) = st
    BY <2>1
  <2>2. CASE EnsureGroup(st) = [st EXCEPT !.grouped = TRUE, !.last = st.size]
    <3> DEFINE g == [st EXCEPT !.grouped = TRUE, !.last = st.size]
    <3>1. g \in StreamType(MaxCandles) /\ g.last = st.size /\ g.size = st.size
      BY <1>1 DEF StreamType
    <3>2. g.last <= g.size
      BY <1>1, <3>1
    <3> QED BY <2>2, <3>1, <3>2
  <2> QED BY <1>2, <2>1, <2>2
<1>4. ASSUME st.size < MaxCandles
      PROVE  /\ XAdd(st) \in StreamType(MaxCandles) /\ XAdd(st).last = st.last
             /\ XAdd(st).last <= XAdd(st).size
  <2>1. XAdd(st) = [st EXCEPT !.size = st.size + 1] /\ st.size + 1 \in 0..MaxCandles
    BY <1>1, <1>4 DEF XAdd, StreamType
  <2>2. /\ XAdd(st) \in StreamType(MaxCandles) /\ XAdd(st).last = st.last
        /\ XAdd(st).size = st.size + 1
    BY <2>1 DEF StreamType
  <2> QED BY <1>1, <2>2
<1> QED BY <1>3, <1>4

LEMMA CloseCandleInv == ASSUME IndicatorInv, CloseCandle PROVE IndicatorInv'
<1> USE IndicatorAssumption
<1>1. candleStream' \in StreamType(MaxCandles) /\ candleStream'.last <= candleStream'.size
      /\ candleStream'.last = candleStream.last
  <2>1. candleStream \in StreamType(MaxCandles) /\ candleStream.last <= candleStream.size
    BY DEF IndicatorInv, CalcShape, IndicatorTypeOK
  <2> QED BY <2>1, StreamMoves DEF CloseCandle
<1>2. UNCHANGED <<calc, closes, emaCount, indicators, calcFaults>>
  BY DEF CloseCandle
<1>3. CalcShape'
  BY <1>1, <1>2 DEF IndicatorInv, CalcShape, IndicatorTypeOK
<1>4. CalcInStep'
  BY <1>1, <1>2 DEF IndicatorInv, CalcInStep, Alone
<1>5. RowsGapless'
  BY <1>2 DEF IndicatorInv, RowsGapless, Alone
<1> QED BY <1>3, <1>4, <1>5 DEF IndicatorInv

LEMMA StartCalculatorInv ==
    ASSUME IndicatorInv, NEW p \in Calculators, StartCalculator(p) PROVE IndicatorInv'
<1> DEFINE c == [calc[p] EXCEPT !.pc = "read"]
<1>1. /\ calc[p] \in Calculator /\ calc[p].pc = "down" /\ calc[p].batch = <<>>
      /\ closes[p] \in Windows /\ \A s \in Symbols : Len(closes[p][s]) <= Window
  BY CalculatorIs DEF StartCalculator
<1>2. c \in Calculator /\ c.pc = "read" /\ c.batch = <<>>
  BY <1>1 DEF Calculator
<1>3. candleStream' \in StreamType(MaxCandles) /\ candleStream'.last <= candleStream'.size
  <2>1. candleStream \in StreamType(MaxCandles) /\ candleStream.last <= candleStream.size
    BY CalculatorIs
  <2> QED BY <2>1, StreamMoves DEF StartCalculator
<1>4. calc' = [calc EXCEPT ![p] = c] /\ closes' = [closes EXCEPT ![p] = closes[p]]
      /\ UNCHANGED <<indicators, calcFaults>>
  BY CalculatorIs DEF StartCalculator
<1> HIDE DEF c
<1>5. ASSUME Alone PROVE InStep(c, closes[p], candleStream'.last)
  <2>1. \A s \in Symbols : closes[p][s] = <<>>
    BY <1>1, <1>5, CalculatorIs DEF InStep
  <2>2. \A s \in Symbols : Len(closes[p][s]) = 0
    BY <2>1
  <2>3. \A s \in Symbols : \A q : Gapless(closes[p][s], s, q)
    BY <2>1, <2>2 DEF Gapless
  <2>4. Len(c.batch) = 0 /\ c.pc \notin Handling
    BY <1>2 DEF Handling
  <2> QED BY <1>2, <2>3, <2>4 DEF InStep
<1>6. calcFaults \in 0..MaxCalcFaults /\ DOMAIN indicators \subseteq (1..MaxCandles) \X {"sma", "ema"}
  BY CalculatorIs
<1> QED BY <1>1, <1>2, <1>3, <1>4, <1>5, <1>6, CalculatorMoves

LEMMA ReadCandlesInv ==
    ASSUME IndicatorInv, NEW p \in Calculators, ReadCandles(p) PROVE IndicatorInv'
<1> DEFINE u == Unread(candleStream, CandleBatch)
           c == [pc |-> "update", batch |-> u]
<1>1. /\ calc[p].pc = "read" /\ calc[p].batch = <<>> /\ closes[p] \in Windows
      /\ \A s \in Symbols : Len(closes[p][s]) <= Window
      /\ candleStream \in StreamType(MaxCandles) /\ candleStream.last < candleStream.size
  BY CalculatorIs DEF ReadCandles
<1>2. /\ u \in Seq(1..MaxCandles) /\ u # <<>>
      /\ candleStream' \in StreamType(MaxCandles) /\ candleStream'.last <= candleStream'.size
      /\ candleStream'.last = candleStream.last + Len(u)
      /\ \A i \in 1..Len(u) : u[i] = candleStream.last + i
  <2>1. candleStream' = XReadGroup(candleStream, CandleBatch)
    BY DEF ReadCandles
  <2> QED BY <1>1, <2>1, UnreadInOrder
<1>3. calc' = [calc EXCEPT ![p] = c] /\ closes' = [closes EXCEPT ![p] = closes[p]]
      /\ UNCHANGED <<indicators, calcFaults>>
  BY CalculatorIs DEF ReadCandles
<1> HIDE DEF u
<1>4. c \in Calculator /\ c.pc = "update" /\ c.batch = u
  BY <1>2 DEF Calculator
<1> HIDE DEF c
<1>5. ASSUME Alone PROVE InStep(c, closes[p], candleStream'.last)
  <2>1. candleStream.last \in Nat /\ Len(u) \in Nat
    BY <1>1, <1>2 DEF StreamType
  <2>2. candleStream'.last - Len(u) = candleStream.last
    BY <1>2, <2>1
  <2>3. Pushed(c, candleStream'.last) = candleStream.last + 0
    BY <1>4, <2>2 DEF Pushed, Handling
  <2>4. Pushed(calc[p], candleStream.last) = candleStream.last + 0
    <3>1. Len(calc[p].batch) = 0 /\ calc[p].pc \notin Handling
      BY <1>1 DEF Handling
    <3> QED BY <2>1, <3>1 DEF Pushed
  <2>5. \A s \in Symbols : Gapless(closes[p][s], s, Pushed(c, candleStream'.last))
    BY <1>5, <2>3, <2>4, CalculatorIs DEF InStep
  <2>6. c.pc # "down" /\ c.pc \notin Handling
    BY <1>4 DEF Handling
  <2> QED BY <1>2, <1>4, <2>2, <2>5, <2>6 DEF InStep
<1>6. calcFaults \in 0..MaxCalcFaults /\ DOMAIN indicators \subseteq (1..MaxCandles) \X {"sma", "ema"}
  BY CalculatorIs
<1>7. c.batch = <<>> <=> c.pc \in {"down", "read"}
  BY <1>2, <1>4
<1> QED BY <1>1, <1>2, <1>3, <1>4, <1>5, <1>6, <1>7, CalculatorMoves

LEMMA UpdateWindowsInv ==
    ASSUME IndicatorInv, NEW p \in Calculators, UpdateWindows(p) PROVE IndicatorInv'
<1> USE IndicatorAssumption
<1> DEFINE b == calc[p].batch
           e == Candle(p)
           s == CandleSymbol(e)
           x == PushClose(closes[p][s], e)
           w == [closes[p] EXCEPT ![s] = x]
           c == [calc[p] EXCEPT !.pc = "sma"]
           last == candleStream.last
<1>1. /\ calc[p].pc = "update" /\ b \in Seq(1..MaxCandles) /\ b # <<>>
      /\ Len(b) \in Nat \ {0} /\ e = b[1] /\ e \in 1..MaxCandles /\ s \in Symbols
  BY CandleInHand DEF UpdateWindows
<1>2. /\ calc[p] \in Calculator /\ closes[p] \in Windows
      /\ \A t \in Symbols : Len(closes[p][t]) <= Window
      /\ Alone => InStep(calc[p], closes[p], last)
      /\ candleStream \in StreamType(MaxCandles) /\ last <= candleStream.size
  BY CalculatorIs
<1>3. calc' = [calc EXCEPT ![p] = c] /\ closes' = [closes EXCEPT ![p] = w]
      /\ UNCHANGED <<candleStream, indicators, calcFaults>>
  BY DEF UpdateWindows
<1>4. c \in Calculator /\ c.pc = "sma" /\ c.batch = b
  BY <1>2 DEF Calculator
<1> HIDE DEF c
<1>5. closes[p][s] \in Seq(1..MaxCandles) /\ Len(closes[p][s]) <= Window
  BY <1>1, <1>2 DEF Windows
<1>6. x \in Seq(1..MaxCandles) /\ Len(x) <= Window
  BY <1>1, <1>5, PushTyped
<1>7. /\ w \in Windows /\ w[s] = x
      /\ \A t \in Symbols : t # s => w[t] = closes[p][t]
  BY <1>1, <1>2, <1>6 DEF Windows
<1> HIDE DEF w
<1>8. \A t \in Symbols : Len(w[t]) <= Window
  BY <1>2, <1>6, <1>7
<1>9. ASSUME Alone PROVE InStep(c, w, last)
  <2>1. InStep(calc[p], closes[p], last)
    BY <1>2, <1>9
  <2>2. last \in Nat
    BY <1>2 DEF StreamType
  <2>3. e = last - Len(b) + 1
    BY <1>1, <2>1 DEF InStep
  <2> DEFINE q == last - Len(b)
  <2>4. q \in Nat /\ e = q + 1
    BY <1>1, <2>2, <2>3
  <2>5. Pushed(calc[p], last) = q /\ Pushed(c, last) = q + 1
    <3>1. "update" \notin Handling /\ "sma" \in Handling
      BY DEF Handling
    <3>2. Pushed(calc[p], last) = last - Len(b) + 0 /\ Pushed(c, last) = last - Len(b) + 1
      BY <1>1, <1>4, <3>1 DEF Pushed
    <3> QED BY <2>4, <3>2
  <2> HIDE DEF q
  <2>6. \A t \in Symbols : Gapless(closes[p][t], t, q)
    BY <2>1, <2>5 DEF InStep
  <2>7. x # <<>> /\ x[Len(x)] = e /\ Gapless(x, s, q + 1)
    BY <1>1, <1>5, <2>4, <2>6, PushKeepsGapless
  <2>8. ASSUME NEW t \in Symbols PROVE Gapless(w[t], t, q + 1)
    <3>1. CASE t = s
      BY <1>7, <2>7, <3>1
    <3>2. CASE t # s
      <4>1. closes[p][t] \in Seq(1..MaxCandles) /\ CandleSymbol(q + 1) # t
        BY <1>2, <2>4, <3>2 DEF Windows
      <4>2. Gapless(closes[p][t], t, q + 1)
        BY <2>4, <2>6, <4>1, OthersStayGapless
      <4> QED BY <1>7, <3>2, <4>2
    <3> QED BY <3>1, <3>2
  <2>9. \A i \in 1..Len(b) : b[i] = last - Len(b) + i
    BY <2>1 DEF InStep
  <2>10. w[CandleSymbol(Head(c.batch))] = x /\ Head(c.batch) = e
    BY <1>4, <1>7 DEF Candle
  <2>11. c.pc # "down"
    BY <1>4
  <2> HIDE DEF x, e, s, b, last
  <2> QED BY <1>4, <2>5, <2>7, <2>8, <2>9, <2>10, <2>11 DEF InStep
<1>10. calcFaults \in 0..MaxCalcFaults /\ DOMAIN indicators \subseteq (1..MaxCandles) \X {"sma", "ema"}
  BY CalculatorIs
<1>11. c.batch = <<>> <=> c.pc \in {"down", "read"}
  BY <1>1, <1>4
<1> QED BY <1>2, <1>3, <1>4, <1>7, <1>8, <1>9, <1>10, <1>11, CalculatorMoves

\* The average of the candle in hand leaves none out.
LEMMA ValueIsGood ==
    ASSUME IndicatorInv, NEW p \in Calculators, NEW type \in {"sma", "ema"}, calc[p].pc = type,
           Alone
    PROVE  GoodAverage(<<Candle(p), type>>, IndicatorValue(p, type))
<1> DEFINE k == <<Candle(p), type>>
           v == IndicatorValue(p, type)
           s == CandleSymbol(Candle(p))
<1>1. InStep(calc[p], closes[p], candleStream.last) /\ type \in Handling
  BY CalculatorIs DEF Handling
<1>2. s \in Symbols /\ Candle(p) = Head(calc[p].batch)
  BY CandleInHand DEF Candle
<1>3. closes[p][s] # <<>> /\ closes[p][s][Len(closes[p][s])] = Candle(p)
  BY <1>1, <1>2 DEF InStep
<1>4. Gapless(closes[p][s], s, Pushed(calc[p], candleStream.last))
  BY <1>1, <1>2 DEF InStep
<1>5. ASSUME k[2] = "sma", v # Warming PROVE v = closes[p][s]
  BY <1>5 DEF IndicatorValue
<1>6. k[1] = Candle(p)
  OBVIOUS
<1>7. \A i \in 1..Len(closes[p][s]) - 1 : i \in 1..Len(closes[p][s])
  <2>1. closes[p][s] \in Seq(1..MaxCandles)
    BY <1>2, CalculatorIs DEF Windows
  <2> QED BY <2>1
<1> HIDE DEF k, v
<1> QED BY <1>3, <1>4, <1>5, <1>6, <1>7 DEF GoodAverage, Gapless, k, v

LEMMA UpsertIndicatorInv ==
    ASSUME IndicatorInv, NEW p \in Calculators, NEW type \in {"sma", "ema"},
           NEW next \in {"ema", "ack"}, UpsertIndicator(p, type, next)
    PROVE  IndicatorInv'
<1> USE IndicatorAssumption
<1> DEFINE c == [calc[p] EXCEPT !.pc = next]
           k == <<Candle(p), type>>
<1>1. calc[p].pc = type /\ type \in Handling /\ next \in Handling
  BY DEF UpsertIndicator, Handling
<1>2. /\ c \in Calculator /\ c.batch # <<>> /\ c.pc \notin {"down", "read"}
      /\ Alone => InStep(c, closes[p], candleStream.last)
  BY <1>1, StepOfCandle
<1>3. calc' = [calc EXCEPT ![p] = c] /\ closes' = [closes EXCEPT ![p] = closes[p]]
      /\ UNCHANGED candleStream
  BY CalculatorIs DEF UpsertIndicator
<1>4. /\ closes[p] \in Windows /\ \A s \in Symbols : Len(closes[p][s]) <= Window
      /\ candleStream' \in StreamType(MaxCandles) /\ candleStream'.last <= candleStream'.size
      /\ calcFaults \in 0..MaxCalcFaults
      /\ DOMAIN indicators \subseteq (1..MaxCandles) \X {"sma", "ema"}
  BY <1>3, CalculatorIs
<1>5. k \in (1..MaxCandles) \X {"sma", "ema"}
  BY <1>1, CandleInHand DEF Handling
<1> HIDE DEF c
<1>6. CASE /\ indicators' = [j \in DOMAIN indicators \cup {k} |->
                               IF j = k THEN IndicatorValue(p, type) ELSE indicators[j]]
           /\ UNCHANGED calcFaults
  <2>1. DOMAIN indicators' = DOMAIN indicators \cup {k}
    BY <1>6
  <2>2. Alone => \A j \in DOMAIN indicators' :
                    \/ j \in DOMAIN indicators /\ indicators'[j] = indicators[j]
                    \/ GoodAverage(j, indicators'[j])
    <3> SUFFICES ASSUME Alone, NEW j \in DOMAIN indicators'
                 PROVE  \/ j \in DOMAIN indicators /\ indicators'[j] = indicators[j]
                        \/ GoodAverage(j, indicators'[j])
      OBVIOUS
    <3>1. CASE j = k
      <4>1. indicators'[j] = IndicatorValue(p, type)
        BY <1>6, <3>1
      <4>2. GoodAverage(k, IndicatorValue(p, type))
        BY <1>1, ValueIsGood
      <4> QED BY <3>1, <4>1, <4>2
    <3>2. CASE j # k
      BY <1>6, <2>1, <3>2
    <3> QED BY <3>1, <3>2
  <2>3. DOMAIN indicators' \subseteq (1..MaxCandles) \X {"sma", "ema"}
    BY <1>4, <1>5, <2>1
  <2>4. calcFaults' \in 0..MaxCalcFaults
    BY <1>4, <1>6
  <2> HIDE DEF k
  <2> QED BY <1>2, <1>3, <1>4, <2>2, <2>3, <2>4, CalculatorMoves
<1>7. CASE /\ calcFaults < MaxCalcFaults /\ calcFaults' = calcFaults + 1
           /\ UNCHANGED indicators
  <2>1. calcFaults' \in 0..MaxCalcFaults
    BY <1>4, <1>7
  <2> QED BY <1>2, <1>3, <1>4, <1>7, <2>1, CalculatorMoves
<1> QED BY <1>6, <1>7 DEF UpsertIndicator

LEMMA AckCandleInv ==
    ASSUME IndicatorInv, NEW p \in Calculators, AckCandle(p) PROVE IndicatorInv'
<1> USE IndicatorAssumption
<1> DEFINE b == calc[p].batch
           rest == Tail(b)
           c == [pc |-> IF rest = <<>> THEN "read" ELSE "update", batch |-> rest]
           last == candleStream.last
<1>1. /\ calc[p].pc = "ack" /\ b \in Seq(1..MaxCandles) /\ b # <<>>
      /\ Len(b) \in Nat \ {0} /\ Candle(p) \in 1..MaxCandles
  BY CandleInHand DEF AckCandle
<1>2. /\ rest \in Seq(1..MaxCandles) /\ Len(rest) = Len(b) - 1
      /\ \A i \in 1..Len(rest) : rest[i] = b[i + 1]
  BY <1>1, HeadTailProperties
<1>3. calc' = [calc EXCEPT ![p] = c] /\ closes' = [closes EXCEPT ![p] = closes[p]]
      /\ UNCHANGED indicators
  BY CalculatorIs DEF AckCandle, NextCandle
<1> HIDE DEF rest
<1>4. /\ c \in Calculator /\ c.batch = rest /\ c.pc \in {"read", "update"}
      /\ c.batch = <<>> <=> c.pc \in {"down", "read"}
  BY <1>2 DEF Calculator
<1> HIDE DEF c
<1>5. /\ closes[p] \in Windows /\ \A s \in Symbols : Len(closes[p][s]) <= Window
      /\ candleStream \in StreamType(MaxCandles) /\ last <= candleStream.size
      /\ calcFaults \in 0..MaxCalcFaults
      /\ DOMAIN indicators \subseteq (1..MaxCandles) \X {"sma", "ema"}
  BY CalculatorIs
<1>6. /\ candleStream' \in StreamType(MaxCandles) /\ candleStream'.last = last
      /\ candleStream'.size = candleStream.size
  <2>1. CASE candleStream' = XAck(candleStream, Candle(p))
    BY <1>1, <1>5, <2>1 DEF XAck, StreamType
  <2>2. CASE UNCHANGED candleStream
    BY <1>5, <2>2
  <2> QED BY <2>1, <2>2 DEF AckCandle
<1>7. calcFaults' \in 0..MaxCalcFaults
  BY <1>5 DEF AckCandle
<1>8. ASSUME Alone PROVE InStep(c, closes[p], last)
  <2>1. InStep(calc[p], closes[p], last) /\ last \in Nat
    BY <1>5, <1>8, CalculatorIs DEF StreamType
  <2>2. "ack" \in Handling /\ c.pc \notin Handling /\ c.pc # "down"
    BY <1>4 DEF Handling
  <2>3. Pushed(calc[p], last) = last - Len(b) + 1 /\ Pushed(c, last) = last - Len(rest) + 0
    BY <1>1, <1>4, <2>2 DEF Pushed
  <2>4. last - Len(rest) + 0 = last - Len(b) + 1
    BY <1>1, <1>2, <2>1
  <2>5. \A s \in Symbols : Gapless(closes[p][s], s, Pushed(c, last))
    BY <2>1, <2>3, <2>4 DEF InStep
  <2>6. ASSUME NEW i \in 1..Len(rest) PROVE rest[i] = last - Len(rest) + i
    <3>1. i + 1 \in 1..Len(b) /\ rest[i] = b[i + 1]
      BY <1>1, <1>2
    <3>2. b[i + 1] = last - Len(b) + (i + 1)
      BY <2>1, <3>1 DEF InStep
    <3> HIDE DEF last, b
    <3> QED BY <1>1, <1>2, <2>1, <3>1, <3>2
  <2> HIDE DEF last
  <2> QED BY <1>4, <2>2, <2>5, <2>6 DEF InStep
<1>9. candleStream'.last <= candleStream'.size /\ (Alone => InStep(c, closes[p], candleStream'.last))
  BY <1>5, <1>6, <1>8
<1> QED BY <1>3, <1>4, <1>5, <1>6, <1>7, <1>9, CalculatorMoves

LEMMA CalculatorCrashInv ==
    ASSUME IndicatorInv, NEW p \in Calculators, CalculatorCrash(p) PROVE IndicatorInv'
<1> USE IndicatorAssumption
<1> DEFINE c == [pc |-> "down", batch |-> <<>>]
           w == [s \in Symbols |-> <<>>]
<1>1. calc' = [calc EXCEPT ![p] = c] /\ closes' = [closes EXCEPT ![p] = w]
      /\ UNCHANGED <<candleStream, indicators>>
  BY DEF CalculatorCrash
<1>2. /\ c \in Calculator /\ c.pc = "down" /\ c.batch = <<>>
      /\ w \in Windows /\ \A s \in Symbols : w[s] = <<>>
  BY DEF Calculator, Windows
<1>3. \A s \in Symbols : Len(w[s]) = 0
  BY <1>2
<1> HIDE DEF c, w
<1>4. InStep(c, w, candleStream'.last)
  <2>1. Len(c.batch) = 0 /\ c.pc \notin Handling
    BY <1>2 DEF Handling
  <2>2. \A s \in Symbols : \A q : Gapless(w[s], s, q)
    BY <1>2, <1>3 DEF Gapless
  <2> QED BY <1>2, <2>1, <2>2 DEF InStep
<1>5. /\ candleStream \in StreamType(MaxCandles) /\ candleStream.last <= candleStream.size
      /\ calcFaults \in 0..MaxCalcFaults
      /\ DOMAIN indicators \subseteq (1..MaxCandles) \X {"sma", "ema"}
  BY CalculatorIs
<1>6. calcFaults' \in 0..MaxCalcFaults /\ \A s \in Symbols : Len(w[s]) <= Window
  BY <1>3, <1>5 DEF CalculatorCrash
<1> QED BY <1>1, <1>2, <1>4, <1>5, <1>6, CalculatorMoves

LEMMA IndicatorStep == ASSUME IndicatorInv, [IndicatorNext]_indicatorVars PROVE IndicatorInv'
<1>1. CASE UNCHANGED indicatorVars
  <2>1. UNCHANGED <<candleStream, calc, closes, indicators, calcFaults>>
    BY <1>1 DEF indicatorVars
  <2>2. CalcShape'
    BY <2>1 DEF IndicatorInv, CalcShape, IndicatorTypeOK
  <2>3. CalcInStep' /\ RowsGapless'
    BY <2>1 DEF IndicatorInv, CalcInStep, RowsGapless, Alone
  <2> QED BY <2>2, <2>3 DEF IndicatorInv
<1>2. CASE CloseCandle
  BY <1>2, CloseCandleInv
<1>3. ASSUME NEW p \in Calculators,
             \/ StartCalculator(p) \/ ReadCandles(p) \/ UpdateWindows(p)
             \/ UpsertIndicator(p, "sma", "ema") \/ UpsertIndicator(p, "ema", "ack")
             \/ AckCandle(p) \/ CalculatorCrash(p)
      PROVE  IndicatorInv'
  BY <1>3, StartCalculatorInv, ReadCandlesInv, UpdateWindowsInv, UpsertIndicatorInv, AckCandleInv,
     CalculatorCrashInv
<1> QED BY <1>1, <1>2, <1>3 DEF IndicatorNext

LEMMA IndicatorInvSafe == IndicatorInv => IndicatorTypeOK /\ AveragesAreGapless
BY RowsAreAverages DEF IndicatorInv, CalcShape

\* An average the calculator writes (process-closed-candle.usecase.ts) is of the last
\* Window candles of its own symbol, with none left out, through crashes, failing
\* statements and entries that stay pending, as long as one calculator reads the group.
THEOREM AveragesHaveNoGap == IndicatorSpec => [](IndicatorTypeOK /\ AveragesAreGapless)
BY IndicatorInvSafe, IndicatorInitInv, IndicatorStep, PTL DEF IndicatorSpec

-----------------------------------------------------------------------------
(* Detector: alerts of one category are spaced.                            *)

Evaluation == [pc: {"deadLetters", "failedOrders", "raise", "insert", "dispatch"},
               found: Seq(Categories), alert: (Categories \X (1..MaxIntervals)) \cup {<<>>}]

\* An alert is on its way from the moment its window opens.
Raising == {"insert", "dispatch"}
AlertKnown(a, window) == a \in Categories \X (1..MaxIntervals) /\ a[2] <= window[a[1]]
Spaced(a, b) == a[1] = b[1] /\ a # b =>
                    a[2] >= b[2] + DedupIntervals \/ b[2] >= a[2] + DedupIntervals
Made == announced \cup alerts \cup
        {evaluation[i].alert : i \in {j \in 1..Len(evaluation) : evaluation[j].pc \in Raising}}

\* While nothing fails, an alert is no later than the last opening of its category's
\* window, and any two of a category are a window apart.
AlertsCounted ==
    alertFaults = 0 => /\ \A a \in Made : a[2] <= openWindow[a[1]]
                       /\ \A a, b \in Made : Spaced(a, b)

DetectorInv ==
    /\ DetectorTypeOK /\ evaluation \in Seq(Evaluation) /\ Len(evaluation) = interval
    /\ \A c \in Categories : openWindow[c] <= interval
    /\ Made \subseteq Categories \X (1..MaxIntervals)
    /\ AlertsCounted

LEMMA DetectorInitInv == ASSUME DetectorInit PROVE DetectorInv
<1>1. evaluation = <<>> /\ Len(evaluation) = 0 /\ evaluation \in Seq(Evaluation)
  BY DEF DetectorInit
<1>2. Made = {}
  BY <1>1 DEF DetectorInit, Made
<1>3. DetectorTypeOK
  BY <1>1, DetectorAssumption DEF DetectorInit, DetectorTypeOK
<1> QED BY <1>1, <1>2, <1>3, DetectorAssumption DEF DetectorInit, DetectorInv, AlertsCounted

\* A step of one evaluation.
LEMMA EvaluationBecomes ==
    ASSUME DetectorInv, NEW i \in 1..Len(evaluation), NEW e \in Evaluation,
           evaluation' = [evaluation EXCEPT ![i] = e]
    PROVE  /\ evaluation' \in Seq(Evaluation) /\ Len(evaluation') = Len(evaluation)
           /\ evaluation'[i] = e
           /\ \A j \in 1..Len(evaluation) : j # i => evaluation'[j] = evaluation[j]
           /\ \A j \in 1..Len(evaluation) : evaluation'[j].pc \in
                {"deadLetters", "failedOrders", "raise", "insert", "dispatch"}
<1>1. evaluation \in Seq(Evaluation)
  BY DEF DetectorInv
<1>2. evaluation' \in Seq(Evaluation) /\ Len(evaluation') = Len(evaluation)
  BY <1>1, ExceptSeq
<1>3. evaluation'[i] = e /\ \A j \in 1..Len(evaluation) : j # i => evaluation'[j] = evaluation[j]
  BY <1>1
<1>4. \A j \in 1..Len(evaluation) : evaluation'[j] \in Evaluation
  BY <1>2, ElementOfSeq
<1> QED BY <1>2, <1>3, <1>4 DEF Evaluation

LEMMA EvaluationTyped ==
    ASSUME DetectorInv, NEW i \in 1..Len(evaluation)
    PROVE  /\ evaluation[i] \in Evaluation /\ i \in Nat
           /\ evaluation[i].pc \in Raising => evaluation[i].alert \in Made
<1>1. evaluation \in Seq(Evaluation)
  BY DEF DetectorInv
<1>2. evaluation[i] \in Evaluation
  BY <1>1, ElementOfSeq
<1>3. i \in Nat
  BY <1>1
<1>4. evaluation[i].pc \in Raising => evaluation[i].alert \in Made
  BY DEF Made
<1> QED BY <1>2, <1>3, <1>4

\* A step that makes no new alert.
LEMMA NothingMade ==
    ASSUME DetectorInv, DetectorTypeOK', evaluation' \in Seq(Evaluation),
           Len(evaluation') = interval', Made' \subseteq Made,
           interval' \in Nat, interval' >= interval,
           alertFaults' = 0 => alertFaults = 0 /\ openWindow' = openWindow,
           \A c \in Categories : openWindow'[c] \in {0, openWindow[c]}
    PROVE  DetectorInv'
<1>1. interval \in Nat /\ \A c \in Categories : openWindow[c] \in Nat /\ openWindow[c] <= interval
  BY DetectorAssumption DEF DetectorInv, DetectorTypeOK
<1>2. \A c \in Categories : openWindow'[c] <= interval'
  BY <1>1
<1>3. AlertsCounted'
  BY DEF DetectorInv, AlertsCounted
<1> QED BY <1>2, <1>3 DEF DetectorInv

LEMMA IntervalPassesInv == ASSUME DetectorInv, IntervalPasses PROVE DetectorInv'
<1>1. PICK e : /\ e = [pc |-> "deadLetters", found |-> <<>>, alert |-> <<>>]
               /\ evaluation' = Append(evaluation, e)
  BY DEF IntervalPasses
<1>2. e \in Evaluation /\ e.pc = "deadLetters"
  BY <1>1 DEF Evaluation
<1>3. /\ evaluation' \in Seq(Evaluation) /\ Len(evaluation') = Len(evaluation) + 1
      /\ evaluation'[Len(evaluation) + 1] = e
      /\ \A j \in 1..Len(evaluation) : evaluation'[j] = evaluation[j]
  BY <1>1, <1>2, AppendProperties DEF DetectorInv
<1>4. Made' \subseteq Made
  <2>1. Len(evaluation) \in Nat
    BY DEF DetectorInv
  <2>2. \A j \in 1..Len(evaluation') : evaluation'[j].pc \in Raising =>
            j \in 1..Len(evaluation) /\ evaluation'[j] = evaluation[j]
    BY <1>2, <1>3, <2>1 DEF Raising
  <2> QED BY <2>2 DEF Made, IntervalPasses
<1>5. interval' = interval + 1 /\ interval \in Nat /\ interval' \in 0..MaxIntervals
  BY DetectorAssumption DEF IntervalPasses, DetectorInv, DetectorTypeOK
<1>6. \A j \in 1..Len(evaluation') : evaluation'[j] \in Evaluation
  BY <1>3, ElementOfSeq
<1>7. DetectorTypeOK'
  BY <1>5, <1>6 DEF DetectorInv, DetectorTypeOK, IntervalPasses, Evaluation
<1> QED BY <1>3, <1>4, <1>5, <1>7, NothingMade DEF IntervalPasses, DetectorInv

\* A step of one evaluation that makes no alert.
LEMMA EvaluationQuiet ==
    ASSUME DetectorInv, NEW i \in 1..Len(evaluation), NEW e \in Evaluation,
           evaluation' = [evaluation EXCEPT ![i] = e], UNCHANGED <<interval, openWindow>>,
           e.pc \in Raising => evaluation[i].pc \in Raising /\ e.alert = evaluation[i].alert,
           announced' \subseteq Made, alerts' \subseteq Made,
           alertFaults' \in 0..MaxAlertFaults, alertFaults' = 0 => alertFaults = 0
    PROVE  DetectorInv'
<1>1. /\ evaluation' \in Seq(Evaluation) /\ Len(evaluation') = Len(evaluation)
      /\ evaluation'[i] = e
      /\ \A j \in 1..Len(evaluation) : j # i => evaluation'[j] = evaluation[j]
      /\ \A j \in 1..Len(evaluation) : evaluation'[j].pc \in
           {"deadLetters", "failedOrders", "raise", "insert", "dispatch"}
  BY EvaluationBecomes
<1>2. \A j \in 1..Len(evaluation) : evaluation'[j].pc \in Raising => evaluation'[j].alert \in Made
  BY <1>1, EvaluationTyped
<1>3. Made' \subseteq Made
  BY <1>1, <1>2 DEF Made
<1>4. DetectorTypeOK'
  BY <1>1 DEF DetectorInv, DetectorTypeOK
<1>5. interval \in Nat
  BY DetectorAssumption DEF DetectorInv, DetectorTypeOK
<1> QED BY <1>1, <1>3, <1>4, <1>5, NothingMade DEF DetectorInv

LEMMA RuleInv ==
    ASSUME DetectorInv, NEW i \in 1..Len(evaluation), NEW pc, NEW category \in Categories,
           NEW next \in {"failedOrders", "raise"}, Rule(i, pc, category, next)
    PROVE  DetectorInv'
<1>1. evaluation[i] \in Evaluation
  BY EvaluationTyped
<1>2. PICK e \in Evaluation : e.pc = next /\ evaluation' = [evaluation EXCEPT ![i] = e]
  <2>1. CASE evaluation' = [evaluation EXCEPT ![i].pc = next]
    <3>1. PICK e : e = [evaluation[i] EXCEPT !.pc = next]
      OBVIOUS
    <3>2. e \in Evaluation /\ e.pc = next
      BY <1>1, <3>1 DEF Evaluation
    <3> QED BY <2>1, <3>1, <3>2
  <2>2. CASE evaluation' = [evaluation EXCEPT ![i].pc = next, ![i].found = Append(@, category)]
    <3>1. PICK e : e = [evaluation[i] EXCEPT !.pc = next, !.found = Append(evaluation[i].found, category)]
      OBVIOUS
    <3>2. Append(evaluation[i].found, category) \in Seq(Categories)
      BY <1>1, AppendProperties DEF Evaluation
    <3>3. e \in Evaluation /\ e.pc = next
      BY <1>1, <3>1, <3>2 DEF Evaluation
    <3> QED BY <2>2, <3>1, <3>3
  <2> QED BY <2>1, <2>2 DEF Rule
<1> QED BY <1>2, EvaluationQuiet DEF Rule, Raising, Made, DetectorInv, DetectorTypeOK

LEMMA InsertAlertInv ==
    ASSUME DetectorInv, NEW i \in 1..Len(evaluation), InsertAlert(i) \/ DispatchAlert(i)
    PROVE  DetectorInv'
<1>1. evaluation[i] \in Evaluation /\ evaluation[i].pc \in Raising /\ evaluation[i].alert \in Made
  BY EvaluationTyped DEF InsertAlert, DispatchAlert, Raising
<1>2. PICK e \in Evaluation : /\ e.alert = evaluation[i].alert
                              /\ evaluation' = [evaluation EXCEPT ![i] = e]
  <2>1. PICK pc \in {"dispatch", "raise"} : evaluation' = [evaluation EXCEPT ![i].pc = pc]
    BY DEF InsertAlert, DispatchAlert
  <2>2. PICK e : e = [evaluation[i] EXCEPT !.pc = pc]
    OBVIOUS
  <2>3. e \in Evaluation /\ e.alert = evaluation[i].alert
    BY <1>1, <2>2 DEF Evaluation
  <2> QED BY <2>1, <2>2, <2>3
<1>3. /\ UNCHANGED <<interval, openWindow>> /\ announced' \subseteq Made /\ alerts' \subseteq Made
      /\ alertFaults' \in 0..MaxAlertFaults /\ (alertFaults' = 0 => alertFaults = 0)
  <2>1. alertFaults \in 0..MaxAlertFaults /\ MaxAlertFaults \in Nat
    BY DetectorAssumption DEF DetectorInv, DetectorTypeOK
  <2> QED BY <1>1, <2>1 DEF InsertAlert, DispatchAlert, Made
<1> QED BY <1>1, <1>2, <1>3, EvaluationQuiet

\* raise: a window opens only when the one before is over.
LEMMA RaiseInv ==
    ASSUME DetectorInv, NEW i \in 1..Len(evaluation), Raise(i)
    PROVE  DetectorInv'
<1>1. PICK c \in Categories, rest \in Seq(Categories) :
        c = Head(evaluation[i].found) /\ rest = Tail(evaluation[i].found)
  <2>1. evaluation[i].found \in Seq(Categories) /\ evaluation[i].found # <<>>
    BY EvaluationTyped DEF Raise, Evaluation
  <2> QED BY <2>1, HeadTailProperties
<1>2. evaluation[i] \in Evaluation /\ evaluation[i].pc = "raise"
      /\ UNCHANGED <<interval, alerts, announced, alertFaults>>
  BY EvaluationTyped DEF Raise
<1>3. CASE Suppressed(c)
  <2>1. PICK e : e = [evaluation[i] EXCEPT !.found = rest]
    OBVIOUS
  <2>2. e \in Evaluation /\ e.pc = "raise"
    BY <1>2, <2>1 DEF Evaluation
  <2>3. evaluation' = [evaluation EXCEPT ![i] = e] /\ openWindow' = openWindow
    BY <1>1, <1>3, <2>1 DEF Raise
  <2> QED BY <1>2, <2>2, <2>3, EvaluationQuiet DEF Raising, Made, DetectorInv, DetectorTypeOK
<1>4. CASE ~Suppressed(c)
  <2> DEFINE a == <<c, interval>>
  <2>1. PICK e : e = [evaluation[i] EXCEPT !.pc = "insert", !.found = rest, !.alert = a]
    OBVIOUS
  <2>2. interval \in 1..MaxIntervals /\ openWindow \in [Categories -> 0..MaxIntervals] /\ MaxIntervals \in Nat
    BY DetectorAssumption DEF DetectorInv, DetectorTypeOK
  <2>3. e \in Evaluation /\ e.pc = "insert" /\ e.alert = a /\ a \in Categories \X (1..MaxIntervals)
    BY <1>2, <2>1, <2>2 DEF Evaluation
  <2>4. evaluation' = [evaluation EXCEPT ![i] = e] /\ openWindow' = [openWindow EXCEPT ![c] = interval]
    BY <1>1, <1>4, <2>1 DEF Raise
  <2>5. /\ evaluation' \in Seq(Evaluation) /\ Len(evaluation') = Len(evaluation) /\ evaluation'[i] = e
        /\ \A j \in 1..Len(evaluation) : j # i => evaluation'[j] = evaluation[j]
        /\ \A j \in 1..Len(evaluation) : evaluation'[j].pc \in
             {"deadLetters", "failedOrders", "raise", "insert", "dispatch"}
    BY <2>3, <2>4, EvaluationBecomes
  <2>6. Made' \subseteq Made \cup {a}
    BY <1>2, <2>3, <2>5 DEF Made
  <2>7. DetectorTypeOK' /\ \A d \in Categories : openWindow'[d] <= interval'
    BY <1>2, <2>2, <2>4, <2>5 DEF DetectorInv, DetectorTypeOK
  <2>8. AlertsCounted'
    <3> SUFFICES ASSUME alertFaults = 0
                 PROVE  /\ \A b \in Made \cup {a} : b[2] <= openWindow'[b[1]]
                        /\ \A b, d \in Made \cup {a} : Spaced(b, d)
      BY <1>2, <2>6 DEF AlertsCounted
    <3>1. ASSUME NEW b \in Made
          PROVE  /\ b[1] \in Categories /\ b[2] \in 1..MaxIntervals /\ b[2] <= openWindow[b[1]]
                 /\ openWindow[b[1]] \in Nat /\ openWindow[b[1]] <= interval
      BY <2>2 DEF DetectorInv, AlertsCounted
    <3>2. ASSUME NEW b \in Made, b[1] = c PROVE interval >= b[2] + DedupIntervals
      <4>1. openWindow[c] # 0 /\ openWindow[c] \in Nat /\ b[2] <= openWindow[c] /\ b[2] \in Nat
            /\ openWindow[c] <= interval
        BY <3>1, <3>2
      <4>2. interval - openWindow[c] >= DedupIntervals
        BY <1>4, <2>2, <4>1, DetectorAssumption DEF Suppressed
      <4> QED BY <2>2, <4>1, <4>2, DetectorAssumption
    <3>3. \A b \in Made \cup {a} : b[2] <= openWindow'[b[1]]
      BY <2>2, <2>4, <3>1
    <3>4. \A b \in Made : Spaced(b, a) /\ Spaced(a, b)
      BY <3>2 DEF Spaced
    <3>5. Spaced(a, a) /\ \A b, d \in Made : Spaced(b, d)
      BY DEF Spaced, DetectorInv, AlertsCounted
    <3> QED BY <3>3, <3>4, <3>5
  <2> QED BY <1>2, <2>3, <2>5, <2>6, <2>7, <2>8 DEF DetectorInv
<1> QED BY <1>3, <1>4

LEMMA DetectorRestartInv == ASSUME DetectorInv, DetectorRestart PROVE DetectorInv'
<1>1. PICK e : e = [pc |-> "raise", found |-> <<>>, alert |-> <<>>]
  OBVIOUS
<1>2. e \in Evaluation /\ e.pc = "raise"
  BY <1>1 DEF Evaluation
<1>3. evaluation' = [j \in 1..Len(evaluation) |-> e] /\ Len(evaluation) \in Nat
  BY <1>1 DEF DetectorRestart, DetectorInv
<1>4. evaluation' \in Seq(Evaluation) /\ Len(evaluation') = Len(evaluation)
  BY <1>2, <1>3
<1>5. \A j \in 1..Len(evaluation') : evaluation'[j] = e
  BY <1>3, <1>4
<1>6. Made' \subseteq Made
  BY <1>2, <1>5 DEF Made, DetectorRestart, Raising
<1>7. /\ openWindow' \in [Categories -> 0..MaxIntervals] /\ \A c \in Categories : openWindow'[c] = 0
      /\ alertFaults' \in 0..MaxAlertFaults /\ alertFaults' # 0 /\ interval \in Nat /\ interval' = interval
  BY DetectorAssumption DEF DetectorRestart, DetectorInv, DetectorTypeOK
<1>8. DetectorTypeOK'
  BY <1>2, <1>5, <1>7 DEF DetectorRestart, DetectorInv, DetectorTypeOK
<1> QED BY <1>4, <1>6, <1>7, <1>8, NothingMade DEF DetectorInv

LEMMA DetectorStep == ASSUME DetectorInv, [DetectorNext]_detectorVars PROVE DetectorInv'
<1>1. CASE UNCHANGED detectorVars
  <2>1. Made' = Made
    BY <1>1 DEF Made, detectorVars
  <2> QED BY <1>1, <2>1 DEF detectorVars, DetectorInv, DetectorTypeOK, AlertsCounted
<1>2. ASSUME NEW i \in 1..Len(evaluation),
             \/ Rule(i, "deadLetters", "dead-letter-spike", "failedOrders")
             \/ Rule(i, "failedOrders", "order-rejection-spike", "raise")
             \/ Raise(i) \/ InsertAlert(i) \/ DispatchAlert(i)
      PROVE  DetectorInv'
  BY <1>2, RuleInv, RaiseInv, InsertAlertInv DEF Categories
<1> QED BY <1>1, <1>2, IntervalPassesInv, DetectorRestartInv DEF DetectorNext

LEMMA DetectorInvSafe == DetectorInv => DetectorTypeOK /\ AlertsAreSpaced
BY DEF DetectorInv, AlertsCounted, AlertsAreSpaced, Spaced, Made

\* Detector.AlertsAreSpaced for any number of intervals, overlapping evaluations and
\* any window: without a failure no category is raised twice within its window,
\* although an alert is written and announced after the window was opened.
THEOREM AlertsStaySpaced == DetectorSpec => [](DetectorTypeOK /\ AlertsAreSpaced)
BY DetectorInitInv, DetectorStep, DetectorInvSafe, PTL DEF DetectorSpec

-----------------------------------------------------------------------------
(* SignalPlacement: the unique index on the client order id makes          *)
(* redelivered and overlapping runs of a hinted signal open at most one    *)
(* order, and only faults leave an open order that is reported as failed.  *)

Ended == {"returned", "thrown", "died"}

\* A run that got past its order_attempt row: it may have an order.
Past(r) == place[r] \in {"call", "accept", "publish", "fail"} \/ r \in brokerOrders

\* An open order that is, or is about to be, reported as failed.
Suspicious(r) ==
    /\ r \in brokerOrders
    /\ place[r] = "fail" \/ r \in failedEvents \/ attempt[ClientOrderId(r)] = "failed"
Suspects == {r \in Runs : Suspicious(r)}

\* One run at most is past the row of a client order id.
OneRunPerAttempt ==
    \A r, q \in Runs :
        /\ Past(r) => attempt[ClientOrderId(r)] # "none"
        /\ Past(r) /\ Past(q) /\ ClientOrderId(r) = ClientOrderId(q) => r = q

\* What a run has done, by where it is.
RunsAreOrderly ==
    \A r \in Runs :
        /\ place[r] \in {"call", "accept"} => attempt[ClientOrderId(r)] = "pending"
        /\ place[r] = "call" => r \notin brokerOrders
        /\ r \in failedEvents => place[r] \in Ended
        /\ r \in brokerOrders => place[r] \in {"accept", "publish", "fail"} \cup Ended
        /\ r[2] > deliveries[r[1]] => place[r] = "none"

\* Faults pay for the suspects.
SuspectsAreFaults == IsFiniteSet(Suspects) /\ Cardinality(Suspects) <= signalFaults

\* The inductive invariant.
SignalInv == SignalTypeOK /\ OneRunPerAttempt /\ RunsAreOrderly /\ SuspectsAreFaults

-----------------------------------------------------------------------------
\* The client order id of a run.
LEMMA ClientOrderIdType ==
    ASSUME NEW r \in Runs PROVE ClientOrderId(r) \in ClientOrderIds
BY SignalAssumption DEF Runs, ClientOrderIds, ClientOrderId

\* A set with at most one member.
LEMMA AtMostOne ==
    ASSUME NEW S, \A x, y \in S : x = y PROVE Cardinality(S) <= 1
<1>1. CASE S = {}
  BY <1>1, FS_EmptySet
<1>2. CASE S # {}
  <2>1. PICK x \in S : TRUE
    BY <1>2
  <2>2. S = {x}
    BY <2>1
  <2>3. Cardinality({x}) = 1
    BY FS_Singleton
  <2> QED BY <2>2, <2>3
<1> QED BY <1>1, <1>2

\* The initial state: no run, no order.
LEMMA SignalInvInit == SignalInit => SignalInv
<1> SUFFICES ASSUME SignalInit PROVE SignalInv
  OBVIOUS
<1> USE SignalAssumption
<1>1. SignalTypeOK
  <2>1. place \in [Runs -> PlacePcs]
    BY DEF SignalInit, PlacePcs
  <2>2. deliveries \in [Signals -> 0..MaxDeliveries] /\ signalFaults \in 0..MaxSignalFaults
    BY DEF SignalInit
  <2> QED BY <2>1, <2>2 DEF SignalInit, SignalTypeOK
<1>2. \A r \in Runs : place[r] = "none" /\ r \notin brokerOrders /\ r \notin failedEvents
  BY DEF SignalInit
<1>3. OneRunPerAttempt
  BY <1>2 DEF OneRunPerAttempt, Past
<1>4. RunsAreOrderly
  BY <1>2 DEF RunsAreOrderly
<1>5. SuspectsAreFaults
  <2>1. Suspects = {} /\ signalFaults = 0
    BY <1>2 DEF Suspects, Suspicious, SignalInit
  <2> QED BY <2>1, FS_EmptySet DEF SuspectsAreFaults
<1> QED BY <1>1, <1>3, <1>4, <1>5 DEF SignalInv

-----------------------------------------------------------------------------
\* A step of one run: what it must say of that run, the others follow.
LEMMA SignalRunMoves ==
    ASSUME SignalInv, SignalTypeOK', NEW r \in Runs,
           UNCHANGED <<signal, deliveries>>,
           \A q \in Runs : q # r => place'[q] = place[q],
           place[r] # "none",
           brokerOrders' = brokerOrders \/ brokerOrders' = brokerOrders \cup {r},
           failedEvents' = failedEvents \/ failedEvents' = failedEvents \cup {r},
           \A c \in ClientOrderIds : c # ClientOrderId(r) => attempt'[c] = attempt[c],
           attempt' = attempt \/ Past(r) \/ attempt[ClientOrderId(r)] = "none",
           attempt[ClientOrderId(r)] # "none" => attempt'[ClientOrderId(r)] # "none",
           Past(r)' => Past(r) \/ attempt[ClientOrderId(r)] = "none",
           Past(r)' => attempt'[ClientOrderId(r)] # "none",
           place'[r] \in {"call", "accept"} => attempt'[ClientOrderId(r)] = "pending",
           place'[r] = "call" => r \notin brokerOrders',
           r \in failedEvents' => place'[r] \in Ended,
           r \in brokerOrders' => place'[r] \in {"accept", "publish", "fail"} \cup Ended,
           \/ signalFaults' = signalFaults /\ (Suspicious(r)' => Suspicious(r))
           \/ signalFaults' = signalFaults + 1
    PROVE  SignalInv'
<1>0. SignalTypeOK /\ OneRunPerAttempt /\ RunsAreOrderly /\ SuspectsAreFaults
  BY DEF SignalInv
<1>1. \A q \in Runs : ClientOrderId(q)' = ClientOrderId(q) /\ ClientOrderId(q) \in ClientOrderIds
  BY ClientOrderIdType DEF ClientOrderId
<1> DEFINE id(q) == ClientOrderId(q)
<1>2. \A q \in Runs : q # r => (Past(q)' <=> Past(q))
  BY DEF Past
<1>3. \A q \in Runs : q # r /\ Past(q) => attempt'[id(q)] = attempt[id(q)]
  <2> SUFFICES ASSUME NEW q \in Runs, q # r, Past(q) PROVE attempt'[id(q)] = attempt[id(q)]
    OBVIOUS
  <2>1. CASE id(q) # id(r)
    BY <1>1, <2>1
  <2>2. CASE id(q) = id(r)
    <3>1. ~Past(r) /\ attempt[id(r)] # "none"
      BY <1>0, <2>2 DEF OneRunPerAttempt
    <3> QED BY <3>1
  <2> QED BY <2>1, <2>2
<1> HIDE DEF id
<1>4. OneRunPerAttempt'
  <2>1. ASSUME NEW q \in Runs, Past(q)' PROVE attempt'[id(q)] # "none"
    BY <1>0, <1>2, <1>3, <2>1 DEF OneRunPerAttempt, id
  <2>2. ASSUME NEW q \in Runs, NEW s \in Runs, Past(q)', Past(s)', id(q) = id(s) PROVE q = s
    <3>1. CASE q # r /\ s # r
      BY <1>0, <1>2, <2>2, <3>1 DEF OneRunPerAttempt, id
    <3>2. ASSUME NEW t \in Runs, t # r, Past(t), id(t) = id(r), Past(r)' PROVE FALSE
      <4>1. attempt[id(r)] # "none"
        BY <1>0, <3>2 DEF OneRunPerAttempt, id
      <4>2. Past(r)
        BY <3>2, <4>1 DEF id
      <4> QED BY <1>0, <3>2, <4>2 DEF OneRunPerAttempt, id
    <3> QED BY <1>2, <2>2, <3>1, <3>2
  <2> QED BY <1>1, <2>1, <2>2 DEF OneRunPerAttempt, id
<1>5. RunsAreOrderly'
  <2>1. ASSUME NEW q \in Runs
        PROVE  /\ place'[q] \in {"call", "accept"} => attempt'[id(q)] = "pending"
               /\ place'[q] = "call" => q \notin brokerOrders'
               /\ q \in failedEvents' => place'[q] \in Ended
               /\ q \in brokerOrders' => place'[q] \in {"accept", "publish", "fail"} \cup Ended
               /\ q[2] > deliveries'[q[1]] => place'[q] = "none"
    <3>1. CASE q = r
      BY <1>0, <3>1 DEF RunsAreOrderly, id
    <3>2. CASE q # r
      <4>1. place[q] \in {"call", "accept"} => attempt'[id(q)] = attempt[id(q)]
        BY <1>3, <3>2 DEF Past
      <4> QED BY <1>0, <3>2, <4>1 DEF RunsAreOrderly, id
    <3> QED BY <3>1, <3>2
  <2> QED BY <1>1, <2>1 DEF RunsAreOrderly, id
<1>6. SuspectsAreFaults'
  <2>1. \A q \in Runs : q # r /\ Suspicious(q)' => Suspicious(q)
    <3> SUFFICES ASSUME NEW q \in Runs, q # r, Suspicious(q)' PROVE Suspicious(q)
      OBVIOUS
    <3>1. q \in brokerOrders /\ Past(q)
      BY DEF Suspicious, Past
    <3>2. attempt'[id(q)] = attempt[id(q)]
      BY <1>3, <3>1
    <3> QED BY <1>1, <3>1, <3>2 DEF Suspicious, id
  <2>2. IsFiniteSet(Suspects) /\ Cardinality(Suspects) <= signalFaults /\ signalFaults \in Nat
    BY <1>0, SignalAssumption DEF SuspectsAreFaults, SignalTypeOK
  <2>3. Cardinality(Suspects) \in Nat
    BY <2>2, FS_CardinalityType
  <2>4. CASE signalFaults' = signalFaults /\ (Suspicious(r)' => Suspicious(r))
    <3>1. Suspects' \in SUBSET Suspects
      BY <2>1, <2>4 DEF Suspects
    <3>2. IsFiniteSet(Suspects') /\ Cardinality(Suspects') <= Cardinality(Suspects)
      BY <2>2, <3>1, FS_Subset
    <3>3. Cardinality(Suspects') \in Nat
      BY <3>2, FS_CardinalityType
    <3> QED BY <2>2, <2>3, <2>4, <3>2, <3>3 DEF SuspectsAreFaults
  <2>5. CASE signalFaults' = signalFaults + 1
    <3> DEFINE T == Suspects \cup {r}
    <3>1. Suspects' \in SUBSET T
      BY <2>1 DEF Suspects
    <3>2. IsFiniteSet(T) /\ Cardinality(T) = IF r \in Suspects THEN Cardinality(Suspects)
                                             ELSE Cardinality(Suspects) + 1
      BY <2>2, FS_AddElement
    <3> HIDE DEF T
    <3>3. IsFiniteSet(Suspects') /\ Cardinality(Suspects') <= Cardinality(T)
      BY <3>1, <3>2, FS_Subset
    <3>4. Cardinality(Suspects') \in Nat
      BY <3>3, FS_CardinalityType
    <3> QED BY <2>2, <2>3, <2>5, <3>2, <3>3, <3>4 DEF SuspectsAreFaults
  <2> QED BY <2>4, <2>5
<1> QED BY <1>4, <1>5, <1>6 DEF SignalInv

-----------------------------------------------------------------------------
\* Every step keeps the types.
LEMMA SignalTypeStep ==
    ASSUME SignalTypeOK, [SignalNext]_signalVars PROVE SignalTypeOK'
<1> USE SignalAssumption DEF SignalTypeOK
<1>1. CASE UNCHANGED signalVars
  BY <1>1 DEF signalVars
<1>2. ASSUME NEW s \in Signals, Deliver(s) PROVE SignalTypeOK'
  <2>1. deliveries[s] \in 0..MaxDeliveries /\ deliveries[s] < MaxDeliveries
    BY <1>2 DEF Deliver
  <2>2. deliveries[s] + 1 \in 0..MaxDeliveries
    BY <2>1
  <2>3. deliveries' \in [Signals -> 0..MaxDeliveries]
    BY <1>2, <2>2 DEF Deliver
  <2>4. place' \in [Runs -> PlacePcs]
    BY <1>2 DEF Deliver, MoveTo, PlacePcs
  <2> QED BY <1>2, <2>3, <2>4 DEF Deliver
<1>3. ASSUME NEW r \in Runs, PlaceStep(r) \/ SignalFails(r) PROVE SignalTypeOK'
  <2>1. r[1] \in Signals /\ ClientOrderId(r) \in ClientOrderIds
    BY ClientOrderIdType DEF Runs
  <2>2. CASE Validate(r)
    BY <2>2 DEF Validate, MoveTo, PlacePcs
  <2>3. CASE ReportUnresolved(r)
    BY <2>3 DEF ReportUnresolved, MoveTo, PlacePcs
  <2>4. CASE FindAttempt(r)
    BY <2>1, <2>4 DEF FindAttempt, MoveTo, PlacePcs
  <2>5. CASE SaveAttempt(r)
    BY <2>1, <2>5 DEF SaveAttempt, MoveTo, PlacePcs
  <2>6. CASE CallVendor(r)
    BY <2>6 DEF CallVendor, MoveTo, PlacePcs
  <2>7. CASE MarkAccepted(r)
    BY <2>1, <2>7 DEF MarkAccepted, UpdateAttempt, MoveTo, PlacePcs
  <2>8. CASE PublishPlaced(r)
    BY <2>1, <2>8 DEF PublishPlaced, MoveTo, PlacePcs
  <2>9. CASE MarkAttemptFailed(r)
    BY <2>1, <2>9 DEF MarkAttemptFailed, UpdateAttempt, MoveTo, PlacePcs
  <2>10. CASE SignalFails(r)
    <3>1. signalFaults' \in 0..MaxSignalFaults
      BY <2>10 DEF SignalFails
    <3>2. place' \in [Runs -> PlacePcs] /\ brokerOrders' \subseteq Runs
      BY <2>10 DEF SignalFails, MoveTo, PlacePcs
    <3> QED BY <2>10, <3>1, <3>2 DEF SignalFails
  <2> QED BY <1>3, <2>2, <2>3, <2>4, <2>5, <2>6, <2>7, <2>8, <2>9, <2>10 DEF PlaceStep
<1> QED BY <1>1, <1>2, <1>3 DEF SignalNext

\* The queue runs a job: the new run has done nothing yet.
LEMMA DeliverStep ==
    ASSUME SignalInv, SignalTypeOK', NEW s \in Signals, Deliver(s) PROVE SignalInv'
<1> USE SignalAssumption
<1> DEFINE d == <<s, deliveries[s] + 1>>
<1>0. SignalTypeOK /\ OneRunPerAttempt /\ RunsAreOrderly /\ SuspectsAreFaults
  BY DEF SignalInv
<1>1. /\ UNCHANGED <<signal, attempt, brokerOrders, failedEvents, signalFaults>>
      /\ deliveries' = [deliveries EXCEPT ![s] = deliveries[s] + 1]
      /\ place' = [place EXCEPT ![d] = "validate"]
      /\ deliveries[s] \in 0..MaxDeliveries /\ deliveries[s] < MaxDeliveries
  BY <1>0 DEF Deliver, MoveTo, SignalTypeOK
<1>2. d \in Runs /\ d[1] = s /\ d[2] = deliveries[s] + 1
  <2>1. deliveries[s] + 1 \in 1..MaxDeliveries
    BY <1>1
  <2> QED BY <2>1 DEF Runs
<1>3. place[d] = "none"
  BY <1>0, <1>1, <1>2 DEF RunsAreOrderly
<1>4. d \notin brokerOrders /\ d \notin failedEvents
  BY <1>0, <1>2, <1>3 DEF RunsAreOrderly, Ended
<1> HIDE DEF d
<1>5. place'[d] = "validate" /\ \A q \in Runs : q # d => place'[q] = place[q]
  BY <1>0, <1>1, <1>2 DEF SignalTypeOK
<1>6. \A q \in Runs : ClientOrderId(q)' = ClientOrderId(q)
  BY <1>1 DEF ClientOrderId
<1>7. \A q \in Runs : (Past(q)' <=> Past(q)) /\ (Suspicious(q)' <=> Suspicious(q))
  BY <1>1, <1>3, <1>4, <1>5, <1>6 DEF Past, Suspicious
<1>8. OneRunPerAttempt'
  BY <1>0, <1>1, <1>6, <1>7 DEF OneRunPerAttempt
<1>9. RunsAreOrderly'
  <2>1. ASSUME NEW q \in Runs
        PROVE  q[2] > deliveries'[q[1]] => place'[q] = "none"
    <3>1. q[1] \in Signals /\ q[2] \in 1..MaxDeliveries /\ q = <<q[1], q[2]>>
      BY DEF Runs
    <3>2. CASE q[1] # s
      <4>1. deliveries'[q[1]] = deliveries[q[1]] /\ q # d
        BY <1>0, <1>1, <1>2, <3>1, <3>2 DEF SignalTypeOK
      <4> QED BY <1>0, <1>5, <4>1 DEF RunsAreOrderly
    <3>3. CASE q[1] = s
      <4>1. deliveries'[s] = deliveries[s] + 1 /\ deliveries[s] \in Nat
        BY <1>0, <1>1 DEF SignalTypeOK
      <4>2. q[2] > deliveries'[s] => q[2] > deliveries[s] /\ q # d
        BY <1>2, <3>1, <4>1
      <4> QED BY <1>0, <1>5, <3>3, <4>2 DEF RunsAreOrderly
    <3> QED BY <3>2, <3>3
  <2>2. ASSUME NEW q \in Runs
        PROVE  /\ place'[q] \in {"call", "accept"} => attempt[ClientOrderId(q)] = "pending"
               /\ place'[q] = "call" => q \notin brokerOrders
               /\ q \in failedEvents => place'[q] \in Ended
               /\ q \in brokerOrders => place'[q] \in {"accept", "publish", "fail"} \cup Ended
    <3>1. CASE q = d
      BY <1>4, <1>5, <3>1
    <3>2. CASE q # d
      BY <1>0, <1>5, <3>2 DEF RunsAreOrderly
    <3> QED BY <3>1, <3>2
  <2> QED BY <1>1, <1>6, <2>1, <2>2 DEF RunsAreOrderly
<1>10. SuspectsAreFaults'
  <2>1. Suspects' = Suspects
    BY <1>7 DEF Suspects
  <2> QED BY <1>0, <1>1, <2>1 DEF SuspectsAreFaults
<1> QED BY <1>8, <1>9, <1>10 DEF SignalInv

\* The steps of a run, each by what it changes.
LEMMA PlaceSteps ==
    ASSUME SignalInv, SignalTypeOK', NEW r \in Runs, PlaceStep(r) \/ SignalFails(r)
    PROVE  SignalInv'
<1>0. SignalTypeOK /\ OneRunPerAttempt /\ RunsAreOrderly
  BY DEF SignalInv
<1> DEFINE id == ClientOrderId(r)
<1>1. /\ id \in ClientOrderIds /\ id' = id /\ UNCHANGED <<signal, deliveries>>
      /\ attempt[id] \in {"none", "pending", "accepted", "failed"}
  <2>1. UNCHANGED <<signal, deliveries>>
    BY DEF PlaceStep, Validate, ReportUnresolved, FindAttempt, SaveAttempt, CallVendor,
           MarkAccepted, PublishPlaced, MarkAttemptFailed, SignalFails
  <2>2. id \in ClientOrderIds
    BY ClientOrderIdType
  <2>3. id' = id
    BY <2>1 DEF ClientOrderId
  <2> QED BY <1>0, <2>1, <2>2, <2>3 DEF SignalTypeOK
<1>2. /\ Past(r) => attempt[id] # "none"
      /\ place[r] \in {"call", "accept"} => attempt[id] = "pending"
      /\ place[r] = "call" => r \notin brokerOrders
      /\ r \in failedEvents => place[r] \in Ended
      /\ r \in brokerOrders => place[r] \in {"accept", "publish", "fail"} \cup Ended
  BY <1>0 DEF OneRunPerAttempt, RunsAreOrderly
<1>3. place[r] # "none"
  BY DEF PlaceStep, IsAt, Validate, ReportUnresolved, FindAttempt, SaveAttempt, CallVendor,
         MarkAccepted, PublishPlaced, MarkAttemptFailed, SignalFails
<1> HIDE DEF id
\* Where the run goes, and what it leaves alone.
<1>4. ASSUME NEW pc, MoveTo(r, pc)
      PROVE  place'[r] = pc /\ \A q \in Runs : q # r => place'[q] = place[q]
  BY <1>0, <1>4 DEF MoveTo, SignalTypeOK
\* A run that neither has nor gets an order, and leaves the attempts alone.
<1>5. ASSUME NEW pc \in {"thrown", "unresolved", "find", "save", "returned", "died"}, MoveTo(r, pc),
             place[r] \notin Ended, UNCHANGED <<attempt, brokerOrders>>,
             \/ failedEvents' = failedEvents
             \/ failedEvents' = failedEvents \cup {r} /\ pc = "thrown" /\ r \notin brokerOrders,
             r \in brokerOrders => pc \in Ended,
             signalFaults' = signalFaults \/ signalFaults' = signalFaults + 1
      PROVE  SignalInv'
  <2>1. place'[r] = pc /\ \A q \in Runs : q # r => place'[q] = place[q]
    BY <1>4, <1>5
  <2>2. (Past(r)' => Past(r)) /\ (Suspicious(r)' => Suspicious(r))
    BY <1>1, <1>2, <1>5, <2>1 DEF Past, Suspicious, id
  <2>3. /\ Past(r)' => attempt'[id] # "none"
        /\ place'[r] \notin {"call", "accept"}
        /\ r \in failedEvents' => place'[r] \in Ended
        /\ r \in brokerOrders' => place'[r] \in {"accept", "publish", "fail"} \cup Ended
    BY <1>2, <1>5, <2>1, <2>2 DEF Ended
  <2> QED BY <1>1, <1>3, <1>5, <2>1, <2>2, <2>3, SignalRunMoves DEF id
<1>6. CASE Validate(r)
  <2>1. PICK pc \in {"thrown", "unresolved", "find"} : MoveTo(r, pc)
    BY <1>6 DEF Validate
  <2> QED BY <1>2, <1>5, <1>6, <2>1 DEF Validate, IsAt, Ended
<1>7. CASE ReportUnresolved(r)
  BY <1>2, <1>5, <1>7 DEF ReportUnresolved, IsAt, Ended
<1>8. CASE FindAttempt(r)
  <2>1. PICK pc \in {"returned", "save"} : MoveTo(r, pc)
    BY <1>8 DEF FindAttempt
  <2> QED BY <1>2, <1>5, <1>8, <2>1 DEF FindAttempt, IsAt, Ended
<1>9. CASE SaveAttempt(r) /\ attempt[id] # "none"
  BY <1>2, <1>5, <1>9 DEF SaveAttempt, IsAt, Ended, id
<1>10. CASE SaveAttempt(r) /\ attempt[id] = "none"
  <2>1. /\ place[r] = "save" /\ attempt' = [attempt EXCEPT ![id] = "pending"] /\ MoveTo(r, "call")
        /\ UNCHANGED <<brokerOrders, failedEvents, signalFaults>>
    BY <1>10 DEF SaveAttempt, IsAt, id
  <2>2. place'[r] = "call" /\ \A q \in Runs : q # r => place'[q] = place[q]
    BY <1>4, <2>1
  <2>3. attempt'[id] = "pending" /\ \A c \in ClientOrderIds : c # id => attempt'[c] = attempt[c]
    BY <1>0, <1>1, <2>1 DEF SignalTypeOK
  <2>4. r \notin brokerOrders' /\ r \notin failedEvents' /\ ~Suspicious(r)'
    BY <1>2, <2>1 DEF Ended, Suspicious
  <2> QED BY <1>1, <1>3, <1>10, <2>1, <2>2, <2>3, <2>4, SignalRunMoves DEF id
\* The answer of the vendor, or its loss.
<1>11. ASSUME place[r] = "call", NEW pc \in {"accept", "fail"}, MoveTo(r, pc),
              UNCHANGED <<attempt, failedEvents>>,
              brokerOrders' = brokerOrders \/ brokerOrders' = brokerOrders \cup {r},
              \/ signalFaults' = signalFaults /\ (pc = "fail" => brokerOrders' = brokerOrders)
              \/ signalFaults' = signalFaults + 1
       PROVE  SignalInv'
  <2>1. place'[r] = pc /\ \A q \in Runs : q # r => place'[q] = place[q]
    BY <1>4, <1>11
  <2>2. Past(r) /\ r \notin brokerOrders /\ r \notin failedEvents' /\ attempt'[id] = "pending"
    BY <1>2, <1>11 DEF Past, Ended
  <2>3. \/ signalFaults' = signalFaults /\ ~Suspicious(r)'
        \/ signalFaults' = signalFaults + 1
    BY <1>1, <1>11, <2>1, <2>2 DEF Suspicious, id
  <2> QED BY <1>1, <1>3, <1>11, <2>1, <2>2, <2>3, SignalRunMoves DEF id
<1>12. CASE CallVendor(r)
  BY <1>11, <1>12 DEF CallVendor, IsAt
\* updateAttempt, by the only run that is past the row.
<1>13. ASSUME place[r] \in {"accept", "fail"}, NEW st \in {"accepted", "failed"},
              UpdateAttempt(r, st), NEW pc \in {"publish", "returned"}, MoveTo(r, pc),
              UNCHANGED <<brokerOrders, signalFaults>>,
              place[r] = "accept" => st = "accepted" /\ failedEvents' = failedEvents,
              \/ failedEvents' = failedEvents
              \/ failedEvents' = failedEvents \cup {r} /\ pc = "returned"
       PROVE  SignalInv'
  <2>1. place'[r] = pc /\ \A q \in Runs : q # r => place'[q] = place[q]
    BY <1>4, <1>13
  <2>2. Past(r) /\ attempt[id] # "none" /\ r \notin failedEvents
    BY <1>2, <1>13 DEF Past, Ended
  <2>3. attempt'[id] = st /\ \A c \in ClientOrderIds : c # id => attempt'[c] = attempt[c]
    BY <1>0, <1>1, <1>13, <2>2 DEF SignalTypeOK, UpdateAttempt, id
  <2>4. Suspicious(r)' => Suspicious(r)
    BY <1>1, <1>13, <2>1, <2>2, <2>3 DEF Suspicious, id
  <2>5. /\ st # "none" /\ place'[r] \notin {"call", "accept"}
        /\ r \in failedEvents' => place'[r] \in Ended
        /\ place'[r] \in {"accept", "publish", "fail"} \cup Ended
    BY <1>13, <2>1, <2>2 DEF Ended
  <2> QED BY <1>1, <1>3, <1>13, <2>1, <2>2, <2>3, <2>4, <2>5, SignalRunMoves DEF id
<1>14. CASE MarkAccepted(r)
  <2>1. /\ place[r] = "accept" /\ UpdateAttempt(r, "accepted") /\ MoveTo(r, "publish")
        /\ UNCHANGED <<brokerOrders, failedEvents, signalFaults>>
    BY <1>14 DEF MarkAccepted, IsAt
  <2> QED BY <1>13, <2>1
<1>15. CASE MarkAttemptFailed(r)
  BY <1>13, <1>15 DEF MarkAttemptFailed, IsAt
<1>16. CASE PublishPlaced(r)
  BY <1>5, <1>16 DEF PublishPlaced, IsAt, Ended
<1>17. CASE SignalFails(r)
  <2>0. signalFaults' = signalFaults + 1 /\ UNCHANGED <<attempt, failedEvents>>
    BY <1>17 DEF SignalFails
  <2>1. CASE place[r] \in {"find", "save", "fail"} /\ MoveTo(r, "thrown") /\ UNCHANGED brokerOrders
    BY <1>5, <2>0, <2>1 DEF Ended
  <2>2. CASE IsAt(r, "call") /\ MoveTo(r, "fail") /\ brokerOrders' = brokerOrders \cup {r}
    BY <1>11, <2>0, <2>2 DEF IsAt
  <2>3. CASE IsAt(r, "accept") /\ MoveTo(r, "fail") /\ UNCHANGED brokerOrders
    <3>1. place'[r] = "fail" /\ \A q \in Runs : q # r => place'[q] = place[q]
      BY <1>4, <2>3
    <3>2. Past(r) /\ r \notin failedEvents' /\ attempt'[id] = "pending"
      BY <1>2, <2>0, <2>3 DEF Past, Ended, IsAt
    <3> QED BY <1>1, <1>3, <2>0, <2>3, <3>1, <3>2, SignalRunMoves DEF id
  <2>4. CASE /\ place[r] \notin {"none", "returned", "thrown", "died"} /\ MoveTo(r, "died")
             /\ UNCHANGED brokerOrders
    BY <1>5, <2>0, <2>4 DEF Ended
  <2> QED BY <1>17, <2>1, <2>2, <2>3, <2>4 DEF SignalFails
<1> QED BY <1>6, <1>7, <1>8, <1>9, <1>10, <1>12, <1>14, <1>15, <1>16, <1>17 DEF PlaceStep

\* Every step keeps the invariant.
LEMMA SignalInvStep == SignalInv /\ [SignalNext]_signalVars => SignalInv'
<1> SUFFICES ASSUME SignalInv, [SignalNext]_signalVars PROVE SignalInv'
  OBVIOUS
<1>1. SignalTypeOK'
  BY SignalTypeStep DEF SignalInv
<1>2. CASE UNCHANGED signalVars
  <2>1. \A q \in Runs : ClientOrderId(q)' = ClientOrderId(q)
    BY <1>2 DEF signalVars, ClientOrderId
  <2>2. \A q \in Runs : (Past(q)' <=> Past(q)) /\ (Suspicious(q)' <=> Suspicious(q))
    BY <1>2, <2>1 DEF signalVars, Past, Suspicious
  <2>3. Suspects' = Suspects
    BY <2>2 DEF Suspects
  <2>4. UNCHANGED <<place, attempt, brokerOrders, failedEvents, deliveries, signalFaults>>
    BY <1>2 DEF signalVars
  <2>5. OneRunPerAttempt'
    BY <2>1, <2>2, <2>4 DEF SignalInv, OneRunPerAttempt
  <2>6. RunsAreOrderly'
    BY <2>1, <2>4 DEF SignalInv, RunsAreOrderly
  <2> QED BY <1>1, <2>3, <2>4, <2>5, <2>6 DEF SignalInv, SuspectsAreFaults
<1>3. CASE \E s \in Signals : Deliver(s)
  BY <1>1, <1>3, DeliverStep
<1>4. CASE \E r \in Runs : PlaceStep(r) \/ SignalFails(r)
  BY <1>1, <1>4, PlaceSteps
<1> QED BY <1>2, <1>3, <1>4 DEF SignalNext

-----------------------------------------------------------------------------
\* The tables and the runs of PlaceOrderUsecase keep their types.
THEOREM SignalTypes == SignalSpec => []SignalTypeOK
<1>1. SignalInv => SignalTypeOK
  BY DEF SignalInv
<1> QED BY <1>1, SignalInvInit, SignalInvStep, PTL DEF SignalSpec

\* The invariant gives both halves.
LEMMA InvImpliesTrue == SignalInv => PlacementsTrue
<1> SUFFICES ASSUME SignalInv PROVE PlacementsTrue
  OBVIOUS
<1>0. SignalTypeOK /\ OneRunPerAttempt /\ SuspectsAreFaults
  BY DEF SignalInv
<1>1. HintedPlacedOnce
  <2> SUFFICES ASSUME NEW s \in Signals, signal[s].hinted
               PROVE  Cardinality({r \in brokerOrders : r[1] = s}) <= 1
    BY DEF HintedPlacedOnce
  <2> DEFINE S == {r \in brokerOrders : r[1] = s}
  <2>1. \A r \in S : r \in Runs /\ Past(r) /\ ClientOrderId(r) = <<s, 0>>
    BY <1>0 DEF SignalTypeOK, Past, ClientOrderId
  <2>2. \A x, y \in S : x = y
    BY <1>0, <2>1 DEF OneRunPerAttempt
  <2> HIDE DEF S
  <2>3. Cardinality(S) <= 1
    BY <2>2, AtMostOne
  <2> QED BY <2>3 DEF S
<1>2. MisreportedOnlyByFaults
  <2> DEFINE M == {r \in brokerOrders : r \in failedEvents \/ attempt[ClientOrderId(r)] = "failed"}
  <2>1. M \in SUBSET Suspects
    BY <1>0 DEF SignalTypeOK, Suspects, Suspicious
  <2> HIDE DEF M
  <2>2. IsFiniteSet(M) /\ Cardinality(M) <= Cardinality(Suspects)
    BY <1>0, <2>1, FS_Subset DEF SuspectsAreFaults
  <2>3. Cardinality(M) \in Nat /\ Cardinality(Suspects) \in Nat /\ signalFaults \in Nat
    BY <1>0, <2>2, FS_CardinalityType, SignalAssumption DEF SuspectsAreFaults, SignalTypeOK
  <2>4. Cardinality(M) <= signalFaults
    BY <1>0, <2>2, <2>3 DEF SuspectsAreFaults
  <2> QED BY <2>4 DEF M, MisreportedOnlyByFaults
<1> QED BY <1>1, <1>2 DEF PlacementsTrue

\* However often and however concurrently the queue runs a hinted signal, it opens
\* one order at most, and an open order is reported as failed only after a fault.
THEOREM PlacementsAreTrue == SignalSpec => []PlacementsTrue
<1> QED BY InvImpliesTrue, SignalInvInit, SignalInvStep, PTL DEF SignalSpec

-----------------------------------------------------------------------------
(* The composition: what holds of each component holds of all of them.     *)

Components == {"feed", "archive", "calendar", "stock", "indicator", "detector", "signal",
               "ingest", "notice"}

\* A step of the pipeline is a step of one component that the others do not notice.
LEMMA PartsMove ==
    ASSUME [PipelineNext]_pipelineVars
    PROVE  /\ UNCHANGED focus
           /\ [FeedNext]_feedVars /\ [ArchiveNext]_archiveVars /\ [CalendarNext]_calendarVars
           /\ [StockNext]_stockVars /\ [IndicatorNext]_indicatorVars
           /\ [DetectorNext]_detectorVars /\ [SignalNext]_signalVars
           /\ [IngestNext]_ingestVars /\ [NoticeNext]_noticeVars
<1>1. CASE UNCHANGED pipelineVars
  BY <1>1 DEF pipelineVars
<1>2. CASE PipelineNext
  BY <1>2 DEF PipelineNext
<1> QED BY <1>1, <1>2

\* The components of MarketDataSafe.
MarketDataInv == CalendarInv /\ StockInv /\ IndicatorInv /\ DetectorInv

LEMMA MarketDataInvInit == PipelineInit => MarketDataInv
BY CalendarInitInv, StockInitInv, IndicatorInitInv, DetectorInitInv DEF PipelineInit, MarketDataInv

LEMMA MarketDataInvStep == MarketDataInv /\ [PipelineNext]_pipelineVars => MarketDataInv'
BY PartsMove, CalendarStep, StockStep, IndicatorStep, DetectorStep DEF MarketDataInv

\* In every behaviour of the pipeline, for any pods, stocks, candles and faults: the
\* calendar copies of the pods are real and learn of every change, a sync of the stock
\* master leaves no gap (upsertMany), the calculator's averages have none, and the
\* detector's alerts of one category are a suppression window apart.
THEOREM MarketDataIsSafe == PipelineSpec => []MarketDataSafe
<1>1. MarketDataInv => MarketDataSafe
  BY CalendarInvSafe, StockInvSafe, IndicatorInvSafe, DetectorInvSafe
     DEF MarketDataInv, MarketDataSafe
<1> QED BY <1>1, MarketDataInvInit, MarketDataInvStep, PTL DEF PipelineSpec

\* No step of any component takes back an archived row, an operator's calendar override
\* or an operator's observation flag, as long as an archive lock outlives its holder.
THEOREM RowsAreKept == LocksOutliveHolders /\ PipelineSpec => RowsKept
<1> SUFFICES ASSUME LocksOutliveHolders PROVE PipelineSpec => RowsKept
  OBVIOUS
<1> DEFINE Inv == ArchiveInv /\ CalendarInv /\ StockInv
           NothingTaken == /\ focus = "archive" => ArchiveGrows
                           /\ focus = "calendar" => OverrideKept
                           /\ focus = "stock" => ObservationStays
<1>1. PipelineInit => Inv
  BY ArchiveInitInv, CalendarInitInv, StockInitInv DEF PipelineInit
<1>2. Inv /\ [PipelineNext]_pipelineVars => Inv' /\ [NothingTaken]_pipelineVars
  BY PartsMove, ArchiveStep, CalendarStep, StockStep
<1>3. PipelineSpec => [][NothingTaken]_pipelineVars
  <2> HIDE DEF Inv, NothingTaken
  <2> QED BY <1>1, <1>2, PTL DEF PipelineSpec
<1> QED BY <1>3 DEF RowsKept

\* The invariants of all nine components.
PipelineInv ==
    /\ focus \in Components
    /\ FeedInv /\ ArchiveInv /\ MarketDataInv /\ SignalInv /\ IngestInv /\ NoticeInv

\* Every variable of every component keeps its type whichever component acts.
THEOREM PipelineTypes == LocksOutliveHolders /\ PipelineSpec => []PipelineTypeOK
<1> SUFFICES ASSUME LocksOutliveHolders PROVE PipelineSpec => []PipelineTypeOK
  OBVIOUS
<1>1. PipelineInit => PipelineInv
  BY FeedInitInv, ArchiveInitInv, MarketDataInvInit, SignalInvInit, IngestInvInit, NoticeInitInv
     DEF PipelineInit, PipelineInv, Components
<1>2. PipelineInv /\ [PipelineNext]_pipelineVars => PipelineInv'
  BY PartsMove, FeedStep, ArchiveStep, MarketDataInvStep, SignalInvStep, IngestInvStep, NoticeSteps
     DEF PipelineInv
<1>3. PipelineInv => PipelineTypeOK
  <2> SUFFICES ASSUME PipelineInv PROVE PipelineTypeOK
    OBVIOUS
  <2>1. FeedTypeOK /\ ArchiveTypeOK /\ SignalTypeOK
    BY DEF PipelineInv, FeedInv, ArchiveInv, SignalInv
  <2>2. CalendarTypeOK /\ StockTypeOK /\ IndicatorTypeOK /\ DetectorTypeOK
    BY CalendarInvSafe, StockInvSafe, IndicatorInvSafe, DetectorInvSafe
       DEF PipelineInv, MarketDataInv
  <2>3. IngestTypeOK
    BY DEF PipelineInv, IngestInv, IngestShape, IngestTypeOK, Recorded, Consumer
  <2>4. NoticeTypeOK
    BY DEF PipelineInv, NoticeInv, NoticeTypes, NoticeTypeOK, TickType
  <2> QED BY <2>1, <2>2, <2>3, <2>4 DEF PipelineInv, Components, PipelineTypeOK
<1> QED BY <1>1, <1>2, <1>3, PTL DEF PipelineSpec

\* In every behaviour of the pipeline no accepted tick is lost on its way to a row, a
\* signal opens its order once and is reported as it went, an acknowledged event is
\* recorded, and notifications are given up, settled and repeated within their bounds.
THEOREM PipelineIsSafe ==
    PipelineSpec => [](FeedSafe /\ PlacementsTrue /\ EntriesHandled /\ NoticesSafe)
<1> DEFINE Inv == FeedInv /\ SignalInv /\ IngestInv /\ DispatchInv
<1>1. PipelineInit => Inv
  BY FeedInitInv, SignalInvInit, IngestInvInit, DispatchInitInv DEF PipelineInit
<1>2. Inv /\ [PipelineNext]_pipelineVars => Inv'
  BY PartsMove, FeedStep, SignalInvStep, IngestInvStep, DispatchSteps
<1>3. Inv => FeedSafe /\ PlacementsTrue /\ EntriesHandled /\ NoticesSafe
  BY FeedInvSafe, InvImpliesTrue, IngestInvHandled, DispatchInvSafe
<1> QED BY <1>1, <1>2, <1>3, PTL DEF PipelineSpec

\* In every behaviour of the pipeline a READY partition of the archive is whole and no
\* date is given up, as long as an archive lock outlives its holder.
THEOREM ArchiveIsSafe ==
    LocksOutliveHolders /\ PipelineSpec => [](ReadyIsComplete /\ NoDateForgotten)
<1> SUFFICES ASSUME LocksOutliveHolders
             PROVE  PipelineSpec => [](ReadyIsComplete /\ NoDateForgotten)
  OBVIOUS
<1>1. PipelineInit => ArchiveInv
  BY ArchiveInitInv DEF PipelineInit
<1>2. ArchiveInv /\ [PipelineNext]_pipelineVars => ArchiveInv'
  BY PartsMove, ArchiveStep
<1>3. ArchiveInv => ReadyIsComplete /\ NoDateForgotten
  BY ArchiveInvReady DEF ArchiveInv
<1> QED BY <1>1, <1>2, <1>3, PTL DEF PipelineSpec

=============================================================================
