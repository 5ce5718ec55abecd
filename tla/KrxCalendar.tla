----------------------------- MODULE KrxCalendar -----------------------------
(***************************************************************************)
(* The trading calendar of the chart archive.  The table krx_calendar is   *)
(* written by the daily sync of every collector pod, by operators'         *)
(* overrides and by the import script; each pod answers from a copy in     *)
(* memory (dbDays) that it reads at its start, after its own writes and    *)
(* when another pod announces a change over Redis pub/sub.                 *)
(*                                                                         *)
(* A copy is replaced in one go, but the query behind it is awaited, so    *)
(* several refreshes of a pod overlap and may be answered out of order.    *)
(***************************************************************************)
EXTENDS Naturals, FiniteSets

CONSTANTS
    CalendarPods,
    TradeDates,        \* numbered in the order of the calendar file
    DayKinds,          \* what a day can be: closed, a full or a partial session
    CalendarFiles,     \* bound: the files a sync may fetch, a kind per date
    Overrides,         \* bound: what operators decide, pairs of a date and a kind
    HintSlots,         \* bound: refreshes of a pod for announcements at a time
    MaxCalendarWrites, \* bound: syncs and overrides
    MaxCalendarFaults  \* bound: failures, lost announcements, imports and crashes

ASSUME CalendarAssumption ==
    /\ TradeDates \subseteq Nat /\ IsFiniteSet(TradeDates)
    /\ CalendarFiles \subseteq [TradeDates -> DayKinds] /\ Overrides \subseteq TradeDates \X DayKinds
    /\ HintSlots \cap {"start", "sync", "override"} = {}
    /\ MaxCalendarWrites \in Nat /\ MaxCalendarFaults \in Nat

NoDay == [source |-> "none", kind |-> "none"]
Day == [source: {"synced", "manual_override"}, kind: DayKinds] \cup {NoDay}
EmptyCalendar == [d \in TradeDates |-> NoDay]

VARIABLES
    krxCalendar,    \* the table
    calendarRev,    \* history: writes that took effect
    dbDays,         \* the copy of each pod, with the revision it was read at
    readRev,        \* history: the newest revision a pod's copy has had
    calTask,        \* the tasks of each pod: [pc, csv (rows to write), days, rev (answer)]
    listening,      \* pods subscribed to the announcements
    calHints,       \* announcements a pod has not looked at
    syncRun,        \* status of each pod's last krx_calendar_sync_runs row
    deaf,           \* history: pods that missed an announcement while they started
    calendarWrites, calendarFaults

calendarVars == <<krxCalendar, calendarRev, dbDays, readRev, calTask, listening, calHints, syncRun,
                  deaf, calendarWrites, calendarFaults>>
tableVars == <<krxCalendar, calendarRev>>
copyVars == <<dbDays, readRev>>

TaskKinds == {"start", "sync", "override"} \cup HintSlots
CalIdle == [pc |-> "idle", csv |-> EmptyCalendar, days |-> EmptyCalendar, rev |-> 0]
NoCopy == [days |-> EmptyCalendar, rev |-> 0]

\* The pods start; the table has what earlier syncs left, here nothing.
CalendarInit ==
    /\ krxCalendar = EmptyCalendar /\ calendarRev = 0
    /\ dbDays = [p \in CalendarPods |-> NoCopy] /\ readRev = [p \in CalendarPods |-> 0]
    /\ calTask = [p \in CalendarPods |->
                    [k \in TaskKinds |-> IF k = "start" THEN [CalIdle EXCEPT !.pc = "query"] ELSE CalIdle]]
    /\ listening = {} /\ calHints = [p \in CalendarPods |-> 0]
    /\ syncRun = [p \in CalendarPods |-> "none"]
    /\ deaf = {} /\ calendarWrites = 0 /\ calendarFaults = 0

CalendarFault == calendarFaults < MaxCalendarFaults /\ calendarFaults' = calendarFaults + 1
CalGoto(p, k, pc) == calTask' = [calTask EXCEPT ![p][k].pc = pc]
PodStarted(p) == calTask[p]["start"].pc = "idle"

-----------------------------------------------------------------------------
(* refreshFromDb.                                                          *)

\* The query is answered with the table as it is now ...
QueryCalendar(p, k) ==
    /\ calTask[p][k].pc = "query"
    /\ calTask' = [calTask EXCEPT ![p][k] =
                     [@ EXCEPT !.pc = "answer", !.days = krxCalendar, !.rev = calendarRev]]
    /\ UNCHANGED <<tableVars, copyVars, listening, calHints, syncRun, deaf, calendarWrites, calendarFaults>>

\* Mutant: a sync is not announced.
AfterRefreshUnannounced(k) ==
    CASE k = "start" -> "subscribe"
      [] k = "override" -> "publish"
      [] OTHER -> "idle"

\* What follows a refresh: the pod's start goes on to subscribe, a write is announced.
AfterRefresh(k) ==
    CASE k = "start" -> "subscribe"
      [] k \in {"sync", "override"} -> "publish"
      [] OTHER -> "idle"

\* ... and the answer replaces the copy, be it older than the copy or not.
ApplyCalendar(p, k) ==
    /\ calTask[p][k].pc = "answer"
    /\ dbDays' = [dbDays EXCEPT ![p] = [days |-> calTask[p][k].days, rev |-> calTask[p][k].rev]]
    /\ readRev' = [readRev EXCEPT ![p] = IF @ < calTask[p][k].rev THEN calTask[p][k].rev ELSE @]
    /\ deaf' = IF calTask[p][k].rev = calendarRev THEN deaf \ {p} ELSE deaf
    /\ calTask' = [calTask EXCEPT ![p][k] = [CalIdle EXCEPT !.pc = AfterRefresh(k)]]
    /\ UNCHANGED <<tableVars, listening, calHints, syncRun, calendarWrites, calendarFaults>>

\* A failing query is logged: the copy stays as it was.
RefreshFails(p, k) ==
    /\ calTask[p][k].pc = "query" /\ CalendarFault
    /\ CalGoto(p, k, AfterRefresh(k))
    /\ UNCHANGED <<tableVars, copyVars, listening, calHints, syncRun, deaf, calendarWrites>>

-----------------------------------------------------------------------------
(* Start and announcements.                                                *)

\* onModuleInit subscribes after the first load.
CalendarSubscribe(p) ==
    /\ calTask[p]["start"].pc = "subscribe" /\ CalGoto(p, "start", "idle")
    /\ \/ listening' = listening \cup {p} /\ UNCHANGED calendarFaults
       \/ CalendarFault /\ UNCHANGED listening
    /\ UNCHANGED <<tableVars, copyVars, calHints, syncRun, deaf, calendarWrites>>

\* publishCalendarChanged: every subscriber is told, the publishing pod too; a
\* failure is logged.  A pod that has read the table but not subscribed misses it.
PublishCalendarChanged(p, k) ==
    /\ calTask[p][k].pc = "publish" /\ CalGoto(p, k, "idle")
    /\ \/ /\ calHints' = [q \in CalendarPods |-> calHints[q] + IF q \in listening THEN 1 ELSE 0]
          /\ deaf' = deaf \cup {q \in CalendarPods : calTask[q]["start"].pc \in {"answer", "subscribe"}}
          /\ UNCHANGED calendarFaults
       \/ CalendarFault /\ UNCHANGED <<calHints, deaf>>
    /\ UNCHANGED <<tableVars, copyVars, listening, syncRun, calendarWrites>>

\* The message handler starts a refresh without waiting for another one.
CalendarChanged(p, k) ==
    /\ k \in HintSlots /\ calHints[p] > 0 /\ calTask[p][k].pc = "idle"
    /\ calHints' = [calHints EXCEPT ![p] = @ - 1]
    /\ CalGoto(p, k, "query")
    /\ UNCHANGED <<tableVars, copyVars, listening, syncRun, deaf, calendarWrites, calendarFaults>>

\* A pod dies and starts again with an empty copy.
CalendarPodCrash(p) ==
    /\ CalendarFault
    /\ calTask' = [calTask EXCEPT ![p] =
                     [k \in TaskKinds |-> IF k = "start" THEN [CalIdle EXCEPT !.pc = "query"] ELSE CalIdle]]
    /\ dbDays' = [dbDays EXCEPT ![p] = NoCopy] /\ readRev' = [readRev EXCEPT ![p] = 0]
    /\ listening' = listening \ {p} /\ calHints' = [calHints EXCEPT ![p] = 0]
    /\ UNCHANGED <<tableVars, syncRun, deaf, calendarWrites>>

-----------------------------------------------------------------------------
(* The writers.                                                            *)

\* Mutant: the upsert without its WHERE.
SyncedDayAlways(old, kind) == [source |-> "synced", kind |-> kind]

\* The row a synced day leaves: ON CONFLICT DO UPDATE WHERE source != 'manual_override'.
SyncedDay(old, kind) ==
    IF old.source = "manual_override" THEN old ELSE [source |-> "synced", kind |-> kind]

UpsertDay(d, day) ==
    /\ krxCalendar' = [krxCalendar EXCEPT ![d] = day]
    /\ calendarRev' = IF day = krxCalendar[d] THEN calendarRev ELSE calendarRev + 1

\* The rows of a calendar file: parseCalendarCsv and parseCsv.
Rows(csv) == [d \in TradeDates |-> [source |-> "synced", kind |-> csv[d]]]
Unwritten(csv) == {d \in TradeDates : csv[d] # NoDay}

\* syncOnce: the run is RUNNING and the file is fetched.
SyncStart(p) ==
    /\ PodStarted(p) /\ calTask[p]["sync"].pc = "idle"
    /\ calendarWrites < MaxCalendarWrites /\ calendarWrites' = calendarWrites + 1
    /\ \E csv \in CalendarFiles :
         calTask' = [calTask EXCEPT ![p]["sync"] = [CalIdle EXCEPT !.pc = "upsert", !.csv = Rows(csv)]]
    /\ syncRun' = [syncRun EXCEPT ![p] = "RUNNING"]
    /\ UNCHANGED <<tableVars, copyVars, listening, calHints, deaf, calendarFaults>>

\* One row after the other, each a statement of its own.
SyncUpsert(p) ==
    /\ calTask[p]["sync"].pc = "upsert"
    /\ LET csv == calTask[p]["sync"].csv
           d == CHOOSE e \in Unwritten(csv) : \A f \in Unwritten(csv) : e <= f
       IN  /\ Unwritten(csv) # {}
           /\ UpsertDay(d, SyncedDay(krxCalendar[d], csv[d].kind))
           /\ calTask' = [calTask EXCEPT ![p]["sync"].csv[d] = NoDay]
    /\ UNCHANGED <<copyVars, listening, calHints, syncRun, deaf, calendarWrites, calendarFaults>>

\* The run is a SUCCESS; then the pod refreshes its copy and announces the change.
SyncFinish(p) ==
    /\ calTask[p]["sync"].pc = "upsert" /\ Unwritten(calTask[p]["sync"].csv) = {}
    /\ syncRun' = [syncRun EXCEPT ![p] = "SUCCESS"]
    /\ CalGoto(p, "sync", "query")
    /\ UNCHANGED <<tableVars, copyVars, listening, calHints, deaf, calendarWrites, calendarFaults>>

\* The fetch or a statement fails: the run is FAILED and an alert raised, unless that
\* fails too; the rows written so far stay, unannounced.
SyncFails(p) ==
    /\ calTask[p]["sync"].pc = "upsert" /\ CalendarFault
    /\ syncRun' \in {syncRun, [syncRun EXCEPT ![p] = "FAILED"]}
    /\ calTask' = [calTask EXCEPT ![p]["sync"] = CalIdle]
    /\ UNCHANGED <<tableVars, copyVars, listening, calHints, deaf, calendarWrites>>

\* upsertManualOverride: the row is an override from now on.
UpsertManualOverride(p, d, kind) ==
    /\ PodStarted(p) /\ calTask[p]["override"].pc = "idle"
    /\ calendarWrites < MaxCalendarWrites /\ calendarWrites' = calendarWrites + 1
    /\ UpsertDay(d, [source |-> "manual_override", kind |-> kind])
    /\ CalGoto(p, "override", "query")
    /\ UNCHANGED <<copyVars, listening, calHints, syncRun, deaf, calendarFaults>>

\* The import script writes rows as a sync does and tells nobody.
ImportDay(d, kind) ==
    /\ CalendarFault
    /\ UpsertDay(d, SyncedDay(krxCalendar[d], kind))
    /\ UNCHANGED <<copyVars, calTask, listening, calHints, syncRun, deaf, calendarWrites>>

CalendarNext ==
    \/ \E p \in CalendarPods :
         \/ CalendarSubscribe(p) \/ CalendarPodCrash(p)
         \/ SyncStart(p) \/ SyncUpsert(p) \/ SyncFinish(p) \/ SyncFails(p)
         \/ \E k \in TaskKinds :
              \/ QueryCalendar(p, k) \/ ApplyCalendar(p, k) \/ RefreshFails(p, k)
              \/ PublishCalendarChanged(p, k) \/ CalendarChanged(p, k)
         \/ \E o \in Overrides : UpsertManualOverride(p, o[1], o[2])
    \/ \E csv \in CalendarFiles, d \in TradeDates : ImportDay(d, csv[d])

CalendarSpec == CalendarInit /\ [][CalendarNext]_calendarVars

-----------------------------------------------------------------------------
\* Types of the calendar.
CalendarTypeOK ==
    /\ krxCalendar \in [TradeDates -> Day] /\ calendarRev \in Nat
    /\ dbDays \in [CalendarPods -> [days: [TradeDates -> Day], rev: Nat]]
    /\ readRev \in [CalendarPods -> Nat]
    /\ calTask \in [CalendarPods -> [TaskKinds ->
          [pc: {"idle", "upsert", "query", "answer", "subscribe", "publish"},
           csv: [TradeDates -> Day], days: [TradeDates -> Day], rev: Nat]]]
    /\ listening \subseteq CalendarPods /\ deaf \subseteq CalendarPods
    /\ calHints \in [CalendarPods -> Nat]
    /\ syncRun \in [CalendarPods -> {"none", "RUNNING", "SUCCESS", "FAILED"}]
    /\ calendarWrites \in 0..MaxCalendarWrites /\ calendarFaults \in 0..MaxCalendarFaults

\* A pod's copy is a table the database really had: with the revision it was read at
\* it never runs ahead of the table, and at the table's revision it is the table.
CopiesAreReal ==
    \A p \in CalendarPods :
        /\ dbDays[p].rev <= readRev[p] /\ readRev[p] <= calendarRev
        /\ dbDays[p].rev = calendarRev => dbDays[p].days = krxCalendar
        /\ \A k \in TaskKinds : calTask[p][k].pc = "answer" =>
             /\ calTask[p][k].rev <= calendarRev
             /\ calTask[p][k].rev = calendarRev => calTask[p][k].days = krxCalendar

\* Once nothing is in flight, and as long as no call failed, every pod has read the
\* last change, whoever wrote it and however the refreshes overlapped; only a pod
\* that was between its first load and its subscription may have missed it.
CalendarQuiet ==
    /\ \A p \in CalendarPods : calHints[p] = 0 /\ \A k \in TaskKinds : calTask[p][k].pc = "idle"
ChangesReachPods ==
    CalendarQuiet /\ calendarFaults = 0 =>
        \A p \in CalendarPods \ deaf : readRev[p] = calendarRev

\* The calendar's copies are real and learn of every change.
CalendarSafe == CopiesAreReal /\ ChangesReachPods

\* An operator's override is changed by an override only: no sync and no import,
\* begun before it or after it, takes the day back.
OverrideKept ==
    \A d \in TradeDates :
        krxCalendar[d].source = "manual_override" /\ krxCalendar'[d] # krxCalendar[d] =>
            /\ krxCalendar'[d].source = "manual_override"
            /\ \E p \in CalendarPods : /\ calTask[p]["override"].pc = "idle"
                                       /\ calTask'[p]["override"].pc = "query"
OverridesStand == [][OverrideKept]_calendarVars

==============================================================================
