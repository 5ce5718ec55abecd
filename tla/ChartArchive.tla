---------------------------- MODULE ChartArchive ----------------------------
(* The daily chart archive of the collector (roles/collector/chart-archive):   *)
(* ChartArchiveScheduler, ChartArchiveWriterService, the task and manifest     *)
(* repositories, the objects in S3, the audit, the rebuild channel, the        *)
(* catch-up and script writers.                                                *)
(*                                                                             *)
(* One symbol of one market environment: symbols share neither rows nor locks. *)
(* A one-minute object is the set of minutes it has rows for; a derived object *)
(* (1h: a month, 1d: a year) holds one row per date, here the set of minutes   *)
(* it was aggregated from.  Writers are collector pods and script processes;   *)
(* every call to Redis, Postgres, S3 or the broker is a step of its own.       *)
EXTENDS Naturals, Sequences, FiniteSets

CONSTANTS
    Writers,        \* processes that may run the writer
    ArchivePods,    \* those with the daily scheduler
    NDates,         \* the calendar covered: dates 1..NDates of one month
    TradingDates,   \* dates on which the market is open
    Minutes,        \* minutes of a session (expectedOneMinuteRows)
    Derived,        \* derived timeframes
    MaxRuns,        \* bound on the number of runs
    MaxArchiveFaults, \* bound on crashes, failing calls and operator commands
    MaxSideJobs,    \* bound on the jobs beside the daily run
    TaskMaxAttempts,
    LocksOutliveHolders, \* TRUE: a lock expires only once its holder is gone
    NoWriter

Dates == 1 .. NDates

ASSUME ArchiveAssumption ==
    /\ NDates \in Nat \ {0} /\ IsFiniteSet(Minutes)
    /\ TradingDates \subseteq Dates
    /\ TaskMaxAttempts \in Nat \ {0}
    /\ MaxRuns \in Nat
    /\ MaxArchiveFaults \in Nat /\ MaxSideJobs \in Nat
    /\ ArchivePods \subseteq Writers /\ NoWriter \notin Writers
    /\ LocksOutliveHolders \in BOOLEAN

VARIABLES
    today,      \* the KST trade date
    windowOpen, \* isInsideKstArchiveWindow
    lastRun,    \* lastRunTradeDate of each pod (0: null)
    dailyLock,  \* worker:chart-archive:daily:<date>
    tasks,      \* chart_archive_tasks, one per run
    object,     \* one-minute objects in S3
    manifest,   \* their manifests
    dObject,    \* derived objects
    dManifest,  \* their manifests
    lock,       \* rmw lock of a one-minute partition
    dLock,      \* rmw lock of a derived partition
    job,        \* what each process is doing
    archiveFaults,
    sideJobs

archiveVars == <<today, windowOpen, lastRun, dailyLock, tasks, object, manifest,
                 dObject, dManifest, lock, dLock, job, archiveFaults, sideJobs>>
taskVars  == <<tasks>>
clockVars == <<today, windowOpen, lastRun, dailyLock>>
storeVars == <<object, manifest, dObject, dManifest>>
lockVars  == <<lock, dLock>>

TaskStatus == {"PENDING", "RUNNING", "READY", "FAILED", "SKIPPED"}
ManifestStatus == {"NONE", "READY", "PARTIAL", "NO_TRADE", "STALE", "MISMATCH"}
Task == [date : Dates, status : TaskStatus, attempts : 0 .. TaskMaxAttempts, old : BOOLEAN]

DerivedRows == [Dates -> SUBSET Minutes]
NoRows == [d \in Dates |-> {}]
NoManifest == [status |-> "NONE", sum |-> {}]
NoDerivedManifest == [status |-> "NONE", sum |-> NoRows]

Kinds == {"none", "daily", "script", "catchup", "values", "rebuild", "audit"}
Places == {"idle", "begin", "task", "fetch", "lock", "put", "upsert", "derive",
           "dput", "dupsert", "unlock", "ready", "failed", "supersede", "stale", "verify"}
\* What a process has in memory: the dates still to archive, the date and run
\* it is on, the rows it fetched and merged, the derived partitions to write.
Idle == [kind |-> "none", pc |-> "idle", todo |-> {}, d |-> 1, run |-> 0,
         rows |-> {}, left |-> {}, tf |-> "", drows |-> NoRows]

ArchiveInit ==
    /\ today = 1
    /\ windowOpen = TRUE
    /\ lastRun = [w \in Writers |-> 0]
    /\ dailyLock = [d \in Dates |-> NoWriter]
    /\ tasks = <<>>
    /\ object = [d \in Dates |-> {}]
    /\ manifest = [d \in Dates |-> NoManifest]
    /\ dObject = [t \in Derived |-> NoRows]
    /\ dManifest = [t \in Derived |-> NoDerivedManifest]
    /\ lock = [d \in Dates |-> NoWriter]
    /\ dLock = [t \in Derived |-> NoWriter]
    /\ job = [w \in Writers |-> Idle]
    /\ archiveFaults = 0
    /\ sideJobs = 0

-----------------------------------------------------------------------------
(* chart-archive-task.repository.ts *)

Unfinished == {"PENDING", "FAILED"}

\* findStrandedTradeDates: earlier dates with a task left over.
StrandedDates(ts, d) ==
    {e \in 1 .. d - 1 : \E r \in DOMAIN ts : ts[r].date = e /\ ts[r].status \in Unfinished}

\* resetOrphanedRunningTasks
OrphansReset(ts) ==
    [r \in DOMAIN ts |->
        IF ts[r].status = "RUNNING" /\ ts[r].old
        THEN [ts[r] EXCEPT !.status = "PENDING", !.old = FALSE] ELSE ts[r]]

\* createPendingTasks: the run id is new, so the row is.
PendingTask(d) == [date |-> d, status |-> "PENDING", attempts |-> 0, old |-> FALSE]

\* markRunning counts the attempt, or gives the task up.
MarkedRunning(t) ==
    IF t.attempts >= TaskMaxAttempts
    THEN [t EXCEPT !.status = "SKIPPED"]
    ELSE [t EXCEPT !.status = "RUNNING", !.attempts = @ + 1, !.old = FALSE]

\* updateTask, markPending: whatever the row has become meanwhile.
MarkTask(r, status) ==
    tasks' = [tasks EXCEPT ![r].status = status,
                           ![r].attempts = IF status = "PENDING" THEN 0 ELSE @]

\* Mutant: the run's own task is closed with the others.
SupersededAll(ts, d, run) ==
    [r \in DOMAIN ts |->
        IF ts[r].date = d /\ ts[r].status \in Unfinished
        THEN [ts[r] EXCEPT !.status = "SKIPPED"] ELSE ts[r]]

\* markSupersededStranded
Superseded(ts, d, run) ==
    [r \in DOMAIN ts |->
        IF ts[r].date = d /\ r # run /\ ts[r].status \in Unfinished
        THEN [ts[r] EXCEPT !.status = "SKIPPED"] ELSE ts[r]]

\* retryFailedRun, asked for by an operator.
RetryFailedRun(r) ==
    /\ r \in DOMAIN tasks /\ tasks[r].status \in {"FAILED", "SKIPPED"}
    /\ archiveFaults < MaxArchiveFaults /\ archiveFaults' = archiveFaults + 1
    /\ MarkTask(r, "PENDING")
    /\ UNCHANGED <<clockVars, storeVars, lockVars, job, sideJobs>>

-----------------------------------------------------------------------------
(* The calendar: expected rows, and the coverage a derived object must have. *)

IsTradingDay(d) == d \in TradingDates
ExpectedOneMinuteRows(d) == IF IsTradingDay(d) THEN Cardinality(Minutes) ELSE 0
TradingDaysInRange(d) == TradingDates \cap (1 .. d)
RowDates(rows) == {d \in Dates : rows[d] # {}}
MaxTradeDate(rows, d) == CHOOSE m \in RowDates(rows) \cup {d} : \A n \in RowDates(rows) \cup {d} : n <= m
MergeRows(existing, incoming) ==
    [d \in Dates |-> IF incoming[d] # {} THEN incoming[d] ELSE existing[d]]

\* Mutant: one row may be missing.
OneMinuteStatusLax(d, rows) ==
    IF Cardinality(rows) + 1 >= ExpectedOneMinuteRows(d) THEN "READY" ELSE "PARTIAL"

OneMinuteStatus(d, rows) ==
    IF Cardinality(rows) >= ExpectedOneMinuteRows(d) THEN "READY" ELSE "PARTIAL"
DerivedStatus(d, rows) ==
    IF Cardinality(RowDates(rows)) >= Cardinality(TradingDaysInRange(MaxTradeDate(rows, d)))
    THEN "READY" ELSE "PARTIAL"

-----------------------------------------------------------------------------
(* How a process moves through its work. *)

At(w, pc) == job[w].pc = pc
Goto(w, pc) == job' = [job EXCEPT ![w].pc = pc]
HasTask(w) == job[w].kind \in {"daily", "script"}
Fault == archiveFaults < MaxArchiveFaults /\ archiveFaults' = archiveFaults + 1

\* A job other than the daily run starts in an idle process.
Starts(w, j) ==
    /\ At(w, "idle")
    /\ sideJobs < MaxSideJobs /\ sideJobs' = sideJobs + 1
    /\ job' = [job EXCEPT ![w] = j]

\* The end of a job without a task, of a script and of the daily run.
Finish(w) == job' = [job EXCEPT ![w] = Idle]
ReleaseDaily(w) ==
    dailyLock' = [d \in Dates |-> IF dailyLock[d] = w THEN NoWriter ELSE dailyLock[d]]
EndRun(w) ==
    /\ Finish(w)
    /\ ReleaseDaily(w)
    /\ UNCHANGED <<today, windowOpen, lastRun>>

\* withPartitionLock's finally, for both locks: compare and delete.
Unlocked(w) ==
    /\ lock' = [d \in Dates |-> IF lock[d] = w THEN NoWriter ELSE lock[d]]
    /\ dLock' = [t \in Derived |-> IF dLock[t] = w THEN NoWriter ELSE dLock[t]]

Working == {"fetch", "lock", "put", "upsert", "derive", "dput", "dupsert", "unlock", "stale"}

\* A call inside the work of a partition throws: its locks are freed and the
\* task fails; a job without a task is over.
Throws(w) ==
    /\ Fault
    /\ job[w].pc \in Working
    /\ Unlocked(w)
    /\ UNCHANGED <<tasks, storeVars, sideJobs>>
    /\ IF HasTask(w) /\ job[w].run # 0
       THEN Goto(w, "failed") /\ UNCHANGED clockVars
       ELSE EndRun(w)

\* A lock is still held after the last retry: AggregateLockBusyError.
LockBusy(w) ==
    /\ \/ At(w, "lock") /\ lock[job[w].d] # NoWriter
       \/ At(w, "derive") /\ \E t \in job[w].left : dLock[t] # NoWriter
    /\ Unlocked(w)
    /\ UNCHANGED <<tasks, storeVars, archiveFaults, sideJobs>>
    /\ IF HasTask(w) /\ job[w].run # 0
       THEN Goto(w, "failed") /\ UNCHANGED clockVars
       ELSE EndRun(w)

-----------------------------------------------------------------------------
(* ChartArchiveScheduler.tick and archiveTradeDate. *)

\* The dates of a run in ascending order: the stranded ones before the day itself.
NextDate(w) == CHOOSE d \in job[w].todo : \A e \in job[w].todo : d <= e

\* tick: one pod a date takes the lock; the stranded dates come first.
Tick(w) ==
    /\ w \in ArchivePods /\ At(w, "idle")
    /\ lastRun[w] # today
    /\ dailyLock[today] = NoWriter
    /\ lastRun' = [lastRun EXCEPT ![w] = today]
    /\ dailyLock' = [dailyLock EXCEPT ![today] = w]
    /\ tasks' = OrphansReset(tasks)
    /\ job' = [job EXCEPT ![w] =
          [Idle EXCEPT !.kind = "daily", !.pc = "begin",
                       !.todo = StrandedDates(tasks', today) \cup {today}]]
    /\ UNCHANGED <<today, windowOpen, storeVars, lockVars, archiveFaults, sideJobs>>

\* chart:backfill and the one-date script: archiveTradeDate without recovery.
StartScript(w) ==
    /\ \E d \in 1 .. today :
          Starts(w, [Idle EXCEPT !.kind = "script", !.pc = "begin", !.todo = {d}])
    /\ UNCHANGED <<clockVars, tasks, storeVars, lockVars, archiveFaults>>

Recovering(w) == job[w].kind = "daily" /\ \E e \in job[w].todo : e # today

\* recoverStrandedBefore stops at the end of the window; the day itself goes on.
RecoveryStops(w) ==
    /\ At(w, "begin") /\ Recovering(w) /\ ~windowOpen
    /\ job' = [job EXCEPT ![w].todo = {today}]
    /\ UNCHANGED <<clockVars, tasks, storeVars, lockVars, archiveFaults, sideJobs>>

\* Preflight passed, universe read, a task inserted under a new run id.
BeginDate(w) ==
    /\ At(w, "begin") /\ job[w].todo # {}
    /\ Recovering(w) => windowOpen
    /\ Len(tasks) < MaxRuns
    /\ LET ts == IF job[w].kind = "daily" /\ ~Recovering(w) THEN tasks ELSE OrphansReset(tasks)
       IN tasks' = Append(ts, PendingTask(NextDate(w)))
    /\ job' = [job EXCEPT ![w].pc = "task", ![w].d = NextDate(w), ![w].run = Len(tasks) + 1]
    /\ UNCHANGED <<clockVars, storeVars, lockVars, archiveFaults, sideJobs>>

\* assertStockMasterReady throws although the list was synced: the run is over.
PreflightFails(w) ==
    /\ At(w, "begin") /\ job[w].kind = "daily" /\ job[w].todo # {}
    /\ Recovering(w) => windowOpen
    /\ Fault
    /\ EndRun(w)
    /\ UNCHANGED <<tasks, storeVars, lockVars, sideJobs>>

\* The symbol's turn: outside the window only today's own task waits.
TaskTurn(w) ==
    /\ At(w, "task")
    /\ LET r == job[w].run
           t == MarkedRunning(tasks[r])
           late == job[w].kind = "daily" /\ ~Recovering(w) /\ ~windowOpen
           trading == IsTradingDay(job[w].d)
       IN IF late /\ trading
          THEN MarkTask(r, "PENDING") /\ Goto(w, "supersede")
          ELSE /\ tasks' = [tasks EXCEPT ![r] = t]
               /\ Goto(w, CASE t.status = "SKIPPED" -> "supersede"
                            [] t.status # "SKIPPED" /\ ~trading -> "upsert"
                            [] OTHER -> "fetch")
    /\ UNCHANGED <<clockVars, storeVars, lockVars, archiveFaults, sideJobs>>

\* skipIfReady of a resumed script: isReadyPartition.
SkipReady(w) ==
    /\ At(w, "fetch") /\ job[w].kind = "script"
    /\ manifest[job[w].d].status = "READY"
    /\ Goto(w, "ready")
    /\ UNCHANGED <<clockVars, tasks, storeVars, lockVars, archiveFaults, sideJobs>>

TaskReady(w) ==
    /\ At(w, "ready")
    /\ MarkTask(job[w].run, "READY")
    /\ Goto(w, "supersede")
    /\ UNCHANGED <<clockVars, storeVars, lockVars, archiveFaults, sideJobs>>

TaskFailed(w) ==
    /\ At(w, "failed")
    /\ MarkTask(job[w].run, "FAILED")
    /\ Goto(w, "supersede")
    /\ UNCHANGED <<clockVars, storeVars, lockVars, archiveFaults, sideJobs>>

\* A recovered date: what earlier runs left of it is closed.  Then the next date,
\* or the rebuild of the derived manifests found STALE or MISMATCH.
ProblemDerived == {t \in Derived : dManifest[t].status \in {"STALE", "MISMATCH"}}

DateDone(w) ==
    /\ At(w, "supersede")
    /\ tasks' = IF Recovering(w) THEN Superseded(tasks, job[w].d, job[w].run) ELSE tasks
    /\ LET rest == job[w].todo \ {job[w].d}
           next == IF rest # {} THEN "begin" ELSE "stale"
       IN job' = [job EXCEPT ![w] =
             [Idle EXCEPT !.kind = job[w].kind, !.pc = next, !.todo = rest, !.d = job[w].d,
                          !.left = IF rest = {} /\ job[w].kind = "daily" THEN ProblemDerived ELSE {}]]
    /\ UNCHANGED <<clockVars, storeVars, lockVars, archiveFaults, sideJobs>>

-----------------------------------------------------------------------------
(* archiveSymbol, archiveBackfillCandles, backfillSymbolTradingValue. *)

\* A catch-up with archiveToS3, or the tradingValue backfill, of a trading day.
StartBackfill(w) ==
    /\ \E d \in TradingDates \cap (1 .. today), k \in {"catchup", "values"} :
          Starts(w, [Idle EXCEPT !.kind = k, !.pc = "fetch", !.d = d])
    /\ UNCHANGED <<clockVars, tasks, storeVars, lockVars, archiveFaults>>

\* fetchChartCandles, before the lock is taken: any part of the session.
Fetch(w) ==
    /\ At(w, "fetch")
    /\ \E rows \in SUBSET Minutes :
          /\ job[w].kind = "catchup" => rows # {}
          /\ job' = [job EXCEPT ![w].pc = "lock", ![w].rows = rows]
    /\ UNCHANGED <<clockVars, tasks, storeVars, lockVars, archiveFaults, sideJobs>>

\* Mutant: the lock is taken from whoever holds it.
LockForced(w, d) == lock' = [lock EXCEPT ![d] = w]

\* SET NX of the partition's lock.
LockFor(w, d) == lock[d] = NoWriter /\ lock' = [lock EXCEPT ![d] = w]

\* The lock, then getRows and mergeRows.  The value backfill changes rows that
\* are there and adds none; a catch-up writes only a complete partition.
LockAndMerge(w) ==
    LET d == job[w].d
        merged == IF job[w].kind = "values" THEN object[d] ELSE object[d] \cup job[w].rows
        skip == \/ job[w].kind = "values" /\ object[d] \cap job[w].rows = {}
                \/ job[w].kind = "catchup" /\ OneMinuteStatus(d, merged) # "READY"
    IN /\ At(w, "lock")
       /\ LockFor(w, d)
       /\ job' = [job EXCEPT ![w].pc = IF skip THEN "unlock" ELSE "put", ![w].rows = merged]
       /\ UNCHANGED <<clockVars, tasks, storeVars, dLock, archiveFaults, sideJobs>>

\* writePartition: the object first ...
PutRows(w) ==
    /\ At(w, "put")
    /\ object' = [object EXCEPT ![job[w].d] = job[w].rows]
    /\ Goto(w, "upsert")
    /\ UNCHANGED <<clockVars, tasks, manifest, dObject, dManifest, lockVars, archiveFaults, sideJobs>>

\* ... then its manifest (NO_TRADE has no object) and the sidecar.
UpsertManifest(w) ==
    LET d == job[w].d
        status == IF IsTradingDay(d) THEN OneMinuteStatus(d, job[w].rows) ELSE "NO_TRADE"
    IN /\ At(w, "upsert")
       /\ manifest' = [manifest EXCEPT ![d] = [status |-> status, sum |-> job[w].rows]]
       /\ job' = [job EXCEPT ![w].pc = CASE status = "READY" -> "derive"
                                          [] status = "NO_TRADE" -> "ready"
                                          [] OTHER -> "unlock",
                             ![w].left = IF status = "READY" THEN Derived ELSE {},
                             ![w].drows = [e \in Dates |-> IF e = d THEN job[w].rows ELSE {}]]
       /\ UNCHANGED <<clockVars, tasks, object, dObject, dManifest, lockVars, archiveFaults, sideJobs>>

\* writeMergedAggregatePartition: a lock and a merge of its own, inside the
\* one-minute lock.
LockAndMergeDerived(w) ==
    /\ At(w, "derive")
    /\ \E t \in job[w].left :
          /\ dLock[t] = NoWriter
          /\ dLock' = [dLock EXCEPT ![t] = w]
          /\ job' = [job EXCEPT ![w].pc = "dput", ![w].tf = t,
                                ![w].drows = MergeRows(dObject[t], @)]
    /\ UNCHANGED <<clockVars, tasks, storeVars, lock, archiveFaults, sideJobs>>

PutDerived(w) ==
    /\ At(w, "dput")
    /\ dObject' = [dObject EXCEPT ![job[w].tf] = job[w].drows]
    /\ Goto(w, "dupsert")
    /\ UNCHANGED <<clockVars, tasks, object, manifest, dManifest, lockVars, archiveFaults, sideJobs>>

UpsertDerived(w) ==
    LET t == job[w].tf
        left == job[w].left \ {t}
        rebuilds == job[w].run = 0 /\ job[w].kind \in {"daily", "rebuild"}
        own == [e \in Dates |-> IF e = job[w].d THEN job[w].rows ELSE {}]
    IN /\ At(w, "dupsert")
       /\ dManifest' = [dManifest EXCEPT ![t] =
             [status |-> DerivedStatus(job[w].d, job[w].drows), sum |-> job[w].drows]]
       /\ dLock' = [dLock EXCEPT ![t] = IF @ = w THEN NoWriter ELSE @]
       /\ job' = [job EXCEPT ![w].left = left, ![w].tf = "", ![w].drows = own,
                             ![w].pc = CASE rebuilds -> "stale"
                                         [] ~rebuilds /\ left # {} -> "derive"
                                         [] OTHER -> "unlock"]
       /\ UNCHANGED <<clockVars, tasks, object, manifest, dObject, lock, archiveFaults, sideJobs>>

Unlock(w) ==
    /\ At(w, "unlock")
    /\ Unlocked(w)
    /\ IF HasTask(w) THEN Goto(w, "ready") ELSE Finish(w)
    /\ UNCHANGED <<clockVars, tasks, storeVars, archiveFaults, sideJobs>>

-----------------------------------------------------------------------------
(* Rebuild of derived partitions, and the audit. *)

\* chart_archive:rebuild_requested, or rebuildDerivedForDate from a script.
StartRebuild(w) ==
    /\ \E left \in {ProblemDerived, Derived} \ {{}} :
          Starts(w, [Idle EXCEPT !.kind = "rebuild", !.pc = "stale", !.left = left])
    /\ UNCHANGED <<clockVars, tasks, storeVars, lockVars, archiveFaults>>

\* rebuildStaleDerivedManifests: the rows of every READY one-minute partition,
\* read without their locks; nothing to rebuild from is a skip.
Rebuild(w) ==
    /\ At(w, "stale") /\ job[w].left # {}
    /\ LET rows == [d \in Dates |-> IF manifest[d].status = "READY" THEN object[d] ELSE {}]
           last == MaxTradeDate(rows, 1)
       IN \E t \in job[w].left :
             IF RowDates(rows) = {}
             THEN /\ job' = [job EXCEPT ![w].left = @ \ {t}]
                  /\ UNCHANGED dLock
             ELSE /\ dLock[t] = NoWriter
                  /\ dLock' = [dLock EXCEPT ![t] = w]
                  /\ job' = [job EXCEPT ![w].pc = "dput", ![w].tf = t, ![w].d = last,
                                        ![w].drows = MergeRows(dObject[t], rows)]
    /\ UNCHANGED <<clockVars, tasks, storeVars, lock, archiveFaults, sideJobs>>

RebuildBusy(w) ==
    /\ At(w, "stale") /\ \E t \in job[w].left : dLock[t] # NoWriter
    /\ EndRun(w)
    /\ UNCHANGED <<tasks, storeVars, lockVars, archiveFaults, sideJobs>>

\* The end of tick, of a script or of a rebuild request.
RunEnds(w) ==
    /\ At(w, "stale") /\ job[w].left = {}
    /\ EndRun(w)
    /\ UNCHANGED <<tasks, storeVars, lockVars, archiveFaults, sideJobs>>

\* auditReadyManifests reads the checksum of a READY manifest ...
StartAudit(w) ==
    /\ LET audit == [Idle EXCEPT !.kind = "audit", !.pc = "verify"]
       IN \/ \E d \in Dates :
                /\ manifest[d].status = "READY"
                /\ Starts(w, [audit EXCEPT !.d = d, !.rows = manifest[d].sum])
          \/ \E t \in Derived :
                /\ dManifest[t].status = "READY"
                /\ Starts(w, [audit EXCEPT !.tf = t, !.drows = dManifest[t].sum])
    /\ UNCHANGED <<clockVars, tasks, storeVars, lockVars, archiveFaults>>

\* ... later compares it with the object, and on a difference marks the
\* manifest MISMATCH whatever it has become.
Verify(w) ==
    LET d == job[w].d
        t == job[w].tf
    IN /\ At(w, "verify")
       /\ manifest' = IF t = "" /\ object[d] # job[w].rows
                      THEN [manifest EXCEPT ![d].status = "MISMATCH"] ELSE manifest
       /\ dManifest' = IF t # "" /\ dObject[t] # job[w].drows
                       THEN [dManifest EXCEPT ![t].status = "MISMATCH"] ELSE dManifest
       /\ Finish(w)
       /\ UNCHANGED <<clockVars, tasks, object, dObject, lockVars, archiveFaults, sideJobs>>

\* markRunStale, markDerivedStale: an operator or the back end distrusts a manifest.
MarkStale ==
    /\ Fault
    /\ \/ \E d \in Dates : /\ manifest[d].status = "READY"
                           /\ manifest' = [manifest EXCEPT ![d].status = "STALE"]
                           /\ UNCHANGED dManifest
       \/ \E t \in Derived : /\ dManifest[t].status = "READY"
                             /\ dManifest' = [dManifest EXCEPT ![t].status = "STALE"]
                             /\ UNCHANGED manifest
    /\ UNCHANGED <<clockVars, tasks, object, dObject, lockVars, job, sideJobs>>

-----------------------------------------------------------------------------
(* Time and crashes. *)

NextDay ==
    /\ today < NDates
    /\ \A w \in Writers : job[w].kind # "daily"
    /\ today' = today + 1
    /\ windowOpen' = TRUE
    /\ UNCHANGED <<lastRun, dailyLock, tasks, storeVars, lockVars, job, archiveFaults, sideJobs>>

WindowCloses ==
    /\ windowOpen /\ windowOpen' = FALSE
    /\ UNCHANGED <<today, lastRun, dailyLock, tasks, storeVars, lockVars, job, archiveFaults, sideJobs>>

\* Half an hour passes since a task was started.
TaskAges(r) ==
    /\ r \in DOMAIN tasks /\ tasks[r].status = "RUNNING" /\ ~tasks[r].old
    /\ tasks' = [tasks EXCEPT ![r].old = TRUE]
    /\ UNCHANGED <<clockVars, storeVars, lockVars, job, archiveFaults, sideJobs>>

Crash(w) ==
    /\ ~At(w, "idle") /\ Fault
    /\ Finish(w)
    /\ lastRun' = [lastRun EXCEPT ![w] = 0]
    /\ UNCHANGED <<today, windowOpen, dailyLock, tasks, storeVars, lockVars, sideJobs>>

\* Whether w is still inside the work a lock protects.
HoldsRows(w, d) == job[w].d = d /\ job[w].pc \in {"put", "upsert", "derive", "dput", "dupsert", "unlock"}
HoldsDerived(w, t) == job[w].tf = t /\ job[w].pc \in {"dput", "dupsert"}

LockExpires ==
    /\ \/ \E d \in Dates, w \in Writers :
             /\ lock[d] = w /\ (LocksOutliveHolders => ~HoldsRows(w, d))
             /\ lock' = [lock EXCEPT ![d] = NoWriter]
             /\ UNCHANGED <<dLock, dailyLock>>
       \/ \E t \in Derived, w \in Writers :
             /\ dLock[t] = w /\ (LocksOutliveHolders => ~HoldsDerived(w, t))
             /\ dLock' = [dLock EXCEPT ![t] = NoWriter]
             /\ UNCHANGED <<lock, dailyLock>>
       \/ \E d \in Dates, w \in Writers :
             /\ dailyLock[d] = w /\ (LocksOutliveHolders => job[w].kind # "daily")
             /\ dailyLock' = [dailyLock EXCEPT ![d] = NoWriter]
             /\ UNCHANGED lockVars
    /\ UNCHANGED <<today, windowOpen, lastRun, tasks, storeVars, job, archiveFaults, sideJobs>>

ArchiveNext ==
    \/ \E w \in Writers :
          \/ Tick(w) \/ StartScript(w) \/ RecoveryStops(w) \/ BeginDate(w) \/ PreflightFails(w)
          \/ TaskTurn(w) \/ SkipReady(w) \/ TaskReady(w) \/ TaskFailed(w) \/ DateDone(w)
          \/ StartBackfill(w) \/ Fetch(w) \/ LockAndMerge(w) \/ LockBusy(w) \/ PutRows(w)
          \/ UpsertManifest(w) \/ LockAndMergeDerived(w) \/ PutDerived(w) \/ UpsertDerived(w)
          \/ Unlock(w) \/ StartRebuild(w) \/ Rebuild(w) \/ RebuildBusy(w) \/ RunEnds(w)
          \/ StartAudit(w) \/ Verify(w) \/ Throws(w) \/ Crash(w)
    \/ \E r \in 1 .. MaxRuns : RetryFailedRun(r) \/ TaskAges(r)
    \/ MarkStale \/ NextDay \/ WindowCloses \/ LockExpires

ArchiveSpec == ArchiveInit /\ [][ArchiveNext]_archiveVars

-----------------------------------------------------------------------------
(* Properties. *)

Job == [kind : Kinds, pc : Places, todo : SUBSET Dates, d : Dates, run : 0 .. MaxRuns,
        rows : SUBSET Minutes, left : SUBSET Derived, tf : Derived \cup {""}, drows : DerivedRows]

\* Every variable keeps its type; no run is counted twice.
ArchiveTypeOK ==
    /\ today \in Dates /\ windowOpen \in BOOLEAN
    /\ lastRun \in [Writers -> {0} \cup Dates]
    /\ dailyLock \in [Dates -> Writers \cup {NoWriter}]
    /\ tasks \in Seq(Task) /\ Len(tasks) <= MaxRuns
    /\ object \in [Dates -> SUBSET Minutes]
    /\ manifest \in [Dates -> [status : ManifestStatus, sum : SUBSET Minutes]]
    /\ dObject \in [Derived -> DerivedRows]
    /\ dManifest \in [Derived -> [status : ManifestStatus, sum : DerivedRows]]
    /\ lock \in [Dates -> Writers \cup {NoWriter}]
    /\ dLock \in [Derived -> Writers \cup {NoWriter}]
    /\ job \in [Writers -> Job]
    /\ archiveFaults \in 0 .. MaxArchiveFaults /\ sideJobs \in 0 .. MaxSideJobs

\* Whatever pods, scripts, catch-ups, value backfills and rebuilds do at once,
\* and wherever they crash, a row that is in the archive stays in it: every
\* write is a merge made under the partition's lock.
ArchiveGrows ==
    /\ \A d \in Dates : object[d] \subseteq object'[d]
    /\ \A t \in Derived, d \in Dates : dObject[t][d] \subseteq dObject'[t][d]
ArchivedRowsKept == [][ArchiveGrows]_archiveVars

\* A manifest says READY only of a whole partition: every minute of the date, and
\* for a derived one a row, aggregated from every minute, for each trading day up
\* to the last one the manifest covers (the object may be ahead of it, between a
\* put and the upsert or for good after a crash there).
ReadyIsComplete ==
    /\ \A d \in TradingDates : manifest[d].status = "READY" => object[d] = Minutes
    /\ \A t \in Derived : dManifest[t].status = "READY" =>
          \A d \in TradingDates :
             (\E e \in RowDates(dManifest[t].sum) : d <= e) => dObject[t][d] = Minutes

\* A date some run has started is never given up: one of its tasks is READY,
\* RUNNING or left for a later recovery, although each recovery closes the
\* tasks of the runs before it.
NoDateForgotten ==
    \A r \in DOMAIN tasks : \E q \in DOMAIN tasks :
        tasks[q].date = tasks[r].date /\ tasks[q].status # "SKIPPED"
=============================================================================
