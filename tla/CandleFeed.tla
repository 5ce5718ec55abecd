------------------------------ MODULE CandleFeed ------------------------------
(***************************************************************************)
(* One collector's minute candles of one symbol: trade ticks enter         *)
(* CandleBuilderService, a tick of a later minute closes the open candle,  *)
(* CandleCloseService stores and publishes it, and chart catch-up jobs     *)
(* write the same market_candles rows from the broker's chart.             *)
(*                                                                         *)
(* A candle is the set of ticks it was built from: prices and volume are   *)
(* functions of that set.  Closing is asynchronous, so ticks arrive and    *)
(* other closes run meanwhile.                                             *)
(***************************************************************************)
EXTENDS Naturals, FiniteSets

CONSTANTS
    MaxTicks,         \* bound: ticks the broker sends, numbered by source time
    MinuteOf(_),      \* the minute a tick falls in
    BadTicks,         \* ticks with blocking parse warnings, no price or no volume
    OffSession,       \* minutes outside the continuous KRX session
    JobAttempts,      \* attempts of a catch-up job (3)
    MaxJobs,          \* bound: catch-up requests
    MaxFeedFaults     \* bound: failing calls, restarts and crashes

Ticks == 1..MaxTicks
FeedMinutes == {MinuteOf(t) : t \in Ticks}

ASSUME CandleAssumption ==
    /\ MaxTicks \in Nat \ {0} /\ \A t \in Ticks : MinuteOf(t) \in Nat \ {0}
    /\ \A t, u \in Ticks : t <= u => MinuteOf(t) <= MinuteOf(u)
    /\ BadTicks \subseteq Ticks /\ OffSession \subseteq FeedMinutes
    /\ JobAttempts \in Nat \ {0} /\ MaxJobs \in Nat /\ MaxFeedFaults \in Nat

NoMinute == 0
NoCandle == [minute |-> NoMinute, ticks |-> {}]

VARIABLES
    frames,      \* ticks on their way from the sockets
    accepted,    \* ticks the builder accepted
    deadLetters, \* ticks it rejected
    current,     \* the builder's open candle
    lastTick,    \* lastAcceptedSourceTsMs
    closing,     \* closes under way: [minute, ticks, pc]
    row,         \* market_candles
    streamed,    \* entries of the closed-candle stream
    catchup,     \* the catch-up job: [pc, attempts, rows, todo]
    emptyMarked, \* the job's target has a chart_empty_ranges row
    jobs,        \* catch-up requests so far
    excused,     \* history: minutes whose store failed or in which the process stopped
    feedFaults

feedVars == <<frames, accepted, deadLetters, current, lastTick, closing, row, streamed, catchup,
              emptyMarked, jobs, excused, feedFaults>>
builderVars == <<accepted, deadLetters, current, lastTick>>
jobVars == <<catchup, emptyMarked, jobs>>

NoRow == [source |-> "none", ticks |-> {}]
NoJob == [pc |-> "idle", attempts |-> 0, rows |-> {}, todo |-> {}]

FeedInit ==
    /\ frames = Ticks /\ accepted = {} /\ deadLetters = {}
    /\ current = NoCandle /\ lastTick = 0 /\ closing = {}
    /\ row = [m \in FeedMinutes |-> NoRow] /\ streamed = {}
    /\ catchup = NoJob /\ emptyMarked = FALSE /\ jobs = 0
    /\ excused = {} /\ feedFaults = 0

FeedFault == feedFaults < MaxFeedFaults /\ feedFaults' = feedFaults + 1

-----------------------------------------------------------------------------
\* Admission: parseable, and not older than the last accepted tick.
Admitted(t) == t \notin BadTicks /\ t >= lastTick

\* Mutants: a null candle is closed; the open candle is replaced unclosed.
ClosedByUnchecked(t) ==
    IF current.minute = MinuteOf(t) THEN {}
    ELSE {[minute |-> current.minute, ticks |-> current.ticks, pc |-> "upsert"]}
ClosedByNothing(t) == {}

\* The closes a tick starts: the open candle, when the tick is of another minute.
ClosedBy(t) ==
    IF current = NoCandle \/ current.minute = MinuteOf(t) THEN {}
    ELSE {[minute |-> current.minute, ticks |-> current.ticks, pc |-> "upsert"]}

\* updateCandle or openCandle.
CandleWith(t) ==
    [minute |-> MinuteOf(t),
     ticks |-> IF current.minute = MinuteOf(t) THEN current.ticks \cup {t} ELSE {t}]

\* A frame reaches recordTick; frames may overtake each other by a minute when
\* the symbol moves between sockets.
IngestTick(t) ==
    /\ t \in frames /\ \A u \in frames : MinuteOf(u) >= MinuteOf(t) - 1
    /\ frames' = frames \ {t}
    /\ IF Admitted(t)
       THEN /\ accepted' = accepted \cup {t} /\ lastTick' = t
            /\ closing' = closing \cup ClosedBy(t)
            /\ current' = CandleWith(t)
            /\ UNCHANGED deadLetters
       ELSE /\ deadLetters' = deadLetters \cup {t}
            /\ UNCHANGED <<accepted, lastTick, closing, current>>
    /\ UNCHANGED <<row, streamed, jobVars, excused, feedFaults>>

\* ON CONFLICT ... DO UPDATE, unless that would replace a realtime row by a
\* catch-up one.
Upserted(old, source, ticks) ==
    IF old.source = "realtime" /\ source # "realtime" THEN old
    ELSE [source |-> source, ticks |-> ticks]

\* close: a minute outside the session is dropped, else the row is stored; when
\* that fails it is logged and the stream entry is produced all the same.
StoreCandle(c) ==
    /\ c \in closing /\ c.pc = "upsert"
    /\ \/ /\ c.minute \in OffSession
          /\ closing' = closing \ {c}
          /\ UNCHANGED <<row, excused, feedFaults>>
       \/ /\ c.minute \notin OffSession
          /\ row' = [row EXCEPT ![c.minute] = Upserted(@, "realtime", c.ticks)]
          /\ closing' = (closing \ {c}) \cup {[c EXCEPT !.pc = "produce"]}
          /\ UNCHANGED <<excused, feedFaults>>
       \/ /\ c.minute \notin OffSession /\ FeedFault
          /\ closing' = (closing \ {c}) \cup {[c EXCEPT !.pc = "produce"]}
          /\ excused' = excused \cup {c.minute}
          /\ UNCHANGED row
    /\ UNCHANGED <<frames, builderVars, streamed, jobVars>>

\* streams.produce; a failure is logged only.
ProduceCandle(c) ==
    /\ c \in closing /\ c.pc = "produce"
    /\ closing' = closing \ {c}
    /\ \/ streamed' = streamed \cup {c.minute} /\ UNCHANGED feedFaults
       \/ FeedFault /\ UNCHANGED streamed
    /\ UNCHANGED <<frames, builderVars, row, jobVars, excused>>

\* A new process has new sockets: what the old ones carried does not come again.
LaterFrames == {t \in frames : \A u \in Ticks \ frames : t > u}

\* SIGTERM: flushAll, every close is awaited; the process that takes over opens
\* the running minute anew and its row replaces the flushed one.
FlushOnShutdown ==
    /\ current # NoCandle /\ FeedFault
    /\ closing' = closing \cup {[minute |-> current.minute, ticks |-> current.ticks, pc |-> "upsert"]}
    /\ current' = NoCandle /\ lastTick' = 0
    /\ excused' = excused \cup {current.minute}
    /\ frames' = LaterFrames
    /\ UNCHANGED <<accepted, deadLetters, row, streamed, jobVars>>

\* A crash loses the open candle and the closes under way; a job that has not
\* been given up is stalled and runs again.
FeedCrash ==
    /\ FeedFault
    /\ excused' = excused \cup {c.minute : c \in closing} \cup ({current.minute} \ {NoMinute})
    /\ current' = NoCandle /\ lastTick' = 0 /\ closing' = {} /\ frames' = LaterFrames
    /\ catchup' = IF catchup.pc \in {"idle", "failed"} THEN catchup
                  ELSE [catchup EXCEPT !.pc = "queued", !.rows = {}, !.todo = {}]
    /\ UNCHANGED <<accepted, deadLetters, row, streamed, emptyMarked, jobs>>

-----------------------------------------------------------------------------
(* Chart catch-up of all minutes: Redis request, BullMQ job, run.          *)

\* A request is enqueued under a fresh job id.
EnqueueCatchup ==
    /\ catchup.pc = "idle" /\ jobs < MaxJobs /\ jobs' = jobs + 1
    /\ catchup' = [NoJob EXCEPT !.pc = "queued"]
    /\ emptyMarked' = FALSE
    /\ UNCHANGED <<frames, builderVars, closing, row, streamed, excused, feedFaults>>

\* fetchChartCandles: the broker has some of the minutes; those outside the
\* session are not persistable.
FetchChart ==
    /\ catchup.pc = "queued"
    /\ \E rows \in SUBSET (FeedMinutes \ OffSession) :
         catchup' = [catchup EXCEPT !.pc = IF rows = {} THEN "mark" ELSE "upsert",
                                    !.rows = rows, !.todo = rows]
    /\ UNCHANGED <<frames, builderVars, closing, row, streamed, emptyMarked, jobs, excused, feedFaults>>

\* upsertClosed of one fetched row; the broker's candle has all its ticks.
UpsertChartRow(m) ==
    /\ catchup.pc = "upsert" /\ m \in catchup.todo
    /\ row' = [row EXCEPT ![m] = Upserted(@, "catchup", {t \in Ticks : MinuteOf(t) = m})]
    /\ catchup' = [catchup EXCEPT !.todo = @ \ {m}, !.pc = IF catchup.todo = {m} THEN "mark" ELSE @]
    /\ UNCHANGED <<frames, builderVars, closing, streamed, emptyMarked, jobs, excused, feedFaults>>

\* recordEmptyTargets, then the job completes.
MarkEmpty ==
    /\ catchup.pc = "mark"
    /\ emptyMarked' = (emptyMarked \/ catchup.rows = {})
    /\ catchup' = [catchup EXCEPT !.pc = "done"]
    /\ UNCHANGED <<frames, builderVars, closing, row, streamed, jobs, excused, feedFaults>>

\* A call of the run throws: the usecase rethrows and BullMQ retries or gives up.
CatchupFails ==
    /\ catchup.pc \in {"queued", "upsert"} /\ FeedFault
    /\ catchup' = [NoJob EXCEPT !.pc = IF catchup.attempts + 1 < JobAttempts THEN "queued" ELSE "failed",
                                !.attempts = catchup.attempts + 1]
    /\ UNCHANGED <<frames, builderVars, closing, row, streamed, emptyMarked, jobs, excused>>

CatchupEnds ==
    /\ catchup.pc \in {"done", "failed"}
    /\ catchup' = NoJob
    /\ UNCHANGED <<frames, builderVars, closing, row, streamed, emptyMarked, jobs, excused, feedFaults>>

FeedNext ==
    \/ \E t \in Ticks : IngestTick(t)
    \/ \E c \in closing : StoreCandle(c) \/ ProduceCandle(c)
    \/ FlushOnShutdown \/ FeedCrash
    \/ EnqueueCatchup \/ FetchChart \/ MarkEmpty \/ CatchupFails \/ CatchupEnds
    \/ \E m \in FeedMinutes : UpsertChartRow(m)

FeedSpec == FeedInit /\ [][FeedNext]_feedVars

-----------------------------------------------------------------------------
\* Types of the feed.
FeedTypeOK ==
    /\ frames \cup accepted \cup deadLetters \subseteq Ticks
    /\ current \in [minute: FeedMinutes \cup {NoMinute}, ticks: SUBSET Ticks] /\ lastTick \in 0..MaxTicks
    /\ closing \subseteq [minute: FeedMinutes, ticks: SUBSET Ticks, pc: {"upsert", "produce"}]
    /\ row \in [FeedMinutes -> [source: {"none", "realtime", "catchup"}, ticks: SUBSET Ticks]]
    /\ streamed \subseteq FeedMinutes /\ excused \subseteq FeedMinutes
    /\ catchup \in [pc: {"idle", "queued", "upsert", "mark", "done", "failed"},
                    attempts: 0..JobAttempts, rows: SUBSET FeedMinutes, todo: SUBSET FeedMinutes]
    /\ emptyMarked \in BOOLEAN /\ jobs \in 0..MaxJobs /\ feedFaults \in 0..MaxFeedFaults

\* No accepted tick is lost: it is in the open candle, in a close under way or in
\* its minute's row, whatever closes and catch-up upserts overlap, unless the
\* minute was cut by a failed store or a stopped process, or is off session.
TicksAccounted ==
    \A t \in accepted :
        \/ MinuteOf(t) \in excused \cup OffSession
        \/ t \in current.ticks
        \/ \E c \in closing : t \in c.ticks
        \/ t \in row[MinuteOf(t)].ticks

\* A job that completes has left a row for some minute of its target, or the
\* marker that keeps the back end from asking again.
CatchupAnswers ==
    catchup.pc = "done" => emptyMarked \/ \E m \in catchup.rows : row[m] # NoRow

\* Both: no tick is lost, and a catch-up leaves an answer.
FeedSafe == TicksAccounted /\ CatchupAnswers

==============================================================================
