---------------------------- MODULE CollectorProofs ----------------------------
(***************************************************************************)
(* Proofs about the collector's chart data: the minute candles of          *)
(* CandleFeed and the daily archive of ChartArchive.                       *)
(***************************************************************************)
EXTENDS CandleFeed, ChartArchive, FiniteSetTheorems, SequenceTheorems, TLAPS

-----------------------------------------------------------------------------
(* CandleFeed: no tick is lost, and a catch-up leaves an answer.           *)

\* The builder's open candle is the minute of the last accepted tick, and
\* admission by source time makes that the latest accepted one.  After a restart
\* nothing is open, and what still arrives is of a later minute than every tick
\* accepted before, but for the minutes the restart cut.
BuilderRegular ==
    /\ lastTick = 0 =>
         /\ current = NoCandle
         /\ \A u \in accepted, t \in frames :
              u < t /\ (MinuteOf(u) \in excused \/ MinuteOf(u) < MinuteOf(t))
    /\ lastTick # 0 =>
         /\ lastTick \in Ticks /\ current.minute = MinuteOf(lastTick)
         /\ lastTick \notin frames
         /\ \A u \in accepted : u <= lastTick

\* The closes of a minute.
ClosesOf(m) == {c \in closing : c.minute = m}
AcceptedOf(m) == {t \in accepted : MinuteOf(t) = m}

\* Where the accepted ticks of a minute are, all of them together: in the open
\* candle, in the one close under way, or in the realtime row, which a catch-up
\* no longer replaces; what comes after that is of another minute.
InCandle(m) ==
    /\ current.minute = m /\ ClosesOf(m) = {}
    /\ AcceptedOf(m) # {} /\ AcceptedOf(m) \subseteq current.ticks
InClose(m) ==
    /\ current.minute # m /\ AcceptedOf(m) # {}
    /\ \E c \in closing :
         /\ c.minute = m /\ c.pc = "upsert" /\ AcceptedOf(m) \subseteq c.ticks
         /\ \A d \in closing : d.minute = m => d = c
InRow(m) ==
    /\ current.minute # m /\ row[m].source = "realtime"
    /\ AcceptedOf(m) # {} /\ AcceptedOf(m) \subseteq row[m].ticks
    /\ \A c \in closing : c.minute = m => c.pc = "produce"
Unseen(m) == current.minute # m /\ ClosesOf(m) = {} /\ AcceptedOf(m) = {}

Located(m) == InCandle(m) \/ InClose(m) \/ InRow(m) \/ Unseen(m)

TicksLocated == \A m \in FeedMinutes \ (excused \cup OffSession) : Located(m)

\* The rows a catch-up has upserted so far are there.
JobRegular ==
    /\ catchup.pc # "failed" => catchup.attempts < JobAttempts
    /\ catchup.pc = "upsert" =>
         /\ catchup.rows # {}
         /\ \A m \in catchup.rows \ catchup.todo : row[m] # NoRow
    /\ catchup.pc \in {"mark", "done"} =>
         catchup.rows = {} \/ \E m \in catchup.rows : row[m] # NoRow
    /\ catchup.pc = "done" /\ catchup.rows = {} => emptyMarked

FeedInv == FeedTypeOK /\ BuilderRegular /\ TicksLocated /\ JobRegular

LEMMA FeedInitInv == FeedInit => FeedInv
<1> SUFFICES ASSUME FeedInit PROVE FeedInv
  OBVIOUS
<1>1. FeedTypeOK
  <2>1. NoJob \in [pc: {"idle", "queued", "upsert", "mark", "done", "failed"},
                   attempts: 0..JobAttempts, rows: SUBSET FeedMinutes, todo: SUBSET FeedMinutes]
    BY CandleAssumption DEF NoJob
  <2>2. NoCandle \in [minute: FeedMinutes \cup {NoMinute}, ticks: SUBSET Ticks]
    BY DEF NoCandle
  <2>3. row \in [FeedMinutes -> [source: {"none", "realtime", "catchup"}, ticks: SUBSET Ticks]]
    BY DEF FeedInit, NoRow
  <2>4. lastTick \in 0..MaxTicks /\ jobs \in 0..MaxJobs /\ feedFaults \in 0..MaxFeedFaults
    BY CandleAssumption DEF FeedInit
  <2>5. /\ frames \cup accepted \cup deadLetters \subseteq Ticks /\ emptyMarked \in BOOLEAN
        /\ closing \subseteq [minute: FeedMinutes, ticks: SUBSET Ticks, pc: {"upsert", "produce"}]
        /\ streamed \subseteq FeedMinutes /\ excused \subseteq FeedMinutes
    BY DEF FeedInit
  <2> QED BY <2>1, <2>2, <2>3, <2>4, <2>5 DEF FeedInit, FeedTypeOK
<1>2. BuilderRegular
  BY DEF FeedInit, BuilderRegular
<1>3. TicksLocated
  <2> SUFFICES ASSUME NEW m \in FeedMinutes PROVE Unseen(m)
    BY DEF TicksLocated, Located
  <2>1. m # 0
    BY CandleAssumption DEF FeedMinutes
  <2> QED BY <2>1 DEF FeedInit, Unseen, ClosesOf, AcceptedOf, NoCandle, NoMinute
<1>4. JobRegular
  BY CandleAssumption DEF FeedInit, JobRegular, NoJob
<1> QED BY <1>1, <1>2, <1>3, <1>4 DEF FeedInv

\* Minutes are positive.
LEMMA MinutesPositive ==
    /\ \A t \in Ticks : MinuteOf(t) \in FeedMinutes
    /\ \A m \in FeedMinutes : m \in Nat /\ m # NoMinute
BY CandleAssumption DEF FeedMinutes, NoMinute

\* Types after a tick.
LEMMA TickIngestTypes ==
    ASSUME FeedInv, NEW t \in Ticks, IngestTick(t)
    PROVE  FeedTypeOK'
<1>1. ClosedBy(t) \subseteq [minute: FeedMinutes, ticks: SUBSET Ticks, pc: {"upsert", "produce"}]
  BY MinutesPositive DEF FeedInv, FeedTypeOK, BuilderRegular, ClosedBy, NoCandle, NoMinute
<1>2. CandleWith(t) \in [minute: FeedMinutes \cup {NoMinute}, ticks: SUBSET Ticks]
  BY MinutesPositive DEF FeedInv, FeedTypeOK, CandleWith
<1>3. t \in 0..MaxTicks
  BY CandleAssumption DEF Ticks
<1> QED BY <1>1, <1>2, <1>3 DEF FeedInv, FeedTypeOK, IngestTick, jobVars

\* Which minute a tick belongs to decides which candle it enters.
LEMMA IngestBuilder ==
    ASSUME FeedInv, NEW t \in Ticks, IngestTick(t)
    PROVE  BuilderRegular'
<1>1. \A u \in Ticks : u \in Nat \ {0}
  BY CandleAssumption DEF Ticks
<1>2. CASE ~Admitted(t)
  BY <1>2 DEF FeedInv, BuilderRegular, IngestTick
<1>3. CASE Admitted(t)
  <2>1. lastTick' = t /\ t # 0 /\ accepted' = accepted \cup {t} /\ frames' = frames \ {t}
    BY <1>1, <1>3 DEF IngestTick
  <2>2. current'.minute = MinuteOf(t)
    BY <1>3 DEF IngestTick, CandleWith
  <2>3. \A u \in accepted : u <= t
    <3>1. CASE lastTick # 0
      BY <1>1, <1>3, <3>1 DEF FeedInv, FeedTypeOK, BuilderRegular, Admitted
    <3>2. CASE lastTick = 0
      <4> SUFFICES ASSUME NEW u \in accepted, t < u PROVE FALSE
        BY <1>1 DEF FeedInv, FeedTypeOK
      <4> QED BY <1>1, <3>2, CandleAssumption
              DEF FeedInv, FeedTypeOK, BuilderRegular, IngestTick
    <3> QED BY <3>1, <3>2
  <2> QED BY <1>1, <2>1, <2>2, <2>3 DEF BuilderRegular
<1> QED BY <1>2, <1>3

\* A tick that is not of the open candle's minute is the first of its own, and the
\* open candle moves on to its close whole.
LEMMA IngestLocated ==
    ASSUME FeedInv, NEW t \in Ticks, IngestTick(t)
    PROVE  TicksLocated'
<1> SUFFICES ASSUME NEW m \in FeedMinutes, m \notin excused \cup OffSession
             PROVE  Located(m)'
  BY DEF TicksLocated, IngestTick
<1>1. Located(m) /\ m # NoMinute /\ row' = row
  BY MinutesPositive DEF FeedInv, TicksLocated, IngestTick
<1>2. CASE ~Admitted(t)
  BY <1>1, <1>2 DEF IngestTick, Located, InCandle, InClose, InRow, Unseen, ClosesOf, AcceptedOf
<1>3. CASE Admitted(t) /\ MinuteOf(t) = m
  <2>1. /\ accepted' = accepted \cup {t} /\ closing' = closing \cup ClosedBy(t)
        /\ current' = CandleWith(t)
    BY <1>3 DEF IngestTick
  <2>2. AcceptedOf(m)' = AcceptedOf(m) \cup {t}
    BY <1>3, <2>1 DEF AcceptedOf
  <2>3. CASE current.minute = m
    <3>1. InCandle(m)
      BY <1>1, <2>3 DEF Located, InCandle, InClose, InRow, Unseen
    <3>2. closing' = closing
      BY <1>3, <2>1, <2>3 DEF ClosedBy
    <3>3. current' = [minute |-> m, ticks |-> current.ticks \cup {t}]
      BY <1>3, <2>1, <2>3 DEF CandleWith
    <3> QED BY <2>2, <3>1, <3>2, <3>3 DEF Located, InCandle, ClosesOf
  <2>4. CASE current.minute # m
    <3>1. AcceptedOf(m) = {}
      <4> SUFFICES ASSUME NEW u \in accepted, MinuteOf(u) = m PROVE FALSE
        BY DEF AcceptedOf
      <4>1. CASE lastTick = 0
        BY <1>3, <4>1, MinutesPositive DEF FeedInv, BuilderRegular, IngestTick
      <4>2. CASE lastTick # 0
        <5>1. /\ lastTick \in Ticks /\ u \in Ticks /\ u <= lastTick /\ lastTick <= t
              /\ current.minute = MinuteOf(lastTick)
          BY <1>3, <4>2 DEF FeedInv, FeedTypeOK, BuilderRegular, Admitted, Ticks
        <5>2. MinuteOf(u) <= MinuteOf(lastTick) /\ MinuteOf(lastTick) <= MinuteOf(t)
          BY <5>1, CandleAssumption
        <5> QED BY <1>3, <2>4, <5>1, <5>2, MinutesPositive
      <4> QED BY <4>1, <4>2
    <3>2. Unseen(m)
      BY <1>1, <2>4, <3>1 DEF Located, InCandle, InClose, InRow
    <3>3. ClosesOf(m)' = {}
      BY <2>1, <2>4, <3>2 DEF Unseen, ClosesOf, ClosedBy
    <3>4. current' = [minute |-> m, ticks |-> {t}]
      BY <1>3, <2>1, <2>4 DEF CandleWith
    <3> QED BY <2>2, <3>1, <3>3, <3>4 DEF Located, InCandle
  <2> QED BY <2>3, <2>4
<1>4. CASE Admitted(t) /\ MinuteOf(t) # m
  <2>1. /\ accepted' = accepted \cup {t} /\ closing' = closing \cup ClosedBy(t)
        /\ current'.minute = MinuteOf(t)
    BY <1>4 DEF IngestTick, CandleWith
  <2>2. AcceptedOf(m)' = AcceptedOf(m)
    BY <1>4, <2>1 DEF AcceptedOf
  <2>3. CASE current.minute = m
    <3>1. InCandle(m)
      BY <1>1, <2>3 DEF Located, InCandle, InClose, InRow, Unseen
    <3>2. PICK c : /\ c = [minute |-> m, ticks |-> current.ticks, pc |-> "upsert"]
                   /\ closing' = closing \cup {c}
      <4>1. current # NoCandle
        BY <1>1, <2>3 DEF NoCandle
      <4>2. ClosedBy(t) = {[minute |-> m, ticks |-> current.ticks, pc |-> "upsert"]}
        BY <1>4, <2>3, <4>1 DEF ClosedBy
      <4> QED BY <2>1, <4>2
    <3>3. InClose(m)'
      <4>1. /\ c \in closing' /\ c.minute = m /\ c.pc = "upsert"
            /\ AcceptedOf(m)' \subseteq c.ticks
        BY <2>2, <3>1, <3>2 DEF InCandle
      <4>2. \A d \in closing' : d.minute = m => d = c
        BY <3>1, <3>2 DEF InCandle, ClosesOf
      <4>3. current'.minute # m /\ AcceptedOf(m)' # {}
        BY <1>4, <2>1, <2>2, <3>1 DEF InCandle
      <4> QED BY <4>1, <4>2, <4>3 DEF InClose
    <3> QED BY <3>3 DEF Located
  <2>4. CASE current.minute # m
    <3>1. \A c \in ClosedBy(t) : c.minute # m
      BY <2>4 DEF ClosedBy
    <3> QED BY <1>1, <1>4, <2>1, <2>2, <2>4, <3>1
            DEF Located, InCandle, InClose, InRow, Unseen, ClosesOf
  <2> QED BY <2>3, <2>4
<1> QED BY <1>2, <1>3, <1>4

\* The job's part only looks at the job and at which rows there are.
LEMMA JobKept ==
    ASSUME JobRegular, UNCHANGED <<catchup, emptyMarked>>, FeedTypeOK,
           \A m \in FeedMinutes : row[m] # NoRow => row'[m] # NoRow
    PROVE  JobRegular'
<1>1. catchup.rows \subseteq FeedMinutes
  BY DEF FeedTypeOK
<1> QED BY <1>1 DEF JobRegular

\* The builder's part does not look at the closes and the rows.
LEMMA BuilderKept ==
    ASSUME BuilderRegular, UNCHANGED <<frames, builderVars>>, excused \subseteq excused'
    PROVE  BuilderRegular'
BY DEF BuilderRegular, builderVars

LEMMA TickIngestInv ==
    ASSUME FeedInv, NEW t \in Ticks, IngestTick(t)
    PROVE  FeedInv'
<1>1. JobRegular'
  BY JobKept DEF FeedInv, IngestTick, jobVars
<1> QED BY <1>1, TickIngestTypes, IngestBuilder, IngestLocated DEF FeedInv

\* A close stores its candle: the minute's ticks are in the realtime row from now on,
\* unless the store failed, which excuses the minute.
LEMMA StoreInv ==
    ASSUME FeedInv, NEW c \in closing, StoreCandle(c)
    PROVE  FeedInv'
<1> USE DEF FeedInv
<1>1. c \in [minute: FeedMinutes, ticks: SUBSET Ticks, pc: {"upsert", "produce"}]
  BY DEF FeedTypeOK
<1>2. FeedTypeOK'
  <2>1. /\ c.minute \in FeedMinutes /\ excused' \subseteq FeedMinutes
        /\ feedFaults' \in 0..MaxFeedFaults
    BY <1>1, CandleAssumption DEF FeedTypeOK, StoreCandle, FeedFault
  <2>2. closing' \subseteq [minute: FeedMinutes, ticks: SUBSET Ticks, pc: {"upsert", "produce"}]
    BY <1>1 DEF FeedTypeOK, StoreCandle
  <2>3. row' \in [FeedMinutes -> [source: {"none", "realtime", "catchup"}, ticks: SUBSET Ticks]]
    BY <1>1, <2>1 DEF FeedTypeOK, StoreCandle, Upserted
  <2> QED BY <2>1, <2>2, <2>3 DEF FeedTypeOK, StoreCandle, builderVars, jobVars
<1>3. BuilderRegular'
  BY BuilderKept DEF StoreCandle, builderVars
<1>4. JobRegular'
  BY <1>1, JobKept DEF FeedTypeOK, StoreCandle, jobVars, Upserted, NoRow
<1>5. TicksLocated'
  <2> SUFFICES ASSUME NEW m \in FeedMinutes, m \notin excused' \cup OffSession
               PROVE  Located(m)'
    BY DEF TicksLocated
  <2>1. Located(m)
    BY DEF TicksLocated, StoreCandle
  <2>2. current' = current /\ AcceptedOf(m)' = AcceptedOf(m)
    BY DEF StoreCandle, builderVars, AcceptedOf
  <2>3. CASE c.minute # m
    <3>1. row'[m] = row[m]
      BY <1>1, <2>3 DEF StoreCandle, FeedTypeOK
    <3>2. \A d : d.minute = m => (d \in closing' <=> d \in closing)
      BY <1>1, <2>3 DEF StoreCandle
    <3> QED BY <2>1, <2>2, <3>1, <3>2
            DEF Located, InCandle, InClose, InRow, Unseen, ClosesOf
  <2>4. CASE c.minute = m
    <3>1. /\ row' = [row EXCEPT ![m] = [source |-> "realtime", ticks |-> c.ticks]]
          /\ closing' = (closing \ {c}) \cup {[c EXCEPT !.pc = "produce"]}
      BY <2>4 DEF StoreCandle, Upserted
    <3>2. InClose(m)
      BY <2>1, <2>4 DEF StoreCandle, Located, InCandle, InRow, Unseen, ClosesOf
    <3>3. AcceptedOf(m) \subseteq c.ticks /\ \A d \in closing : d.minute = m => d = c
      BY <2>4, <3>2 DEF InClose
    <3>4. row'[m] = [source |-> "realtime", ticks |-> c.ticks]
      BY <3>1 DEF FeedTypeOK
    <3>5. \A d \in closing' : d.minute = m => d.pc = "produce"
      BY <1>1, <3>1, <3>3
    <3> QED BY <2>2, <3>2, <3>3, <3>4, <3>5 DEF Located, InRow, InClose
  <2> QED BY <2>3, <2>4
<1> QED BY <1>2, <1>3, <1>4, <1>5

\* Producing the stream entry ends the close.
LEMMA ProduceInv ==
    ASSUME FeedInv, NEW c \in closing, ProduceCandle(c)
    PROVE  FeedInv'
<1> USE DEF FeedInv
<1>1. FeedTypeOK'
  <2>1. c.minute \in FeedMinutes /\ feedFaults' \in 0..MaxFeedFaults
    BY CandleAssumption DEF FeedTypeOK, ProduceCandle, FeedFault
  <2> QED BY <2>1 DEF FeedTypeOK, ProduceCandle, builderVars, jobVars
<1>2. BuilderRegular'
  BY BuilderKept DEF ProduceCandle, builderVars
<1>3. JobRegular'
  BY JobKept DEF ProduceCandle, jobVars
<1>4. TicksLocated'
  <2> SUFFICES ASSUME NEW m \in FeedMinutes, m \notin excused \cup OffSession
               PROVE  Located(m)'
    BY DEF TicksLocated, ProduceCandle
  <2>1. Located(m) /\ current' = current /\ row' = row /\ AcceptedOf(m)' = AcceptedOf(m)
    BY DEF TicksLocated, ProduceCandle, builderVars, AcceptedOf
  <2>2. c \in closing /\ c.pc = "produce" /\ closing' = closing \ {c}
    BY DEF ProduceCandle
  <2> QED BY <2>1, <2>2 DEF Located, InCandle, InClose, InRow, Unseen, ClosesOf
<1> QED BY <1>1, <1>2, <1>3, <1>4

\* After a restart the frames left are later than every tick that was on its way.
LEMMA LaterFramesLater ==
    ASSUME FeedInv, NEW u \in accepted, NEW t \in LaterFrames
    PROVE  /\ t \in frames /\ u \in Ticks /\ t \in Ticks /\ MinuteOf(u) <= MinuteOf(t)
           /\ u < t
           /\ lastTick # 0 => MinuteOf(lastTick) <= MinuteOf(t)
           /\ lastTick # 0 => MinuteOf(u) <= MinuteOf(lastTick)
<1>1. t \in frames /\ u \in Ticks /\ t \in Ticks
  BY DEF FeedInv, FeedTypeOK, LaterFrames
<1>2. CASE lastTick = 0
  <2>1. u < t
    BY <1>1, <1>2 DEF FeedInv, BuilderRegular
  <2> QED BY <1>1, <1>2, <2>1, CandleAssumption DEF Ticks
<1>3. CASE lastTick # 0
  <2>1. u <= lastTick /\ lastTick < t /\ lastTick \in Ticks
    BY <1>1, <1>3 DEF FeedInv, BuilderRegular, LaterFrames
  <2>2. u <= lastTick /\ lastTick <= t /\ u < t /\ u <= t
    BY <1>1, <2>1 DEF Ticks
  <2> QED BY <1>1, <1>3, <2>1, <2>2, CandleAssumption
<1> QED BY <1>2, <1>3

\* A restart excuses the minute that was open, so every minute it does not excuse is
\* over.
LEMMA RestartBuilder ==
    ASSUME FeedInv, lastTick' = 0, current' = NoCandle, frames' = LaterFrames,
           accepted' = accepted, excused \subseteq excused',
           current # NoCandle => current.minute \in excused'
    PROVE  BuilderRegular'
<1> SUFFICES ASSUME NEW u \in accepted, NEW t \in LaterFrames
             PROVE  u < t /\ (MinuteOf(u) \in excused' \/ MinuteOf(u) < MinuteOf(t))
  BY DEF BuilderRegular
<1>1. /\ t \in frames /\ u \in Ticks /\ t \in Ticks /\ u < t
      /\ MinuteOf(u) \in Nat /\ MinuteOf(t) \in Nat
  BY LaterFramesLater, MinutesPositive
<1>2. CASE lastTick = 0
  BY <1>1, <1>2 DEF FeedInv, BuilderRegular
<1>3. CASE lastTick # 0
  <2>1. current.minute = MinuteOf(lastTick) /\ lastTick \in Ticks
    BY <1>3 DEF FeedInv, BuilderRegular
  <2>2. MinuteOf(lastTick) \in excused' /\ MinuteOf(lastTick) \in Nat
    BY <2>1, MinutesPositive DEF NoCandle
  <2>3. MinuteOf(u) <= MinuteOf(lastTick) /\ MinuteOf(lastTick) <= MinuteOf(t)
    BY <1>3, LaterFramesLater
  <2> QED BY <1>1, <2>2, <2>3
<1> QED BY <1>2, <1>3

LEMMA FlushInv ==
    ASSUME FeedInv, FlushOnShutdown
    PROVE  FeedInv'
<1>1. lastTick # 0 /\ current.minute \in FeedMinutes
  BY MinutesPositive DEF FeedInv, BuilderRegular, FlushOnShutdown
<1>2. FeedTypeOK'
  <2>1. /\ [minute |-> current.minute, ticks |-> current.ticks, pc |-> "upsert"]
             \in [minute: FeedMinutes, ticks: SUBSET Ticks, pc: {"upsert", "produce"}]
        /\ NoCandle \in [minute: FeedMinutes \cup {NoMinute}, ticks: SUBSET Ticks]
    BY <1>1 DEF FeedInv, FeedTypeOK, NoCandle
  <2>2. feedFaults' \in 0..MaxFeedFaults /\ lastTick' \in 0..MaxTicks
    BY CandleAssumption DEF FeedInv, FeedTypeOK, FlushOnShutdown, FeedFault
  <2> QED BY <1>1, <2>1, <2>2 DEF FeedInv, FeedTypeOK, FlushOnShutdown, LaterFrames, jobVars
<1>3. BuilderRegular'
  BY RestartBuilder DEF FlushOnShutdown
<1>4. JobRegular'
  BY JobKept DEF FeedInv, FlushOnShutdown, jobVars
<1>5. TicksLocated'
  <2> SUFFICES ASSUME NEW m \in FeedMinutes, m \notin excused' \cup OffSession
               PROVE  Located(m)'
    BY DEF TicksLocated
  <2>1. /\ Located(m) /\ current.minute # m /\ current'.minute # m
        /\ row' = row /\ AcceptedOf(m)' = AcceptedOf(m)
    BY MinutesPositive DEF FeedInv, TicksLocated, FlushOnShutdown, AcceptedOf, NoCandle
  <2>2. \A d : d.minute = m => (d \in closing' <=> d \in closing)
    BY <2>1 DEF FlushOnShutdown
  <2> QED BY <2>1, <2>2 DEF Located, InCandle, InClose, InRow, Unseen, ClosesOf
<1> QED BY <1>2, <1>3, <1>4, <1>5 DEF FeedInv

LEMMA FeedCrashInv ==
    ASSUME FeedInv, FeedCrash
    PROVE  FeedInv'
<1>1. current # NoCandle => lastTick # 0 /\ current.minute \in FeedMinutes
  BY MinutesPositive DEF FeedInv, BuilderRegular
<1>2. current # NoCandle => current.minute \in excused'
  BY <1>1, MinutesPositive DEF FeedCrash
<1>3. FeedTypeOK'
  <2>1. excused' \subseteq FeedMinutes
    BY <1>1 DEF FeedInv, FeedTypeOK, FeedCrash
  <2>2. /\ feedFaults' \in 0..MaxFeedFaults /\ lastTick' \in 0..MaxTicks
        /\ current' \in [minute: FeedMinutes \cup {NoMinute}, ticks: SUBSET Ticks]
    BY CandleAssumption DEF FeedInv, FeedTypeOK, FeedCrash, FeedFault, NoCandle
  <2>3. catchup' \in [pc: {"idle", "queued", "upsert", "mark", "done", "failed"},
                      attempts: 0..JobAttempts, rows: SUBSET FeedMinutes, todo: SUBSET FeedMinutes]
    BY DEF FeedInv, FeedTypeOK, FeedCrash
  <2> QED BY <2>1, <2>2, <2>3 DEF FeedInv, FeedTypeOK, FeedCrash, LaterFrames
<1>4. BuilderRegular'
  BY <1>2, RestartBuilder DEF FeedCrash
<1>5. JobRegular'
  BY DEF FeedInv, FeedTypeOK, JobRegular, FeedCrash
<1>6. TicksLocated'
  <2> SUFFICES ASSUME NEW m \in FeedMinutes, m \notin excused' \cup OffSession
               PROVE  Located(m)'
    BY DEF TicksLocated
  <2>1. /\ Located(m) /\ current.minute # m /\ \A c \in closing : c.minute # m
        /\ current'.minute # m /\ closing' = {} /\ row' = row
        /\ AcceptedOf(m)' = AcceptedOf(m)
    BY MinutesPositive DEF FeedInv, TicksLocated, FeedCrash, AcceptedOf, NoCandle
  <2> QED BY <2>1 DEF Located, InCandle, InClose, InRow, Unseen, ClosesOf
<1> QED BY <1>3, <1>4, <1>5, <1>6 DEF FeedInv

\* A catch-up step that leaves the rows alone keeps every tick where it is.
LEMMA CatchupQuiet ==
    ASSUME FeedInv,
           UNCHANGED <<frames, builderVars, closing, row, streamed, excused>>
    PROVE  BuilderRegular' /\ TicksLocated'
<1>1. BuilderRegular'
  BY BuilderKept DEF FeedInv
<1>2. TicksLocated'
  BY DEF FeedInv, builderVars, TicksLocated, Located, InCandle, InClose, InRow, Unseen,
         ClosesOf, AcceptedOf
<1> QED BY <1>1, <1>2

LEMMA EnqueueInv == ASSUME FeedInv, EnqueueCatchup PROVE FeedInv'
<1>1. FeedTypeOK'
  <2>1. catchup' \in [pc: {"idle", "queued", "upsert", "mark", "done", "failed"},
                      attempts: 0..JobAttempts, rows: SUBSET FeedMinutes, todo: SUBSET FeedMinutes]
    BY CandleAssumption DEF EnqueueCatchup, NoJob
  <2>2. jobs' \in 0..MaxJobs
    BY CandleAssumption DEF FeedInv, FeedTypeOK, EnqueueCatchup
  <2> QED BY <2>1, <2>2 DEF FeedInv, FeedTypeOK, EnqueueCatchup, builderVars
<1>2. JobRegular'
  BY CandleAssumption DEF JobRegular, EnqueueCatchup, NoJob
<1> QED BY <1>1, <1>2, CatchupQuiet DEF FeedInv, EnqueueCatchup

LEMMA FetchInv == ASSUME FeedInv, FetchChart PROVE FeedInv'
<1>1. PICK rows \in SUBSET (FeedMinutes \ OffSession) :
        catchup' = [catchup EXCEPT !.pc = IF rows = {} THEN "mark" ELSE "upsert",
                                   !.rows = rows, !.todo = rows]
  BY DEF FetchChart
<1>2. FeedTypeOK'
  BY <1>1 DEF FeedInv, FeedTypeOK, FetchChart, builderVars
<1>3. JobRegular'
  BY <1>1 DEF FeedInv, FeedTypeOK, JobRegular, FetchChart
<1> QED BY <1>2, <1>3, CatchupQuiet DEF FeedInv, FetchChart

\* A catch-up row never takes the place of a realtime one.
LEMMA UpsertChartInv ==
    ASSUME FeedInv, NEW m \in FeedMinutes, UpsertChartRow(m)
    PROVE  FeedInv'
<1>1. PICK all : /\ all \subseteq Ticks
                 /\ row' = [row EXCEPT ![m] = Upserted(@, "catchup", all)]
  BY DEF UpsertChartRow
<1>2. catchup' = [catchup EXCEPT !.todo = @ \ {m}, !.pc = IF catchup.todo = {m} THEN "mark" ELSE @]
  BY DEF UpsertChartRow
<1>3. FeedTypeOK'
  <2>1. row' \in [FeedMinutes -> [source: {"none", "realtime", "catchup"}, ticks: SUBSET Ticks]]
    BY <1>1 DEF FeedInv, FeedTypeOK, Upserted
  <2> QED BY <1>2, <2>1, ZenonT(40) DEF FeedInv, FeedTypeOK, UpsertChartRow, builderVars
<1>4. BuilderRegular'
  BY BuilderKept DEF FeedInv, UpsertChartRow, builderVars
<1>5. JobRegular'
  <2>1. row'[m] # NoRow /\ \A n \in FeedMinutes : n # m => row'[n] = row[n]
    BY <1>1 DEF FeedInv, FeedTypeOK, Upserted, NoRow
  <2>2. catchup.rows \subseteq FeedMinutes
    BY DEF FeedInv, FeedTypeOK
  <2> QED BY <1>2, <2>1, <2>2, ZenonT(40) DEF FeedInv, FeedTypeOK, JobRegular, UpsertChartRow
<1>6. TicksLocated'
  <2> SUFFICES ASSUME NEW n \in FeedMinutes, n \notin excused \cup OffSession
               PROVE  Located(n)'
    BY DEF TicksLocated, UpsertChartRow
  <2>1. /\ Located(n) /\ current' = current /\ closing' = closing
        /\ AcceptedOf(n)' = AcceptedOf(n)
    BY DEF FeedInv, TicksLocated, UpsertChartRow, builderVars, AcceptedOf
  <2>2. row[n].source = "realtime" => row'[n] = row[n]
    BY <1>1 DEF FeedInv, FeedTypeOK, Upserted
  <2> QED BY <2>1, <2>2 DEF Located, InCandle, InClose, InRow, Unseen, ClosesOf
<1> QED BY <1>3, <1>4, <1>5, <1>6 DEF FeedInv

LEMMA MarkEmptyInv == ASSUME FeedInv, MarkEmpty PROVE FeedInv'
<1>1. FeedTypeOK'
  BY DEF FeedInv, FeedTypeOK, MarkEmpty, builderVars
<1>2. JobRegular'
  BY DEF FeedInv, FeedTypeOK, JobRegular, MarkEmpty
<1> QED BY <1>1, <1>2, CatchupQuiet DEF FeedInv, MarkEmpty

LEMMA CatchupFailsInv == ASSUME FeedInv, CatchupFails PROVE FeedInv'
<1>1. catchup.attempts \in Nat /\ catchup.attempts < JobAttempts /\ JobAttempts \in Nat
  BY CandleAssumption DEF FeedInv, FeedTypeOK, JobRegular, CatchupFails
<1>2. catchup' = [pc |-> IF catchup.attempts + 1 < JobAttempts THEN "queued" ELSE "failed",
                  attempts |-> catchup.attempts + 1, rows |-> {}, todo |-> {}]
  BY DEF CatchupFails, NoJob
<1>3. FeedTypeOK'
  <2>1. catchup' \in [pc: {"idle", "queued", "upsert", "mark", "done", "failed"},
                      attempts: 0..JobAttempts, rows: SUBSET FeedMinutes, todo: SUBSET FeedMinutes]
    BY <1>1, <1>2
  <2>2. feedFaults' \in 0..MaxFeedFaults
    BY CandleAssumption DEF FeedInv, FeedTypeOK, CatchupFails, FeedFault
  <2> QED BY <2>1, <2>2 DEF FeedInv, FeedTypeOK, CatchupFails, builderVars
<1>4. JobRegular'
  BY <1>1, <1>2 DEF JobRegular
<1> QED BY <1>3, <1>4, CatchupQuiet DEF FeedInv, CatchupFails

LEMMA CatchupEndsInv == ASSUME FeedInv, CatchupEnds PROVE FeedInv'
<1>1. FeedTypeOK'
  <2>1. catchup' \in [pc: {"idle", "queued", "upsert", "mark", "done", "failed"},
                      attempts: 0..JobAttempts, rows: SUBSET FeedMinutes, todo: SUBSET FeedMinutes]
    BY CandleAssumption DEF CatchupEnds, NoJob
  <2> QED BY <2>1 DEF FeedInv, FeedTypeOK, CatchupEnds, builderVars
<1>2. JobRegular'
  BY CandleAssumption DEF JobRegular, CatchupEnds, NoJob
<1> QED BY <1>1, <1>2, CatchupQuiet DEF FeedInv, CatchupEnds

LEMMA FeedStep == FeedInv /\ [FeedNext]_feedVars => FeedInv'
<1> SUFFICES ASSUME FeedInv, [FeedNext]_feedVars PROVE FeedInv'
  OBVIOUS
<1>1. CASE UNCHANGED feedVars
  BY <1>1 DEF feedVars, FeedInv, FeedTypeOK, BuilderRegular, TicksLocated, Located, JobRegular,
     InCandle, InClose, InRow, Unseen, ClosesOf, AcceptedOf
<1>2. CASE FeedNext
  BY <1>2, TickIngestInv, StoreInv, ProduceInv, FlushInv, FeedCrashInv, EnqueueInv, FetchInv,
     UpsertChartInv, MarkEmptyInv, CatchupFailsInv, CatchupEndsInv DEF FeedNext
<1> QED BY <1>1, <1>2

\* Types of the feed, for any number of ticks, minutes, jobs and faults.
THEOREM FeedTypes == FeedSpec => []FeedTypeOK
<1>1. FeedInv => FeedTypeOK
  BY DEF FeedInv
<1> QED BY FeedInitInv, FeedStep, <1>1, PTL DEF FeedSpec

LEMMA FeedInvSafe ==
    ASSUME FeedInv
    PROVE  FeedSafe
<1>1. TicksAccounted
  <2> SUFFICES ASSUME NEW t \in accepted, MinuteOf(t) \notin excused \cup OffSession
               PROVE  \/ t \in current.ticks
                      \/ \E c \in closing : t \in c.ticks
                      \/ t \in row[MinuteOf(t)].ticks
    BY DEF TicksAccounted
  <2>1. t \in AcceptedOf(MinuteOf(t)) /\ MinuteOf(t) \in FeedMinutes
    BY MinutesPositive DEF AcceptedOf, FeedInv, FeedTypeOK
  <2>2. Located(MinuteOf(t))
    BY <2>1 DEF FeedInv, TicksLocated
  <2> QED BY <2>1, <2>2 DEF Located, InCandle, InClose, InRow, Unseen
<1>2. CatchupAnswers
  BY DEF FeedInv, JobRegular, CatchupAnswers
<1> QED BY <1>1, <1>2 DEF FeedSafe

\* No tick the builder accepted is lost between the open candle, the closes under
\* way and the rows, whatever closes, catch-up upserts, restarts and failures
\* overlap; and a catch-up that completes has left a row or the marker of an
\* empty range.
THEOREM FeedIsSafe == FeedSpec => []FeedSafe
BY FeedInitInv, FeedStep, FeedInvSafe, PTL DEF FeedSpec

-----------------------------------------------------------------------------
(* ChartArchive: rows stay, READY is complete, no date is given up.        *)

\* A nonempty set of dates has a first and a last one.
LEMMA DatesBounded ==
    ASSUME NEW S \in SUBSET Dates, S # {}
    PROVE  /\ \E d \in S : \A e \in S : d <= e
           /\ \E d \in S : \A e \in S : e <= d
<1>1. S \subseteq Nat /\ \A d \in S : d <= NDates /\ NDates - d \in Nat
  BY ArchiveAssumption DEF Dates
<1>2. \E d \in S : \A e \in S : d <= e
  <2>1. \E d \in S : \A e \in S : ~(<<e, d>> \in OpToRel(<, Nat))
    BY <1>1, NatLessThanWellFounded, WFMin
  <2>2. PICK d \in S : \A e \in S : ~(<<e, d>> \in OpToRel(<, Nat))
    BY <2>1
  <2>3. ASSUME NEW e \in S PROVE d <= e
    <3>1. ~(e < d)
      BY <1>1, <2>2 DEF OpToRel
    <3> QED BY <1>1, <3>1
  <2> QED BY <2>3
<1>3. \E d \in S : \A e \in S : e <= d
  <2>1. PICK T : T = {NDates - d : d \in S}
    OBVIOUS
  <2>2. T \subseteq Nat /\ T # {}
    BY <1>1, <2>1
  <2>3. PICK x \in T : \A y \in T : ~(<<y, x>> \in OpToRel(<, Nat))
    BY <2>2, NatLessThanWellFounded, WFMin
  <2>4. PICK d \in S : x = NDates - d
    BY <2>1
  <2>5. ASSUME NEW e \in S PROVE e <= d
    <3>1. NDates - e \in T /\ ~(NDates - e < NDates - d)
      BY <1>1, <2>1, <2>2, <2>3, <2>4 DEF OpToRel
    <3> QED BY <1>1, <3>1, ArchiveAssumption
  <2> QED BY <2>5
<1> QED BY <1>2, <1>3

\* What the archive's operators return.
LEMMA NextDateIn ==
    ASSUME NEW w \in Writers, job[w].todo \subseteq Dates, job[w].todo # {}
    PROVE  NextDate(w) \in job[w].todo
<1>1. \E d \in job[w].todo : \A e \in job[w].todo : d <= e
  BY DatesBounded
<1> QED BY <1>1 DEF NextDate

LEMMA MaxTradeDateIn ==
    ASSUME NEW rows, NEW d \in Dates
    PROVE  /\ MaxTradeDate(rows, d) \in RowDates(rows) \cup {d}
           /\ MaxTradeDate(rows, d) \in Dates
           /\ \A n \in RowDates(rows) \cup {d} : n <= MaxTradeDate(rows, d)
<1>1. RowDates(rows) \cup {d} \subseteq Dates
  BY DEF RowDates
<1>2. \E m \in RowDates(rows) \cup {d} : \A n \in RowDates(rows) \cup {d} : n <= m
  BY <1>1, DatesBounded
<1> QED BY <1>1, <1>2 DEF MaxTradeDate

\* The edits of the task table keep its length and its types.
LEMMA TaskEdits ==
    ASSUME NEW ts \in Seq(Task)
    PROVE  /\ OrphansReset(ts) \in Seq(Task) /\ Len(OrphansReset(ts)) = Len(ts)
           /\ \A d, run : /\ Superseded(ts, d, run) \in Seq(Task)
                          /\ Len(Superseded(ts, d, run)) = Len(ts)
<1>1. ts \in [1 .. Len(ts) -> Task] /\ Len(ts) \in Nat /\ DOMAIN ts = 1 .. Len(ts)
  OBVIOUS
<1>2. \A f \in [1 .. Len(ts) -> Task] : f \in Seq(Task) /\ Len(f) = Len(ts)
  BY <1>1, SeqDef
<1>3. OrphansReset(ts) \in [1 .. Len(ts) -> Task]
  BY <1>1 DEF OrphansReset, Task, TaskStatus
<1>4. \A d, run : Superseded(ts, d, run) \in [1 .. Len(ts) -> Task]
  BY <1>1 DEF Superseded, Task, TaskStatus
<1> QED BY <1>2, <1>3, <1>4

\* markRunning counts no further than the limit.
LEMMA MarkedRunningTask ==
    ASSUME NEW t \in Task
    PROVE  MarkedRunning(t) \in Task
<1>1. t.attempts \in 0 .. TaskMaxAttempts /\ TaskMaxAttempts \in Nat
  BY ArchiveAssumption DEF Task
<1>2. CASE t.attempts >= TaskMaxAttempts
  BY <1>2 DEF MarkedRunning, Task, TaskStatus
<1>3. CASE ~(t.attempts >= TaskMaxAttempts)
  <2>1. t.attempts + 1 \in 0 .. TaskMaxAttempts
    BY <1>1, <1>3
  <2> QED BY <1>3, <2>1 DEF MarkedRunning, Task, TaskStatus
<1> QED BY <1>2, <1>3

\* A derived object is whole where it has rows: every row is of a trading day and was
\* aggregated from every minute.
Whole(rows) == \A d \in Dates : rows[d] # {} => d \in TradingDates /\ rows[d] = Minutes

\* A process that writes a one-minute partition holds its lock, merged what is there
\* and, once it has put the object, is about to record what it put.
RowsOwn(w) ==
    /\ job[w].pc \in {"fetch", "lock"} => job[w].d \in TradingDates
    /\ job[w].pc = "put" =>
         /\ job[w].d \in TradingDates /\ lock[job[w].d] = w
         /\ object[job[w].d] \subseteq job[w].rows
    /\ job[w].pc = "upsert" /\ job[w].d \in TradingDates =>
         lock[job[w].d] = w /\ object[job[w].d] = job[w].rows

\* The same of a derived partition, whose rows are whole from the start.
DerivedOwn(w) ==
    /\ job[w].pc \in {"derive", "dput", "dupsert", "stale"} =>
         job[w].rows = {} \/ (job[w].rows = Minutes /\ job[w].d \in TradingDates)
    /\ job[w].pc \in {"derive", "dput", "dupsert"} => Whole(job[w].drows)
    /\ job[w].pc \in {"dput", "dupsert"} =>
         job[w].tf \in Derived /\ dLock[job[w].tf] = w
    /\ job[w].pc = "dput" =>
         \A d \in Dates : dObject[job[w].tf][d] \subseteq job[w].drows[d]
    /\ job[w].pc = "dupsert" => dObject[job[w].tf] = job[w].drows

\* What the manifests say of the objects.
Covered(t, d) == \E e \in RowDates(dManifest[t].sum) : d <= e
ManifestsTrue ==
    /\ \A d \in Dates :
         manifest[d].status = "READY" => d \in TradingDates /\ object[d] = Minutes
    /\ \A t \in Derived :
         /\ Whole(dObject[t])
         /\ dManifest[t].status = "READY" =>
              \A d \in TradingDates : Covered(t, d) => dObject[t][d] = Minutes

\* Runs have tasks of their own, of the date they are on, and daily runs exclude each
\* other by the lock of the day.
Tasked == {"task", "fetch", "lock", "put", "upsert", "derive", "unlock", "ready",
           "failed", "supersede"}
RunOwn(w) ==
    /\ job[w].run # 0 => job[w].run \in DOMAIN tasks /\ tasks[job[w].run].date = job[w].d
    /\ job[w].pc = "stale" => job[w].run = 0
    /\ job[w].pc = "task" => job[w].run # 0 /\ tasks[job[w].run].attempts = 0
    /\ job[w].kind = "daily" =>
         /\ dailyLock[today] = w
         /\ job[w].pc \in Tasked => job[w].run # 0
         /\ job[w].run # 0 => tasks[job[w].run].status # "SKIPPED"
RunsApart == \A v, w \in Writers : job[v].run = job[w].run /\ job[v].run # 0 => v = w

ArchiveOwn(w) == RowsOwn(w) /\ DerivedOwn(w) /\ RunOwn(w)

ArchiveInv ==
    /\ ArchiveTypeOK /\ ManifestsTrue /\ RunsApart /\ NoDateForgotten
    /\ \A w \in Writers : ArchiveOwn(w)

\* A step of w leaves the other processes, their locks and the objects under them alone.
Moved(w) ==
    /\ job' \in [Writers -> Job]
    /\ \A v \in Writers : v # w => job'[v] = job[v]
OthersKept(w) ==
    /\ \A d \in Dates : lock[d] \in Writers \ {w} => lock'[d] = lock[d]
    /\ \A t \in Derived : dLock[t] \in Writers \ {w} => dLock'[t] = dLock[t]
    /\ \A d \in Dates : lock[d] # w => object'[d] = object[d]
    /\ \A t \in Derived : dLock[t] # w => dObject'[t] = dObject[t]

\* So what the others own, they still own.
LEMMA OthersRows ==
    ASSUME ArchiveInv, NEW w \in Writers, Moved(w), OthersKept(w),
           NEW v \in Writers, v # w
    PROVE  RowsOwn(v)' /\ DerivedOwn(v)'
<1>1. /\ RowsOwn(v) /\ DerivedOwn(v) /\ job'[v] = job[v] /\ job[v].d \in Dates
  BY DEF ArchiveInv, ArchiveOwn, Moved, ArchiveTypeOK, Job
<1>2. RowsOwn(v)'
  BY <1>1 DEF RowsOwn, OthersKept
<1>3. DerivedOwn(v)'
  BY <1>1 DEF DerivedOwn, OthersKept, Whole
<1> QED BY <1>2, <1>3

\* The same of tasks and daily locks; only a daily run closes the tasks of others.
TasksKept(w) ==
    /\ DOMAIN tasks \subseteq DOMAIN tasks'
    /\ \A r \in DOMAIN tasks :
         /\ tasks'[r].date = tasks[r].date
         /\ r # job[w].run /\ tasks[r].attempts = 0 => tasks'[r].attempts = 0
         /\ r # job[w].run /\ tasks[r].status # "SKIPPED" =>
              tasks'[r].status # "SKIPPED" \/ job[w].kind = "daily"
ClockKept(w) ==
    today' = today /\ (dailyLock[today] \in Writers \ {w} => dailyLock'[today] = dailyLock[today])
RunKept(w) == job'[w].run \in {0, job[w].run} \/ job'[w].run \notin DOMAIN tasks

LEMMA OthersRun ==
    ASSUME ArchiveInv, NEW w \in Writers, Moved(w), TasksKept(w), ClockKept(w),
           NEW v \in Writers, v # w
    PROVE  RunOwn(v)'
<1>1. /\ RunOwn(v) /\ job'[v] = job[v]
      /\ job[v].run # 0 => job[v].run # job[w].run
      /\ job[w].kind = "daily" => dailyLock[today] = w
  BY DEF ArchiveInv, ArchiveOwn, Moved, RunsApart, RunOwn
<1>2. job[v].kind = "daily" =>
        dailyLock[today] = v /\ dailyLock'[today'] = v /\ job[w].kind # "daily"
  BY <1>1 DEF RunOwn, ClockKept
<1>3. job[v].run # 0 =>
        /\ job[v].run \in DOMAIN tasks /\ job[v].run \in DOMAIN tasks'
        /\ tasks'[job[v].run].date = tasks[job[v].run].date
        /\ tasks[job[v].run].attempts = 0 => tasks'[job[v].run].attempts = 0
        /\ tasks[job[v].run].status # "SKIPPED" /\ job[v].kind = "daily" =>
             tasks'[job[v].run].status # "SKIPPED"
  BY <1>1, <1>2 DEF RunOwn, TasksKept
<1> QED BY <1>1, <1>2, <1>3 DEF RunOwn

LEMMA WriterStep ==
    ASSUME ArchiveInv, NEW w \in Writers, Moved(w), OthersKept(w), TasksKept(w), ClockKept(w),
           RunKept(w), ArchiveTypeOK', ArchiveOwn(w)', ManifestsTrue', NoDateForgotten'
    PROVE  ArchiveInv'
<1>1. \A v \in Writers : ArchiveOwn(v)'
  <2> SUFFICES ASSUME NEW v \in Writers, v # w PROVE ArchiveOwn(v)'
    OBVIOUS
  <2> QED BY OthersRows, OthersRun DEF ArchiveOwn
<1>2. RunsApart'
  <2>1. \A v \in Writers : v # w =>
          job'[v] = job[v] /\ (job[v].run # 0 => job[v].run \in DOMAIN tasks)
    BY DEF ArchiveInv, ArchiveOwn, RunOwn, Moved
  <2> QED BY <2>1 DEF ArchiveInv, RunsApart, RunKept
<1> QED BY <1>1, <1>2 DEF ArchiveInv

\* What a step leaves alone.
LEMMA StoresQuiet ==
    ASSUME ArchiveInv, NEW w \in Writers, UNCHANGED <<storeVars, lockVars>>
    PROVE  OthersKept(w) /\ ManifestsTrue'
BY DEF ArchiveInv, ManifestsTrue, Whole, Covered, RowDates, OthersKept, storeVars, lockVars

LEMMA TasksQuiet ==
    ASSUME ArchiveInv, NEW w \in Writers, UNCHANGED tasks
    PROVE  TasksKept(w) /\ NoDateForgotten'
BY DEF ArchiveInv, NoDateForgotten, TasksKept

LEMMA ClockQuiet ==
    ASSUME NEW w \in Writers, UNCHANGED clockVars
    PROVE  ClockKept(w)
BY DEF ClockKept, clockVars

\* An idle process.
LEMMA IdleIsJob == Idle \in Job
<1>1. 1 \in Dates /\ 0 \in 0 .. MaxRuns /\ NoRows \in DerivedRows
  BY ArchiveAssumption DEF Dates, NoRows, DerivedRows
<1> QED BY <1>1 DEF Idle, Job, Kinds, Places

\* The end of a run, of a script or of a job.
LEMMA IdleOwn ==
    ASSUME ArchiveInv, NEW w \in Writers, job' = [job EXCEPT ![w] = Idle]
    PROVE  Moved(w) /\ RunKept(w) /\ ArchiveOwn(w)' /\ job'[w] = Idle
<1>1. Idle \in Job
  BY IdleIsJob
<1>2. job \in [Writers -> Job]
  BY DEF ArchiveInv, ArchiveTypeOK
<1>3. job'[w] = Idle /\ Moved(w)
  BY <1>1, <1>2 DEF Moved
<1>4. job'[w].pc = "idle" /\ job'[w].kind = "none" /\ job'[w].run = 0
  <2>1. Idle.pc = "idle" /\ Idle.kind = "none" /\ Idle.run = 0
    BY DEF Idle
  <2> QED BY <1>3, <2>1
<1>5. RowsOwn(w)'
  BY <1>4 DEF RowsOwn
<1>6. DerivedOwn(w)'
  BY <1>4 DEF DerivedOwn
<1>7. RunOwn(w)'
  BY <1>4 DEF RunOwn
<1> QED BY <1>3, <1>4, <1>5, <1>6, <1>7 DEF RunKept, ArchiveOwn

\* Steps that only move a job.
LEMMA ArchiveQuiet ==
    ASSUME ArchiveInv, NEW w \in Writers, Moved(w), RunKept(w), ArchiveOwn(w)',
           UNCHANGED <<tasks, storeVars, lockVars>>, ClockKept(w),
           UNCHANGED <<today, windowOpen>>,
           lastRun' \in [Writers -> {0} \cup Dates],
           dailyLock' \in [Dates -> Writers \cup {NoWriter}],
           archiveFaults' \in 0 .. MaxArchiveFaults, sideJobs' \in 0 .. MaxSideJobs
    PROVE  ArchiveInv'
<1>1. ArchiveTypeOK'
  BY DEF ArchiveInv, ArchiveTypeOK, Moved, storeVars, lockVars
<1> QED BY <1>1, WriterStep, StoresQuiet, TasksQuiet

LEMMA QuietMove ==
    ASSUME ArchiveInv, NEW w \in Writers, Moved(w), RunKept(w), ArchiveOwn(w)',
           UNCHANGED <<tasks, storeVars, lockVars, clockVars>>,
           archiveFaults' \in 0 .. MaxArchiveFaults, sideJobs' \in 0 .. MaxSideJobs
    PROVE  ArchiveInv'
<1>1. /\ UNCHANGED <<today, windowOpen>> /\ lastRun' \in [Writers -> {0} \cup Dates]
      /\ dailyLock' \in [Dates -> Writers \cup {NoWriter}]
  BY DEF ArchiveInv, ArchiveTypeOK, clockVars
<1>2. UNCHANGED <<tasks, storeVars, lockVars>>
  OBVIOUS
<1> QED BY <1>1, <1>2, ClockQuiet, ArchiveQuiet

\* The counters.
LEMMA CountersQuiet ==
    ASSUME ArchiveInv
    PROVE  /\ UNCHANGED archiveFaults \/ Fault => archiveFaults' \in 0 .. MaxArchiveFaults
           /\ UNCHANGED sideJobs => sideJobs' \in 0 .. MaxSideJobs
           /\ sideJobs < MaxSideJobs /\ sideJobs' = sideJobs + 1 =>
                sideJobs' \in 0 .. MaxSideJobs
BY ArchiveAssumption DEF ArchiveInv, ArchiveTypeOK, Fault

\* A job starts, as j.
LEMMA JobStarts ==
    ASSUME ArchiveInv, NEW w \in Writers, NEW j \in Job, Starts(w, j), j.run = 0,
           j.kind # "daily", j.pc # "task",
           UNCHANGED <<clockVars, tasks, storeVars, lockVars, archiveFaults>>,
           j.pc \in {"begin", "verify"} \/ (j.pc = "fetch" /\ j.d \in TradingDates)
             \/ (j.pc = "stale" /\ j.rows = {})
    PROVE  ArchiveInv'
<1>1. job \in [Writers -> Job] /\ job' = [job EXCEPT ![w] = j]
  BY DEF ArchiveInv, ArchiveTypeOK, Starts
<1>2. job'[w] = j /\ Moved(w)
  BY <1>1 DEF Moved
<1>3. RowsOwn(w)'
  BY <1>2 DEF RowsOwn
<1>4. DerivedOwn(w)'
  BY <1>2 DEF DerivedOwn
<1>5. RunOwn(w)'
  BY <1>2 DEF RunOwn
<1>6. RunKept(w)
  BY <1>2 DEF RunKept
<1>7. archiveFaults' \in 0 .. MaxArchiveFaults /\ sideJobs' \in 0 .. MaxSideJobs
  BY CountersQuiet DEF Starts
<1> QED BY <1>2, <1>3, <1>4, <1>5, <1>6, <1>7, QuietMove DEF ArchiveOwn

LEMMA StartScriptInv ==
    ASSUME ArchiveInv, NEW w \in Writers, StartScript(w)
    PROVE  ArchiveInv'
<1>1. PICK d \in 1 .. today :
        Starts(w, [Idle EXCEPT !.kind = "script", !.pc = "begin", !.todo = {d}])
  BY DEF StartScript
<1>2. d \in Dates
  BY ArchiveAssumption DEF ArchiveInv, ArchiveTypeOK, Dates
<1>3. PICK j : j = [Idle EXCEPT !.kind = "script", !.pc = "begin", !.todo = {d}]
  OBVIOUS
<1>4. j \in Job /\ j.run = 0 /\ j.kind = "script" /\ j.pc = "begin"
  BY <1>2, <1>3, IdleIsJob DEF Idle, Job, Kinds, Places
<1> QED BY <1>1, <1>3, <1>4, JobStarts DEF StartScript

LEMMA StartBackfillInv ==
    ASSUME ArchiveInv, NEW w \in Writers, StartBackfill(w)
    PROVE  ArchiveInv'
<1>1. PICK d \in TradingDates \cap (1 .. today), k \in {"catchup", "values"} :
        Starts(w, [Idle EXCEPT !.kind = k, !.pc = "fetch", !.d = d])
  BY DEF StartBackfill
<1>2. PICK j : j = [Idle EXCEPT !.kind = k, !.pc = "fetch", !.d = d]
  OBVIOUS
<1>3. j \in Job /\ j.run = 0 /\ j.kind = k /\ j.pc = "fetch" /\ j.d = d
  BY <1>2, IdleIsJob, ArchiveAssumption DEF Idle, Job, Kinds, Places
<1> QED BY <1>1, <1>2, <1>3, JobStarts DEF StartBackfill

LEMMA StartRebuildInv ==
    ASSUME ArchiveInv, NEW w \in Writers, StartRebuild(w)
    PROVE  ArchiveInv'
<1>1. PICK left \in SUBSET Derived :
        Starts(w, [Idle EXCEPT !.kind = "rebuild", !.pc = "stale", !.left = left])
  BY DEF StartRebuild, ProblemDerived
<1>2. PICK j : j = [Idle EXCEPT !.kind = "rebuild", !.pc = "stale", !.left = left]
  OBVIOUS
<1>3. j \in Job /\ j.run = 0 /\ j.kind = "rebuild" /\ j.pc = "stale" /\ j.rows = {}
  BY <1>2, IdleIsJob DEF Idle, Job, Kinds, Places
<1> QED BY <1>1, <1>2, <1>3, JobStarts DEF StartRebuild

LEMMA StartAuditInv ==
    ASSUME ArchiveInv, NEW w \in Writers, StartAudit(w)
    PROVE  ArchiveInv'
<1>1. CASE \E d \in Dates :
             Starts(w, [[Idle EXCEPT !.kind = "audit", !.pc = "verify"]
                          EXCEPT !.d = d, !.rows = manifest[d].sum])
  <2>1. PICK d \in Dates :
          Starts(w, [[Idle EXCEPT !.kind = "audit", !.pc = "verify"]
                       EXCEPT !.d = d, !.rows = manifest[d].sum])
    BY <1>1
  <2>2. PICK j : j = [[Idle EXCEPT !.kind = "audit", !.pc = "verify"]
                        EXCEPT !.d = d, !.rows = manifest[d].sum]
    OBVIOUS
  <2>3. j \in Job /\ j.run = 0 /\ j.kind = "audit" /\ j.pc = "verify"
    BY <2>2, IdleIsJob DEF ArchiveInv, ArchiveTypeOK, Idle, Job, Kinds, Places
  <2> QED BY <2>1, <2>2, <2>3, JobStarts DEF StartAudit
<1>2. CASE \E t \in Derived :
             Starts(w, [[Idle EXCEPT !.kind = "audit", !.pc = "verify"]
                          EXCEPT !.tf = t, !.drows = dManifest[t].sum])
  <2>1. PICK t \in Derived :
          Starts(w, [[Idle EXCEPT !.kind = "audit", !.pc = "verify"]
                       EXCEPT !.tf = t, !.drows = dManifest[t].sum])
    BY <1>2
  <2>2. PICK j : j = [[Idle EXCEPT !.kind = "audit", !.pc = "verify"]
                        EXCEPT !.tf = t, !.drows = dManifest[t].sum]
    OBVIOUS
  <2>3. j \in Job /\ j.run = 0 /\ j.kind = "audit" /\ j.pc = "verify"
    BY <2>2, IdleIsJob DEF ArchiveInv, ArchiveTypeOK, Idle, Job, Kinds, Places
  <2> QED BY <2>1, <2>2, <2>3, JobStarts DEF StartAudit
<1> QED BY <1>1, <1>2 DEF StartAudit

\* EndRun frees the day's lock if it is the process's own.
LEMMA EndRunClock ==
    ASSUME ArchiveInv, NEW w \in Writers, ReleaseDaily(w), UNCHANGED <<today, windowOpen, lastRun>>
    PROVE  /\ ClockKept(w) /\ dailyLock' \in [Dates -> Writers \cup {NoWriter}]
           /\ lastRun' \in [Writers -> {0} \cup Dates]
BY DEF ArchiveInv, ArchiveTypeOK, ReleaseDaily, ClockKept

LEMMA EndRunInv ==
    ASSUME ArchiveInv, NEW w \in Writers, EndRun(w),
           UNCHANGED <<tasks, storeVars, lockVars, sideJobs>>,
           UNCHANGED archiveFaults \/ Fault
    PROVE  ArchiveInv'
<1>1. /\ archiveFaults' \in 0 .. MaxArchiveFaults /\ sideJobs' \in 0 .. MaxSideJobs
      /\ UNCHANGED <<tasks, storeVars, lockVars>>
  BY CountersQuiet
<1>2. Moved(w) /\ RunKept(w) /\ ArchiveOwn(w)'
  BY IdleOwn DEF EndRun, Finish
<1>3. /\ ClockKept(w) /\ UNCHANGED <<today, windowOpen>>
      /\ lastRun' \in [Writers -> {0} \cup Dates]
      /\ dailyLock' \in [Dates -> Writers \cup {NoWriter}]
  BY EndRunClock DEF EndRun
<1> QED BY <1>1, <1>2, <1>3, ArchiveQuiet

LEMMA RunOverInv ==
    ASSUME ArchiveInv, NEW w \in Writers, PreflightFails(w) \/ RebuildBusy(w) \/ RunEnds(w)
    PROVE  ArchiveInv'
BY EndRunInv DEF PreflightFails, RebuildBusy, RunEnds

LEMMA CrashInv ==
    ASSUME ArchiveInv, NEW w \in Writers, Crash(w)
    PROVE  ArchiveInv'
<1>1. archiveFaults' \in 0 .. MaxArchiveFaults /\ sideJobs' \in 0 .. MaxSideJobs
  BY CountersQuiet DEF Crash
<1>2. Moved(w) /\ RunKept(w) /\ ArchiveOwn(w)'
  BY IdleOwn DEF Crash, Finish
<1>3. /\ ClockKept(w) /\ UNCHANGED <<today, windowOpen>>
      /\ lastRun' \in [Writers -> {0} \cup Dates]
      /\ dailyLock' \in [Dates -> Writers \cup {NoWriter}]
  BY DEF ArchiveInv, ArchiveTypeOK, Crash, ClockKept
<1> QED BY <1>1, <1>2, <1>3, ArchiveQuiet DEF Crash

\* The job of w becomes j.
LEMMA JobBecomes ==
    ASSUME job \in [Writers -> Job], NEW w \in Writers, NEW j \in Job,
           job' = [job EXCEPT ![w] = j]
    PROVE  Moved(w) /\ job'[w] = j
BY DEF Moved

LEMMA RecoveryStopsInv ==
    ASSUME ArchiveInv, NEW w \in Writers, RecoveryStops(w)
    PROVE  ArchiveInv'
<1>1. /\ job \in [Writers -> Job] /\ job[w].pc = "begin"
      /\ job' = [job EXCEPT ![w].todo = {today}] /\ today \in Dates
      /\ RowsOwn(w) /\ DerivedOwn(w) /\ RunOwn(w)
  BY DEF ArchiveInv, ArchiveTypeOK, ArchiveOwn, RecoveryStops, At
<1>2. /\ job'[w].pc = "begin" /\ job'[w].run = job[w].run /\ job'[w].kind = job[w].kind
      /\ job'[w].d = job[w].d /\ Moved(w)
  BY <1>1 DEF Moved, Job
<1>3. RowsOwn(w)'
  BY <1>2 DEF RowsOwn
<1>4. DerivedOwn(w)'
  BY <1>2 DEF DerivedOwn
<1>5. RunOwn(w)'
  BY <1>1, <1>2 DEF RunOwn, RecoveryStops, clockVars, Tasked
<1>6. archiveFaults' \in 0 .. MaxArchiveFaults /\ sideJobs' \in 0 .. MaxSideJobs
  BY CountersQuiet DEF RecoveryStops
<1> QED BY <1>2, <1>3, <1>4, <1>5, <1>6, QuietMove DEF RecoveryStops, ArchiveOwn, RunKept

\* The day's data are fetched before any lock is taken.
LEMMA FetchRowsInv ==
    ASSUME ArchiveInv, NEW w \in Writers, Fetch(w)
    PROVE  ArchiveInv'
<1>1. PICK rows \in SUBSET Minutes : job' = [job EXCEPT ![w].pc = "lock", ![w].rows = rows]
  BY DEF Fetch
<1>2. /\ job \in [Writers -> Job] /\ job[w].pc = "fetch"
      /\ RowsOwn(w) /\ DerivedOwn(w) /\ RunOwn(w)
  BY DEF ArchiveInv, ArchiveTypeOK, ArchiveOwn, Fetch, At
<1>3. /\ job'[w].pc = "lock" /\ job'[w].run = job[w].run /\ job'[w].kind = job[w].kind
      /\ job'[w].d = job[w].d /\ Moved(w)
  <2>1. PICK j : j = [job[w] EXCEPT !.pc = "lock", !.rows = rows]
    OBVIOUS
  <2>2. /\ j \in Job /\ j.pc = "lock" /\ j.run = job[w].run /\ j.kind = job[w].kind
        /\ j.d = job[w].d
    BY <1>2, <2>1 DEF Job, Places
  <2>3. job' = [job EXCEPT ![w] = j]
    BY <1>1, <1>2, <2>1
  <2> QED BY <1>2, <2>2, <2>3, JobBecomes
<1>4. RowsOwn(w)'
  BY <1>2, <1>3 DEF RowsOwn
<1>5. DerivedOwn(w)'
  BY <1>3 DEF DerivedOwn
<1>6. RunOwn(w)'
  BY <1>2, <1>3 DEF RunOwn, Fetch, clockVars, Tasked
<1>7. archiveFaults' \in 0 .. MaxArchiveFaults /\ sideJobs' \in 0 .. MaxSideJobs
  BY CountersQuiet DEF Fetch
<1> QED BY <1>3, <1>4, <1>5, <1>6, <1>7, QuietMove DEF Fetch, ArchiveOwn, RunKept

LEMMA SkipReadyInv ==
    ASSUME ArchiveInv, NEW w \in Writers, SkipReady(w)
    PROVE  ArchiveInv'
<1>1. /\ job \in [Writers -> Job] /\ job[w].pc = "fetch" /\ RunOwn(w)
      /\ job' = [job EXCEPT ![w].pc = "ready"]
  BY DEF ArchiveInv, ArchiveTypeOK, ArchiveOwn, SkipReady, At, Goto
<1>2. /\ job'[w].pc = "ready" /\ job'[w].run = job[w].run /\ job'[w].kind = job[w].kind
      /\ job'[w].d = job[w].d /\ Moved(w)
  BY <1>1, ZenonT(40) DEF Moved, Job, Places
<1>3. RowsOwn(w)'
  BY <1>2 DEF RowsOwn
<1>4. DerivedOwn(w)'
  BY <1>2 DEF DerivedOwn
<1>5. RunOwn(w)'
  BY <1>1, <1>2 DEF RunOwn, SkipReady, clockVars, Tasked
<1>6. archiveFaults' \in 0 .. MaxArchiveFaults /\ sideJobs' \in 0 .. MaxSideJobs
  BY CountersQuiet DEF SkipReady
<1> QED BY <1>2, <1>3, <1>4, <1>5, <1>6, QuietMove DEF SkipReady, ArchiveOwn, RunKept

\* A step that edits the task table and leaves the stores alone.
LEMMA TaskStep ==
    ASSUME ArchiveInv, NEW w \in Writers, Moved(w), RunKept(w), ArchiveOwn(w)',
           tasks' \in Seq(Task), Len(tasks') <= MaxRuns, TasksKept(w), NoDateForgotten',
           UNCHANGED <<storeVars, lockVars>>, ClockKept(w), UNCHANGED <<today, windowOpen>>,
           lastRun' \in [Writers -> {0} \cup Dates],
           dailyLock' \in [Dates -> Writers \cup {NoWriter}],
           UNCHANGED <<archiveFaults, sideJobs>>
    PROVE  ArchiveInv'
<1>1. ArchiveTypeOK'
  BY DEF ArchiveInv, ArchiveTypeOK, Moved, storeVars, lockVars
<1> QED BY <1>1, WriterStep, StoresQuiet

\* A table in which no task is closed and every new one is open.
LEMMA NoDateKept ==
    ASSUME ArchiveInv, DOMAIN tasks \subseteq DOMAIN tasks',
           \A r \in DOMAIN tasks :
              /\ tasks'[r].date = tasks[r].date
              /\ tasks[r].status # "SKIPPED" => tasks'[r].status # "SKIPPED",
           \A r \in DOMAIN tasks' \ DOMAIN tasks : tasks'[r].status # "SKIPPED"
    PROVE  NoDateForgotten'
<1> SUFFICES ASSUME NEW r \in DOMAIN tasks'
             PROVE  \E q \in DOMAIN tasks' :
                       tasks'[q].date = tasks'[r].date /\ tasks'[q].status # "SKIPPED"
  BY DEF NoDateForgotten
<1>1. CASE r \in DOMAIN tasks
  <2>1. PICK q \in DOMAIN tasks : tasks[q].date = tasks[r].date /\ tasks[q].status # "SKIPPED"
    BY <1>1 DEF ArchiveInv, NoDateForgotten
  <2> QED BY <1>1, <2>1
<1>2. CASE r \notin DOMAIN tasks
  BY <1>2
<1> QED BY <1>1, <1>2

LEMMA OrphansKept ==
    ASSUME NEW ts \in Seq(Task), NEW r \in DOMAIN ts
    PROVE  /\ r \in DOMAIN OrphansReset(ts)
           /\ OrphansReset(ts)[r].date = ts[r].date
           /\ OrphansReset(ts)[r].attempts = ts[r].attempts
           /\ ts[r].status # "SKIPPED" => OrphansReset(ts)[r].status # "SKIPPED"
<1>1. ts[r] \in Task
  OBVIOUS
<1> QED BY <1>1 DEF OrphansReset, Task

LEMMA TickInv ==
    ASSUME ArchiveInv, NEW w \in Writers, Tick(w)
    PROVE  ArchiveInv'
<1>1. /\ job \in [Writers -> Job] /\ tasks \in Seq(Task) /\ Len(tasks) <= MaxRuns
      /\ today \in Dates /\ tasks' = OrphansReset(tasks)
      /\ dailyLock[today] = NoWriter /\ dailyLock' = [dailyLock EXCEPT ![today] = w]
      /\ today' = today
  BY DEF ArchiveInv, ArchiveTypeOK, Tick
<1>2. /\ tasks' \in Seq(Task) /\ Len(tasks') = Len(tasks) /\ DOMAIN tasks' = DOMAIN tasks
  BY <1>1, TaskEdits
<1>3. TasksKept(w) /\ NoDateForgotten'
  BY <1>1, <1>2, OrphansKept, NoDateKept DEF TasksKept
<1>4. PICK j : /\ j = [Idle EXCEPT !.kind = "daily", !.pc = "begin",
                                   !.todo = StrandedDates(tasks', today) \cup {today}]
               /\ job' = [job EXCEPT ![w] = j]
  BY DEF Tick
<1>5. StrandedDates(tasks', today) \subseteq Dates
  BY <1>1, ArchiveAssumption DEF StrandedDates, Dates
<1>6. j \in Job /\ j.kind = "daily" /\ j.pc = "begin" /\ j.run = 0
  BY <1>1, <1>4, <1>5, IdleIsJob DEF Idle, Job, Kinds, Places
<1>7. Moved(w) /\ job'[w] = j
  BY <1>1, <1>4, <1>6, JobBecomes
<1>8. /\ ClockKept(w) /\ lastRun' \in [Writers -> {0} \cup Dates] /\ dailyLock'[today'] = w
      /\ dailyLock' \in [Dates -> Writers \cup {NoWriter}]
  BY <1>1, ArchiveAssumption DEF ArchiveInv, ArchiveTypeOK, Tick, ClockKept
<1>9. RowsOwn(w)' /\ RunKept(w)
  BY <1>6, <1>7 DEF RowsOwn, RunKept
<1>10. DerivedOwn(w)'
  BY <1>6, <1>7 DEF DerivedOwn
<1>11. RunOwn(w)'
  BY <1>6, <1>7, <1>8 DEF RunOwn, Tasked
<1> QED BY <1>1, <1>2, <1>3, <1>7, <1>8, <1>9, <1>10, <1>11, TaskStep DEF Tick, ArchiveOwn

\* A new task for the first date left.
LEMMA BeginDateInv ==
    ASSUME ArchiveInv, NEW w \in Writers, BeginDate(w)
    PROVE  ArchiveInv'
<1>1. /\ job \in [Writers -> Job] /\ tasks \in Seq(Task) /\ Len(tasks) < MaxRuns
      /\ job[w].todo \subseteq Dates /\ job[w].todo # {} /\ RunOwn(w)
      /\ Len(tasks) + 1 \in 0 .. MaxRuns /\ Len(tasks) + 1 # 0
  <2>1. /\ job \in [Writers -> Job] /\ tasks \in Seq(Task) /\ Len(tasks) < MaxRuns
        /\ job[w].todo # {} /\ RunOwn(w)
    BY DEF ArchiveInv, ArchiveTypeOK, ArchiveOwn, BeginDate
  <2>2. job[w].todo \subseteq Dates
    BY <2>1 DEF Job
  <2> QED BY <2>1, <2>2, ArchiveAssumption
<1>2. PICK d \in Dates : d = NextDate(w)
  BY <1>1, NextDateIn
<1>3. PICK ts \in {tasks, OrphansReset(tasks)} : tasks' = Append(ts, PendingTask(d))
  BY <1>2 DEF BeginDate
<1>4. /\ ts \in Seq(Task) /\ Len(ts) = Len(tasks) /\ DOMAIN ts = DOMAIN tasks
      /\ \A r \in DOMAIN tasks :
           /\ ts[r].date = tasks[r].date /\ ts[r].attempts = tasks[r].attempts
           /\ tasks[r].status # "SKIPPED" => ts[r].status # "SKIPPED"
  BY <1>1, TaskEdits, OrphansKept
<1>5. PendingTask(d) \in Task
  BY ArchiveAssumption DEF PendingTask, Task, TaskStatus
<1>6. /\ tasks' \in Seq(Task) /\ Len(tasks') = Len(tasks) + 1 /\ Len(tasks') <= MaxRuns
      /\ DOMAIN tasks = 1 .. Len(tasks) /\ DOMAIN tasks' = 1 .. Len(tasks) + 1
      /\ \A r \in DOMAIN tasks : tasks'[r] = ts[r]
      /\ tasks'[Len(tasks) + 1] = PendingTask(d)
  BY <1>1, <1>3, <1>4, <1>5, AppendProperties
<1>7. /\ tasks'[Len(tasks) + 1].date = d /\ tasks'[Len(tasks) + 1].attempts = 0
      /\ tasks'[Len(tasks) + 1].status = "PENDING"
  BY <1>6 DEF PendingTask
<1>8. DOMAIN tasks \subseteq DOMAIN tasks' /\ Len(tasks) \in Nat
      /\ \A r \in DOMAIN tasks' \ DOMAIN tasks : r = Len(tasks) + 1
  BY <1>1, <1>6
<1>9. TasksKept(w)
  BY <1>4, <1>6, <1>8 DEF TasksKept
<1>10. NoDateForgotten'
  BY <1>4, <1>6, <1>7, <1>8, NoDateKept
<1>11. PICK j : /\ j = [job[w] EXCEPT !.pc = "task", !.d = d, !.run = Len(tasks) + 1]
                /\ job' = [job EXCEPT ![w] = j]
  BY <1>1, <1>2 DEF BeginDate
<1>12. /\ j \in Job /\ j.pc = "task" /\ j.d = d /\ j.run = Len(tasks) + 1
       /\ j.kind = job[w].kind
  BY <1>1, <1>11 DEF Job, Places
<1>13. Moved(w) /\ job'[w] = j
  BY <1>1, <1>11, <1>12, JobBecomes
<1>14. RowsOwn(w)'
  BY <1>12, <1>13 DEF RowsOwn
<1>15. DerivedOwn(w)'
  BY <1>12, <1>13 DEF DerivedOwn
<1>16. RunOwn(w)'
  <2>1. /\ job'[w].run = Len(tasks) + 1 /\ job'[w].run # 0 /\ job'[w].run \in DOMAIN tasks'
        /\ job'[w].d = d /\ job'[w].pc = "task" /\ job'[w].kind = job[w].kind
    BY <1>1, <1>6, <1>12, <1>13
  <2>2. job[w].kind = "daily" => dailyLock'[today'] = w
    BY <1>1 DEF RunOwn, BeginDate, clockVars
  <2> QED BY <1>7, <2>1, <2>2 DEF RunOwn
<1>17. RunKept(w)
  BY <1>8, <1>6, <1>12, <1>13 DEF RunKept
<1>18. /\ UNCHANGED <<today, windowOpen>> /\ ClockKept(w)
       /\ lastRun' \in [Writers -> {0} \cup Dates]
       /\ dailyLock' \in [Dates -> Writers \cup {NoWriter}]
  BY DEF ArchiveInv, ArchiveTypeOK, BeginDate, clockVars, ClockKept
<1> QED BY <1>6, <1>9, <1>10, <1>13, <1>14, <1>15, <1>16, <1>17, <1>18, TaskStep
        DEF BeginDate, ArchiveOwn

\* The run's own task is marked.
LEMMA MarkOwn ==
    ASSUME ArchiveInv, NEW w \in Writers, NEW t, NEW r, r = job[w].run, r \in DOMAIN tasks,
           t \in Task, t.date = tasks[r].date, t.status # "SKIPPED",
           tasks' = [tasks EXCEPT ![r] = t]
    PROVE  /\ tasks' \in Seq(Task) /\ Len(tasks') <= MaxRuns /\ DOMAIN tasks' = DOMAIN tasks
           /\ tasks'[r] = t /\ TasksKept(w) /\ NoDateForgotten'
<1>1. tasks \in Seq(Task) /\ Len(tasks) <= MaxRuns
  BY DEF ArchiveInv, ArchiveTypeOK
<1>2. /\ tasks' \in Seq(Task) /\ Len(tasks') <= MaxRuns /\ DOMAIN tasks' = DOMAIN tasks
      /\ tasks'[r] = t /\ \A q \in DOMAIN tasks : q # r => tasks'[q] = tasks[q]
  BY <1>1
<1>3. TasksKept(w)
  BY <1>2 DEF TasksKept
<1>4. NoDateForgotten'
  BY <1>2, NoDateKept
<1> QED BY <1>2, <1>3, <1>4

\* MarkTask as an edit of one task.
LEMMA MarkTaskIs ==
    ASSUME tasks \in Seq(Task), NEW r \in DOMAIN tasks,
           NEW s \in {"PENDING", "READY", "FAILED"}, MarkTask(r, s)
    PROVE  \E t \in Task : /\ t.date = tasks[r].date /\ t.status = s
                           /\ tasks[r].attempts = 0 => t.attempts = 0
                           /\ tasks' = [tasks EXCEPT ![r] = t]
<1>1. tasks[r] \in Task
  OBVIOUS
<1>2. PICK t : t = [tasks[r] EXCEPT !.status = s,
                                    !.attempts = IF s = "PENDING" THEN 0 ELSE @]
  OBVIOUS
<1>3. /\ t \in Task /\ t.date = tasks[r].date /\ t.status = s
      /\ tasks[r].attempts = 0 => t.attempts = 0
  <2>1. 0 \in 0 .. TaskMaxAttempts
    BY ArchiveAssumption
  <2>2. CASE s = "PENDING"
    BY <1>1, <1>2, <2>1, <2>2 DEF Task, TaskStatus
  <2>3. CASE s # "PENDING"
    BY <1>1, <1>2, <2>3 DEF Task, TaskStatus
  <2> QED BY <2>2, <2>3
<1>4. tasks' = [tasks EXCEPT ![r] = t]
  BY <1>1, <1>2 DEF MarkTask
<1> QED BY <1>3, <1>4

\* The task is closed one way or the other: then the date is done.
LEMMA TaskClosedInv ==
    ASSUME ArchiveInv, NEW w \in Writers, TaskReady(w) \/ TaskFailed(w)
    PROVE  ArchiveInv'
<1>1. PICK s \in {"READY", "FAILED"} : MarkTask(job[w].run, s)
  BY DEF TaskReady, TaskFailed
<1>2. /\ job \in [Writers -> Job] /\ tasks \in Seq(Task) /\ Len(tasks) <= MaxRuns
      /\ RunOwn(w) /\ job[w].pc \in {"ready", "failed"}
      /\ job' = [job EXCEPT ![w].pc = "supersede"]
      /\ UNCHANGED <<clockVars, storeVars, lockVars, archiveFaults, sideJobs>>
  BY DEF ArchiveInv, ArchiveTypeOK, ArchiveOwn, TaskReady, TaskFailed, At, Goto
<1>3. PICK j : j = [job[w] EXCEPT !.pc = "supersede"] /\ job' = [job EXCEPT ![w] = j]
  BY <1>2
<1>4. /\ j \in Job /\ j.pc = "supersede" /\ j.run = job[w].run /\ j.kind = job[w].kind
      /\ j.d = job[w].d
  BY <1>2, <1>3 DEF Job, Places
<1>5. Moved(w) /\ job'[w] = j
  BY <1>2, <1>3, <1>4, JobBecomes
<1>6. RowsOwn(w)' /\ RunKept(w)
  BY <1>4, <1>5 DEF RowsOwn, RunKept
<1>7. DerivedOwn(w)'
  BY <1>4, <1>5 DEF DerivedOwn
<1>8. /\ UNCHANGED <<today, windowOpen>> /\ ClockKept(w) /\ dailyLock' = dailyLock
      /\ lastRun' \in [Writers -> {0} \cup Dates]
      /\ dailyLock' \in [Dates -> Writers \cup {NoWriter}]
  BY <1>2 DEF ArchiveInv, ArchiveTypeOK, clockVars, ClockKept
<1>9. CASE job[w].run = 0
  <2>1. tasks' = tasks
    BY <1>1, <1>2, <1>9 DEF MarkTask
  <2>2. RunOwn(w)'
    BY <1>2, <1>4, <1>5, <1>8, <1>9 DEF RunOwn, Tasked
  <2> QED BY <1>2, <1>5, <1>6, <1>7, <1>8, <2>1, <2>2, TaskStep, TasksQuiet DEF ArchiveOwn
<1>10. CASE job[w].run # 0
  <2>1. PICK r \in DOMAIN tasks : r = job[w].run
    BY <1>2, <1>10 DEF RunOwn
  <2>2. PICK t \in Task : /\ t.date = tasks[r].date /\ t.status = s
                          /\ tasks' = [tasks EXCEPT ![r] = t]
    BY <1>1, <1>2, <2>1, MarkTaskIs
  <2>3. /\ tasks' \in Seq(Task) /\ Len(tasks') <= MaxRuns /\ DOMAIN tasks' = DOMAIN tasks
        /\ tasks'[r] = t /\ TasksKept(w) /\ NoDateForgotten'
    BY <2>1, <2>2, MarkOwn
  <2>4. RunOwn(w)'
    BY <1>2, <1>4, <1>5, <1>8, <2>1, <2>2, <2>3 DEF RunOwn
  <2> QED BY <1>2, <1>5, <1>6, <1>7, <1>8, <2>3, <2>4, TaskStep DEF ArchiveOwn
<1> QED BY <1>9, <1>10

\* The symbol's turn: the attempt is counted, which never closes the task, for it is
\* the run's own and has not been tried before.
LEMMA TaskTurnInv ==
    ASSUME ArchiveInv, NEW w \in Writers, TaskTurn(w)
    PROVE  ArchiveInv'
<1>1. /\ job \in [Writers -> Job] /\ tasks \in Seq(Task) /\ job[w].pc = "task"
      /\ RunOwn(w) /\ UNCHANGED <<clockVars, storeVars, lockVars, archiveFaults, sideJobs>>
  BY DEF ArchiveInv, ArchiveTypeOK, ArchiveOwn, TaskTurn, At
<1>2. PICK r \in DOMAIN tasks :
        r = job[w].run /\ r # 0 /\ tasks[r].attempts = 0 /\ tasks[r].date = job[w].d
  BY <1>1 DEF RunOwn
<1>3. tasks[r] \in Task
  BY <1>1
<1>4. \E t \in Task, pc \in {"supersede", "upsert", "fetch"} :
         /\ t.date = tasks[r].date /\ t.status # "SKIPPED" /\ tasks' = [tasks EXCEPT ![r] = t]
         /\ job' = [job EXCEPT ![w].pc = pc]
         /\ pc = "upsert" => job[w].d \notin TradingDates
         /\ pc = "fetch" => job[w].d \in TradingDates
  <2>1. CASE MarkTask(r, "PENDING") /\ Goto(w, "supersede")
    <3>1. PICK t \in Task : /\ t.date = tasks[r].date /\ t.status = "PENDING"
                            /\ tasks' = [tasks EXCEPT ![r] = t]
      BY <1>1, <2>1, MarkTaskIs
    <3> QED BY <2>1, <3>1 DEF Goto
  <2>2. CASE /\ tasks' = [tasks EXCEPT ![r] = MarkedRunning(tasks[r])]
             /\ \/ IsTradingDay(job[w].d) /\ Goto(w, "fetch")
                \/ ~IsTradingDay(job[w].d) /\ Goto(w, "upsert")
    <3>1. MarkedRunning(tasks[r]) \in Task
      BY <1>3, MarkedRunningTask
    <3>2. /\ MarkedRunning(tasks[r]).date = tasks[r].date
          /\ MarkedRunning(tasks[r]).status = "RUNNING"
      BY <1>2, <1>3, ArchiveAssumption DEF MarkedRunning, Task
    <3> QED BY <2>2, <3>1, <3>2 DEF Goto, IsTradingDay
  <2>3. MarkedRunning(tasks[r]).status # "SKIPPED"
    BY <1>2, <1>3, ArchiveAssumption DEF MarkedRunning, Task
  <2> QED BY <1>2, <2>1, <2>2, <2>3 DEF TaskTurn
<1>5. PICK t \in Task, pc \in {"supersede", "upsert", "fetch"} :
         /\ t.date = tasks[r].date /\ t.status # "SKIPPED" /\ tasks' = [tasks EXCEPT ![r] = t]
         /\ job' = [job EXCEPT ![w].pc = pc]
         /\ pc = "upsert" => job[w].d \notin TradingDates
         /\ pc = "fetch" => job[w].d \in TradingDates
  BY <1>4
<1>6. /\ tasks' \in Seq(Task) /\ Len(tasks') <= MaxRuns /\ DOMAIN tasks' = DOMAIN tasks
      /\ tasks'[r] = t /\ TasksKept(w) /\ NoDateForgotten'
  BY <1>2, <1>5, MarkOwn
<1>7. PICK j : j = [job[w] EXCEPT !.pc = pc] /\ job' = [job EXCEPT ![w] = j]
  BY <1>1, <1>5
<1>8. /\ j \in Job /\ j.pc = pc /\ j.run = job[w].run /\ j.kind = job[w].kind
      /\ j.d = job[w].d
  BY <1>1, <1>5, <1>7, ZenonT(40) DEF Job, Places
<1>9. Moved(w) /\ job'[w] = j
  BY <1>1, <1>7, <1>8, JobBecomes
<1>10. RowsOwn(w)' /\ RunKept(w)
  BY <1>5, <1>8, <1>9 DEF RowsOwn, RunKept
<1>11. DerivedOwn(w)'
  BY <1>5, <1>8, <1>9 DEF DerivedOwn
<1>12. /\ UNCHANGED <<today, windowOpen>> /\ ClockKept(w) /\ dailyLock' = dailyLock
       /\ lastRun' \in [Writers -> {0} \cup Dates]
       /\ dailyLock' \in [Dates -> Writers \cup {NoWriter}]
  BY <1>1 DEF ArchiveInv, ArchiveTypeOK, clockVars, ClockKept
<1>13. RunOwn(w)'
  BY <1>1, <1>2, <1>5, <1>6, <1>8, <1>9, <1>12 DEF RunOwn
<1> QED BY <1>1, <1>6, <1>9, <1>10, <1>11, <1>12, <1>13, TaskStep DEF ArchiveOwn

\* A recovered date closes what earlier runs left of it, and keeps its own task.
LEMMA SupersededKeeps ==
    ASSUME ArchiveInv, NEW w \in Writers, job[w].pc = "supersede", Recovering(w),
           tasks' = Superseded(tasks, job[w].d, job[w].run)
    PROVE  /\ tasks' \in Seq(Task) /\ Len(tasks') <= MaxRuns
           /\ TasksKept(w) /\ NoDateForgotten'
<1>1. /\ tasks \in Seq(Task) /\ Len(tasks) <= MaxRuns /\ RunOwn(w) /\ job[w].kind = "daily"
  BY DEF ArchiveInv, ArchiveTypeOK, ArchiveOwn, Recovering
<1>2. PICK r \in DOMAIN tasks :
        r = job[w].run /\ tasks[r].date = job[w].d /\ tasks[r].status # "SKIPPED"
  BY <1>1 DEF RunOwn, Tasked
<1>3. tasks' \in Seq(Task) /\ Len(tasks') = Len(tasks) /\ DOMAIN tasks' = DOMAIN tasks
  BY <1>1, TaskEdits
<1>4. \A q \in DOMAIN tasks :
        /\ tasks'[q].date = tasks[q].date /\ tasks'[q].attempts = tasks[q].attempts
        /\ q = r \/ tasks[q].date # job[w].d => tasks'[q] = tasks[q]
  <2> SUFFICES ASSUME NEW q \in DOMAIN tasks
               PROVE  /\ tasks'[q].date = tasks[q].date
                      /\ tasks'[q].attempts = tasks[q].attempts
                      /\ q = r \/ tasks[q].date # job[w].d => tasks'[q] = tasks[q]
    OBVIOUS
  <2>1. tasks[q] \in Task
    BY <1>1
  <2> QED BY <1>2, <2>1 DEF Superseded, Task
<1>5. TasksKept(w)
  BY <1>1, <1>3, <1>4 DEF TasksKept
<1>6. NoDateForgotten'
  <2> SUFFICES ASSUME NEW p \in DOMAIN tasks
               PROVE  \E q \in DOMAIN tasks' :
                         tasks'[q].date = tasks'[p].date /\ tasks'[q].status # "SKIPPED"
    BY <1>3 DEF NoDateForgotten
  <2>1. CASE tasks[p].date = job[w].d
    BY <1>2, <1>3, <1>4, <2>1
  <2>2. CASE tasks[p].date # job[w].d
    <3>1. PICK q \in DOMAIN tasks : tasks[q].date = tasks[p].date /\ tasks[q].status # "SKIPPED"
      BY DEF ArchiveInv, NoDateForgotten
    <3> QED BY <1>3, <1>4, <2>2, <3>1
  <2> QED BY <2>1, <2>2
<1> QED BY <1>1, <1>3, <1>5, <1>6

LEMMA DateDoneInv ==
    ASSUME ArchiveInv, NEW w \in Writers, DateDone(w)
    PROVE  ArchiveInv'
<1>1. /\ job \in [Writers -> Job] /\ tasks \in Seq(Task) /\ Len(tasks) <= MaxRuns
      /\ job[w].pc = "supersede" /\ RunOwn(w)
      /\ UNCHANGED <<clockVars, storeVars, lockVars, archiveFaults, sideJobs>>
  BY DEF ArchiveInv, ArchiveTypeOK, ArchiveOwn, DateDone, At
<1>2. /\ tasks' \in Seq(Task) /\ Len(tasks') <= MaxRuns /\ TasksKept(w) /\ NoDateForgotten'
  <2>1. CASE Recovering(w)
    BY <1>1, <2>1, SupersededKeeps DEF DateDone
  <2>2. CASE ~Recovering(w)
    BY <1>1, <2>2, TasksQuiet DEF DateDone
  <2> QED BY <2>1, <2>2
<1>3. PICK j, rest, left, next :
        /\ j = [Idle EXCEPT !.kind = job[w].kind, !.pc = next, !.todo = rest,
                            !.d = job[w].d, !.left = left]
        /\ job' = [job EXCEPT ![w] = j] /\ rest \subseteq job[w].todo
        /\ left \subseteq Derived /\ next \in {"begin", "stale"}
  <2>1. PICK rest : rest = job[w].todo \ {job[w].d}
    OBVIOUS
  <2>2. PICK next : next = IF rest # {} THEN "begin" ELSE "stale"
    OBVIOUS
  <2>3. PICK left : left = IF rest = {} /\ job[w].kind = "daily" THEN ProblemDerived ELSE {}
    OBVIOUS
  <2>4. PICK j : j = [Idle EXCEPT !.kind = job[w].kind, !.pc = next, !.todo = rest,
                                  !.d = job[w].d, !.left = left]
    OBVIOUS
  <2>5. job' = [job EXCEPT ![w] = j]
    BY <2>1, <2>2, <2>3, <2>4 DEF DateDone
  <2>6. rest \subseteq job[w].todo /\ left \subseteq Derived /\ next \in {"begin", "stale"}
    BY <2>1, <2>2, <2>3 DEF ProblemDerived
  <2> QED BY <2>4, <2>5, <2>6
<1>4. /\ j \in Job /\ j.pc \in {"begin", "stale"} /\ j.kind = job[w].kind /\ j.run = 0
      /\ j.rows = {}
  <2>1. job[w] \in Job
    BY <1>1
  <2> QED BY <2>1, <1>3, IdleIsJob DEF Idle, Job, Places
<1>5. Moved(w) /\ job'[w] = j
  BY <1>1, <1>3, <1>4, JobBecomes
<1>6. RowsOwn(w)' /\ RunKept(w)
  BY <1>4, <1>5 DEF RowsOwn, RunKept
<1>7. DerivedOwn(w)'
  BY <1>4, <1>5 DEF DerivedOwn
<1>8. /\ UNCHANGED <<today, windowOpen>> /\ ClockKept(w) /\ dailyLock' = dailyLock
      /\ lastRun' \in [Writers -> {0} \cup Dates]
      /\ dailyLock' \in [Dates -> Writers \cup {NoWriter}]
  BY <1>1 DEF ArchiveInv, ArchiveTypeOK, clockVars, ClockKept
<1>9. RunOwn(w)'
  BY <1>1, <1>4, <1>5, <1>8 DEF RunOwn, Tasked
<1> QED BY <1>1, <1>2, <1>5, <1>6, <1>7, <1>8, <1>9, TaskStep DEF ArchiveOwn

\* A step inside the work of a partition that frees locks: the task fails, or the job
\* without a task is over.
LEMMA UnlockedKeeps ==
    ASSUME ArchiveInv, NEW w \in Writers, Unlocked(w), UNCHANGED storeVars
    PROVE  /\ OthersKept(w) /\ ManifestsTrue'
           /\ lock' \in [Dates -> Writers \cup {NoWriter}]
           /\ dLock' \in [Derived -> Writers \cup {NoWriter}]
<1>1. OthersKept(w) /\ lock' \in [Dates -> Writers \cup {NoWriter}]
      /\ dLock' \in [Derived -> Writers \cup {NoWriter}]
  BY DEF ArchiveInv, ArchiveTypeOK, Unlocked, OthersKept, storeVars
<1>2. ManifestsTrue'
  BY DEF ArchiveInv, ManifestsTrue, Whole, Covered, RowDates, storeVars
<1> QED BY <1>1, <1>2

\* A step of w on stores and locks that leaves the tasks and the clock alone.
LEMMA StoreStep ==
    ASSUME ArchiveInv, NEW w \in Writers, Moved(w), RunKept(w), ArchiveOwn(w)',
           OthersKept(w), ManifestsTrue', UNCHANGED <<tasks, clockVars>>,
           object' \in [Dates -> SUBSET Minutes],
           manifest' \in [Dates -> [status : ManifestStatus, sum : SUBSET Minutes]],
           dObject' \in [Derived -> DerivedRows],
           dManifest' \in [Derived -> [status : ManifestStatus, sum : DerivedRows]],
           lock' \in [Dates -> Writers \cup {NoWriter}],
           dLock' \in [Derived -> Writers \cup {NoWriter}],
           archiveFaults' \in 0 .. MaxArchiveFaults, sideJobs' \in 0 .. MaxSideJobs
    PROVE  ArchiveInv'
<1>1. ArchiveTypeOK'
  BY DEF ArchiveInv, ArchiveTypeOK, Moved, clockVars
<1>2. TasksKept(w) /\ NoDateForgotten'
  BY TasksQuiet
<1> QED BY <1>1, <1>2, ClockQuiet, WriterStep

LEMMA WorkFailsInv ==
    ASSUME ArchiveInv, NEW w \in Writers, Throws(w) \/ LockBusy(w)
    PROVE  ArchiveInv'
<1>1. /\ Unlocked(w) /\ UNCHANGED <<tasks, storeVars, sideJobs>>
      /\ UNCHANGED archiveFaults \/ Fault
      /\ \/ HasTask(w) /\ job[w].run # 0 /\ Goto(w, "failed") /\ UNCHANGED clockVars
         \/ ~(HasTask(w) /\ job[w].run # 0) /\ EndRun(w)
  BY DEF Throws, LockBusy
<1>2. archiveFaults' \in 0 .. MaxArchiveFaults /\ sideJobs' \in 0 .. MaxSideJobs
  BY <1>1, CountersQuiet
<1>3. /\ OthersKept(w) /\ ManifestsTrue'
      /\ lock' \in [Dates -> Writers \cup {NoWriter}]
      /\ dLock' \in [Derived -> Writers \cup {NoWriter}]
  BY <1>1, UnlockedKeeps
<1>4. /\ object' \in [Dates -> SUBSET Minutes]
      /\ manifest' \in [Dates -> [status : ManifestStatus, sum : SUBSET Minutes]]
      /\ dObject' \in [Derived -> DerivedRows]
      /\ dManifest' \in [Derived -> [status : ManifestStatus, sum : DerivedRows]]
      /\ job \in [Writers -> Job] /\ RunOwn(w)
  BY <1>1 DEF ArchiveInv, ArchiveTypeOK, ArchiveOwn, storeVars
<1>5. CASE HasTask(w) /\ job[w].run # 0 /\ Goto(w, "failed") /\ UNCHANGED clockVars
  <2>1. PICK j : j = [job[w] EXCEPT !.pc = "failed"] /\ job' = [job EXCEPT ![w] = j]
    BY <1>4, <1>5 DEF Goto
  <2>2. /\ j \in Job /\ j.pc = "failed" /\ j.run = job[w].run /\ j.kind = job[w].kind
        /\ j.d = job[w].d
    BY <1>4, <2>1 DEF Job, Places
  <2>3. Moved(w) /\ job'[w] = j
    BY <1>4, <2>1, <2>2, JobBecomes
  <2>4. RowsOwn(w)' /\ RunKept(w)
    BY <2>2, <2>3 DEF RowsOwn, RunKept
  <2>5. DerivedOwn(w)'
    BY <2>2, <2>3 DEF DerivedOwn
  <2>6. RunOwn(w)'
    BY <1>1, <1>4, <1>5, <2>2, <2>3 DEF RunOwn, clockVars
  <2> QED BY <1>1, <1>2, <1>3, <1>4, <1>5, <2>3, <2>4, <2>5, <2>6, StoreStep DEF ArchiveOwn
<1>6. CASE EndRun(w)
  <2>1. Moved(w) /\ RunKept(w) /\ ArchiveOwn(w)'
    BY <1>6, IdleOwn DEF EndRun, Finish
  <2>2. /\ ClockKept(w) /\ UNCHANGED <<today, windowOpen>>
        /\ lastRun' \in [Writers -> {0} \cup Dates]
        /\ dailyLock' \in [Dates -> Writers \cup {NoWriter}]
    BY <1>6, EndRunClock DEF EndRun
  <2>3. ArchiveTypeOK'
    BY <1>1, <1>2, <1>3, <1>4, <2>1, <2>2 DEF ArchiveInv, ArchiveTypeOK, Moved
  <2>4. TasksKept(w) /\ NoDateForgotten'
    BY <1>1, TasksQuiet
  <2> QED BY <1>3, <2>1, <2>2, <2>3, <2>4, WriterStep
<1> QED BY <1>1, <1>5, <1>6

\* The types of the stores and locks, for the steps that leave them alone.
LEMMA StoreTypes ==
    ASSUME ArchiveInv
    PROVE  /\ object \in [Dates -> SUBSET Minutes]
           /\ manifest \in [Dates -> [status : ManifestStatus, sum : SUBSET Minutes]]
           /\ dObject \in [Derived -> DerivedRows]
           /\ dManifest \in [Derived -> [status : ManifestStatus, sum : DerivedRows]]
           /\ lock \in [Dates -> Writers \cup {NoWriter}]
           /\ dLock \in [Derived -> Writers \cup {NoWriter}]
           /\ job \in [Writers -> Job]
           /\ archiveFaults \in 0 .. MaxArchiveFaults /\ sideJobs \in 0 .. MaxSideJobs
BY DEF ArchiveInv, ArchiveTypeOK

\* What a process owns of its run, when its job only moves on.
LEMMA RunMoves ==
    ASSUME ArchiveInv, NEW w \in Writers, UNCHANGED <<tasks, clockVars>>,
           job'[w].run = job[w].run, job'[w].kind = job[w].kind, job'[w].d = job[w].d,
           job'[w].pc \notin {"stale", "task"},
           job[w].kind = "daily" /\ job'[w].pc \in Tasked => job[w].run # 0
    PROVE  RunOwn(w)'
<1>1. RunOwn(w)
  BY DEF ArchiveInv, ArchiveOwn
<1> QED BY <1>1 DEF RunOwn, clockVars

\* The lock is taken before the object is read.
LEMMA LockAndMergeInv ==
    ASSUME ArchiveInv, NEW w \in Writers, LockAndMerge(w)
    PROVE  ArchiveInv'
<1>1. PICK d : d = job[w].d
  OBVIOUS
<1>2. /\ job[w] \in Job /\ job[w].pc = "lock" /\ d \in Dates /\ d \in TradingDates
      /\ RunOwn(w) /\ job[w].rows \subseteq Minutes /\ object[d] \subseteq Minutes
  <2>1. job[w] \in Job /\ job[w].pc = "lock" /\ RunOwn(w) /\ RowsOwn(w)
    BY StoreTypes DEF ArchiveInv, ArchiveOwn, LockAndMerge, At
  <2>2. d \in Dates /\ job[w].rows \subseteq Minutes
    BY <1>1, <2>1 DEF Job
  <2> QED BY <1>1, <2>1, <2>2, StoreTypes DEF RowsOwn
<1>3. PICK merged, pc :
        /\ merged \in {object[d], object[d] \cup job[w].rows} /\ pc \in {"unlock", "put"}
        /\ job' = [job EXCEPT ![w].pc = pc, ![w].rows = merged]
  <2>1. PICK merged : merged = IF job[w].kind = "values" THEN object[d]
                               ELSE object[d] \cup job[w].rows
    OBVIOUS
  <2>2. \/ job' = [job EXCEPT ![w].pc = "unlock", ![w].rows = merged]
        \/ job' = [job EXCEPT ![w].pc = "put", ![w].rows = merged]
    BY <1>1, <2>1 DEF LockAndMerge
  <2> QED BY <2>1, <2>2
<1>4. /\ lock[d] = NoWriter /\ lock' = [lock EXCEPT ![d] = w]
      /\ UNCHANGED <<clockVars, tasks, storeVars, dLock, archiveFaults, sideJobs>>
  BY <1>1 DEF LockAndMerge, LockFor
<1>5. PICK j : j = [job[w] EXCEPT !.pc = pc, !.rows = merged] /\ job' = [job EXCEPT ![w] = j]
  BY <1>3, StoreTypes
<1>6. /\ j \in Job /\ j.pc = pc /\ j.run = job[w].run /\ j.kind = job[w].kind
      /\ j.d = d /\ j.rows = merged
  BY <1>1, <1>2, <1>3, <1>5 DEF Job, Places
<1>7. Moved(w) /\ job'[w] = j
  BY <1>5, <1>6, StoreTypes, JobBecomes
<1>8. /\ lock' \in [Dates -> Writers \cup {NoWriter}] /\ lock'[d] = w
      /\ \A e \in Dates : lock[e] \in Writers => lock'[e] = lock[e]
  BY <1>2, <1>4, StoreTypes, ArchiveAssumption
<1>9. OthersKept(w)
  BY <1>4, <1>8 DEF OthersKept, storeVars
<1>10. ManifestsTrue'
  BY <1>4 DEF ArchiveInv, ManifestsTrue, Whole, Covered, RowDates, storeVars
<1>11. RowsOwn(w)'
  BY <1>2, <1>3, <1>4, <1>6, <1>7, <1>8 DEF RowsOwn, storeVars
<1>12. DerivedOwn(w)'
  BY <1>3, <1>6, <1>7 DEF DerivedOwn
<1>13. RunOwn(w)' /\ RunKept(w)
  BY <1>1, <1>2, <1>3, <1>4, <1>6, <1>7, RunMoves DEF RunOwn, Tasked, RunKept
<1> QED BY <1>4, <1>7, <1>8, <1>9, <1>10, <1>11, <1>12, <1>13, StoreTypes, StoreStep
        DEF ArchiveOwn, storeVars

\* The object is replaced by what it was merged with.
LEMMA PutRowsInv ==
    ASSUME ArchiveInv, NEW w \in Writers, PutRows(w)
    PROVE  ArchiveInv' /\ ArchiveGrows
<1>1. PICK d : d = job[w].d
  OBVIOUS
<1>2. /\ job[w] \in Job /\ job[w].pc = "put" /\ d \in Dates /\ job[w].rows \subseteq Minutes
      /\ RunOwn(w) /\ lock[d] = w /\ object[d] \subseteq job[w].rows
  <2>1. job[w] \in Job /\ job[w].pc = "put" /\ RunOwn(w) /\ RowsOwn(w)
    BY StoreTypes DEF ArchiveInv, ArchiveOwn, PutRows, At
  <2>2. d \in Dates /\ job[w].rows \subseteq Minutes
    BY <1>1, <2>1 DEF Job
  <2> QED BY <1>1, <2>1, <2>2 DEF RowsOwn
<1>3. /\ object' = [object EXCEPT ![d] = job[w].rows] /\ job' = [job EXCEPT ![w].pc = "upsert"]
      /\ UNCHANGED <<clockVars, tasks, manifest, dObject, dManifest, lockVars, archiveFaults,
                     sideJobs>>
  BY <1>1 DEF PutRows, Goto
<1>4. PICK j : j = [job[w] EXCEPT !.pc = "upsert"] /\ job' = [job EXCEPT ![w] = j]
  BY <1>3, StoreTypes
<1>5. /\ j \in Job /\ j.pc = "upsert" /\ j.run = job[w].run /\ j.kind = job[w].kind
      /\ j.d = d /\ j.rows = job[w].rows
  BY <1>1, <1>2, <1>4 DEF Job, Places
<1>6. Moved(w) /\ job'[w] = j
  BY <1>4, <1>5, StoreTypes, JobBecomes
<1>7. /\ object' \in [Dates -> SUBSET Minutes] /\ object'[d] = job[w].rows
      /\ \A e \in Dates : e # d => object'[e] = object[e]
  BY <1>2, <1>3, StoreTypes
<1>8. OthersKept(w)
  BY <1>2, <1>3, <1>7 DEF OthersKept, lockVars
<1>9. ManifestsTrue'
  <2>1. \A e \in Dates : object[e] = Minutes => object'[e] = Minutes
    <3>1. object[d] = Minutes => job[w].rows = Minutes
      BY <1>2
    <3> QED BY <1>7, <3>1
  <2> QED BY <1>3, <2>1 DEF ArchiveInv, ManifestsTrue, Whole, Covered, RowDates
<1>10. RowsOwn(w)'
  BY <1>2, <1>3, <1>5, <1>6, <1>7 DEF RowsOwn, lockVars
<1>11. DerivedOwn(w)'
  BY <1>5, <1>6 DEF DerivedOwn
<1>12. RunOwn(w)' /\ RunKept(w)
  BY <1>1, <1>2, <1>3, <1>5, <1>6, RunMoves DEF RunOwn, Tasked, RunKept
<1>13. ArchiveInv'
  BY <1>3, <1>6, <1>7, <1>8, <1>9, <1>10, <1>11, <1>12, StoreTypes, StoreStep
     DEF ArchiveOwn, lockVars
<1>14. ArchiveGrows
  BY <1>2, <1>3, <1>7 DEF ArchiveGrows
<1> QED BY <1>13, <1>14

\* A part of the session with as many rows as the session has is the whole of it.
LEMMA ReadyRows ==
    ASSUME NEW d \in TradingDates, NEW rows \in SUBSET Minutes,
           OneMinuteStatus(d, rows) = "READY"
    PROVE  rows = Minutes
<1>1. Cardinality(rows) >= Cardinality(Minutes)
  BY DEF OneMinuteStatus, ExpectedOneMinuteRows, IsTradingDay
<1>2. /\ IsFiniteSet(rows) /\ Cardinality(rows) <= Cardinality(Minutes)
      /\ Cardinality(Minutes) = Cardinality(rows) => Minutes = rows
  BY ArchiveAssumption, FS_Subset
<1>3. Cardinality(rows) \in Nat /\ Cardinality(Minutes) \in Nat
  BY <1>2, ArchiveAssumption, FS_CardinalityType
<1> QED BY <1>1, <1>2, <1>3

\* The manifest says of the object what was put under the same lock.
LEMMA UpsertManifestInv ==
    ASSUME ArchiveInv, NEW w \in Writers, UpsertManifest(w)
    PROVE  ArchiveInv'
<1>1. PICK d, rows, status :
        /\ d = job[w].d /\ rows = job[w].rows
        /\ status = IF IsTradingDay(d) THEN OneMinuteStatus(d, rows) ELSE "NO_TRADE"
  OBVIOUS
<1>2. /\ job[w] \in Job /\ job[w].pc = "upsert" /\ d \in Dates /\ rows \subseteq Minutes
      /\ RunOwn(w) /\ (d \in TradingDates => object[d] = rows)
  <2>1. job[w] \in Job /\ job[w].pc = "upsert" /\ RunOwn(w) /\ RowsOwn(w)
    BY StoreTypes DEF ArchiveInv, ArchiveOwn, UpsertManifest, At
  <2>2. d \in Dates /\ rows \subseteq Minutes
    BY <1>1, <2>1 DEF Job
  <2> QED BY <1>1, <2>1, <2>2 DEF RowsOwn
<1>3. /\ status \in {"READY", "PARTIAL", "NO_TRADE"}
      /\ status = "READY" => d \in TradingDates /\ rows = Minutes
  BY <1>1, <1>2, ReadyRows DEF IsTradingDay, OneMinuteStatus
<1>4. PICK pc, left, own :
        /\ pc \in {"derive", "ready", "unlock"} /\ (pc = "derive" => status = "READY")
        /\ left \subseteq Derived /\ own = [e \in Dates |-> IF e = d THEN rows ELSE {}]
        /\ job' = [job EXCEPT ![w].pc = pc, ![w].left = left, ![w].drows = own]
  <2>1. PICK pc : pc = CASE status = "READY" -> "derive"
                          [] status = "NO_TRADE" -> "ready"
                          [] OTHER -> "unlock"
    OBVIOUS
  <2>2. PICK left : left = IF status = "READY" THEN Derived ELSE {}
    OBVIOUS
  <2>3. PICK own : own = [e \in Dates |-> IF e = d THEN rows ELSE {}]
    OBVIOUS
  <2>4. job' = [job EXCEPT ![w].pc = pc, ![w].left = left, ![w].drows = own]
    BY <1>1, <2>1, <2>2, <2>3 DEF UpsertManifest
  <2>5. pc \in {"derive", "ready", "unlock"} /\ (pc = "derive" => status = "READY")
    BY <1>3, <2>1
  <2> QED BY <2>2, <2>3, <2>4, <2>5
<1>5. /\ manifest' = [manifest EXCEPT ![d] = [status |-> status, sum |-> rows]]
      /\ UNCHANGED <<clockVars, tasks, object, dObject, dManifest, lockVars, archiveFaults,
                     sideJobs>>
  BY <1>1 DEF UpsertManifest
<1>6. PICK j : /\ j = [job[w] EXCEPT !.pc = pc, !.left = left, !.drows = own]
               /\ job' = [job EXCEPT ![w] = j]
  BY <1>4, StoreTypes
<1>7. own \in DerivedRows
  BY <1>2, <1>4 DEF DerivedRows
<1>8. /\ j \in Job /\ j.pc = pc /\ j.run = job[w].run /\ j.kind = job[w].kind
      /\ j.d = d /\ j.rows = rows /\ j.drows = own
  BY <1>1, <1>2, <1>4, <1>6, <1>7 DEF Job, Places
<1>9. Moved(w) /\ job'[w] = j
  BY <1>6, <1>8, StoreTypes, JobBecomes
<1>10. OthersKept(w)
  BY <1>5 DEF OthersKept, lockVars
<1>11. /\ manifest' \in [Dates -> [status : ManifestStatus, sum : SUBSET Minutes]]
       /\ manifest'[d].status = status /\ \A e \in Dates : e # d => manifest'[e] = manifest[e]
  BY <1>2, <1>3, <1>5, StoreTypes DEF ManifestStatus
<1>12. ManifestsTrue'
  BY <1>2, <1>3, <1>5, <1>11 DEF ArchiveInv, ManifestsTrue, Whole, Covered, RowDates
<1>13. RowsOwn(w)'
  BY <1>4, <1>8, <1>9 DEF RowsOwn
<1>14. DerivedOwn(w)'
  <2>1. pc = "derive" => Whole(own)
    BY <1>3, <1>4 DEF Whole
  <2> QED BY <1>3, <1>4, <1>8, <1>9, <2>1 DEF DerivedOwn, Whole
<1>15. RunOwn(w)' /\ RunKept(w)
  BY <1>1, <1>2, <1>4, <1>5, <1>8, <1>9, RunMoves, ZenonT(40) DEF RunOwn, Tasked, RunKept
<1> QED BY <1>5, <1>9, <1>10, <1>11, <1>12, <1>13, <1>14, <1>15, StoreTypes, StoreStep
        DEF ArchiveOwn, lockVars

\* Merging whole rows over whole rows only adds.
LEMMA MergeWhole ==
    ASSUME NEW old \in DerivedRows, NEW new \in DerivedRows, Whole(old), Whole(new)
    PROVE  /\ MergeRows(old, new) \in DerivedRows /\ Whole(MergeRows(old, new))
           /\ \A d \in Dates : old[d] \subseteq MergeRows(old, new)[d]
BY DEF MergeRows, DerivedRows, Whole

\* The lock of a derived partition is taken.
LEMMA DerivedLocked ==
    ASSUME ArchiveInv, NEW w \in Writers, NEW t \in Derived, dLock[t] = NoWriter,
           dLock' = [dLock EXCEPT ![t] = w], UNCHANGED <<storeVars, lock>>
    PROVE  /\ dLock' \in [Derived -> Writers \cup {NoWriter}] /\ dLock'[t] = w
           /\ OthersKept(w) /\ ManifestsTrue'
<1>1. /\ dLock' \in [Derived -> Writers \cup {NoWriter}] /\ dLock'[t] = w
      /\ \A u \in Derived : dLock[u] \in Writers => dLock'[u] = dLock[u]
  BY StoreTypes, ArchiveAssumption
<1>2. OthersKept(w)
  BY <1>1 DEF OthersKept, storeVars
<1>3. ManifestsTrue'
  BY DEF ArchiveInv, ManifestsTrue, Whole, Covered, RowDates, storeVars
<1> QED BY <1>1, <1>2, <1>3

LEMMA LockAndMergeDerivedInv ==
    ASSUME ArchiveInv, NEW w \in Writers, LockAndMergeDerived(w)
    PROVE  ArchiveInv'
<1>1. /\ job[w] \in Job /\ job[w].pc = "derive" /\ RunOwn(w) /\ DerivedOwn(w)
      /\ UNCHANGED <<clockVars, tasks, storeVars, lock, archiveFaults, sideJobs>>
  BY StoreTypes DEF ArchiveInv, ArchiveOwn, LockAndMergeDerived, At
<1>0. PICK t \in Derived :
        /\ dLock[t] = NoWriter /\ dLock' = [dLock EXCEPT ![t] = w]
        /\ job' = [job EXCEPT ![w].pc = "dput", ![w].tf = t,
                              ![w].drows = MergeRows(dObject[t], job[w].drows)]
  <2>1. job[w].left \subseteq Derived
    BY <1>1 DEF Job
  <2>2. PICK t \in job[w].left :
          /\ dLock[t] = NoWriter /\ dLock' = [dLock EXCEPT ![t] = w]
          /\ job' = [job EXCEPT ![w].pc = "dput", ![w].tf = t,
                                ![w].drows = MergeRows(dObject[t], job[w].drows)]
    BY StoreTypes DEF LockAndMergeDerived
  <2> QED BY <2>1, <2>2
<1>2. PICK drows :
        /\ dLock[t] = NoWriter /\ dLock' = [dLock EXCEPT ![t] = w]
        /\ drows = MergeRows(dObject[t], job[w].drows)
        /\ job' = [job EXCEPT ![w].pc = "dput", ![w].tf = t, ![w].drows = drows]
  BY <1>0
<1>3. /\ drows \in DerivedRows /\ Whole(drows)
      /\ \A d \in Dates : dObject[t][d] \subseteq drows[d]
  <2>1. dObject[t] \in DerivedRows /\ job[w].drows \in DerivedRows
    BY <1>1, StoreTypes DEF Job
  <2>2. Whole(dObject[t]) /\ Whole(job[w].drows)
    BY <1>1 DEF ArchiveInv, ManifestsTrue, DerivedOwn
  <2> QED BY <1>2, <2>1, <2>2, MergeWhole
<1>4. PICK j : /\ j = [job[w] EXCEPT !.pc = "dput", !.tf = t, !.drows = drows]
               /\ job' = [job EXCEPT ![w] = j]
  BY <1>2, StoreTypes
<1>5. /\ j \in Job /\ j.pc = "dput" /\ j.run = job[w].run /\ j.kind = job[w].kind
      /\ j.d = job[w].d /\ j.rows = job[w].rows /\ j.drows = drows /\ j.tf = t
  BY <1>1, <1>3, <1>4 DEF Job, Places
<1>6. Moved(w) /\ job'[w] = j
  BY <1>4, <1>5, StoreTypes, JobBecomes
<1>7. /\ dLock' \in [Derived -> Writers \cup {NoWriter}] /\ dLock'[t] = w
      /\ OthersKept(w) /\ ManifestsTrue'
  BY <1>1, <1>2, DerivedLocked
<1>8. RowsOwn(w)'
  BY <1>5, <1>6 DEF RowsOwn
<1>9. dObject' = dObject
  BY <1>1 DEF storeVars
<1>10. DerivedOwn(w)'
  BY <1>1, <1>3, <1>5, <1>6, <1>7, <1>9 DEF DerivedOwn, Whole
<1>11. RunOwn(w)' /\ RunKept(w)
  BY <1>1, <1>5, <1>6, RunMoves DEF RunOwn, Tasked, RunKept
<1> QED BY <1>1, <1>6, <1>7, <1>8, <1>10, <1>11, StoreTypes, StoreStep
        DEF ArchiveOwn, storeVars

LEMMA PutDerivedInv ==
    ASSUME ArchiveInv, NEW w \in Writers, PutDerived(w)
    PROVE  ArchiveInv' /\ ArchiveGrows
<1>1. PICK t, drows : t = job[w].tf /\ drows = job[w].drows
  OBVIOUS
<1>2. /\ job[w] \in Job /\ job[w].pc = "dput" /\ RunOwn(w) /\ DerivedOwn(w)
      /\ t \in Derived /\ dLock[t] = w /\ drows \in DerivedRows /\ Whole(drows)
      /\ \A d \in Dates : dObject[t][d] \subseteq drows[d]
  <2>1. job[w] \in Job /\ job[w].pc = "dput" /\ RunOwn(w) /\ DerivedOwn(w)
    BY StoreTypes DEF ArchiveInv, ArchiveOwn, PutDerived, At
  <2>2. drows \in DerivedRows
    BY <1>1, <2>1 DEF Job
  <2> QED BY <1>1, <2>1, <2>2 DEF DerivedOwn
<1>3. /\ dObject' = [dObject EXCEPT ![t] = drows] /\ job' = [job EXCEPT ![w].pc = "dupsert"]
      /\ UNCHANGED <<clockVars, tasks, object, manifest, dManifest, lockVars, archiveFaults,
                     sideJobs>>
  BY <1>1 DEF PutDerived, Goto
<1>4. PICK j : j = [job[w] EXCEPT !.pc = "dupsert"] /\ job' = [job EXCEPT ![w] = j]
  BY <1>3, StoreTypes
<1>5. /\ j \in Job /\ j.pc = "dupsert" /\ j.run = job[w].run /\ j.kind = job[w].kind
      /\ j.d = job[w].d /\ j.rows = job[w].rows /\ j.tf = t /\ j.drows = drows
  BY <1>1, <1>2, <1>4 DEF Job, Places
<1>6. Moved(w) /\ job'[w] = j
  BY <1>4, <1>5, StoreTypes, JobBecomes
<1>7. /\ dObject' \in [Derived -> DerivedRows] /\ dObject'[t] = drows
      /\ \A u \in Derived : u # t => dObject'[u] = dObject[u]
  BY <1>2, <1>3, StoreTypes
<1>8. OthersKept(w)
  BY <1>2, <1>3, <1>7 DEF OthersKept, lockVars
<1>9. \A u \in Derived, d \in Dates : dObject[u][d] \subseteq dObject'[u][d]
  BY <1>2, <1>7
<1>10. ManifestsTrue'
  <2>1. \A d \in TradingDates : d \in Dates
    BY ArchiveAssumption
  <2>2. \A u \in Derived, d \in Dates : dObject'[u][d] \subseteq Minutes
    BY <1>7 DEF DerivedRows
  <2>3. \A u \in Derived, d \in Dates : dObject[u][d] = Minutes => dObject'[u][d] = Minutes
    <3> SUFFICES ASSUME NEW u \in Derived, NEW d \in Dates, dObject[u][d] = Minutes
                 PROVE  dObject'[u][d] = Minutes
      OBVIOUS
    <3>1. Minutes \subseteq dObject'[u][d] /\ dObject'[u][d] \subseteq Minutes
      BY <1>9, <2>2
    <3> QED BY <3>1
  <2>4. \A u \in Derived : Whole(dObject[u])
    BY DEF ArchiveInv, ManifestsTrue
  <2>5. \A u \in Derived : Whole(dObject'[u])
    BY <1>2, <1>7, <2>4
  <2>6. \A u \in Derived : dManifest[u].status = "READY" =>
          \A d \in TradingDates : Covered(u, d) => dObject'[u][d] = Minutes
    BY <2>1, <2>3 DEF ArchiveInv, ManifestsTrue
  <2>7. \A u \in Derived, d \in TradingDates : Covered(u, d)' = Covered(u, d)
    BY <1>3 DEF Covered, RowDates
  <2>8. \A d \in Dates : manifest'[d].status = "READY" => d \in TradingDates /\ object'[d] = Minutes
    BY <1>3 DEF ArchiveInv, ManifestsTrue
  <2> QED BY <1>3, <2>5, <2>6, <2>7, <2>8 DEF ManifestsTrue, Whole
<1>11. RowsOwn(w)'
  BY <1>5, <1>6 DEF RowsOwn
<1>12. DerivedOwn(w)'
  BY <1>2, <1>3, <1>5, <1>6, <1>7, ZenonT(40) DEF DerivedOwn, lockVars, Whole
<1>13. RunOwn(w)' /\ RunKept(w)
  BY <1>2, <1>3, <1>5, <1>6, RunMoves DEF RunOwn, Tasked, RunKept
<1>14. ArchiveInv'
  BY <1>3, <1>6, <1>7, <1>8, <1>10, <1>11, <1>12, <1>13, StoreTypes, StoreStep
     DEF ArchiveOwn, lockVars
<1>15. ArchiveGrows
  BY <1>3, <1>9 DEF ArchiveGrows
<1> QED BY <1>14, <1>15

\* A derived partition with as many rows as the calendar has trading days up to its
\* last one has a row for each of them.
LEMMA DerivedReady ==
    ASSUME NEW d \in Dates, NEW rows \in DerivedRows, Whole(rows),
           DerivedStatus(d, rows) = "READY",
           NEW e \in TradingDates, NEW f \in RowDates(rows), e <= f
    PROVE  rows[e] = Minutes
<1>1. PICK m : m = MaxTradeDate(rows, d)
  OBVIOUS
<1>2. /\ m \in Dates /\ f <= m /\ \A n \in RowDates(rows) : n <= m
  BY <1>1, MaxTradeDateIn
<1>3. PICK S, T : S = RowDates(rows) /\ T = TradingDates \cap (1 .. m)
  OBVIOUS
<1>4. S \subseteq T
  <2>1. \A n \in S : n \in Dates /\ n \in TradingDates /\ n <= m
    BY <1>2, <1>3 DEF RowDates, Whole
  <2> QED BY <1>2, <1>3, <2>1 DEF Dates
<1>5. IsFiniteSet(T)
  <2>1. m \in Nat /\ T \subseteq 1 .. m
    BY <1>2, <1>3 DEF Dates
  <2>2. IsFiniteSet(1 .. m)
    BY <2>1, FS_Interval
  <2> QED BY <2>1, <2>2, FS_Subset
<1>6. /\ Cardinality(S) <= Cardinality(T) /\ IsFiniteSet(S)
      /\ Cardinality(T) = Cardinality(S) => T = S
  BY <1>4, <1>5, FS_Subset
<1>7. Cardinality(S) >= Cardinality(T)
  BY <1>1, <1>3 DEF DerivedStatus, TradingDaysInRange
<1>8. S = T
  BY <1>5, <1>6, <1>7, FS_CardinalityType
<1>9. e \in T
  <2>1. e \in Dates /\ f \in Dates
    BY ArchiveAssumption DEF RowDates
  <2> QED BY <1>2, <1>3, <2>1 DEF Dates
<1> QED BY <1>3, <1>8, <1>9 DEF RowDates, Whole

\* The manifest of a derived partition says of the object what was put under the lock.
LEMMA UpsertDerivedInv ==
    ASSUME ArchiveInv, NEW w \in Writers, UpsertDerived(w)
    PROVE  ArchiveInv'
<1>1. PICK t, d, rows, drows, status, left, own, rebuilds :
        /\ t = job[w].tf /\ d = job[w].d /\ rows = job[w].rows /\ drows = job[w].drows
        /\ status = DerivedStatus(d, drows)
        /\ left = job[w].left \ {t} /\ own = [e \in Dates |-> IF e = d THEN rows ELSE {}]
        /\ rebuilds = (job[w].run = 0 /\ job[w].kind \in {"daily", "rebuild"})
  OBVIOUS
<1>2. /\ job[w] \in Job /\ job[w].pc = "dupsert" /\ RunOwn(w)
      /\ d \in Dates /\ rows \subseteq Minutes /\ drows \in DerivedRows
      /\ t \in Derived /\ dLock[t] = w /\ Whole(drows) /\ dObject[t] = drows
      /\ rows = {} \/ (rows = Minutes /\ d \in TradingDates)
  <2>1. job[w] \in Job /\ job[w].pc = "dupsert" /\ RunOwn(w) /\ DerivedOwn(w)
    BY StoreTypes DEF ArchiveInv, ArchiveOwn, UpsertDerived, At
  <2>2. d \in Dates /\ rows \subseteq Minutes /\ drows \in DerivedRows
    BY <1>1, <2>1 DEF Job
  <2> QED BY <1>1, <2>1, <2>2 DEF DerivedOwn
<1>3. PICK pc :
        /\ pc \in {"stale", "derive", "unlock"}
        /\ pc = "stale" => job[w].run = 0
        /\ pc # "stale" => ~(job[w].run = 0 /\ job[w].kind = "daily")
        /\ job' = [job EXCEPT ![w].left = left, ![w].tf = "", ![w].drows = own, ![w].pc = pc]
  <2>1. PICK pc : pc = CASE rebuilds -> "stale"
                         [] ~rebuilds /\ left # {} -> "derive"
                         [] OTHER -> "unlock"
    OBVIOUS
  <2>2. job' = [job EXCEPT ![w].left = left, ![w].tf = "", ![w].drows = own, ![w].pc = pc]
    BY <1>1, <2>1 DEF UpsertDerived
  <2>3. /\ pc \in {"stale", "derive", "unlock"}
        /\ pc = "stale" => job[w].run = 0
        /\ pc # "stale" => ~(job[w].run = 0 /\ job[w].kind = "daily")
    <3>1. CASE job[w].run = 0 /\ job[w].kind \in {"daily", "rebuild"}
      <4>1. pc = "stale"
        BY <1>1, <2>1, <3>1
      <4> QED BY <3>1, <4>1
    <3>2. CASE ~(job[w].run = 0 /\ job[w].kind \in {"daily", "rebuild"})
      <4>1. pc = IF left # {} THEN "derive" ELSE "unlock"
        BY <1>1, <2>1, <3>2
      <4> QED BY <3>2, <4>1
    <3> QED BY <3>1, <3>2
  <2> QED BY <2>2, <2>3
<1>4. /\ dManifest' = [dManifest EXCEPT ![t] = [status |-> status, sum |-> drows]]
      /\ dLock' = [dLock EXCEPT ![t] = NoWriter]
      /\ UNCHANGED <<clockVars, tasks, object, manifest, dObject, lock, archiveFaults, sideJobs>>
  BY <1>1, <1>2, StoreTypes DEF UpsertDerived
<1>5. PICK j : /\ j = [job[w] EXCEPT !.left = left, !.tf = "", !.drows = own, !.pc = pc]
               /\ job' = [job EXCEPT ![w] = j]
  BY <1>3, StoreTypes
<1>6. own \in DerivedRows /\ Whole(own) /\ left \subseteq Derived
  BY <1>1, <1>2 DEF Job, DerivedRows, Whole
<1>7. /\ j \in Job /\ j.pc = pc /\ j.run = job[w].run /\ j.kind = job[w].kind
      /\ j.d = d /\ j.rows = rows /\ j.drows = own
  BY <1>1, <1>2, <1>3, <1>5, <1>6 DEF Job, Places
<1>8. Moved(w) /\ job'[w] = j
  BY <1>5, <1>7, StoreTypes, JobBecomes
<1>9. /\ dLock' \in [Derived -> Writers \cup {NoWriter}]
      /\ \A u \in Derived : dLock[u] # w => dLock'[u] = dLock[u]
  BY <1>2, <1>4, StoreTypes
<1>10. OthersKept(w)
  BY <1>4, <1>9 DEF OthersKept
<1>11. status \in {"READY", "PARTIAL"}
  BY <1>1 DEF DerivedStatus
<1>12. /\ dManifest' \in [Derived -> [status : ManifestStatus, sum : DerivedRows]]
       /\ dManifest'[t].status = status /\ dManifest'[t].sum = drows
       /\ \A u \in Derived : u # t => dManifest'[u] = dManifest[u]
  BY <1>2, <1>4, <1>11, StoreTypes DEF ManifestStatus
<1>13. ManifestsTrue'
  <2>1. status = "READY" => \A e \in TradingDates : Covered(t, e)' => dObject[t][e] = Minutes
    <3> SUFFICES ASSUME status = "READY", NEW e \in TradingDates, Covered(t, e)'
                 PROVE  drows[e] = Minutes
      BY <1>2
    <3>1. PICK f \in RowDates(drows) : e <= f
      BY <1>12 DEF Covered, RowDates
    <3> QED BY <1>1, <1>2, <3>1, DerivedReady
  <2>2. \A u \in Derived, e \in TradingDates : u # t => Covered(u, e)' = Covered(u, e)
    BY <1>12 DEF Covered, RowDates
  <2>3. \A u \in Derived : Whole(dObject[u])
    BY DEF ArchiveInv, ManifestsTrue
  <2>4. \A u \in Derived : dManifest'[u].status = "READY" =>
          \A e \in TradingDates : Covered(u, e)' => dObject[u][e] = Minutes
    BY <1>12, <2>1, <2>2 DEF ArchiveInv, ManifestsTrue
  <2>5. \A e \in Dates : manifest[e].status = "READY" => e \in TradingDates /\ object[e] = Minutes
    BY DEF ArchiveInv, ManifestsTrue
  <2> QED BY <1>4, <2>3, <2>4, <2>5 DEF ManifestsTrue, Whole
<1>14. RowsOwn(w)'
  BY <1>3, <1>7, <1>8 DEF RowsOwn
<1>15. DerivedOwn(w)'
  <2>1. Whole(own)'
    BY <1>6 DEF Whole
  <2>2. /\ job'[w].pc = pc /\ job'[w].rows = rows /\ job'[w].d = d /\ job'[w].drows = own
        /\ pc \notin {"dput", "dupsert"}
    BY <1>3, <1>7, <1>8
  <2> QED BY <1>2, <1>6, <2>1, <2>2 DEF DerivedOwn, Whole
<1>16. RunOwn(w)' /\ RunKept(w)
  <2>1. /\ job'[w].run = job[w].run /\ job'[w].kind = job[w].kind /\ job'[w].d = job[w].d
        /\ job'[w].pc = pc
    BY <1>1, <1>7, <1>8
  <2>2. RunOwn(w)'
    BY <1>2, <1>3, <1>4, <2>1 DEF RunOwn, clockVars, Tasked
  <2> QED BY <2>1, <2>2 DEF RunKept
<1> QED BY <1>4, <1>8, <1>9, <1>10, <1>12, <1>13, <1>14, <1>15, <1>16, StoreTypes, StoreStep
        DEF ArchiveOwn

\* The locks are freed once everything is written.
LEMMA UnlockInv ==
    ASSUME ArchiveInv, NEW w \in Writers, Unlock(w)
    PROVE  ArchiveInv'
<1>1. /\ OthersKept(w) /\ ManifestsTrue'
      /\ lock' \in [Dates -> Writers \cup {NoWriter}]
      /\ dLock' \in [Derived -> Writers \cup {NoWriter}]
      /\ UNCHANGED <<clockVars, tasks, storeVars, archiveFaults, sideJobs>>
      /\ job[w] \in Job /\ job[w].pc = "unlock" /\ RunOwn(w)
  BY UnlockedKeeps, StoreTypes DEF Unlock, At, ArchiveInv, ArchiveOwn
<1>2. CASE Goto(w, "ready")
  <2>1. PICK j : j = [job[w] EXCEPT !.pc = "ready"] /\ job' = [job EXCEPT ![w] = j]
    BY <1>2, StoreTypes DEF Goto
  <2>2. /\ j \in Job /\ j.pc = "ready" /\ j.run = job[w].run /\ j.kind = job[w].kind
        /\ j.d = job[w].d
    BY <1>1, <2>1 DEF Job, Places
  <2>3. Moved(w) /\ job'[w] = j
    BY <2>1, <2>2, StoreTypes, JobBecomes
  <2>4. RowsOwn(w)'
    BY <2>2, <2>3 DEF RowsOwn
  <2>5. DerivedOwn(w)'
    BY <2>2, <2>3 DEF DerivedOwn
  <2>6. RunOwn(w)' /\ RunKept(w)
    BY <1>1, <2>2, <2>3, RunMoves DEF RunOwn, Tasked, RunKept
  <2> QED BY <1>1, <2>3, <2>4, <2>5, <2>6, StoreTypes, StoreStep DEF ArchiveOwn, storeVars
<1>3. CASE Finish(w)
  <2>1. Moved(w) /\ RunKept(w) /\ ArchiveOwn(w)'
    BY <1>3, IdleOwn DEF Finish
  <2> QED BY <1>1, <2>1, StoreTypes, StoreStep DEF storeVars
<1> QED BY <1>2, <1>3 DEF Unlock

\* The rebuild merges the rows of READY partitions, which are whole.
LEMMA RebuildInv ==
    ASSUME ArchiveInv, NEW w \in Writers, Rebuild(w)
    PROVE  ArchiveInv'
<1>1. /\ job[w] \in Job /\ job[w].pc = "stale" /\ RunOwn(w) /\ DerivedOwn(w)
      /\ UNCHANGED <<clockVars, tasks, storeVars, lock, archiveFaults, sideJobs>>
  BY StoreTypes DEF ArchiveInv, ArchiveOwn, Rebuild, At
<1>2. PICK rows, last :
        /\ rows = [d \in Dates |-> IF manifest[d].status = "READY" THEN object[d] ELSE {}]
        /\ last = MaxTradeDate(rows, 1)
  OBVIOUS
<1>3. job[w].left \subseteq Derived
  BY <1>1 DEF Job
<1>4. PICK t \in Derived :
        \/ /\ job' = [job EXCEPT ![w].left = job[w].left \ {t}] /\ UNCHANGED dLock
        \/ /\ RowDates(rows) # {} /\ dLock[t] = NoWriter /\ dLock' = [dLock EXCEPT ![t] = w]
           /\ job' = [job EXCEPT ![w].pc = "dput", ![w].tf = t, ![w].d = last,
                                 ![w].drows = MergeRows(dObject[t], rows)]
  BY <1>2, <1>3, StoreTypes DEF Rebuild
<1>5. CASE job' = [job EXCEPT ![w].left = job[w].left \ {t}] /\ UNCHANGED dLock
  <2>1. PICK j : j = [job[w] EXCEPT !.left = job[w].left \ {t}] /\ job' = [job EXCEPT ![w] = j]
    BY <1>5
  <2>2. /\ j \in Job /\ j.pc = "stale" /\ j.run = job[w].run /\ j.kind = job[w].kind
        /\ j.d = job[w].d /\ j.rows = job[w].rows
    BY <1>1, <1>3, <2>1 DEF Job
  <2>3. Moved(w) /\ job'[w] = j
    BY <2>1, <2>2, StoreTypes, JobBecomes
  <2>4. RowsOwn(w)' /\ RunKept(w)
    BY <2>2, <2>3 DEF RowsOwn, RunKept
  <2>5. DerivedOwn(w)'
    BY <1>1, <2>2, <2>3 DEF DerivedOwn
  <2>6. RunOwn(w)'
    BY <1>1, <2>2, <2>3 DEF RunOwn, clockVars, Tasked
  <2>7. /\ UNCHANGED <<tasks, storeVars, lockVars, clockVars>>
        /\ archiveFaults' \in 0 .. MaxArchiveFaults /\ sideJobs' \in 0 .. MaxSideJobs
    BY <1>1, <1>5, StoreTypes DEF lockVars
  <2> QED BY <2>3, <2>4, <2>5, <2>6, <2>7, QuietMove DEF ArchiveOwn
<1>6. ASSUME RowDates(rows) # {}, dLock[t] = NoWriter, dLock' = [dLock EXCEPT ![t] = w],
             job' = [job EXCEPT ![w].pc = "dput", ![w].tf = t, ![w].d = last,
                                ![w].drows = MergeRows(dObject[t], rows)]
      PROVE  ArchiveInv'
  <2>1. rows \in DerivedRows /\ Whole(rows)
    BY <1>2, StoreTypes DEF ArchiveInv, ManifestsTrue, DerivedRows, Whole
  <2>2. last \in Dates /\ last \in TradingDates
    <3>1. 1 \in Dates
      BY ArchiveAssumption DEF Dates
    <3>2. /\ last \in RowDates(rows) \cup {1} /\ last \in Dates
          /\ \A n \in RowDates(rows) : n <= last
      BY <1>2, <3>1, MaxTradeDateIn
    <3>3. last \in RowDates(rows)
      BY <1>6, <3>2 DEF RowDates, Dates
    <3> QED BY <2>1, <3>2, <3>3 DEF RowDates, Whole
  <2>3. PICK drows : drows = MergeRows(dObject[t], rows)
    OBVIOUS
  <2>4. /\ drows \in DerivedRows /\ Whole(drows)
        /\ \A d \in Dates : dObject[t][d] \subseteq drows[d]
    <3>1. dObject[t] \in DerivedRows /\ Whole(dObject[t])
      BY StoreTypes DEF ArchiveInv, ManifestsTrue
    <3> QED BY <2>1, <2>3, <3>1, MergeWhole
  <2>5. PICK j : /\ j = [job[w] EXCEPT !.pc = "dput", !.tf = t, !.d = last, !.drows = drows]
                 /\ job' = [job EXCEPT ![w] = j]
    BY <1>6, <2>3, StoreTypes
  <2>6. /\ j \in Job /\ j.pc = "dput" /\ j.run = job[w].run /\ j.kind = job[w].kind
        /\ j.d = last /\ j.rows = job[w].rows /\ j.drows = drows /\ j.tf = t
    BY <1>1, <2>2, <2>4, <2>5 DEF Job, Places
  <2>7. Moved(w) /\ job'[w] = j
    BY <2>5, <2>6, StoreTypes, JobBecomes
  <2>8. /\ dLock' \in [Derived -> Writers \cup {NoWriter}] /\ dLock'[t] = w
        /\ OthersKept(w) /\ ManifestsTrue'
    BY <1>1, <1>6, DerivedLocked
  <2>9. RowsOwn(w)' /\ RunKept(w)
    BY <2>6, <2>7 DEF RowsOwn, RunKept
  <2>10. dObject' = dObject
    BY <1>1 DEF storeVars
  <2>11. DerivedOwn(w)'
    BY <1>1, <2>2, <2>4, <2>6, <2>7, <2>8, <2>10 DEF DerivedOwn, Whole
  <2>12. RunOwn(w)'
    BY <1>1, <2>6, <2>7 DEF RunOwn, clockVars, Tasked
  <2> QED BY <1>1, <2>7, <2>8, <2>9, <2>11, <2>12, StoreTypes, StoreStep
          DEF ArchiveOwn, storeVars
<1> QED BY <1>4, <1>5, <1>6

\* A manifest that only stops being READY.
LEMMA DistrustKeeps ==
    ASSUME ArchiveInv, UNCHANGED <<object, dObject>>,
           manifest' = manifest \/ \E d \in Dates, s \in {"STALE", "MISMATCH"} :
             manifest' = [manifest EXCEPT ![d].status = s],
           dManifest' = dManifest \/ \E t \in Derived, s \in {"STALE", "MISMATCH"} :
             dManifest' = [dManifest EXCEPT ![t].status = s]
    PROVE  /\ ManifestsTrue'
           /\ manifest' \in [Dates -> [status : ManifestStatus, sum : SUBSET Minutes]]
           /\ dManifest' \in [Derived -> [status : ManifestStatus, sum : DerivedRows]]
<1>1. /\ manifest' \in [Dates -> [status : ManifestStatus, sum : SUBSET Minutes]]
      /\ \A d \in Dates : manifest'[d].status = "READY" => manifest[d].status = "READY"
  BY StoreTypes, ZenonT(40) DEF ManifestStatus
<1>2. /\ dManifest' \in [Derived -> [status : ManifestStatus, sum : DerivedRows]]
      /\ \A t \in Derived : /\ dManifest'[t].status = "READY" => dManifest[t].status = "READY"
                             /\ dManifest'[t].sum = dManifest[t].sum
  <2>1. CASE dManifest' = dManifest
    BY <2>1, StoreTypes
  <2>2. ASSUME NEW u \in Derived, NEW s \in {"STALE", "MISMATCH"},
               dManifest' = [dManifest EXCEPT ![u].status = s]
        PROVE  <1>2!:
    <3>1. PICK m : m = [dManifest[u] EXCEPT !.status = s] /\ dManifest' = [dManifest EXCEPT ![u] = m]
      BY <2>2
    <3>2. dManifest[u] \in [status : ManifestStatus, sum : DerivedRows]
      BY StoreTypes
    <3>3. /\ m \in [status : ManifestStatus, sum : DerivedRows]
          /\ m.status # "READY" /\ m.sum = dManifest[u].sum
      BY <3>1, <3>2 DEF ManifestStatus
    <3>4. dManifest'[u] = m /\ \A t \in Derived : t # u => dManifest'[t] = dManifest[t]
      BY <3>1, StoreTypes
    <3> QED BY <3>1, <3>3, <3>4, StoreTypes
  <2> QED BY <2>1, <2>2
<1>3. \A t \in Derived, d \in TradingDates : Covered(t, d)' = Covered(t, d)
  BY <1>2 DEF Covered, RowDates
<1>4. /\ \A d \in Dates : manifest[d].status = "READY" => d \in TradingDates /\ object[d] = Minutes
      /\ \A t \in Derived : Whole(dObject[t])
      /\ \A t \in Derived : dManifest[t].status = "READY" =>
           \A d \in TradingDates : Covered(t, d) => dObject[t][d] = Minutes
  BY DEF ArchiveInv, ManifestsTrue
<1>5. ManifestsTrue'
  BY <1>1, <1>2, <1>3, <1>4 DEF ManifestsTrue, Whole
<1> QED BY <1>1, <1>2, <1>5

LEMMA VerifyInv ==
    ASSUME ArchiveInv, NEW w \in Writers, Verify(w)
    PROVE  ArchiveInv'
<1>1. /\ job[w] \in Job /\ job' = [job EXCEPT ![w] = Idle]
      /\ UNCHANGED <<clockVars, tasks, object, dObject, lockVars, archiveFaults, sideJobs>>
  BY StoreTypes DEF Verify, Finish
<1>2. job[w].d \in Dates /\ (job[w].tf # "" => job[w].tf \in Derived)
  BY <1>1 DEF Job
<1>3. /\ manifest' = manifest \/ manifest' = [manifest EXCEPT ![job[w].d].status = "MISMATCH"]
      /\ \/ dManifest' = dManifest
         \/ /\ job[w].tf # ""
            /\ dManifest' = [dManifest EXCEPT ![job[w].tf].status = "MISMATCH"]
  BY DEF Verify
<1>4. /\ ManifestsTrue'
      /\ manifest' \in [Dates -> [status : ManifestStatus, sum : SUBSET Minutes]]
      /\ dManifest' \in [Derived -> [status : ManifestStatus, sum : DerivedRows]]
  BY <1>1, <1>2, <1>3, DistrustKeeps
<1>5. Moved(w) /\ RunKept(w) /\ ArchiveOwn(w)'
  BY <1>1, IdleOwn
<1>6. OthersKept(w)
  BY <1>1 DEF OthersKept, lockVars
<1> QED BY <1>1, <1>4, <1>5, <1>6, StoreTypes, StoreStep DEF lockVars

\* Steps of the environment: time, operators and expiring locks.
LEMMA EnvironmentStep ==
    ASSUME ArchiveInv, UNCHANGED job, ArchiveTypeOK', ManifestsTrue', NoDateForgotten',
           \A w \in Writers : RowsOwn(w)' /\ DerivedOwn(w)' /\ RunOwn(w)'
    PROVE  ArchiveInv'
<1>1. RunsApart'
  BY DEF ArchiveInv, RunsApart
<1> QED BY <1>1 DEF ArchiveInv, ArchiveOwn

\* What the processes own when a step leaves stores and locks, or tasks and days, alone.
LEMMA OwnedStoresStay ==
    ASSUME ArchiveInv, UNCHANGED <<job, object, dObject, lockVars>>
    PROVE  \A w \in Writers : RowsOwn(w)' /\ DerivedOwn(w)'
<1> SUFFICES ASSUME NEW w \in Writers PROVE RowsOwn(w)' /\ DerivedOwn(w)'
  OBVIOUS
<1>1. RowsOwn(w) /\ DerivedOwn(w)
  BY DEF ArchiveInv, ArchiveOwn
<1>2. RowsOwn(w)'
  BY <1>1 DEF RowsOwn, lockVars
<1>3. DerivedOwn(w)'
  BY <1>1 DEF DerivedOwn, Whole, lockVars
<1> QED BY <1>2, <1>3

LEMMA OwnedRunsStay ==
    ASSUME ArchiveInv, UNCHANGED <<job, tasks, today>>,
           \A w \in Writers : job[w].kind = "daily" => dailyLock'[today] = dailyLock[today]
    PROVE  \A w \in Writers : RunOwn(w)'
<1> SUFFICES ASSUME NEW w \in Writers PROVE RunOwn(w)'
  OBVIOUS
<1>1. RunOwn(w)
  BY DEF ArchiveInv, ArchiveOwn
<1> QED BY <1>1 DEF RunOwn

\* One row of the task table is edited without being closed.
LEMMA TaskEdited ==
    ASSUME ArchiveInv, NEW r \in DOMAIN tasks, NEW t \in Task, t.date = tasks[r].date,
           t.status # "SKIPPED", tasks[r].attempts = 0 => t.attempts = 0,
           tasks' = [tasks EXCEPT ![r] = t],
           UNCHANGED <<clockVars, storeVars, lockVars, job, sideJobs>>,
           archiveFaults' \in 0 .. MaxArchiveFaults
    PROVE  ArchiveInv'
<1>1. tasks \in Seq(Task) /\ Len(tasks) <= MaxRuns
  BY DEF ArchiveInv, ArchiveTypeOK
<1>2. /\ tasks' \in Seq(Task) /\ Len(tasks') <= MaxRuns /\ DOMAIN tasks' = DOMAIN tasks
      /\ tasks'[r] = t /\ \A q \in DOMAIN tasks : q # r => tasks'[q] = tasks[q]
  BY <1>1
<1>3. NoDateForgotten'
  BY <1>2, NoDateKept
<1>4. \A w \in Writers : RowsOwn(w)' /\ DerivedOwn(w)'
  BY OwnedStoresStay DEF storeVars
<1>5. ASSUME NEW w \in Writers PROVE RunOwn(w)'
  <2>1. RunOwn(w)
    BY DEF ArchiveInv, ArchiveOwn
  <2> QED BY <1>2, <2>1 DEF RunOwn, clockVars
<1>6. ArchiveTypeOK'
  BY <1>2 DEF ArchiveInv, ArchiveTypeOK, clockVars, storeVars, lockVars
<1>7. ManifestsTrue'
  BY DEF ArchiveInv, ManifestsTrue, Whole, Covered, RowDates, storeVars
<1> QED BY <1>3, <1>4, <1>5, <1>6, <1>7, EnvironmentStep

LEMMA TaskTimeInv ==
    ASSUME ArchiveInv, NEW r, RetryFailedRun(r) \/ TaskAges(r)
    PROVE  ArchiveInv'
<1>1. /\ r \in DOMAIN tasks /\ tasks \in Seq(Task)
      /\ archiveFaults' \in 0 .. MaxArchiveFaults
      /\ UNCHANGED <<clockVars, storeVars, lockVars, job, sideJobs>>
  <2>1. UNCHANGED archiveFaults \/ Fault
    BY DEF RetryFailedRun, TaskAges, Fault
  <2> QED BY <2>1, CountersQuiet DEF RetryFailedRun, TaskAges, ArchiveInv, ArchiveTypeOK
<1>2. CASE RetryFailedRun(r)
  <2>1. PICK t \in Task : /\ t.date = tasks[r].date /\ t.status = "PENDING"
                          /\ tasks[r].attempts = 0 => t.attempts = 0
                          /\ tasks' = [tasks EXCEPT ![r] = t]
    BY <1>1, <1>2, MarkTaskIs DEF RetryFailedRun
  <2> QED BY <1>1, <2>1, TaskEdited
<1>3. CASE TaskAges(r)
  <2>1. tasks[r] \in Task /\ tasks[r].status = "RUNNING"
    BY <1>1, <1>3 DEF TaskAges
  <2>2. PICK t : t = [tasks[r] EXCEPT !.old = TRUE] /\ tasks' = [tasks EXCEPT ![r] = t]
    BY <1>1, <1>3 DEF TaskAges
  <2>3. /\ t \in Task /\ t.date = tasks[r].date /\ t.status = "RUNNING"
        /\ t.attempts = tasks[r].attempts
    BY <2>1, <2>2 DEF Task
  <2> QED BY <1>1, <2>2, <2>3, TaskEdited
<1> QED BY <1>2, <1>3

LEMMA MarkStaleInv ==
    ASSUME ArchiveInv, MarkStale
    PROVE  ArchiveInv'
<1>1. /\ UNCHANGED <<clockVars, tasks, object, dObject, lockVars, job, sideJobs>>
      /\ archiveFaults' \in 0 .. MaxArchiveFaults
  BY CountersQuiet DEF MarkStale
<1>2. /\ ManifestsTrue'
      /\ manifest' \in [Dates -> [status : ManifestStatus, sum : SUBSET Minutes]]
      /\ dManifest' \in [Derived -> [status : ManifestStatus, sum : DerivedRows]]
  <2>1. \/ \E d \in Dates : manifest' = [manifest EXCEPT ![d].status = "STALE"] /\ UNCHANGED dManifest
        \/ \E t \in Derived : dManifest' = [dManifest EXCEPT ![t].status = "STALE"] /\ UNCHANGED manifest
    BY DEF MarkStale
  <2> QED BY <1>1, <2>1, DistrustKeeps
<1>3. NoDateForgotten'
  BY <1>1 DEF ArchiveInv, NoDateForgotten
<1>4. ArchiveTypeOK'
  BY <1>1, <1>2 DEF ArchiveInv, ArchiveTypeOK, clockVars, lockVars
<1> QED BY <1>1, <1>2, <1>3, <1>4, OwnedStoresStay, OwnedRunsStay, EnvironmentStep DEF clockVars

\* The day turns only between daily runs.
LEMMA TimePassesInv ==
    ASSUME ArchiveInv, NextDay \/ WindowCloses
    PROVE  ArchiveInv'
<1>1. /\ UNCHANGED <<lastRun, dailyLock, tasks, storeVars, lockVars, job, archiveFaults, sideJobs>>
      /\ today' \in Dates /\ windowOpen' \in BOOLEAN
      /\ today' = today \/ \A w \in Writers : job[w].kind # "daily"
  <2>1. today \in Dates
    BY DEF ArchiveInv, ArchiveTypeOK
  <2>2. CASE NextDay
    <3>1. today + 1 \in Dates
      BY <2>1, <2>2, ArchiveAssumption DEF NextDay, Dates
    <3> QED BY <2>2, <3>1 DEF NextDay
  <2>3. CASE WindowCloses
    BY <2>1, <2>3 DEF WindowCloses
  <2> QED BY <2>2, <2>3
<1>2. \A w \in Writers : RowsOwn(w)' /\ DerivedOwn(w)'
  BY <1>1, OwnedStoresStay DEF storeVars
<1>3. ASSUME NEW w \in Writers PROVE RunOwn(w)'
  <2>1. RunOwn(w)
    BY DEF ArchiveInv, ArchiveOwn
  <2> QED BY <1>1, <2>1 DEF RunOwn
<1>4. NoDateForgotten'
  BY <1>1 DEF ArchiveInv, NoDateForgotten
<1>5. ManifestsTrue'
  BY <1>1 DEF ArchiveInv, ManifestsTrue, Whole, Covered, RowDates, storeVars
<1>6. ArchiveTypeOK'
  BY <1>1 DEF ArchiveInv, ArchiveTypeOK, storeVars, lockVars
<1> QED BY <1>1, <1>2, <1>3, <1>4, <1>5, <1>6, EnvironmentStep

\* The lock of a process at work does not expire.
LEMMA LockExpiresInv ==
    ASSUME ArchiveInv, LocksOutliveHolders, LockExpires
    PROVE  ArchiveInv'
<1>1. /\ UNCHANGED <<today, windowOpen, lastRun, tasks, storeVars, job, archiveFaults, sideJobs>>
      /\ job \in [Writers -> Job]
  BY StoreTypes DEF LockExpires
<1>2. /\ lock' \in [Dates -> Writers \cup {NoWriter}]
      /\ dLock' \in [Derived -> Writers \cup {NoWriter}]
      /\ dailyLock' \in [Dates -> Writers \cup {NoWriter}]
      /\ \A d \in Dates, w \in Writers : lock[d] = w /\ HoldsRows(w, d) => lock'[d] = w
      /\ \A t \in Derived, w \in Writers : dLock[t] = w /\ HoldsDerived(w, t) => dLock'[t] = w
      /\ \A d \in Dates, w \in Writers :
           dailyLock[d] = w /\ job[w].kind = "daily" => dailyLock'[d] = w
  <2>1. dailyLock \in [Dates -> Writers \cup {NoWriter}]
    BY DEF ArchiveInv, ArchiveTypeOK
  <2>2. ASSUME NEW d \in Dates, NEW w \in Writers, lock[d] = w, ~HoldsRows(w, d),
               lock' = [lock EXCEPT ![d] = NoWriter], UNCHANGED <<dLock, dailyLock>>
        PROVE  <1>2!:
    BY <2>1, <2>2, StoreTypes
  <2>3. ASSUME NEW t \in Derived, NEW w \in Writers, dLock[t] = w, ~HoldsDerived(w, t),
               dLock' = [dLock EXCEPT ![t] = NoWriter], UNCHANGED <<lock, dailyLock>>
        PROVE  <1>2!:
    BY <2>1, <2>3, StoreTypes
  <2>4. ASSUME NEW d \in Dates, NEW w \in Writers, dailyLock[d] = w, job[w].kind # "daily",
               dailyLock' = [dailyLock EXCEPT ![d] = NoWriter], UNCHANGED lockVars
        PROVE  <1>2!:
    BY <2>1, <2>4, StoreTypes DEF lockVars
  <2> QED BY <2>2, <2>3, <2>4 DEF LockExpires
<1>3. ASSUME NEW w \in Writers PROVE RowsOwn(w)' /\ DerivedOwn(w)' /\ RunOwn(w)'
  <2>1. /\ RowsOwn(w) /\ DerivedOwn(w) /\ RunOwn(w) /\ job[w].d \in Dates /\ today \in Dates
        /\ job'[w] = job[w]
    BY <1>1 DEF ArchiveInv, ArchiveOwn, ArchiveTypeOK, Job
  <2>2. RowsOwn(w)'
    <3>1. job[w].pc \in {"put", "upsert"} /\ lock[job[w].d] = w => lock'[job[w].d] = w
      BY <1>2, <2>1 DEF HoldsRows
    <3> QED BY <1>1, <2>1, <3>1 DEF RowsOwn, storeVars
  <2>3. DerivedOwn(w)'
    <3>1. job[w].pc \in {"dput", "dupsert"} => dLock'[job[w].tf] = w
      BY <1>2, <2>1 DEF HoldsDerived, DerivedOwn
    <3> QED BY <1>1, <2>1, <3>1 DEF DerivedOwn, storeVars, Whole
  <2>4. RunOwn(w)'
    BY <1>1, <1>2, <2>1 DEF RunOwn
  <2> QED BY <2>2, <2>3, <2>4
<1>4. NoDateForgotten'
  BY <1>1 DEF ArchiveInv, NoDateForgotten
<1>5. ManifestsTrue'
  BY <1>1 DEF ArchiveInv, ManifestsTrue, Whole, Covered, RowDates, storeVars
<1>6. ArchiveTypeOK'
  BY <1>1, <1>2 DEF ArchiveInv, ArchiveTypeOK, storeVars
<1> QED BY <1>1, <1>3, <1>4, <1>5, <1>6, EnvironmentStep

LEMMA ArchiveInitInv == ArchiveInit => ArchiveInv
<1> SUFFICES ASSUME ArchiveInit PROVE ArchiveInv
  OBVIOUS
<1>1. 1 \in Dates /\ 0 \in 0 .. MaxArchiveFaults /\ 0 \in 0 .. MaxSideJobs /\ 0 <= MaxRuns
  BY ArchiveAssumption DEF Dates
<1>2. NoRows \in DerivedRows /\ \A d \in Dates : NoRows[d] = {}
  BY DEF NoRows, DerivedRows
<1>3. /\ NoManifest \in [status : ManifestStatus, sum : SUBSET Minutes]
      /\ NoManifest.status # "READY"
      /\ NoDerivedManifest \in [status : ManifestStatus, sum : DerivedRows]
      /\ NoDerivedManifest.status # "READY"
  BY <1>2 DEF NoManifest, NoDerivedManifest, ManifestStatus
<1>4. tasks \in Seq(Task) /\ Len(tasks) = 0 /\ DOMAIN tasks = {}
  BY DEF ArchiveInit
<1>5. ArchiveTypeOK
  BY <1>1, <1>2, <1>3, <1>4, IdleIsJob DEF ArchiveInit, ArchiveTypeOK
<1>6. ManifestsTrue
  BY <1>2, <1>3 DEF ArchiveInit, ManifestsTrue, Whole
<1>7. \A w \in Writers : job[w].pc = "idle" /\ job[w].kind = "none" /\ job[w].run = 0
  <2>1. Idle.pc = "idle" /\ Idle.kind = "none" /\ Idle.run = 0
    BY DEF Idle
  <2> QED BY <2>1 DEF ArchiveInit
<1>8. RunsApart /\ NoDateForgotten
  BY <1>4, <1>7 DEF RunsApart, NoDateForgotten
<1>9. ASSUME NEW w \in Writers PROVE ArchiveOwn(w)
  <2>1. RowsOwn(w) /\ DerivedOwn(w)
    BY <1>7 DEF RowsOwn, DerivedOwn
  <2>2. RunOwn(w)
    BY <1>7 DEF RunOwn
  <2> QED BY <2>1, <2>2 DEF ArchiveOwn
<1> QED BY <1>5, <1>6, <1>8, <1>9 DEF ArchiveInv

\* Only the two puts touch an object.
LEMMA ObjectsStay ==
    ASSUME UNCHANGED <<object, dObject>>
    PROVE  ArchiveGrows
BY DEF ArchiveGrows

LEMMA WritersGrow ==
    ASSUME ArchiveInv, NEW w \in Writers,
           \/ Tick(w) \/ StartScript(w) \/ RecoveryStops(w) \/ BeginDate(w) \/ PreflightFails(w)
           \/ TaskTurn(w) \/ SkipReady(w) \/ TaskReady(w) \/ TaskFailed(w) \/ DateDone(w)
           \/ StartBackfill(w) \/ Fetch(w) \/ LockAndMerge(w) \/ LockBusy(w)
           \/ UpsertManifest(w) \/ LockAndMergeDerived(w) \/ UpsertDerived(w)
           \/ Unlock(w) \/ StartRebuild(w) \/ Rebuild(w) \/ RebuildBusy(w) \/ RunEnds(w)
           \/ StartAudit(w) \/ Verify(w) \/ Throws(w) \/ Crash(w)
    PROVE  ArchiveGrows
<1>1. UNCHANGED <<object, dObject>>
  BY DEF Tick, StartScript, RecoveryStops, BeginDate, PreflightFails, TaskTurn, SkipReady,
         TaskReady, TaskFailed, DateDone, StartBackfill, Fetch, LockAndMerge, LockBusy,
         UpsertManifest, LockAndMergeDerived, UpsertDerived, Unlock, StartRebuild, Rebuild,
         RebuildBusy, RunEnds, StartAudit, Verify, Throws, Crash, storeVars
<1> QED BY <1>1, ObjectsStay

LEMMA ArchiveStep ==
    ASSUME ArchiveInv, LocksOutliveHolders, [ArchiveNext]_archiveVars
    PROVE  ArchiveInv' /\ ArchiveGrows
<1>1. CASE UNCHANGED archiveVars
  <2>1. /\ UNCHANGED <<job, tasks, today, dailyLock, object, dObject, manifest, dManifest>>
        /\ UNCHANGED lockVars
    BY <1>1 DEF archiveVars, lockVars
  <2>2. ArchiveTypeOK'
    BY <1>1 DEF archiveVars, ArchiveInv, ArchiveTypeOK
  <2>3. ManifestsTrue'
    BY <2>1 DEF ArchiveInv, ManifestsTrue, Whole, Covered, RowDates
  <2>4. NoDateForgotten'
    BY <2>1 DEF ArchiveInv, NoDateForgotten
  <2> QED BY <2>1, <2>2, <2>3, <2>4, OwnedStoresStay, OwnedRunsStay, EnvironmentStep, ObjectsStay
<1>2. ASSUME NEW w \in Writers,
             \/ Tick(w) \/ StartScript(w) \/ RecoveryStops(w) \/ BeginDate(w) \/ PreflightFails(w)
             \/ TaskTurn(w) \/ SkipReady(w) \/ TaskReady(w) \/ TaskFailed(w) \/ DateDone(w)
             \/ StartBackfill(w) \/ Fetch(w) \/ LockAndMerge(w) \/ LockBusy(w)
             \/ UpsertManifest(w) \/ LockAndMergeDerived(w) \/ UpsertDerived(w)
             \/ Unlock(w) \/ StartRebuild(w) \/ Rebuild(w) \/ RebuildBusy(w) \/ RunEnds(w)
             \/ StartAudit(w) \/ Verify(w) \/ Throws(w) \/ Crash(w)
      PROVE  ArchiveInv' /\ ArchiveGrows
  <2>1. ArchiveInv'
    BY <1>2, TickInv, StartScriptInv, RecoveryStopsInv, BeginDateInv, RunOverInv, TaskTurnInv,
       SkipReadyInv, TaskClosedInv, DateDoneInv, StartBackfillInv, FetchRowsInv,
       LockAndMergeInv, WorkFailsInv, UpsertManifestInv, LockAndMergeDerivedInv,
       UpsertDerivedInv, UnlockInv, StartRebuildInv, RebuildInv, StartAuditInv, VerifyInv,
       CrashInv
  <2>2. ArchiveGrows
    BY <1>2, WritersGrow
  <2> QED BY <2>1, <2>2
<1>3. ASSUME NEW w \in Writers, PutRows(w) \/ PutDerived(w)
      PROVE  ArchiveInv' /\ ArchiveGrows
  BY <1>3, PutRowsInv, PutDerivedInv
<1>4. ASSUME NEW r, RetryFailedRun(r) \/ TaskAges(r)
      PROVE  ArchiveInv' /\ ArchiveGrows
  BY <1>4, TaskTimeInv, ObjectsStay DEF RetryFailedRun, TaskAges, storeVars
<1>5. CASE MarkStale \/ NextDay \/ WindowCloses \/ LockExpires
  BY <1>5, MarkStaleInv, TimePassesInv, LockExpiresInv, ObjectsStay
     DEF MarkStale, NextDay, WindowCloses, LockExpires, storeVars
<1> QED BY <1>1, <1>2, <1>3, <1>4, <1>5 DEF ArchiveNext

\* Every variable of the archive keeps its type: the scheduler, the writer, the task
\* and manifest repositories never leave the tables, the objects and the locks in a
\* shape the code does not know, provided a lock outlives its holder.
THEOREM ArchiveTypes == LocksOutliveHolders /\ ArchiveSpec => []ArchiveTypeOK
<1> SUFFICES ASSUME LocksOutliveHolders PROVE ArchiveSpec => []ArchiveTypeOK
  OBVIOUS
<1>1. ArchiveInv => ArchiveTypeOK
  BY DEF ArchiveInv
<1>2. ArchiveInv /\ [ArchiveNext]_archiveVars => ArchiveInv'
  BY ArchiveStep
<1> QED BY ArchiveInitInv, <1>1, <1>2, PTL DEF ArchiveSpec

LEMMA ArchiveInvReady ==
    ASSUME ArchiveInv
    PROVE  ReadyIsComplete
<1>1. \A d \in TradingDates : manifest[d].status = "READY" => object[d] = Minutes
  BY ArchiveAssumption DEF ArchiveInv, ManifestsTrue
<1>2. \A t \in Derived : dManifest[t].status = "READY" =>
        \A d \in TradingDates : Covered(t, d) => dObject[t][d] = Minutes
  BY DEF ArchiveInv, ManifestsTrue
<1> QED BY <1>1, <1>2 DEF ReadyIsComplete, Covered

\* A READY manifest is of a whole partition (upsertReady, the coverage gate of the
\* derived ones): for any number of pods and scripts that crash, throw and rebuild at
\* any point, as long as a lock outlives its holder.
THEOREM ReadyComplete == LocksOutliveHolders /\ ArchiveSpec => []ReadyIsComplete
<1> SUFFICES ASSUME LocksOutliveHolders PROVE ArchiveSpec => []ReadyIsComplete
  OBVIOUS
<1>1. ArchiveInv => ReadyIsComplete
  BY ArchiveInvReady
<1>2. ArchiveInv /\ [ArchiveNext]_archiveVars => ArchiveInv'
  BY ArchiveStep
<1> QED BY ArchiveInitInv, <1>1, <1>2, PTL DEF ArchiveSpec

\* No date a run has started is given up (markSupersededStranded spares the run's own
\* task, markRunning of a fresh one never skips it).
THEOREM DatesRemembered == LocksOutliveHolders /\ ArchiveSpec => []NoDateForgotten
<1> SUFFICES ASSUME LocksOutliveHolders PROVE ArchiveSpec => []NoDateForgotten
  OBVIOUS
<1>1. ArchiveInv => NoDateForgotten
  BY DEF ArchiveInv
<1>2. ArchiveInv /\ [ArchiveNext]_archiveVars => ArchiveInv'
  BY ArchiveStep
<1> QED BY ArchiveInitInv, <1>1, <1>2, PTL DEF ArchiveSpec

\* No step of any process takes a row out of the archive (writePartition,
\* writeMergedAggregatePartition: a merge under the partition's lock).
THEOREM RowsStay == LocksOutliveHolders /\ ArchiveSpec => ArchivedRowsKept
<1> SUFFICES ASSUME LocksOutliveHolders PROVE ArchiveSpec => ArchivedRowsKept
  OBVIOUS
<1>1. ArchiveInv /\ [ArchiveNext]_archiveVars =>
        ArchiveInv' /\ [ArchiveGrows]_archiveVars
  BY ArchiveStep
<1> QED BY ArchiveInitInv, <1>1, PTL DEF ArchiveSpec, ArchivedRowsKept

================================================================================
