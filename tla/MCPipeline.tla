------------------------------ MODULE MCPipeline ------------------------------
(***************************************************************************)
(* What becomes of market data, on a small instance: the candles of one    *)
(* symbol with their catch-up, the daily archive and its calendar, the     *)
(* stock master, the calculator's averages, the detector's alerts, the     *)
(* executor's signals, and the notifier's events and outbox.  The          *)
(* components share no variable, so a behaviour of all of them is an       *)
(* interleaving of independent behaviours: `focus', chosen at the start,   *)
(* is the component that acts, and one run checks them all.                *)
(***************************************************************************)
EXTENDS CandleFeed, ChartArchive, KrxCalendar, StockMaster, Indicators, Detector,
        SignalPlacement, EventIngest, NotificationOutbox

VARIABLE focus

pipelineVars == <<feedVars, archiveVars, calendarVars, stockVars, indicatorVars, detectorVars,
                  signalVars, ingestVars, noticeVars, focus>>

\* Two ticks a minute.
MCMinuteOf(t) == (t + 1) \div 2

\* Entries 1 and 2 fall in one millisecond.
MCMilliOf(e) == IF e = 2 THEN 1 ELSE e
MCCandleSymbol(c) == IF c = 2 THEN "b" ELSE "a"

\* The first date is a holiday, on which an operator opens the market.
MCCalendarFiles == {[d \in TradeDates |-> IF d = 1 THEN "closed" ELSE "full"]}
MCOverrides == {<<1, "full">>}

\* A stock of each market.
MCMarketCode(s) == IF s = 1 THEN "KOSPI" ELSE "KOSDAQ"

PipelineInit ==
    /\ focus \in {"feed", "archive", "calendar", "stock", "indicator", "detector", "signal",
                  "ingest", "notice"}
    /\ FeedInit /\ ArchiveInit /\ CalendarInit /\ StockInit /\ IndicatorInit /\ DetectorInit
    /\ SignalInit /\ IngestInit /\ NoticeInit
    /\ focus # "signal" => \A s \in Signals : signal[s] = [hinted |-> TRUE, kind |-> "good"]
    /\ focus # "stock" => seeding /\ markets = MarketCodes

PipelineNext ==
    /\ UNCHANGED focus
    /\ \/ focus = "feed" /\ FeedNext
          /\ UNCHANGED <<archiveVars, calendarVars, stockVars, indicatorVars, detectorVars,
                         signalVars, ingestVars, noticeVars>>
       \/ focus = "archive" /\ ArchiveNext
          /\ UNCHANGED <<feedVars, calendarVars, stockVars, indicatorVars, detectorVars,
                         signalVars, ingestVars, noticeVars>>
       \/ focus = "calendar" /\ CalendarNext
          /\ UNCHANGED <<feedVars, archiveVars, stockVars, indicatorVars, detectorVars,
                         signalVars, ingestVars, noticeVars>>
       \/ focus = "stock" /\ StockNext
          /\ UNCHANGED <<feedVars, archiveVars, calendarVars, indicatorVars, detectorVars,
                         signalVars, ingestVars, noticeVars>>
       \/ focus = "indicator" /\ IndicatorNext
          /\ UNCHANGED <<feedVars, archiveVars, calendarVars, stockVars, detectorVars,
                         signalVars, ingestVars, noticeVars>>
       \/ focus = "detector" /\ DetectorNext
          /\ UNCHANGED <<feedVars, archiveVars, calendarVars, stockVars, indicatorVars,
                         signalVars, ingestVars, noticeVars>>
       \/ focus = "signal" /\ SignalNext
          /\ UNCHANGED <<feedVars, archiveVars, calendarVars, stockVars, indicatorVars,
                         detectorVars, ingestVars, noticeVars>>
       \/ focus = "ingest" /\ IngestNext
          /\ UNCHANGED <<feedVars, archiveVars, calendarVars, stockVars, indicatorVars,
                         detectorVars, signalVars, noticeVars>>
       \/ focus = "notice" /\ NoticeNext
          /\ UNCHANGED <<feedVars, archiveVars, calendarVars, stockVars, indicatorVars,
                         detectorVars, signalVars, ingestVars>>

\* The fairness of the dispatch loop, in the behaviours where it acts.
PipelineFairness ==
    /\ \A d \in Dispatchers : WF_noticeVars(focus = "notice" /\ TickStep(d))
    /\ \A r \in Notices : WF_noticeVars(focus = "notice" /\ BackoffElapses(r))

PipelineSpec == PipelineInit /\ [][PipelineNext]_pipelineVars /\ PipelineFairness

\* Types of the component that acts; the others stay in their initial states.
PipelineTypeOK ==
    CASE focus = "feed" -> FeedTypeOK
      [] focus = "archive" -> ArchiveTypeOK
      [] focus = "calendar" -> CalendarTypeOK
      [] focus = "stock" -> StockTypeOK
      [] focus = "indicator" -> IndicatorTypeOK
      [] focus = "detector" -> DetectorTypeOK
      [] focus = "signal" -> SignalTypeOK
      [] focus = "ingest" -> IngestTypeOK
      [] focus = "notice" -> NoticeTypeOK

\* The calendar's copies and the rows of the stock master, the averages of the
\* calculator and the alerts of the detector.
MarketDataSafe ==
    /\ focus = "calendar" => CalendarSafe
    /\ focus = "stock" => MasterSafe
    /\ focus = "indicator" => AveragesAreGapless
    /\ focus = "detector" => AlertsAreSpaced

\* No timer takes back what it has to keep: archived rows, an operator's overrides and
\* observation flags.
RowsKept ==
    [][/\ focus = "archive" => ArchiveGrows
       /\ focus = "calendar" => OverrideKept
       /\ focus = "stock" => ObservationStays]_pipelineVars

\* Every outbox row is settled for good, SENT or FAILED, although replicas
\* overwrite each other's marks (behaviours in which the dispatch loop acts).
NoticesSettle == (focus = "notice") => EveryNoticeSettles

==============================================================================
