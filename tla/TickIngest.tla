------------------------------ MODULE TickIngest ------------------------------
(***************************************************************************)
(* A collector's way with a realtime frame.  The socket calls its handler  *)
(* frame by frame; the handler starts IngestTickUsecase.execute and does   *)
(* not wait for it, so the next frame starts while the last one is still   *)
(* writing to Redis or PostgreSQL.  The entries of a frame are handled one *)
(* after the other: trade ticks (0B) reach the latest-price key and the    *)
(* candle builder; order books (0D), indexes (0J) and market breadth (0U)  *)
(* their keys; what cannot be read becomes a dead letter.                  *)
(*                                                                         *)
(* An entry is what the parsers tell apart: its realtime type, its item,   *)
(* whether its values are a record, the fields a tick lacks, and whether   *)
(* its price and volume are sound.                                         *)
(***************************************************************************)
EXTENDS Naturals, Sequences, FiniteSets

CONSTANTS
    WireFrames,     \* bound: the frames of one symbol, in the order they arrive
    MaxLetterFaults \* bound: failing writes of dead letters

WireFrame == 1..Len(WireFrames)
Entries(f) == WireFrames[f].entries
EntryIds == UNION {{f} \X DOMAIN Entries(f) : f \in WireFrame}
EntryAt(e) == Entries(e[1])[e[2]]

\* A tick's fields that earn a warning when they are missing, and those of them
\* without which the candle builder has no use for it.
TickFields == {"price", "trade-volume", "cumulative-volume", "source-ts"}
BlockingFields == TickFields \ {"cumulative-volume"}

WireEntry ==
    [type: {"0B", "0D", "0J", "0U", "other", "none"}, item: {"listed", "unlisted", "missing"},
     values: BOOLEAN, lacks: SUBSET TickFields, sound: BOOLEAN, at: Nat]

\* Source times do not run backwards on the wire.
ASSUME WireAssumption ==
    /\ WireFrames \in Seq([shape: {"real", "control", "garbage"}, entries: Seq(WireEntry)])
    /\ \A f \in WireFrame : WireFrames[f].shape # "real" => Entries(f) = <<>>
    /\ \A d, e \in EntryIds : (d[1] < e[1] \/ (d[1] = e[1] /\ d[2] <= e[2]))
          => EntryAt(d).at <= EntryAt(e).at
    /\ MaxLetterFaults \in Nat

VARIABLES
    wirePos,      \* frames the socket has delivered
    frameTask,    \* execute per frame: the entry it is at, and the await it is in
    dispatched,   \* stats: the entries counted under each kind
    letters,      \* counter of the dead-letter service: [entry, reason]
    letterRows,   \* those stored in the stream and the table
    latestPrice,  \* the entry the latest-price key shows
    lastSource,   \* lastAcceptedSourceTsMs of the symbol
    taken,        \* ticks the candle builder took
    letterFaults

tickVars == <<wirePos, frameTask, dispatched, letters, letterRows, latestPrice, lastSource, taken,
              letterFaults>>
sinkVars == <<letters, latestPrice, lastSource, taken>>

NoEntry == <<0, 0>>
FrameNew == [at |-> 0, await |-> "none"]
EntryKinds == {"tick", "orderbook", "market-index", "market-breadth", "ignored", "dead-letter"}

TickInit ==
    /\ wirePos = 0 /\ frameTask = [f \in WireFrame |-> FrameNew]
    /\ dispatched = [k \in EntryKinds |-> {}]
    /\ letters = {} /\ letterRows = {} /\ latestPrice = NoEntry /\ lastSource = 0 /\ taken = {}
    /\ letterFaults = 0

-----------------------------------------------------------------------------
(* The mapper.                                                             *)

\* An entry without an item or a record of values is a dead letter.
Unreadable(e) == e.item = "missing" \/ ~e.values

ParseTradeTick0B(e) == IF Unreadable(e) THEN "dead-letter" ELSE "tick"
ParseOrderbook0D(e) == IF Unreadable(e) THEN "dead-letter" ELSE "orderbook"

\* So is one of an index or a market that is not listed.
ParseMarketIndex0J(e) == IF Unreadable(e) \/ e.item = "unlisted" THEN "dead-letter" ELSE "market-index"
ParseMarketBreadth0U(e) == IF Unreadable(e) \/ e.item = "unlisted" THEN "dead-letter" ELSE "market-breadth"

\* dispatchEntry: by the realtime type.
DispatchEntry(e) ==
    CASE e.type = "0B" -> ParseTradeTick0B(e)
      [] e.type = "0D" -> ParseOrderbook0D(e)
      [] e.type = "0J" -> ParseMarketIndex0J(e)
      [] e.type = "0U" -> ParseMarketBreadth0U(e)
      [] OTHER -> "dead-letter"

KindOf(e) == DispatchEntry(EntryAt(e))

\* The reason a dead letter is filed under.
LetterReason(e) == IF EntryAt(e).type = "none" THEN "parse-error" ELSE "unrecognized-realtime-type"

-----------------------------------------------------------------------------
(* The usecase.                                                            *)

Letter(e, reason) == [entry |-> e, reason |-> reason]

\* CandleBuilder.ingest: what it turns a tick away for, "none" when it takes it.
Rejection(e) ==
    LET complete == EntryAt(e).lacks \cap BlockingFields = {} IN
    CASE ~complete -> "parse-warning"
      [] complete /\ ~EntryAt(e).sound -> "invalid"
      [] complete /\ EntryAt(e).sound /\ EntryAt(e).at < lastSource -> "stale-tick"
      [] OTHER -> "none"

\* recordTick up to its first await: both live sinks are written whatever the
\* builder says; a tick it turns away is a dead letter.
RecordTick(e) ==
    /\ latestPrice' = e
    /\ IF Rejection(e) = "none"
       THEN /\ taken' = taken \cup {e} /\ lastSource' = EntryAt(e).at
            /\ UNCHANGED letters
       ELSE /\ letters' = letters \cup {Letter(e, Rejection(e))}
            /\ UNCHANGED <<taken, lastSource>>

\* Mutant: every tick is reported before it is recorded.
HandleResultReportsAll(f, i) ==
    LET e == <<f, i>> IN
    /\ dispatched' = [dispatched EXCEPT ![KindOf(e)] = @ \cup {e}]
    /\ frameTask' = [frameTask EXCEPT ![f] = [at |-> i, await |-> IF KindOf(e) = "tick" THEN "warning" ELSE "sinks"]]
    /\ UNCHANGED sinkVars

\* handleResult up to its first await: a tick with warnings is reported first and
\* recorded when that has been written.
HandleResult(f, i) ==
    LET e == <<f, i>> IN
    /\ dispatched' = [dispatched EXCEPT ![KindOf(e)] = @ \cup {e}]
    /\ \/ /\ KindOf(e) = "tick" /\ EntryAt(e).lacks # {}
          /\ letters' = letters \cup {Letter(e, "warned")}
          /\ frameTask' = [frameTask EXCEPT ![f] = [at |-> i, await |-> "warning"]]
          /\ UNCHANGED <<latestPrice, lastSource, taken>>
       \/ /\ KindOf(e) = "tick" /\ EntryAt(e).lacks = {}
          /\ RecordTick(e)
          /\ frameTask' = [frameTask EXCEPT ![f] = [at |-> i, await |-> "sinks"]]
       \/ /\ KindOf(e) = "dead-letter"
          /\ letters' = letters \cup {Letter(e, LetterReason(e))}
          /\ frameTask' = [frameTask EXCEPT ![f] = [at |-> i, await |-> "sinks"]]
          /\ UNCHANGED <<latestPrice, lastSource, taken>>
       \/ /\ KindOf(e) \notin {"tick", "dead-letter"}
          /\ frameTask' = [frameTask EXCEPT ![f] = [at |-> i, await |-> "sinks"]]
          /\ UNCHANGED sinkVars

\* execute ends.
FrameDone(f) == [frameTask EXCEPT ![f] = [at |-> Len(Entries(f)), await |-> "done"]]

\* The socket delivers the next frame: a control frame is ignored, one that is no
\* object or has no data is a dead letter, a REAL frame begins with its first entry.
FrameArrives ==
    /\ wirePos < Len(WireFrames) /\ wirePos' = wirePos + 1
    /\ LET f == wirePos + 1 IN
       \/ /\ WireFrames[f].shape = "control" /\ frameTask' = FrameDone(f)
          /\ dispatched' = [dispatched EXCEPT !["ignored"] = @ \cup {<<f, 0>>}]
          /\ UNCHANGED sinkVars
       \/ /\ WireFrames[f].shape = "garbage"
          /\ frameTask' = [frameTask EXCEPT ![f] = [at |-> 0, await |-> "sinks"]]
          /\ dispatched' = [dispatched EXCEPT !["dead-letter"] = @ \cup {<<f, 0>>}]
          /\ letters' = letters \cup {Letter(<<f, 0>>, "parse-error")}
          /\ UNCHANGED <<latestPrice, lastSource, taken>>
       \/ /\ WireFrames[f].shape = "real" /\ Entries(f) = <<>> /\ frameTask' = FrameDone(f)
          /\ UNCHANGED <<dispatched, sinkVars>>
       \/ /\ WireFrames[f].shape = "real" /\ Entries(f) # <<>> /\ HandleResult(f, 1)
    /\ UNCHANGED <<letterRows, letterFaults>>

\* DeadLetterService.emit: the stream and the table are written side by side and a
\* failure of either is logged, never thrown.
LettersWritten(f) ==
    LET due == {l \in letters : /\ l.entry = <<f, frameTask[f].at>>
                                /\ l.reason = "warned" <=> frameTask[f].await = "warning"} IN
    \/ letterRows' = letterRows \cup due /\ UNCHANGED letterFaults
    \/ /\ due # {} /\ letterFaults < MaxLetterFaults /\ letterFaults' = letterFaults + 1
       /\ UNCHANGED letterRows

\* The warning has been written: the tick is recorded.
WarningWritten(f) ==
    /\ frameTask[f].await = "warning"
    /\ RecordTick(<<f, frameTask[f].at>>)
    /\ frameTask' = [frameTask EXCEPT ![f].await = "sinks"]
    /\ LettersWritten(f)
    /\ UNCHANGED <<wirePos, dispatched>>

\* Mutant: a sink that fails ends the frame.
SinksWrittenThrowing(f) ==
    /\ frameTask[f].await = "sinks"
    /\ LettersWritten(f)
    /\ IF frameTask[f].at < Len(Entries(f)) /\ letterFaults' = letterFaults
       THEN HandleResult(f, frameTask[f].at + 1)
       ELSE frameTask' = FrameDone(f) /\ UNCHANGED <<dispatched, sinkVars>>
    /\ UNCHANGED wirePos

\* The sinks of an entry have been written, or have failed and were logged: the next
\* entry of the frame is handled.
SinksWritten(f) ==
    /\ frameTask[f].await = "sinks"
    /\ LettersWritten(f)
    /\ IF frameTask[f].at < Len(Entries(f))
       THEN HandleResult(f, frameTask[f].at + 1)
       ELSE frameTask' = FrameDone(f) /\ UNCHANGED <<dispatched, sinkVars>>
    /\ UNCHANGED wirePos

TickNext ==
    \/ FrameArrives
    \/ \E f \in WireFrame : WarningWritten(f) \/ SinksWritten(f)

TickSpec == TickInit /\ [][TickNext]_tickVars

-----------------------------------------------------------------------------
\* Types of the tick path.
TickTypeOK ==
    /\ wirePos \in 0..Len(WireFrames)
    /\ frameTask \in [WireFrame -> [at: Nat, await: {"none", "warning", "sinks", "done"}]]
    /\ \A k \in EntryKinds : dispatched[k] \subseteq WireFrame \X Nat
    /\ letterRows \subseteq letters /\ latestPrice \in EntryIds \cup {NoEntry}
    /\ lastSource \in Nat /\ taken \subseteq EntryIds /\ letterFaults \in 0..MaxLetterFaults

\* Whatever sinks fail, an entry is never skipped: a frame that is done has had
\* every entry counted under exactly one kind, and each tick has been taken into a
\* candle or filed as a dead letter.
EntriesAccounted ==
    \A e \in EntryIds : frameTask[e[1]].await = "done" =>
        /\ \A k \in EntryKinds : e \in dispatched[k] <=> k = KindOf(e)
        /\ KindOf(e) = "tick" => e \in taken \/ \E l \in letters : l.entry = e /\ l.reason # "warned"

\* Entries that wait before they are recorded: those behind another entry of their
\* frame and ticks with a warning.  Only they can be overtaken.
MayWait == {e \in EntryIds : e[2] > 1 \/ EntryAt(e).lacks # {}}

\* Frames overlap, and still a clean tick at the head of its frame is never turned
\* away as stale, nor does the latest-price key go back behind a tick the candles
\* have, unless it was written by an entry that had to wait.
TicksInOrder ==
    /\ \A l \in letters : l.reason = "stale-tick" => l.entry \in MayWait
    /\ latestPrice \in MayWait \cup {NoEntry} \/ EntryAt(latestPrice).at >= lastSource

\* The path of a tick: nothing skipped, nothing overtaken without a reason.
TicksSafe == EntriesAccounted /\ TicksInOrder

==============================================================================
