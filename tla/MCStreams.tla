------------------------------- MODULE MCStreams -------------------------------
(***************************************************************************)
(* The collectors' market data on a small instance: the assignment of      *)
(* symbols to collectors, the distribution over one collector's streams,   *)
(* one stream, the frames it delivers, and the dashboard's snapshots.      *)
(* Each is checked by itself: `focus' chooses at the start which of them   *)
(* acts (see MCPipeline).                                                  *)
(***************************************************************************)
EXTENDS Universe, WsFanout, MarketSocket, TickIngest, MarketSnapshots

VARIABLE focus

streamsVars == <<universeVars, fanVars, streamVars, tickVars, snapshotVars, focus>>

\* Neighbouring symbols prefer different collectors and credentials.
MCScore(s, c) == (s + c) % 2

\* One symbol a stream.
MCWsMaxSymbols(c) == 1

\* Ticks with and without warnings, entries of every type behind each other, and
\* frames that hold none.
WireEntryOf(type, item, at) ==
    [type |-> type, item |-> item, values |-> TRUE, lacks |-> {}, sound |-> TRUE, at |-> at]
TickEntry(at, lacks) == [WireEntryOf("0B", "listed", at) EXCEPT !.lacks = lacks]
RealFrame(entries) == [shape |-> "real", entries |-> entries]
MCWireFrames ==
    <<RealFrame(<<TickEntry(1, {"cumulative-volume"})>>),
      RealFrame(<<TickEntry(2, {}), TickEntry(3, {"price"}), WireEntryOf("0D", "unlisted", 3)>>),
      [shape |-> "control", entries |-> <<>>],
      RealFrame(<<WireEntryOf("0J", "unlisted", 4), TickEntry(4, {}), WireEntryOf("0U", "listed", 4)>>),
      [shape |-> "garbage", entries |-> <<>>],
      RealFrame(<<[TickEntry(5, {}) EXCEPT !.sound = FALSE], WireEntryOf("other", "listed", 5)>>),
      RealFrame(<<>>)>>

\* Where the demand may change it starts empty.
StreamsInit ==
    /\ focus \in {"universe", "fanout", "socket", "tick", "snapshot"}
    /\ UniverseInit /\ FanInit /\ StreamInit /\ TickInit /\ SnapshotInit
    /\ focus # "universe" \/ MaxDemandChanges > 0 => chartDemand = {}
    /\ focus # "fanout" => ~overlapping

StreamsNext ==
    /\ UNCHANGED focus
    /\ \/ focus = "universe" /\ UniverseNext /\ UNCHANGED <<fanVars, streamVars, tickVars, snapshotVars>>
       \/ focus = "fanout" /\ FanNext /\ UNCHANGED <<universeVars, streamVars, tickVars, snapshotVars>>
       \/ focus = "socket" /\ StreamNext /\ UNCHANGED <<universeVars, fanVars, tickVars, snapshotVars>>
       \/ focus = "tick" /\ TickNext /\ UNCHANGED <<universeVars, fanVars, streamVars, snapshotVars>>
       \/ focus = "snapshot" /\ SnapshotNext /\ UNCHANGED <<universeVars, fanVars, streamVars, tickVars>>

\* The fairness of the component that acts.
StreamsFairness ==
    /\ \A c \in Collectors :
         /\ WF_universeVars(focus = "universe" /\ Beat(c))
         /\ \A i \in RefreshSlots : WF_universeVars(focus = "universe" /\ RefreshStepOf(c, i))
    /\ \A i \in CallSlots :
         WF_fanVars(focus = "fanout" /\ Refresh(i)) /\ WF_fanVars(focus = "fanout" /\ CallStep(i))
    /\ WF_fanVars(focus = "fanout" /\ EnsureStep)
    /\ \A c \in Credentials :
         /\ WF_fanVars(focus = "fanout" /\ BackoffEnds(c))
         /\ WF_fanVars(focus = "fanout" /\ ChildUp(c))
         /\ WF_fanVars(focus = "fanout" /\ CredentialRecovers(c))
    /\ WF_streamVars(focus = "socket" /\ orphanGate # "fired" /\ TaskStep)

StreamsSpec == StreamsInit /\ [][StreamsNext]_streamsVars /\ StreamsFairness

\* Types of the component that acts; the others stay in their initial states.
StreamsTypeOK ==
    CASE focus = "universe" -> UniverseTypeOK
      [] focus = "fanout" -> FanTypeOK
      [] focus = "socket" -> StreamTypeOK
      [] focus = "tick" -> TickTypeOK
      [] focus = "snapshot" -> SnapshotTypeOK

\* What a collector's streams guarantee: the caps, the subscriptions of each, and
\* that the entries of their frames are neither skipped nor overtaken.
StreamsSafe ==
    /\ focus = "fanout" => CapsHold
    /\ focus = "socket" => StreamSafe
    /\ focus = "tick" => TicksSafe

\* Whichever component acts, it settles: the collectors share the demand among
\* them, the streams of one collector hold what it wants, a stream comes back.
StreamsSettle ==
    /\ (focus = "universe") => UniverseCovered
    /\ (focus = "fanout") => FanoutSettles
    /\ (focus = "socket") => StreamSettles

==============================================================================
