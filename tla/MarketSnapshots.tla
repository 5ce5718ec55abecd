--------------------------- MODULE MarketSnapshots ---------------------------
(***************************************************************************)
(* The Redis keys the dashboard reads: the market overview, the breadth of *)
(* each market, the latest index values and the exchange rate.  Timers of  *)
(* every collector refresh them over REST while realtime frames (0U, 0J)   *)
(* write them too.  The overview is read, changed and written back without *)
(* a lock; all keys expire when they are not written.                      *)
(*                                                                         *)
(* A value is the number of the event that brought it, 0 when empty.       *)
(***************************************************************************)
EXTENDS Naturals, FiniteSets

CONSTANTS
    SnapshotPods,
    Markets,          \* markets with a breadth key
    IndexKeys,        \* index symbols
    MergeSlots,       \* bound: breadth frames handled at a time
    MaxSnapshots,     \* bound: frames and fetches
    MaxSnapshotFaults \* bound: failing calls and expiring keys

ASSUME SnapshotAssumption == MaxSnapshots \in Nat /\ MaxSnapshotFaults \in Nat

VARIABLES
    overview,        \* the overview key: its parts
    breadthKey,      \* the breadth key per market
    dashboard,       \* MarketDashboardSnapshotService.refresh per pod
    merge,           \* recordBreadth per slot
    indexKey,        \* the index key per symbol
    fallback,        \* MarketIndexSnapshotService.refresh per pod
    fxKey, lastRate, \* the exchange-rate key, and FxSnapshotService.lastRate per pod
    snapshots,       \* events so far
    snapshotFaults

snapshotVars == <<overview, breadthKey, dashboard, merge, indexKey, fallback, fxKey, lastRate,
                  snapshots, snapshotFaults>>
overviewVars == <<overview, breadthKey, dashboard, merge>>
indexVars == <<indexKey, fallback>>
fxVars == <<fxKey, lastRate>>

NoBreadth == [m \in Markets |-> 0]
NoOverview == [flows |-> 0, movers |-> 0, breadth |-> NoBreadth]
NoIndex == [source |-> "none", value |-> 0, old |-> FALSE]
DashboardIdle == [pc |-> "idle", previous |-> NoOverview, fresh |-> NoOverview]
MergeIdle == [pc |-> "idle", market |-> "none", value |-> 0, base |-> NoOverview]
FallbackIdle == [pc |-> "idle", todo |-> {}, seen |-> [s \in IndexKeys |-> NoIndex], value |-> 0]

SnapshotInit ==
    /\ overview = NoOverview /\ breadthKey = NoBreadth
    /\ dashboard = [p \in SnapshotPods |-> DashboardIdle] /\ merge = [i \in MergeSlots |-> MergeIdle]
    /\ indexKey = [s \in IndexKeys |-> NoIndex] /\ fallback = [p \in SnapshotPods |-> FallbackIdle]
    /\ fxKey = [rate |-> 0, base |-> 0] /\ lastRate = [p \in SnapshotPods |-> 0]
    /\ snapshots = 0 /\ snapshotFaults = 0

NewSnapshot == snapshots < MaxSnapshots /\ snapshots' = snapshots + 1
SnapshotFault == snapshotFaults < MaxSnapshotFaults /\ snapshotFaults' = snapshotFaults + 1

-----------------------------------------------------------------------------
(* The overview.                                                           *)

\* The timer, unless this pod's last refresh still runs: the previous overview is read.
RefreshDashboard(p) ==
    /\ dashboard[p].pc = "idle" /\ NewSnapshot
    /\ dashboard' = [dashboard EXCEPT ![p] = [DashboardIdle EXCEPT !.pc = "fetch", !.previous = overview]]
    /\ UNCHANGED <<overview, breadthKey, merge, indexVars, fxVars, snapshotFaults>>

\* Flows, movers and the breadth keys, side by side: either fetch may come back empty.
\* The GETs of the breadth keys leave in one pipeline.
FetchDashboard(p) ==
    /\ dashboard[p].pc = "fetch"
    /\ \E flows, movers \in {0, snapshots} :
         dashboard' = [dashboard EXCEPT ![p].pc = "write",
                         ![p].fresh = [flows |-> flows, movers |-> movers, breadth |-> breadthKey]]
    /\ UNCHANGED <<overview, breadthKey, merge, indexVars, fxVars, snapshots, snapshotFaults>>

\* Mutant: an empty fetch empties the part.
KeptNothing(fresh, previous) == fresh

\* A part that came back empty keeps what the previous overview had.
Kept(fresh, previous) ==
    [flows |-> IF fresh.flows # 0 THEN fresh.flows ELSE previous.flows,
     movers |-> IF fresh.movers # 0 THEN fresh.movers ELSE previous.movers,
     breadth |-> IF fresh.breadth # NoBreadth THEN fresh.breadth ELSE previous.breadth]

\* Nothing fresh: the key keeps its age; else the overview is written.
WriteDashboard(p) ==
    /\ dashboard[p].pc = "write"
    /\ overview' = IF dashboard[p].fresh = NoOverview THEN overview
                   ELSE Kept(dashboard[p].fresh, dashboard[p].previous)
    /\ dashboard' = [dashboard EXCEPT ![p] = DashboardIdle]
    /\ UNCHANGED <<breadthKey, merge, indexVars, fxVars, snapshots, snapshotFaults>>

\* A call throws, or the write fails and is logged.
DashboardFails(p) ==
    /\ dashboard[p].pc # "idle" /\ SnapshotFault
    /\ dashboard' = [dashboard EXCEPT ![p] = DashboardIdle]
    /\ UNCHANGED <<overview, breadthKey, merge, indexVars, fxVars, snapshots>>

\* recordBreadth: a 0U frame writes its market's key; a failure is logged ...
RecordBreadth(i, m) ==
    /\ merge[i].pc = "idle" /\ NewSnapshot
    /\ \/ breadthKey' = [breadthKey EXCEPT ![m] = snapshots + 1] /\ UNCHANGED snapshotFaults
       \/ SnapshotFault /\ UNCHANGED breadthKey
    /\ merge' = [merge EXCEPT ![i] = [MergeIdle EXCEPT !.pc = "read", !.market = m, !.value = snapshots + 1]]
    /\ UNCHANGED <<overview, dashboard, indexVars, fxVars>>

\* ... and mergeBreadthIntoOverview reads the overview, if there is one, ...
MergeRead(i) ==
    /\ merge[i].pc = "read"
    /\ merge' = [merge EXCEPT ![i] = IF overview = NoOverview THEN MergeIdle
                                     ELSE [@ EXCEPT !.pc = "write", !.base = overview]]
    /\ UNCHANGED <<overview, breadthKey, dashboard, indexVars, fxVars, snapshots, snapshotFaults>>

\* ... and writes it back with the market's breadth.
MergeWrite(i) ==
    /\ merge[i].pc = "write"
    /\ overview' = [merge[i].base EXCEPT !.breadth[merge[i].market] = merge[i].value]
    /\ merge' = [merge EXCEPT ![i] = MergeIdle]
    /\ UNCHANGED <<breadthKey, dashboard, indexVars, fxVars, snapshots, snapshotFaults>>

\* A read or a write of the merge fails and is logged.
MergeFails(i) ==
    /\ merge[i].pc # "idle" /\ SnapshotFault
    /\ merge' = [merge EXCEPT ![i] = MergeIdle]
    /\ UNCHANGED <<overview, breadthKey, dashboard, indexVars, fxVars, snapshots>>

\* Redis expires a key that was not written for a while.
KeyExpires ==
    /\ SnapshotFault
    /\ \/ overview # NoOverview /\ overview' = NoOverview /\ UNCHANGED <<breadthKey, indexKey>>
       \/ \E m \in Markets : /\ breadthKey[m] # 0 /\ breadthKey' = [breadthKey EXCEPT ![m] = 0]
                             /\ UNCHANGED <<overview, indexKey>>
       \/ \E s \in IndexKeys : /\ indexKey[s] # NoIndex /\ indexKey' = [indexKey EXCEPT ![s] = NoIndex]
                               /\ UNCHANGED <<overview, breadthKey>>
    /\ UNCHANGED <<dashboard, merge, fallback, fxVars, snapshots>>

-----------------------------------------------------------------------------
(* The index values.                                                       *)

\* recordRealtime: a 0J frame.
RecordIndex(s) ==
    /\ NewSnapshot
    /\ indexKey' = [indexKey EXCEPT ![s] = [source |-> "ws_0J", value |-> snapshots + 1, old |-> FALSE]]
    /\ UNCHANGED <<overviewVars, fallback, fxVars, snapshotFaults>>

\* WS_FALLBACK_STALE_MS pass without a frame.
IndexAges(s) ==
    /\ indexKey[s].source = "ws_0J" /\ ~indexKey[s].old
    /\ indexKey' = [indexKey EXCEPT ![s].old = TRUE]
    /\ UNCHANGED <<overviewVars, fallback, fxVars, snapshots, snapshotFaults>>

\* Mutant: whatever the key holds is asked for.
NeedFallbackAlways == IndexKeys

\* A frame's value that is not stale yet needs no fallback.
FreshFrame(entry) == entry.source = "ws_0J" /\ ~entry.old
NeedFallback == {s \in IndexKeys : ~FreshFrame(indexKey[s])}

\* The timer inside the continuous session: the symbols whose value is missing, from
\* REST or stale are asked for; with none of them the refresh ends.
RefreshIndex(p) ==
    /\ fallback[p].pc = "idle" /\ NeedFallback # {} /\ NewSnapshot
    /\ fallback' = [fallback EXCEPT ![p] = [pc |-> "write", todo |-> NeedFallback, seen |-> indexKey,
                                            value |-> snapshots + 1]]
    /\ UNCHANGED <<overviewVars, indexKey, fxVars, snapshotFaults>>

\* The values that came back are written one after the other, whatever the key holds now.
WriteIndex(p, s) ==
    /\ fallback[p].pc = "write" /\ s \in fallback[p].todo
    /\ \/ /\ indexKey' = [indexKey EXCEPT ![s] = [source |-> "rest", value |-> fallback[p].value, old |-> FALSE]]
          /\ UNCHANGED snapshotFaults
       \/ SnapshotFault /\ UNCHANGED indexKey
    /\ fallback' = [fallback EXCEPT ![p] = IF @.todo = {s} THEN FallbackIdle ELSE [@ EXCEPT !.todo = fallback[p].todo \ {s}]]
    /\ UNCHANGED <<overviewVars, fxVars, snapshots>>

-----------------------------------------------------------------------------
\* FxSnapshotService.refresh: the change is against the pod's last rate, which moves on
\* once the key is written; a failure throws and leaves both.
RefreshFx(p) ==
    /\ NewSnapshot
    /\ fxKey' = [rate |-> snapshots + 1, base |-> lastRate[p]]
    /\ \/ lastRate' = [lastRate EXCEPT ![p] = snapshots + 1] /\ UNCHANGED snapshotFaults
       \/ SnapshotFault /\ UNCHANGED lastRate
    /\ UNCHANGED <<overviewVars, indexVars>>

SnapshotNext ==
    \/ \E p \in SnapshotPods :
         \/ RefreshDashboard(p) \/ FetchDashboard(p) \/ WriteDashboard(p) \/ DashboardFails(p)
         \/ RefreshIndex(p) \/ RefreshFx(p)
         \/ \E s \in IndexKeys : WriteIndex(p, s)
    \/ \E i \in MergeSlots :
         \/ MergeRead(i) \/ MergeWrite(i) \/ MergeFails(i)
         \/ \E m \in Markets : RecordBreadth(i, m)
    \/ \E s \in IndexKeys : RecordIndex(s) \/ IndexAges(s)
    \/ KeyExpires

SnapshotSpec == SnapshotInit /\ [][SnapshotNext]_snapshotVars

-----------------------------------------------------------------------------
Snapshot == 0..MaxSnapshots
OverviewType == [flows: Snapshot, movers: Snapshot, breadth: [Markets -> Snapshot]]
IndexEntry == [source: {"none", "rest", "ws_0J"}, value: Snapshot, old: BOOLEAN]

\* Types of the snapshots.
SnapshotTypeOK ==
    /\ overview \in OverviewType /\ breadthKey \in [Markets -> Snapshot]
    /\ dashboard \in [SnapshotPods -> [pc: {"idle", "fetch", "write"}, previous: OverviewType, fresh: OverviewType]]
    /\ merge \in [MergeSlots -> [pc: {"idle", "read", "write"}, market: Markets \cup {"none"},
                                 value: Snapshot, base: OverviewType]]
    /\ indexKey \in [IndexKeys -> IndexEntry]
    /\ fallback \in [SnapshotPods -> [pc: {"idle", "write"}, todo: SUBSET IndexKeys,
                                      seen: [IndexKeys -> IndexEntry], value: Snapshot]]
    /\ fxKey \in [rate: Snapshot, base: Snapshot] /\ lastRate \in [SnapshotPods -> Snapshot]
    /\ snapshots \in Snapshot /\ snapshotFaults \in 0..MaxSnapshotFaults

\* The overview a write is based on is no longer the one it replaces.
Overtaken ==
    \/ \E p \in SnapshotPods : /\ dashboard[p].pc = "write" /\ dashboard'[p].pc = "idle"
                               /\ dashboard[p].previous # overview
    \/ \E i \in MergeSlots : /\ merge[i].pc = "write" /\ merge'[i].pc = "idle"
                             /\ merge[i].base # overview

\* A part the overview shows goes empty only when the key expires or by a write that
\* another one overtook: an empty answer of the broker never blanks it.
PartsKept ==
    overview' # NoOverview /\ ~Overtaken =>
        /\ overview.flows # 0 => overview'.flows # 0
        /\ overview.movers # 0 => overview'.movers # 0
        /\ overview.breadth # NoBreadth => overview'.breadth # NoBreadth

\* A value over REST replaces a live realtime value only if that one came in after the
\* refresh had found the key without one.
RestYields ==
    \A s \in IndexKeys :
        FreshFrame(indexKey[s]) /\ indexKey'[s].source = "rest" =>
            \E p \in SnapshotPods : s \in fallback[p].todo /\ ~FreshFrame(fallback[p].seen[s])

\* What the dashboard shows is not blanked and not rolled back by a timer.
SnapshotsKept == [][PartsKept /\ RestYields]_snapshotVars

==============================================================================
