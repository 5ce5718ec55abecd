------------------------------- MODULE WsFanout -------------------------------
(***************************************************************************)
(* KiwoomCollectorWsFanoutVendor: one market data stream per eligible      *)
(* credential, and the distribution of the symbols over them.  The         *)
(* universe refreshes and the admin's reconnect call it, and nothing keeps *)
(* two calls apart; only ensureChildren is shared between them.  A child   *)
(* stream that lost its socket reconnects by itself (MarketSocket).        *)
(***************************************************************************)
EXTENDS Naturals, FiniteSets, Sequences

CONSTANTS
    Credentials,
    SymbolCount, ChartSymbols, IndexSymbols,  \* symbols are numbers, in sort order
    WsMaxSymbols(_),     \* each credential's cap
    FanScore(_, _),      \* fnv1a32 of symbol and credential
    CallSlots,           \* calls that may be under way together
    MaxFanChanges,       \* bound: changes of what is wanted, admin reconnects
    MaxFanFaults         \* bound: credentials limited sockets, failing connects

ASSUME FanoutAssumption ==
    /\ SymbolCount \in Nat /\ ChartSymbols \cup IndexSymbols \subseteq 1..SymbolCount
    /\ ChartSymbols \cap IndexSymbols = {}
    /\ IsFiniteSet(Credentials) /\ \A c \in Credentials : WsMaxSymbols(c) \in Nat
    /\ \A s \in ChartSymbols \cup IndexSymbols, c, d \in Credentials :
         FanScore(s, c) \in Nat /\ (FanScore(s, c) = FanScore(s, d) => c = d)

VARIABLES
    wanted,      \* the universe assigned to this collector
    eligible,    \* what listCollectorCredentials answers
    children, held,  \* the child streams and the symbols each holds
    up,          \* children whose stream is connected
    backoff,     \* credentials whose connect failed lately
    ensure,      \* the shared ensurePromise: [pc, todo]
    calls,       \* each call: stages still to run, and the tasks of the current one
    overlapping, \* whether calls overlap in this behaviour
    fanChanges, fanFaults

fanVars == <<wanted, eligible, children, held, up, backoff, ensure, calls, overlapping,
             fanChanges, fanFaults>>
fanBounds == <<overlapping, fanChanges, fanFaults>>

FanSymbols == ChartSymbols \cup IndexSymbols
NoTasks == [c \in Credentials |-> {}]
NoCall == [stages |-> <<>>, pc |-> "idle", remove |-> NoTasks, add |-> NoTasks, left |-> {},
           failed |-> FALSE]
EnsureIdle == [pc |-> "idle", todo |-> {}]

FanInit ==
    /\ wanted = ChartSymbols /\ eligible = Credentials
    /\ children = {} /\ held = NoTasks /\ up = {} /\ backoff = {}
    /\ ensure = EnsureIdle
    /\ overlapping \in BOOLEAN /\ fanChanges = 0 /\ fanFaults = 0
    /\ calls = [i \in CallSlots |-> NoCall]

FanFault == fanFaults < MaxFanFaults /\ fanFaults' = fanFaults + 1
FanChange == fanChanges < MaxFanChanges /\ fanChanges' = fanChanges + 1

-----------------------------------------------------------------------------
\* leastLoadedOwnerFor and rendezvousOwnerFor: the candidates of an owner.
Available(loads) == {c \in children : loads[c] < WsMaxSymbols(c)}
LeastLoadedOwnerFor(s, loads) ==
    CHOOSE c \in Available(loads) :
        \A d \in Available(loads) :
            \/ loads[c] < loads[d]
            \/ loads[c] = loads[d] /\ FanScore(s, d) <= FanScore(s, c)

\* partition: the symbols in order, each to the least loaded child below its cap.
Place(s, before) ==
    LET owner == LeastLoadedOwnerFor(s, before.loads)
    IN  IF Available(before.loads) = {} THEN before
        ELSE [loads |-> [before.loads EXCEPT ![owner] = @ + 1],
              plan |-> [before.plan EXCEPT ![owner] = @ \cup {s}]]
Placement(symbols, base) ==
    LET place[s \in 0..SymbolCount] ==
            IF s = 0 THEN [loads |-> base, plan |-> NoTasks]
            ELSE IF s \in symbols THEN Place(s, place[s - 1]) ELSE place[s - 1]
    IN  place
Partition(symbols, base) == Placement(symbols, base)[SymbolCount].plan

Loads(symbols) == [c \in Credentials |-> Cardinality(held[c] \cap symbols)]
Owned == UNION {held[c] : c \in children}

\* The children leave the map: their symbols go with them, and a task that still
\* has to subscribe on one finds its stream gone.
Without(cs) ==
    [i \in CallSlots |-> [calls[i] EXCEPT
        !.left = @ \ cs,
        !.failed = @ \/ \E c \in cs \cap calls[i].left : calls[i].add[c] # {}]]

-----------------------------------------------------------------------------
Stage(kind, symbols) == [kind |-> kind, symbols |-> symbols]

\* A reconnect with nothing to disconnect goes straight on.
Started(stages) ==
    LET now == IF stages[1].kind = "reconnect" /\ children = {} THEN Tail(stages) ELSE stages
    IN  [NoCall EXCEPT !.stages = now,
                       !.pc = IF now[1].kind = "reconnect" THEN "disconnect" ELSE "ensure"]

\* reconnectMarketDataStream reads what was held, then disconnects, subscribes the
\* indexes and puts the rest back.
ReconnectStages ==
    LET chart == Owned \ IndexSymbols
        index == IF Owned \cap IndexSymbols = {} THEN IndexSymbols ELSE Owned \cap IndexSymbols
    IN  <<Stage("reconnect", {}), Stage("subscribe", index)>>
        \o (IF chart = {} THEN <<>> ELSE <<Stage("rebalance", chart)>>)

MayStart(i) ==
    /\ calls[i].pc = "idle"
    /\ overlapping \/ \A j \in CallSlots : calls[j].pc = "idle"

\* A universe refresh: rebalance, after a reconnect when no stream is connected.
Refresh(i) ==
    /\ MayStart(i)
    /\ calls' = [calls EXCEPT ![i] =
         Started((IF up = {} THEN ReconnectStages ELSE <<>>) \o <<Stage("rebalance", wanted)>>)]
    /\ UNCHANGED <<wanted, eligible, children, held, up, backoff, ensure, fanBounds>>

\* TriggerWsReconnectUsecase.
AdminReconnect(i) ==
    /\ MayStart(i) /\ FanChange
    /\ calls' = [calls EXCEPT ![i] = Started(ReconnectStages)]
    /\ UNCHANGED <<wanted, eligible, children, held, up, backoff, ensure, overlapping,
                   fanFaults>>

WantedChanges ==
    /\ FanChange /\ \E w \in SUBSET ChartSymbols : w # wanted /\ wanted' = w
    /\ UNCHANGED <<eligible, children, held, up, backoff, ensure, calls, overlapping,
                   fanFaults>>

NextStage(call) ==
    IF call.failed \/ Len(call.stages) = 1 THEN NoCall ELSE Started(Tail(call.stages))

\* The children known at the start are disconnected by now; clear() forgets those
\* that came in the meantime as well (their sessions live on until the broker
\* closes them for a new one).
ClearChildren(i) ==
    /\ calls[i].pc = "disconnect"
    /\ children' = {} /\ held' = NoTasks /\ up' = {}
    /\ calls' = [Without(children) EXCEPT ![i] = NextStage(calls[i])]
    /\ UNCHANGED <<wanted, eligible, backoff, ensure, fanBounds>>

-----------------------------------------------------------------------------
\* ensureChildren: the first caller starts the run, the others wait for the same.
JoinEnsure(i) ==
    /\ calls[i].pc = "ensure"
    /\ calls' = [calls EXCEPT ![i].pc = "joined"]
    /\ ensure' = IF ensure.pc = "idle" THEN [pc |-> "list", todo |-> {}] ELSE ensure
    /\ UNCHANGED <<wanted, eligible, children, held, up, backoff, fanBounds>>

\* doEnsureChildren drops the children that are no longer eligible.
ListCredentials ==
    /\ ensure.pc = "list"
    /\ ensure' = [pc |-> "connect", todo |-> eligible]
    /\ children' = children \cap eligible /\ up' = up \cap eligible
    /\ held' = [c \in Credentials |-> IF c \in eligible THEN held[c] ELSE {}]
    /\ calls' = Without(children \ eligible)
    /\ UNCHANGED <<wanted, eligible, backoff, fanBounds>>

\* One credential after the other.
ConnectChild(c) ==
    /\ ensure.pc = "connect" /\ c \in ensure.todo
    /\ ensure' = [ensure EXCEPT !.todo = @ \ {c}]
    /\ IF c \in children \cup backoff THEN UNCHANGED <<children, held, up>>
       ELSE /\ children' = children \cup {c} /\ up' = up \cup {c}
            /\ held' = [held EXCEPT ![c] = {}]
    /\ UNCHANGED <<wanted, eligible, backoff, calls, fanBounds>>

\* The connect or the login fails; after the connect the vendor's own loop goes
\* on without anyone holding the vendor.
ConnectChildFails(c) ==
    /\ ensure.pc = "connect" /\ c \in ensure.todo /\ c \notin children \cup backoff /\ FanFault
    /\ ensure' = [ensure EXCEPT !.todo = @ \ {c}]
    /\ backoff' = backoff \cup {c}
    /\ UNCHANGED <<wanted, eligible, children, held, up, calls, overlapping, fanChanges>>

\* The promise settles for every caller that waits: it fails without a child.
EnsureSettles ==
    /\ ensure.pc = "connect" /\ ensure.todo = {}
    /\ ensure' = EnsureIdle
    /\ calls' = [i \in CallSlots |->
         IF calls[i].pc # "joined" THEN calls[i]
         ELSE IF children = {} THEN NoCall ELSE [calls[i] EXCEPT !.pc = "plan"]]
    /\ UNCHANGED <<wanted, eligible, children, held, up, backoff, fanBounds>>

BackoffEnds(c) ==
    /\ c \in backoff /\ backoff' = backoff \ {c}
    /\ UNCHANGED <<wanted, eligible, children, held, up, ensure, calls, fanBounds>>

-----------------------------------------------------------------------------
\* rebalanceMarketData and subscribeMarketData, once the children are there: what
\* each child has to remove and to add is settled in one go.
PlanTasks(i) ==
    LET stage == calls[i].stages[1]
        rebalance == stage.kind = "rebalance"
        plan == IF rebalance THEN Partition(stage.symbols, Loads(IndexSymbols))
                ELSE Partition(stage.symbols \ Owned, Loads(FanSymbols))
    IN  /\ calls[i].pc = "plan"
        /\ calls' = [calls EXCEPT
             ![i].pc = "tasks", ![i].left = children,
             ![i].remove = [c \in Credentials |->
                IF rebalance THEN held[c] \ (IndexSymbols \cup plan[c]) ELSE {}],
             ![i].add = [c \in Credentials |->
                IF rebalance THEN plan[c] \ held[c]
                ELSE plan[c] \cup (stage.symbols \cap held[c])]]
        /\ UNCHANGED <<wanted, eligible, children, held, up, backoff, ensure, fanBounds>>

\* A child's unsubscribe returns (at once when it is not connected).
RemoveSymbols(i, c) ==
    /\ calls[i].pc = "tasks" /\ c \in calls[i].left /\ calls[i].remove[c] # {}
    /\ held' = [held EXCEPT ![c] = @ \ calls[i].remove[c]]
    /\ calls' = [calls EXCEPT ![i].remove[c] = {}]
    /\ UNCHANGED <<wanted, eligible, children, up, backoff, ensure, fanBounds>>

\* A child's subscribe returns, or throws because it is not connected.
AddSymbols(i, c) ==
    /\ calls[i].pc = "tasks" /\ c \in calls[i].left /\ calls[i].remove[c] = {}
    /\ held' = IF c \in up THEN [held EXCEPT ![c] = @ \cup calls[i].add[c]] ELSE held
    /\ calls' = [calls EXCEPT
         ![i].left = @ \ {c}, ![i].failed = @ \/ (c \notin up /\ calls[i].add[c] # {})]
    /\ UNCHANGED <<wanted, eligible, children, up, backoff, ensure, fanBounds>>

StageEnds(i) ==
    /\ calls[i].pc = "tasks" /\ calls[i].left = {}
    /\ calls' = [calls EXCEPT ![i] = NextStage(calls[i])]
    /\ UNCHANGED <<wanted, eligible, children, held, up, backoff, ensure, fanBounds>>

-----------------------------------------------------------------------------
\* A child's socket is lost, and comes back with its symbols (MarketSocket).
ChildDown(c) ==
    /\ c \in up /\ FanFault /\ up' = up \ {c}
    /\ UNCHANGED <<wanted, eligible, children, held, backoff, ensure, calls, overlapping,
                   fanChanges>>

ChildUp(c) ==
    /\ c \in children \ up /\ c \in eligible /\ up' = up \cup {c}
    /\ UNCHANGED <<wanted, eligible, children, held, backoff, ensure, calls, fanBounds>>

\* A credential is limited (its stream may be kicked out), and is good again later.
CredentialLimited(c) ==
    /\ c \in eligible /\ FanFault /\ eligible' = eligible \ {c} /\ up' \in {up, up \ {c}}
    /\ UNCHANGED <<wanted, children, held, backoff, ensure, calls, overlapping, fanChanges>>

CredentialRecovers(c) ==
    /\ c \notin eligible /\ eligible' = eligible \cup {c}
    /\ UNCHANGED <<wanted, children, held, up, backoff, ensure, calls, fanBounds>>

CallStep(i) ==
    \/ ClearChildren(i) \/ JoinEnsure(i) \/ PlanTasks(i) \/ StageEnds(i)
    \/ \E c \in Credentials : RemoveSymbols(i, c) \/ AddSymbols(i, c)
EnsureStep == ListCredentials \/ EnsureSettles \/ \E c \in Credentials : ConnectChild(c)

FanNext ==
    \/ WantedChanges
    \/ \E i \in CallSlots : Refresh(i) \/ AdminReconnect(i) \/ CallStep(i)
    \/ EnsureStep
    \/ \E c \in Credentials :
         ConnectChildFails(c) \/ BackoffEnds(c) \/ ChildDown(c) \/ ChildUp(c)
         \/ CredentialLimited(c) \/ CredentialRecovers(c)

\* Refreshes are fired by an interval, awaited calls settle, a limit runs out.
FanFairness ==
    /\ \A i \in CallSlots : WF_fanVars(Refresh(i)) /\ WF_fanVars(CallStep(i))
    /\ WF_fanVars(EnsureStep)
    /\ \A c \in Credentials :
         /\ WF_fanVars(BackoffEnds(c)) /\ WF_fanVars(ChildUp(c))
         /\ WF_fanVars(CredentialRecovers(c))

FanSpec == FanInit /\ [][FanNext]_fanVars /\ FanFairness

-----------------------------------------------------------------------------
\* Types of the fan-out.
FanTypeOK ==
    /\ wanted \subseteq ChartSymbols /\ eligible \subseteq Credentials
    /\ children \subseteq Credentials /\ up \subseteq children
    /\ held \in [Credentials -> SUBSET FanSymbols]
    /\ \A c \in Credentials \ children : held[c] = {}
    /\ backoff \subseteq Credentials
    /\ ensure.pc \in {"idle", "list", "connect"} /\ ensure.todo \subseteq Credentials
    /\ \A i \in CallSlots : calls[i].pc \in {"idle", "disconnect", "ensure", "joined", "plan",
                                             "tasks"}

\* As long as calls do not overlap, no stream ever exceeds its cap, and between
\* two calls no symbol is on two streams.
CapsHold ==
    ~overlapping =>
        /\ \A c \in children : Cardinality(held[c]) <= WsMaxSymbols(c)
        /\ (\A i \in CallSlots : calls[i].pc = "idle") =>
             \A c, d \in children : c # d => held[c] \cap held[d] = {}

\* What overlapping calls and failing ones leave behind is repaired: in the end
\* the streams hold every wanted symbol once, except what all the caps together
\* cannot take, and no other chart symbol.
FanoutSettles ==
    <>[](/\ \A c \in children : Cardinality(held[c]) <= WsMaxSymbols(c)
         /\ Owned \cap ChartSymbols \subseteq wanted
         /\ \A c, d \in children : c # d => held[c] \cap held[d] \cap ChartSymbols = {}
         /\ wanted \subseteq Owned \/ \A c \in children : Cardinality(held[c]) = WsMaxSymbols(c))

==============================================================================
