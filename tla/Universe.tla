------------------------------- MODULE Universe -------------------------------
(***************************************************************************)
(* Which collector subscribes which symbol: the demand leases in Redis and *)
(* the active strategies in the database, the collectors' heartbeats, and  *)
(* RefreshUniverseUsecase.execute, started by an interval and by hints     *)
(* without waiting for the run before.  Every collector computes the       *)
(* owners for itself from the heartbeats it sees.                          *)
(***************************************************************************)
EXTENDS Naturals, FiniteSets

CONSTANTS
    Collectors, DemandSymbols,
    Score(_, _),       \* fnv1a32 of symbol and collector
    RefreshSlots,      \* refreshes of one collector that may overlap
    MaxDemandChanges,  \* bound: changes of the demand
    MaxUniverseFaults  \* bound: failing calls, expired heartbeats, restarts

ASSUME UniverseAssumption ==
    /\ Collectors # {} /\ \A s \in DemandSymbols, c \in Collectors : Score(s, c) \in Nat
    /\ \A s \in DemandSymbols, c, d \in Collectors : Score(s, c) = Score(s, d) => c = d
    /\ MaxDemandChanges \in Nat /\ MaxUniverseFaults \in Nat

VARIABLES
    chartDemand,     \* symbols with an observation lease of the front end
    positionDemand,  \* symbols with a held-position lease
    strategyDemand,  \* symbols of active strategies (database)
    beating,         \* collectors whose heartbeat key exists
    refreshing,      \* each refresh: [pc, demand, target]
    filter,          \* currentSymbols of UniverseService
    requested,       \* what the gateway was last rebalanced to
    demandChanges, universeFaults

universeVars == <<chartDemand, positionDemand, strategyDemand, beating, refreshing, filter,
                  requested, demandChanges, universeFaults>>
demandVars == <<chartDemand, positionDemand, strategyDemand, demandChanges>>

RefreshIdle == [pc |-> "idle", demand |-> {}, target |-> {}]

UniverseInit ==
    /\ chartDemand \in SUBSET DemandSymbols
    /\ positionDemand = {} /\ strategyDemand = {}
    /\ beating = Collectors
    /\ refreshing = [c \in Collectors |-> [i \in RefreshSlots |-> RefreshIdle]]
    /\ filter = [c \in Collectors |-> {}] /\ requested = [c \in Collectors |-> {}]
    /\ demandChanges = 0 /\ universeFaults = 0

UniverseFault == universeFaults < MaxUniverseFaults /\ universeFaults' = universeFaults + 1

Demand == chartDemand \cup positionDemand \cup strategyDemand

\* The front end, the tracker or a strategy wants a symbol, or no longer does.
Toggle(set, s) == IF s \in set THEN set \ {s} ELSE set \cup {s}
DemandChanges(s) ==
    /\ demandChanges < MaxDemandChanges /\ demandChanges' = demandChanges + 1
    /\ \/ chartDemand' = Toggle(chartDemand, s) /\ UNCHANGED <<positionDemand, strategyDemand>>
       \/ positionDemand' = Toggle(positionDemand, s) /\ UNCHANGED <<chartDemand, strategyDemand>>
       \/ strategyDemand' = Toggle(strategyDemand, s) /\ UNCHANGED <<chartDemand, positionDemand>>
    /\ UNCHANGED <<beating, refreshing, filter, requested, universeFaults>>

\* HeartbeatWriter.tick: SETEX.
Beat(c) ==
    /\ c \notin beating
    /\ beating' = beating \cup {c}
    /\ UNCHANGED <<demandVars, refreshing, filter, requested, universeFaults>>

\* A heartbeat comes too late for its TTL, or cannot be written.
BeatLapses(c) ==
    /\ c \in beating /\ UniverseFault
    /\ beating' = beating \ {c}
    /\ UNCHANGED <<demandVars, refreshing, filter, requested>>

-----------------------------------------------------------------------------
\* ownerFor: rendezvous hashing, the member with the highest score.
OwnerFor(s, members) ==
    CHOOSE c \in members : \A d \in members : Score(s, d) <= Score(s, c)

\* assign: what falls to c among the members it sees.
Assigned(c, symbols, members) == {s \in symbols : OwnerFor(s, members) = c}

\* execute reads the three demands.
ReadDemand(c, i) ==
    /\ refreshing[c][i].pc = "idle"
    /\ refreshing' = [refreshing EXCEPT ![c][i] =
         [pc |-> "assign", demand |-> Demand, target |-> {}]]
    /\ UNCHANGED <<demandVars, beating, filter, requested, universeFaults>>

\* A read fails: the two that ask Redis are caught and count as no demand.  (The
\* one that asks the database ends the refresh, which changes nothing.)
ReadFails(c, i) ==
    /\ refreshing[c][i].pc = "idle" /\ UniverseFault
    /\ \E left \in {strategyDemand \cup positionDemand, strategyDemand \cup chartDemand,
                    strategyDemand} :
         refreshing' = [refreshing EXCEPT ![c][i] =
           [pc |-> "assign", demand |-> left, target |-> {}]]
    /\ UNCHANGED <<demandVars, beating, filter, requested>>

\* assign by the heartbeats, then applyAssignedSnapshot; a failing scan leaves
\* the collector alone with itself.
AssignSymbols(c, i) ==
    /\ refreshing[c][i].pc = "assign"
    /\ \E members \in {beating \cup {c}, {c}} :
         LET target == Assigned(c, refreshing[c][i].demand, members)
         IN  /\ members # beating \cup {c} => UniverseFault
             /\ members = beating \cup {c} => UNCHANGED universeFaults
             /\ filter' = [filter EXCEPT ![c] = target]
             /\ refreshing' = [refreshing EXCEPT ![c][i].pc = "rebalance", ![c][i].target = target]
    /\ UNCHANGED <<demandVars, beating, requested>>

\* Mutant: symbols are added and never removed.
RebalanceAdds(c, i) ==
    /\ refreshing[c][i].pc = "rebalance"
    /\ requested' = [requested EXCEPT ![c] = @ \cup refreshing[c][i].target]
    /\ refreshing' = [refreshing EXCEPT ![c][i] = RefreshIdle]
    /\ UNCHANGED <<demandVars, beating, filter, universeFaults>>

\* rebalanceMarketData (after a reconnect when no socket is up).
Rebalance(c, i) ==
    /\ refreshing[c][i].pc = "rebalance"
    /\ requested' = [requested EXCEPT ![c] = refreshing[c][i].target]
    /\ refreshing' = [refreshing EXCEPT ![c][i] = RefreshIdle]
    /\ UNCHANGED <<demandVars, beating, filter, universeFaults>>

\* The reconnect or a send fails: the refresh ends, the next one tries again.
RebalanceFails(c, i) ==
    /\ refreshing[c][i].pc = "rebalance" /\ UniverseFault
    /\ \E some \in {requested[c], requested[c] \cup refreshing[c][i].target,
                    requested[c] \cap refreshing[c][i].target} :
         requested' = [requested EXCEPT ![c] = some]
    /\ refreshing' = [refreshing EXCEPT ![c][i] = RefreshIdle]
    /\ UNCHANGED <<demandVars, beating, filter>>

\* The process restarts without subscriptions; its heartbeat key may expire first.
CollectorRestarts(c) ==
    /\ UniverseFault
    /\ refreshing' = [refreshing EXCEPT ![c] = [i \in RefreshSlots |-> RefreshIdle]]
    /\ filter' = [filter EXCEPT ![c] = {}] /\ requested' = [requested EXCEPT ![c] = {}]
    /\ beating' \in {beating, beating \ {c}}
    /\ UNCHANGED demandVars

RefreshStepOf(c, i) ==
    \/ ReadDemand(c, i)
    \/ AssignSymbols(c, i) /\ UNCHANGED universeFaults
    \/ Rebalance(c, i)

UniverseNext ==
    \/ \E s \in DemandSymbols : DemandChanges(s)
    \/ \E c \in Collectors :
         \/ Beat(c) \/ BeatLapses(c) \/ CollectorRestarts(c)
         \/ \E i \in RefreshSlots :
              \/ ReadDemand(c, i) \/ ReadFails(c, i) \/ AssignSymbols(c, i)
              \/ Rebalance(c, i) \/ RebalanceFails(c, i)

\* Intervals fire and awaited calls settle.
UniverseFairness ==
    \A c \in Collectors :
        /\ WF_universeVars(Beat(c))
        /\ \A i \in RefreshSlots : WF_universeVars(RefreshStepOf(c, i))

UniverseSpec == UniverseInit /\ [][UniverseNext]_universeVars /\ UniverseFairness

-----------------------------------------------------------------------------
\* Types of demand, membership and subscriptions.
UniverseTypeOK ==
    /\ Demand \subseteq DemandSymbols /\ beating \subseteq Collectors
    /\ refreshing \in [Collectors -> [RefreshSlots ->
         [pc: {"idle", "assign", "rebalance"}, demand: SUBSET DemandSymbols,
          target: SUBSET DemandSymbols]]]
    /\ filter \in [Collectors -> SUBSET DemandSymbols]
    /\ requested \in [Collectors -> SUBSET DemandSymbols]
    /\ demandChanges \in 0..MaxDemandChanges /\ universeFaults \in 0..MaxUniverseFaults

\* The collectors agree in the end without talking to each other: every demanded
\* symbol is subscribed, and let through, by exactly one of them, and nothing
\* else is subscribed.
UniverseCovered ==
    <>[](/\ UNION {requested[c] : c \in Collectors} = Demand
         /\ \A c, d \in Collectors : c # d => requested[c] \cap requested[d] = {}
         /\ filter = requested)

\* refresh-universe.usecase.ts: "Failure on any fetch is tolerated - we keep the
\* previous snapshot so a transient Redis hiccup never tears down vendor WS
\* subscriptions."  While the demand and the membership stay as they are, no
\* rebalance unsubscribes a symbol that is demanded and the collector's own.
HiccupKeepsSubscriptions ==
    [][\A c \in Collectors, i \in RefreshSlots :
         demandChanges = 0 /\ beating = Collectors /\ Rebalance(c, i) =>
            Assigned(c, Demand, Collectors) \cap requested[c] \subseteq requested'[c]]_universeVars

==============================================================================
