---------------------------- MODULE StreamsProofs ----------------------------
(***************************************************************************)
(* Proofs about the collectors' market data (MCStreams): the assignment of *)
(* symbols to collectors, their distribution over one collector's streams, *)
(* one stream, the frames it delivers, the dashboard's snapshots, and the  *)
(* composition of the five.                                                *)
(***************************************************************************)
EXTENDS MCStreams, FiniteSetTheorems, SequenceTheorems, WellFoundedInduction,
        NaturalsInduction, TLAPS

-----------------------------------------------------------------------------
(* Universe: types.                                                           *)

RefreshRecord == [pc: {"idle", "assign", "rebalance"}, demand: SUBSET DemandSymbols,
                  target: SUBSET DemandSymbols]

\* A refresh that takes a step keeps to its record.
LEMMA RefreshBecomes ==
    ASSUME UniverseTypeOK, NEW c \in Collectors, NEW i \in RefreshSlots, NEW r \in RefreshRecord,
           refreshing' = [refreshing EXCEPT ![c][i] = r]
    PROVE  refreshing' \in [Collectors -> [RefreshSlots -> RefreshRecord]]
BY DEF UniverseTypeOK, RefreshRecord

LEMMA UniverseInitTypes == UniverseInit => UniverseTypeOK
<1> SUFFICES ASSUME UniverseInit PROVE UniverseTypeOK
  OBVIOUS
<1>1. RefreshIdle \in RefreshRecord
  BY DEF RefreshIdle, RefreshRecord
<1>2. refreshing \in [Collectors -> [RefreshSlots -> RefreshRecord]]
  BY <1>1 DEF UniverseInit
<1> QED BY <1>2, UniverseAssumption DEF UniverseInit, UniverseTypeOK, Demand, RefreshRecord

LEMMA UniverseTypesStep == UniverseTypeOK /\ [UniverseNext]_universeVars => UniverseTypeOK'
<1> SUFFICES ASSUME UniverseTypeOK, [UniverseNext]_universeVars PROVE UniverseTypeOK'
  OBVIOUS
<1>0. /\ refreshing \in [Collectors -> [RefreshSlots -> RefreshRecord]]
      /\ MaxDemandChanges \in Nat /\ MaxUniverseFaults \in Nat
      /\ RefreshIdle \in RefreshRecord
  BY UniverseAssumption DEF UniverseTypeOK, RefreshRecord, RefreshIdle
<1>1. CASE UNCHANGED universeVars
  BY <1>1 DEF universeVars, UniverseTypeOK, Demand
<1>2. ASSUME NEW s \in DemandSymbols, DemandChanges(s)
      PROVE  UniverseTypeOK'
  <2>1. /\ UNCHANGED <<beating, refreshing, filter, requested, universeFaults>>
        /\ demandChanges' \in 0..MaxDemandChanges
    BY <1>0, <1>2 DEF DemandChanges, UniverseTypeOK
  <2>2. Demand' \subseteq DemandSymbols
    BY <1>2 DEF DemandChanges, Demand, Toggle, UniverseTypeOK
  <2> QED BY <2>1, <2>2 DEF UniverseTypeOK
<1>3. ASSUME NEW c \in Collectors, Beat(c) \/ BeatLapses(c)
      PROVE  UniverseTypeOK'
  BY <1>0, <1>3 DEF Beat, BeatLapses, UniverseFault, demandVars, UniverseTypeOK, Demand
<1>4. ASSUME NEW c \in Collectors, CollectorRestarts(c)
      PROVE  UniverseTypeOK'
  <2>1. refreshing' \in [Collectors -> [RefreshSlots -> RefreshRecord]]
    BY <1>0, <1>4 DEF CollectorRestarts
  <2> QED BY <1>0, <1>4, <2>1 DEF CollectorRestarts, UniverseFault, demandVars, UniverseTypeOK, Demand,
             RefreshRecord
<1>5. ASSUME NEW c \in Collectors, NEW i \in RefreshSlots, ReadDemand(c, i) \/ ReadFails(c, i)
      PROVE  UniverseTypeOK'
  <2>1. PICK d \in SUBSET DemandSymbols :
          refreshing' = [refreshing EXCEPT ![c][i] = [pc |-> "assign", demand |-> d, target |-> {}]]
    BY <1>5 DEF ReadDemand, ReadFails, Demand, UniverseTypeOK
  <2>2. [pc |-> "assign", demand |-> d, target |-> {}] \in RefreshRecord
    BY DEF RefreshRecord
  <2>3. refreshing' \in [Collectors -> [RefreshSlots -> RefreshRecord]]
    BY <2>1, <2>2, RefreshBecomes
  <2> QED BY <1>0, <1>5, <2>3 DEF ReadDemand, ReadFails, UniverseFault, demandVars, UniverseTypeOK,
             Demand, RefreshRecord
<1>6. ASSUME NEW c \in Collectors, NEW i \in RefreshSlots, AssignSymbols(c, i)
      PROVE  UniverseTypeOK'
  <2>1. PICK members \in {beating \cup {c}, {c}} :
           LET target == Assigned(c, refreshing[c][i].demand, members)
           IN  /\ members # beating \cup {c} => UniverseFault
               /\ members = beating \cup {c} => UNCHANGED universeFaults
               /\ filter' = [filter EXCEPT ![c] = target]
               /\ refreshing' = [refreshing EXCEPT ![c][i].pc = "rebalance", ![c][i].target = target]
    BY <1>6 DEF AssignSymbols
  <2>2. PICK target \in SUBSET DemandSymbols :
           /\ filter' = [filter EXCEPT ![c] = target]
           /\ refreshing' = [refreshing EXCEPT ![c][i].pc = "rebalance", ![c][i].target = target]
    <3>1. refreshing[c][i] \in RefreshRecord
      BY <1>0
    <3>2. refreshing[c][i].demand \subseteq DemandSymbols
      BY <3>1 DEF RefreshRecord
    <3>3. Assigned(c, refreshing[c][i].demand, members) \subseteq DemandSymbols
      BY <3>2 DEF Assigned
    <3> QED BY <2>1, <3>3
  <2>3. refreshing' \in [Collectors -> [RefreshSlots -> RefreshRecord]]
    <3>1. PICK r \in RefreshRecord, q \in RefreshRecord :
             /\ r = [refreshing[c][i] EXCEPT !.pc = "rebalance"]
             /\ q = [r EXCEPT !.target = target]
      <4>1. refreshing[c][i] \in RefreshRecord
        BY <1>0
      <4>2. [refreshing[c][i] EXCEPT !.pc = "rebalance"] \in RefreshRecord
        BY <4>1 DEF RefreshRecord
      <4>3. ASSUME NEW r \in RefreshRecord PROVE [r EXCEPT !.target = target] \in RefreshRecord
        BY DEF RefreshRecord
      <4> QED BY <4>2, <4>3
    <3>2. PICK g \in [RefreshSlots -> RefreshRecord], h \in [RefreshSlots -> RefreshRecord] :
             g = [refreshing[c] EXCEPT ![i] = r] /\ h = [g EXCEPT ![i] = q]
      BY <1>0
    <3>3. refreshing' = [refreshing EXCEPT ![c] = h]
      BY <1>0, <2>2, <3>1, <3>2
    <3> QED BY <1>0, <3>3
  <2>4. universeFaults' \in 0..MaxUniverseFaults
    BY <1>0, <2>1 DEF UniverseFault, UniverseTypeOK
  <2> QED BY <1>6, <2>2, <2>3, <2>4 DEF AssignSymbols, demandVars, UniverseTypeOK, Demand, RefreshRecord
<1>7. ASSUME NEW c \in Collectors, NEW i \in RefreshSlots, Rebalance(c, i) \/ RebalanceFails(c, i)
      PROVE  UniverseTypeOK'
  <2>1. refreshing' \in [Collectors -> [RefreshSlots -> RefreshRecord]]
    BY <1>0, <1>7, RefreshBecomes DEF Rebalance, RebalanceFails
  <2>2. requested' \in [Collectors -> SUBSET DemandSymbols]
    BY <1>0, <1>7 DEF Rebalance, RebalanceFails, UniverseTypeOK, RefreshRecord
  <2> QED BY <1>0, <1>7, <2>1, <2>2 DEF Rebalance, RebalanceFails, UniverseFault, demandVars,
             UniverseTypeOK, Demand, RefreshRecord
<1> QED BY <1>1, <1>2, <1>3, <1>4, <1>5, <1>6, <1>7 DEF UniverseNext

-----------------------------------------------------------------------------
(* WsFanout: no stream exceeds its cap as long as calls do not overlap.       *)

LEMMA LeastOf ==
    ASSUME NEW S \in SUBSET Nat, S # {}
    PROVE  \E n \in S : \A m \in S : n <= m
<1>1. PICK n \in S : \A m \in S : ~(<<m, n>> \in OpToRel(<, Nat))
  BY NatLessThanWellFounded, WFMin
<1>2. ASSUME NEW m \in S PROVE n <= m
  <2>1. ~(m < n)
    BY <1>1 DEF OpToRel
  <2> QED BY <2>1
<1> QED BY <1>2

\* Streams whose load is the least and, among those, whose score is the greatest.
LEMMA OwnerAvailable ==
    ASSUME NEW s \in FanSymbols, NEW loads \in [Credentials -> Nat],
           children \subseteq Credentials, Available(loads) # {}
    PROVE  LeastLoadedOwnerFor(s, loads) \in Available(loads)
<1> DEFINE A == Available(loads)
           Rivals(c) == {d \in A : loads[d] = loads[c] /\ FanScore(s, c) < FanScore(s, d)}
<1>0. /\ A \subseteq Credentials /\ IsFiniteSet(Credentials)
      /\ \A c \in Credentials : FanScore(s, c) \in Nat /\ loads[c] \in Nat
  BY FanoutAssumption DEF Available, FanSymbols
<1>1. \A c \in A : IsFiniteSet(Rivals(c)) /\ Cardinality(Rivals(c)) \in Nat
  <2> TAKE c \in A
  <2>1. Rivals(c) \in SUBSET Credentials
    BY <1>0
  <2> HIDE DEF Rivals
  <2> QED BY <1>0, <2>1, FS_Subset, FS_CardinalityType
<1> HIDE DEF A, Rivals
<1>2. PICK c1 \in A : \A d \in A : loads[c1] <= loads[d]
  <2> DEFINE S == {loads[c] : c \in A}
  <2>1. S \in SUBSET Nat /\ S # {}
    BY <1>0 DEF A
  <2>2. PICK n \in S : \A m \in S : n <= m
    <3> HIDE DEF S
    <3> QED BY <2>1, LeastOf
  <2> QED BY <2>2
<1>3. PICK c2 \in A : /\ loads[c2] = loads[c1]
                      /\ \A d \in A : loads[d] = loads[c1] =>
                            Cardinality(Rivals(c2)) <= Cardinality(Rivals(d))
  <2> DEFINE L == {c \in A : loads[c] = loads[c1]}
             S == {Cardinality(Rivals(c)) : c \in L}
  <2>1. S \in SUBSET Nat /\ S # {}
    BY <1>1
  <2>2. PICK n \in S : \A m \in S : n <= m
    <3> HIDE DEF S
    <3> QED BY <2>1, LeastOf
  <2> QED BY <2>2
<1>4. ASSUME NEW d \in Rivals(c2) PROVE FALSE
  <2>1. /\ d \in A /\ loads[d] = loads[c1] /\ FanScore(s, c2) < FanScore(s, d)
    BY <1>3, <1>4 DEF Rivals
  <2>2. Rivals(d) \in SUBSET Rivals(c2) /\ d \notin Rivals(d)
    BY <1>0, <1>3, <2>1 DEF Rivals
  <2>3. Cardinality(Rivals(c2)) <= Cardinality(Rivals(d))
    BY <1>3, <2>1
  <2>4. /\ Cardinality(Rivals(d)) <= Cardinality(Rivals(c2))
        /\ Cardinality(Rivals(c2)) = Cardinality(Rivals(d)) => Rivals(c2) = Rivals(d)
    BY <1>1, <2>2, FS_Subset
  <2> QED BY <1>1, <1>4, <2>1, <2>2, <2>3, <2>4
<1>5. c2 \in Available(loads)
      /\ \A d \in Available(loads) : \/ loads[c2] < loads[d]
                                     \/ loads[c2] = loads[d] /\ FanScore(s, d) <= FanScore(s, c2)
  <2> SUFFICES ASSUME NEW d \in A
               PROVE  \/ loads[c2] < loads[d]
                      \/ loads[c2] = loads[d] /\ FanScore(s, d) <= FanScore(s, c2)
    BY DEF A
  <2>1. loads[c2] <= loads[d]
    BY <1>2, <1>3
  <2>2. d \notin Rivals(c2)
    BY <1>4
  <2> QED BY <1>0, <1>3, <2>1, <2>2 DEF Rivals
<1> QED BY <1>5 DEF LeastLoadedOwnerFor

-----------------------------------------------------------------------------
\* What the placement is after the symbols up to s.
PlacedSoFar(p, s, symbols, base) ==
    /\ p.loads \in [Credentials -> Nat]
    /\ p.plan \in [Credentials -> SUBSET {t \in symbols : t <= s}]
    /\ \A c \in Credentials :
         /\ p.loads[c] = base[c] + Cardinality(p.plan[c])
         /\ c \in children /\ base[c] <= WsMaxSymbols(c) => p.loads[c] <= WsMaxSymbols(c)
         /\ c \notin children => p.plan[c] = {}
    /\ \A c, d \in Credentials : c # d => p.plan[c] \cap p.plan[d] = {}

LEMMA FanSymbolsFinite ==
    /\ IsFiniteSet(FanSymbols) /\ FanSymbols \subseteq Nat /\ FanSymbols \subseteq 1..SymbolCount
    /\ SymbolCount \in Nat
    /\ \A T \in SUBSET FanSymbols : IsFiniteSet(T) /\ Cardinality(T) \in Nat
<1>1. SymbolCount \in Nat /\ FanSymbols \subseteq 1..SymbolCount
  BY FanoutAssumption DEF FanSymbols
<1>2. IsFiniteSet(1..SymbolCount)
  BY <1>1, FS_Interval
<1>3. ASSUME NEW T \in SUBSET FanSymbols PROVE IsFiniteSet(T) /\ Cardinality(T) \in Nat
  BY <1>1, <1>2, <1>3, FS_Subset, FS_CardinalityType
<1> QED BY <1>1, <1>3

LEMMA PlaceOne ==
    ASSUME NEW symbols \in SUBSET FanSymbols, NEW base \in [Credentials -> Nat], children \subseteq Credentials,
           NEW s \in symbols, NEW p, PlacedSoFar(p, s - 1, symbols, base)
    PROVE  PlacedSoFar(Place(s, p), s, symbols, base)
<1>0. /\ s \in Nat /\ symbols \subseteq Nat /\ base \in [Credentials -> Nat]
      /\ s \in FanSymbols
  BY FanSymbolsFinite
<1>1. /\ p.loads \in [Credentials -> Nat]
      /\ p.plan \in [Credentials -> SUBSET {t \in symbols : t <= s - 1}]
      /\ \A c \in Credentials :
           /\ p.loads[c] = base[c] + Cardinality(p.plan[c])
           /\ c \in children /\ base[c] <= WsMaxSymbols(c) => p.loads[c] <= WsMaxSymbols(c)
           /\ c \notin children => p.plan[c] = {}
      /\ \A c, d \in Credentials : c # d => p.plan[c] \cap p.plan[d] = {}
  BY DEF PlacedSoFar
<1>2. \A c \in Credentials : /\ p.plan[c] \subseteq {t \in symbols : t <= s} /\ s \notin p.plan[c]
                             /\ IsFiniteSet(p.plan[c]) /\ Cardinality(p.plan[c]) \in Nat
                             /\ WsMaxSymbols(c) \in Nat /\ base[c] \in Nat
  <2> SUFFICES ASSUME NEW c \in Credentials
               PROVE  /\ p.plan[c] \subseteq {t \in symbols : t <= s} /\ s \notin p.plan[c]
                      /\ IsFiniteSet(p.plan[c]) /\ Cardinality(p.plan[c]) \in Nat
                      /\ WsMaxSymbols(c) \in Nat /\ base[c] \in Nat
    OBVIOUS
  <2>1. p.plan[c] \in SUBSET {t \in symbols : t <= s - 1}
    BY <1>1
  <2>2. \A t \in p.plan[c] : t \in symbols /\ t <= s - 1 /\ t \in Nat
    BY <1>0, <2>1
  <2>3. p.plan[c] \in SUBSET FanSymbols /\ p.plan[c] \subseteq {t \in symbols : t <= s} /\ s \notin p.plan[c]
    BY <1>0, <2>2
  <2>4. IsFiniteSet(p.plan[c]) /\ Cardinality(p.plan[c]) \in Nat
    BY <2>3, FanSymbolsFinite
  <2>5. WsMaxSymbols(c) \in Nat
    BY FanoutAssumption
  <2>6. base[c] \in Nat
    BY <1>0
  <2> QED BY <2>3, <2>4, <2>5, <2>6
<1>3. CASE Available(p.loads) = {}
  <2>1. Place(s, p) = p
    BY <1>3 DEF Place
  <2>2. p.plan \in [Credentials -> SUBSET {t \in symbols : t <= s}]
    BY <1>1, <1>2
  <2> QED BY <1>1, <2>1, <2>2 DEF PlacedSoFar
<1>4. CASE Available(p.loads) # {}
  <2>1. PICK o : o = LeastLoadedOwnerFor(s, p.loads)
    OBVIOUS
  <2>2. o \in children /\ o \in Credentials /\ p.loads[o] < WsMaxSymbols(o)
    <3>1. o \in Available(p.loads)
      BY <1>0, <1>1, <1>4, <2>1, OwnerAvailable
    <3> QED BY <3>1 DEF Available
  <2>3. PICK loads, plan : /\ Place(s, p) = [loads |-> loads, plan |-> plan]
                           /\ loads = [p.loads EXCEPT ![o] = @ + 1]
                           /\ plan = [p.plan EXCEPT ![o] = @ \cup {s}]
    BY <1>4, <2>1 DEF Place
  <2>4. loads \in [Credentials -> Nat]
    BY <1>1, <2>2, <2>3
  <2>5. plan[o] = p.plan[o] \cup {s} /\ loads[o] = p.loads[o] + 1
        /\ \A c \in Credentials : c # o => plan[c] = p.plan[c] /\ loads[c] = p.loads[c]
    BY <1>1, <2>2, <2>3
  <2>6. plan \in [Credentials -> SUBSET {t \in symbols : t <= s}]
    <3>1. p.plan[o] \cup {s} \in SUBSET {t \in symbols : t <= s}
      BY <1>0, <1>2, <2>2
    <3>2. p.plan \in [Credentials -> SUBSET {t \in symbols : t <= s}]
      BY <1>1, <1>2
    <3> QED BY <2>2, <2>3, <3>1, <3>2
  <2>7. Cardinality(plan[o]) = Cardinality(p.plan[o]) + 1
    <3>1. s \notin p.plan[o] /\ IsFiniteSet(p.plan[o])
      BY <1>2, <2>2
    <3>2. Cardinality(p.plan[o] \cup {s}) = Cardinality(p.plan[o]) + 1
      BY <3>1, FS_AddElement
    <3> QED BY <2>5, <3>2
  <2>8. ASSUME NEW c \in Credentials
        PROVE  /\ loads[c] = base[c] + Cardinality(plan[c])
               /\ c \in children /\ base[c] <= WsMaxSymbols(c) => loads[c] <= WsMaxSymbols(c)
               /\ c \notin children => plan[c] = {}
    <3>1. CASE c = o
      <4>1. p.loads[o] = base[o] + Cardinality(p.plan[o]) /\ p.loads[o] \in Nat
        BY <1>1, <2>2
      <4>2. Cardinality(p.plan[o]) \in Nat /\ base[o] \in Nat /\ WsMaxSymbols(o) \in Nat
        BY <1>2, <2>2
      <4>3. loads[o] = p.loads[o] + 1
        BY <2>5
      <4> QED BY <2>2, <2>7, <3>1, <4>1, <4>2, <4>3
    <3>2. CASE c # o
      BY <1>1, <2>5, <3>2
    <3> QED BY <3>1, <3>2
  <2>9. ASSUME NEW c \in Credentials, NEW d \in Credentials, c # d
        PROVE  plan[c] \cap plan[d] = {}
    BY <1>1, <1>2, <2>5, <2>9
  <2>10. Place(s, p).loads = loads /\ Place(s, p).plan = plan
    BY <2>3
  <2> QED BY <2>4, <2>6, <2>8, <2>9, <2>10 DEF PlacedSoFar
<1> QED BY <1>3, <1>4

\* Placement is the function its recursive definition describes.
LEMMA PlacementIs ==
    ASSUME NEW symbols \in SUBSET FanSymbols, NEW base
    PROVE  LET place == Placement(symbols, base)
           IN  \A s \in 0..SymbolCount :
                 place[s] = IF s = 0 THEN [loads |-> base, plan |-> NoTasks]
                            ELSE IF s \in symbols THEN Place(s, place[s - 1]) ELSE place[s - 1]
<1> DEFINE Body(g, s) == IF s = 0 THEN [loads |-> base, plan |-> NoTasks]
                         ELSE IF s \in symbols THEN Place(s, g[s - 1]) ELSE g[s - 1]
           Upto(n, g) == g = [s \in 0..n |-> Body(g, s)]
           Missing == {n \in Nat : ~\E g : Upto(n, g)}
<1>0. SymbolCount \in Nat
  BY FanoutAssumption
<1>1. ASSUME NEW n \in Missing, \A m \in Missing : n <= m PROVE FALSE
  <2>1. CASE n = 0
    <3> DEFINE g == [s \in 0..0 |-> [loads |-> base, plan |-> NoTasks]]
    <3>1. \A s \in 0..0 : s = 0
      OBVIOUS
    <3>2. Upto(0, g)
      BY <3>1
    <3> HIDE DEF g, Upto
    <3> QED BY <2>1, <3>2
  <2>2. CASE n # 0
    <3>1. n \in Nat /\ n - 1 \in Nat /\ n - 1 \notin Missing
      <4>1. n \in Nat /\ n - 1 \in Nat /\ ~(n <= n - 1)
        BY <2>2
      <4> HIDE DEF Missing
      <4> QED BY <1>1, <4>1
    <3>2. PICK g : Upto(n - 1, g)
      BY <3>1
    <3> DEFINE h == [s \in 0..n |-> IF s < n THEN g[s] ELSE Body(g, n)]
    <3>3. \A s \in 0..n : h[s] = Body(h, s)
      <4> TAKE s \in 0..n
      <4>1. CASE s = 0
        <5>1. g[0] = Body(g, 0)
          BY <3>1, <3>2
        <5> QED BY <3>1, <4>1, <5>1
      <4>2. CASE s # 0 /\ s < n
        <5>1. s \in 0..(n - 1) /\ s - 1 \in 0..n /\ s - 1 < n
          BY <3>1, <4>2
        <5>2. g[s] = Body(g, s)
          BY <3>2, <5>1
        <5>3. h[s] = g[s] /\ h[s - 1] = g[s - 1]
          BY <4>2, <5>1
        <5> HIDE DEF h
        <5> QED BY <4>2, <5>2, <5>3
      <4>3. CASE s = n
        <5>1. s - 1 \in 0..n /\ s - 1 < n /\ s # 0 /\ ~(s < n)
          BY <2>2, <3>1, <4>3
        <5>2. h[s] = Body(g, n) /\ h[s - 1] = g[s - 1]
          BY <4>3, <5>1
        <5> HIDE DEF h
        <5> QED BY <4>3, <5>1, <5>2
      <4> QED BY <3>1, <4>1, <4>2, <4>3
    <3>4. Upto(n, h)
      <4>1. h = [s \in 0..n |-> h[s]]
        OBVIOUS
      <4> HIDE DEF h, Body
      <4> QED BY <3>3, <4>1
    <3> HIDE DEF h, Upto
    <3> QED BY <3>4
  <2> QED BY <2>1, <2>2
<1>2. Missing = {}
  <2>1. Missing \in SUBSET Nat
    OBVIOUS
  <2> HIDE DEF Missing
  <2> QED BY <1>1, <2>1, LeastOf
<1>3. PICK g : Upto(SymbolCount, g)
  BY <1>0, <1>2
<1>4. Upto(SymbolCount, CHOOSE f : Upto(SymbolCount, f))
  <2> HIDE DEF Upto
  <2> QED BY <1>3
<1>5. Placement(symbols, base) = CHOOSE f : Upto(SymbolCount, f)
  BY DEF Placement
<1>6. Upto(SymbolCount, Placement(symbols, base))
  <2> HIDE DEF Upto
  <2> QED BY <1>4, <1>5
<1>7. PICK place : place = Placement(symbols, base) /\ Upto(SymbolCount, place)
  BY <1>6
<1>8. \A s \in 0..SymbolCount : place[s] = Body(place, s)
  BY <1>7
<1> QED BY <1>7, <1>8

\* partition of the fan-out, for any symbols and loads: a stream gets symbols that were
\* asked for, none that another one gets, no more than its cap leaves beside what it
\* keeps, and nothing if it is not there.
THEOREM PartitionFacts ==
    ASSUME NEW symbols \in SUBSET FanSymbols, NEW base \in [Credentials -> Nat], children \subseteq Credentials
    PROVE  LET plan == Partition(symbols, base)
           IN  /\ plan \in [Credentials -> SUBSET symbols]
               /\ \A c \in children : base[c] <= WsMaxSymbols(c) =>
                     base[c] + Cardinality(plan[c]) <= WsMaxSymbols(c)
               /\ \A c \in Credentials \ children : plan[c] = {}
               /\ \A c, d \in Credentials : c # d => plan[c] \cap plan[d] = {}
<1>1. PICK place : /\ place = Placement(symbols, base)
                   /\ \A s \in 0..SymbolCount :
                        place[s] = IF s = 0 THEN [loads |-> base, plan |-> NoTasks]
                            ELSE IF s \in symbols THEN Place(s, place[s - 1]) ELSE place[s - 1]
  BY PlacementIs
<1> DEFINE Wrong == {s \in 0..SymbolCount : ~PlacedSoFar(place[s], s, symbols, base)}
<1>0. /\ SymbolCount \in Nat /\ symbols \subseteq Nat /\ base \in [Credentials -> Nat]
      /\ symbols \subseteq 1..SymbolCount
  BY FanSymbolsFinite
<1>2. 0 \notin Wrong
  <2>1. place[0].loads = base /\ place[0].plan = NoTasks
    BY <1>0, <1>1
  <2>2. \A c \in Credentials : NoTasks[c] = {} /\ Cardinality({}) = 0 /\ base[c] + 0 = base[c]
    BY <1>0, FS_EmptySet DEF NoTasks
  <2>3. NoTasks \in [Credentials -> SUBSET {t \in symbols : t <= 0}]
    BY DEF NoTasks
  <2>4. \A c \in Credentials : base[c] = base[c] + Cardinality(NoTasks[c])
    BY <1>0, <2>2
  <2> QED BY <1>0, <2>1, <2>2, <2>3, <2>4 DEF PlacedSoFar
<1>3. ASSUME NEW s \in Wrong, \A r \in Wrong : s <= r PROVE FALSE
  <2>1. /\ s \in 1..SymbolCount /\ s - 1 \in 0..SymbolCount /\ ~(s <= s - 1)
        /\ place[s] = IF s \in symbols THEN Place(s, place[s - 1]) ELSE place[s - 1]
    BY <1>0, <1>1, <1>2
  <2>2. PlacedSoFar(place[s - 1], s - 1, symbols, base)
    BY <1>3, <2>1
  <2>3. CASE s \in symbols
    <3>1. PlacedSoFar(Place(s, place[s - 1]), s, symbols, base)
      BY <2>2, <2>3, PlaceOne
    <3> QED BY <2>1, <2>3, <3>1
  <2>4. CASE s \notin symbols
    <3>1. place[s] = place[s - 1]
      BY <2>1, <2>4
    <3>2. \A t \in symbols : t <= s - 1 <=> t <= s
      BY <1>0, <2>1, <2>4
    <3> DEFINE Before(n) == {t \in symbols : t <= n}
    <3>3. Before(s - 1) = Before(s)
      BY <3>2
    <3> HIDE DEF Before
    <3>4. PlacedSoFar(place[s - 1], s, symbols, base)
      BY <2>2, <3>3, Zenon DEF PlacedSoFar, Before
    <3> QED BY <3>1, <3>4
  <2> QED BY <2>3, <2>4
<1>4. Wrong = {}
  <2>1. Wrong \in SUBSET Nat
    OBVIOUS
  <2> HIDE DEF Wrong
  <2> QED BY <1>3, <2>1, LeastOf
<1>5. PICK last : last = place[SymbolCount] /\ PlacedSoFar(last, SymbolCount, symbols, base)
  <2>1. SymbolCount \in 0..SymbolCount
    BY <1>0
  <2>2. PlacedSoFar(place[SymbolCount], SymbolCount, symbols, base)
    BY <1>4, <2>1
  <2> QED BY <2>2
<1>6. {t \in symbols : t <= SymbolCount} = symbols
  <2>1. \A t \in symbols : t <= SymbolCount
    BY <1>0
  <2> QED BY <2>1, Zenon
<1>7. PICK plan : plan = last.plan /\ plan = Partition(symbols, base)
  BY <1>1, <1>5 DEF Partition
<1>8. /\ plan \in [Credentials -> SUBSET symbols]
      /\ \A c \in children : base[c] <= WsMaxSymbols(c) =>
                     base[c] + Cardinality(plan[c]) <= WsMaxSymbols(c)
      /\ \A c \in Credentials \ children : plan[c] = {}
      /\ \A c, d \in Credentials : c # d => plan[c] \cap plan[d] = {}
  <2>1. plan \in [Credentials -> SUBSET {t \in symbols : t <= SymbolCount}]
    BY <1>5, <1>7 DEF PlacedSoFar
  <2>2. \A c \in Credentials : /\ last.loads[c] = base[c] + Cardinality(plan[c])
                               /\ c \in children /\ base[c] <= WsMaxSymbols(c) =>
                                    last.loads[c] <= WsMaxSymbols(c)
                               /\ c \notin children => plan[c] = {}
    BY <1>5, <1>7 DEF PlacedSoFar
  <2>3. \A c, d \in Credentials : c # d => plan[c] \cap plan[d] = {}
    BY <1>5, <1>7 DEF PlacedSoFar
  <2> QED BY <1>6, <2>1, <2>2, <2>3
<1> QED BY <1>7, <1>8

-----------------------------------------------------------------------------
FanStage == [kind: {"reconnect", "subscribe", "rebalance"}, symbols: SUBSET FanSymbols]
FanTasks == [Credentials -> SUBSET FanSymbols]
FanCall ==
    [stages: Seq(FanStage), remove: FanTasks, add: FanTasks, left: SUBSET Credentials, failed: BOOLEAN,
     pc: {"idle", "disconnect", "ensure", "joined", "plan", "tasks"}]

\* A reconnect can only come first, and a rebalance spreads chart symbols.
SoundStages(stages) ==
    /\ stages \in Seq(FanStage)
    /\ \A k \in 2..Len(stages) : stages[k].kind # "reconnect"
    /\ \A k \in 1..Len(stages) : stages[k].kind = "rebalance" => stages[k].symbols \subseteq ChartSymbols

SoundCall(call) ==
    call \in FanCall /\ SoundStages(call.stages) /\ (call.pc # "idle" => call.stages # <<>>)

FanShape ==
    /\ FanTypeOK /\ overlapping \in BOOLEAN
    /\ ensure \in [pc: {"idle", "list", "connect"}, todo: SUBSET Credentials]
    /\ calls = [i \in CallSlots |-> calls[i]] /\ \A i \in CallSlots : SoundCall(calls[i])

\* What stream c holds once the call's task on it has run.
After(i, c) ==
    IF calls[i].pc = "tasks" /\ c \in calls[i].left
    THEN (held[c] \ calls[i].remove[c]) \cup calls[i].add[c] ELSE held[c]

\* Where calls do not overlap, one call at most is under way, and it waits for the run
\* of ensureChildren if there is one.
OneAtATime ==
    ~overlapping =>
        /\ \A i, j \in CallSlots : calls[i].pc # "idle" /\ calls[j].pc # "idle" => i = j
        /\ ensure.pc # "idle" => \E i \in CallSlots : calls[i].pc = "joined"

\* The symbols fit the streams, now and after the tasks; no symbol will be on two.
SymbolsFit ==
    ~overlapping =>
        /\ \A c \in Credentials : Cardinality(held[c]) <= WsMaxSymbols(c)
        /\ \A i \in CallSlots, c \in Credentials : Cardinality(After(i, c)) <= WsMaxSymbols(c)
        /\ \A i \in CallSlots : calls[i].pc = "tasks" =>
             \A c, d \in Credentials : c # d => After(i, c) \cap After(i, d) = {}
        /\ (\A i \in CallSlots : calls[i].pc # "tasks") =>
             \A c, d \in Credentials : c # d => held[c] \cap held[d] = {}

FanInv == FanShape /\ OneAtATime /\ SymbolsFit

LEMMA FanTypes ==
    ASSUME FanShape
    PROVE  /\ wanted \subseteq ChartSymbols /\ eligible \subseteq Credentials
           /\ children \subseteq Credentials /\ up \subseteq children /\ held \in FanTasks
           /\ \A c \in Credentials \ children : held[c] = {}
           /\ ChartSymbols \subseteq FanSymbols /\ IndexSymbols \subseteq FanSymbols
           /\ Owned \in SUBSET FanSymbols
<1>1. /\ wanted \subseteq ChartSymbols /\ eligible \subseteq Credentials
      /\ children \subseteq Credentials /\ up \subseteq children /\ held \in FanTasks
      /\ \A c \in Credentials \ children : held[c] = {}
  BY DEF FanShape, FanTypeOK, FanTasks
<1>2. Owned \in SUBSET FanSymbols
  BY <1>1 DEF Owned, FanTasks
<1> QED BY <1>1, <1>2 DEF FanSymbols

LEMMA IdleCall == SoundCall(NoCall) /\ NoCall.pc = "idle"
<1>1. NoTasks \in FanTasks
  BY DEF NoTasks, FanTasks
<1>2. <<>> \in Seq(FanStage) /\ Len(<<>>) = 0
  OBVIOUS
<1>3. NoCall \in FanCall
  BY <1>1, <1>2 DEF NoCall, FanCall
<1>4. NoCall.stages = <<>> /\ NoCall.pc = "idle"
  BY DEF NoCall
<1>5. SoundStages(<<>>)
  BY <1>2 DEF SoundStages
<1> QED BY <1>3, <1>4, <1>5 DEF SoundCall

LEMMA TailSound ==
    ASSUME NEW stages, SoundStages(stages), Len(stages) > 1
    PROVE  SoundStages(Tail(stages)) /\ Tail(stages) # <<>> /\ Tail(stages)[1].kind # "reconnect"
<1>1. stages \in Seq(FanStage) /\ Len(stages) \in Nat
  BY DEF SoundStages
<1>2. PICK rest : rest = Tail(stages)
  OBVIOUS
<1>3. rest \in Seq(FanStage) /\ Len(rest) = Len(stages) - 1 /\ rest # <<>>
  <2>1. Tail(stages) \in Seq(FanStage) /\ Len(Tail(stages)) = Len(stages) - 1
    BY <1>1
  <2>2. Len(<<>>) = 0 /\ Len(Tail(stages)) # 0
    BY <1>1, <2>1
  <2>3. Tail(stages) # <<>>
    BY <2>2
  <2> QED BY <1>2, <2>1, <2>3
<1>4. ASSUME NEW k \in 1..Len(rest)
      PROVE  /\ rest[k].kind # "reconnect"
             /\ rest[k].kind = "rebalance" => rest[k].symbols \subseteq ChartSymbols
  <2>1. k \in 1..(Len(stages) - 1) /\ k + 1 \in 2..Len(stages) /\ k + 1 \in 1..Len(stages)
    BY <1>1, <1>3
  <2>2. rest[k] = stages[k + 1]
    BY <1>1, <1>2, <2>1
  <2> QED BY <2>1, <2>2 DEF SoundStages
<1>5. 1 \in 1..Len(rest) /\ \A k \in 2..Len(rest) : k \in 1..Len(rest)
  BY <1>1, <1>3
<1> QED BY <1>2, <1>3, <1>4, <1>5 DEF SoundStages

\* A call that begins with stages, or goes on with them.
LEMMA StartedCall ==
    ASSUME NEW stages, SoundStages(stages), stages # <<>>,
           stages[1].kind = "reconnect" => Len(stages) > 1
    PROVE  SoundCall(Started(stages)) /\ Started(stages).pc \in {"disconnect", "ensure"}
<1>1. PICK now : now = IF stages[1].kind = "reconnect" /\ children = {} THEN Tail(stages) ELSE stages
  OBVIOUS
<1>2. stages \in Seq(FanStage) /\ Len(stages) \in Nat /\ Len(stages) >= 1
  BY DEF SoundStages
<1>3. SoundStages(now) /\ now # <<>>
  <2>1. CASE now = stages
    BY <2>1
  <2>2. CASE now = Tail(stages) /\ Len(stages) > 1
    BY <2>2, TailSound
  <2> QED BY <1>1, <2>1, <2>2
<1>4. PICK pc \in {"disconnect", "ensure"} : Started(stages) = [NoCall EXCEPT !.stages = now, !.pc = pc]
  BY <1>1 DEF Started
<1>5. NoCall \in FanCall
  BY IdleCall DEF SoundCall
<1>6. /\ Started(stages) \in FanCall /\ Started(stages).stages = now /\ Started(stages).pc = pc
  BY <1>3, <1>4, <1>5 DEF FanCall, SoundStages
<1> QED BY <1>3, <1>6 DEF SoundCall

LEMMA NextStageCall ==
    ASSUME NEW call, SoundCall(call), call.pc # "idle"
    PROVE  SoundCall(NextStage(call)) /\ NextStage(call).pc \in {"idle", "disconnect", "ensure"}
<1>1. CASE call.failed \/ Len(call.stages) = 1
  <2>1. NextStage(call) = NoCall
    BY <1>1 DEF NextStage
  <2> QED BY <2>1, IdleCall
<1>2. CASE ~(call.failed \/ Len(call.stages) = 1)
  <2>1. PICK stages : stages = call.stages
    OBVIOUS
  <2>2. /\ stages \in Seq(FanStage) /\ stages # <<>> /\ SoundStages(stages) /\ Len(stages) # 1
    BY <1>2, <2>1 DEF SoundCall, SoundStages
  <2>3. Len(stages) \in Nat /\ Len(stages) > 1
    BY <2>2
  <2>4. SoundStages(Tail(stages)) /\ Tail(stages) # <<>> /\ Tail(stages)[1].kind # "reconnect"
    BY <2>2, <2>3, TailSound
  <2>5. NextStage(call) = Started(Tail(stages))
    BY <1>2, <2>1 DEF NextStage
  <2> QED BY <2>4, <2>5, StartedCall
<1> QED BY <1>1, <1>2

LEMMA RebalanceAppended ==
    ASSUME NEW stages, SoundStages(stages), stages # <<>>, NEW e \in FanStage,
           e.kind = "rebalance", e.symbols \subseteq ChartSymbols
    PROVE  /\ SoundStages(stages \o <<e>>) /\ Len(stages \o <<e>>) = Len(stages) + 1
           /\ stages \o <<e>> # <<>>
<1>1. PICK all : all = stages \o <<e>>
  OBVIOUS
<1>2. /\ stages \in Seq(FanStage) /\ <<e>> \in Seq(FanStage) /\ Len(<<e>>) = 1 /\ <<e>>[1] = e
      /\ Len(stages) \in Nat
  BY DEF SoundStages
<1>3. /\ all \in Seq(FanStage) /\ Len(all) = Len(stages) + 1
      /\ \A k \in 1..(Len(stages) + 1) : all[k] = IF k <= Len(stages) THEN stages[k]
                                                  ELSE <<e>>[k - Len(stages)]
  BY <1>1, <1>2, ConcatProperties
<1>4. ASSUME NEW k \in 1..Len(all)
      PROVE  /\ k # 1 => all[k].kind # "reconnect"
             /\ all[k].kind = "rebalance" => all[k].symbols \subseteq ChartSymbols
  <2>1. CASE k <= Len(stages)
    BY <1>2, <1>3, <2>1 DEF SoundStages
  <2>2. CASE ~(k <= Len(stages))
    <3>1. k - Len(stages) = 1 /\ all[k] = e
      BY <1>2, <1>3, <2>2
    <3> QED BY <3>1
  <2> QED BY <2>1, <2>2
<1>5. \A k \in 2..Len(all) : k \in 1..Len(all) /\ k # 1
  BY <1>2, <1>3
<1>6. all # <<>>
  <2>1. Len(<<>>) = 0 /\ Len(all) # 0
    BY <1>2, <1>3
  <2> QED BY <2>1
<1> QED BY <1>1, <1>3, <1>4, <1>5, <1>6 DEF SoundStages

LEMMA ReconnectSound ==
    ASSUME FanShape
    PROVE  /\ SoundStages(ReconnectStages) /\ Len(ReconnectStages) > 1 /\ ReconnectStages # <<>>
           /\ SoundStages(ReconnectStages \o <<Stage("rebalance", wanted)>>)
           /\ Len(ReconnectStages \o <<Stage("rebalance", wanted)>>) > 1
           /\ ReconnectStages \o <<Stage("rebalance", wanted)>> # <<>>
           /\ <<Stage("rebalance", wanted)>> # <<>>
           /\ SoundStages(<<Stage("rebalance", wanted)>>)
           /\ <<Stage("rebalance", wanted)>>[1].kind # "reconnect"
<1>1. PICK chart, index : /\ chart = Owned \ IndexSymbols
                          /\ index = (IF Owned \cap IndexSymbols = {} THEN IndexSymbols
                                      ELSE Owned \cap IndexSymbols)
  OBVIOUS
<1>2. index \in SUBSET FanSymbols /\ chart \in SUBSET ChartSymbols /\ chart \in SUBSET FanSymbols
      /\ wanted \in SUBSET ChartSymbols /\ wanted \in SUBSET FanSymbols
  BY <1>1, FanTypes DEF FanSymbols
<1>3. PICK s1, s2, s3, s4 : /\ s1 = Stage("reconnect", {}) /\ s2 = Stage("subscribe", index)
                            /\ s3 = Stage("rebalance", chart) /\ s4 = Stage("rebalance", wanted)
  OBVIOUS
<1>4. /\ s1 \in FanStage /\ s1.kind = "reconnect" /\ s2 \in FanStage /\ s2.kind = "subscribe"
      /\ s3 \in FanStage /\ s3.symbols = chart /\ s3.kind = "rebalance"
      /\ s4 \in FanStage /\ s4.symbols = wanted /\ s4.kind = "rebalance"
  <2>1. \A kind \in {"reconnect", "subscribe", "rebalance"}, s \in SUBSET FanSymbols :
          /\ Stage(kind, s) \in FanStage /\ Stage(kind, s).kind = kind
          /\ Stage(kind, s).symbols = s
    BY DEF Stage, FanStage
  <2> QED BY <1>2, <1>3, <2>1
<1>5. SoundStages(<<s1, s2>>) /\ Len(<<s1, s2>>) = 2 /\ <<s1, s2>> # <<>> /\ <<s1, s2>> \o <<>> = <<s1, s2>>
  BY <1>4 DEF SoundStages
<1>6. /\ SoundStages(<<s1, s2>> \o <<s3>>) /\ Len(<<s1, s2>> \o <<s3>>) = 2 + 1
      /\ <<s1, s2>> \o <<s3>> # <<>>
  BY <1>2, <1>4, <1>5, RebalanceAppended
<1>7. PICK all : all = ReconnectStages
  OBVIOUS
<1>8. SoundStages(all) /\ Len(all) \in Nat /\ Len(all) > 1 /\ all # <<>>
  <2>1. all = <<s1, s2>> \o <<>> \/ all = <<s1, s2>> \o <<s3>>
    BY <1>1, <1>3, <1>7 DEF ReconnectStages
  <2>2. CASE all = <<s1, s2>> \o <<>>
    BY <1>5, <2>2
  <2>3. CASE all = <<s1, s2>> \o <<s3>>
    <3> HIDE DEF Stage
    <3>1. SoundStages(all) /\ Len(all) = 2 + 1 /\ all # <<>>
      BY <1>6, <2>3, Zenon
    <3> QED BY <3>1
  <2> QED BY <2>1, <2>2, <2>3
<1>9. SoundStages(all \o <<s4>>) /\ Len(all \o <<s4>>) = Len(all) + 1
  BY <1>2, <1>4, <1>8, RebalanceAppended
<1>10. SoundStages(<<s4>>) /\ <<s4>>[1].kind # "reconnect" /\ <<s4>> # <<>>
  BY <1>2, <1>4 DEF SoundStages
<1>11. Len(all \o <<s4>>) > 1 /\ all \o <<s4>> # <<>>
  <2>1. Len(all \o <<s4>>) > 1 /\ Len(<<>>) = 0
    BY <1>8, <1>9
  <2> QED BY <2>1
<1> QED BY <1>3, <1>7, <1>8, <1>9, <1>10, <1>11

-----------------------------------------------------------------------------
LEMMA CallTyped ==
    ASSUME FanShape, NEW i \in CallSlots
    PROVE  /\ SoundCall(calls[i]) /\ calls[i].stages \in Seq(FanStage)
           /\ calls[i].remove \in FanTasks /\ calls[i].add \in FanTasks
           /\ calls[i].left \in SUBSET Credentials /\ calls[i].failed \in BOOLEAN
BY DEF FanShape, SoundCall, FanCall

\* A call that goes on with the stage it is in.
LEMMA CallGoesOn ==
    ASSUME NEW call, SoundCall(call), call.pc # "idle", NEW new \in FanCall,
           new.stages = call.stages
    PROVE  SoundCall(new)
BY DEF SoundCall

LEMMA WithoutFacts ==
    ASSUME FanShape, NEW cs
    PROVE  \A i \in CallSlots :
             LET call == Without(cs)[i]
             IN  /\ SoundCall(call) /\ call.pc = calls[i].pc /\ call.stages = calls[i].stages
                 /\ call.left = calls[i].left \ cs
                 /\ call.remove = calls[i].remove /\ call.add = calls[i].add
<1> SUFFICES ASSUME NEW i \in CallSlots
             PROVE  LET call == Without(cs)[i]
                    IN  /\ SoundCall(call) /\ call.pc = calls[i].pc /\ call.stages = calls[i].stages
                        /\ call.left = calls[i].left \ cs
                        /\ call.remove = calls[i].remove /\ call.add = calls[i].add
  OBVIOUS
<1>1. PICK failed \in BOOLEAN :
        Without(cs)[i] = [calls[i] EXCEPT !.left = calls[i].left \ cs, !.failed = failed]
  <2>1. (calls[i].failed \/ \E c \in cs \cap calls[i].left : calls[i].add[c] # {}) \in BOOLEAN
    OBVIOUS
  <2> QED BY <2>1 DEF Without
<1>2. PICK call : call = Without(cs)[i]
  OBVIOUS
<1>3. calls[i] \in FanCall /\ calls[i].left \ cs \in SUBSET Credentials
  BY CallTyped DEF SoundCall
<1>4. /\ call \in FanCall /\ call.pc = calls[i].pc /\ call.stages = calls[i].stages
      /\ call.left = calls[i].left \ cs /\ call.remove = calls[i].remove /\ call.add = calls[i].add
  BY <1>1, <1>2, <1>3 DEF FanCall
<1>5. SoundCall(call)
  BY <1>4, CallTyped DEF SoundCall
<1> QED BY <1>2, <1>4, <1>5

\* Only call i changes.
LEMMA OneCall ==
    ASSUME FanShape, NEW i \in CallSlots, NEW call, SoundCall(call), calls' = [calls EXCEPT ![i] = call]
    PROVE  /\ calls' = [j \in CallSlots |-> calls'[j]] /\ \A j \in CallSlots : SoundCall(calls'[j])
           /\ calls'[i] = call /\ \A j \in CallSlots \ {i} : calls'[j] = calls[j]
BY DEF FanShape

\* The caps and the distribution stay where neither the tasks nor what is held changes.
LEMMA FitSame ==
    ASSUME SymbolsFit, held' = held, overlapping' = overlapping,
           \A j \in CallSlots : \/ calls'[j] = calls[j]
                                \/ calls[j].pc # "tasks" /\ calls'[j].pc # "tasks"
    PROVE  SymbolsFit'
<1>1. \A j \in CallSlots : (calls'[j].pc = "tasks" <=> calls[j].pc = "tasks")
  OBVIOUS
<1>2. \A j \in CallSlots, c \in Credentials : After(j, c)' = After(j, c)
  BY DEF After
<1> QED BY <1>1, <1>2 DEF SymbolsFit

\* They stay where streams only lose symbols and no call has tasks.
LEMMA FitShrinks ==
    ASSUME FanShape, SymbolsFit, overlapping' = overlapping,
           \A c \in Credentials : held'[c] \subseteq held[c],
           ~overlapping => \A j \in CallSlots : calls[j].pc # "tasks" /\ calls'[j].pc # "tasks"
    PROVE  SymbolsFit'
<1> SUFFICES ASSUME ~overlapping PROVE SymbolsFit'
  BY DEF SymbolsFit
<1>1. \A j \in CallSlots, c \in Credentials : After(j, c)' = held'[c] /\ calls[j].pc # "tasks"
  BY DEF After
<1>2. ASSUME NEW c \in Credentials
      PROVE  Cardinality(held'[c]) <= WsMaxSymbols(c)
  <2>1. /\ held[c] \in SUBSET FanSymbols /\ held'[c] \in SUBSET FanSymbols
        /\ held'[c] \in SUBSET held[c]
    BY FanTypes DEF FanTasks
  <2>2. IsFiniteSet(held[c]) /\ Cardinality(held[c]) \in Nat /\ Cardinality(held'[c]) \in Nat
    BY <2>1, FanSymbolsFinite
  <2>3. Cardinality(held'[c]) <= Cardinality(held[c])
    BY <2>1, <2>2, FS_Subset
  <2>4. Cardinality(held[c]) <= WsMaxSymbols(c) /\ WsMaxSymbols(c) \in Nat
    BY FanoutAssumption DEF SymbolsFit
  <2> QED BY <2>2, <2>3, <2>4
<1>3. \A c, d \in Credentials : c # d => held'[c] \cap held'[d] = {}
  BY <1>1 DEF SymbolsFit
<1> QED BY <1>1, <1>2, <1>3 DEF SymbolsFit

\* One call at a time stays where no call begins and none stops waiting.
LEMMA AloneStays ==
    ASSUME OneAtATime, overlapping' = overlapping,
           \A j \in CallSlots : calls'[j].pc # "idle" => calls[j].pc # "idle",
           ensure'.pc # "idle" =>
              /\ ensure.pc # "idle"
              /\ \A j \in CallSlots : calls[j].pc = "joined" => calls'[j].pc = "joined"
    PROVE  OneAtATime'
BY DEF OneAtATime

LEMMA NoTasksWhileEnsuring ==
    ASSUME OneAtATime, ~overlapping, ensure.pc # "idle", NEW j \in CallSlots
    PROVE  calls[j].pc # "tasks"
BY DEF OneAtATime

EnsureRun == [pc: {"idle", "list", "connect"}, todo: SUBSET Credentials]

\* What there is to show of the types after a step.
LEMMA ShapeKept ==
    ASSUME FanShape, overlapping' = overlapping, wanted' \subseteq ChartSymbols,
           eligible' \subseteq Credentials, children' \subseteq Credentials, up' \subseteq children',
           held' \in FanTasks, \A c \in Credentials \ children' : held'[c] = {},
           backoff' \subseteq Credentials, ensure' \in EnsureRun,
           calls' = [j \in CallSlots |-> calls'[j]], \A j \in CallSlots : SoundCall(calls'[j])
    PROVE  FanShape'
<1>1. \A j \in CallSlots : calls'[j].pc \in {"idle", "disconnect", "ensure", "joined", "plan", "tasks"}
  BY DEF SoundCall, FanCall
<1>2. ensure'.pc \in {"idle", "list", "connect"} /\ ensure'.todo \subseteq Credentials
  BY DEF EnsureRun
<1> QED BY <1>1, <1>2 DEF FanShape, FanTypeOK, FanTasks, EnsureRun

\* A step that only sets call i.
LEMMA CallShapeKept ==
    ASSUME FanShape, UNCHANGED <<wanted, eligible, children, held, up, backoff, overlapping>>,
           ensure' \in EnsureRun, NEW i \in CallSlots, NEW call, SoundCall(call),
           calls' = [calls EXCEPT ![i] = call]
    PROVE  FanShape'
<1>1. /\ calls' = [j \in CallSlots |-> calls'[j]] /\ \A j \in CallSlots : SoundCall(calls'[j])
  BY OneCall
<1>2. backoff \subseteq Credentials
  BY DEF FanShape, FanTypeOK
<1> QED BY <1>1, <1>2, FanTypes, ShapeKept

LEMMA FanInitInv == FanInit => FanInv
<1> SUFFICES ASSUME FanInit PROVE FanInv
  OBVIOUS
<1>1. \A i \in CallSlots : calls[i] = NoCall
  BY DEF FanInit
<1>2. NoTasks \in FanTasks /\ \A c \in Credentials : NoTasks[c] = {}
  BY DEF NoTasks, FanTasks
<1>3. FanShape
  <2>1. EnsureIdle \in EnsureRun /\ EnsureIdle.pc = "idle" /\ EnsureIdle.todo = {}
    BY DEF EnsureIdle, EnsureRun
  <2>2. FanTypeOK
    BY <1>1, <1>2, <2>1, IdleCall DEF FanInit, FanTypeOK, FanTasks
  <2>3. \A i \in CallSlots : SoundCall(calls[i])
    BY <1>1, IdleCall
  <2> QED BY <2>1, <2>2, <2>3 DEF FanShape, FanInit, EnsureRun
<1>4. OneAtATime
  BY <1>1, IdleCall DEF OneAtATime, FanInit, EnsureIdle
<1>5. SymbolsFit
  <2>1. \A c \in Credentials : held[c] = {} /\ Cardinality({}) = 0 /\ WsMaxSymbols(c) \in Nat
    BY <1>2, FS_EmptySet, FanoutAssumption DEF FanInit
  <2>2. \A c \in Credentials : Cardinality(held[c]) <= WsMaxSymbols(c)
    BY <2>1
  <2>3. \A i \in CallSlots, c \in Credentials : After(i, c) = held[c] /\ calls[i].pc # "tasks"
    BY <1>1, IdleCall DEF After
  <2> QED BY <2>1, <2>2, <2>3 DEF SymbolsFit
<1> QED BY <1>3, <1>4, <1>5 DEF FanInv

\* A call begins.
LEMMA CallBegins ==
    ASSUME FanInv, NEW i \in CallSlots, MayStart(i), NEW stages, SoundStages(stages), stages # <<>>,
           stages[1].kind = "reconnect" => Len(stages) > 1,
           calls' = [calls EXCEPT ![i] = Started(stages)],
           UNCHANGED <<wanted, eligible, children, held, up, backoff, ensure, overlapping>>
    PROVE  FanInv'
<1>1. PICK call : call = Started(stages) /\ SoundCall(call) /\ call.pc \in {"disconnect", "ensure"}
  BY StartedCall
<1>2. FanShape' /\ calls'[i] = call /\ \A j \in CallSlots \ {i} : calls'[j] = calls[j]
  <2>1. ensure' \in EnsureRun
    BY DEF FanInv, FanShape, EnsureRun
  <2> QED BY <1>1, <2>1, CallShapeKept, OneCall DEF FanInv
<1>3. SymbolsFit'
  <2>1. \A j \in CallSlots : \/ calls'[j] = calls[j]
                             \/ calls[j].pc # "tasks" /\ calls'[j].pc # "tasks"
    BY <1>1, <1>2 DEF MayStart
  <2> QED BY <2>1, FitSame DEF FanInv
<1>4. OneAtATime'
  <2> SUFFICES ASSUME ~overlapping PROVE OneAtATime'
    BY DEF OneAtATime
  <2>1. \A j \in CallSlots : calls[j].pc = "idle"
    BY DEF MayStart
  <2>2. ensure'.pc = "idle"
    BY <2>1 DEF FanInv, OneAtATime
  <2> QED BY <1>2, <2>1, <2>2 DEF OneAtATime
<1> QED BY <1>2, <1>3, <1>4 DEF FanInv

LEMMA RefreshInv ==
    ASSUME FanInv, NEW i \in CallSlots, Refresh(i) \/ AdminReconnect(i)
    PROVE  FanInv'
<1>0. FanShape
  BY DEF FanInv
<1>1. PICK stages : /\ SoundStages(stages) /\ stages # <<>>
                    /\ stages[1].kind = "reconnect" => Len(stages) > 1
                    /\ calls' = [calls EXCEPT ![i] = Started(stages)]
  <2>1. CASE Refresh(i) /\ up = {}
    <3>1. calls' = [calls EXCEPT ![i] = Started(ReconnectStages \o <<Stage("rebalance", wanted)>>)]
      BY <2>1 DEF Refresh
    <3> QED BY <1>0, <3>1, ReconnectSound
  <2>2. CASE Refresh(i) /\ up # {}
    <3>1. calls' = [calls EXCEPT ![i] = Started(<<>> \o <<Stage("rebalance", wanted)>>)]
      BY <2>2 DEF Refresh
    <3>2. <<>> \o <<Stage("rebalance", wanted)>> = <<Stage("rebalance", wanted)>>
      OBVIOUS
    <3> QED BY <1>0, <3>1, <3>2, ReconnectSound
  <2>3. CASE AdminReconnect(i)
    BY <1>0, <2>3, ReconnectSound DEF AdminReconnect
  <2> QED BY <2>1, <2>2, <2>3
<1>2. MayStart(i) /\ UNCHANGED <<wanted, eligible, children, held, up, backoff, ensure, overlapping>>
  BY DEF Refresh, AdminReconnect, fanBounds
<1> QED BY <1>1, <1>2, CallBegins

\* Steps that touch neither the calls nor what is held.
LEMMA CallsAside ==
    ASSUME FanInv, UNCHANGED <<calls, held, overlapping>>, wanted' \subseteq ChartSymbols,
           eligible' \subseteq Credentials, children \subseteq children', children' \subseteq Credentials,
           up' \subseteq children', backoff' \subseteq Credentials, ensure' \in EnsureRun,
           ensure.pc = "idle" => ensure'.pc = "idle"
    PROVE  FanInv'
<1>1. FanShape'
  <2>1. held' \in FanTasks /\ \A c \in Credentials \ children' : held'[c] = {}
    BY FanTypes DEF FanInv
  <2>2. calls' = [j \in CallSlots |-> calls'[j]] /\ \A j \in CallSlots : SoundCall(calls'[j])
    BY DEF FanInv, FanShape
  <2> QED BY <2>1, <2>2, ShapeKept DEF FanInv
<1>2. SymbolsFit'
  BY FitSame DEF FanInv
<1>3. OneAtATime'
  BY AloneStays DEF FanInv
<1> QED BY <1>1, <1>2, <1>3 DEF FanInv

LEMMA OutsideInv ==
    ASSUME FanInv,
           \/ WantedChanges
           \/ \E c \in Credentials : BackoffEnds(c) \/ ChildDown(c) \/ ChildUp(c)
                \/ CredentialLimited(c) \/ CredentialRecovers(c)
    PROVE  FanInv'
<1>1. /\ wanted \subseteq ChartSymbols /\ eligible \subseteq Credentials /\ children \subseteq Credentials
      /\ up \subseteq children /\ backoff \subseteq Credentials /\ ensure \in EnsureRun
  BY DEF FanInv, FanShape, FanTypeOK, EnsureRun
<1>2. /\ UNCHANGED <<calls, held, overlapping, ensure, children>>
      /\ wanted' \subseteq ChartSymbols /\ eligible' \subseteq Credentials
      /\ up' \subseteq children' /\ backoff' \subseteq Credentials
  <2>1. CASE WantedChanges
    BY <1>1, <2>1 DEF WantedChanges
  <2>2. ASSUME NEW c \in Credentials, BackoffEnds(c)
        PROVE  /\ UNCHANGED <<calls, held, overlapping, ensure, children>>
               /\ wanted' \subseteq ChartSymbols /\ eligible' \subseteq Credentials
               /\ up' \subseteq children' /\ backoff' \subseteq Credentials
    BY <1>1, <2>2 DEF BackoffEnds, fanBounds
  <2>3. ASSUME NEW c \in Credentials, ChildDown(c) \/ ChildUp(c)
        PROVE  /\ UNCHANGED <<calls, held, overlapping, ensure, children>>
               /\ wanted' \subseteq ChartSymbols /\ eligible' \subseteq Credentials
               /\ up' \subseteq children' /\ backoff' \subseteq Credentials
    BY <1>1, <2>3 DEF ChildDown, ChildUp, fanBounds
  <2>4. ASSUME NEW c \in Credentials, CredentialLimited(c) \/ CredentialRecovers(c)
        PROVE  /\ UNCHANGED <<calls, held, overlapping, ensure, children>>
               /\ wanted' \subseteq ChartSymbols /\ eligible' \subseteq Credentials
               /\ up' \subseteq children' /\ backoff' \subseteq Credentials
    BY <1>1, <2>4 DEF CredentialLimited, CredentialRecovers, fanBounds
  <2> QED BY <2>1, <2>2, <2>3, <2>4
<1> QED BY <1>1, <1>2, CallsAside

LEMMA ConnectInv ==
    ASSUME FanInv, NEW c \in Credentials, ConnectChild(c) \/ ConnectChildFails(c)
    PROVE  FanInv'
<1>1. /\ wanted \subseteq ChartSymbols /\ eligible \subseteq Credentials /\ children \subseteq Credentials
      /\ up \subseteq children /\ backoff \subseteq Credentials /\ ensure \in EnsureRun
      /\ held \in FanTasks /\ \A d \in Credentials \ children : held[d] = {}
  BY DEF FanInv, FanShape, FanTypeOK, EnsureRun, FanTasks
<1>2. ensure' \in EnsureRun /\ ensure.pc = "connect"
  <2>1. ensure' = [ensure EXCEPT !.todo = ensure.todo \ {c}] /\ ensure.pc = "connect"
    BY DEF ConnectChild, ConnectChildFails
  <2> QED BY <1>1, <2>1 DEF EnsureRun
<1>3. /\ UNCHANGED <<calls, overlapping, wanted, eligible>> /\ backoff' \subseteq Credentials
  BY <1>1 DEF ConnectChild, ConnectChildFails, fanBounds
<1>4. held' = held /\ children \subseteq children' /\ children' \subseteq Credentials /\ up' \subseteq children'
  <2>1. CASE UNCHANGED <<children, held, up>>
    BY <1>1, <2>1
  <2>2. CASE /\ c \notin children /\ children' = children \cup {c} /\ up' = up \cup {c}
             /\ held' = [held EXCEPT ![c] = {}]
    <3>1. held' = held
      BY <1>1, <2>2 DEF FanTasks
    <3> QED BY <1>1, <2>2, <3>1
  <2> QED BY <2>1, <2>2 DEF ConnectChild, ConnectChildFails
<1> QED BY <1>1, <1>2, <1>3, <1>4, CallsAside

LEMMA ClearInv ==
    ASSUME FanInv, NEW i \in CallSlots, ClearChildren(i)
    PROVE  FanInv'
<1>0. /\ FanShape /\ calls[i].pc = "disconnect" /\ SoundCall(calls[i])
      /\ children' = {} /\ held' = NoTasks /\ up' = {}
      /\ UNCHANGED <<wanted, eligible, backoff, ensure, overlapping>>
      /\ calls' = [Without(children) EXCEPT ![i] = NextStage(calls[i])]
  BY CallTyped DEF FanInv, ClearChildren, fanBounds
<1>1. PICK call : /\ call = NextStage(calls[i]) /\ SoundCall(call)
                  /\ call.pc \in {"idle", "disconnect", "ensure"}
  BY <1>0, NextStageCall
<1>2. PICK rest : /\ rest = Without(children) /\ rest = [j \in CallSlots |-> rest[j]]
                  /\ \A j \in CallSlots : SoundCall(rest[j]) /\ rest[j].pc = calls[j].pc
  <2>1. Without(children) = [j \in CallSlots |-> Without(children)[j]]
    BY DEF Without
  <2>2. \A j \in CallSlots : SoundCall(Without(children)[j]) /\ Without(children)[j].pc = calls[j].pc
    BY <1>0, WithoutFacts
  <2> QED BY <2>1, <2>2
<1>3. /\ calls' = [j \in CallSlots |-> calls'[j]] /\ calls'[i] = call
      /\ \A j \in CallSlots \ {i} : calls'[j] = rest[j]
  BY <1>0, <1>1, <1>2
<1>4. NoTasks \in FanTasks /\ \A c \in Credentials : NoTasks[c] = {}
  BY DEF NoTasks, FanTasks
<1>5. FanShape'
  <2>1. \A j \in CallSlots : SoundCall(calls'[j])
    BY <1>1, <1>2, <1>3
  <2>2. backoff \subseteq Credentials /\ ensure \in EnsureRun
    BY <1>0 DEF FanShape, FanTypeOK, EnsureRun
  <2> QED BY <1>0, <1>3, <1>4, <2>1, <2>2, FanTypes, ShapeKept
<1>6. \A j \in CallSlots : /\ calls'[j].pc # "idle" => calls[j].pc # "idle"
                           /\ calls[j].pc = "joined" => calls'[j].pc = "joined"
                           /\ calls'[j].pc = "tasks" => calls[j].pc = "tasks"
  BY <1>0, <1>1, <1>2, <1>3
<1>7. OneAtATime'
  BY <1>0, <1>6, AloneStays DEF FanInv
<1>8. SymbolsFit'
  <2>1. ~overlapping => \A j \in CallSlots : calls[j].pc # "tasks" /\ calls'[j].pc # "tasks"
    BY <1>0, <1>6 DEF FanInv, OneAtATime
  <2>2. \A c \in Credentials : held'[c] \subseteq held[c]
    BY <1>0, <1>4
  <2> QED BY <1>0, <2>1, <2>2, FitShrinks DEF FanInv
<1> QED BY <1>5, <1>7, <1>8 DEF FanInv

LEMMA JoinInv ==
    ASSUME FanInv, NEW i \in CallSlots, JoinEnsure(i)
    PROVE  FanInv'
<1>0. /\ FanShape /\ calls[i].pc = "ensure" /\ SoundCall(calls[i])
      /\ UNCHANGED <<wanted, eligible, children, held, up, backoff, overlapping>>
      /\ calls' = [calls EXCEPT ![i].pc = "joined"]
      /\ ensure' = IF ensure.pc = "idle" THEN [pc |-> "list", todo |-> {}] ELSE ensure
  BY CallTyped DEF FanInv, JoinEnsure, fanBounds
<1>1. PICK call : /\ call = [calls[i] EXCEPT !.pc = "joined"] /\ SoundCall(call) /\ call.pc = "joined"
                  /\ calls' = [calls EXCEPT ![i] = call]
  <2>1. PICK call : call = [calls[i] EXCEPT !.pc = "joined"]
    OBVIOUS
  <2>2. call \in FanCall /\ call.pc = "joined" /\ call.stages = calls[i].stages
    BY <1>0, <2>1 DEF SoundCall, FanCall
  <2>3. SoundCall(call)
    BY <1>0, <2>2 DEF SoundCall
  <2> QED BY <1>0, <2>1, <2>2, <2>3
<1>2. calls'[i] = call /\ \A j \in CallSlots \ {i} : calls'[j] = calls[j]
  BY <1>0, <1>1, OneCall
<1>3. FanShape'
  <2>1. ensure' \in EnsureRun
    BY <1>0 DEF FanShape, EnsureRun
  <2> QED BY <1>0, <1>1, <2>1, CallShapeKept
<1>4. SymbolsFit'
  BY <1>0, <1>1, <1>2, FitSame DEF FanInv
<1>5. OneAtATime'
  BY <1>0, <1>1, <1>2 DEF FanInv, OneAtATime
<1> QED BY <1>3, <1>4, <1>5 DEF FanInv

LEMMA ListInv ==
    ASSUME FanInv, ListCredentials
    PROVE  FanInv'
<1>0. /\ FanShape /\ ensure.pc = "list" /\ ensure' = [pc |-> "connect", todo |-> eligible]
      /\ children' = children \cap eligible /\ up' = up \cap eligible
      /\ held' = [c \in Credentials |-> IF c \in eligible THEN held[c] ELSE {}]
      /\ calls' = Without(children \ eligible)
      /\ UNCHANGED <<wanted, eligible, backoff, overlapping>>
  BY DEF FanInv, ListCredentials, fanBounds
<1>1. /\ calls' = [j \in CallSlots |-> calls'[j]]
      /\ \A j \in CallSlots : SoundCall(calls'[j]) /\ calls'[j].pc = calls[j].pc
  <2>1. calls' = [j \in CallSlots |-> calls'[j]]
    BY <1>0 DEF Without
  <2> QED BY <1>0, <2>1, WithoutFacts
<1>2. FanShape'
  <2>1. held' \in FanTasks /\ \A c \in Credentials \ children' : held'[c] = {}
    BY <1>0, FanTypes DEF FanTasks
  <2>2. ensure' \in EnsureRun /\ backoff \subseteq Credentials
    BY <1>0, FanTypes DEF EnsureRun, FanShape, FanTypeOK
  <2> QED BY <1>0, <1>1, <2>1, <2>2, FanTypes, ShapeKept
<1>3. OneAtATime'
  BY <1>0, <1>1, AloneStays DEF FanInv
<1>4. SymbolsFit'
  <2>1. ~overlapping => \A j \in CallSlots : calls[j].pc # "tasks" /\ calls'[j].pc # "tasks"
    BY <1>0, <1>1, NoTasksWhileEnsuring DEF FanInv
  <2>2. \A c \in Credentials : held'[c] \subseteq held[c]
    BY <1>0
  <2> QED BY <1>0, <2>1, <2>2, FitShrinks DEF FanInv
<1> QED BY <1>2, <1>3, <1>4 DEF FanInv

LEMMA SettleInv ==
    ASSUME FanInv, EnsureSettles
    PROVE  FanInv'
<1>0. /\ FanShape /\ ensure' = EnsureIdle
      /\ UNCHANGED <<wanted, eligible, children, held, up, backoff, overlapping>>
      /\ calls' = [i \in CallSlots |->
            IF calls[i].pc # "joined" THEN calls[i]
            ELSE IF children = {} THEN NoCall ELSE [calls[i] EXCEPT !.pc = "plan"]]
  BY DEF FanInv, EnsureSettles, fanBounds
<1>1. ASSUME NEW j \in CallSlots
      PROVE  /\ SoundCall(calls'[j]) /\ (calls'[j].pc # "idle" => calls[j].pc # "idle")
             /\ calls'[j] = calls[j] \/ (calls[j].pc # "tasks" /\ calls'[j].pc # "tasks")
  <2>1. CASE calls[j].pc # "joined"
    BY <1>0, <2>1, CallTyped
  <2>2. CASE calls[j].pc = "joined" /\ children = {}
    BY <1>0, <2>2, IdleCall
  <2>3. CASE calls[j].pc = "joined" /\ children # {}
    <3>1. PICK call : call = [calls[j] EXCEPT !.pc = "plan"] /\ call = calls'[j]
      BY <1>0, <2>3
    <3>2. SoundCall(calls[j])
      BY <1>0, CallTyped
    <3>3. call \in FanCall /\ call.pc = "plan" /\ call.stages = calls[j].stages
      BY <3>1, <3>2 DEF SoundCall, FanCall
    <3>4. SoundCall(call)
      BY <2>3, <3>2, <3>3 DEF SoundCall
    <3> QED BY <2>3, <3>1, <3>3, <3>4
  <2> QED BY <2>1, <2>2, <2>3
<1>2. calls' = [j \in CallSlots |-> calls'[j]]
  BY <1>0
<1>3. ensure' \in EnsureRun /\ ensure'.pc = "idle"
  BY <1>0 DEF EnsureIdle, EnsureRun
<1>4. FanShape'
  <2>1. backoff \subseteq Credentials
    BY <1>0 DEF FanShape, FanTypeOK
  <2> QED BY <1>0, <1>1, <1>2, <1>3, <2>1, FanTypes, ShapeKept
<1>5. OneAtATime'
  BY <1>0, <1>1, <1>3, AloneStays DEF FanInv
<1>6. SymbolsFit'
  BY <1>0, <1>1, FitSame DEF FanInv
<1> QED BY <1>4, <1>5, <1>6 DEF FanInv

LEMMA LoadsTyped ==
    ASSUME FanShape, NEW kept \in SUBSET FanSymbols
    PROVE  /\ Loads(kept) \in [Credentials -> Nat]
           /\ \A c \in Credentials :
                /\ Loads(kept)[c] = Cardinality(held[c] \cap kept) /\ Loads(kept)[c] \in Nat
                /\ Cardinality(held[c] \cap kept) <= Cardinality(held[c])
                /\ Cardinality(held[c]) \in Nat /\ held[c] \cap kept \in SUBSET FanSymbols
<1>1. ASSUME NEW c \in Credentials
      PROVE  /\ Cardinality(held[c] \cap kept) \in Nat
             /\ Cardinality(held[c] \cap kept) <= Cardinality(held[c])
             /\ Cardinality(held[c]) \in Nat /\ held[c] \cap kept \in SUBSET FanSymbols
  <2>1. held[c] \in SUBSET FanSymbols /\ held[c] \cap kept \in SUBSET FanSymbols
        /\ held[c] \cap kept \in SUBSET held[c]
    BY FanTypes DEF FanTasks
  <2>2. /\ Cardinality(held[c] \cap kept) \in Nat /\ Cardinality(held[c]) \in Nat
        /\ IsFiniteSet(held[c])
    BY <2>1, FanSymbolsFinite
  <2> QED BY <2>1, <2>2, FS_Subset
<1> QED BY <1>1 DEF Loads

\* A partition of symbols that no stream keeps: what a stream keeps and what it is given
\* stay together below its cap, and no symbol is on two streams.
LEMMA PlanFits ==
    ASSUME FanShape, SymbolsFit, ~overlapping, \A i \in CallSlots : calls[i].pc # "tasks",
           NEW kept \in SUBSET FanSymbols, NEW symbols \in SUBSET FanSymbols,
           \A c \in Credentials : held[c] \cap kept \cap symbols = {},
           NEW plan, plan = Partition(symbols, Loads(kept))
    PROVE  /\ \A c \in Credentials :
                Cardinality((held[c] \cap kept) \cup plan[c]) <= WsMaxSymbols(c)
           /\ \A c, d \in Credentials : c # d =>
                ((held[c] \cap kept) \cup plan[c]) \cap ((held[d] \cap kept) \cup plan[d]) = {}
<1>1. /\ plan \in [Credentials -> SUBSET symbols]
      /\ \A c \in children : Loads(kept)[c] <= WsMaxSymbols(c) =>
              Loads(kept)[c] + Cardinality(plan[c]) <= WsMaxSymbols(c)
      /\ \A c \in Credentials \ children : plan[c] = {}
      /\ \A c, d \in Credentials : c # d => plan[c] \cap plan[d] = {}
  BY LoadsTyped, PartitionFacts, FanTypes
<1>2. ASSUME NEW c \in Credentials
      PROVE  Cardinality((held[c] \cap kept) \cup plan[c]) <= WsMaxSymbols(c)
  <2>1. WsMaxSymbols(c) \in Nat /\ Cardinality(held[c]) <= WsMaxSymbols(c)
    BY FanoutAssumption DEF SymbolsFit
  <2>2. PICK k : k = held[c] \cap kept
    OBVIOUS
  <2>3. k \in SUBSET FanSymbols /\ plan[c] \in SUBSET FanSymbols /\ k \cap plan[c] = {}
    BY <1>1, <2>2, LoadsTyped
  <2>4. /\ IsFiniteSet(k) /\ IsFiniteSet(plan[c]) /\ Cardinality(k) \in Nat
        /\ Cardinality(plan[c]) \in Nat
    BY <2>3, FanSymbolsFinite
  <2>5. Cardinality(k \cup plan[c]) = Cardinality(k) + Cardinality(plan[c])
    <3>1. Cardinality(k \cup plan[c]) = Cardinality(k) + Cardinality(plan[c]) - Cardinality(k \cap plan[c])
      BY <2>4, FS_Union
    <3>2. Cardinality(k \cap plan[c]) = 0
      BY <2>3, FS_EmptySet
    <3> QED BY <2>4, <3>1, <3>2
  <2>6. Loads(kept)[c] = Cardinality(k) /\ Cardinality(k) <= WsMaxSymbols(c)
    <3>1. Loads(kept)[c] = Cardinality(k) /\ Cardinality(k) <= Cardinality(held[c])
          /\ Cardinality(held[c]) \in Nat
      BY <2>2, LoadsTyped
    <3> QED BY <2>1, <2>4, <3>1
  <2>7. CASE c \in children
    <3>1. Cardinality(k) + Cardinality(plan[c]) <= WsMaxSymbols(c)
      BY <1>1, <2>6, <2>7
    <3> QED BY <2>2, <2>5, <3>1
  <2>8. CASE c \notin children
    <3>1. plan[c] = {} /\ Cardinality(plan[c]) = 0
      BY <1>1, <2>8, FS_EmptySet
    <3> QED BY <2>2, <2>4, <2>5, <2>6, <3>1
  <2> QED BY <2>7, <2>8
<1>3. ASSUME NEW c \in Credentials, NEW d \in Credentials, c # d
      PROVE  ((held[c] \cap kept) \cup plan[c]) \cap ((held[d] \cap kept) \cup plan[d]) = {}
  <2>1. held[c] \cap held[d] = {} /\ plan[c] \cap plan[d] = {}
    BY <1>1, <1>3 DEF SymbolsFit
  <2>2. plan[c] \subseteq symbols /\ plan[d] \subseteq symbols
    BY <1>1
  <2>3. held[c] \cap kept \cap symbols = {} /\ held[d] \cap kept \cap symbols = {}
    OBVIOUS
  <2> QED BY <2>1, <2>2, <2>3
<1> QED BY <1>2, <1>3

\* What PlanTasks settles, whatever the stage: the streams keep some symbols and get
\* their part of others, that none of them keeps.
Settled(i, kept, symbols, plan, call) ==
    /\ plan = Partition(symbols, Loads(kept)) /\ plan \in [Credentials -> SUBSET symbols]
    /\ \A c \in Credentials \ children : plan[c] = {}
    /\ \A c \in Credentials : held[c] \cap kept \cap symbols = {}
    /\ SoundCall(call) /\ call.pc = "tasks" /\ call.left = children
    /\ calls' = [calls EXCEPT ![i] = call]
    /\ \A c \in Credentials :
         (held[c] \ call.remove[c]) \cup call.add[c] = (held[c] \cap kept) \cup plan[c]

LEMMA PlanIs ==
    ASSUME FanShape, NEW i \in CallSlots, PlanTasks(i)
    PROVE  \E kept \in SUBSET FanSymbols, symbols \in SUBSET FanSymbols :
             \E plan, call : Settled(i, kept, symbols, plan, call)
<1>1. PICK stage : stage = calls[i].stages[1]
  OBVIOUS
<1>2. /\ calls[i].pc = "plan" /\ SoundCall(calls[i]) /\ stage \in FanStage
      /\ stage.kind = "rebalance" => stage.symbols \subseteq ChartSymbols
      /\ stage.symbols \in SUBSET FanSymbols
  <2>1. calls[i].pc = "plan" /\ SoundCall(calls[i])
    BY CallTyped DEF PlanTasks
  <2>2. PICK stages : stages = calls[i].stages
    OBVIOUS
  <2>3. SoundStages(stages) /\ stages \in Seq(FanStage) /\ stages # <<>>
    BY <2>1, <2>2 DEF SoundCall, SoundStages
  <2>4. 1 \in 1..Len(stages) /\ stage \in FanStage
    BY <1>1, <2>2, <2>3
  <2>5. stage.kind = "rebalance" => stage.symbols \subseteq ChartSymbols
    BY <1>1, <2>2, <2>3, <2>4 DEF SoundStages
  <2> QED BY <2>1, <2>4, <2>5 DEF FanStage
<1>3. ASSUME NEW remove \in FanTasks, NEW add \in FanTasks,
             calls' = [calls EXCEPT ![i].pc = "tasks", ![i].left = children, ![i].remove = remove,
                                    ![i].add = add]
      PROVE  \E call : /\ SoundCall(call) /\ call.pc = "tasks" /\ call.left = children
                       /\ call.remove = remove /\ call.add = add
                       /\ calls' = [calls EXCEPT ![i] = call]
  <2>1. PICK call : call = [calls[i] EXCEPT !.pc = "tasks", !.left = children, !.remove = remove,
                                            !.add = add]
    OBVIOUS
  <2>2. /\ call \in FanCall /\ call.pc = "tasks" /\ call.left = children /\ call.remove = remove
        /\ call.add = add /\ call.stages = calls[i].stages
    BY <1>2, <2>1, FanTypes DEF SoundCall, FanCall
  <2>3. SoundCall(call)
    BY <1>2, <2>2, CallGoesOn
  <2>4. calls' = [calls EXCEPT ![i] = call]
    BY <1>3, <2>1
  <2> QED BY <2>2, <2>3, <2>4
<1>4. CASE stage.kind = "rebalance"
  <2>1. PICK plan : plan = Partition(stage.symbols, Loads(IndexSymbols))
    OBVIOUS
  <2>2. plan \in [Credentials -> SUBSET stage.symbols] /\ \A c \in Credentials \ children : plan[c] = {}
    BY <1>2, <2>1, FanTypes, LoadsTyped, PartitionFacts
  <2>3. PICK remove, add :
          /\ remove = [c \in Credentials |-> held[c] \ (IndexSymbols \cup plan[c])]
          /\ add = [c \in Credentials |-> plan[c] \ held[c]]
    OBVIOUS
  <2>4. calls' = [calls EXCEPT ![i].pc = "tasks", ![i].left = children, ![i].remove = remove,
                               ![i].add = add]
    BY <1>1, <1>4, <2>1, <2>3 DEF PlanTasks
  <2>5. remove \in FanTasks /\ add \in FanTasks
    BY <1>2, <2>2, <2>3, FanTypes DEF FanTasks
  <2>6. PICK call : /\ SoundCall(call) /\ call.pc = "tasks" /\ call.left = children
                    /\ call.remove = remove /\ call.add = add
                    /\ calls' = [calls EXCEPT ![i] = call]
    BY <1>3, <2>4, <2>5, ZenonT(60)
  <2>7. \A c \in Credentials :
          (held[c] \ call.remove[c]) \cup call.add[c] = (held[c] \cap IndexSymbols) \cup plan[c]
    BY <2>3, <2>6
  <2>8. \A c \in Credentials : held[c] \cap IndexSymbols \cap stage.symbols = {}
    BY <1>2, <1>4, FanoutAssumption
  <2>9. IndexSymbols \in SUBSET FanSymbols /\ stage.symbols \in SUBSET FanSymbols
    BY <1>2, FanTypes
  <2>10. Settled(i, IndexSymbols, stage.symbols, plan, call)
    BY <2>1, <2>2, <2>6, <2>7, <2>8, Zenon DEF Settled
  <2> QED BY <2>9, <2>10
<1>5. CASE stage.kind # "rebalance"
  <2>1. PICK symbols, plan : /\ symbols = stage.symbols \ Owned /\ symbols \in SUBSET FanSymbols
                             /\ plan = Partition(symbols, Loads(FanSymbols))
    BY <1>2
  <2>2. plan \in [Credentials -> SUBSET symbols] /\ \A c \in Credentials \ children : plan[c] = {}
    BY <2>1, FanTypes, LoadsTyped, PartitionFacts
  <2>3. PICK remove, add :
          /\ remove = [c \in Credentials |-> {}]
          /\ add = [c \in Credentials |-> plan[c] \cup (stage.symbols \cap held[c])]
    OBVIOUS
  <2>4. calls' = [calls EXCEPT ![i].pc = "tasks", ![i].left = children, ![i].remove = remove,
                               ![i].add = add]
    BY <1>1, <1>5, <2>1, <2>3 DEF PlanTasks
  <2>5. remove \in FanTasks /\ add \in FanTasks
    BY <1>2, <2>1, <2>2, <2>3, FanTypes DEF FanTasks
  <2>6. PICK call : /\ SoundCall(call) /\ call.pc = "tasks" /\ call.left = children
                    /\ call.remove = remove /\ call.add = add
                    /\ calls' = [calls EXCEPT ![i] = call]
    BY <1>3, <2>4, <2>5, ZenonT(60)
  <2>7. \A c \in Credentials :
          (held[c] \ call.remove[c]) \cup call.add[c] = (held[c] \cap FanSymbols) \cup plan[c]
    BY <2>3, <2>6, FanTypes DEF FanTasks
  <2>8. \A c \in Credentials : held[c] \cap FanSymbols \cap symbols = {}
    BY <2>1, FanTypes DEF Owned
  <2>9. FanSymbols \in SUBSET FanSymbols /\ symbols \in SUBSET FanSymbols
    BY <2>1
  <2>10. Settled(i, FanSymbols, symbols, plan, call)
    BY <2>1, <2>2, <2>6, <2>7, <2>8, Zenon DEF Settled
  <2> QED BY <2>9, <2>10
<1> QED BY <1>4, <1>5

LEMMA PlanInv ==
    ASSUME FanInv, NEW i \in CallSlots, PlanTasks(i)
    PROVE  FanInv'
<1>0. /\ FanShape /\ calls[i].pc = "plan"
      /\ UNCHANGED <<wanted, eligible, children, held, up, backoff, ensure, overlapping>>
  BY DEF FanInv, PlanTasks, fanBounds
<1>1. PICK kept \in SUBSET FanSymbols, symbols \in SUBSET FanSymbols :
        \E plan, call : Settled(i, kept, symbols, plan, call)
  BY <1>0, PlanIs
<1>2. PICK plan, call : Settled(i, kept, symbols, plan, call)
  BY <1>1
<1>3. SoundCall(call) /\ call.pc = "tasks" /\ call.left = children
      /\ calls' = [calls EXCEPT ![i] = call]
  BY <1>2 DEF Settled
<1>4. FanShape' /\ calls'[i] = call /\ \A j \in CallSlots \ {i} : calls'[j] = calls[j]
  <2>1. ensure' \in EnsureRun
    BY <1>0 DEF FanShape, EnsureRun
  <2> QED BY <1>0, <1>3, <2>1, CallShapeKept, OneCall
<1>5. OneAtATime'
  <2>1. \A j \in CallSlots : /\ calls'[j].pc # "idle" => calls[j].pc # "idle"
                             /\ calls[j].pc = "joined" => calls'[j].pc = "joined"
    BY <1>0, <1>4
  <2> QED BY <1>0, <2>1, AloneStays DEF FanInv
<1>6. SymbolsFit'
  <2> SUFFICES ASSUME ~overlapping PROVE SymbolsFit'
    BY <1>0 DEF SymbolsFit
  <2>1. \A j \in CallSlots : calls[j].pc # "tasks" /\ (j # i => calls'[j].pc # "tasks")
    BY <1>0, <1>4 DEF FanInv, OneAtATime
  <2>2. /\ \A c \in Credentials : Cardinality((held[c] \cap kept) \cup plan[c]) <= WsMaxSymbols(c)
        /\ \A c, d \in Credentials : c # d =>
             ((held[c] \cap kept) \cup plan[c]) \cap ((held[d] \cap kept) \cup plan[d]) = {}
    <3>1. plan = Partition(symbols, Loads(kept)) /\ \A c \in Credentials : held[c] \cap kept \cap symbols = {}
      BY <1>2 DEF Settled
    <3> QED BY <1>0, <2>1, <3>1, PlanFits DEF FanInv
  <2>3. ASSUME NEW c \in Credentials
        PROVE  After(i, c)' = (held[c] \cap kept) \cup plan[c]
    <3>1. CASE c \in children
      BY <1>0, <1>2, <1>3, <1>4, <3>1 DEF After, Settled
    <3>2. CASE c \notin children
      <4>1. held[c] = {} /\ plan[c] = {}
        BY <1>0, <1>2, <3>2, FanTypes DEF Settled
      <4>2. After(i, c)' = held'[c]
        BY <1>3, <1>4, <3>2 DEF After
      <4> QED BY <1>0, <4>1, <4>2
    <3> QED BY <3>1, <3>2
  <2>4. \A j \in CallSlots, c \in Credentials : j # i => After(j, c)' = held[c]
    BY <1>0, <2>1 DEF After
  <2>5. \A c \in Credentials : Cardinality(held'[c]) <= WsMaxSymbols(c)
    BY <1>0 DEF FanInv, SymbolsFit
  <2>6. \A j \in CallSlots, c \in Credentials : Cardinality(After(j, c)') <= WsMaxSymbols(c)
    <3> TAKE j \in CallSlots, c \in Credentials
    <3>1. CASE j = i
      BY <2>2, <2>3, <3>1
    <3>2. CASE j # i
      BY <1>0, <2>4, <2>5, <3>2
    <3> QED BY <3>1, <3>2
  <2>7. \A j \in CallSlots : calls'[j].pc = "tasks" =>
          \A c, d \in Credentials : c # d => After(j, c)' \cap After(j, d)' = {}
    BY <2>1, <2>2, <2>3
  <2>8. calls'[i].pc = "tasks"
    BY <1>3, <1>4
  <2> QED BY <2>5, <2>6, <2>7, <2>8 DEF SymbolsFit
<1> QED BY <1>4, <1>5, <1>6 DEF FanInv

\* A task of call i on stream c.
LEMMA TaskSteps ==
    ASSUME FanInv, NEW i \in CallSlots, NEW c \in Credentials, calls[i].pc = "tasks", c \in calls[i].left,
           UNCHANGED <<wanted, eligible, children, up, backoff, ensure, overlapping>>,
           NEW call, SoundCall(call), call.pc = "tasks", calls' = [calls EXCEPT ![i] = call],
           \A d \in Credentials \ {c} : /\ d \in call.left <=> d \in calls[i].left
                                        /\ call.remove[d] = calls[i].remove[d]
                                        /\ call.add[d] = calls[i].add[d],
           NEW now \in SUBSET FanSymbols, held' = [held EXCEPT ![c] = now],
           c \notin children => now = {},
           now \subseteq held[c] \/ now = After(i, c),
           After(i, c)' \subseteq After(i, c)
    PROVE  FanInv'
<1>0. FanShape /\ held \in FanTasks
  BY FanTypes DEF FanInv
<1>1. /\ held' \in FanTasks /\ held'[c] = now /\ \A d \in Credentials \ {c} : held'[d] = held[d]
  BY <1>0 DEF FanTasks
<1>2. /\ calls' = [j \in CallSlots |-> calls'[j]] /\ \A j \in CallSlots : SoundCall(calls'[j])
      /\ calls'[i] = call /\ \A j \in CallSlots \ {i} : calls'[j] = calls[j]
  BY <1>0, OneCall
<1>3. FanShape'
  <2>1. \A d \in Credentials \ children' : held'[d] = {}
    BY <1>0, <1>1, FanTypes
  <2>2. backoff \subseteq Credentials /\ ensure \in EnsureRun
    BY <1>0 DEF FanShape, FanTypeOK, EnsureRun
  <2> QED BY <1>0, <1>1, <1>2, <2>1, <2>2, FanTypes, ShapeKept
<1>4. OneAtATime'
  <2>1. \A j \in CallSlots : calls'[j].pc = calls[j].pc
    BY <1>2
  <2> QED BY <2>1, AloneStays DEF FanInv
<1>5. SymbolsFit'
  <2> SUFFICES ASSUME ~overlapping PROVE SymbolsFit'
    BY DEF SymbolsFit
  <2>1. \A j \in CallSlots : j # i => calls[j].pc # "tasks" /\ calls'[j].pc # "tasks"
    BY <1>2 DEF FanInv, OneAtATime
  <2>2. \A d \in Credentials : Cardinality(held[d]) <= WsMaxSymbols(d) /\ Cardinality(After(i, d)) <= WsMaxSymbols(d)
    BY DEF FanInv, SymbolsFit
  <2>3. After(i, c) \in SUBSET FanSymbols /\ held[c] \in SUBSET FanSymbols /\ WsMaxSymbols(c) \in Nat
    <3>1. held[c] \in SUBSET FanSymbols /\ calls[i].add[c] \in SUBSET FanSymbols
      BY <1>0, CallTyped DEF FanTasks
    <3> QED BY <3>1, FanoutAssumption DEF After
  <2>4. \A T \in SUBSET FanSymbols : \A R \in SUBSET T :
          Cardinality(T) <= WsMaxSymbols(c) => Cardinality(R) <= WsMaxSymbols(c)
    <3> TAKE T \in SUBSET FanSymbols
    <3> TAKE R \in SUBSET T
    <3>1. IsFiniteSet(T) /\ Cardinality(T) \in Nat /\ Cardinality(R) \in Nat
      BY FanSymbolsFinite
    <3>2. Cardinality(R) <= Cardinality(T)
      BY <3>1, FS_Subset
    <3> QED BY <2>3, <3>1, <3>2
  <2>5. Cardinality(held'[c]) <= WsMaxSymbols(c)
    BY <1>1, <2>2, <2>3, <2>4
  <2>6. \A d \in Credentials : Cardinality(held'[d]) <= WsMaxSymbols(d)
    BY <1>1, <2>2, <2>5
  <2>7. \A d \in Credentials \ {c} : After(i, d)' = After(i, d)
    BY <1>1, <1>2 DEF After
  <2>8. Cardinality(After(i, c)') <= WsMaxSymbols(c)
    BY <2>2, <2>3, <2>4
  <2>9. \A j \in CallSlots, d \in Credentials : j # i => After(j, d)' = held'[d]
    BY <2>1 DEF After
  <2>10. \A j \in CallSlots, d \in Credentials : Cardinality(After(j, d)') <= WsMaxSymbols(d)
    <3> TAKE j \in CallSlots, d \in Credentials
    <3>1. CASE j # i
      BY <2>6, <2>9, <3>1
    <3>2. CASE j = i /\ d = c
      BY <2>8, <3>2
    <3>3. CASE j = i /\ d # c
      BY <2>2, <2>7, <3>3
    <3> QED BY <3>1, <3>2, <3>3
  <2>11. \A d, e \in Credentials : d # e => After(i, d)' \cap After(i, e)' = {}
    <3>1. \A d, e \in Credentials : d # e => After(i, d) \cap After(i, e) = {}
      BY DEF FanInv, SymbolsFit
    <3>2. \A d \in Credentials : After(i, d)' \subseteq After(i, d)
      BY <2>7
    <3> QED BY <3>1, <3>2
  <2>12. calls'[i].pc = "tasks"
    BY <1>2
  <2> QED BY <2>1, <2>6, <2>10, <2>11, <2>12 DEF SymbolsFit
<1> QED BY <1>3, <1>4, <1>5 DEF FanInv

LEMMA RemoveInv ==
    ASSUME FanInv, NEW i \in CallSlots, NEW c \in Credentials, RemoveSymbols(i, c)
    PROVE  FanInv'
<1>0. /\ FanShape /\ calls[i].pc = "tasks" /\ c \in calls[i].left /\ SoundCall(calls[i])
      /\ UNCHANGED <<wanted, eligible, children, up, backoff, ensure, overlapping>>
      /\ held' = [held EXCEPT ![c] = held[c] \ calls[i].remove[c]]
      /\ calls' = [calls EXCEPT ![i].remove[c] = {}]
      /\ held[c] \in SUBSET FanSymbols /\ (c \notin children => held[c] = {})
  BY CallTyped, FanTypes DEF FanInv, RemoveSymbols, fanBounds, FanTasks
<1>1. PICK remove, call : /\ remove = [calls[i].remove EXCEPT ![c] = {}]
                          /\ call = [calls[i] EXCEPT !.remove = remove]
                          /\ calls' = [calls EXCEPT ![i] = call]
  BY <1>0
<1>2. /\ SoundCall(call) /\ call.pc = "tasks" /\ call.left = calls[i].left /\ call.add = calls[i].add
      /\ call.remove = remove
  <2>1. remove \in FanTasks
    BY <1>0, <1>1, CallTyped DEF FanTasks
  <2>2. /\ call \in FanCall /\ call.pc = "tasks" /\ call.left = calls[i].left
        /\ call.add = calls[i].add /\ call.remove = remove /\ call.stages = calls[i].stages
    BY <1>0, <1>1, <2>1 DEF SoundCall, FanCall
  <2> QED BY <1>0, <2>2, CallGoesOn
<1>3. remove[c] = {} /\ \A d \in Credentials \ {c} : remove[d] = calls[i].remove[d]
  BY <1>0, <1>1, CallTyped DEF FanTasks
<1>4. held'[c] = held[c] \ calls[i].remove[c] /\ calls'[i] = call
  BY <1>0, <1>1, OneCall, FanTypes, <1>2 DEF FanTasks
<1>5. After(i, c)' = After(i, c)
  BY <1>0, <1>2, <1>3, <1>4 DEF After
<1>6. PICK now : now = held[c] \ calls[i].remove[c] /\ now \in SUBSET FanSymbols
  BY <1>0
<1>7. now \subseteq held[c] /\ (c \notin children => now = {})
  BY <1>0, <1>6
<1>8. /\ held' = [held EXCEPT ![c] = now] /\ After(i, c)' \subseteq After(i, c)
      /\ \A d \in Credentials \ {c} : /\ d \in call.left <=> d \in calls[i].left
                                      /\ call.remove[d] = calls[i].remove[d]
                                      /\ call.add[d] = calls[i].add[d]
  BY <1>0, <1>2, <1>3, <1>5, <1>6
<1>9. /\ calls[i].pc = "tasks" /\ c \in calls[i].left
      /\ UNCHANGED <<wanted, eligible, children, up, backoff, ensure, overlapping>>
      /\ SoundCall(call) /\ call.pc = "tasks" /\ calls' = [calls EXCEPT ![i] = call]
      /\ now \in SUBSET FanSymbols /\ (now \subseteq held[c] \/ now = After(i, c))
      /\ c \notin children => now = {}
  BY <1>0, <1>1, <1>2, <1>6, <1>7
<1> QED BY <1>8, <1>9, TaskSteps

LEMMA AddInv ==
    ASSUME FanInv, NEW i \in CallSlots, NEW c \in Credentials, AddSymbols(i, c)
    PROVE  FanInv'
<1>0. /\ FanShape /\ calls[i].pc = "tasks" /\ c \in calls[i].left /\ SoundCall(calls[i])
      /\ calls[i].remove[c] = {} /\ calls[i].add[c] \in SUBSET FanSymbols
      /\ UNCHANGED <<wanted, eligible, children, up, backoff, ensure, overlapping>>
      /\ held[c] \in SUBSET FanSymbols /\ (c \notin children => held[c] = {}) /\ up \subseteq children
  BY CallTyped, FanTypes DEF FanInv, AddSymbols, fanBounds, FanTasks
<1>1. PICK now : /\ held' = [held EXCEPT ![c] = now] /\ now \in SUBSET FanSymbols
                 /\ now = held[c] \/ now = held[c] \cup calls[i].add[c]
                 /\ c \notin children => now = {}
  <2>1. CASE c \in up
    <3>1. held' = [held EXCEPT ![c] = held[c] \cup calls[i].add[c]]
      BY <2>1 DEF AddSymbols
    <3> QED BY <1>0, <2>1, <3>1
  <2>2. CASE c \notin up
    <3>1. held' = held /\ held = [held EXCEPT ![c] = held[c]]
      BY <1>0, <2>2, FanTypes DEF AddSymbols, FanTasks
    <3> QED BY <1>0, <3>1
  <2> QED BY <2>1, <2>2
<1>2. PICK left, failed, call : /\ left = calls[i].left \ {c} /\ failed \in BOOLEAN
                                /\ call = [calls[i] EXCEPT !.left = left, !.failed = failed]
                                /\ calls' = [calls EXCEPT ![i] = call]
  <2>1. (calls[i].failed \/ (c \notin up /\ calls[i].add[c] # {})) \in BOOLEAN
    OBVIOUS
  <2> QED BY <2>1 DEF AddSymbols
<1>3. /\ SoundCall(call) /\ call.pc = "tasks" /\ call.left = left /\ call.add = calls[i].add
      /\ call.remove = calls[i].remove
  <2>1. left \in SUBSET Credentials
    BY <1>0, <1>2, CallTyped
  <2>2. /\ call \in FanCall /\ call.pc = "tasks" /\ call.left = left /\ call.add = calls[i].add
        /\ call.remove = calls[i].remove /\ call.stages = calls[i].stages
    BY <1>0, <1>2, <2>1 DEF SoundCall, FanCall
  <2> QED BY <1>0, <2>2, CallGoesOn
<1>4. held'[c] = now /\ calls'[i] = call
  BY <1>0, <1>1, <1>2, <1>3, OneCall, FanTypes DEF FanTasks
<1>5. After(i, c) = held[c] \cup calls[i].add[c] /\ After(i, c)' = now
  BY <1>0, <1>2, <1>3, <1>4 DEF After
<1>6. /\ now \subseteq held[c] \/ now = After(i, c)
      /\ After(i, c)' \subseteq After(i, c)
  BY <1>1, <1>5
<1>7. \A d \in Credentials \ {c} : /\ d \in call.left <=> d \in calls[i].left
                                   /\ call.remove[d] = calls[i].remove[d]
                                   /\ call.add[d] = calls[i].add[d]
  BY <1>2, <1>3
<1> QED BY <1>0, <1>1, <1>2, <1>3, <1>6, <1>7, TaskSteps

LEMMA StageEndsInv ==
    ASSUME FanInv, NEW i \in CallSlots, StageEnds(i)
    PROVE  FanInv'
<1>0. /\ FanShape /\ calls[i].pc = "tasks" /\ calls[i].left = {} /\ SoundCall(calls[i])
      /\ UNCHANGED <<wanted, eligible, children, held, up, backoff, ensure, overlapping>>
      /\ calls' = [calls EXCEPT ![i] = NextStage(calls[i])]
  BY CallTyped DEF FanInv, StageEnds, fanBounds
<1>1. PICK call : /\ call = NextStage(calls[i]) /\ SoundCall(call)
                  /\ call.pc \in {"idle", "disconnect", "ensure"}
                  /\ calls' = [calls EXCEPT ![i] = call]
  BY <1>0, NextStageCall
<1>2. FanShape' /\ calls'[i] = call /\ \A j \in CallSlots \ {i} : calls'[j] = calls[j]
  <2>1. ensure' \in EnsureRun
    BY <1>0 DEF FanShape, EnsureRun
  <2> QED BY <1>0, <1>1, <2>1, CallShapeKept, OneCall
<1>3. OneAtATime'
  <2>1. \A j \in CallSlots : /\ calls'[j].pc # "idle" => calls[j].pc # "idle"
                             /\ calls[j].pc = "joined" => calls'[j].pc = "joined"
    BY <1>0, <1>2
  <2> QED BY <1>0, <2>1, AloneStays DEF FanInv
<1>4. SymbolsFit'
  <2> SUFFICES ASSUME ~overlapping PROVE SymbolsFit'
    BY <1>0 DEF SymbolsFit
  <2>1. \A j \in CallSlots : calls'[j].pc # "tasks"
    BY <1>0, <1>1, <1>2 DEF FanInv, OneAtATime
  <2>2. \A j \in CallSlots, c \in Credentials : After(j, c)' = held[c]
    BY <1>0, <2>1 DEF After
  <2>3. \A c \in Credentials : After(i, c) = held[c]
    BY <1>0 DEF After
  <2>4. \A c, d \in Credentials : c # d => held[c] \cap held[d] = {}
    BY <1>0, <2>3 DEF FanInv, SymbolsFit
  <2>5. \A c \in Credentials : Cardinality(held[c]) <= WsMaxSymbols(c)
    BY DEF FanInv, SymbolsFit
  <2> QED BY <1>0, <2>1, <2>2, <2>4, <2>5 DEF SymbolsFit
<1> QED BY <1>2, <1>3, <1>4 DEF FanInv

LEMMA FanStep == FanInv /\ [FanNext]_fanVars => FanInv'
<1> SUFFICES ASSUME FanInv, [FanNext]_fanVars PROVE FanInv'
  OBVIOUS
<1>1. CASE UNCHANGED fanVars
  <2>1. /\ wanted \subseteq ChartSymbols /\ eligible \subseteq Credentials
        /\ children \subseteq Credentials /\ up \subseteq children /\ backoff \subseteq Credentials
        /\ ensure \in EnsureRun
    BY DEF FanInv, FanShape, FanTypeOK, EnsureRun
  <2> QED BY <1>1, <2>1, CallsAside DEF fanVars
<1>2. ASSUME NEW i \in CallSlots, CallStep(i)
      PROVE  FanInv'
  BY <1>2, ClearInv, JoinInv, PlanInv, StageEndsInv, RemoveInv, AddInv DEF CallStep
<1>3. CASE EnsureStep
  BY <1>3, ListInv, SettleInv, ConnectInv DEF EnsureStep
<1> QED BY <1>1, <1>2, <1>3, RefreshInv, OutsideInv, ConnectInv DEF FanNext

LEMMA FanInvSafe == FanInv => FanTypeOK /\ CapsHold
<1> SUFFICES ASSUME FanInv PROVE FanTypeOK /\ CapsHold
  OBVIOUS
<1>1. children \subseteq Credentials
  BY FanTypes DEF FanInv
<1>2. ASSUME ~overlapping, \A i \in CallSlots : calls[i].pc = "idle"
      PROVE  \A c, d \in children : c # d => held[c] \cap held[d] = {}
  BY <1>1, <1>2 DEF FanInv, SymbolsFit
<1> QED BY <1>1, <1>2 DEF FanInv, FanShape, SymbolsFit, CapsHold

\* KiwoomCollectorWsFanoutVendor, for any symbols, caps, scores and number of callers:
\* where its calls do not overlap, whatever credentials come and go and whatever connects
\* fail, no stream is ever given more symbols than its cap, and between two calls no
\* symbol is on two streams.
THEOREM CapsAreHeld == FanSpec => []CapsHold
BY FanInitInv, FanStep, FanInvSafe, PTL DEF FanSpec

-----------------------------------------------------------------------------
(* MarketSocket: what the caller may rely on across reconnects.               *)

\* Nothing is subscribed before the first connect has returned, and no loop runs
\* before the first socket was opened.
FirstComesFirst ==
    /\ firstPc # "done" => subscriptions = {} /\ known = {}
    /\ firstPc = "connect" => loopPc = "none" /\ ~socket.open

\* The broker streams nothing but the map, and all of it unless the loop has still to
\* replay it: a login of the first task finds an empty map.
RegisteredIsMap ==
    /\ known \subseteq subscriptions /\ registered \subseteq subscriptions
    /\ Live /\ loopPc # "delay" => registered = subscriptions
    /\ loopPc = "delay" /\ socket.open => socket.loggedIn

\* The loop has failures left while it runs, and a stream that used them up has halted.
LoopMayGoOn == loginFailures < MaxLoginFailures \/ (loopPc = "none" /\ flags # {})

\* After a disconnect only a loop that was closing the old socket connects again.
DisconnectSticks ==
    "disconnected" \in flags =>
        firstPc = "done" /\ (socket.open \/ loopPc \in {"closing", "connect"} => raced)

StreamInv ==
    /\ StreamTypeOK /\ FirstComesFirst /\ RegisteredIsMap /\ LoopMayGoOn /\ DisconnectSticks
    /\ LostStreamIsRetried

LEMMA SocketRecords ==
    /\ Closed \in [open: BOOLEAN, loginSent: BOOLEAN, loggedIn: BOOLEAN]
    /\ Opened \in [open: BOOLEAN, loginSent: BOOLEAN, loggedIn: BOOLEAN]
    /\ Closed.open = FALSE /\ Closed.loggedIn = FALSE /\ Opened.loggedIn = FALSE
<1>1. /\ Closed \in [open: BOOLEAN, loginSent: BOOLEAN, loggedIn: BOOLEAN]
      /\ Closed.open = FALSE /\ Closed.loggedIn = FALSE
  BY DEF Closed
<1>2. /\ Opened \in [open: BOOLEAN, loginSent: BOOLEAN, loggedIn: BOOLEAN]
      /\ Opened.loggedIn = FALSE
  BY <1>1 DEF Opened
<1> QED BY <1>1, <1>2

LEMMA StreamInitInv == StreamInit => StreamInv
<1> SUFFICES ASSUME StreamInit PROVE StreamInv
  OBVIOUS
<1>1. StreamTypeOK
  <2>1. loginFailures \in 0..MaxLoginFailures /\ streamFaults \in 0..MaxStreamFaults
    BY StreamAssumption DEF StreamInit
  <2>2. socket \in [open: BOOLEAN, loginSent: BOOLEAN, loggedIn: BOOLEAN] /\ raced \in BOOLEAN
    BY SocketRecords, Zenon DEF StreamInit
  <2> QED BY <2>1, <2>2 DEF StreamInit, StreamTypeOK
<1>2. FirstComesFirst /\ RegisteredIsMap
  BY SocketRecords DEF StreamInit, FirstComesFirst, RegisteredIsMap, Live
<1>3. LoopMayGoOn /\ DisconnectSticks /\ LostStreamIsRetried
  BY StreamAssumption DEF StreamInit, LoopMayGoOn, DisconnectSticks, LostStreamIsRetried
<1> QED BY <1>1, <1>2, <1>3 DEF StreamInv

\* What a failing attempt does to the tasks, with the types.
LEMMA AttemptFailsMoves ==
    ASSUME StreamInv, NEW tasks \in SUBSET Tasks, NEW isLogin \in BOOLEAN,
           "loop" \in tasks => loopPc # "none",
           AttemptFails(tasks, isLogin)
    PROVE  /\ firstPc' = IF "first" \in tasks THEN "failed" ELSE firstPc
           /\ loginFailures' \in 0..MaxLoginFailures
           /\ flags' \in {flags, flags \cup {"halted"}}
           /\ loginFailures' < MaxLoginFailures \/ (loopPc' = "none" /\ flags' # {})
           /\ "loop" \notin tasks => loopPc' = loopPc /\ flags' = flags
           /\ "loop" \in tasks => /\ loopPc' \in {"none", "sleep"}
                                  /\ loopPc' = "none" => flags' # {}
                                  /\ loopPc' = "sleep" => "disconnected" \notin flags'
BY StreamAssumption DEF StreamInv, StreamTypeOK, LoopMayGoOn, AttemptFails, Tasks

LEMMA StreamStep == StreamInv /\ [StreamNext]_streamVars => StreamInv'
<1> SUFFICES ASSUME StreamInv, [StreamNext]_streamVars PROVE StreamInv'
  OBVIOUS
<1> USE DEF Live
<1>0. /\ MaxLoginFailures \in Nat \ {0} /\ MaxStreamFaults \in Nat
      /\ socket \in [open: BOOLEAN, loginSent: BOOLEAN, loggedIn: BOOLEAN]
  BY StreamAssumption DEF StreamInv, StreamTypeOK
<1>1. CASE UNCHANGED streamVars
  BY <1>1 DEF streamVars, StreamInv, StreamTypeOK, FirstComesFirst, RegisteredIsMap, LoopMayGoOn,
       DisconnectSticks, LostStreamIsRetried
<1>2. ASSUME NEW t \in Tasks, ConnectSocket(t)
      PROVE  StreamInv'
  BY <1>0, <1>2, SocketRecords DEF ConnectSocket, Moves, Pc, Tasks, StreamInv, StreamTypeOK, FirstComesFirst,
       RegisteredIsMap, LoopMayGoOn, DisconnectSticks, LostStreamIsRetried
<1>3. ASSUME NEW t \in Tasks, ConnectFails(t)
      PROVE  StreamInv'
  <2>1. {t} \subseteq Tasks /\ ("loop" \in {t} => loopPc # "none")
    BY <1>3 DEF ConnectFails, Pc, Tasks
  <2>2. streamFaults' \in 0..MaxStreamFaults
    BY <1>0, <1>3 DEF ConnectFails, StreamFault, StreamInv, StreamTypeOK
  <2> QED BY <1>0, <1>3, <2>1, <2>2, AttemptFailsMoves DEF ConnectFails, Pc, Tasks, StreamInv,
       StreamTypeOK, FirstComesFirst, RegisteredIsMap, LoopMayGoOn, DisconnectSticks, LostStreamIsRetried
<1>4. ASSUME NEW t \in Tasks, SendLogin(t)
      PROVE  StreamInv'
  <2>1. {t} \subseteq Tasks /\ ("loop" \in {t} => loopPc # "none")
    BY <1>4 DEF SendLogin, Pc, Tasks
  <2>2. CASE socket.open
    BY <1>0, <1>4, <2>2 DEF SendLogin, Moves, Pc, Tasks, StreamInv,
       StreamTypeOK, FirstComesFirst, RegisteredIsMap, LoopMayGoOn, DisconnectSticks, LostStreamIsRetried
  <2>3. CASE ~socket.open
    BY <1>0, <1>4, <2>1, <2>3, AttemptFailsMoves DEF SendLogin, Pc, Tasks, StreamInv,
       StreamTypeOK, FirstComesFirst, RegisteredIsMap, LoopMayGoOn, DisconnectSticks, LostStreamIsRetried
  <2> QED BY <1>0, <2>2, <2>3
<1>5. ASSUME NEW t \in Tasks, LoginTimesOut(t)
      PROVE  StreamInv'
  <2>1. {t} \subseteq Tasks /\ ("loop" \in {t} => loopPc # "none")
    BY <1>5 DEF LoginTimesOut, Pc, Tasks
  <2>2. streamFaults' \in 0..MaxStreamFaults
    BY <1>0, <1>5 DEF LoginTimesOut, StreamFault, StreamInv, StreamTypeOK
  <2> QED BY <1>0, <1>5, <2>1, <2>2, AttemptFailsMoves DEF LoginTimesOut, Pc, Tasks, StreamInv,
       StreamTypeOK, FirstComesFirst, RegisteredIsMap, LoopMayGoOn, DisconnectSticks, LostStreamIsRetried
<1>6. CASE LoginAcked
  BY <1>0, <1>6 DEF LoginAcked, Gated, Pc, Tasks, StreamInv,
       StreamTypeOK, FirstComesFirst, RegisteredIsMap, LoopMayGoOn, DisconnectSticks, LostStreamIsRetried
<1>7. CASE LoginRefused
  <2>1. Gated \subseteq Tasks /\ ("loop" \in Gated => loopPc = "login")
        /\ ("first" \in Gated => firstPc = "login")
    BY DEF Gated, Pc, Tasks
  <2>2. streamFaults' \in 0..MaxStreamFaults
    BY <1>0, <1>7 DEF LoginRefused, StreamFault, StreamInv, StreamTypeOK
  <2>3. CASE AttemptFails(Gated, TRUE) /\ UNCHANGED retried
    BY <1>0, <1>7, <2>1, <2>2, <2>3, AttemptFailsMoves DEF LoginRefused, StreamInv,
       StreamTypeOK, FirstComesFirst, RegisteredIsMap, LoopMayGoOn, DisconnectSticks, LostStreamIsRetried
  <2>4. CASE /\ retried' = retried \cup Gated
             /\ firstPc' = IF "first" \in Gated THEN "token" ELSE firstPc
             /\ loopPc' = IF "loop" \in Gated THEN "token" ELSE loopPc
             /\ UNCHANGED <<flags, loginFailures>>
    BY <1>0, <1>7, <2>1, <2>2, <2>4 DEF LoginRefused, StreamInv,
       StreamTypeOK, FirstComesFirst, RegisteredIsMap, LoopMayGoOn, DisconnectSticks, LostStreamIsRetried
  <2> QED BY <1>7, <2>3, <2>4 DEF LoginRefused
<1>8. CASE OrphanFires \/ FirstDone \/ OldSocketClosed
  BY <1>0, <1>8 DEF OrphanFires, FirstDone, OldSocketClosed, StreamInv,
       StreamTypeOK, FirstComesFirst, RegisteredIsMap, LoopMayGoOn, DisconnectSticks, LostStreamIsRetried
<1>9. CASE Replay
  <2>1. CASE subscriptions = {} \/ socket.open
    <3>1. /\ registered' \subseteq registered \cup subscriptions
          /\ loopPc' = "none" /\ loginFailures' = 0
          /\ UNCHANGED <<firstPc, flags, socket, subscriptions, known, retried, orphanGate, raced, streamFaults>>
      BY <1>9, <2>1 DEF Replay
    <3>a. StreamTypeOK'
      BY <1>0, <3>1 DEF StreamInv, StreamTypeOK
    <3>b. FirstComesFirst' /\ LoopMayGoOn' /\ DisconnectSticks'
      BY <1>0, <3>1 DEF StreamInv, FirstComesFirst, LoopMayGoOn, DisconnectSticks
    <3>c. RegisteredIsMap' /\ LostStreamIsRetried'
      BY <1>0, <1>9, <2>1 DEF Replay, StreamInv, FirstComesFirst, RegisteredIsMap, LostStreamIsRetried
    <3> QED BY <3>a, <3>b, <3>c DEF StreamInv
  <2>2. CASE ~(subscriptions = {} \/ socket.open)
    <3>1. {"loop"} \subseteq Tasks
      BY DEF Tasks
    <3>2. /\ firstPc' = firstPc /\ loginFailures' \in 0..MaxLoginFailures
          /\ flags' \in {flags, flags \cup {"halted"}}
          /\ loginFailures' < MaxLoginFailures \/ (loopPc' = "none" /\ flags' # {})
          /\ loopPc' \in {"none", "sleep"} /\ (loopPc' = "none" => flags' # {})
      BY <1>9, <2>2, <3>1, AttemptFailsMoves DEF Replay
    <3>a. StreamTypeOK'
      BY <1>0, <1>9, <2>2, <3>2 DEF Replay, StreamInv, StreamTypeOK
    <3>b. FirstComesFirst' /\ LoopMayGoOn' /\ DisconnectSticks'
      BY <1>0, <1>9, <2>2, <3>2 DEF Replay, StreamInv, FirstComesFirst, LoopMayGoOn, DisconnectSticks
    <3>c. RegisteredIsMap' /\ LostStreamIsRetried'
      BY <1>0, <1>9, <2>2, <3>2 DEF Replay, StreamInv, FirstComesFirst, RegisteredIsMap, LostStreamIsRetried
    <3> QED BY <3>a, <3>b, <3>c DEF StreamInv
  <2> QED BY <2>1, <2>2
<1>10. CASE LoopWakes
  BY <1>0, <1>10, SocketRecords DEF LoopWakes, StreamInv,
       StreamTypeOK, FirstComesFirst, RegisteredIsMap, LoopMayGoOn, DisconnectSticks, LostStreamIsRetried
<1>11. CASE SocketLost
  <2>a. StreamTypeOK'
    BY <1>0, <1>11, SocketRecords DEF SocketLost, OnClose, StreamFault, StreamInv, StreamTypeOK
  <2>b. FirstComesFirst' /\ LoopMayGoOn' /\ DisconnectSticks'
    BY <1>0, <1>11, SocketRecords DEF SocketLost, OnClose, StreamFault, StreamInv, FirstComesFirst, LoopMayGoOn, DisconnectSticks
  <2>c. RegisteredIsMap' /\ LostStreamIsRetried'
    BY <1>0, <1>11, SocketRecords DEF SocketLost, OnClose, StreamFault, StreamInv, FirstComesFirst, RegisteredIsMap, LostStreamIsRetried
  <2> QED BY <2>a, <2>b, <2>c DEF StreamInv
<1>12. CASE KickedOut
  BY <1>0, <1>12, SocketRecords DEF KickedOut, StreamFault, StreamInv,
       StreamTypeOK, FirstComesFirst, RegisteredIsMap, LoopMayGoOn, DisconnectSticks, LostStreamIsRetried
<1>13. CASE Disconnect
  <2>a. StreamTypeOK'
    BY <1>0, <1>13, SocketRecords DEF Disconnect, StreamInv, StreamTypeOK
  <2>b. FirstComesFirst' /\ LoopMayGoOn' /\ DisconnectSticks'
    <3>1. /\ firstPc' = "done" /\ loginFailures' = 0 /\ socket' = Closed
          /\ loopPc' \in {"closing", "connect"} => raced'
      BY <1>13 DEF Disconnect
    <3> QED BY <1>0, <3>1, SocketRecords DEF FirstComesFirst, LoopMayGoOn, DisconnectSticks
  <2>c. RegisteredIsMap' /\ LostStreamIsRetried'
    BY <1>0, <1>13, SocketRecords DEF Disconnect, StreamInv, FirstComesFirst, RegisteredIsMap, LostStreamIsRetried
  <2> QED BY <2>a, <2>b, <2>c DEF StreamInv
<1>14. ASSUME NEW s \in StreamSymbols, Subscribe({s})
       PROVE  StreamInv'
  <2>a. StreamTypeOK'
    BY <1>0, <1>14, SocketRecords DEF Subscribe, OnClose, StreamFault, StreamInv, StreamTypeOK
  <2>b. FirstComesFirst' /\ LoopMayGoOn' /\ DisconnectSticks'
    BY <1>0, <1>14, SocketRecords DEF Subscribe, OnClose, StreamFault, StreamInv, FirstComesFirst, LoopMayGoOn, DisconnectSticks
  <2>c. RegisteredIsMap' /\ LostStreamIsRetried'
    BY <1>0, <1>14, SocketRecords DEF Subscribe, OnClose, StreamFault, StreamInv, FirstComesFirst, RegisteredIsMap, LostStreamIsRetried
  <2> QED BY <2>a, <2>b, <2>c DEF StreamInv
<1>15. ASSUME NEW s \in StreamSymbols, Unsubscribe({s})
       PROVE  StreamInv'
  BY <1>0, <1>15 DEF Unsubscribe, StreamInv,
       StreamTypeOK, FirstComesFirst, RegisteredIsMap, LoopMayGoOn, DisconnectSticks, LostStreamIsRetried
<1> QED BY <1>1, <1>2, <1>3, <1>4, <1>5, <1>6, <1>7, <1>8, <1>9, <1>10, <1>11, <1>12, <1>13, <1>14, <1>15
        DEF StreamNext

LEMMA StreamInvSafe == StreamInv => StreamSafe
BY DEF StreamInv, RegisteredIsMap, DisconnectSticks, StreamSafe, SubscriptionsSurvive, DisconnectHolds

\* KiwoomBrokerageVendor over KiwoomWsClient: what a caller was told is subscribed is
\* in the map that every reconnect replays, a lost stream is retried unless it was
\* given up for a reason, and a disconnect holds unless it raced the loop's close.
THEOREM StreamIsSafe == StreamSpec => []StreamSafe
BY StreamInitInv, StreamStep, StreamInvSafe, PTL DEF StreamSpec

-----------------------------------------------------------------------------
(* TickIngest: nothing is skipped and nothing overtaken without a reason.     *)

FrameRecord == [at: Nat, await: {"none", "warning", "sinks", "done"}]

\* A tick that has been recorded: in a candle, or filed with the reason it was not.
Recorded(e) == e \in taken \/ \E l \in letters : l.entry = e /\ l.reason # "warned"

\* Where a frame is: it begins on arrival, never leaves its entries, reports only ticks
\* with a warning, and is done at its end.
FramesAreOrderly ==
    \A f \in WireFrame :
        /\ frameTask[f].at <= Len(Entries(f))
        /\ f > wirePos => frameTask[f] = FrameNew
        /\ frameTask[f].await = "warning" => /\ frameTask[f].at >= 1
                                             /\ KindOf(<<f, frameTask[f].at>>) = "tick"
                                             /\ EntryAt(<<f, frameTask[f].at>>).lacks # {}
        /\ frameTask[f].await = "sinks" /\ frameTask[f].at = 0 => Len(Entries(f)) = 0
        /\ frameTask[f].await = "done" => frameTask[f].at = Len(Entries(f))

\* Entries are counted under their own kind, as far as the frame has come; all ticks up
\* to there are recorded, but for the one whose warning is being written.
EntriesFollow ==
    \A e \in EntryIds :
        /\ \A k \in EntryKinds : e \in dispatched[k] => k = KindOf(e)
        /\ e[2] <= frameTask[e[1]].at => e \in dispatched[KindOf(e)]
        /\ KindOf(e) = "tick" /\ e[2] <= frameTask[e[1]].at => 
              Recorded(e) \/ (frameTask[e[1]].await = "warning" /\ e[2] = frameTask[e[1]].at)

\* The builder's clock shows a tick of a frame that has arrived.
ClockIsTaken ==
    /\ \A e \in taken : e[1] <= wirePos
    /\ lastSource = 0 \/ \E e \in taken : lastSource = EntryAt(e).at

TickShape ==
    /\ wirePos \in 0..Len(WireFrames) /\ frameTask \in [WireFrame -> FrameRecord]
    /\ dispatched \in [EntryKinds -> SUBSET (WireFrame \X Nat)]
    /\ letterRows \subseteq letters /\ latestPrice \in EntryIds \cup {NoEntry}
    /\ lastSource \in Nat /\ taken \subseteq EntryIds /\ letterFaults \in 0..MaxLetterFaults

TickInv == TickShape /\ FramesAreOrderly /\ EntriesFollow /\ ClockIsTaken /\ TicksInOrder

LEMMA WireFacts ==
    /\ Len(WireFrames) \in Nat /\ MaxLetterFaults \in Nat
    /\ \A f \in WireFrame : Entries(f) \in Seq(WireEntry) /\ Len(Entries(f)) \in Nat
                            /\ WireFrames[f].shape \in {"real", "control", "garbage"}
    /\ \A f \in WireFrame, i \in Nat : <<f, i>> \in EntryIds <=> i \in 1..Len(Entries(f))
    /\ \A e \in EntryIds : /\ e[1] \in WireFrame /\ e[2] \in 1..Len(Entries(e[1])) /\ e = <<e[1], e[2]>>
                           /\ EntryAt(e) \in WireEntry /\ EntryAt(e).at \in Nat
                           /\ KindOf(e) \in EntryKinds
    /\ NoEntry \notin EntryIds
<1>1. Len(WireFrames) \in Nat /\ MaxLetterFaults \in Nat
  BY WireAssumption
<1>2. ASSUME NEW f \in WireFrame
      PROVE  /\ Entries(f) \in Seq(WireEntry) /\ Len(Entries(f)) \in Nat
             /\ WireFrames[f].shape \in {"real", "control", "garbage"}
  <2>1. PICK R : /\ R = [shape: {"real", "control", "garbage"}, entries: Seq(WireEntry)]
                 /\ WireFrames \in Seq(R)
    BY WireAssumption, Zenon
  <2>2. WireFrames[f] \in R
    <3>1. WireFrames \in Seq(R) /\ f \in 1..Len(WireFrames)
      BY <2>1 DEF WireFrame
    <3> QED BY <3>1
  <2>3. /\ WireFrames[f].entries \in Seq(WireEntry)
        /\ WireFrames[f].shape \in {"real", "control", "garbage"}
    BY <2>1, <2>2
  <2> QED BY <2>3 DEF Entries
<1>3. ASSUME NEW f \in WireFrame, NEW i \in Nat
      PROVE  <<f, i>> \in EntryIds <=> i \in 1..Len(Entries(f))
  BY <1>2 DEF EntryIds
<1>4. ASSUME NEW e \in EntryIds
      PROVE  /\ e[1] \in WireFrame /\ e[2] \in 1..Len(Entries(e[1])) /\ e = <<e[1], e[2]>>
             /\ EntryAt(e) \in WireEntry /\ EntryAt(e).at \in Nat
             /\ KindOf(e) \in EntryKinds
  <2>1. PICK f \in WireFrame : e \in {f} \X DOMAIN Entries(f)
    BY DEF EntryIds
  <2>2. /\ e[1] = f /\ e[2] \in 1..Len(Entries(f)) /\ e = <<e[1], e[2]>>
    BY <1>2, <2>1
  <2>3. EntryAt(e) \in WireEntry /\ EntryAt(e).at \in Nat
    <3>1. EntryAt(e) \in WireEntry
      BY <1>2, <2>2 DEF EntryAt
    <3> QED BY <3>1 DEF WireEntry
  <2>4. KindOf(e) \in EntryKinds
    <3>1. PICK r : r = EntryAt(e)
      OBVIOUS
    <3>2. /\ ParseTradeTick0B(r) \in EntryKinds /\ ParseOrderbook0D(r) \in EntryKinds
          /\ ParseMarketIndex0J(r) \in EntryKinds /\ ParseMarketBreadth0U(r) \in EntryKinds
          /\ "dead-letter" \in EntryKinds
      BY DEF ParseTradeTick0B, ParseOrderbook0D, ParseMarketIndex0J, ParseMarketBreadth0U, EntryKinds
    <3> QED BY <3>1, <3>2 DEF KindOf, DispatchEntry
  <2> QED BY <2>1, <2>2, <2>3, <2>4
<1>5. NoEntry \notin EntryIds
  BY <1>1, <1>4 DEF NoEntry, WireFrame
<1> QED BY <1>1, <1>2, <1>3, <1>4, <1>5

LEMMA TickInitInv == TickInit => TickInv
<1> SUFFICES ASSUME TickInit PROVE TickInv
  OBVIOUS
<1>1. TickShape
  BY WireFacts DEF TickInit, TickShape, FrameNew, FrameRecord
<1>2. \A f \in WireFrame : frameTask[f] = FrameNew /\ FrameNew.at = 0 /\ FrameNew.await = "none"
  BY DEF TickInit, FrameNew
<1>3. FramesAreOrderly
  BY <1>2, WireFacts DEF FramesAreOrderly
<1>4. EntriesFollow
  BY <1>2, WireFacts DEF EntriesFollow, TickInit
<1>5. ClockIsTaken /\ TicksInOrder
  BY DEF ClockIsTaken, TicksInOrder, TickInit
<1> QED BY <1>1, <1>3, <1>4, <1>5 DEF TickInv

\* A tick at the head of its frame without a warning is not behind the clock when its
\* frame arrives.
LEMMA HeadIsNew ==
    ASSUME TickInv, NEW e \in EntryIds, e[1] = wirePos + 1
    PROVE  EntryAt(e).at >= lastSource
<1>1. CASE lastSource = 0
  BY <1>1, WireFacts
<1>2. ASSUME NEW d \in taken, lastSource = EntryAt(d).at
      PROVE  EntryAt(e).at >= lastSource
  <2>1. d \in EntryIds /\ d[1] <= wirePos /\ wirePos \in Nat
    BY WireFacts DEF TickInv, TickShape, ClockIsTaken
  <2>2. d[1] < e[1]
    BY <2>1, WireFacts DEF WireFrame
  <2>3. EntryAt(d).at <= EntryAt(e).at
    BY <2>1, <2>2, WireAssumption
  <2> QED BY <1>2, <2>1, <2>3, WireFacts
<1> QED BY <1>1, <1>2 DEF TickInv, ClockIsTaken

\* What recording a tick does: it is in a candle or filed, and the order is kept if
\* the entry had to wait or is not behind the clock.
LEMMA RecordTickMoves ==
    ASSUME TickInv, NEW e \in EntryIds, RecordTick(e), e[1] <= wirePos',
           wirePos' \in 0..Len(WireFrames), wirePos <= wirePos',
           e \in MayWait \/ EntryAt(e).at >= lastSource
    PROVE  /\ Recorded(e)' /\ taken \subseteq taken' /\ letters \subseteq letters'
           /\ latestPrice' \in EntryIds /\ lastSource' \in Nat /\ taken' \subseteq EntryIds
           /\ ClockIsTaken' /\ TicksInOrder'
<1>1. lastSource \in Nat /\ EntryAt(e).at \in Nat /\ taken \subseteq EntryIds
  BY WireFacts DEF TickInv, TickShape
<1>2. CASE Rejection(e) = "none"
  <2>1. /\ latestPrice' = e /\ taken' = taken \cup {e} /\ lastSource' = EntryAt(e).at
        /\ letters' = letters
    BY <1>2 DEF RecordTick
  <2>2. ClockIsTaken'
    <3>1. \A d \in taken : d[1] <= wirePos'
      BY WireFacts DEF TickInv, TickShape, ClockIsTaken, WireFrame
    <3>2. \A d \in taken' : d[1] <= wirePos'
      BY <2>1, <3>1
    <3>3. e \in taken' /\ lastSource' = EntryAt(e).at
      BY <2>1
    <3> QED BY <3>2, <3>3 DEF ClockIsTaken
  <2>3. TicksInOrder'
    BY <1>1, <2>1 DEF TickInv, TicksInOrder
  <2> QED BY <1>1, <2>1, <2>2, <2>3 DEF Recorded
<1>3. CASE Rejection(e) # "none"
  <2>1. /\ latestPrice' = e /\ taken' = taken /\ lastSource' = lastSource
        /\ letters' = letters \cup {Letter(e, Rejection(e))}
    BY <1>3 DEF RecordTick
  <2>2. Letter(e, Rejection(e)).entry = e /\ Letter(e, Rejection(e)).reason = Rejection(e)
    BY DEF Letter
  <2>3. Rejection(e) # "warned"
    BY DEF Rejection
  <2>4. Rejection(e) = "stale-tick" => EntryAt(e).at < lastSource
    BY DEF Rejection
  <2>5. Rejection(e) = "stale-tick" => e \in MayWait
    BY <1>1, <2>4
  <2>6. ClockIsTaken'
    <3>1. \A d \in taken : d[1] <= wirePos'
      BY WireFacts DEF TickInv, TickShape, ClockIsTaken, WireFrame
    <3> QED BY <2>1, <3>1 DEF TickInv, ClockIsTaken
  <2>7. TicksInOrder'
    BY <1>1, <2>1, <2>2, <2>5 DEF TickInv, TicksInOrder
  <2> QED BY <1>1, <2>1, <2>2, <2>3, <2>6, <2>7 DEF Recorded
<1> QED BY <1>2, <1>3

LEMMA RecordTickRecords ==
    ASSUME NEW e, RecordTick(e)
    PROVE  Recorded(e)'
<1>1. CASE Rejection(e) = "none"
  BY <1>1 DEF RecordTick, Recorded
<1>2. CASE Rejection(e) # "none"
  <2>1. Letter(e, Rejection(e)) \in letters'
    BY <1>2 DEF RecordTick
  <2>2. Letter(e, Rejection(e)).entry = e /\ Letter(e, Rejection(e)).reason # "warned"
    BY DEF Letter, Rejection
  <2> QED BY <2>1, <2>2 DEF Recorded
<1> QED BY <1>1, <1>2

\* Entries are only counted under their kinds; those that frame f passes on its way to
\* its entry i are counted and recorded; and the await there is one that it may be in.
CountsGrow ==
    /\ \A k \in EntryKinds : dispatched[k] \subseteq dispatched'[k]
    /\ \A e \in EntryIds, k \in EntryKinds :
           e \in dispatched'[k] => e \in dispatched[k] \/ k = KindOf(e)
EntriesPassed(f, i, a) ==
    \A e \in EntryIds : e[1] = f /\ e[2] <= i =>
        /\ e[2] <= frameTask[f].at \/ e \in dispatched'[KindOf(e)]
        /\ KindOf(e) = "tick" =>
              \/ e[2] < frameTask[f].at
              \/ e[2] = frameTask[f].at /\ frameTask[f].await # "warning"
              \/ Recorded(e)'
              \/ a = "warning" /\ e[2] = i
MayAwait(f, i, a) ==
    /\ a = "warning" => i >= 1 /\ KindOf(<<f, i>>) = "tick" /\ EntryAt(<<f, i>>).lacks # {}
    /\ a = "sinks" /\ i = 0 => Len(Entries(f)) = 0
    /\ a = "done" => i = Len(Entries(f))

\* A frame moves on, if the entries it passes are counted and recorded.
LEMMA FrameMoves ==
    ASSUME TickInv, NEW f \in WireFrame, NEW i \in 0..Len(Entries(f)),
           NEW a \in {"warning", "sinks", "done"},
           frameTask' = [frameTask EXCEPT ![f] = [at |-> i, await |-> a]],
           wirePos' \in Nat, wirePos <= wirePos', f <= wirePos',
           taken \subseteq taken', letters \subseteq letters',
           CountsGrow, EntriesPassed(f, i, a), MayAwait(f, i, a)
    PROVE  frameTask' \in [WireFrame -> FrameRecord] /\ FramesAreOrderly' /\ EntriesFollow'
<1>0. /\ frameTask \in [WireFrame -> FrameRecord] /\ wirePos \in Nat /\ Len(Entries(f)) \in Nat
      /\ [at |-> i, await |-> a] \in FrameRecord
  BY WireFacts DEF TickInv, TickShape, FrameRecord
<1>1. /\ frameTask'[f].at = i /\ frameTask'[f].await = a
      /\ \A g \in WireFrame : g # f => frameTask'[g] = frameTask[g]
  BY <1>0
<1>2. frameTask' \in [WireFrame -> FrameRecord]
  BY <1>0
<1>3. FramesAreOrderly'
  <2> SUFFICES ASSUME NEW g \in WireFrame
               PROVE  /\ frameTask'[g].at <= Len(Entries(g))
                      /\ g > wirePos' => frameTask'[g] = FrameNew
                      /\ frameTask'[g].await = "warning" =>
                            /\ frameTask'[g].at >= 1 /\ KindOf(<<g, frameTask'[g].at>>) = "tick"
                            /\ EntryAt(<<g, frameTask'[g].at>>).lacks # {}
                      /\ frameTask'[g].await = "sinks" /\ frameTask'[g].at = 0 => Len(Entries(g)) = 0
                      /\ frameTask'[g].await = "done" => frameTask'[g].at = Len(Entries(g))
    BY DEF FramesAreOrderly
  <2>1. CASE g = f
    <3>1. frameTask'[g].at = i /\ frameTask'[g].await = a /\ ~(g > wirePos') /\ g = f
      BY <1>1, <2>1 DEF WireFrame
    <3>2. i \in Nat /\ i <= Len(Entries(f)) /\ (i # 0 => i >= 1)
      BY WireFacts
    <3> QED BY <3>1, <3>2 DEF MayAwait
  <2>2. CASE g # f
    <3>1. g > wirePos' => g > wirePos
      BY <1>0, WireFacts DEF WireFrame
    <3> QED BY <1>1, <2>2, <3>1 DEF TickInv, FramesAreOrderly
  <2> QED BY <2>1, <2>2
<1>4. \A e \in EntryIds : Recorded(e) => Recorded(e)'
  BY DEF Recorded
<1>5. EntriesFollow'
  <2> SUFFICES ASSUME NEW e \in EntryIds
               PROVE  /\ \A k \in EntryKinds : e \in dispatched'[k] => k = KindOf(e)
                      /\ e[2] <= frameTask'[e[1]].at => e \in dispatched'[KindOf(e)]
                      /\ KindOf(e) = "tick" /\ e[2] <= frameTask'[e[1]].at =>
                           \/ Recorded(e)'
                           \/ frameTask'[e[1]].await = "warning" /\ e[2] = frameTask'[e[1]].at
    BY DEF EntriesFollow
  <2>1. /\ e[1] \in WireFrame /\ KindOf(e) \in EntryKinds /\ e[2] \in Nat
        /\ frameTask[e[1]].at \in Nat
    BY <1>0, WireFacts DEF FrameRecord
  <2>2. /\ \A k \in EntryKinds : e \in dispatched[k] => k = KindOf(e)
        /\ e[2] <= frameTask[e[1]].at => e \in dispatched[KindOf(e)]
        /\ KindOf(e) = "tick" /\ e[2] <= frameTask[e[1]].at =>
              Recorded(e) \/ (frameTask[e[1]].await = "warning" /\ e[2] = frameTask[e[1]].at)
    BY DEF TickInv, EntriesFollow
  <2>3. \A k \in EntryKinds : e \in dispatched'[k] => k = KindOf(e)
    BY <2>2 DEF CountsGrow
  <2>4. CASE e[1] = f
    BY <1>0, <1>1, <1>4, <2>1, <2>2, <2>3, <2>4 DEF CountsGrow, EntriesPassed
  <2>5. CASE e[1] # f
    BY <1>1, <1>4, <2>1, <2>2, <2>3, <2>5 DEF CountsGrow
  <2> QED BY <2>4, <2>5
<1> QED BY <1>2, <1>3, <1>5

\* Counting an entry under its kind.
LEMMA EntryCounted ==
    ASSUME TickInv, NEW f \in WireFrame, NEW i \in Nat, NEW kind \in EntryKinds,
           dispatched' = [dispatched EXCEPT ![kind] = @ \cup {<<f, i>>}],
           <<f, i>> \in EntryIds => kind = KindOf(<<f, i>>)
    PROVE  dispatched' \in [EntryKinds -> SUBSET (WireFrame \X Nat)] /\ CountsGrow
           /\ <<f, i>> \in dispatched'[kind]
BY DEF TickInv, TickShape, CountsGrow

\* The next entry of a frame.
LEMMA HandleResultInv ==
    ASSUME TickInv, NEW f \in WireFrame, NEW i \in 1..Len(Entries(f)), HandleResult(f, i),
           frameTask[f].at = i - 1, frameTask[f].await # "warning", i = 1 => f = wirePos + 1,
           wirePos' \in 0..Len(WireFrames), wirePos <= wirePos', f <= wirePos',
           letterRows' \subseteq letters, letterFaults' \in 0..MaxLetterFaults
    PROVE  TickInv'
<1> DEFINE e == <<f, i>>
<1>0. /\ e \in EntryIds /\ KindOf(e) \in EntryKinds /\ e[1] = f /\ e[2] = i
      /\ wirePos \in Nat /\ wirePos' \in Nat /\ frameTask[f].at \in Nat /\ i \in Nat /\ f \in Nat
  BY WireFacts DEF TickInv, TickShape, WireFrame, FrameRecord
<1>1. e \in MayWait \/ EntryAt(e).lacks # {} \/ EntryAt(e).at >= lastSource
  <2>1. CASE i = 1
    BY <1>0, <2>1, HeadIsNew
  <2>2. CASE i # 1
    BY <1>0, <2>2 DEF MayWait
  <2> QED BY <2>1, <2>2
<1> HIDE DEF e
<1>2. dispatched' = [dispatched EXCEPT ![KindOf(e)] = @ \cup {<<f, i>>}]
  BY DEF HandleResult, e
<1>3. /\ dispatched' \in [EntryKinds -> SUBSET (WireFrame \X Nat)]
      /\ CountsGrow /\ e \in dispatched'[KindOf(e)]
  BY <1>0, <1>2, EntryCounted DEF e
<1>4. PICK a \in {"warning", "sinks"} :
        /\ frameTask' = [frameTask EXCEPT ![f] = [at |-> i, await |-> a]]
        /\ a = "warning" => KindOf(e) = "tick" /\ EntryAt(e).lacks # {}
        /\ KindOf(e) = "tick" => a = "warning" \/ RecordTick(e)
        /\ \/ RecordTick(e) /\ EntryAt(e).lacks = {}
           \/ /\ \E r \in {"warned", LetterReason(e)} : letters' = letters \cup {Letter(e, r)}
              /\ UNCHANGED <<latestPrice, lastSource, taken>>
           \/ UNCHANGED <<letters, latestPrice, lastSource, taken>>
  <2>1. CASE /\ KindOf(e) = "tick" /\ EntryAt(e).lacks # {}
             /\ letters' = letters \cup {Letter(e, "warned")}
             /\ frameTask' = [frameTask EXCEPT ![f] = [at |-> i, await |-> "warning"]]
             /\ UNCHANGED <<latestPrice, lastSource, taken>>
    <3>1. \E r \in {"warned", LetterReason(e)} : letters' = letters \cup {Letter(e, r)}
      BY <2>1
    <3> QED BY <2>1, <3>1
  <2>2. CASE /\ KindOf(e) = "tick" /\ EntryAt(e).lacks = {} /\ RecordTick(e)
             /\ frameTask' = [frameTask EXCEPT ![f] = [at |-> i, await |-> "sinks"]]
    BY <2>2
  <2>3. CASE /\ KindOf(e) = "dead-letter" /\ letters' = letters \cup {Letter(e, LetterReason(e))}
             /\ frameTask' = [frameTask EXCEPT ![f] = [at |-> i, await |-> "sinks"]]
             /\ UNCHANGED <<latestPrice, lastSource, taken>>
    BY <2>3
  <2>4. CASE /\ KindOf(e) # "tick" /\ UNCHANGED <<letters, latestPrice, lastSource, taken>>
             /\ frameTask' = [frameTask EXCEPT ![f] = [at |-> i, await |-> "sinks"]]
    BY <2>4
  <2> QED BY <2>1, <2>2, <2>3, <2>4 DEF HandleResult, e, sinkVars
<1>5. /\ taken \subseteq taken' /\ letters \subseteq letters'
      /\ latestPrice' \in EntryIds \cup {NoEntry} /\ lastSource' \in Nat /\ taken' \subseteq EntryIds
      /\ ClockIsTaken' /\ TicksInOrder' /\ (KindOf(e) = "tick" => a = "warning" \/ Recorded(e)')
  <2>1. CASE RecordTick(e) /\ EntryAt(e).lacks = {}
    BY <1>0, <1>1, <2>1, RecordTickMoves
  <2>2. CASE /\ letters \subseteq letters' /\ UNCHANGED <<latestPrice, lastSource, taken>>
             /\ \A l \in letters' \ letters : l.reason # "stale-tick"
    <3>1. \A d \in taken : d[1] <= wirePos'
      BY <1>0, WireFacts DEF TickInv, TickShape, ClockIsTaken, WireFrame
    <3>2. ClockIsTaken' /\ TicksInOrder'
      BY <2>2, <3>1 DEF TickInv, ClockIsTaken, TicksInOrder
    <3>3. ~RecordTick(e) \/ Recorded(e)'
      BY RecordTickRecords
    <3> QED BY <1>4, <2>2, <3>2, <3>3 DEF TickInv, TickShape
  <2>3. ASSUME NEW r \in {"warned", LetterReason(e)}, letters' = letters \cup {Letter(e, r)}
        PROVE  /\ letters \subseteq letters' /\ \A l \in letters' \ letters : l.reason # "stale-tick"
    BY <2>3 DEF Letter, LetterReason
  <2> QED BY <1>4, <2>1, <2>2, <2>3
<1>6. EntriesPassed(f, i, a)
  <2> SUFFICES ASSUME NEW d \in EntryIds, d[1] = f, d[2] <= i, d[2] > frameTask[f].at
               PROVE  /\ d \in dispatched'[KindOf(d)]
                      /\ KindOf(d) = "tick" => Recorded(d)' \/ a = "warning"
                      /\ d[2] = i
    BY <1>0, WireFacts DEF EntriesPassed
  <2>1. d[2] = i /\ d = e
    BY <1>0, WireFacts DEF e
  <2> QED BY <1>3, <1>5, <2>1
<1>7. frameTask' \in [WireFrame -> FrameRecord] /\ FramesAreOrderly' /\ EntriesFollow'
  <2>1. /\ a \in {"warning", "sinks", "done"} /\ i \in 0..Len(Entries(f))
        /\ MayAwait(f, i, a)
    BY <1>0, <1>4 DEF e, MayAwait
  <2>2. wirePos' \in Nat /\ taken \subseteq taken' /\ letters \subseteq letters'
    BY <1>0, <1>5
  <2> QED BY <1>3, <1>4, <1>6, <2>1, <2>2, FrameMoves
<1> QED BY <1>3, <1>5, <1>7 DEF TickInv, TickShape

\* Frames that have no entries, and frames at their end.
LEMMA FrameEnds ==
    ASSUME TickInv, NEW f \in WireFrame, NEW a \in {"sinks", "done"},
           frameTask' = [frameTask EXCEPT ![f] = [at |-> Len(Entries(f)), await |-> a]],
           frameTask[f].at = Len(Entries(f)), frameTask[f].await # "warning",
           a = "sinks" => Len(Entries(f)) = 0,
           wirePos' \in 0..Len(WireFrames), wirePos <= wirePos', f <= wirePos',
           UNCHANGED <<latestPrice, lastSource, taken>>, letters \subseteq letters',
           \A l \in letters' \ letters : l.reason # "stale-tick",
           dispatched' \in [EntryKinds -> SUBSET (WireFrame \X Nat)], CountsGrow,
           letterRows' \subseteq letters, letterFaults' \in 0..MaxLetterFaults
    PROVE  TickInv'
<1>0. /\ Len(Entries(f)) \in 0..Len(Entries(f)) /\ a \in {"warning", "sinks", "done"}
      /\ wirePos' \in Nat /\ wirePos \in Nat
  BY WireFacts DEF TickInv, TickShape
<1>1. EntriesPassed(f, Len(Entries(f)), a) /\ MayAwait(f, Len(Entries(f)), a)
  BY WireFacts DEF EntriesPassed, MayAwait
<1>2. frameTask' \in [WireFrame -> FrameRecord] /\ FramesAreOrderly' /\ EntriesFollow'
  BY <1>0, <1>1, FrameMoves
<1>3. \A d \in taken : d[1] <= wirePos'
  BY <1>0, WireFacts DEF TickInv, TickShape, ClockIsTaken, WireFrame
<1>4. ClockIsTaken' /\ TicksInOrder'
  BY <1>3 DEF TickInv, ClockIsTaken, TicksInOrder
<1> QED BY <1>2, <1>4 DEF TickInv, TickShape

\* What is known of one frame.
LEMMA FrameIsOrderly ==
    ASSUME TickInv, NEW f \in WireFrame
    PROVE  /\ wirePos \in Nat /\ f \in Nat /\ Len(Entries(f)) \in Nat
           /\ frameTask[f].at \in 0..Len(Entries(f))
           /\ f > wirePos => frameTask[f] = FrameNew
           /\ frameTask[f].await = "warning" => /\ frameTask[f].at >= 1
                                                /\ KindOf(<<f, frameTask[f].at>>) = "tick"
                                                /\ EntryAt(<<f, frameTask[f].at>>).lacks # {}
           /\ frameTask[f].await = "sinks" /\ frameTask[f].at = 0 => Len(Entries(f)) = 0
           /\ frameTask[f].await = "done" => frameTask[f].at = Len(Entries(f))
           /\ frameTask[f].await # "none" => f <= wirePos
<1>1. wirePos \in Nat /\ f \in Nat /\ Len(Entries(f)) \in Nat /\ frameTask[f].at \in Nat
  BY WireFacts DEF TickInv, TickShape, WireFrame, FrameRecord
<1>2. FrameNew.await = "none"
  BY DEF FrameNew
<1>3. /\ frameTask[f].at <= Len(Entries(f))
      /\ f > wirePos => frameTask[f] = FrameNew
      /\ frameTask[f].await = "warning" => /\ frameTask[f].at >= 1
                                           /\ KindOf(<<f, frameTask[f].at>>) = "tick"
                                           /\ EntryAt(<<f, frameTask[f].at>>).lacks # {}
      /\ frameTask[f].await = "sinks" /\ frameTask[f].at = 0 => Len(Entries(f)) = 0
      /\ frameTask[f].await = "done" => frameTask[f].at = Len(Entries(f))
  BY Zenon DEF TickInv, FramesAreOrderly
<1>4. frameTask[f].at \in 0..Len(Entries(f)) /\ (f <= wirePos \/ f > wirePos)
  BY <1>1, <1>3
<1> QED BY <1>1, <1>2, <1>3, <1>4

LEMMA FrameArrivesInv ==
    ASSUME TickInv, FrameArrives
    PROVE  TickInv'
<1> DEFINE f == wirePos + 1
<1>0. /\ wirePos \in Nat /\ f \in WireFrame /\ f \in Nat /\ wirePos' = f /\ f <= wirePos'
      /\ wirePos' \in 0..Len(WireFrames) /\ wirePos <= wirePos'
  BY WireFacts DEF TickInv, TickShape, WireFrame, FrameArrives
<1>1. /\ frameTask[f] = FrameNew /\ frameTask[f].at = 0 /\ frameTask[f].await = "none"
  <2>1. frameTask[f] = FrameNew
    <3>1. f > wirePos
      BY <1>0
    <3> QED BY <1>0, <3>1, FrameIsOrderly
  <2> QED BY <2>1 DEF FrameNew
<1>2. letterRows' \subseteq letters /\ letterFaults' \in 0..MaxLetterFaults
  BY DEF TickInv, TickShape, FrameArrives
<1>3. WireFrames[f].shape # "real" \/ Entries(f) = <<>> => Len(Entries(f)) = 0
  BY <1>0, WireAssumption
<1>4. <<f, 0>> \notin EntryIds
  BY <1>0, WireFacts
<1> HIDE DEF f
<1>5. CASE /\ WireFrames[f].shape = "control" /\ frameTask' = FrameDone(f)
           /\ dispatched' = [dispatched EXCEPT !["ignored"] = @ \cup {<<f, 0>>}]
           /\ UNCHANGED sinkVars
  <2>1. dispatched' \in [EntryKinds -> SUBSET (WireFrame \X Nat)] /\ CountsGrow
    BY <1>0, <1>4, <1>5, EntryCounted DEF EntryKinds
  <2>2. /\ UNCHANGED <<latestPrice, lastSource, taken, letters>> /\ Len(Entries(f)) = 0
        /\ frameTask' = [frameTask EXCEPT ![f] = [at |-> Len(Entries(f)), await |-> "done"]]
    BY <1>3, <1>5 DEF sinkVars, FrameDone
  <2> QED BY <1>0, <1>1, <1>2, <2>1, <2>2, FrameEnds
<1>6. CASE /\ WireFrames[f].shape = "garbage"
           /\ frameTask' = [frameTask EXCEPT ![f] = [at |-> 0, await |-> "sinks"]]
           /\ dispatched' = [dispatched EXCEPT !["dead-letter"] = @ \cup {<<f, 0>>}]
           /\ letters' = letters \cup {Letter(<<f, 0>>, "parse-error")}
           /\ UNCHANGED <<latestPrice, lastSource, taken>>
  <2>1. dispatched' \in [EntryKinds -> SUBSET (WireFrame \X Nat)] /\ CountsGrow
    BY <1>0, <1>4, <1>6, EntryCounted DEF EntryKinds
  <2>2. /\ letters \subseteq letters' /\ \A l \in letters' \ letters : l.reason # "stale-tick"
    BY <1>6 DEF Letter
  <2>3. /\ Len(Entries(f)) = 0
        /\ frameTask' = [frameTask EXCEPT ![f] = [at |-> Len(Entries(f)), await |-> "sinks"]]
    BY <1>3, <1>6
  <2> QED BY <1>0, <1>1, <1>2, <1>6, <2>1, <2>2, <2>3, FrameEnds
<1>7. CASE /\ Entries(f) = <<>> /\ frameTask' = FrameDone(f) /\ UNCHANGED <<dispatched, sinkVars>>
  <2>1. dispatched' \in [EntryKinds -> SUBSET (WireFrame \X Nat)] /\ CountsGrow
    BY <1>7 DEF TickInv, TickShape, CountsGrow
  <2>2. /\ UNCHANGED <<latestPrice, lastSource, taken, letters>> /\ Len(Entries(f)) = 0
        /\ frameTask' = [frameTask EXCEPT ![f] = [at |-> Len(Entries(f)), await |-> "done"]]
    BY <1>3, <1>7 DEF sinkVars, FrameDone
  <2> QED BY <1>0, <1>1, <1>2, <2>1, <2>2, FrameEnds
<1>8. CASE Entries(f) # <<>> /\ HandleResult(f, 1)
  <2>1. 1 \in 1..Len(Entries(f))
    BY <1>0, <1>8, WireFacts
  <2>2. frameTask[f].at = 1 - 1 /\ f = wirePos + 1
    BY <1>1 DEF f
  <2> QED BY <1>0, <1>1, <1>2, <1>8, <2>1, <2>2, HandleResultInv
<1> QED BY <1>5, <1>6, <1>7, <1>8 DEF FrameArrives, f

\* A write of dead letters stores some of the letters, or fails.
LEMMA LettersWrittenTypes ==
    ASSUME TickInv, NEW f \in WireFrame, LettersWritten(f)
    PROVE  letterRows' \subseteq letters /\ letterFaults' \in 0..MaxLetterFaults
BY WireFacts DEF TickInv, TickShape, LettersWritten

LEMMA WarningWrittenInv ==
    ASSUME TickInv, NEW f \in WireFrame, WarningWritten(f)
    PROVE  TickInv'
<1>i. PICK i : i = frameTask[f].at
  OBVIOUS
<1>e. PICK e : e = <<f, i>>
  OBVIOUS
<1>0. /\ f <= wirePos /\ wirePos \in Nat /\ f \in Nat /\ i \in 0..Len(Entries(f)) /\ i >= 1
      /\ frameTask[f].await = "warning" /\ EntryAt(e).lacks # {} /\ KindOf(e) = "tick"
  BY <1>i, <1>e, FrameIsOrderly DEF WarningWritten
<1>1. e \in EntryIds /\ e[1] = f /\ e[2] = i /\ e \in MayWait
  <2>1. i \in Nat /\ i \in 1..Len(Entries(f))
    BY <1>0
  <2>2. e \in EntryIds
    BY <1>e, <2>1, WireFacts
  <2> QED BY <1>e, <1>0, <2>2 DEF MayWait
<1>2. RecordTick(e) /\ UNCHANGED <<wirePos, dispatched>> /\ LettersWritten(f)
  BY <1>i, <1>e DEF WarningWritten
<1>3. /\ Recorded(e)' /\ taken \subseteq taken' /\ letters \subseteq letters'
      /\ latestPrice' \in EntryIds /\ lastSource' \in Nat /\ taken' \subseteq EntryIds
      /\ ClockIsTaken' /\ TicksInOrder'
  <2>1. /\ wirePos' \in 0..Len(WireFrames) /\ wirePos <= wirePos' /\ e[1] <= wirePos'
    BY <1>0, <1>1, <1>2 DEF TickInv, TickShape
  <2>2. e \in MayWait \/ EntryAt(e).at >= lastSource
    BY <1>1
  <2> QED BY <1>1, <1>2, <2>1, <2>2, RecordTickMoves
<1>4. frameTask' = [frameTask EXCEPT ![f] = [at |-> i, await |-> "sinks"]]
  <2>1. frameTask[f] \in FrameRecord /\ frameTask' = [frameTask EXCEPT ![f].await = "sinks"]
    BY DEF TickInv, TickShape, WarningWritten
  <2>2. [frameTask[f] EXCEPT !.await = "sinks"] = [at |-> i, await |-> "sinks"]
    BY <1>i, <2>1 DEF FrameRecord
  <2> QED BY <2>1, <2>2
<1>5. CountsGrow /\ EntriesPassed(f, i, "sinks") /\ MayAwait(f, i, "sinks")
  <2>1. CountsGrow
    BY <1>2 DEF CountsGrow
  <2>2. MayAwait(f, i, "sinks")
    BY <1>e, <1>0 DEF MayAwait
  <2>3. EntriesPassed(f, i, "sinks")
    <3> SUFFICES ASSUME NEW d \in EntryIds, d[1] = f, d[2] <= i
                 PROVE  /\ d[2] <= frameTask[f].at
                        /\ d[2] < frameTask[f].at \/ Recorded(d)'
      BY DEF EntriesPassed
    <3>1. d = <<d[1], d[2]>> /\ d[2] \in Nat
      BY WireFacts
    <3>2. d[2] < i \/ d = e
      BY <1>e, <1>0, <3>1
    <3>3. d[2] < i \/ Recorded(d)'
      BY <1>3, <3>2
    <3> QED BY <1>i, <3>3
  <2> QED BY <2>1, <2>2, <2>3
<1>6. frameTask' \in [WireFrame -> FrameRecord] /\ FramesAreOrderly' /\ EntriesFollow'
  <2>1. wirePos' \in Nat /\ wirePos <= wirePos' /\ f <= wirePos'
    BY <1>0, <1>2
  <2> QED BY <1>0, <1>3, <1>4, <1>5, <2>1, FrameMoves
<1>7. TickShape'
  BY <1>2, <1>3, <1>6, LettersWrittenTypes DEF TickInv, TickShape
<1> QED BY <1>3, <1>6, <1>7 DEF TickInv

LEMMA SinksWrittenInv ==
    ASSUME TickInv, NEW f \in WireFrame, SinksWritten(f)
    PROVE  TickInv'
<1>0. /\ f <= wirePos /\ wirePos \in Nat /\ f \in Nat /\ frameTask[f].at \in 0..Len(Entries(f))
      /\ frameTask[f].await = "sinks" /\ wirePos' = wirePos /\ wirePos \in 0..Len(WireFrames)
      /\ Len(Entries(f)) \in Nat
  <2>1. frameTask[f].await = "sinks" /\ wirePos' = wirePos /\ wirePos \in 0..Len(WireFrames)
    BY DEF SinksWritten, TickInv, TickShape
  <2> QED BY <2>1, FrameIsOrderly
<1>1. letterRows' \subseteq letters /\ letterFaults' \in 0..MaxLetterFaults
  BY LettersWrittenTypes DEF SinksWritten
<1>2. CASE frameTask[f].at < Len(Entries(f))
  <2>1. frameTask[f].at # 0
    <3>1. frameTask[f].at = 0 => Len(Entries(f)) = 0
      BY <1>0 DEF TickInv, FramesAreOrderly
    <3> QED BY <1>0, <1>2, <3>1
  <2>2. PICK i \in 1..Len(Entries(f)) : i = frameTask[f].at + 1 /\ frameTask[f].at = i - 1 /\ i # 1
    BY <1>0, <1>2, <2>1
  <2>3. HandleResult(f, i)
    BY <1>2, <2>2 DEF SinksWritten
  <2>4. /\ wirePos' \in 0..Len(WireFrames) /\ wirePos <= wirePos' /\ f <= wirePos'
    BY <1>0
  <2> QED BY <1>0, <1>1, <2>2, <2>3, <2>4, HandleResultInv
<1>3. CASE ~(frameTask[f].at < Len(Entries(f)))
  <2>1. /\ frameTask[f].at = Len(Entries(f))
        /\ frameTask' = [frameTask EXCEPT ![f] = [at |-> Len(Entries(f)), await |-> "done"]]
        /\ UNCHANGED <<dispatched, letters, latestPrice, lastSource, taken>>
    BY <1>0, <1>3 DEF SinksWritten, FrameDone, sinkVars
  <2>2. dispatched' \in [EntryKinds -> SUBSET (WireFrame \X Nat)] /\ CountsGrow
    BY <2>1 DEF TickInv, TickShape, CountsGrow
  <2>3. /\ wirePos' \in 0..Len(WireFrames) /\ wirePos <= wirePos' /\ f <= wirePos'
    BY <1>0
  <2> QED BY <1>0, <1>1, <2>1, <2>2, <2>3, FrameEnds
<1> QED BY <1>2, <1>3

LEMMA TickStep == TickInv /\ [TickNext]_tickVars => TickInv'
<1> SUFFICES ASSUME TickInv, [TickNext]_tickVars PROVE TickInv'
  OBVIOUS
<1>1. CASE UNCHANGED tickVars
  BY <1>1 DEF tickVars, TickInv, TickShape, FramesAreOrderly, EntriesFollow, Recorded, ClockIsTaken,
     TicksInOrder
<1> QED BY <1>1, FrameArrivesInv, WarningWrittenInv, SinksWrittenInv DEF TickNext

LEMMA TickInvSafe == TickInv => TickTypeOK /\ TicksSafe
<1> SUFFICES ASSUME TickInv PROVE TickTypeOK /\ TicksSafe
  OBVIOUS
<1>1. TickTypeOK
  BY DEF TickInv, TickShape, TickTypeOK, FrameRecord
<1>2. EntriesAccounted
  <2> SUFFICES ASSUME NEW e \in EntryIds, frameTask[e[1]].await = "done"
               PROVE  /\ \A k \in EntryKinds : e \in dispatched[k] <=> k = KindOf(e)
                      /\ KindOf(e) = "tick" =>
                            e \in taken \/ \E l \in letters : l.entry = e /\ l.reason # "warned"
    BY DEF EntriesAccounted
  <2>1. e[1] \in WireFrame /\ e[2] \in 1..Len(Entries(e[1])) /\ KindOf(e) \in EntryKinds
    BY WireFacts
  <2>2. frameTask[e[1]].at = Len(Entries(e[1])) /\ Len(Entries(e[1])) \in Nat
    BY <2>1, WireFacts DEF TickInv, FramesAreOrderly
  <2>3. e[2] <= frameTask[e[1]].at
    BY <2>1, <2>2
  <2> QED BY <2>1, <2>3 DEF TickInv, EntriesFollow, Recorded
<1> QED BY <1>1, <1>2 DEF TicksSafe, TickInv

\* IngestTickUsecase.execute, frames overlapping and dead letters failing: no entry of a
\* frame is skipped or counted twice, each tick ends in a candle or a dead letter, and
\* only entries that had to wait are turned away as stale or show an older price.
THEOREM TicksAreSafe == TickSpec => []TicksSafe
BY TickInitInv, TickStep, TickInvSafe, PTL DEF TickSpec

-----------------------------------------------------------------------------
(* MarketSnapshots: what the dashboard shows is not blanked or rolled back. *)

\* A breadth in hand is of a market and not empty; a refresh of the index values
\* asks only for what it found without a live frame.
MergesCarryBreadth ==
    \A i \in MergeSlots : merge[i].pc # "idle" =>
        merge[i].market \in Markets /\ merge[i].value # 0
FallbacksAreNeeded ==
    \A p \in SnapshotPods : \A s \in fallback[p].todo :
        ~FreshFrame(fallback[p].seen[s])
DashboardType == [pc: {"idle", "fetch", "write"}, previous: OverviewType, fresh: OverviewType]
MergeType == [pc: {"idle", "read", "write"}, market: Markets \cup {"none"},
              value: Snapshot, base: OverviewType]
FallbackType == [pc: {"idle", "write"}, todo: SUBSET IndexKeys,
                 seen: [IndexKeys -> IndexEntry], value: Snapshot]

\* The empty values have their types.
LEMMA EmptySnapshots ==
    /\ NoOverview \in OverviewType /\ NoIndex \in IndexEntry
    /\ DashboardIdle \in DashboardType /\ MergeIdle \in MergeType
    /\ FallbackIdle \in FallbackType /\ FallbackIdle.todo = {}
    /\ DashboardIdle.pc = "idle" /\ MergeIdle.pc = "idle" /\ 0 \in Snapshot
<1>1. 0 \in Snapshot
  BY SnapshotAssumption DEF Snapshot
<1>2. NoOverview \in OverviewType /\ NoIndex \in IndexEntry
  BY <1>1 DEF NoOverview, OverviewType, NoBreadth, NoIndex, IndexEntry
<1>3. [s \in IndexKeys |-> NoIndex] \in [IndexKeys -> IndexEntry]
  BY <1>2
<1>4. DashboardIdle \in DashboardType /\ DashboardIdle.pc = "idle"
  BY <1>2 DEF DashboardIdle, DashboardType
<1>5. MergeIdle \in MergeType /\ MergeIdle.pc = "idle"
  BY <1>1, <1>2 DEF MergeIdle, MergeType
<1>6. FallbackIdle \in FallbackType /\ FallbackIdle.todo = {}
  BY <1>1, <1>3 DEF FallbackIdle, FallbackType
<1> QED BY <1>1, <1>2, <1>4, <1>5, <1>6

SnapshotParts ==
    /\ overview \in OverviewType /\ breadthKey \in [Markets -> Snapshot]
    /\ dashboard \in [SnapshotPods -> DashboardType] /\ merge \in [MergeSlots -> MergeType]
    /\ indexKey \in [IndexKeys -> IndexEntry] /\ fallback \in [SnapshotPods -> FallbackType]
    /\ fxKey \in [rate: Snapshot, base: Snapshot] /\ lastRate \in [SnapshotPods -> Snapshot]
    /\ snapshots \in Snapshot /\ snapshotFaults \in 0..MaxSnapshotFaults

SnapshotInv == SnapshotParts /\ MergesCarryBreadth /\ FallbacksAreNeeded

\* The counters.
LEMMA SnapshotCounters ==
    ASSUME SnapshotParts
    PROVE  /\ NewSnapshot => snapshots' \in Snapshot /\ snapshots' = snapshots + 1
                             /\ snapshots + 1 \in Snapshot /\ snapshots + 1 # 0
           /\ SnapshotFault => snapshotFaults' \in 0..MaxSnapshotFaults
  BY SnapshotAssumption DEF SnapshotParts, Snapshot, NewSnapshot, SnapshotFault

\* The steps of the dashboard's timer.
LEMMA DashboardStep ==
    ASSUME SnapshotInv, NEW p \in SnapshotPods,
           RefreshDashboard(p) \/ FetchDashboard(p) \/ WriteDashboard(p) \/ DashboardFails(p)
    PROVE  SnapshotInv' /\ PartsKept /\ RestYields
<1>t. SnapshotParts
  BY DEF SnapshotInv
<1>0. /\ dashboard \in [SnapshotPods -> DashboardType] /\ dashboard[p] \in DashboardType
      /\ overview \in OverviewType /\ UNCHANGED <<merge, indexKey, fallback>>
  BY <1>t DEF SnapshotParts, RefreshDashboard, FetchDashboard, WriteDashboard,
     DashboardFails, indexVars, fxVars
<1>1. MergesCarryBreadth' /\ FallbacksAreNeeded'
  BY <1>0 DEF SnapshotInv, MergesCarryBreadth, FallbacksAreNeeded
<1>2. RestYields
  BY <1>0 DEF RestYields, FreshFrame
<1>3. CASE RefreshDashboard(p)
  <2>1. PICK e : /\ e = [DashboardIdle EXCEPT !.pc = "fetch", !.previous = overview]
                 /\ dashboard' = [dashboard EXCEPT ![p] = e]
    BY <1>3 DEF RefreshDashboard
  <2>2. e \in DashboardType
    BY <1>0, <2>1, EmptySnapshots DEF DashboardType
  <2>3. SnapshotParts'
    BY <1>t, <1>3, <2>1, <2>2, SnapshotCounters
       DEF SnapshotParts, RefreshDashboard, indexVars, fxVars
  <2>4. PartsKept
    BY <1>3 DEF RefreshDashboard, PartsKept
  <2> QED BY <1>1, <1>2, <2>3, <2>4 DEF SnapshotInv
<1>4. CASE FetchDashboard(p)
  <2>1. PICK flows \in {0, snapshots}, movers \in {0, snapshots} :
          dashboard' = [dashboard EXCEPT ![p].pc = "write",
             ![p].fresh = [flows |-> flows, movers |-> movers, breadth |-> breadthKey]]
    BY <1>4 DEF FetchDashboard
  <2>2. PICK g : g = [flows |-> flows, movers |-> movers, breadth |-> breadthKey]
    OBVIOUS
  <2>3. g \in OverviewType
    BY <1>t, <2>1, <2>2, EmptySnapshots DEF SnapshotParts, OverviewType
  <2>4. PICK e : /\ e = [dashboard[p] EXCEPT !.pc = "write", !.fresh = g]
                 /\ dashboard' = [dashboard EXCEPT ![p] = e]
    BY <1>0, <2>1, <2>2
  <2>5. e \in DashboardType
    BY <1>0, <2>3, <2>4 DEF DashboardType
  <2>6. SnapshotParts'
    BY <1>t, <1>4, <2>4, <2>5 DEF SnapshotParts, FetchDashboard, indexVars, fxVars
  <2>7. PartsKept
    BY <1>4 DEF FetchDashboard, PartsKept
  <2> QED BY <1>1, <1>2, <2>6, <2>7 DEF SnapshotInv
<1>5. CASE WriteDashboard(p)
  <2>1. PICK fresh, previous : fresh = dashboard[p].fresh /\ previous = dashboard[p].previous
    OBVIOUS
  <2>2. fresh \in OverviewType /\ previous \in OverviewType
    BY <1>0, <2>1 DEF DashboardType
  <2>3. PICK k : k = Kept(fresh, previous)
    OBVIOUS
  <2>4. /\ k \in OverviewType
        /\ k.flows = 0 => previous.flows = 0
        /\ k.movers = 0 => previous.movers = 0
        /\ k.breadth = NoBreadth => previous.breadth = NoBreadth
    BY <2>2, <2>3 DEF Kept, OverviewType
  <2>5. /\ overview' = overview \/ overview' = k
        /\ dashboard' = [dashboard EXCEPT ![p] = DashboardIdle]
    BY <1>5, <2>1, <2>3 DEF WriteDashboard
  <2>6. SnapshotParts'
    BY <1>t, <1>5, <2>4, <2>5, EmptySnapshots
       DEF SnapshotParts, WriteDashboard, indexVars, fxVars
  <2>7. ~Overtaken => previous = overview
    BY <1>0, <1>5, <2>1, <2>5, EmptySnapshots DEF Overtaken, WriteDashboard
  <2>8. PartsKept
    BY <2>4, <2>5, <2>7 DEF PartsKept
  <2> QED BY <1>1, <1>2, <2>6, <2>8 DEF SnapshotInv
<1>6. CASE DashboardFails(p)
  <2>1. SnapshotParts'
    BY <1>t, <1>6, EmptySnapshots, SnapshotCounters
       DEF SnapshotParts, DashboardFails, indexVars, fxVars
  <2>2. PartsKept
    BY <1>6 DEF DashboardFails, PartsKept
  <2> QED BY <1>1, <1>2, <2>1, <2>2 DEF SnapshotInv
<1> QED BY <1>3, <1>4, <1>5, <1>6

\* The steps of recordBreadth.
LEMMA MergeStep ==
    ASSUME SnapshotInv, NEW i \in MergeSlots,
           \/ MergeRead(i) \/ MergeWrite(i) \/ MergeFails(i)
           \/ \E m \in Markets : RecordBreadth(i, m)
    PROVE  SnapshotInv' /\ PartsKept /\ RestYields
<1>t. SnapshotParts /\ MergesCarryBreadth
  BY DEF SnapshotInv
<1>0. /\ merge \in [MergeSlots -> MergeType] /\ merge[i] \in MergeType
      /\ overview \in OverviewType /\ UNCHANGED <<dashboard, indexKey, fallback>>
  BY <1>t DEF SnapshotParts, MergeRead, MergeWrite, MergeFails, RecordBreadth, indexVars, fxVars
<1>1. FallbacksAreNeeded'
  BY <1>0 DEF SnapshotInv, FallbacksAreNeeded
<1>2. RestYields
  BY <1>0 DEF RestYields, FreshFrame
<1>3. ASSUME NEW e \in MergeType, merge' = [merge EXCEPT ![i] = e],
             e.pc # "idle" => e.market \in Markets /\ e.value # 0
      PROVE  merge' \in [MergeSlots -> MergeType] /\ MergesCarryBreadth'
  BY <1>0, <1>3, <1>t DEF MergesCarryBreadth
<1>4. CASE MergeRead(i)
  <2>1. PICK e : /\ e = IF overview = NoOverview THEN MergeIdle
                        ELSE [merge[i] EXCEPT !.pc = "write", !.base = overview]
                 /\ merge' = [merge EXCEPT ![i] = e]
    BY <1>0, <1>4 DEF MergeRead
  <2>2. e \in MergeType
    BY <1>0, <2>1, EmptySnapshots DEF MergeType
  <2>3. e.pc # "idle" => e.market \in Markets /\ e.value # 0
    BY <1>0, <1>4, <1>t, <2>1, EmptySnapshots DEF MergeType, MergesCarryBreadth, MergeRead
  <2>4. merge' \in [MergeSlots -> MergeType] /\ MergesCarryBreadth'
    BY <1>3, <2>1, <2>2, <2>3
  <2>5. SnapshotParts'
    BY <1>t, <1>4, <2>4 DEF SnapshotParts, MergeRead, indexVars, fxVars
  <2>6. PartsKept
    BY <1>4 DEF MergeRead, PartsKept
  <2> QED BY <1>1, <1>2, <2>4, <2>5, <2>6 DEF SnapshotInv
<1>5. CASE MergeWrite(i)
  <2>1. PICK base, m, v : base = merge[i].base /\ m = merge[i].market /\ v = merge[i].value
    OBVIOUS
  <2>2. base \in OverviewType /\ m \in Markets /\ v \in Snapshot /\ v # 0
    BY <1>0, <1>5, <1>t, <2>1 DEF MergeType, MergesCarryBreadth, MergeWrite
  <2>3. /\ overview' = [base EXCEPT !.breadth[m] = v]
        /\ merge' = [merge EXCEPT ![i] = MergeIdle]
    BY <1>5, <2>1 DEF MergeWrite
  <2>4. /\ overview' \in OverviewType /\ overview'.breadth[m] = v
        /\ overview'.flows = base.flows /\ overview'.movers = base.movers
    BY <2>2, <2>3 DEF OverviewType
  <2>5. overview'.breadth # NoBreadth
    BY <2>2, <2>4 DEF NoBreadth
  <2>6. merge' \in [MergeSlots -> MergeType] /\ MergesCarryBreadth'
    BY <1>3, <2>3, EmptySnapshots
  <2>7. SnapshotParts'
    BY <1>t, <1>5, <2>4, <2>6 DEF SnapshotParts, MergeWrite, indexVars, fxVars
  <2>8. ~Overtaken => base = overview
    BY <1>0, <1>5, <2>1, <2>3, EmptySnapshots DEF Overtaken, MergeWrite
  <2>9. PartsKept
    BY <2>4, <2>5, <2>8 DEF PartsKept
  <2> QED BY <1>1, <1>2, <2>6, <2>7, <2>9 DEF SnapshotInv
<1>6. CASE MergeFails(i)
  <2>1. merge' \in [MergeSlots -> MergeType] /\ MergesCarryBreadth'
    BY <1>3, <1>6, EmptySnapshots DEF MergeFails
  <2>2. SnapshotParts'
    BY <1>t, <1>6, <2>1, SnapshotCounters DEF SnapshotParts, MergeFails, indexVars, fxVars
  <2>3. PartsKept
    BY <1>6 DEF MergeFails, PartsKept
  <2> QED BY <1>1, <1>2, <2>1, <2>2, <2>3 DEF SnapshotInv
<1>7. ASSUME NEW m \in Markets, RecordBreadth(i, m)
      PROVE  SnapshotInv' /\ PartsKept /\ RestYields
  <2>1. snapshots' \in Snapshot /\ snapshots + 1 \in Snapshot /\ snapshots + 1 # 0
    BY <1>7, <1>t, SnapshotCounters DEF RecordBreadth
  <2>2. PICK e : /\ e = [MergeIdle EXCEPT !.pc = "read", !.market = m, !.value = snapshots + 1]
                 /\ merge' = [merge EXCEPT ![i] = e]
    BY <1>7 DEF RecordBreadth
  <2>3. e \in MergeType /\ e.market = m /\ e.value = snapshots + 1
    BY <2>1, <2>2, EmptySnapshots DEF MergeType
  <2>4. merge' \in [MergeSlots -> MergeType] /\ MergesCarryBreadth'
    BY <1>3, <2>1, <2>2, <2>3
  <2>5. /\ breadthKey' \in [Markets -> Snapshot]
        /\ snapshotFaults' \in 0..MaxSnapshotFaults
    <3>1. breadthKey' = breadthKey \/ breadthKey' = [breadthKey EXCEPT ![m] = snapshots + 1]
      BY <1>7 DEF RecordBreadth
    <3>2. breadthKey' \in [Markets -> Snapshot]
      BY <1>t, <2>1, <3>1 DEF SnapshotParts
    <3>3. snapshotFaults' = snapshotFaults \/ SnapshotFault
      BY <1>7 DEF RecordBreadth
    <3>4. snapshotFaults' \in 0..MaxSnapshotFaults
      BY <1>t, <3>3, SnapshotCounters DEF SnapshotParts
    <3> QED BY <3>2, <3>4
  <2>6. SnapshotParts'
    BY <1>t, <1>7, <2>1, <2>4, <2>5 DEF SnapshotParts, RecordBreadth, indexVars, fxVars
  <2>7. PartsKept
    BY <1>7 DEF RecordBreadth, PartsKept
  <2> QED BY <1>1, <1>2, <2>4, <2>6, <2>7 DEF SnapshotInv
<1> QED BY <1>4, <1>5, <1>6, <1>7

\* The steps on the index values, the exchange rate, and a key that expires.
LEMMA IndexStep ==
    ASSUME SnapshotInv,
           \/ \E p \in SnapshotPods : \/ RefreshIndex(p) \/ RefreshFx(p)
                                      \/ \E s \in IndexKeys : WriteIndex(p, s)
           \/ \E s \in IndexKeys : RecordIndex(s) \/ IndexAges(s)
           \/ KeyExpires
    PROVE  SnapshotInv' /\ PartsKept /\ RestYields
<1>t. SnapshotParts /\ MergesCarryBreadth /\ FallbacksAreNeeded
  BY DEF SnapshotInv
<1>0. /\ indexKey \in [IndexKeys -> IndexEntry] /\ fallback \in [SnapshotPods -> FallbackType]
      /\ UNCHANGED <<dashboard, merge>>
  BY <1>t DEF SnapshotParts, RefreshIndex, RefreshFx, WriteIndex, RecordIndex, IndexAges,
     KeyExpires, overviewVars, indexVars, fxVars
<1>1. MergesCarryBreadth'
  BY <1>0, <1>t DEF MergesCarryBreadth
<1>2. overview' = overview \/ overview' = NoOverview
  BY DEF RefreshIndex, RefreshFx, WriteIndex, RecordIndex, IndexAges, KeyExpires, overviewVars
<1>3. PartsKept
  BY <1>2 DEF PartsKept
<1>4. ASSUME UNCHANGED fallback PROVE FallbacksAreNeeded'
  BY <1>4, <1>t DEF FallbacksAreNeeded
<1>5. ASSUME \A s \in IndexKeys : indexKey'[s].source \in {"ws_0J", "none", indexKey[s].source}
      PROVE  RestYields
  BY <1>5 DEF RestYields, FreshFrame
<1>6. ASSUME NEW p \in SnapshotPods, RefreshIndex(p)
      PROVE  SnapshotInv' /\ RestYields
  <2>1. snapshots' \in Snapshot /\ snapshots + 1 \in Snapshot
    BY <1>6, <1>t, SnapshotCounters DEF RefreshIndex
  <2>2. PICK e : /\ e = [pc |-> "write", todo |-> NeedFallback, seen |-> indexKey,
                         value |-> snapshots + 1]
                 /\ fallback' = [fallback EXCEPT ![p] = e]
    BY <1>6 DEF RefreshIndex
  <2>3. e \in FallbackType /\ e.todo = NeedFallback /\ e.seen = indexKey
    BY <1>0, <2>1, <2>2 DEF FallbackType, NeedFallback
  <2>4. \A s \in e.todo : ~FreshFrame(e.seen[s])
    BY <2>3 DEF NeedFallback
  <2>5. fallback' \in [SnapshotPods -> FallbackType] /\ FallbacksAreNeeded'
    BY <1>0, <1>t, <2>2, <2>3, <2>4 DEF FallbacksAreNeeded
  <2>6. SnapshotParts'
    BY <1>6, <1>t, <2>1, <2>5 DEF SnapshotParts, RefreshIndex, overviewVars, fxVars
  <2>7. RestYields
    BY <1>5, <1>6 DEF RefreshIndex
  <2> QED BY <1>1, <2>5, <2>6, <2>7 DEF SnapshotInv
<1>7. ASSUME NEW p \in SnapshotPods, NEW s \in IndexKeys, WriteIndex(p, s)
      PROVE  SnapshotInv' /\ RestYields
  <2>1. PICK e : /\ e = [source |-> "rest", value |-> fallback[p].value, old |-> FALSE]
                 /\ indexKey' = indexKey \/ indexKey' = [indexKey EXCEPT ![s] = e]
    BY <1>7 DEF WriteIndex
  <2>2. fallback[p] \in FallbackType /\ s \in fallback[p].todo
    BY <1>0, <1>7 DEF WriteIndex
  <2>3. e \in IndexEntry
    BY <2>1, <2>2 DEF IndexEntry, FallbackType
  <2>14. fallback' = [fallback EXCEPT ![p] =
                       IF fallback[p].todo = {s} THEN FallbackIdle
                       ELSE [fallback[p] EXCEPT !.todo = @ \ {s}]]
    BY <1>7 DEF WriteIndex
  <2>4. PICK g : /\ g = IF fallback[p].todo = {s} THEN FallbackIdle
                        ELSE [fallback[p] EXCEPT !.todo = @ \ {s}]
                 /\ fallback' = [fallback EXCEPT ![p] = g]
    BY <2>14
  <2>5. g \in FallbackType
    BY <2>2, <2>4, EmptySnapshots DEF FallbackType
  <2>6. \A x \in g.todo : x \in fallback[p].todo /\ g.seen = fallback[p].seen
    BY <2>2, <2>4, EmptySnapshots DEF FallbackType
  <2>7. \A x \in g.todo : ~FreshFrame(g.seen[x])
    BY <1>t, <2>6 DEF FallbacksAreNeeded
  <2>8. fallback' \in [SnapshotPods -> FallbackType] /\ FallbacksAreNeeded'
    BY <1>0, <1>t, <2>4, <2>5, <2>7 DEF FallbacksAreNeeded
  <2>9. snapshotFaults' \in 0..MaxSnapshotFaults
    BY <1>7, <1>t, SnapshotCounters DEF WriteIndex, SnapshotParts
  <2>10. SnapshotParts'
    BY <1>0, <1>7, <1>t, <2>1, <2>3, <2>8, <2>9
       DEF SnapshotParts, WriteIndex, overviewVars, fxVars
  <2>11. ~FreshFrame(fallback[p].seen[s])
    BY <1>t, <2>2 DEF FallbacksAreNeeded
  <2>12. \A x \in IndexKeys : x # s => indexKey'[x] = indexKey[x]
    BY <1>0, <2>1
  <2>13. RestYields
    BY <2>2, <2>11, <2>12 DEF RestYields, FreshFrame
  <2> QED BY <1>1, <2>8, <2>10, <2>13 DEF SnapshotInv
<1>8. ASSUME NEW p \in SnapshotPods, RefreshFx(p)
      PROVE  SnapshotInv' /\ RestYields
  <2>1. UNCHANGED <<overview, breadthKey, dashboard, merge, indexKey, fallback>>
    BY <1>8 DEF RefreshFx, overviewVars, indexVars
  <2>2. snapshots' \in Snapshot /\ snapshots + 1 \in Snapshot
    BY <1>8, <1>t, SnapshotCounters DEF RefreshFx
  <2>3. lastRate[p] \in Snapshot
    BY <1>t DEF SnapshotParts
  <2>4. fxKey' \in [rate: Snapshot, base: Snapshot]
    BY <1>8, <2>2, <2>3 DEF RefreshFx
  <2>5. lastRate' \in [SnapshotPods -> Snapshot] /\ snapshotFaults' \in 0..MaxSnapshotFaults
    BY <1>8, <1>t, <2>2, SnapshotCounters DEF RefreshFx, SnapshotParts
  <2>6. SnapshotParts'
    BY <1>t, <2>1, <2>2, <2>4, <2>5 DEF SnapshotParts
  <2> QED BY <1>1, <1>4, <1>5, <2>1, <2>6 DEF SnapshotInv
<1>9. ASSUME NEW s \in IndexKeys, RecordIndex(s) \/ IndexAges(s)
      PROVE  SnapshotInv' /\ RestYields
  <2>1. CASE RecordIndex(s)
    <3>1. PICK e : /\ e = [source |-> "ws_0J", value |-> snapshots + 1, old |-> FALSE]
                   /\ indexKey' = [indexKey EXCEPT ![s] = e]
      BY <2>1 DEF RecordIndex
    <3>2. snapshots' \in Snapshot /\ snapshots + 1 \in Snapshot
      BY <1>t, <2>1, SnapshotCounters DEF RecordIndex
    <3>3. e \in IndexEntry /\ e.source = "ws_0J"
      BY <3>1, <3>2 DEF IndexEntry
    <3>4. SnapshotParts'
      BY <1>0, <1>t, <2>1, <3>1, <3>2, <3>3 DEF SnapshotParts, RecordIndex, overviewVars, fxVars
    <3> QED BY <1>0, <1>1, <1>4, <1>5, <2>1, <3>1, <3>3, <3>4 DEF SnapshotInv, RecordIndex
  <2>2. CASE IndexAges(s)
    <3>1. PICK e : /\ e = [indexKey[s] EXCEPT !.old = TRUE]
                   /\ indexKey' = [indexKey EXCEPT ![s] = e]
      BY <2>2 DEF IndexAges
    <3>2. e \in IndexEntry /\ e.source = indexKey[s].source
      BY <1>0, <3>1 DEF IndexEntry
    <3>3. SnapshotParts'
      BY <1>0, <1>t, <2>2, <3>1, <3>2 DEF SnapshotParts, IndexAges, overviewVars, fxVars
    <3> QED BY <1>0, <1>1, <1>4, <1>5, <2>2, <3>1, <3>2, <3>3 DEF SnapshotInv, IndexAges
  <2> QED BY <1>9, <2>1, <2>2
<1>10. ASSUME KeyExpires PROVE SnapshotInv' /\ RestYields
  <2>1. \/ indexKey' = indexKey
        \/ \E s \in IndexKeys : indexKey' = [indexKey EXCEPT ![s] = NoIndex]
    BY <1>10 DEF KeyExpires
  <2>2. /\ indexKey' \in [IndexKeys -> IndexEntry]
        /\ \A s \in IndexKeys : indexKey'[s].source \in {"none", indexKey[s].source}
    <3>1. NoIndex \in IndexEntry /\ NoIndex.source = "none"
      BY EmptySnapshots DEF NoIndex, IndexEntry
    <3> QED BY <1>0, <2>1, <3>1
  <2>3. breadthKey' \in [Markets -> Snapshot] /\ snapshotFaults' \in 0..MaxSnapshotFaults
    BY <1>10, <1>t, SnapshotCounters, EmptySnapshots DEF KeyExpires, SnapshotParts
  <2>4. SnapshotParts'
    BY <1>2, <1>10, <1>t, <2>2, <2>3, EmptySnapshots DEF SnapshotParts, KeyExpires, fxVars
  <2> QED BY <1>1, <1>4, <1>5, <1>10, <2>2, <2>4 DEF SnapshotInv, KeyExpires
<1> QED BY <1>3, <1>6, <1>7, <1>8, <1>9, <1>10

\* The invariant is inductive, and its steps keep what the dashboard shows.
LEMMA SnapshotInitInv == ASSUME SnapshotInit PROVE SnapshotInv
<1>1. SnapshotParts
  BY EmptySnapshots, SnapshotAssumption DEF SnapshotInit, SnapshotParts, NoBreadth
<1>2. MergesCarryBreadth /\ FallbacksAreNeeded
  BY EmptySnapshots DEF SnapshotInit, MergesCarryBreadth, FallbacksAreNeeded
<1> QED BY <1>1, <1>2 DEF SnapshotInv

LEMMA SnapshotStep ==
    ASSUME SnapshotInv, [SnapshotNext]_snapshotVars
    PROVE  SnapshotInv' /\ [PartsKept /\ RestYields]_snapshotVars
<1>1. ASSUME UNCHANGED snapshotVars PROVE SnapshotInv'
  BY <1>1 DEF SnapshotInv, SnapshotParts, MergesCarryBreadth, FallbacksAreNeeded, snapshotVars
<1> QED BY <1>1, DashboardStep, MergeStep, IndexStep DEF SnapshotNext

\* The types of the snapshots' keys and of the writes in flight.
THEOREM SnapshotTypes == SnapshotSpec => []SnapshotTypeOK
<1>1. SnapshotInv => SnapshotTypeOK
  BY DEF SnapshotInv, SnapshotParts, SnapshotTypeOK, DashboardType, MergeType, FallbackType
<1>2. SnapshotInv /\ [SnapshotNext]_snapshotVars => SnapshotInv'
  BY SnapshotStep
<1> QED BY <1>1, <1>2, SnapshotInitInv, PTL DEF SnapshotSpec

\* What the dashboard shows is not blanked by an empty answer and not rolled back by
\* a timer, however the timers of several collectors and the frames interleave.
THEOREM SnapshotsStay == SnapshotSpec => SnapshotsKept
<1>1. SnapshotInv /\ [SnapshotNext]_snapshotVars
        => SnapshotInv' /\ [PartsKept /\ RestYields]_snapshotVars
  BY SnapshotStep
<1> QED BY <1>1, SnapshotInitInv, PTL DEF SnapshotSpec, SnapshotsKept

-----------------------------------------------------------------------------
(* The composition.                                                           *)

StreamsInv == UniverseTypeOK /\ FanInv /\ StreamInv /\ TickInv /\ SnapshotInv

LEMMA StreamsInitInv ==
    ASSUME StreamsInit
    PROVE  StreamsInv /\ focus \in {"universe", "fanout", "socket", "tick", "snapshot"}
BY UniverseInitTypes, FanInitInv, StreamInitInv, TickInitInv, SnapshotInitInv
   DEF StreamsInit, StreamsInv

\* A step is a step of one component, and the others do not notice it.
LEMMA StreamsParts ==
    ASSUME [StreamsNext]_streamsVars
    PROVE  /\ [UniverseNext]_universeVars /\ [FanNext]_fanVars /\ [StreamNext]_streamVars
           /\ [TickNext]_tickVars /\ [SnapshotNext]_snapshotVars /\ UNCHANGED focus
BY DEF StreamsNext, streamsVars

LEMMA StreamsStep ==
    ASSUME StreamsInv, [StreamsNext]_streamsVars
    PROVE  StreamsInv' /\ UNCHANGED focus
BY StreamsParts, UniverseTypesStep, FanStep, StreamStep, TickStep, SnapshotStep DEF StreamsInv

\* The types of the component that acts, for any collectors, symbols and streams.
THEOREM StreamsTypes == StreamsSpec => []StreamsTypeOK
<1> DEFINE Inv == StreamsInv /\ focus \in {"universe", "fanout", "socket", "tick", "snapshot"}
<1>1. StreamsInit => Inv
  BY StreamsInitInv
<1>2. Inv /\ [StreamsNext]_streamsVars => Inv'
  BY StreamsStep
<1>3. Inv => StreamsTypeOK
  <2> SUFFICES ASSUME Inv PROVE StreamsTypeOK
    OBVIOUS
  <2>1. UniverseTypeOK /\ FanTypeOK /\ StreamTypeOK /\ TickTypeOK /\ SnapshotTypeOK
    <3>1. SnapshotTypeOK
      BY DEF StreamsInv, SnapshotInv, SnapshotParts, SnapshotTypeOK, DashboardType, MergeType, FallbackType
    <3> QED BY <3>1, FanInvSafe, TickInvSafe DEF StreamsInv, StreamInv
  <2> QED BY <2>1 DEF StreamsTypeOK
<1> QED BY <1>1, <1>2, <1>3, PTL DEF StreamsSpec

\* What a collector's streams guarantee, for any number of them and any frames: the caps
\* of KiwoomCollectorWsFanoutVendor, the subscriptions of KiwoomMarketDataSocketVendor
\* across reconnects, and the entries of IngestTickUsecase.execute.
THEOREM StreamsAreSafe == StreamsSpec => []StreamsSafe
<1>1. StreamsInit => StreamsInv
  BY StreamsInitInv
<1>2. StreamsInv /\ [StreamsNext]_streamsVars => StreamsInv'
  BY StreamsStep
<1>3. StreamsInv => StreamsSafe
  BY FanInvSafe, TickInvSafe, StreamInvSafe DEF StreamsInv, StreamsSafe
<1> QED BY <1>1, <1>2, <1>3, PTL DEF StreamsSpec

\* Among them the dashboard is not blanked by an empty answer and not rolled back by a
\* timer.
THEOREM DashboardIsKept == StreamsSpec => SnapshotsKept
<1>1. StreamsInit => StreamsInv
  BY StreamsInitInv
<1>2. StreamsInv /\ [StreamsNext]_streamsVars => StreamsInv' /\ [PartsKept /\ RestYields]_snapshotVars
  <2> SUFFICES ASSUME StreamsInv, [StreamsNext]_streamsVars
               PROVE  StreamsInv' /\ [PartsKept /\ RestYields]_snapshotVars
    OBVIOUS
  <2> QED BY StreamsStep, StreamsParts, SnapshotStep DEF StreamsInv
<1> QED BY <1>1, <1>2, PTL DEF StreamsSpec, SnapshotsKept

==============================================================================
