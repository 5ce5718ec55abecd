--------------------------- MODULE BrokerageProofs ---------------------------
(***************************************************************************)
(* What is proved of the broker's side, for any number of pods, clients,   *)
(* requests, credentials and tokens: the execution sockets of the trackers *)
(* (ExecutionSockets), the limits of the REST calls (RestGate), the blame  *)
(* for refusals (CredentialPool), the tracker's pull (AccountSync) and the *)
(* types of their composition (MCBrokerage).                               *)
(***************************************************************************)
EXTENDS MCBrokerage, FiniteSetTheorems, TLAPS


-----------------------------------------------------------------------------
(* ExecutionSockets: sockets are lost from the map by late closes only.       *)

\* A client's close is awaited by the sync loop.
Awaited(p, c) == sync[p] \in {"closing", "failing"} /\ syncClient[p] = c

\* A client outside the map whose close the loop does not await: an orphan, or a
\* socket whose close event is still to come and will empty the map.
Stray(p, c) ==
    /\ connected[p] # c
    /\ client[p][c] = "open" \/ (client[p][c] = "closing" /\ ~Awaited(p, c))
Strays == {x \in Clients \X Trackers : Stray(x[2], x[1])}

\* A sync under way has found or made the map empty; only its own client is logging in.
SyncRegular(p) ==
    /\ sync[p] # "idle" => connected[p] = NoClient /\ syncClient[p] \in Clients
    /\ \A c \in Clients : client[p][c] = "login" => sync[p] = "login" /\ syncClient[p] = c
    /\ connected[p] # NoClient => client[p][connected[p]] \in {"open", "closing"}

SocketInv ==
    /\ SocketTypeOK
    /\ \A p \in Trackers : SyncRegular(p)
    /\ Cardinality(Strays) <= lateCloses

\* Counting: a set that gains at most one element for each late close.
LEMMA CountBounded ==
    ASSUME NEW S, IsFiniteSet(S), NEW n \in Nat, Cardinality(S) <= n, NEW T, NEW m,
           \/ T \subseteq S /\ m = n
           \/ \E x : T \subseteq S \cup {x} /\ m = n + 1
           \/ \E x, y : y \in S /\ T \subseteq (S \ {y}) \cup {x} /\ m = n
    PROVE  Cardinality(T) <= m
<1>1. Cardinality(S) \in Nat
  BY FS_CardinalityType
<1>2. CASE T \subseteq S /\ m = n
  <2>1. IsFiniteSet(T) /\ Cardinality(T) <= Cardinality(S)
    BY <1>2, FS_Subset
  <2> QED BY <1>1, <1>2, <2>1, FS_CardinalityType
<1>3. ASSUME NEW x, T \subseteq S \cup {x}, m = n + 1
      PROVE  Cardinality(T) <= m
  <2>1. IsFiniteSet(S \cup {x}) /\ Cardinality(S \cup {x}) <= n + 1
    <3>1. /\ IsFiniteSet(S \cup {x})
          /\ Cardinality(S \cup {x}) = Cardinality(S) \/ Cardinality(S \cup {x}) = Cardinality(S) + 1
      BY FS_AddElement
    <3> QED BY <1>1, <3>1
  <2>2. IsFiniteSet(T) /\ Cardinality(T) <= Cardinality(S \cup {x})
    BY <1>3, <2>1, FS_Subset
  <2>3. Cardinality(T) \in Nat /\ Cardinality(S \cup {x}) \in Nat
    BY <2>1, <2>2, FS_CardinalityType
  <2> QED BY <1>3, <2>1, <2>2, <2>3
<1>4. ASSUME NEW x, NEW y \in S, T \subseteq (S \ {y}) \cup {x}, m = n
      PROVE  Cardinality(T) <= m
  <2>1. PICK R : R = S \ {y}
    OBVIOUS
  <2>2. IsFiniteSet(R) /\ Cardinality(R) = Cardinality(S) - 1
    BY <1>4, <2>1, FS_RemoveElement
  <2>3. IsFiniteSet(R \cup {x}) /\ Cardinality(R \cup {x}) <= n
    <3>1. /\ IsFiniteSet(R \cup {x})
          /\ Cardinality(R \cup {x}) = Cardinality(R) \/ Cardinality(R \cup {x}) = Cardinality(R) + 1
      BY <2>2, FS_AddElement
    <3> QED BY <1>1, <2>2, <3>1
  <2>4. IsFiniteSet(T) /\ Cardinality(T) <= Cardinality(R \cup {x})
    BY <1>4, <2>1, <2>3, FS_Subset
  <2>5. Cardinality(T) \in Nat /\ Cardinality(R \cup {x}) \in Nat
    BY <2>3, <2>4, FS_CardinalityType
  <2> QED BY <1>4, <2>3, <2>4, <2>5
<1> QED BY <1>2, <1>3, <1>4

LEMMA StraysFinite == IsFiniteSet(Strays)
<1>1. IsFiniteSet(Clients \X Trackers)
  BY SocketAssumption, FS_Product
<1> QED BY <1>1, FS_Subset DEF Strays

\* A step of pod p leaves the others alone.
OtherPods(p) ==
    \A q \in Trackers : q # p =>
        /\ sync'[q] = sync[q] /\ syncClient'[q] = syncClient[q]
        /\ client'[q] = client[q] /\ connected'[q] = connected[q]

\* So it is enough to look at its own strays.
LEMMA PodStep ==
    ASSUME SocketInv, NEW p \in Trackers, OtherPods(p), SocketTypeOK', SyncRegular(p)',
           \/ /\ \A c \in Clients : Stray(p, c)' => Stray(p, c)
              /\ lateCloses' = lateCloses
           \/ /\ \E x : \A c \in Clients : Stray(p, c)' => Stray(p, c) \/ c = x
              /\ lateCloses' = lateCloses + 1
           \/ /\ \E x : \E y \in Clients :
                   /\ Stray(p, y)
                   /\ \A c \in Clients : Stray(p, c)' => (Stray(p, c) /\ c # y) \/ c = x
              /\ lateCloses' = lateCloses
    PROVE  SocketInv'
<1>1. \A q \in Trackers : SyncRegular(q)'
  <2> SUFFICES ASSUME NEW q \in Trackers, q # p PROVE SyncRegular(q)'
    OBVIOUS
  <2>1. SyncRegular(q)
    BY DEF SocketInv
  <2> QED BY <2>1 DEF OtherPods, SyncRegular
<1>2. \A q \in Trackers, c \in Clients : q # p => (Stray(q, c)' <=> Stray(q, c))
  BY DEF OtherPods, Stray, Awaited
<1>3. IsFiniteSet(Strays) /\ lateCloses \in Nat /\ Cardinality(Strays) <= lateCloses
  BY StraysFinite DEF SocketInv, SocketTypeOK
<1>4. ASSUME NEW S, S = Strays, NEW T, T = Strays'
      PROVE  Cardinality(T) <= lateCloses'
  <2>1. \A c \in Clients, q \in Trackers :
          (<<c, q>> \in S <=> Stray(q, c)) /\ (<<c, q>> \in T <=> Stray(q, c)')
    BY <1>4 DEF Strays
  <2>2. \A x \in T : \E c \in Clients, q \in Trackers : x = <<c, q>>
    BY <1>4 DEF Strays
  <2>3. CASE (\A c \in Clients : Stray(p, c)' => Stray(p, c)) /\ lateCloses' = lateCloses
    <3>1. T \subseteq S
      BY <1>2, <2>1, <2>2, <2>3
    <3> QED BY <1>3, <1>4, <2>3, <3>1, CountBounded
  <2>4. ASSUME NEW x, \A c \in Clients : Stray(p, c)' => Stray(p, c) \/ c = x,
               lateCloses' = lateCloses + 1
        PROVE  Cardinality(T) <= lateCloses'
    <3>1. T \subseteq S \cup {<<x, p>>}
      BY <1>2, <2>1, <2>2, <2>4
    <3> QED BY <1>3, <1>4, <2>4, <3>1, CountBounded
  <2>5. ASSUME NEW x, NEW y \in Clients, Stray(p, y), lateCloses' = lateCloses,
               \A c \in Clients : Stray(p, c)' => (Stray(p, c) /\ c # y) \/ c = x
        PROVE  Cardinality(T) <= lateCloses'
    <3>1. T \subseteq (S \ {<<y, p>>}) \cup {<<x, p>>} /\ <<y, p>> \in S
      BY <1>2, <2>1, <2>2, <2>5
    <3> QED BY <1>3, <1>4, <2>5, <3>1, CountBounded
  <2> QED BY <2>3, <2>4, <2>5
<1>5. Cardinality(Strays') <= lateCloses'
  BY <1>4
<1> QED BY <1>1, <1>5 DEF SocketInv

\* Steps that leave clients and connections alone: the lease and its refresh.
LEMMA ConnectionsQuiet ==
    ASSUME SocketInv, SocketTypeOK', UNCHANGED <<sync, syncClient, client, connected, lateCloses>>
    PROVE  SocketInv'
<1>1. \A q \in Trackers : SyncRegular(q)'
  BY DEF SocketInv, SyncRegular
<1>2. Strays' = Strays
  BY DEF Strays, Stray, Awaited
<1> QED BY <1>1, <1>2 DEF SocketInv

LEMMA LeaseInv ==
    ASSUME SocketInv, NEW p \in Trackers,
           \/ RefreshSet(p) \/ RefreshGet(p) \/ RefreshRenew(p) \/ RefreshFails(p)
           \/ LeaseExpires \/ AccountChanges \/ BackoffEnds(p)
    PROVE  SocketInv'
<1>1. /\ UNCHANGED <<sync, syncClient, client, connected, intentional, system, lateCloses>>
      /\ UNCHANGED backoff \/ BackoffEnds(p)
  BY DEF RefreshSet, RefreshGet, RefreshRenew, RefreshFails, LeaseExpires, AccountChanges,
         BackoffEnds, connectionVars
<1>2. SocketTypeOK
  BY DEF SocketInv
<1>3. /\ active' \in BOOLEAN /\ lease' \in Trackers \cup {NoPod, Gone}
      /\ refresh' \in [Trackers -> {"idle", "get", "renew"}]
      /\ owned' \in [Trackers -> BOOLEAN]
  BY <1>2 DEF SocketTypeOK, RefreshSet, RefreshGet, RefreshRenew, RefreshFails, LeaseExpires,
              AccountChanges, BackoffEnds, leaseVars, Refreshed
<1>4. socketFaults' \in 0 .. MaxSocketFaults /\ backoff' \in [Trackers -> BOOLEAN]
  <2>1. UNCHANGED socketFaults \/ SocketFault
    BY DEF RefreshSet, RefreshGet, RefreshRenew, RefreshFails, LeaseExpires, AccountChanges,
           BackoffEnds
  <2>2. socketFaults' \in 0 .. MaxSocketFaults
    BY <1>2, <2>1, SocketAssumption DEF SocketTypeOK, SocketFault
  <2>3. backoff' \in [Trackers -> BOOLEAN]
    BY <1>1, <1>2 DEF SocketTypeOK, BackoffEnds
  <2> QED BY <2>2, <2>3
<1>5. SocketTypeOK'
  BY <1>1, <1>2, <1>3, <1>4 DEF SocketTypeOK
<1> QED BY <1>1, <1>5, ConnectionsQuiet

\* The types a step of the subscriber has to keep.
ClientStates == {"free", "opening", "login", "open", "closing"}
ConnectionTypes ==
    /\ sync \in [Trackers -> {"idle", "opening", "login", "closing", "failing"}]
    /\ syncClient \in [Trackers -> Clients \cup {NoClient}]
    /\ client \in [Trackers -> [Clients -> ClientStates]]
    /\ connected \in [Trackers -> Clients \cup {NoClient}]
    /\ intentional \in [Trackers -> BOOLEAN] /\ backoff \in [Trackers -> BOOLEAN]
    /\ system \in [Trackers -> Clients \cup {NoClient}]

LEMMA ConnectionTypesHold == SocketInv => ConnectionTypes
BY DEF SocketInv, SocketTypeOK, ConnectionTypes, ClientStates

LEMMA SocketTypesKept ==
    ASSUME SocketInv, UNCHANGED <<active, leaseVars>>, ConnectionTypes',
           lateCloses' \in {lateCloses, lateCloses + 1}, UNCHANGED socketFaults \/ SocketFault
    PROVE  SocketTypeOK'
<1>1. SocketTypeOK
  BY DEF SocketInv
<1>2. socketFaults' \in 0 .. MaxSocketFaults /\ lateCloses' \in Nat
  BY <1>1, SocketAssumption DEF SocketTypeOK, SocketFault
<1> QED BY <1>1, <1>2 DEF SocketTypeOK, leaseVars, ConnectionTypes, ClientStates

\* The sync loop disconnects what the pod no longer owns.  A client that was closing
\* already becomes a late close.
LEMMA SyncDisconnectInv ==
    ASSUME SocketInv, NEW p \in Trackers, SyncDisconnect(p)
    PROVE  SocketInv'
<1>1. PICK c : c = connected[p]
  OBVIOUS
<1>2. /\ ConnectionTypes /\ SyncRegular(p) /\ sync[p] = "idle" /\ c \in Clients
      /\ client[p] \in [Clients -> ClientStates] /\ client[p][c] \in {"open", "closing"}
      /\ connected' = [connected EXCEPT ![p] = NoClient]
      /\ UNCHANGED <<active, leaseVars, system, backoff, socketFaults>>
  BY <1>1, ConnectionTypesHold DEF SocketInv, ConnectionTypes, SyncRegular, SyncDisconnect
<1>3. CASE client[p][c] = "open"
  <2>1. PICK cl : cl = [client[p] EXCEPT ![c] = "closing"]
    OBVIOUS
  <2>2. /\ cl \in [Clients -> ClientStates]
        /\ cl[c] = "closing" /\ \A d \in Clients : d # c => cl[d] = client[p][d]
    BY <1>2, <2>1 DEF ClientStates
  <2>3. /\ client' = [client EXCEPT ![p] = cl] /\ sync' = [sync EXCEPT ![p] = "closing"]
        /\ syncClient' = [syncClient EXCEPT ![p] = c] /\ UNCHANGED lateCloses
        /\ intentional' = [intentional EXCEPT ![p] = TRUE]
    BY <1>1, <1>2, <1>3, <2>1 DEF SyncDisconnect, CloseClient, ConnectionTypes
  <2>4. /\ ConnectionTypes' /\ OtherPods(p) /\ sync'[p] = "closing" /\ syncClient'[p] = c
        /\ client'[p] = cl /\ connected'[p] = NoClient
    BY <1>2, <2>2, <2>3 DEF ConnectionTypes, OtherPods
  <2>5. SocketTypeOK'
    BY <1>2, <2>3, <2>4, SocketTypesKept
  <2>6. SyncRegular(p)'
    BY <1>2, <2>2, <2>4 DEF SyncRegular
  <2>7. \A d \in Clients : Stray(p, d)' => Stray(p, d)
    BY <1>1, <1>2, <2>2, <2>4 DEF Stray, Awaited
  <2> QED BY <2>3, <2>4, <2>5, <2>6, <2>7, PodStep
<1>4. CASE client[p][c] = "closing"
  <2>1. /\ UNCHANGED <<client, sync, syncClient>> /\ lateCloses' = lateCloses + 1
        /\ intentional' = [intentional EXCEPT ![p] = FALSE]
    BY <1>1, <1>4 DEF SyncDisconnect
  <2>2. ConnectionTypes' /\ OtherPods(p) /\ connected'[p] = NoClient
    BY <1>2, <2>1 DEF ConnectionTypes, OtherPods
  <2>3. SocketTypeOK'
    BY <1>2, <2>1, <2>2, SocketTypesKept
  <2>4. SyncRegular(p)'
    BY <1>2, <2>1, <2>2 DEF SyncRegular
  <2>5. \A d \in Clients : Stray(p, d)' => Stray(p, d) \/ d = c
    BY <1>1, <1>2, <2>1, <2>2 DEF Stray, Awaited
  <2> QED BY <2>1, <2>2, <2>3, <2>4, <2>5, PodStep
<1> QED BY <1>2, <1>3, <1>4

\* One client of p changes its state.
LEMMA ClientBecomes ==
    ASSUME ConnectionTypes, NEW p \in Trackers, NEW c \in Clients,
           NEW v \in {"free", "opening", "login", "open", "closing"},
           client' = [client EXCEPT ![p][c] = v]
    PROVE  /\ client' \in [Trackers -> [Clients -> ClientStates]] /\ client'[p][c] = v
           /\ \A d \in Clients : d # c => client'[p][d] = client[p][d]
           /\ \A q \in Trackers : q # p => client'[q] = client[q]
<1>1. client[p] \in [Clients -> ClientStates]
  BY DEF ConnectionTypes
<1>2. PICK cl : cl = [client[p] EXCEPT ![c] = v]
  OBVIOUS
<1>3. /\ cl \in [Clients -> ClientStates] /\ cl[c] = v
      /\ \A d \in Clients : d # c => cl[d] = client[p][d]
  BY <1>1, <1>2 DEF ClientStates
<1>4. client' = [client EXCEPT ![p] = cl]
  BY <1>2 DEF ConnectionTypes
<1> QED BY <1>3, <1>4 DEF ConnectionTypes

\* The way up: a client is opened, its socket opens, LOGIN is acknowledged.
LEMMA SyncConnectInv ==
    ASSUME SocketInv, NEW p \in Trackers, SyncConnect(p)
    PROVE  SocketInv'
<1>1. PICK c \in Clients : /\ client[p][c] = "free"
                           /\ client' = [client EXCEPT ![p][c] = "opening"]
                           /\ sync' = [sync EXCEPT ![p] = "opening"]
                           /\ syncClient' = [syncClient EXCEPT ![p] = c]
  BY DEF SyncConnect
<1>2. /\ ConnectionTypes /\ SyncRegular(p) /\ sync[p] = "idle" /\ connected[p] = NoClient
      /\ UNCHANGED <<active, leaseVars, connected, intentional, system, backoff, lateCloses,
                     socketFaults>>
  BY ConnectionTypesHold DEF SocketInv, SyncConnect
<1>3. /\ client' \in [Trackers -> [Clients -> ClientStates]] /\ client'[p][c] = "opening"
      /\ \A d \in Clients : d # c => client'[p][d] = client[p][d]
      /\ \A q \in Trackers : q # p => client'[q] = client[q]
  BY <1>1, <1>2, ClientBecomes
<1>4. /\ ConnectionTypes' /\ OtherPods(p) /\ sync'[p] = "opening" /\ syncClient'[p] = c
  BY <1>1, <1>2, <1>3 DEF ConnectionTypes, OtherPods
<1>5. SocketTypeOK'
  BY <1>2, <1>4, SocketTypesKept
<1>6. SyncRegular(p)'
  BY <1>1, <1>2, <1>3, <1>4 DEF SyncRegular
<1>7. \A d \in Clients : Stray(p, d)' => Stray(p, d)
  BY <1>2, <1>3, <1>4 DEF Stray, Awaited
<1> QED BY <1>2, <1>4, <1>5, <1>6, <1>7, PodStep

LEMMA SocketOpensInv ==
    ASSUME SocketInv, NEW p \in Trackers, SocketOpens(p)
    PROVE  SocketInv'
<1>1. PICK c : c = syncClient[p]
  OBVIOUS
<1>2. /\ ConnectionTypes /\ SyncRegular(p) /\ sync[p] = "opening" /\ connected[p] = NoClient
      /\ c \in Clients /\ client' = [client EXCEPT ![p][c] = "login"]
      /\ sync' = [sync EXCEPT ![p] = "login"]
      /\ UNCHANGED <<active, leaseVars, syncClient, connected, intentional, system, backoff,
                     lateCloses, socketFaults>>
  BY <1>1, ConnectionTypesHold DEF SocketInv, SocketOpens, SyncRegular
<1>3. /\ client' \in [Trackers -> [Clients -> ClientStates]] /\ client'[p][c] = "login"
      /\ \A d \in Clients : d # c => client'[p][d] = client[p][d]
      /\ \A q \in Trackers : q # p => client'[q] = client[q]
  BY <1>2, ClientBecomes
<1>4. ConnectionTypes' /\ OtherPods(p) /\ sync'[p] = "login"
  BY <1>2, <1>3 DEF ConnectionTypes, OtherPods
<1>5. SocketTypeOK'
  BY <1>2, <1>4, SocketTypesKept
<1>6. SyncRegular(p)'
  BY <1>1, <1>2, <1>3, <1>4 DEF SyncRegular
<1>7. \A d \in Clients : Stray(p, d)' => Stray(p, d)
  BY <1>2, <1>3, <1>4 DEF Stray, Awaited
<1> QED BY <1>2, <1>4, <1>5, <1>6, <1>7, PodStep

LEMMA LoginAckedInv ==
    ASSUME SocketInv, NEW p \in Trackers, LoginAcked(p)
    PROVE  SocketInv'
<1>1. PICK c : c = syncClient[p]
  OBVIOUS
<1>2. /\ ConnectionTypes /\ SyncRegular(p) /\ sync[p] = "login" /\ connected[p] = NoClient
      /\ c \in Clients /\ client' = [client EXCEPT ![p][c] = "open"]
      /\ connected' = [connected EXCEPT ![p] = c]
      /\ sync' = [sync EXCEPT ![p] = "idle"] /\ syncClient' = [syncClient EXCEPT ![p] = NoClient]
      /\ backoff' = [backoff EXCEPT ![p] = FALSE]
      /\ UNCHANGED <<active, leaseVars, intentional, system, lateCloses, socketFaults>>
  BY <1>1, ConnectionTypesHold DEF SocketInv, LoginAcked, SyncRegular, SyncDone
<1>3. /\ client' \in [Trackers -> [Clients -> ClientStates]] /\ client'[p][c] = "open"
      /\ \A d \in Clients : d # c => client'[p][d] = client[p][d]
      /\ \A q \in Trackers : q # p => client'[q] = client[q]
  BY <1>2, ClientBecomes
<1>4. ConnectionTypes' /\ OtherPods(p) /\ sync'[p] = "idle" /\ connected'[p] = c
  BY <1>2, <1>3 DEF ConnectionTypes, OtherPods
<1>5. SocketTypeOK'
  BY <1>2, <1>4, SocketTypesKept
<1>6. SyncRegular(p)'
  BY <1>1, <1>2, <1>3, <1>4 DEF SyncRegular
<1>7. \A d \in Clients : Stray(p, d)' => Stray(p, d)
  BY <1>2, <1>3, <1>4, SocketAssumption DEF Stray, Awaited
<1> QED BY <1>2, <1>4, <1>5, <1>6, <1>7, PodStep

LEMMA ConnectFailsInv ==
    ASSUME SocketInv, NEW p \in Trackers, ConnectFails(p)
    PROVE  SocketInv'
<1>1. PICK c : c = syncClient[p]
  OBVIOUS
<1>2. /\ ConnectionTypes /\ SyncRegular(p) /\ sync[p] = "opening" /\ connected[p] = NoClient
      /\ c \in Clients /\ client' = [client EXCEPT ![p][c] = "free"]
      /\ sync' = [sync EXCEPT ![p] = "idle"] /\ syncClient' = [syncClient EXCEPT ![p] = NoClient]
      /\ backoff' = [backoff EXCEPT ![p] = TRUE] /\ SocketFault
      /\ UNCHANGED <<active, leaseVars, connected, intentional, system, lateCloses>>
  BY <1>1, ConnectionTypesHold DEF SocketInv, ConnectFails, SyncRegular, SyncDone
<1>3. /\ client' \in [Trackers -> [Clients -> ClientStates]] /\ client'[p][c] = "free"
      /\ \A d \in Clients : d # c => client'[p][d] = client[p][d]
      /\ \A q \in Trackers : q # p => client'[q] = client[q]
  BY <1>2, ClientBecomes
<1>4. ConnectionTypes' /\ OtherPods(p) /\ sync'[p] = "idle"
  BY <1>2, <1>3 DEF ConnectionTypes, OtherPods
<1>5. SocketTypeOK'
  BY <1>2, <1>4, SocketTypesKept
<1>6. SyncRegular(p)'
  BY <1>1, <1>2, <1>3, <1>4 DEF SyncRegular
<1>7. \A d \in Clients : Stray(p, d)' => Stray(p, d)
  BY <1>2, <1>3, <1>4 DEF Stray, Awaited
<1> QED BY <1>2, <1>4, <1>5, <1>6, <1>7, PodStep

\* A login that fails: its client closes under the loop's eyes, or is gone already.
LEMMA LoginFailsInv ==
    ASSUME SocketInv, NEW p \in Trackers, LoginFails(p)
    PROVE  SocketInv'
<1>1. PICK c : c = syncClient[p]
  OBVIOUS
<1>2. /\ ConnectionTypes /\ SyncRegular(p) /\ sync[p] = "login" /\ connected[p] = NoClient
      /\ c \in Clients /\ CloseClient(p, c)
      /\ UNCHANGED socketFaults \/ SocketFault
      /\ UNCHANGED <<active, leaseVars, connected, system, lateCloses>>
      /\ client[p][c] \in {"login", "free"}
  BY <1>1, ConnectionTypesHold DEF SocketInv, LoginFails, SyncRegular
<1>3. intentional' \in [Trackers -> BOOLEAN]
  BY <1>1, <1>2 DEF LoginFails, ConnectionTypes
<1>4. CASE client[p][c] = "login"
  <2>1. /\ client' = [client EXCEPT ![p][c] = "closing"] /\ sync' = [sync EXCEPT ![p] = "failing"]
        /\ UNCHANGED <<syncClient, backoff>>
    BY <1>1, <1>2, <1>4 DEF LoginFails, CloseClient, ConnectionTypes
  <2>2. /\ client' \in [Trackers -> [Clients -> ClientStates]] /\ client'[p][c] = "closing"
        /\ \A d \in Clients : d # c => client'[p][d] = client[p][d]
        /\ \A q \in Trackers : q # p => client'[q] = client[q]
    <3>1. ConnectionTypes /\ c \in Clients /\ client' = [client EXCEPT ![p][c] = "closing"]
      BY <1>2, <2>1
    <3> QED BY <3>1, ClientBecomes
  <2>3. ConnectionTypes' /\ OtherPods(p) /\ sync'[p] = "failing"
    BY <1>2, <1>3, <2>1, <2>2 DEF ConnectionTypes, OtherPods
  <2>4. SocketTypeOK'
    BY <1>2, <2>3, SocketTypesKept
  <2>5. SyncRegular(p)'
    BY <1>1, <1>2, <2>1, <2>2, <2>3 DEF SyncRegular
  <2>6. \A d \in Clients : Stray(p, d)' => Stray(p, d)
    BY <1>1, <1>2, <2>1, <2>2, <2>3 DEF Stray, Awaited
  <2> QED BY <1>2, <2>3, <2>4, <2>5, <2>6, PodStep
<1>5. CASE client[p][c] = "free"
  <2>1. /\ client' = [client EXCEPT ![p][c] = "free"] /\ sync' = [sync EXCEPT ![p] = "idle"]
        /\ syncClient' = [syncClient EXCEPT ![p] = NoClient]
        /\ backoff' = [backoff EXCEPT ![p] = TRUE]
    BY <1>1, <1>2, <1>5 DEF LoginFails, CloseClient, ConnectionTypes, SyncDone
  <2>2. /\ client' \in [Trackers -> [Clients -> ClientStates]] /\ client'[p][c] = "free"
        /\ \A d \in Clients : d # c => client'[p][d] = client[p][d]
        /\ \A q \in Trackers : q # p => client'[q] = client[q]
    <3>1. ConnectionTypes /\ c \in Clients /\ client' = [client EXCEPT ![p][c] = "free"]
      BY <1>2, <2>1
    <3> QED BY <3>1, ClientBecomes
  <2>3. ConnectionTypes' /\ OtherPods(p) /\ sync'[p] = "idle"
    BY <1>2, <1>3, <2>1, <2>2 DEF ConnectionTypes, OtherPods
  <2>4. SocketTypeOK'
    BY <1>2, <2>3, SocketTypesKept
  <2>5. SyncRegular(p)'
    BY <1>1, <1>2, <2>1, <2>2, <2>3 DEF SyncRegular
  <2>6. \A d \in Clients : Stray(p, d)' => Stray(p, d)
    BY <1>1, <1>2, <2>1, <2>2, <2>3 DEF Stray, Awaited
  <2> QED BY <1>2, <2>3, <2>4, <2>5, <2>6, PodStep
<1> QED BY <1>2, <1>4, <1>5

LEMMA SystemConflictInv ==
    ASSUME SocketInv, NEW p \in Trackers, NEW c \in Clients, SystemConflict(p, c)
    PROVE  SocketInv'
<1>1. /\ ConnectionTypes /\ SyncRegular(p) /\ client[p][c] = "open" /\ SocketFault
      /\ backoff' = [backoff EXCEPT ![p] = TRUE] /\ intentional' = [intentional EXCEPT ![p] = TRUE]
      /\ system' = [system EXCEPT ![p] = c] /\ CloseClient(p, c)
      /\ UNCHANGED <<active, leaseVars, sync, syncClient, connected, lateCloses>>
  BY ConnectionTypesHold DEF SocketInv, SystemConflict
<1>2. client' = [client EXCEPT ![p][c] = "closing"]
  BY <1>1 DEF CloseClient, ConnectionTypes
<1>3. /\ client' \in [Trackers -> [Clients -> ClientStates]] /\ client'[p][c] = "closing"
      /\ \A d \in Clients : d # c => client'[p][d] = client[p][d]
      /\ \A q \in Trackers : q # p => client'[q] = client[q]
  BY <1>1, <1>2, ClientBecomes
<1>4. ConnectionTypes' /\ OtherPods(p)
  BY <1>1, <1>3 DEF ConnectionTypes, OtherPods
<1>5. SocketTypeOK'
  BY <1>1, <1>4, SocketTypesKept
<1>6. SyncRegular(p)'
  BY <1>1, <1>3 DEF SyncRegular, ConnectionTypes
<1>7. \A d \in Clients : Stray(p, d)' => Stray(p, d)
  BY <1>1, <1>3 DEF Stray, Awaited
<1> QED BY <1>1, <1>4, <1>5, <1>6, <1>7, PodStep

\* A close event empties the map whatever it holds: when it was another client, the
\* closed one was a stray, and the other takes its place.
LEMMA OnCloseInv ==
    ASSUME SocketInv, NEW p \in Trackers, NEW c \in Clients,
           CloseEvent(p, c) \/ SocketDrops(p, c)
    PROVE  SocketInv'
<1>1. /\ ConnectionTypes /\ SyncRegular(p) /\ client[p][c] \in {"closing", "login", "open"}
      /\ OnClose(p, c)
      /\ UNCHANGED socketFaults \/ SocketFault
      /\ UNCHANGED <<active, leaseVars, lateCloses>>
  BY ConnectionTypesHold DEF SocketInv, CloseEvent, SocketDrops
<1>2. /\ connected' = [connected EXCEPT ![p] = NoClient] /\ client' = [client EXCEPT ![p][c] = "free"]
      /\ \/ Awaited(p, c) /\ SyncDone(p)
         \/ ~Awaited(p, c) /\ UNCHANGED <<sync, syncClient>>
      /\ intentional' \in [Trackers -> BOOLEAN] /\ backoff' \in [Trackers -> BOOLEAN]
      /\ system' \in [Trackers -> Clients \cup {NoClient}]
  <2>1. /\ connected' = [connected EXCEPT ![p] = NoClient]
        /\ client' = [client EXCEPT ![p][c] = "free"]
        /\ \/ Awaited(p, c) /\ SyncDone(p)
           \/ ~Awaited(p, c) /\ UNCHANGED <<sync, syncClient>>
    BY <1>1 DEF OnClose, Awaited
  <2>2. intentional' \in [Trackers -> BOOLEAN] /\ system' \in [Trackers -> Clients \cup {NoClient}]
    BY <1>1 DEF OnClose, ConnectionTypes
  <2>3. PICK b \in BOOLEAN : backoff' = [backoff EXCEPT ![p] = b]
    BY <1>1 DEF OnClose
  <2>4. backoff' \in [Trackers -> BOOLEAN]
    BY <1>1, <2>3 DEF ConnectionTypes
  <2> QED BY <2>1, <2>2, <2>4
<1>3. /\ client' \in [Trackers -> [Clients -> ClientStates]] /\ client'[p][c] = "free"
      /\ \A d \in Clients : d # c => client'[p][d] = client[p][d]
      /\ \A q \in Trackers : q # p => client'[q] = client[q]
  BY <1>1, <1>2, ClientBecomes
<1>4. /\ ConnectionTypes' /\ OtherPods(p) /\ connected'[p] = NoClient
      /\ \/ Awaited(p, c) /\ sync'[p] = "idle"
         \/ ~Awaited(p, c) /\ sync'[p] = sync[p] /\ syncClient'[p] = syncClient[p]
  BY <1>1, <1>2, <1>3 DEF ConnectionTypes, OtherPods, SyncDone
<1>5. SocketTypeOK'
  BY <1>1, <1>4, SocketTypesKept
<1>6. SyncRegular(p)'
  BY <1>1, <1>3, <1>4 DEF SyncRegular, Awaited
<1>7. CASE connected[p] \in {NoClient, c}
  <2>1. \A d \in Clients : Stray(p, d)' => Stray(p, d)
    BY <1>1, <1>3, <1>4, <1>7, SocketAssumption DEF Stray, Awaited
  <2> QED BY <1>1, <1>4, <1>5, <1>6, <2>1, PodStep
<1>8. CASE connected[p] \notin {NoClient, c}
  <2>1. sync[p] = "idle" /\ client[p][c] # "login"
    BY <1>1, <1>8 DEF SyncRegular
  <2>2. Stray(p, c)
    BY <1>1, <1>8, <2>1 DEF Stray, Awaited
  <2>3. \A d \in Clients : Stray(p, d)' => (Stray(p, d) /\ d # c) \/ d = connected[p]
    BY <1>3, <1>4, <2>1 DEF Stray, Awaited
  <2> QED BY <1>1, <1>4, <1>5, <1>6, <2>2, <2>3, PodStep
<1> QED BY <1>7, <1>8

LEMMA CloseTimeoutInv ==
    ASSUME SocketInv, NEW p \in Trackers, CloseTimeout(p)
    PROVE  SocketInv'
<1>1. /\ ConnectionTypes /\ SyncRegular(p) /\ SocketFault /\ lateCloses' = lateCloses + 1
      /\ UNCHANGED <<active, leaseVars, client, connected>>
      /\ intentional' \in [Trackers -> BOOLEAN] /\ backoff' \in [Trackers -> BOOLEAN]
      /\ system' \in [Trackers -> Clients \cup {NoClient}]
      /\ \/ sync[p] \in {"closing", "failing"} /\ SyncDone(p)
         \/ UNCHANGED <<sync, syncClient>>
  BY ConnectionTypesHold DEF SocketInv, CloseTimeout, ConnectionTypes
<1>2. /\ ConnectionTypes' /\ OtherPods(p)
      /\ \/ sync[p] \in {"closing", "failing"} /\ sync'[p] = "idle"
         \/ sync'[p] = sync[p] /\ syncClient'[p] = syncClient[p]
  BY <1>1 DEF ConnectionTypes, OtherPods, SyncDone
<1>3. SocketTypeOK'
  BY <1>1, <1>2, SocketTypesKept
<1>4. SyncRegular(p)'
  BY <1>1, <1>2 DEF SyncRegular
<1>5. \A d \in Clients : Stray(p, d)' => Stray(p, d) \/ d = syncClient[p]
  BY <1>1, <1>2 DEF Stray, Awaited
<1> QED BY <1>1, <1>2, <1>3, <1>4, <1>5, PodStep

LEMMA PodRestartsInv ==
    ASSUME SocketInv, NEW p \in Trackers, PodRestarts(p)
    PROVE  SocketInv'
<1>1. /\ ConnectionTypes /\ SocketTypeOK /\ lateCloses' = lateCloses
  BY ConnectionTypesHold DEF SocketInv, PodRestarts
<1>2. [c \in Clients |-> "free"] \in [Clients -> ClientStates]
  BY DEF ClientStates
<1>3. /\ ConnectionTypes' /\ OtherPods(p) /\ sync'[p] = "idle" /\ connected'[p] = NoClient
      /\ \A c \in Clients : client'[p][c] = "free"
  BY <1>1, <1>2 DEF ConnectionTypes, OtherPods, PodRestarts, SyncDone
<1>4. /\ active' \in BOOLEAN /\ lease' \in Trackers \cup {NoPod, Gone}
      /\ refresh' \in [Trackers -> {"idle", "get", "renew"}] /\ owned' \in [Trackers -> BOOLEAN]
      /\ socketFaults' \in 0 .. MaxSocketFaults
  BY <1>1, SocketAssumption DEF SocketTypeOK, PodRestarts, SocketFault
<1>5. SocketTypeOK'
  BY <1>1, <1>3, <1>4 DEF SocketTypeOK, ConnectionTypes, ClientStates
<1>6. SyncRegular(p)'
  BY <1>3 DEF SyncRegular
<1>7. \A d \in Clients : Stray(p, d)' => Stray(p, d)
  BY <1>3 DEF Stray, Awaited
<1> QED BY <1>1, <1>3, <1>5, <1>6, <1>7, PodStep

LEMMA SocketInitInv == SocketInit => SocketInv
<1> SUFFICES ASSUME SocketInit PROVE SocketInv
  OBVIOUS
<1>1. SocketTypeOK
  BY SocketAssumption DEF SocketInit, SocketTypeOK
<1>2. \A p \in Trackers : SyncRegular(p)
  BY DEF SocketInit, SyncRegular
<1>3. Strays = {}
  BY DEF SocketInit, Strays, Stray
<1>4. Cardinality(Strays) <= lateCloses
  BY <1>3, FS_EmptySet DEF SocketInit
<1> QED BY <1>1, <1>2, <1>4 DEF SocketInv

LEMMA SocketStep == SocketInv /\ [SocketNext]_socketVars => SocketInv'
<1> SUFFICES ASSUME SocketInv, [SocketNext]_socketVars PROVE SocketInv'
  OBVIOUS
<1>1. CASE UNCHANGED socketVars
  <2>1. SocketTypeOK' /\ UNCHANGED <<sync, syncClient, client, connected, lateCloses>>
    BY <1>1 DEF socketVars, SocketInv, SocketTypeOK
  <2> QED BY <2>1, ConnectionsQuiet
<1>2. CASE LeaseExpires \/ AccountChanges
  <2>1. SocketTypeOK'
    <3>1. SocketTypeOK /\ UNCHANGED <<refresh, owned, connectionVars>>
      BY <1>2 DEF SocketInv, LeaseExpires, AccountChanges, leaseVars
    <3>2. UNCHANGED socketFaults \/ SocketFault
      BY <1>2 DEF LeaseExpires, AccountChanges
    <3>3. socketFaults' \in 0 .. MaxSocketFaults
      BY <3>1, <3>2, SocketAssumption DEF SocketTypeOK, SocketFault
    <3>4. active' \in BOOLEAN
      BY <1>2, <3>1 DEF LeaseExpires, AccountChanges, SocketTypeOK
    <3>5. lease' \in Trackers \cup {NoPod, Gone}
      BY <1>2, <3>1 DEF LeaseExpires, AccountChanges, leaseVars, SocketTypeOK
    <3> QED BY <3>1, <3>3, <3>4, <3>5 DEF SocketTypeOK, connectionVars
  <2> QED BY <1>2, <2>1, ConnectionsQuiet DEF LeaseExpires, AccountChanges, connectionVars
<1>3. ASSUME NEW p \in Trackers,
             \/ RefreshSet(p) \/ RefreshGet(p) \/ RefreshRenew(p) \/ RefreshFails(p)
             \/ SyncDisconnect(p) \/ SyncConnect(p) \/ SocketOpens(p) \/ LoginAcked(p)
             \/ ConnectFails(p) \/ LoginFails(p) \/ CloseTimeout(p) \/ BackoffEnds(p)
             \/ PodRestarts(p)
             \/ \E c \in Clients : SystemConflict(p, c) \/ CloseEvent(p, c) \/ SocketDrops(p, c)
      PROVE  SocketInv'
  BY <1>3, LeaseInv, SyncDisconnectInv, SyncConnectInv, SocketOpensInv, LoginAckedInv,
     ConnectFailsInv, LoginFailsInv, CloseTimeoutInv, PodRestartsInv, SystemConflictInv,
     OnCloseInv
<1> QED BY <1>1, <1>2, <1>3 DEF SocketNext

LEMMA SocketInvSafe == SocketInv => SocketsSafe
<1> SUFFICES ASSUME SocketInv PROVE SocketsSafe
  OBVIOUS
<1>1. ConnectionsAreAlive
  BY DEF SocketInv, SyncRegular, ConnectionsAreAlive
<1>2. PICK S, T : S = Strays /\ T = UNION {Orphans(p) \X {p} : p \in Trackers}
  OBVIOUS
<1>3. T \subseteq S
  <2> SUFFICES ASSUME NEW x \in T PROVE x \in S
    OBVIOUS
  <2>1. PICK p \in Trackers : x \in Orphans(p) \X {p}
    BY <1>2
  <2>2. PICK c \in Orphans(p) : x = <<c, p>>
    BY <2>1
  <2>3. c \in Clients /\ Stray(p, c)
    BY <2>2 DEF Orphans, Stray
  <2> QED BY <1>2, <2>2, <2>3 DEF Strays
<1>4. Cardinality(T) <= Cardinality(S) /\ IsFiniteSet(T) /\ IsFiniteSet(S)
  BY <1>2, <1>3, StraysFinite, FS_Subset
<1>5. Cardinality(T) \in Nat /\ Cardinality(S) \in Nat /\ lateCloses \in Nat
  BY <1>4, FS_CardinalityType DEF SocketInv, SocketTypeOK
<1>6. Cardinality(T) <= lateCloses
  BY <1>2, <1>4, <1>5 DEF SocketInv
<1> QED BY <1>1, <1>2, <1>6 DEF SocketsSafe, OrphansAreLateCloses

\* Whatever leases expire, sockets drop and closes time out in whichever pods, the
\* map of KiwoomExecutionSubscriber holds live clients only, and there are never more
\* open sockets outside it than closes that came after the code stopped waiting.
THEOREM SocketsAreSafe == SocketSpec => []SocketsSafe
BY SocketInitInv, SocketStep, SocketInvSafe, PTL DEF SocketSpec

-----------------------------------------------------------------------------
(* RestGate: nothing leaks, the caps hold, account calls are sent once.       *)

RequestPlaces == {"idle", "process", "shared", "local", "pace", "fetch"}
Request == [pc : RequestPlaces, pod : RestPods \cup {0}, charged : SUBSET RestCreds,
            cred : SUBSET RestCreds, tried : SUBSET RestCreds, attempt : 0 .. MaxRestAttempts,
            retried : BOOLEAN, fetches : Nat, count : Nat]

\* A request under way has one credential; it is charged to one from the lease on, and
\* has its lease unless that lapsed.  An account's request was never sent before; a
\* collector's once for every earlier attempt, and once more for a refused token.
RequestRegular(r) ==
    /\ req[r].pc = "idle" <=> req[r].pod = 0
    /\ req[r].pc = "idle" => req[r].fetches = 0 /\ req[r].charged = {} /\ req[r].attempt = 0
    /\ req[r].pc # "idle" =>
         /\ \E c \in RestCreds : req[r].cred = {c}
         /\ req[r].attempt >= 1
         /\ req[r].fetches + 2 <= 2 * req[r].attempt + (IF req[r].retried THEN 1 ELSE 0)
    /\ req[r].pc \in {"process", "shared"} => req[r].charged = {}
    /\ req[r].pc \in {"local", "pace", "fetch"} => \E c \in RestCreds : req[r].charged = {c}
    /\ \A c \in RestCreds : req[r].charged = {c} => r \in leases[c] \/ r \in lapsed
    /\ req[r].cred \subseteq AccountCreds => req[r].fetches = 0

\* The hash in Redis never holds more leases than the cap.
LeasesBounded ==
    \A c \in RestCreds : leases[c] \subseteq Requests /\ Cardinality(leases[c]) <= CredentialCap

\* The counters of the limiters are the requests under way.
RunCounted ==
    \A p \in RestPods : inFlight[p] = Cardinality(InRun(p)) /\ inFlight[p] <= ProcessCap
RestCounted ==
    \A p \in RestPods, c \in RestCreds :
        credInFlight[p][c] = Cardinality(InRest(p, c)) /\ credInFlight[p][c] <= CredentialCap

GateTypes ==
    /\ req \in [Requests -> Request]
    /\ inFlight \in [RestPods -> Nat] /\ credInFlight \in [RestPods -> [RestCreds -> Nat]]
    /\ leases \in [RestCreds -> SUBSET Requests]
    /\ second \in [RestPods -> [RestCreds -> Nat]]

GateInv ==
    /\ GateTypes /\ LeasesBounded /\ RunCounted /\ RestCounted
    /\ \A r \in Requests : RequestRegular(r)

LEMMA CapsPositive ==
    /\ ProcessCap \in Nat \ {0} /\ CredentialCap \in Nat \ {0} /\ MaxPerSecond \in Nat \ {0}
    /\ MaxRestAttempts \in Nat \ {0} /\ MaxRestFaults \in Nat
BY RestAssumption

LEMMA TheOne == \A c : The({c}) = c
BY DEF The

\* Two sets that differ in r at most.
LEMMA CardChange ==
    ASSUME NEW S, IsFiniteSet(S), NEW T, NEW r, \A s : s # r => (s \in S <=> s \in T)
    PROVE  /\ Cardinality(S) \in Nat
           /\ (r \in T <=> r \in S) => Cardinality(T) = Cardinality(S)
           /\ r \in T /\ r \notin S => Cardinality(T) = Cardinality(S) + 1
           /\ r \notin T /\ r \in S => Cardinality(T) = Cardinality(S) - 1 /\ Cardinality(S) >= 1
<1>1. Cardinality(S) \in Nat
  BY FS_CardinalityType
<1>2. (r \in T <=> r \in S) => T = S
  OBVIOUS
<1>3. ASSUME r \in T, r \notin S PROVE Cardinality(T) = Cardinality(S) + 1
  <2>1. T = S \cup {r}
    BY <1>3
  <2> QED BY <1>3, <2>1, FS_AddElement
<1>4. ASSUME r \notin T, r \in S
      PROVE  Cardinality(T) = Cardinality(S) - 1 /\ Cardinality(S) >= 1
  <2>1. T = S \ {r}
    BY <1>4
  <2>2. Cardinality(T) = Cardinality(S) - 1
    BY <1>4, <2>1, FS_RemoveElement
  <2>3. Cardinality(S) # 0
    BY <1>4, FS_EmptySet
  <2> QED BY <1>1, <2>2, <2>3
<1> QED BY <1>1, <1>2, <1>3, <1>4

\* Only request r changes.
Only(r) == req' \in [Requests -> Request] /\ \A s \in Requests : s # r => req'[s] = req[s]

LEMMA RunChange ==
    ASSUME NEW r \in Requests, Only(r), NEW p \in RestPods
    PROVE  /\ Cardinality(InRun(p)) \in Nat
           /\ (r \in InRun(p)' <=> r \in InRun(p)) => Cardinality(InRun(p)') = Cardinality(InRun(p))
           /\ r \in InRun(p)' /\ r \notin InRun(p) =>
                Cardinality(InRun(p)') = Cardinality(InRun(p)) + 1
           /\ r \notin InRun(p)' /\ r \in InRun(p) =>
                Cardinality(InRun(p)') = Cardinality(InRun(p)) - 1 /\ Cardinality(InRun(p)) >= 1
<1>1. IsFiniteSet(InRun(p))
  BY RestAssumption, FS_Subset DEF InRun
<1>2. \A s : s # r => (s \in InRun(p) <=> s \in InRun(p)')
  BY DEF InRun, Only, PodOf
<1> QED BY <1>1, <1>2, CardChange

LEMMA RestChange ==
    ASSUME NEW r \in Requests, Only(r), NEW p \in RestPods, NEW c \in RestCreds
    PROVE  /\ Cardinality(InRest(p, c)) \in Nat
           /\ (r \in InRest(p, c)' <=> r \in InRest(p, c)) =>
                Cardinality(InRest(p, c)') = Cardinality(InRest(p, c))
           /\ r \in InRest(p, c)' /\ r \notin InRest(p, c) =>
                Cardinality(InRest(p, c)') = Cardinality(InRest(p, c)) + 1
           /\ r \notin InRest(p, c)' /\ r \in InRest(p, c) =>
                /\ Cardinality(InRest(p, c)') = Cardinality(InRest(p, c)) - 1
                /\ Cardinality(InRest(p, c)) >= 1
<1>1. IsFiniteSet(InRest(p, c))
  BY RestAssumption, FS_Subset DEF InRest
<1>2. \A s : s # r => (s \in InRest(p, c) <=> s \in InRest(p, c)')
  BY DEF InRest, Only, PodOf
<1> QED BY <1>1, <1>2, CardChange

Running == {"shared", "local", "pace", "fetch"}

\* The process limiter: a request that stays inside or outside, enters, leaves.
LEMMA RunStays ==
    ASSUME GateInv, NEW r \in Requests, Only(r), UNCHANGED inFlight,
           req'[r].pod = req[r].pod \/ (req[r].pc \notin Running /\ req'[r].pc \notin Running),
           req'[r].pc \in Running <=> req[r].pc \in Running
    PROVE  RunCounted'
<1> SUFFICES ASSUME NEW p \in RestPods
             PROVE  inFlight'[p] = Cardinality(InRun(p)') /\ inFlight'[p] <= ProcessCap
  BY DEF RunCounted
<1>1. r \in InRun(p)' <=> r \in InRun(p)
  BY DEF InRun, PodOf, Running
<1> QED BY <1>1, RunChange DEF GateInv, RunCounted

LEMMA RunEnters ==
    ASSUME GateInv, NEW r \in Requests, Only(r), NEW p \in RestPods, req'[r].pod = p,
           req[r].pc \notin Running, req'[r].pc \in Running,
           inFlight[p] < ProcessCap, inFlight' = [inFlight EXCEPT ![p] = @ + 1]
    PROVE  RunCounted'
<1> SUFFICES ASSUME NEW q \in RestPods
             PROVE  inFlight'[q] = Cardinality(InRun(q)') /\ inFlight'[q] <= ProcessCap
  BY DEF RunCounted
<1>1. /\ inFlight \in [RestPods -> Nat] /\ inFlight[q] = Cardinality(InRun(q))
      /\ inFlight[q] <= ProcessCap
  BY DEF GateInv, GateTypes, RunCounted
<1>2. r \notin InRun(q) /\ (r \in InRun(q)' <=> q = p)
  BY DEF InRun, PodOf, Running
<1>3. /\ Cardinality(InRun(q)) \in Nat
      /\ q = p => Cardinality(InRun(q)') = Cardinality(InRun(q)) + 1
      /\ q # p => Cardinality(InRun(q)') = Cardinality(InRun(q))
  BY <1>2, RunChange
<1> QED BY <1>1, <1>3, CapsPositive

LEMMA RunLeaves ==
    ASSUME GateInv, NEW r \in Requests, Only(r), NEW p \in RestPods, req[r].pod = p,
           req[r].pc \in Running, req'[r].pc \notin Running,
           inFlight' = [inFlight EXCEPT ![p] = @ - 1]
    PROVE  RunCounted' /\ inFlight' \in [RestPods -> Nat]
<1>1. ASSUME NEW q \in RestPods
      PROVE  /\ inFlight'[q] = Cardinality(InRun(q)') /\ inFlight'[q] <= ProcessCap
             /\ inFlight'[q] \in Nat
  <2>1. /\ inFlight \in [RestPods -> Nat] /\ inFlight[q] = Cardinality(InRun(q))
        /\ inFlight[q] <= ProcessCap
    BY DEF GateInv, GateTypes, RunCounted
  <2>2. r \notin InRun(q)' /\ (r \in InRun(q) <=> q = p)
    BY DEF InRun, PodOf, Running
  <2>3. /\ Cardinality(InRun(q)) \in Nat
        /\ q = p => /\ Cardinality(InRun(q)') = Cardinality(InRun(q)) - 1
                    /\ Cardinality(InRun(q)) >= 1
        /\ q # p => Cardinality(InRun(q)') = Cardinality(InRun(q))
    BY <2>2, RunChange
  <2> QED BY <2>1, <2>3, CapsPositive
<1>2. inFlight' \in [RestPods -> Nat]
  <2>1. inFlight' = [q \in RestPods |-> inFlight'[q]]
    BY DEF GateInv, GateTypes
  <2> QED BY <1>1, <2>1
<1> QED BY <1>1, <1>2 DEF RunCounted

\* The limiter of a credential, the same.
Paced == {"pace", "fetch"}

LEMMA RestStays ==
    ASSUME GateInv, NEW r \in Requests, Only(r), UNCHANGED credInFlight,
           \/ req'[r].pod = req[r].pod /\ req'[r].charged = req[r].charged
           \/ req[r].pc \notin Paced /\ req'[r].pc \notin Paced,
           req'[r].pc \in Paced <=> req[r].pc \in Paced
    PROVE  RestCounted'
<1> SUFFICES ASSUME NEW p \in RestPods, NEW c \in RestCreds
             PROVE  /\ credInFlight'[p][c] = Cardinality(InRest(p, c)')
                    /\ credInFlight'[p][c] <= CredentialCap
  BY DEF RestCounted
<1>1. r \in InRest(p, c)' <=> r \in InRest(p, c)
  BY DEF InRest, PodOf, Paced
<1> QED BY <1>1, RestChange DEF GateInv, RestCounted

LEMMA RestEnters ==
    ASSUME GateInv, NEW r \in Requests, Only(r), NEW p \in RestPods, NEW c \in RestCreds,
           req'[r].pod = p, req'[r].charged = {c}, req[r].pc \notin Paced, req'[r].pc \in Paced,
           credInFlight[p][c] < CredentialCap,
           credInFlight' = [credInFlight EXCEPT ![p][c] = @ + 1]
    PROVE  RestCounted' /\ credInFlight' \in [RestPods -> [RestCreds -> Nat]]
<1>1. credInFlight \in [RestPods -> [RestCreds -> Nat]]
  BY DEF GateInv, GateTypes
<1>2. credInFlight' \in [RestPods -> [RestCreds -> Nat]]
  BY <1>1
<1>3. ASSUME NEW q \in RestPods, NEW d \in RestCreds
      PROVE  /\ credInFlight'[q][d] = Cardinality(InRest(q, d)')
             /\ credInFlight'[q][d] <= CredentialCap
  <2>1. /\ credInFlight[q][d] = Cardinality(InRest(q, d))
        /\ credInFlight[q][d] <= CredentialCap
    BY DEF GateInv, RestCounted
  <2>2. r \notin InRest(q, d) /\ (r \in InRest(q, d)' <=> q = p /\ d = c)
    BY DEF InRest, PodOf, Paced
  <2>3. /\ Cardinality(InRest(q, d)) \in Nat
        /\ q = p /\ d = c => Cardinality(InRest(q, d)') = Cardinality(InRest(q, d)) + 1
        /\ ~(q = p /\ d = c) => Cardinality(InRest(q, d)') = Cardinality(InRest(q, d))
    BY <2>2, RestChange
  <2>4. credInFlight'[q][d] = IF q = p /\ d = c THEN credInFlight[q][d] + 1 ELSE credInFlight[q][d]
    BY <1>1
  <2> QED BY <2>1, <2>3, <2>4, CapsPositive
<1> QED BY <1>2, <1>3 DEF RestCounted

LEMMA RestLeaves ==
    ASSUME GateInv, NEW r \in Requests, Only(r), NEW p \in RestPods, NEW c \in RestCreds,
           req[r].pod = p, req[r].charged = {c}, req[r].pc \in Paced, req'[r].pc \notin Paced,
           credInFlight' = [credInFlight EXCEPT ![p][c] = @ - 1]
    PROVE  RestCounted' /\ credInFlight' \in [RestPods -> [RestCreds -> Nat]]
<1>1. credInFlight \in [RestPods -> [RestCreds -> Nat]]
  BY DEF GateInv, GateTypes
<1>2. ASSUME NEW q \in RestPods, NEW d \in RestCreds
      PROVE  /\ credInFlight'[q][d] = Cardinality(InRest(q, d)')
             /\ credInFlight'[q][d] <= CredentialCap /\ credInFlight'[q][d] \in Nat
  <2>1. /\ credInFlight[q][d] = Cardinality(InRest(q, d))
        /\ credInFlight[q][d] <= CredentialCap
    BY DEF GateInv, RestCounted
  <2>2. r \notin InRest(q, d)' /\ (r \in InRest(q, d) <=> q = p /\ d = c)
    BY DEF InRest, PodOf, Paced
  <2>3. /\ Cardinality(InRest(q, d)) \in Nat
        /\ q = p /\ d = c => /\ Cardinality(InRest(q, d)') = Cardinality(InRest(q, d)) - 1
                             /\ Cardinality(InRest(q, d)) >= 1
        /\ ~(q = p /\ d = c) => Cardinality(InRest(q, d)') = Cardinality(InRest(q, d))
    BY <2>2, RestChange
  <2>4. credInFlight'[q][d] = IF q = p /\ d = c THEN credInFlight[q][d] - 1 ELSE credInFlight[q][d]
    BY <1>1
  <2> QED BY <2>1, <2>3, <2>4, CapsPositive
<1>3. credInFlight' \in [RestPods -> [RestCreds -> Nat]]
  <2>1. \A q \in RestPods : credInFlight'[q] = [d \in RestCreds |-> credInFlight'[q][d]]
    BY <1>1
  <2>2. credInFlight' = [q \in RestPods |-> credInFlight'[q]]
    BY <1>1
  <2>3. \A q \in RestPods : credInFlight'[q] \in [RestCreds -> Nat]
    BY <1>2, <2>1
  <2> QED BY <2>2, <2>3
<1> QED BY <1>2, <1>3 DEF RestCounted

\* A lease of r is taken or given back; the others keep theirs.
LEMMA LeaseAdded ==
    ASSUME GateInv, NEW r \in Requests, NEW c \in RestCreds,
           Cardinality(leases[c]) < CredentialCap, leases' = [leases EXCEPT ![c] = @ \cup {r}]
    PROVE  LeasesBounded' /\ leases' \in [RestCreds -> SUBSET Requests] /\ r \in leases'[c]
<1>1. leases \in [RestCreds -> SUBSET Requests]
  BY DEF GateInv, GateTypes
<1>2. /\ leases' \in [RestCreds -> SUBSET Requests] /\ leases'[c] = leases[c] \cup {r}
      /\ \A d \in RestCreds : d # c => leases'[d] = leases[d]
  BY <1>1
<1>3. Cardinality(leases'[c]) <= CredentialCap
  <2>1. IsFiniteSet(leases[c])
    BY <1>1, RestAssumption, FS_Subset
  <2>2. \/ Cardinality(leases'[c]) = Cardinality(leases[c])
        \/ Cardinality(leases'[c]) = Cardinality(leases[c]) + 1
    BY <1>2, <2>1, FS_AddElement
  <2>3. Cardinality(leases[c]) \in Nat
    BY <2>1, FS_CardinalityType
  <2> QED BY <2>2, <2>3, CapsPositive
<1> QED BY <1>2, <1>3 DEF GateInv, LeasesBounded

LEMMA LeaseDropped ==
    ASSUME GateInv, NEW r \in Requests, NEW c \in RestCreds,
           leases' = [leases EXCEPT ![c] = @ \ {r}]
    PROVE  /\ LeasesBounded' /\ leases' \in [RestCreds -> SUBSET Requests]
           /\ \A s \in Requests, d \in RestCreds :
                s \in leases[d] /\ ~(s = r /\ d = c) => s \in leases'[d]
<1>1. leases \in [RestCreds -> SUBSET Requests]
  BY DEF GateInv, GateTypes
<1>2. /\ leases' \in [RestCreds -> SUBSET Requests] /\ leases'[c] = leases[c] \ {r}
      /\ \A d \in RestCreds : d # c => leases'[d] = leases[d]
  BY <1>1
<1>3. Cardinality(leases'[c]) <= CredentialCap
  <2>1. IsFiniteSet(leases[c])
    BY <1>1, RestAssumption, FS_Subset
  <2>2. /\ Cardinality(leases'[c]) <= Cardinality(leases[c]) /\ IsFiniteSet(leases'[c])
    BY <1>2, <2>1, FS_Subset
  <2>3. Cardinality(leases[c]) \in Nat /\ Cardinality(leases'[c]) \in Nat
    BY <2>1, <2>2, FS_CardinalityType
  <2>4. Cardinality(leases[c]) <= CredentialCap
    BY DEF GateInv, LeasesBounded
  <2> QED BY <2>2, <2>3, <2>4, CapsPositive
<1> QED BY <1>2, <1>3 DEF GateInv, LeasesBounded

\* A step of request r.
LEMMA GateStep ==
    ASSUME GateInv, NEW r \in Requests, Only(r), RequestRegular(r)', RunCounted', RestCounted',
           inFlight' \in [RestPods -> Nat], credInFlight' \in [RestPods -> [RestCreds -> Nat]],
           leases' \in [RestCreds -> SUBSET Requests],
           second' \in [RestPods -> [RestCreds -> Nat]], LeasesBounded',
           \A s \in Requests, c \in RestCreds : s # r /\ s \in leases[c] => s \in leases'[c],
           \A s \in Requests : s # r /\ s \in lapsed => s \in lapsed'
    PROVE  GateInv'
<1>1. \A s \in Requests : RequestRegular(s)'
  <2> SUFFICES ASSUME NEW s \in Requests, s # r PROVE RequestRegular(s)'
    OBVIOUS
  <2>1. RequestRegular(s) /\ req'[s] = req[s]
    BY DEF GateInv, Only
  <2> QED BY <2>1 DEF RequestRegular
<1>2. GateTypes'
  BY DEF GateTypes, Only
<1> QED BY <1>1, <1>2 DEF GateInv

LEMMA GateTypesHold ==
    ASSUME GateInv
    PROVE  /\ req \in [Requests -> Request] /\ inFlight \in [RestPods -> Nat]
           /\ credInFlight \in [RestPods -> [RestCreds -> Nat]]
           /\ leases \in [RestCreds -> SUBSET Requests]
           /\ second \in [RestPods -> [RestCreds -> Nat]]
           /\ LeasesBounded
BY DEF GateInv, GateTypes

LEMMA LeasesQuiet ==
    ASSUME GateInv, UNCHANGED leases
    PROVE  /\ LeasesBounded' /\ leases' \in [RestCreds -> SUBSET Requests]
           /\ \A s \in Requests, c \in RestCreds : s \in leases[c] => s \in leases'[c]
BY DEF GateInv, GateTypes, LeasesBounded

\* What is known of a request under way.
LEMMA RequestKnown ==
    ASSUME GateInv, NEW r \in Requests, req[r].pc # "idle"
    PROVE  /\ req[r] \in Request /\ req[r].pod \in RestPods /\ RequestRegular(r)
           /\ \E c \in RestCreds : req[r].cred = {c} /\ Using(r) = c
           /\ req[r].pc \in {"local", "pace", "fetch"} =>
                \E c \in RestCreds : req[r].charged = {c} /\ Charged(r) = c
           /\ req[r].attempt \in Nat /\ req[r].fetches \in Nat
<1>1. req[r] \in Request /\ RequestRegular(r)
  BY DEF GateInv, GateTypes
<1>2. req[r].pod \in RestPods /\ req[r].attempt \in Nat /\ req[r].fetches \in Nat
  BY <1>1, CapsPositive DEF Request, RequestRegular
<1>3. \E c \in RestCreds : req[r].cred = {c} /\ Using(r) = c
  BY <1>1, TheOne DEF RequestRegular, Using
<1>4. req[r].pc \in {"local", "pace", "fetch"} =>
        \E c \in RestCreds : req[r].charged = {c} /\ Charged(r) = c
  BY <1>1, TheOne DEF RequestRegular, Charged
<1> QED BY <1>1, <1>2, <1>3, <1>4

\* Request r becomes j.
LEMMA RequestBecomes ==
    ASSUME GateInv, NEW r \in Requests, NEW j \in Request, req' = [req EXCEPT ![r] = j]
    PROVE  Only(r) /\ req'[r] = j
BY GateTypesHold DEF Only

\* The request is over.
LEMMA RequestOver ==
    ASSUME GateInv, NEW r \in Requests, req' = [req EXCEPT ![r] = NoRequest]
    PROVE  /\ Only(r) /\ RequestRegular(r)'
           /\ req'[r].pc = "idle" /\ req'[r].pc \notin Running /\ req'[r].pc \notin Paced
<1>1. 0 \in 0 .. MaxRestAttempts
  BY CapsPositive
<1>2. /\ NoRequest \in Request /\ NoRequest.pc = "idle" /\ NoRequest.pod = 0
      /\ NoRequest.charged = {} /\ NoRequest.cred = {} /\ NoRequest.fetches = 0
      /\ NoRequest.attempt = 0
  BY <1>1 DEF NoRequest, Request, RequestPlaces
<1>3. Only(r) /\ req'[r] = NoRequest
  BY <1>2, RequestBecomes
<1>4. RequestRegular(r)'
  BY <1>2, <1>3 DEF RequestRegular
<1> QED BY <1>2, <1>3, <1>4 DEF Running, Paced

LEMMA StartRequestInv ==
    ASSUME GateInv, NEW r \in Requests, NEW p \in RestPods, NEW c \in RestCreds,
           StartRequest(r, p, c)
    PROVE  GateInv'
<1>1. PICK j : /\ j = [NoRequest EXCEPT !.pc = "process", !.pod = p, !.cred = {c},
                                        !.tried = {c}, !.attempt = 1]
               /\ req' = [req EXCEPT ![r] = j]
  BY DEF StartRequest
<1>2. 1 \in 0 .. MaxRestAttempts
  BY CapsPositive
<1>3. /\ j \in Request /\ j.pc = "process" /\ j.pod = p /\ j.cred = {c} /\ j.attempt = 1
      /\ j.fetches = 0 /\ j.charged = {} /\ j.retried = FALSE
  BY <1>1, <1>2 DEF NoRequest, Request, RequestPlaces
<1>4. Only(r) /\ req'[r] = j
  BY <1>1, <1>3, RequestBecomes
<1>5. RequestRegular(r)'
  <2>1. p # 0
    BY RestAssumption
  <2>2. 0 + 2 <= 2 * 1 + 0
    OBVIOUS
  <2> QED BY <1>3, <1>4, <2>1, <2>2 DEF RequestRegular
<1>6. /\ req[r].pc = "idle"
      /\ UNCHANGED <<inFlight, credInFlight, leases, lapsed, second>>
  BY DEF StartRequest, pacing
<1>7. RunCounted' /\ RestCounted'
  BY <1>3, <1>4, <1>6, RunStays, RestStays DEF Running, Paced
<1> QED BY <1>4, <1>5, <1>6, <1>7, GateTypesHold, LeasesQuiet, GateStep

LEMMA AcquireProcessInv ==
    ASSUME GateInv, NEW r \in Requests, AcquireProcess(r)
    PROVE  GateInv'
<1>1. PICK p : p = req[r].pod
  OBVIOUS
<1>2. /\ req[r].pc = "process" /\ p \in RestPods /\ req[r] \in Request /\ RequestRegular(r)
      /\ UNCHANGED <<credInFlight, leases, lapsed, second>>
  BY <1>1, RequestKnown DEF AcquireProcess, pacing
<1>3. CASE req' = [req EXCEPT ![r] = NoRequest] /\ UNCHANGED inFlight
  <2>1. /\ Only(r) /\ RequestRegular(r)'
        /\ req'[r].pc = "idle" /\ req'[r].pc \notin Running /\ req'[r].pc \notin Paced
    BY <1>3, RequestOver
  <2>2. RunCounted' /\ RestCounted'
    BY <1>2, <1>3, <2>1, RunStays, RestStays DEF Running, Paced
  <2> QED BY <1>2, <1>3, <2>1, <2>2, GateTypesHold, LeasesQuiet, GateStep
<1>4. ASSUME inFlight[p] < ProcessCap, inFlight' = [inFlight EXCEPT ![p] = @ + 1],
             req' = [req EXCEPT ![r].pc = "shared"]
      PROVE  GateInv'
  <2>1. PICK j : j = [req[r] EXCEPT !.pc = "shared"] /\ req' = [req EXCEPT ![r] = j]
    BY <1>4, GateTypesHold
  <2>2. /\ j \in Request /\ j.pc = "shared" /\ j.pod = p /\ j.charged = req[r].charged
        /\ j.cred = req[r].cred /\ j.fetches = req[r].fetches /\ j.attempt = req[r].attempt
        /\ j.retried = req[r].retried
    BY <1>1, <1>2, <2>1 DEF Request, RequestPlaces
  <2>3. Only(r) /\ req'[r] = j
    BY <2>1, <2>2, RequestBecomes
  <2>4. RequestRegular(r)'
    BY <1>1, <1>2, <2>2, <2>3 DEF RequestRegular
  <2>5. RunCounted' /\ RestCounted'
    BY <1>2, <1>4, <2>2, <2>3, RunEnters, RestStays DEF Running, Paced
  <2>6. inFlight' \in [RestPods -> Nat]
    BY <1>2, <1>4, GateTypesHold
  <2> QED BY <1>2, <2>3, <2>4, <2>5, <2>6, GateTypesHold, LeasesQuiet, GateStep
<1> QED BY <1>1, <1>3, <1>4 DEF AcquireProcess, PodOf

LEMMA AcquireSharedInv ==
    ASSUME GateInv, NEW r \in Requests, AcquireShared(r)
    PROVE  GateInv'
<1>1. PICK p, c : p = req[r].pod /\ c = Using(r)
  OBVIOUS
<1>2. /\ req[r].pc = "shared" /\ p \in RestPods /\ c \in RestCreds /\ req[r].cred = {c}
      /\ req[r] \in Request /\ RequestRegular(r)
      /\ UNCHANGED <<credInFlight, lapsed, second>>
  BY <1>1, RequestKnown DEF AcquireShared, pacing
<1>3. CASE Leaves(r) /\ UNCHANGED leases
  <2>1. /\ req' = [req EXCEPT ![r] = NoRequest] /\ inFlight' = [inFlight EXCEPT ![p] = @ - 1]
    BY <1>1, <1>3 DEF Leaves, PodOf
  <2>2. /\ Only(r) /\ RequestRegular(r)'
        /\ req'[r].pc = "idle" /\ req'[r].pc \notin Running /\ req'[r].pc \notin Paced
    BY <2>1, RequestOver
  <2>3. RunCounted' /\ inFlight' \in [RestPods -> Nat]
    BY <1>1, <1>2, <2>1, <2>2, RunLeaves DEF Running
  <2>4. RestCounted'
    BY <1>2, <2>2, RestStays DEF Paced
  <2> QED BY <1>2, <1>3, <2>2, <2>3, <2>4, GateTypesHold, LeasesQuiet, GateStep
<1>4. ASSUME Cardinality(leases[c]) < CredentialCap, leases' = [leases EXCEPT ![c] = @ \cup {r}],
             req' = [req EXCEPT ![r].pc = "local", ![r].charged = {c}], UNCHANGED inFlight
      PROVE  GateInv'
  <2>1. PICK j : j = [req[r] EXCEPT !.pc = "local", !.charged = {c}] /\ req' = [req EXCEPT ![r] = j]
    BY <1>4, GateTypesHold
  <2>2. /\ j \in Request /\ j.pc = "local" /\ j.pod = p /\ j.charged = {c}
        /\ j.cred = req[r].cred /\ j.fetches = req[r].fetches /\ j.attempt = req[r].attempt
        /\ j.retried = req[r].retried
    BY <1>1, <1>2, <2>1 DEF Request, RequestPlaces
  <2>3. Only(r) /\ req'[r] = j
    BY <2>1, <2>2, RequestBecomes
  <2>4. /\ LeasesBounded' /\ leases' \in [RestCreds -> SUBSET Requests] /\ r \in leases'[c]
    BY <1>2, <1>4, LeaseAdded
  <2>5. RequestRegular(r)'
    <3>1. \A d \in RestCreds : j.charged = {d} => d = c
      BY <2>2
    <3> QED BY <1>1, <1>2, <2>2, <2>3, <2>4, <3>1 DEF RequestRegular
  <2>6. RunCounted' /\ RestCounted'
    BY <1>1, <1>2, <1>4, <2>2, <2>3, RunStays, RestStays DEF Running, Paced
  <2>7. \A s \in Requests, d \in RestCreds : s \in leases[d] => s \in leases'[d]
    BY <1>2, <1>4, GateTypesHold
  <2> QED BY <1>2, <1>4, <2>3, <2>4, <2>5, <2>6, <2>7, GateTypesHold, GateStep
<1> QED BY <1>1, <1>3, <1>4 DEF AcquireShared

LEMMA AcquireLocalInv ==
    ASSUME GateInv, NEW r \in Requests, AcquireLocal(r)
    PROVE  GateInv'
<1>1. PICK p, c : p = req[r].pod /\ c = Charged(r)
  OBVIOUS
<1>2. /\ req[r].pc = "local" /\ p \in RestPods /\ c \in RestCreds /\ req[r].charged = {c}
      /\ req[r] \in Request /\ RequestRegular(r) /\ UNCHANGED second
  BY <1>1, RequestKnown DEF AcquireLocal
<1>3. ASSUME Leaves(r), leases' = [leases EXCEPT ![c] = @ \ {r}], lapsed' = lapsed \ {r},
             UNCHANGED credInFlight
      PROVE  GateInv'
  <2>1. /\ req' = [req EXCEPT ![r] = NoRequest] /\ inFlight' = [inFlight EXCEPT ![p] = @ - 1]
    BY <1>1, <1>3 DEF Leaves, PodOf
  <2>2. /\ Only(r) /\ RequestRegular(r)'
        /\ req'[r].pc = "idle" /\ req'[r].pc \notin Running /\ req'[r].pc \notin Paced
    BY <2>1, RequestOver
  <2>3. RunCounted' /\ inFlight' \in [RestPods -> Nat]
    BY <1>1, <1>2, <2>1, <2>2, RunLeaves DEF Running
  <2>4. RestCounted'
    BY <1>2, <1>3, <2>2, RestStays DEF Paced
  <2>5. /\ LeasesBounded' /\ leases' \in [RestCreds -> SUBSET Requests]
        /\ \A s \in Requests, d \in RestCreds : s # r /\ s \in leases[d] => s \in leases'[d]
    BY <1>2, <1>3, LeaseDropped
  <2>6. \A s \in Requests : s # r /\ s \in lapsed => s \in lapsed'
    BY <1>3
  <2> QED BY <1>2, <1>3, <2>2, <2>3, <2>4, <2>5, <2>6, GateTypesHold, GateStep
<1>4. ASSUME NEW place \in Paced, credInFlight[p][c] < CredentialCap,
             credInFlight' = [credInFlight EXCEPT ![p][c] = @ + 1],
             req' = [req EXCEPT ![r].pc = place], UNCHANGED <<inFlight, leases, lapsed>>
      PROVE  GateInv'
  <2>1. PICK j : j = [req[r] EXCEPT !.pc = place] /\ req' = [req EXCEPT ![r] = j]
    BY <1>4, GateTypesHold
  <2>2. /\ j \in Request /\ j.pc = place /\ j.pod = p /\ j.charged = {c}
        /\ j.cred = req[r].cred /\ j.fetches = req[r].fetches /\ j.attempt = req[r].attempt
        /\ j.retried = req[r].retried
    BY <1>1, <1>2, <1>4, <2>1 DEF Request, RequestPlaces, Paced
  <2>3. Only(r) /\ req'[r] = j
    BY <2>1, <2>2, RequestBecomes
  <2>4. RequestRegular(r)'
    BY <1>1, <1>2, <1>4, <2>2, <2>3 DEF RequestRegular, Paced
  <2>5. RunCounted'
    BY <1>1, <1>2, <1>4, <2>2, <2>3, RunStays DEF Running, Paced
  <2>6. RestCounted' /\ credInFlight' \in [RestPods -> [RestCreds -> Nat]]
    <3>1. req[r].pc \notin Paced
      BY <1>2 DEF Paced
    <3> QED BY <1>2, <1>4, <2>2, <2>3, <3>1, RestEnters
  <2> QED BY <1>2, <1>4, <2>3, <2>4, <2>5, <2>6, GateTypesHold, LeasesQuiet, GateStep
<1>5. PICK place \in Paced : place = IF IsCollector(r) THEN "pace" ELSE "fetch"
  BY DEF Paced
<1> QED BY <1>1, <1>3, <1>4, <1>5 DEF AcquireLocal, PodOf

LEMMA PaceInv ==
    ASSUME GateInv, NEW r \in Requests, Pace(r)
    PROVE  GateInv'
<1>1. PICK p, c, n : p = req[r].pod /\ c = Using(r) /\ n = second[p][c] + 1
  OBVIOUS
<1>2. /\ req[r].pc = "pace" /\ p \in RestPods /\ c \in RestCreds
      /\ req[r] \in Request /\ RequestRegular(r)
      /\ UNCHANGED <<inFlight, credInFlight, leases, lapsed>>
  BY <1>1, RequestKnown DEF Pace
<1>3. n \in Nat /\ second' = [second EXCEPT ![p][c] = n]
  BY <1>1, <1>2, GateTypesHold DEF Pace, PodOf
<1>4. second' \in [RestPods -> [RestCreds -> Nat]]
  BY <1>2, <1>3, GateTypesHold
<1>5. PICK j : j = [req[r] EXCEPT !.pc = "fetch", !.count = n] /\ req' = [req EXCEPT ![r] = j]
  BY <1>1, GateTypesHold DEF Pace, PodOf
<1>6. /\ j \in Request /\ j.pc = "fetch" /\ j.pod = p /\ j.charged = req[r].charged
      /\ j.cred = req[r].cred /\ j.fetches = req[r].fetches /\ j.attempt = req[r].attempt
      /\ j.retried = req[r].retried
  BY <1>1, <1>2, <1>3, <1>5 DEF Request, RequestPlaces
<1>7. Only(r) /\ req'[r] = j
  BY <1>5, <1>6, RequestBecomes
<1>8. RequestRegular(r)'
  BY <1>1, <1>2, <1>6, <1>7 DEF RequestRegular
<1>9. RunCounted' /\ RestCounted'
  BY <1>1, <1>2, <1>6, <1>7, RunStays, RestStays DEF Running, Paced
<1> QED BY <1>2, <1>4, <1>7, <1>8, <1>9, GateTypesHold, LeasesQuiet, GateStep

\* A request that was answered or refused leaves both limiters.
LEMMA AnsweredInv ==
    ASSUME GateInv, NEW r \in Requests, req[r].pc = "fetch", Releases(r), Leaves(r),
           leases' = [leases EXCEPT ![Charged(r)] = @ \ {r}] \/ UNCHANGED leases,
           UNCHANGED second
    PROVE  GateInv'
<1>1. PICK p, c : p = req[r].pod /\ c = Charged(r)
  OBVIOUS
<1>2. /\ p \in RestPods /\ c \in RestCreds /\ req[r].charged = {c}
  BY <1>1, RequestKnown
<1>3. /\ req' = [req EXCEPT ![r] = NoRequest] /\ inFlight' = [inFlight EXCEPT ![p] = @ - 1]
      /\ credInFlight' = [credInFlight EXCEPT ![p][c] = @ - 1] /\ lapsed' = lapsed \ {r}
  BY <1>1 DEF Leaves, Releases, PodOf
<1>4. /\ Only(r) /\ RequestRegular(r)'
      /\ req'[r].pc = "idle" /\ req'[r].pc \notin Running /\ req'[r].pc \notin Paced
  BY <1>3, RequestOver
<1>5. RunCounted' /\ inFlight' \in [RestPods -> Nat]
  BY <1>1, <1>2, <1>3, <1>4, RunLeaves DEF Running
<1>6. RestCounted' /\ credInFlight' \in [RestPods -> [RestCreds -> Nat]]
  BY <1>1, <1>2, <1>3, <1>4, RestLeaves DEF Paced
<1>7. /\ LeasesBounded' /\ leases' \in [RestCreds -> SUBSET Requests]
      /\ \A s \in Requests, d \in RestCreds : s # r /\ s \in leases[d] => s \in leases'[d]
  BY <1>1, <1>2, LeaseDropped, LeasesQuiet
<1>8. \A s \in Requests : s # r /\ s \in lapsed => s \in lapsed'
  BY <1>3
<1> QED BY <1>4, <1>5, <1>6, <1>7, <1>8, GateTypesHold, GateStep

\* Sent once more with the credential that the supplier chooses now.
LEMMA TokenRefusedInv ==
    ASSUME GateInv, NEW r \in Requests, NEW c \in CollectorCreds, TokenRefused(r, c)
    PROVE  GateInv'
<1>1. PICK p : p = req[r].pod
  OBVIOUS
<1>2. /\ req[r].pc = "fetch" /\ p \in RestPods /\ req[r] \in Request /\ RequestRegular(r)
      /\ req[r].fetches \in Nat /\ req[r].attempt \in Nat /\ req[r].retried = FALSE
      /\ UNCHANGED <<inFlight, credInFlight, leases, lapsed, second>>
  BY <1>1, RequestKnown DEF TokenRefused, Request
<1>3. PICK j : /\ j = [req[r] EXCEPT !.fetches = @ + 1, !.pc = "pace", !.cred = {c}, !.retried = TRUE]
               /\ req' = [req EXCEPT ![r] = j]
  BY <1>2 DEF TokenRefused, Sent, Request
<1>4. /\ j \in Request /\ j.pc = "pace" /\ j.pod = p /\ j.charged = req[r].charged
      /\ j.cred = {c} /\ j.fetches = req[r].fetches + 1 /\ j.attempt = req[r].attempt
      /\ j.retried = TRUE
  <2>1. {c} \in SUBSET RestCreds /\ req[r].fetches + 1 \in Nat
    BY <1>2 DEF RestCreds
  <2> QED BY <1>1, <1>2, <1>3, <2>1 DEF Request, RequestPlaces
<1>5. Only(r) /\ req'[r] = j
  BY <1>3, <1>4, RequestBecomes
<1>6. RequestRegular(r)'
  <2>1. ~({c} \subseteq AccountCreds) /\ c \in RestCreds
    BY RestAssumption DEF RestCreds
  <2>2. req[r].attempt >= 1 /\ req[r].fetches + 2 <= 2 * req[r].attempt
    BY <1>2 DEF RequestRegular
  <2>3. j.attempt >= 1 /\ j.fetches + 2 <= 2 * j.attempt + 1
    BY <1>2, <1>4, <2>2
  <2>4. req[r].pod # 0 /\ \E d \in RestCreds : req[r].charged = {d}
    BY <1>2 DEF RequestRegular
  <2>5. \A d \in RestCreds : req[r].charged = {d} => r \in leases'[d] \/ r \in lapsed'
    BY <1>2 DEF RequestRegular
  <2> QED BY <1>1, <1>4, <1>5, <2>1, <2>3, <2>4, <2>5 DEF RequestRegular
<1>7. RunCounted' /\ RestCounted'
  BY <1>1, <1>2, <1>4, <1>5, RunStays, RestStays DEF Running, Paced
<1> QED BY <1>2, <1>5, <1>6, <1>7, GateTypesHold, LeasesQuiet, GateStep

\* Refused by rate: over, or once more with another credential.
LEMMA RateRefusedInv ==
    ASSUME GateInv, NEW r \in Requests, RateRefused(r)
    PROVE  GateInv'
<1>1. PICK p, b : p = req[r].pod /\ b = Charged(r)
  OBVIOUS
<1>2. /\ req[r].pc = "fetch" /\ p \in RestPods /\ req[r] \in Request /\ RequestRegular(r)
      /\ b \in RestCreds /\ req[r].charged = {b}
      /\ req[r].fetches \in Nat /\ req[r].attempt \in Nat
      /\ UNCHANGED second /\ leases' = [leases EXCEPT ![b] = @ \ {r}] /\ Releases(r)
  BY <1>1, RequestKnown DEF RateRefused
<1>3. CASE Leaves(r)
  BY <1>1, <1>2, <1>3, AnsweredInv
<1>4. ASSUME NEW c \in CollectorCreds, req[r].attempt < MaxRestAttempts, UNCHANGED inFlight,
             req' = [req EXCEPT ![r] = [Sent(r) EXCEPT
                       !.pc = "shared", !.cred = {c}, !.charged = {}, !.tried = @ \cup {c},
                       !.attempt = @ + 1, !.retried = FALSE]]
      PROVE  GateInv'
  <2>1. PICK j : /\ j = [req[r] EXCEPT !.fetches = @ + 1, !.pc = "shared", !.cred = {c},
                                       !.charged = {}, !.tried = @ \cup {c},
                                       !.attempt = @ + 1, !.retried = FALSE]
                 /\ req' = [req EXCEPT ![r] = j]
    BY <1>2, <1>4 DEF Sent, Request
  <2>2. req[r].attempt + 1 \in 0 .. MaxRestAttempts
    BY <1>2, <1>4, CapsPositive
  <2>3. /\ j \in Request /\ j.pc = "shared" /\ j.pod = p /\ j.charged = {} /\ j.cred = {c}
        /\ j.fetches = req[r].fetches + 1 /\ j.attempt = req[r].attempt + 1 /\ j.retried = FALSE
    <3>1. /\ {c} \in SUBSET RestCreds /\ req[r].fetches + 1 \in Nat
          /\ req[r].tried \cup {c} \in SUBSET RestCreds
      BY <1>2 DEF RestCreds, Request
    <3> QED BY <1>1, <1>2, <2>1, <2>2, <3>1 DEF Request, RequestPlaces
  <2>4. Only(r) /\ req'[r] = j
    BY <2>1, <2>3, RequestBecomes
  <2>5. RequestRegular(r)'
    <3>1. ~({c} \subseteq AccountCreds) /\ c \in RestCreds
      BY RestAssumption DEF RestCreds
    <3>2. /\ req[r].attempt >= 1 /\ req[r].pod # 0
          /\ req[r].fetches + 2 <= 2 * req[r].attempt + (IF req[r].retried THEN 1 ELSE 0)
      BY <1>2 DEF RequestRegular
    <3>3. j.attempt >= 1 /\ j.fetches + 2 <= 2 * j.attempt + 0
      BY <1>2, <2>3, <3>2
    <3>4. \A d : j.charged # {d}
      BY <2>3
    <3> QED BY <1>1, <2>3, <2>4, <3>1, <3>2, <3>3, <3>4 DEF RequestRegular
  <2>6. RunCounted'
    BY <1>1, <1>2, <1>4, <2>3, <2>4, RunStays DEF Running
  <2>7. /\ credInFlight' = [credInFlight EXCEPT ![p][b] = @ - 1] /\ lapsed' = lapsed \ {r}
    BY <1>1, <1>2 DEF Releases, PodOf
  <2>8. RestCounted' /\ credInFlight' \in [RestPods -> [RestCreds -> Nat]]
    BY <1>1, <1>2, <2>3, <2>4, <2>7, RestLeaves DEF Paced
  <2>9. /\ LeasesBounded' /\ leases' \in [RestCreds -> SUBSET Requests]
        /\ \A s \in Requests, d \in RestCreds : s # r /\ s \in leases[d] => s \in leases'[d]
    BY <1>2, LeaseDropped
  <2>10. \A s \in Requests : s # r /\ s \in lapsed => s \in lapsed'
    BY <2>7
  <2> QED BY <1>2, <1>4, <2>4, <2>5, <2>6, <2>8, <2>9, <2>10, GateTypesHold, GateStep
<1> QED BY <1>3, <1>4 DEF RateRefused

\* Steps that leave every request alone.
LEMMA RequestsAlone ==
    ASSUME GateInv, UNCHANGED <<req, inFlight, credInFlight>>,
           leases' \in [RestCreds -> SUBSET Requests], LeasesBounded',
           second' \in [RestPods -> [RestCreds -> Nat]],
           \A s \in Requests, c \in RestCreds :
             req[s].charged = {c} /\ (s \in leases[c] \/ s \in lapsed) =>
               s \in leases'[c] \/ s \in lapsed'
    PROVE  GateInv'
<1>1. GateTypes'
  BY DEF GateInv, GateTypes
<1>2. RunCounted' /\ RestCounted'
  <2>1. \A p : InRun(p)' = InRun(p)
    BY DEF InRun, PodOf
  <2>2. \A p, c : InRest(p, c)' = InRest(p, c)
    BY DEF InRest, PodOf
  <2> QED BY <2>1, <2>2 DEF GateInv, RunCounted, RestCounted
<1>3. \A r \in Requests : RequestRegular(r)'
  BY DEF GateInv, RequestRegular
<1> QED BY <1>1, <1>2, <1>3 DEF GateInv

LEMMA TickInv == ASSUME GateInv, Tick PROVE GateInv'
<1>1. UNCHANGED <<req, inFlight, credInFlight, leases, lapsed>>
  BY DEF Tick
<1>2. second' \in [RestPods -> [RestCreds -> Nat]]
  BY DEF Tick, PerCred
<1> QED BY <1>1, <1>2, LeasesQuiet, RequestsAlone

LEMMA RestLeaseLapsesInv ==
    ASSUME GateInv, NEW r \in Requests, NEW c \in RestCreds, RestLeaseLapses(c, r)
    PROVE  GateInv'
<1>1. /\ UNCHANGED <<req, inFlight, credInFlight, second>>
      /\ leases' = [leases EXCEPT ![c] = @ \ {r}]
      /\ req[r].charged = {c} => lapsed' = lapsed \cup {r}
      /\ req[r].charged # {c} => lapsed' = lapsed
  BY DEF RestLeaseLapses, pacing
<1>2. /\ LeasesBounded' /\ leases' \in [RestCreds -> SUBSET Requests]
      /\ \A s \in Requests, d \in RestCreds :
           s \in leases[d] /\ ~(s = r /\ d = c) => s \in leases'[d]
  BY <1>1, LeaseDropped
<1>3. \A s \in Requests, d \in RestCreds :
        req[s].charged = {d} /\ (s \in leases[d] \/ s \in lapsed) =>
          s \in leases'[d] \/ s \in lapsed'
  BY <1>1, <1>2
<1> QED BY <1>1, <1>2, <1>3, GateTypesHold, RequestsAlone

LEMMA RestCrashInv ==
    ASSUME GateInv, NEW p \in RestPods, RestCrash(p)
    PROVE  GateInv'
<1>1. /\ req' = [r \in Requests |-> IF PodOf(r) = p THEN NoRequest ELSE req[r]]
      /\ inFlight' = [inFlight EXCEPT ![p] = 0]
      /\ credInFlight' = [credInFlight EXCEPT ![p] = [c \in RestCreds |-> 0]]
      /\ second' = [second EXCEPT ![p] = [c \in RestCreds |-> 0]]
      /\ lapsed' = {r \in lapsed : PodOf(r) # p} /\ UNCHANGED leases
  BY DEF RestCrash
<1>2. /\ NoRequest \in Request /\ NoRequest.pc = "idle" /\ NoRequest.pod = 0
      /\ NoRequest.charged = {} /\ NoRequest.cred = {} /\ NoRequest.fetches = 0
      /\ NoRequest.attempt = 0
  <2>1. 0 \in 0 .. MaxRestAttempts
    BY CapsPositive
  <2> QED BY <2>1 DEF NoRequest, Request, RequestPlaces
<1>3. /\ req' \in [Requests -> Request]
      /\ \A r \in Requests : req[r].pod = p => req'[r] = NoRequest
      /\ \A r \in Requests : req[r].pod # p => req'[r] = req[r]
  BY <1>1, <1>2, GateTypesHold DEF PodOf
<1>4. /\ inFlight' \in [RestPods -> Nat] /\ credInFlight' \in [RestPods -> [RestCreds -> Nat]]
      /\ second' \in [RestPods -> [RestCreds -> Nat]]
  BY <1>1, GateTypesHold
<1>5. \A r \in Requests : RequestRegular(r)'
  <2> SUFFICES ASSUME NEW r \in Requests PROVE RequestRegular(r)'
    OBVIOUS
  <2>1. CASE req[r].pod = p
    BY <1>2, <1>3, <2>1 DEF RequestRegular
  <2>2. CASE req[r].pod # p
    <3>1. RequestRegular(r) /\ req'[r] = req[r] /\ (r \in lapsed => r \in lapsed')
      BY <1>1, <1>3, <2>2 DEF GateInv, PodOf
    <3> QED BY <1>1, <3>1 DEF RequestRegular
  <2> QED BY <2>1, <2>2
<1>6. p # 0
  BY RestAssumption
<1>7. RunCounted'
  <2> SUFFICES ASSUME NEW q \in RestPods
               PROVE  inFlight'[q] = Cardinality(InRun(q)') /\ inFlight'[q] <= ProcessCap
    BY DEF RunCounted
  <2>1. CASE q = p
    <3>1. InRun(q)' = {}
      BY <1>2, <1>3, <1>6, <2>1 DEF InRun, PodOf
    <3>2. inFlight'[q] = 0
      BY <1>1, <2>1, GateTypesHold
    <3> QED BY <3>1, <3>2, FS_EmptySet, CapsPositive
  <2>2. CASE q # p
    <3>1. q # 0
      BY RestAssumption
    <3>2. InRun(q)' = InRun(q)
      BY <1>2, <1>3, <2>2, <3>1 DEF InRun, PodOf
    <3>3. inFlight'[q] = inFlight[q]
      BY <1>1, <2>2, GateTypesHold
    <3> QED BY <3>2, <3>3 DEF GateInv, RunCounted
  <2> QED BY <2>1, <2>2
<1>8. RestCounted'
  <2> SUFFICES ASSUME NEW q \in RestPods, NEW c \in RestCreds
               PROVE  /\ credInFlight'[q][c] = Cardinality(InRest(q, c)')
                      /\ credInFlight'[q][c] <= CredentialCap
    BY DEF RestCounted
  <2>1. CASE q = p
    <3>1. InRest(q, c)' = {}
      BY <1>2, <1>3, <1>6, <2>1 DEF InRest, PodOf
    <3>2. credInFlight'[q][c] = 0
      BY <1>1, <2>1, GateTypesHold
    <3> QED BY <3>1, <3>2, FS_EmptySet, CapsPositive
  <2>2. CASE q # p
    <3>1. q # 0
      BY RestAssumption
    <3>2. InRest(q, c)' = InRest(q, c)
      BY <1>2, <1>3, <2>2, <3>1 DEF InRest, PodOf
    <3>3. credInFlight'[q][c] = credInFlight[q][c]
      BY <1>1, <2>2, GateTypesHold
    <3> QED BY <3>2, <3>3 DEF GateInv, RestCounted
  <2> QED BY <2>1, <2>2
<1>9. GateTypes' /\ LeasesBounded'
  BY <1>1, <1>3, <1>4, LeasesQuiet DEF GateTypes
<1> QED BY <1>5, <1>7, <1>8, <1>9 DEF GateInv

LEMMA GateInit == RestInit => GateInv
<1> SUFFICES ASSUME RestInit PROVE GateInv
  OBVIOUS
<1>1. /\ NoRequest \in Request /\ NoRequest.pc = "idle" /\ NoRequest.pod = 0
      /\ NoRequest.charged = {} /\ NoRequest.cred = {} /\ NoRequest.fetches = 0
      /\ NoRequest.attempt = 0
  <2>1. 0 \in 0 .. MaxRestAttempts
    BY CapsPositive
  <2> QED BY <2>1 DEF NoRequest, Request, RequestPlaces
<1>2. \A r \in Requests : req[r] = NoRequest
  BY DEF RestInit
<1>3. GateTypes
  BY <1>1 DEF RestInit, GateTypes, PerCred
<1>4. LeasesBounded
  BY FS_EmptySet, CapsPositive DEF RestInit, LeasesBounded
<1>5. RunCounted
  <2>1. \A p \in RestPods : InRun(p) = {} /\ inFlight[p] = 0
    BY <1>1, <1>2 DEF RestInit, InRun
  <2> QED BY <2>1, FS_EmptySet, CapsPositive DEF RunCounted
<1>6. RestCounted
  <2>1. \A p \in RestPods, c \in RestCreds : InRest(p, c) = {} /\ credInFlight[p][c] = 0
    BY <1>1, <1>2 DEF RestInit, InRest, PerCred
  <2>2. \A p \in RestPods, c \in RestCreds : Cardinality(InRest(p, c)) = 0
    BY <2>1, FS_EmptySet
  <2>3. 0 <= CredentialCap
    BY CapsPositive
  <2> QED BY <2>1, <2>2, <2>3 DEF RestCounted
<1>7. \A r \in Requests : RequestRegular(r)
  BY <1>1, <1>2 DEF RequestRegular
<1> QED BY <1>3, <1>4, <1>5, <1>6, <1>7 DEF GateInv

LEMMA GateNextInv == GateInv /\ [RestNext]_restVars => GateInv'
<1> SUFFICES ASSUME GateInv, [RestNext]_restVars PROVE GateInv'
  OBVIOUS
<1>1. CASE UNCHANGED restVars
  <2>1. UNCHANGED <<req, inFlight, credInFlight, leases, lapsed, second>>
    BY <1>1 DEF restVars
  <2> QED BY <2>1, GateTypesHold, LeasesQuiet, RequestsAlone
<1>2. ASSUME NEW r \in Requests, RequestStep(r) PROVE GateInv'
  <2>1. CASE Answered(r)
    BY <2>1, AnsweredInv DEF Answered, pacing
  <2> QED BY <1>2, <2>1, AcquireProcessInv, AcquireSharedInv, AcquireLocalInv, PaceInv
          DEF RequestStep
<1> QED BY <1>1, <1>2, StartRequestInv, RestLeaseLapsesInv, TokenRefusedInv, RateRefusedInv,
          TickInv, RestCrashInv DEF RestNext

LEMMA GateInvSafe == GateInv => GateSafe
<1> SUFFICES ASSUME GateInv PROVE GateSafe
  OBVIOUS
<1>1. LimitsConserved
  <2>1. ASSUME NEW r \in Requests, req[r].charged # {}
        PROVE  r \in leases[Charged(r)] \/ r \in lapsed
    <3>1. RequestRegular(r) /\ req[r].pc \in RequestPlaces
      BY DEF GateInv, GateTypes, Request
    <3>2. req[r].pc \in {"local", "pace", "fetch"}
      BY <2>1, <3>1 DEF RequestRegular, RequestPlaces
    <3>3. PICK c \in RestCreds : req[r].charged = {c} /\ Charged(r) = c
      BY <3>2, RequestKnown
    <3> QED BY <3>1, <3>3 DEF RequestRegular
  <2> QED BY <2>1 DEF LimitsConserved, GateInv, RunCounted, RestCounted
<1>2. CapAcrossPods
  <2> SUFFICES ASSUME NEW c \in RestCreds
               PROVE  Cardinality({r \in Requests \ lapsed : /\ req[r].pc = "fetch"
                                     /\ req[r].cred = {c} /\ req[r].charged = {c}})
                        <= CredentialCap
    BY DEF CapAcrossPods, RestCreds
  <2> DEFINE S == {r \in Requests \ lapsed : /\ req[r].pc = "fetch" /\ req[r].cred = {c}
                                            /\ req[r].charged = {c}}
  <2>1. S \subseteq leases[c]
    BY DEF GateInv, RequestRegular
  <2>2. IsFiniteSet(leases[c]) /\ Cardinality(leases[c]) <= CredentialCap
    BY RestAssumption, FS_Subset DEF GateInv, LeasesBounded
  <2> HIDE DEF S
  <2>3. IsFiniteSet(S) /\ Cardinality(S) <= Cardinality(leases[c])
    BY <2>1, <2>2, FS_Subset
  <2>4. Cardinality(S) \in Nat /\ Cardinality(leases[c]) \in Nat
    BY <2>2, <2>3, FS_CardinalityType
  <2>5. Cardinality(S) <= CredentialCap
    BY <2>2, <2>3, <2>4, CapsPositive
  <2> QED BY <2>5 DEF S
<1>3. SentOnce
  <2> SUFFICES ASSUME NEW r \in Requests
               PROVE  /\ req[r].cred \subseteq AccountCreds => req[r].fetches = 0
                      /\ req[r].fetches < 2 * MaxRestAttempts
    BY DEF SentOnce
  <2>1. RequestRegular(r) /\ req[r].fetches \in Nat /\ req[r].attempt \in 0 .. MaxRestAttempts
    BY DEF GateInv, GateTypes, Request
  <2>2. req[r].cred \subseteq AccountCreds => req[r].fetches = 0
    BY <2>1 DEF RequestRegular
  <2>3. \/ req[r].fetches = 0
        \/ req[r].fetches + 2 <= 2 * req[r].attempt + 1
        \/ req[r].fetches + 2 <= 2 * req[r].attempt
    BY <2>1 DEF RequestRegular
  <2>4. req[r].fetches < 2 * MaxRestAttempts
    BY <2>1, <2>3, CapsPositive
  <2> QED BY <2>2, <2>4
<1> QED BY <1>1, <1>2, <1>3 DEF GateSafe

(***************************************************************************)
(* KiwoomApiClient.request: along every refusal, retry, lapsed lease and   *)
(* crash the counters of the two RateLimiters are the requests under way   *)
(* and a request keeps its lease unless that lapsed; across the pods the   *)
(* cap of a credential holds; a call with an account's credential is sent  *)
(* once.                                                                   *)
(***************************************************************************)
THEOREM GateIsSafe == RestSpec => []GateSafe
BY GateInit, GateNextInv, GateInvSafe, PTL DEF RestSpec

-----------------------------------------------------------------------------
(* CredentialPool: the blame for a refusal falls on the right credential, and a *)
(* refused credential stays out until a token is issued for it.               *)


EndpointState == [status: {"active", "limited", "authFailed"},
                  cooldown: {"none", "pending", "past"}]
CallRecord == [pc: {"idle", "token", "wait", "call", "answered"}, endpoint: Endpoints,
               key: SUBSET Keys, token: Nat, retry: BOOLEAN,
               outcome: {"none", "ok", "limited", "refused"}]

\* The types, with those of the call records.
PoolShape ==
    /\ state \in [Keys -> [Endpoints -> EndpointState]]
    /\ cooling \in [PoolPods -> SUBSET Keys]
    /\ cache \in [PoolPods -> [Keys -> Tokens \cup {0}]]
    /\ issuing \in [PoolPods -> [Keys -> {"none", "refresh", "issue"}]]
    /\ issued \in [Keys -> Nat]
    /\ valid \in SUBSET Keys /\ dropped \in SUBSET Keys
    /\ call \in [PoolCalls -> CallRecord]

\* A call under way has chosen one credential; an answered one has its answer.
CallsAreSet ==
    \A x \in PoolCalls :
        /\ call[x].pc # "idle" => KeyOf(x) \in Keys /\ call[x].key = {KeyOf(x)}
        /\ call[x].pc = "answered" => call[x].outcome # "none"

\* Tokens in memory and in use were issued; the broker knows of every credential
\* it issued a token for, or has dropped it.
TokensAreIssued ==
    /\ \A p \in PoolPods, k \in Keys : cache[p][k] <= issued[k]
    /\ \A k \in Keys : issued[k] # 0 => k \in valid \/ k \in dropped
    /\ \A x \in PoolCalls : call[x].pc \in {"call", "answered"} =>
           1 <= call[x].token /\ call[x].token <= issued[KeyOf(x)]

\* A refusal has a cause other than the credential, unless it is a bad one; a
\* login that is made once more does not use the token that was refused.
RefusalsHaveCause ==
    \A x \in PoolCalls :
        /\ call[x].pc = "answered" /\ call[x].outcome = "refused" =>
              KeyOf(x) \in dropped \/ issued[KeyOf(x)] > 1
        /\ call[x].pc # "idle" /\ call[x].retry /\ call[x].endpoint = "WS" =>
              /\ issued[KeyOf(x)] >= 1
              /\ call[x].pc = "token" /\ cache[CallPod(x)][KeyOf(x)] # 0 => issued[KeyOf(x)] > 1
              /\ call[x].pc \in {"call", "answered"} => issued[KeyOf(x)] > 1

\* The inductive invariant.
PoolInv ==
    PoolShape /\ CallsAreSet /\ TokensAreIssued /\ RefusalsHaveCause /\ BlameIsDeserved

-----------------------------------------------------------------------------
\* The choice from a single credential.
LEMMA OneKey ==
    ASSUME NEW k
    PROVE  (CHOOSE j \in {k} : TRUE) = k
OBVIOUS

\* The record of a call that has just chosen its credential.
LEMMA ChosenCall ==
    ASSUME NEW e \in Endpoints, NEW j \in Keys, NEW b \in BOOLEAN
    PROVE  /\ [NoPoolCall EXCEPT !.pc = "token", !.endpoint = e, !.key = {j}] =
              [pc |-> "token", endpoint |-> e, key |-> {j}, token |-> 0, retry |-> FALSE,
               outcome |-> "none"]
           /\ [NoPoolCall EXCEPT !.pc = "token", !.key = {j}, !.retry = TRUE, !.endpoint = e] =
              [pc |-> "token", endpoint |-> e, key |-> {j}, token |-> 0, retry |-> TRUE,
               outcome |-> "none"]
           /\ [pc |-> "token", endpoint |-> e, key |-> {j}, token |-> 0, retry |-> b,
               outcome |-> "none"] \in CallRecord
<1>1. ASSUME NEW r, r = [NoPoolCall EXCEPT !.pc = "token", !.endpoint = e, !.key = {j}]
      PROVE  r = [pc |-> "token", endpoint |-> e, key |-> {j}, token |-> 0, retry |-> FALSE,
                  outcome |-> "none"]
  BY <1>1 DEF NoPoolCall
<1>2. ASSUME NEW r,
             r = [NoPoolCall EXCEPT !.pc = "token", !.key = {j}, !.retry = TRUE, !.endpoint = e]
      PROVE  r = [pc |-> "token", endpoint |-> e, key |-> {j}, token |-> 0, retry |-> TRUE,
                  outcome |-> "none"]
  BY <1>2 DEF NoPoolCall
<1>3. [pc |-> "token", endpoint |-> e, key |-> {j}, token |-> 0, retry |-> b, outcome |-> "none"]
         \in CallRecord
  BY DEF CallRecord
<1> QED BY <1>1, <1>2, <1>3

\* The initial state.
LEMMA PoolInvInit == PoolInit => PoolInv
<1> SUFFICES ASSUME PoolInit PROVE PoolInv OBVIOUS
<1> USE PoolAssumption
<1>1. PoolShape
  BY DEF PoolInit, PoolShape, EndpointState, CallRecord, Fresh, NoPoolCall, Endpoints
<1>2. CallsAreSet /\ TokensAreIssued /\ RefusalsHaveCause
  BY DEF PoolInit, CallsAreSet, TokensAreIssued, RefusalsHaveCause, NoPoolCall
<1>3. BlameIsDeserved
  BY DEF PoolInit, BlameIsDeserved, Fresh, Endpoints
<1> QED BY <1>1, <1>2, <1>3 DEF PoolInv

\* A call moves on: what its new record must satisfy.
LEMMA OneCallMoves ==
    ASSUME PoolInv, NEW x \in PoolCalls, NEW r \in CallRecord, NEW k \in Keys,
           call' = [call EXCEPT ![x] = r], r.pc # "idle", r.key = {k},
           UNCHANGED <<state, cooling, issued, valid, dropped>>,
           cache' \in [PoolPods -> [Keys -> Tokens \cup {0}]],
           \A p \in PoolPods, j \in Keys : cache'[p][j] = cache[p][j] \/ cache'[p][j] = 0,
           issuing' \in [PoolPods -> [Keys -> {"none", "refresh", "issue"}]],
           r.pc = "answered" => r.outcome # "none",
           r.pc \in {"call", "answered"} => 1 <= r.token /\ r.token <= issued[k],
           r.pc = "answered" /\ r.outcome = "refused" => k \in dropped \/ issued[k] > 1,
           r.retry /\ r.endpoint = "WS" =>
              /\ issued[k] >= 1
              /\ r.pc = "token" /\ cache'[CallPod(x)][k] # 0 => issued[k] > 1
              /\ r.pc \in {"call", "answered"} => issued[k] > 1
    PROVE  PoolInv'
<1> USE PoolAssumption
<1>0. PoolShape /\ CallsAreSet /\ TokensAreIssued /\ RefusalsHaveCause /\ BlameIsDeserved
  BY DEF PoolInv
<1>1. call'[x] = r /\ \A y \in PoolCalls : y # x => call'[y] = call[y]
  BY <1>0 DEF PoolShape
<1>2. KeyOf(x)' = k /\ \A y \in PoolCalls : y # x => KeyOf(y)' = KeyOf(y)
  BY <1>1, OneKey DEF KeyOf
<1>3. PoolShape'
  BY <1>0 DEF PoolShape
<1>4. CallsAreSet'
  BY <1>0, <1>1, <1>2 DEF CallsAreSet
<1>5. TokensAreIssued'
  <2>1. \A p \in PoolPods, j \in Keys : cache'[p][j] <= issued'[j]
    <3> TAKE p \in PoolPods, j \in Keys
    <3>1. issued[j] \in Nat /\ cache[p][j] <= issued[j] /\ issued' = issued
      BY <1>0 DEF TokensAreIssued, PoolShape
    <3>2. cache'[p][j] = cache[p][j] \/ cache'[p][j] = 0
      OBVIOUS
    <3> QED BY <3>1, <3>2
  <2> QED BY <1>0, <1>1, <1>2, <2>1 DEF TokensAreIssued
<1>6. RefusalsHaveCause'
  <2>1. \A y \in PoolCalls : call[y].pc # "idle" => KeyOf(y) \in Keys
    BY <1>0 DEF CallsAreSet
  <2> QED BY <1>0, <1>1, <1>2, <2>1 DEF RefusalsHaveCause
<1>7. BlameIsDeserved'
  BY <1>0 DEF BlameIsDeserved
<1> QED BY <1>3, <1>4, <1>5, <1>6, <1>7 DEF PoolInv

\* Steps of one call that change neither the database nor the broker.
LEMMA CallMoves ==
    ASSUME PoolInv, NEW x \in PoolCalls,
           \/ \E e \in Endpoints : SelectKey(x, e)
           \/ GetToken(x) \/ RenewToken(x) \/ RetryWithFreshToken(x)
           \/ \E o \in {"ok", "limited", "refused"} : BrokerAnswers(x, o)
    PROVE  PoolInv'
<1> USE PoolAssumption
<1> DEFINE p == CallPod(x)
           k == KeyOf(x)
<1>0. /\ PoolShape /\ CallsAreSet /\ TokensAreIssued /\ RefusalsHaveCause
      /\ call[x] \in CallRecord /\ p \in PoolPods
      /\ call[x].pc # "idle" => k \in Keys /\ call[x].key = {k}
  BY DEF PoolInv, PoolShape, CallsAreSet
<1>1. CASE \E e \in Endpoints : SelectKey(x, e)
  <2>1. PICK e \in Endpoints : SelectKey(x, e)
    BY <1>1
  <2>2. PICK j \in Keys :
          call' = [call EXCEPT ![x] = [NoPoolCall EXCEPT !.pc = "token", !.endpoint = e, !.key = {j}]]
    BY <2>1 DEF SelectKey, Selectable, Preferred
  <2> DEFINE r == [pc |-> "token", endpoint |-> e, key |-> {j}, token |-> 0, retry |-> FALSE,
                   outcome |-> "none"]
  <2>3. r \in CallRecord /\ call' = [call EXCEPT ![x] = r]
    BY <2>2, ChosenCall
  <2>4. UNCHANGED <<state, cooling, cache, issuing, issued, valid, dropped>>
    BY <2>1 DEF SelectKey, memory, broker
  <2> QED BY <1>0, <2>3, <2>4, OneCallMoves DEF PoolShape
<1>2. CASE GetToken(x)
  <2>1. CASE cache[p][k] # 0 /\ issuing[p][k] # "refresh"
    <3> DEFINE r == [call[x] EXCEPT !.pc = "call", !.token = cache[p][k]]
    <3>0. k \in Keys /\ cache[p][k] \in Nat /\ cache[p][k] <= issued[k]
      BY <1>0, <1>2 DEF GetToken, PoolShape, TokensAreIssued
    <3>1. /\ r \in CallRecord /\ call' = [call EXCEPT ![x] = r]
          /\ r.pc = "call" /\ r.key = {k} /\ r.token = cache[p][k]
          /\ r.retry = call[x].retry /\ r.endpoint = call[x].endpoint
      BY <1>0, <1>2, <2>1, <3>0 DEF GetToken, CallRecord
    <3>2. r.retry /\ r.endpoint = "WS" => issued[k] > 1
      BY <1>0, <1>2, <2>1, <3>1 DEF GetToken, RefusalsHaveCause, PoolShape
    <3>3. UNCHANGED <<state, cooling, cache, issuing, issued, valid, dropped>>
      BY <1>2, <2>1 DEF GetToken, broker
    <3>4. 1 <= r.token /\ r.token <= issued[k] /\ issued[k] \in Nat
      BY <1>0, <2>1, <3>0, <3>1 DEF PoolShape
    <3>5. /\ cache' \in [PoolPods -> [Keys -> Tokens \cup {0}]]
          /\ issuing' \in [PoolPods -> [Keys -> {"none", "refresh", "issue"}]]
      BY <1>0, <3>3 DEF PoolShape
    <3>6. r.retry /\ r.endpoint = "WS" => issued[k] >= 1
      BY <3>2, <3>4
    <3> HIDE DEF r, k, p
    <3> QED BY <3>0, <3>1, <3>2, <3>3, <3>4, <3>5, <3>6, OneCallMoves
  <2>2. CASE ~(cache[p][k] # 0 /\ issuing[p][k] # "refresh")
    <3> DEFINE r == [call[x] EXCEPT !.pc = "wait"]
    <3>1. /\ r \in CallRecord /\ call' = [call EXCEPT ![x] = r]
          /\ r.pc = "wait" /\ r.key = {k} /\ k \in Keys
          /\ r.retry = call[x].retry /\ r.endpoint = call[x].endpoint
      BY <1>0, <1>2, <2>2 DEF GetToken, PoolShape, CallRecord
    <3>2. r.retry /\ r.endpoint = "WS" => issued[k] >= 1
      BY <1>0, <1>2, <3>1 DEF GetToken, RefusalsHaveCause
    <3>3. UNCHANGED <<state, cooling, cache, issued, valid, dropped>>
      BY <1>2 DEF GetToken, broker
    <3>4. issuing' \in [PoolPods -> [Keys -> {"none", "refresh", "issue"}]]
      <4>1. /\ issuing' = [issuing EXCEPT ![p][k] = IF @ = "none" THEN "issue" ELSE @]
            /\ p \in PoolPods /\ k \in Keys
        BY <1>0, <1>2, <2>2 DEF GetToken
      <4>2. issuing[p][k] \in {"none", "refresh", "issue"}
        BY <1>0, <4>1 DEF PoolShape
      <4> HIDE DEF p, k
      <4> QED BY <1>0, <4>1, <4>2 DEF PoolShape
    <3> HIDE DEF r
    <3> QED BY <1>0, <3>1, <3>2, <3>3, <3>4, OneCallMoves DEF PoolShape
  <2> QED BY <2>1, <2>2
<1>3. CASE RenewToken(x)
  <2> DEFINE r == [call[x] EXCEPT !.pc = "wait"]
  <2>1. /\ r \in CallRecord /\ call' = [call EXCEPT ![x] = r]
        /\ r.pc = "wait" /\ r.key = {k} /\ k \in Keys
        /\ r.retry = call[x].retry /\ r.endpoint = call[x].endpoint
    BY <1>0, <1>3 DEF RenewToken, PoolShape, CallRecord
  <2>2. r.retry /\ r.endpoint = "WS" => issued[k] >= 1
    BY <1>0, <1>3, <2>1 DEF RenewToken, RefusalsHaveCause
  <2>3. UNCHANGED <<state, cooling, cache, issued, valid, dropped>>
    BY <1>3 DEF RenewToken, broker
  <2>4. issuing' \in [PoolPods -> [Keys -> {"none", "refresh", "issue"}]]
    BY <1>0, <1>3 DEF RenewToken, PoolShape
  <2> HIDE DEF r
  <2> QED BY <1>0, <2>1, <2>2, <2>3, <2>4, OneCallMoves DEF PoolShape
<1>4. CASE RetryWithFreshToken(x)
  <2>1. PICK j \in Keys :
          /\ call[x].endpoint = "WS" => j = k
          /\ call' = [call EXCEPT ![x] = [NoPoolCall EXCEPT !.pc = "token", !.key = {j}, !.retry = TRUE,
                                                           !.endpoint = call[x].endpoint]]
    <3>1. call[x].endpoint = "WS" => call[x].key = {k} /\ k \in Keys
      BY <1>0, <1>4 DEF RetryWithFreshToken
    <3>2. Selectable(p, "REST") \subseteq Keys
      BY DEF Selectable, Preferred
    <3> QED BY <1>4, <3>1, <3>2 DEF RetryWithFreshToken
  <2> DEFINE r == [pc |-> "token", endpoint |-> call[x].endpoint, key |-> {j}, token |-> 0,
                   retry |-> TRUE, outcome |-> "none"]
  <2>2. r \in CallRecord /\ call' = [call EXCEPT ![x] = r]
    <3>1. call[x].endpoint \in Endpoints
      BY <1>0 DEF CallRecord
    <3> QED BY <2>1, <3>1, ChosenCall
  <2>3. /\ cache' = [cache EXCEPT ![p][k] = 0] /\ k \in Keys
        /\ UNCHANGED <<state, cooling, issuing, issued, valid, dropped>>
    BY <1>0, <1>4 DEF RetryWithFreshToken, broker
  <2>4. /\ cache' \in [PoolPods -> [Keys -> Tokens \cup {0}]]
        /\ \A q \in PoolPods, i \in Keys : cache'[q][i] = cache[q][i] \/ cache'[q][i] = 0
        /\ cache'[p][k] = 0
    BY <1>0, <2>3 DEF PoolShape
  <2>5. issued[k] >= 1
    <3>1. /\ call[x].token \in Nat /\ issued[k] \in Nat
          /\ 1 <= call[x].token /\ call[x].token <= issued[k]
      BY <1>0, <1>4 DEF RetryWithFreshToken, TokensAreIssued, PoolShape, CallRecord
    <3> QED BY <3>1
  <2>6. issuing' \in [PoolPods -> [Keys -> {"none", "refresh", "issue"}]]
    BY <1>0, <2>3 DEF PoolShape
  <2>7. r.retry /\ r.endpoint = "WS" =>
          issued[j] >= 1 /\ (r.pc = "token" /\ cache'[p][j] # 0 => issued[j] > 1)
    BY <2>1, <2>4, <2>5
  <2>8. r.pc = "token" /\ r.key = {j}
    OBVIOUS
  <2> HIDE DEF r, k
  <2> QED BY <2>2, <2>3, <2>4, <2>6, <2>7, <2>8, OneCallMoves
<1>5. CASE \E o \in {"ok", "limited", "refused"} : BrokerAnswers(x, o)
  <2>1. PICK o \in {"ok", "limited", "refused"} : BrokerAnswers(x, o)
    BY <1>5
  <2> DEFINE r == [call[x] EXCEPT !.pc = "answered", !.outcome = o]
  <2>2. /\ r \in CallRecord /\ call' = [call EXCEPT ![x] = r]
        /\ r.pc = "answered" /\ r.key = {k} /\ k \in Keys /\ r.outcome = o
        /\ r.retry = call[x].retry /\ r.endpoint = call[x].endpoint /\ r.token = call[x].token
    BY <1>0, <2>1 DEF BrokerAnswers, PoolShape, CallRecord
  <2>3. /\ 1 <= r.token /\ r.token <= issued[k]
        /\ r.retry /\ r.endpoint = "WS" => issued[k] > 1
    BY <1>0, <2>1, <2>2 DEF BrokerAnswers, TokensAreIssued, RefusalsHaveCause, PoolShape
  <2>4. o = "refused" => k \in dropped \/ issued[k] > 1
    <3>1. o = "refused" => k \notin valid \/ r.token # issued[k]
      BY <2>1, <2>2 DEF BrokerAnswers, Accepted
    <3>2. r.token \in Nat /\ issued[k] \in Nat
      BY <1>0, <2>2 DEF PoolShape, CallRecord
    <3>3. issued[k] # 0 => k \in valid \/ k \in dropped
      BY <1>0, <2>2 DEF TokensAreIssued
    <3> HIDE DEF r
    <3> QED BY <2>3, <3>1, <3>2, <3>3
  <2>5. UNCHANGED <<state, cooling, cache, issuing, issued, valid, dropped>>
    BY <2>1 DEF BrokerAnswers, memory, broker
  <2>6. issued[k] \in Nat
    BY <1>0, <2>2 DEF PoolShape
  <2>7. /\ cache' \in [PoolPods -> [Keys -> Tokens \cup {0}]]
        /\ issuing' \in [PoolPods -> [Keys -> {"none", "refresh", "issue"}]]
    BY <1>0, <2>5 DEF PoolShape
  <2>8. r.retry /\ r.endpoint = "WS" => issued[k] >= 1
    BY <2>3, <2>6
  <2> HIDE DEF r, k
  <2> QED BY <2>2, <2>3, <2>4, <2>5, <2>6, <2>7, <2>8, OneCallMoves
<1> QED BY <1>1, <1>2, <1>3, <1>4, <1>5

-----------------------------------------------------------------------------
\* The broker issues a token: it goes to every call that waits for it.
LEMMA IssueStep ==
    ASSUME PoolInv, NEW p \in PoolPods, NEW k \in Keys, TokenIssued(p, k)
    PROVE  PoolInv'
<1> USE PoolAssumption
<1>0. PoolShape /\ CallsAreSet /\ TokensAreIssued /\ RefusalsHaveCause /\ BlameIsDeserved
  BY DEF PoolInv
<1>1. /\ issued' \in [Keys -> Nat] /\ issued'[k] = issued[k] + 1
      /\ \A j \in Keys : j # k => issued'[j] = issued[j]
      /\ \A j \in Keys : issued[j] \in Nat /\ issued[j] <= issued'[j]
  <2>1. issued' = [issued EXCEPT ![k] = issued[k] + 1]
    BY DEF TokenIssued
  <2>2. issued \in [Keys -> Nat]
    BY <1>0 DEF PoolShape
  <2>3. issued[k] + 1 \in Nat /\ issued[k] <= issued[k] + 1
    BY <2>2
  <2>4. /\ issued' \in [Keys -> Nat] /\ issued'[k] = issued[k] + 1
        /\ \A j \in Keys : j # k => issued'[j] = issued[j]
    BY <2>1, <2>2, <2>3
  <2>5. ASSUME NEW j \in Keys PROVE issued[j] \in Nat /\ issued[j] <= issued'[j]
    <3>1. issued[j] \in Nat
      BY <2>2
    <3> QED BY <2>3, <2>4, <3>1
  <2> QED BY <2>4, <2>5
<1>2. /\ cache' \in [PoolPods -> [Keys -> Tokens \cup {0}]] /\ cache'[p][k] = issued[k] + 1
      /\ \A q \in PoolPods, j \in Keys : q # p \/ j # k => cache'[q][j] = cache[q][j]
  BY <1>0 DEF TokenIssued, PoolShape
<1>3. \A y \in PoolCalls :
        \/ /\ y \in Waiting(p, k)
           /\ call'[y] = [call[y] EXCEPT !.pc = "call", !.token = issued[k] + 1]
        \/ y \notin Waiting(p, k) /\ call'[y] = call[y]
  BY DEF TokenIssued
<1>4. \A y \in PoolCalls :
        /\ call'[y] \in CallRecord /\ call'[y].key = call[y].key
        /\ call'[y].retry = call[y].retry /\ call'[y].endpoint = call[y].endpoint
        /\ call'[y].outcome = call[y].outcome
        /\ \/ call'[y] = call[y]
           \/ /\ call[y].pc = "wait" /\ call[y].key = {k} /\ call'[y].pc = "call"
              /\ call'[y].token = issued[k] + 1 /\ CallPod(y) = p
  <2> TAKE y \in PoolCalls
  <2>1. call[y] \in CallRecord /\ issued[k] + 1 \in Nat
    BY <1>0, <1>1 DEF PoolShape
  <2> QED BY <1>3, <2>1 DEF Waiting, CallRecord
<1>5. \A y \in PoolCalls : KeyOf(y)' = KeyOf(y)
  BY <1>4 DEF KeyOf
<1>6. \A y \in PoolCalls : call[y].key = {k} => KeyOf(y) = k
  <2> SUFFICES ASSUME NEW y \in PoolCalls, call[y].key = {k} PROVE KeyOf(y) = k
    OBVIOUS
  <2>1. KeyOf(y) = CHOOSE j \in {k} : TRUE
    BY DEF KeyOf
  <2> QED BY <2>1, OneKey
<1>7. PoolShape'
  <2>1. call' \in [PoolCalls -> CallRecord]
    BY <1>4 DEF TokenIssued
  <2>2. state' \in [Keys -> [Endpoints -> EndpointState]]
    BY <1>0 DEF TokenIssued, TokenSuccess, PoolShape, EndpointState, Fresh
  <2>3. /\ issuing' \in [PoolPods -> [Keys -> {"none", "refresh", "issue"}]]
        /\ cooling' \in [PoolPods -> SUBSET Keys]
        /\ valid' \in SUBSET Keys /\ dropped' \in SUBSET Keys
    BY <1>0 DEF TokenIssued, PoolShape
  <2> QED BY <1>1, <1>2, <2>1, <2>2, <2>3 DEF PoolShape
<1>8. CallsAreSet'
  <2> SUFFICES ASSUME NEW y \in PoolCalls
               PROVE  /\ call'[y].pc # "idle" => KeyOf(y)' \in Keys /\ call'[y].key = {KeyOf(y)'}
                      /\ call'[y].pc = "answered" => call'[y].outcome # "none"
    BY DEF CallsAreSet
  <2> QED BY <1>0, <1>4, <1>5, <1>6 DEF CallsAreSet
<1>9. TokensAreIssued'
  <2>1. ASSUME NEW q \in PoolPods, NEW j \in Keys PROVE cache'[q][j] <= issued'[j]
    <3>1. cache[q][j] <= issued[j]
      BY <1>0 DEF TokensAreIssued
    <3>2. cache[q][j] \in Nat /\ issued[j] \in Nat /\ issued'[j] \in Nat /\ issued[j] <= issued'[j]
      <4>1. cache[q][j] \in Tokens \cup {0}
        BY <1>0 DEF PoolShape
      <4>2. ASSUME NEW t \in Tokens \cup {0} PROVE t \in Nat
        BY DEF PoolAssumption
      <4>3. cache[q][j] \in Nat
        BY <4>1, <4>2, Zenon
      <4>4. issued[j] \in Nat /\ issued'[j] \in Nat /\ issued[j] <= issued'[j]
        BY <1>1
      <4> QED BY <4>3, <4>4
    <3>3. CASE q = p /\ j = k
      BY <1>1, <1>2, <3>2, <3>3
    <3>4. CASE q # p \/ j # k
      <4>1. cache'[q][j] = cache[q][j]
        BY <1>2, <3>4
      <4> QED BY <3>1, <3>2, <4>1
    <3> QED BY <3>3, <3>4
  <2>2. ASSUME NEW j \in Keys, issued'[j] # 0 PROVE j \in valid' \/ j \in dropped'
    BY <1>0, <1>1, <2>2 DEF TokensAreIssued, TokenIssued
  <2>3. ASSUME NEW y \in PoolCalls, call'[y].pc \in {"call", "answered"}
        PROVE  1 <= call'[y].token /\ call'[y].token <= issued'[KeyOf(y)']
    <3>1. CASE call'[y] = call[y]
      <4>1. /\ 1 <= call[y].token /\ call[y].token <= issued[KeyOf(y)]
            /\ call[y].token \in Nat /\ KeyOf(y) \in Keys
        BY <1>0, <2>3, <3>1 DEF TokensAreIssued, PoolShape, CallRecord, CallsAreSet
      <4> QED BY <1>1, <1>5, <3>1, <4>1
    <3>2. CASE call'[y].token = issued[k] + 1 /\ call[y].key = {k}
      BY <1>1, <1>5, <1>6, <3>2
    <3> QED BY <1>4, <3>1, <3>2
  <2> QED BY <2>1, <2>2, <2>3 DEF TokensAreIssued
<1>10. RefusalsHaveCause'
  <2> SUFFICES ASSUME NEW y \in PoolCalls
               PROVE
        /\ call'[y].pc = "answered" /\ call'[y].outcome = "refused" =>
              KeyOf(y)' \in dropped' \/ issued'[KeyOf(y)'] > 1
        /\ call'[y].pc # "idle" /\ call'[y].retry /\ call'[y].endpoint = "WS" =>
              /\ issued'[KeyOf(y)'] >= 1
              /\ call'[y].pc = "token" /\ cache'[CallPod(y)][KeyOf(y)'] # 0 => issued'[KeyOf(y)'] > 1
              /\ call'[y].pc \in {"call", "answered"} => issued'[KeyOf(y)'] > 1
    BY DEF RefusalsHaveCause
  <2>1. dropped' = dropped /\ (call[y].pc # "idle" => KeyOf(y) \in Keys) /\ CallPod(y) \in PoolPods
    BY <1>0 DEF TokenIssued, CallsAreSet
  <2>2. CASE call'[y] = call[y]
    <3>1. CASE call[y].pc # "idle" /\ KeyOf(y) # k
      <4>1. /\ cache'[CallPod(y)][KeyOf(y)] = cache[CallPod(y)][KeyOf(y)]
            /\ issued'[KeyOf(y)] = issued[KeyOf(y)]
        BY <1>1, <1>2, <2>1, <3>1
      <4> HIDE DEF KeyOf
      <4> QED BY <1>0, <1>5, <2>1, <2>2, <4>1 DEF RefusalsHaveCause
    <3>2. CASE call[y].pc # "idle" /\ KeyOf(y) = k
      BY <1>0, <1>1, <1>5, <2>1, <2>2, <3>2 DEF RefusalsHaveCause
    <3> QED BY <2>2, <3>1, <3>2
  <2>3. CASE call[y].pc = "wait" /\ call[y].key = {k} /\ call'[y].pc = "call"
    BY <1>0, <1>1, <1>4, <1>5, <1>6, <2>3 DEF RefusalsHaveCause
  <2> QED BY <1>4, <2>2, <2>3
<1>11. BlameIsDeserved'
  <2> SUFFICES ASSUME NEW j \in Keys \ BadKeys
               PROVE
        /\ state'[j]["REST"].status = "authFailed" => j \in dropped' \/ issued'[j] > 1
        /\ state'[j]["WS"].status = "authFailed" => issued'[j] > 1
    BY DEF BlameIsDeserved
  <2>1. state'[j] = state[j] \/ \A e \in Endpoints : state'[j][e].status = "active"
    BY <1>0 DEF TokenIssued, TokenSuccess, PoolShape, Fresh
  <2>2. dropped' = dropped /\ issued[j] \in Nat /\ issued'[j] \in Nat /\ issued[j] <= issued'[j]
    BY <1>1 DEF TokenIssued
  <2> QED BY <1>0, <2>1, <2>2 DEF BlameIsDeserved, Endpoints
<1> QED BY <1>7, <1>8, <1>9, <1>10, <1>11 DEF PoolInv

\* A token request fails, at last or after a refresh that is followed by an issue.
LEMMA TokenFailsStep ==
    ASSUME PoolInv, NEW p \in PoolPods, NEW k \in Keys,
           NEW why \in {"refused", "limited", "down"}, TokenFails(p, k, why)
    PROVE  PoolInv'
<1> USE PoolAssumption
<1>0. PoolShape /\ CallsAreSet /\ TokensAreIssued /\ RefusalsHaveCause /\ BlameIsDeserved
  BY DEF PoolInv
<1>1. UNCHANGED <<issued, valid, dropped>>
  BY DEF TokenFails, broker
<1>2. /\ \A q \in PoolPods, j \in Keys : cache'[q][j] = cache[q][j] \/ cache'[q][j] = 0
      /\ cache' \in [PoolPods -> [Keys -> Tokens \cup {0}]]
  <2>1. cache \in [PoolPods -> [Keys -> Tokens \cup {0}]]
    BY <1>0 DEF PoolShape
  <2>2. CASE cache' = cache
    BY <2>1, <2>2
  <2>3. CASE cache' = [cache EXCEPT ![p][k] = 0]
    BY <2>1, <2>3
  <2> QED BY <2>2, <2>3 DEF TokenFails
<1>3. /\ call' \in [PoolCalls -> CallRecord]
      /\ \A y \in PoolCalls : call'[y] = call[y] \/ call'[y] = NoPoolCall
  <2>1. NoPoolCall \in CallRecord
    BY DEF NoPoolCall, CallRecord, Endpoints
  <2> QED BY <1>0, <2>1 DEF TokenFails, PoolShape
<1>4. \A y \in PoolCalls : call'[y].pc # "idle" => call'[y] = call[y] /\ KeyOf(y)' = KeyOf(y)
  BY <1>3 DEF NoPoolCall, KeyOf
<1>5. PoolShape'
  <2>1. state' \in [Keys -> [Endpoints -> EndpointState]]
    <3>1. Refused \in EndpointState /\ \A s \in EndpointState : Limited(s) \in EndpointState
      BY DEF Refused, Limited, EndpointState
    <3>2. state' \in {state, [state EXCEPT ![k] = [e \in Endpoints |-> Refused]],
                      [state EXCEPT ![k]["REST"] = Limited(@)]}
      BY DEF TokenFails
    <3>3. state \in [Keys -> [Endpoints -> EndpointState]]
      BY <1>0 DEF PoolShape
    <3>4. CASE state' = [state EXCEPT ![k] = [e \in Endpoints |-> Refused]]
      BY <3>1, <3>3, <3>4
    <3>5. CASE state' = [state EXCEPT ![k]["REST"] = Limited(@)]
      <4>1. "REST" \in Endpoints /\ Limited(state[k]["REST"]) \in EndpointState
        BY <3>1, <3>3 DEF Endpoints
      <4>2. state' = [state EXCEPT ![k] = [state[k] EXCEPT !["REST"] = Limited(state[k]["REST"])]]
        BY <3>5
      <4>3. [state[k] EXCEPT !["REST"] = Limited(state[k]["REST"])] \in [Endpoints -> EndpointState]
        BY <3>3, <4>1
      <4> QED BY <3>3, <4>2, <4>3
    <3> QED BY <3>2, <3>3, <3>4, <3>5
  <2>2. /\ issuing' \in [PoolPods -> [Keys -> {"none", "refresh", "issue"}]]
        /\ cooling' \in [PoolPods -> SUBSET Keys]
    <3>1. /\ issuing \in [PoolPods -> [Keys -> {"none", "refresh", "issue"}]]
          /\ cooling \in [PoolPods -> SUBSET Keys]
      BY <1>0 DEF PoolShape
    <3>2. \E i \in {"issue", "none"} : issuing' = [issuing EXCEPT ![p][k] = i]
      BY DEF TokenFails
    <3>3. cooling' = cooling \/ cooling' = [cooling EXCEPT ![p] = cooling[p] \cup {k}]
      BY DEF TokenFails
    <3>4. issuing' \in [PoolPods -> [Keys -> {"none", "refresh", "issue"}]]
      BY <3>1, <3>2
    <3>5. cooling' \in [PoolPods -> SUBSET Keys]
      BY <3>1, <3>3
    <3> QED BY <3>4, <3>5
  <2> QED BY <1>0, <1>1, <1>2, <1>3, <2>1, <2>2 DEF PoolShape
<1>6. CallsAreSet'
  BY <1>0, <1>3, <1>4 DEF CallsAreSet
<1>7. TokensAreIssued'
  <2>1. ASSUME NEW q \in PoolPods, NEW j \in Keys PROVE cache'[q][j] <= issued'[j]
    <3>1. cache[q][j] <= issued[j] /\ issued[j] \in Nat /\ issued' = issued
      BY <1>0, <1>1 DEF TokensAreIssued, PoolShape
    <3> QED BY <1>2, <3>1
  <2> QED BY <1>0, <1>1, <1>4, <2>1 DEF TokensAreIssued
<1>8. RefusalsHaveCause'
  <2>1. \A y \in PoolCalls : call[y].pc # "idle" => KeyOf(y) \in Keys
    BY <1>0 DEF CallsAreSet
  <2> QED BY <1>0, <1>1, <1>2, <1>4, <2>1 DEF RefusalsHaveCause
<1>9. BlameIsDeserved'
  <2> SUFFICES ASSUME NEW j \in Keys \ BadKeys, NEW e \in Endpoints,
                      state'[j][e].status = "authFailed"
               PROVE  state[j][e].status = "authFailed"
    BY <1>0, <1>1 DEF BlameIsDeserved, Endpoints
  <2>1. CASE state' = state
    BY <2>1
  <2>2. CASE state' = [state EXCEPT ![k]["REST"] = Limited(@)]
    BY <1>0, <2>2 DEF PoolShape, Limited, EndpointState, Endpoints
  <2>3. CASE k \in BadKeys /\ state' = [state EXCEPT ![k] = [i \in Endpoints |-> Refused]]
    BY <1>0, <2>3 DEF PoolShape
  <2> QED BY <2>1, <2>2, <2>3 DEF TokenFails
<1> QED BY <1>5, <1>6, <1>7, <1>8, <1>9 DEF PoolInv

\* A call records how it went: only a refusal that has a cause marks the credential.
LEMMA RecordStep ==
    ASSUME PoolInv, NEW x \in PoolCalls, RecordOutcome(x)
    PROVE  PoolInv'
<1> USE PoolAssumption
<1> DEFINE k == KeyOf(x)
           e == call[x].endpoint
<1>0. PoolShape /\ CallsAreSet /\ TokensAreIssued /\ RefusalsHaveCause /\ BlameIsDeserved
  BY DEF PoolInv
<1>1. /\ UNCHANGED <<cooling, cache, issuing, issued, valid, dropped>>
      /\ call' = [call EXCEPT ![x] = NoPoolCall]
      /\ call[x].pc = "answered" /\ (call[x].outcome = "refused" => call[x].retry)
      /\ k \in Keys /\ e \in Endpoints
  BY <1>0 DEF RecordOutcome, memory, broker, CallsAreSet, PoolShape, CallRecord
<1>2. \/ state' = state
      \/ state' = [state EXCEPT ![k][e] = Fresh]
      \/ state' = [state EXCEPT ![k][e] = Limited(@)]
      \/ call[x].outcome = "refused" /\ state' = [state EXCEPT ![k][e] = Refused]
  <2>1. call[x].outcome \in {"ok", "limited", "refused"}
    BY <1>0, <1>1 DEF CallsAreSet, PoolShape, CallRecord
  <2> QED BY <2>1 DEF RecordOutcome, Blamed
<1>3. NoPoolCall \in CallRecord
  BY DEF NoPoolCall, CallRecord, Endpoints
<1>4. \A y \in PoolCalls : call'[y].pc # "idle" => call'[y] = call[y] /\ KeyOf(y)' = KeyOf(y)
  BY <1>0, <1>1 DEF NoPoolCall, KeyOf, PoolShape
<1>5. PoolShape'
  <2>1. /\ Refused \in EndpointState /\ Fresh \in EndpointState
        /\ \A s \in EndpointState : Limited(s) \in EndpointState
    BY DEF Refused, Limited, Fresh, EndpointState
  <2>2. state' \in [Keys -> [Endpoints -> EndpointState]]
    <3>1. state \in [Keys -> [Endpoints -> EndpointState]] /\ k \in Keys /\ e \in Endpoints
      BY <1>0, <1>1 DEF PoolShape
    <3>2. Limited(state[k][e]) \in EndpointState
      BY <2>1, <3>1
    <3>3. state' = state \/ \E s \in EndpointState : state' = [state EXCEPT ![k][e] = s]
      BY <1>2, <2>1, <3>2
    <3> HIDE DEF k, e
    <3>4. ASSUME NEW s \in EndpointState, state' = [state EXCEPT ![k][e] = s]
          PROVE  state' \in [Keys -> [Endpoints -> EndpointState]]
      <4>1. state' = [state EXCEPT ![k] = [state[k] EXCEPT ![e] = s]]
        BY <3>4
      <4>2. [state[k] EXCEPT ![e] = s] \in [Endpoints -> EndpointState]
        BY <3>1
      <4> QED BY <3>1, <4>1, <4>2
    <3> QED BY <3>1, <3>3, <3>4
  <2> QED BY <1>0, <1>1, <1>3, <2>2 DEF PoolShape
<1>6. CallsAreSet'
  <2>1. \A y \in PoolCalls : call'[y].pc = "answered" => call'[y].pc # "idle"
    OBVIOUS
  <2> QED BY <1>0, <1>4, <2>1 DEF CallsAreSet
<1>7. TokensAreIssued'
  BY <1>0, <1>1, <1>4 DEF TokensAreIssued
<1>8. RefusalsHaveCause'
  BY <1>0, <1>1, <1>4 DEF RefusalsHaveCause
<1>9. BlameIsDeserved'
  <2> SUFFICES ASSUME NEW j \in Keys \ BadKeys, NEW i \in Endpoints,
                      state'[j][i].status = "authFailed"
               PROVE  /\ i = "REST" => j \in dropped \/ issued[j] > 1
                      /\ i = "WS" => issued[j] > 1
    BY <1>1 DEF BlameIsDeserved, Endpoints
  <2>1. state[j][i].status = "authFailed" \/ (j = k /\ i = e /\ call[x].outcome = "refused")
    <3> HIDE DEF k, e
    <3> QED BY <1>0, <1>1, <1>2 DEF PoolShape, Limited, Fresh, EndpointState
  <2>2. CASE state[j][i].status = "authFailed"
    BY <1>0, <2>2 DEF BlameIsDeserved
  <2>3. CASE j = k /\ i = e /\ call[x].outcome = "refused"
    BY <1>0, <1>1, <2>3 DEF RefusalsHaveCause
  <2> QED BY <2>1, <2>2, <2>3
<1> QED BY <1>5, <1>6, <1>7, <1>8, <1>9 DEF PoolInv

-----------------------------------------------------------------------------
\* Steps that leave the calls, the tokens and the statuses alone, but for what
\* makes a refusal more deserved.
LEMMA QuietStep ==
    ASSUME PoolInv, UNCHANGED <<cache, issuing, issued, call>>,
           cooling' \in [PoolPods -> SUBSET Keys],
           state' \in [Keys -> [Endpoints -> EndpointState]],
           \A k \in Keys, e \in Endpoints : state'[k][e].status = state[k][e].status,
           valid' \in SUBSET Keys, dropped' \in SUBSET Keys, dropped \subseteq dropped',
           valid \subseteq valid' \cup dropped'
    PROVE  PoolInv'
<1>0. PoolShape /\ CallsAreSet /\ TokensAreIssued /\ RefusalsHaveCause /\ BlameIsDeserved
  BY DEF PoolInv
<1>1. \A y \in PoolCalls : KeyOf(y)' = KeyOf(y)
  BY DEF KeyOf
<1>2. PoolShape'
  BY <1>0 DEF PoolShape
<1>3. CallsAreSet'
  BY <1>0, <1>1 DEF CallsAreSet
<1>4. TokensAreIssued'
  BY <1>0, <1>1 DEF TokensAreIssued
<1>5. RefusalsHaveCause'
  BY <1>0, <1>1 DEF RefusalsHaveCause
<1>6. BlameIsDeserved'
  BY <1>0 DEF BlameIsDeserved, Endpoints
<1> QED BY <1>2, <1>3, <1>4, <1>5, <1>6 DEF PoolInv

\* Cooldowns that end, and tokens the broker drops.
LEMMA CooldownStep ==
    ASSUME PoolInv, NEW k \in Keys, NEW e \in Endpoints, CooldownEnds(k, e)
    PROVE  PoolInv'
<1>1. /\ PoolShape /\ state' = [state EXCEPT ![k][e].cooldown = "past"]
      /\ UNCHANGED <<cooling, cache, issuing, issued, valid, dropped, call>>
  BY DEF PoolInv, CooldownEnds, memory, broker
<1> DEFINE s == [state[k][e] EXCEPT !.cooldown = "past"]
<1>2. state[k] \in [Endpoints -> EndpointState] /\ state[k][e] \in EndpointState
  BY <1>1 DEF PoolShape
<1>3. s \in EndpointState /\ s.status = state[k][e].status
  BY <1>2 DEF EndpointState
<1>4. state' = [state EXCEPT ![k] = [state[k] EXCEPT ![e] = s]]
  BY <1>1
<1> HIDE DEF s
<1>5. [state[k] EXCEPT ![e] = s] \in [Endpoints -> EndpointState]
  BY <1>2, <1>3
<1>6. state' \in [Keys -> [Endpoints -> EndpointState]]
  BY <1>1, <1>4, <1>5 DEF PoolShape
<1>7. \A j \in Keys, i \in Endpoints : state'[j][i].status = state[j][i].status
  BY <1>1, <1>2, <1>3, <1>4 DEF PoolShape
<1>8. /\ cooling' \in [PoolPods -> SUBSET Keys]
      /\ valid' \in SUBSET Keys /\ dropped' \in SUBSET Keys
  BY <1>1 DEF PoolShape
<1> QED BY <1>1, <1>6, <1>7, <1>8, QuietStep

LEMMA MemoryCooldownStep ==
    ASSUME PoolInv, NEW p \in PoolPods, NEW k \in Keys, MemoryCooldownEnds(p, k)
    PROVE  PoolInv'
<1>1. /\ PoolShape /\ cooling' = [cooling EXCEPT ![p] = cooling[p] \ {k}]
      /\ UNCHANGED <<state, cache, issuing, issued, valid, dropped, call>>
  BY DEF PoolInv, MemoryCooldownEnds, broker
<1>2. /\ cooling' \in [PoolPods -> SUBSET Keys]
      /\ state' \in [Keys -> [Endpoints -> EndpointState]]
      /\ valid' \in SUBSET Keys /\ dropped' \in SUBSET Keys
  BY <1>1 DEF PoolShape
<1> QED BY <1>1, <1>2, QuietStep

LEMMA DroppedStep ==
    ASSUME PoolInv, NEW ks \in SUBSET Keys, TokensDropped(ks)
    PROVE  PoolInv'
<1>1. /\ PoolShape /\ valid' = valid \ ks /\ dropped' = dropped \cup ks
      /\ UNCHANGED <<state, cooling, cache, issuing, issued, call>>
  BY DEF PoolInv, TokensDropped, memory
<1>2. /\ cooling' \in [PoolPods -> SUBSET Keys]
      /\ state' \in [Keys -> [Endpoints -> EndpointState]]
      /\ valid' \in SUBSET Keys /\ dropped' \in SUBSET Keys
      /\ dropped \subseteq dropped' /\ valid \subseteq valid' \cup dropped'
  BY <1>1 DEF PoolShape
<1> QED BY <1>1, <1>2, QuietStep

\* A pod that restarts forgets its tokens and its calls.
LEMMA RestartStep ==
    ASSUME PoolInv, NEW p \in PoolPods, PoolRestart(p)
    PROVE  PoolInv'
<1> USE PoolAssumption
<1>0. PoolShape /\ CallsAreSet /\ TokensAreIssued /\ RefusalsHaveCause /\ BlameIsDeserved
  BY DEF PoolInv
<1>1. /\ UNCHANGED <<state, issued, valid, dropped>>
      /\ cooling' = [cooling EXCEPT ![p] = {}]
      /\ cache' = [cache EXCEPT ![p] = [k \in Keys |-> 0]]
      /\ issuing' = [issuing EXCEPT ![p] = [k \in Keys |-> "none"]]
  BY DEF PoolRestart, broker
<1>2. /\ \A q \in PoolPods, j \in Keys : cache'[q][j] = cache[q][j] \/ cache'[q][j] = 0
      /\ cache' \in [PoolPods -> [Keys -> Tokens \cup {0}]]
  BY <1>0, <1>1 DEF PoolShape
<1>3. /\ call' \in [PoolCalls -> CallRecord]
      /\ \A y \in PoolCalls : call'[y] = call[y] \/ call'[y] = NoPoolCall
  <2>1. NoPoolCall \in CallRecord
    BY DEF NoPoolCall, CallRecord, Endpoints
  <2> QED BY <1>0, <2>1 DEF PoolRestart, PoolShape
<1>4. \A y \in PoolCalls : call'[y].pc # "idle" => call'[y] = call[y] /\ KeyOf(y)' = KeyOf(y)
  BY <1>3 DEF NoPoolCall, KeyOf
<1>5. PoolShape'
  <2>1. issuing' \in [PoolPods -> [Keys -> {"none", "refresh", "issue"}]]
    BY <1>0, <1>1 DEF PoolShape
  <2>2. cooling' \in [PoolPods -> SUBSET Keys]
    BY <1>0, <1>1 DEF PoolShape
  <2> QED BY <1>0, <1>1, <1>2, <1>3, <2>1, <2>2 DEF PoolShape
<1>6. CallsAreSet'
  BY <1>0, <1>3, <1>4 DEF CallsAreSet
<1>7. TokensAreIssued'
  <2>1. ASSUME NEW q \in PoolPods, NEW j \in Keys PROVE cache'[q][j] <= issued'[j]
    <3>1. cache[q][j] <= issued[j] /\ issued[j] \in Nat /\ issued' = issued
      BY <1>0, <1>1 DEF TokensAreIssued, PoolShape
    <3> QED BY <1>2, <3>1
  <2> QED BY <1>0, <1>1, <1>4, <2>1 DEF TokensAreIssued
<1>8. RefusalsHaveCause'
  <2>1. \A y \in PoolCalls : call[y].pc # "idle" => KeyOf(y) \in Keys
    BY <1>0 DEF CallsAreSet
  <2> QED BY <1>0, <1>1, <1>2, <1>4, <2>1 DEF RefusalsHaveCause
<1>9. BlameIsDeserved'
  BY <1>0, <1>1 DEF BlameIsDeserved
<1> QED BY <1>5, <1>6, <1>7, <1>8, <1>9 DEF PoolInv

\* Every step keeps the invariant.
LEMMA PoolInvStep == PoolInv /\ [PoolNext]_poolVars => PoolInv'
<1> SUFFICES ASSUME PoolInv, [PoolNext]_poolVars PROVE PoolInv'
  OBVIOUS
<1>1. CASE UNCHANGED poolVars
  <2>1. UNCHANGED <<state, cooling, cache, issuing, issued, valid, dropped, call>>
    BY <1>1 DEF poolVars
  <2>2. /\ cooling' \in [PoolPods -> SUBSET Keys]
        /\ state' \in [Keys -> [Endpoints -> EndpointState]]
        /\ valid' \in SUBSET Keys /\ dropped' \in SUBSET Keys
    BY <2>1 DEF PoolInv, PoolShape
  <2> QED BY <2>1, <2>2, QuietStep
<1>2. ASSUME NEW x \in PoolCalls,
             \/ \E e \in Endpoints : SelectKey(x, e)
             \/ GetToken(x) \/ RenewToken(x) \/ RetryWithFreshToken(x) \/ RecordOutcome(x)
             \/ \E o \in {"ok", "limited", "refused"} : BrokerAnswers(x, o)
      PROVE  PoolInv'
  BY <1>2, CallMoves, RecordStep
<1>3. ASSUME NEW p \in PoolPods, NEW k \in Keys,
             \/ TokenIssued(p, k) \/ MemoryCooldownEnds(p, k)
             \/ \E why \in {"refused", "limited", "down"} : TokenFails(p, k, why)
      PROVE  PoolInv'
  BY <1>3, IssueStep, MemoryCooldownStep, TokenFailsStep
<1>4. ASSUME NEW k \in Keys, NEW e \in Endpoints, CooldownEnds(k, e) PROVE PoolInv'
  BY <1>4, CooldownStep
<1>5. ASSUME NEW ks \in SUBSET Keys, TokensDropped(ks) PROVE PoolInv'
  BY <1>5, DroppedStep
<1>6. ASSUME NEW p \in PoolPods, PoolRestart(p) PROVE PoolInv'
  BY <1>6, RestartStep
<1> QED BY <1>1, <1>2, <1>3, <1>4, <1>5, <1>6 DEF PoolNext

-----------------------------------------------------------------------------
\* The pool keeps its types: each pod caches only tokens the broker hands out, and
\* each call is at one of its steps.
THEOREM PoolTypes == PoolSpec => []PoolTypeOK
<1>1. PoolInv => PoolTypeOK
  BY DEF PoolInv, PoolShape, PoolTypeOK, EndpointState, CallRecord
<1> QED BY <1>1, PoolInvInit, PoolInvStep, PTL DEF PoolSpec

\* No failure is charged to another credential: the REST calls and logins that
\* overlap mark an accepted credential AUTH_FAILED only after its token was dropped
\* or replaced.
THEOREM BlameTheorem == PoolSpec => []BlameIsDeserved
<1>1. PoolInv => BlameIsDeserved
  BY DEF PoolInv
<1> QED BY <1>1, PoolInvInit, PoolInvStep, PTL DEF PoolSpec

\* A limit leaves a refused endpoint as it is.
LEMMA LimitedKeepsRefusal ==
    ASSUME NEW s, s.status = "authFailed" PROVE Limited(s).status = "authFailed"
BY DEF Limited

\* Only the issue of a token brings a refused credential back.
LEMMA StickyStep ==
    ASSUME PoolInv, [PoolNext]_poolVars, NEW k \in Keys, NEW e \in Endpoints,
           state[k][e].status = "authFailed", state'[k][e].status # "authFailed"
    PROVE  issued'[k] > issued[k]
<1>0. PoolShape /\ CallsAreSet
  BY DEF PoolInv
<1>1. state' # state
  OBVIOUS
<1>2. state \in [Keys -> [Endpoints -> EndpointState]] /\ issued \in [Keys -> Nat]
  BY <1>0 DEF PoolShape
<1>3. ASSUME NEW x \in PoolCalls, RecordOutcome(x) PROVE FALSE
  <2> DEFINE j == KeyOf(x)
             i == call[x].endpoint
  <2>1. j \in Keys /\ i \in Endpoints /\ call[x].outcome \in {"ok", "limited", "refused"}
    BY <1>0, <1>3 DEF RecordOutcome, CallsAreSet, PoolShape, CallRecord
  <2>2. \/ state[j][i].status = "limited" /\ state' = [state EXCEPT ![j][i] = Fresh]
        \/ state' = [state EXCEPT ![j][i] = Limited(state[j][i])]
        \/ state' = [state EXCEPT ![j][i] = Refused]
    BY <1>1, <1>3, <2>1 DEF RecordOutcome, Blamed
  <2>3. Refused.status = "authFailed"
    BY DEF Refused
  <2> HIDE DEF i, j
  <2>4. CASE state[j][i].status = "limited" /\ state' = [state EXCEPT ![j][i] = Fresh]
    BY <1>2, <2>1, <2>4
  <2>5. CASE state' = [state EXCEPT ![j][i] = Limited(state[j][i])]
    BY <1>2, <2>1, <2>5, LimitedKeepsRefusal
  <2>6. CASE state' = [state EXCEPT ![j][i] = Refused]
    BY <1>2, <2>1, <2>3, <2>6
  <2> QED BY <2>2, <2>4, <2>5, <2>6
<1>4. ASSUME NEW p \in PoolPods, NEW j \in Keys, TokenIssued(p, j) PROVE issued'[k] > issued[k]
  <2>1. state' = [state EXCEPT ![j] = [i \in Endpoints |-> Fresh]]
    BY <1>1, <1>4 DEF TokenIssued, TokenSuccess
  <2>2. j = k
    BY <1>2, <2>1
  <2>3. issued' = [issued EXCEPT ![k] = issued[k] + 1]
    BY <1>4, <2>2 DEF TokenIssued
  <2> QED BY <1>2, <2>3
<1>5. ASSUME NEW p \in PoolPods, NEW j \in Keys, NEW why \in {"refused", "limited", "down"},
             TokenFails(p, j, why)
      PROVE  FALSE
  <2>1. \/ state' = [state EXCEPT ![j] = [i \in Endpoints |-> Refused]]
        \/ state' = [state EXCEPT ![j]["REST"] = Limited(state[j]["REST"])]
    BY <1>1, <1>5 DEF TokenFails
  <2>2. Refused.status = "authFailed" /\ "REST" \in Endpoints
    BY DEF Refused, Endpoints
  <2>3. CASE state' = [state EXCEPT ![j] = [i \in Endpoints |-> Refused]]
    BY <1>2, <2>2, <2>3
  <2>4. CASE state' = [state EXCEPT ![j]["REST"] = Limited(state[j]["REST"])]
    BY <1>2, <2>2, <2>4, LimitedKeepsRefusal
  <2> QED BY <2>1, <2>3, <2>4
<1>6. ASSUME NEW j \in Keys, NEW i \in Endpoints, CooldownEnds(j, i) PROVE FALSE
  <2>1. state' = [state EXCEPT ![j][i].cooldown = "past"]
    BY <1>6 DEF CooldownEnds
  <2>2. state'[k][e].status = state[k][e].status
    <3>1. state[k][e] \in EndpointState
      BY <1>2
    <3> QED BY <1>2, <2>1, <3>1 DEF EndpointState
  <2> QED BY <2>2
<1>7. \/ \E x \in PoolCalls : RecordOutcome(x)
      \/ \E p \in PoolPods, j \in Keys :
           \/ TokenIssued(p, j)
           \/ \E why \in {"refused", "limited", "down"} : TokenFails(p, j, why)
      \/ \E j \in Keys, i \in Endpoints : CooldownEnds(j, i)
  BY <1>1 DEF PoolNext, poolVars, SelectKey, GetToken, RenewToken, RetryWithFreshToken,
              BrokerAnswers, MemoryCooldownEnds, TokensDropped, PoolRestart
<1> QED BY <1>3, <1>4, <1>5, <1>6, <1>7

\* A refused credential stays out until a token was issued for it, whatever late
\* successes and limits the calls that overlapped record.
THEOREM StickyTheorem == PoolSpec => AuthFailedIsSticky
<1>1. PoolInv /\ [PoolNext]_poolVars =>
        [\A k \in Keys, e \in Endpoints :
           state[k][e].status = "authFailed" /\ state'[k][e].status # "authFailed"
           => issued'[k] > issued[k]]_poolVars
  BY StickyStep
<1> QED BY <1>1, PoolInvInit, PoolInvStep, PTL DEF PoolSpec, AuthFailedIsSticky

-----------------------------------------------------------------------------
(* AccountSync: the pull of an account.                                       *)

SyncRecord == [pc: {"idle", "upsert", "books", "scan", "del", "set"},
               held: SUBSET HeldSymbols, todo: SUBSET HeldSymbols]

LEMMA IdleSync == SyncIdle \in SyncRecord
BY DEF SyncIdle, SyncRecord

LEMMA AccountInitTypes == AccountInit => AccountTypeOK
BY IdleSync, AccountSyncAssumption DEF AccountInit, AccountTypeOK, SyncRecord

\* The sync that takes a step keeps to its record.
LEMMA SyncBecomes ==
    ASSUME AccountTypeOK, NEW i \in SyncSlots, NEW r \in SyncRecord,
           syncRun' = [syncRun EXCEPT ![i] = r]
    PROVE  syncRun' \in [SyncSlots -> SyncRecord]
BY DEF AccountTypeOK, SyncRecord

\* Going on with the rest of a step, or with the next one.
LEMMA ProceedTypes ==
    ASSUME AccountTypeOK, NEW i \in SyncSlots, NEW todo \in SUBSET HeldSymbols,
           NEW next \in {"books", "scan"}, NEW nextTodo \in SUBSET HeldSymbols,
           Proceed(i, todo, next, nextTodo)
    PROVE  syncRun' \in [SyncSlots -> SyncRecord]
<1>1. syncRun \in [SyncSlots -> SyncRecord]
  BY DEF AccountTypeOK, SyncRecord
<1>2. PICK pc \in {"idle", "upsert", "books", "scan", "del", "set"}, rest \in SUBSET HeldSymbols :
         syncRun' = [syncRun EXCEPT ![i].pc = pc, ![i].todo = rest]
  <2>1. CASE todo = {}
    BY <2>1 DEF Proceed
  <2>2. CASE todo # {}
    <3>1. syncRun[i].pc \in {"idle", "upsert", "books", "scan", "del", "set"}
      BY <1>1 DEF SyncRecord
    <3> QED BY <2>2, <3>1 DEF Proceed
  <2> QED BY <2>1, <2>2
<1> QED BY <1>1, <1>2 DEF SyncRecord

LEMMA AccountTypesStep ==
    ASSUME AccountTypeOK, [AccountNext]_accountVars
    PROVE  AccountTypeOK'
<1>0. /\ syncRun \in [SyncSlots -> SyncRecord] /\ MaxTrades \in Nat /\ MaxSyncFaults \in Nat
      /\ \A i \in SyncSlots : syncRun[i].todo \subseteq HeldSymbols
                             /\ syncRun[i].held \subseteq HeldSymbols
  BY AccountSyncAssumption DEF AccountTypeOK, SyncRecord
<1>1. CASE UNCHANGED accountVars
  BY <1>1 DEF AccountTypeOK, accountVars
<1>2. ASSUME NEW s \in HeldSymbols, Trade(s) \/ LeaseLapses(s)
      PROVE  AccountTypeOK'
  BY <1>0, <1>2 DEF AccountTypeOK, Trade, LeaseLapses
<1>3. ASSUME NEW i \in SyncSlots, PositionSync(i)
      PROVE  AccountTypeOK'
  <2>1. CASE FetchPositions(i)
    <3>1. [pc |-> IF holding = {} THEN "scan" ELSE "upsert", held |-> holding, todo |-> holding]
             \in SyncRecord
      BY DEF AccountTypeOK, SyncRecord
    <3>2. syncRun' \in [SyncSlots -> SyncRecord]
      BY <2>1, <3>1, SyncBecomes DEF FetchPositions
    <3> QED BY <2>1, <3>2 DEF AccountTypeOK, FetchPositions, SyncRecord
  <2>2. ASSUME NEW s \in HeldSymbols, UpsertPosition(i, s)
        PROVE  AccountTypeOK'
    <3>1. syncRun' \in [SyncSlots -> SyncRecord]
      BY <1>0, <2>2, ProceedTypes DEF UpsertPosition
    <3> QED BY <2>2, <3>1 DEF AccountTypeOK, UpsertPosition, SyncRecord
  <2>3. ASSUME NEW s \in HeldSymbols, EnsureBook(i, s)
        PROVE  AccountTypeOK'
    <3>1. syncRun' \in [SyncSlots -> SyncRecord]
      BY <1>0, <2>3, ProceedTypes DEF EnsureBook
    <3> QED BY <2>3, <3>1 DEF AccountTypeOK, EnsureBook, SyncRecord
  <2>4. CASE ScanLeases(i)
    <3>1. syncRun' \in [SyncSlots -> SyncRecord]
      BY <1>0, <2>4 DEF AccountTypeOK, ScanLeases, SyncRecord
    <3> QED BY <2>4, <3>1 DEF AccountTypeOK, ScanLeases, SyncRecord
  <2>5. CASE DeleteLeases(i)
    <3>1. syncRun' \in [SyncSlots -> SyncRecord] /\ demandLease' \subseteq HeldSymbols
      BY <1>0, <2>5 DEF AccountTypeOK, DeleteLeases, SyncRecord
    <3> QED BY <2>5, <3>1 DEF AccountTypeOK, DeleteLeases, SyncRecord
  <2>6. CASE SetLeases(i)
    <3>1. syncRun' \in [SyncSlots -> SyncRecord] /\ demandLease' \subseteq HeldSymbols
      BY <1>0, <2>6, IdleSync DEF AccountTypeOK, SetLeases, SyncRecord
    <3> QED BY <2>6, <3>1 DEF AccountTypeOK, SetLeases, SyncRecord
  <2> QED BY <1>3, <2>1, <2>2, <2>3, <2>4, <2>5, <2>6 DEF PositionSync
<1>4. ASSUME NEW i \in SyncSlots, BalanceSync(i)
      PROVE  AccountTypeOK'
  BY <1>0, <1>4 DEF AccountTypeOK, BalanceSync, FetchBalance, StoreBalance, BalanceNow, positionVars
<1>5. ASSUME NEW i \in SyncSlots, SyncFails(i)
      PROVE  AccountTypeOK'
  <2>1. syncRun' \in [SyncSlots -> SyncRecord]
    BY <1>0, <1>5, IdleSync DEF SyncFails
  <2> QED BY <1>0, <1>5, <2>1 DEF AccountTypeOK, SyncFails, SyncRecord
<1> QED BY <1>1, <1>2, <1>3, <1>4, <1>5 DEF AccountNext

\* The measured caps stay numbers.
CapsMeasured == measured \in [RestPods -> [RestCreds -> Nat]]

LEMMA CapsMeasuredStep ==
    ASSUME GateInv, CapsMeasured, [RestNext]_restVars
    PROVE  CapsMeasured'
<1>1. CASE UNCHANGED measured
  BY <1>1 DEF CapsMeasured
<1>2. ASSUME NEW r \in Requests, RateRefused(r)
      PROVE  CapsMeasured'
  <2>1. /\ req[r].pc # "idle" /\ req[r].pod \in RestPods /\ req[r].count \in Nat
        /\ Using(r) \in RestCreds
    BY <1>2, RequestKnown DEF RateRefused, Request
  <2>2. ASSUME NEW old \in Nat
        PROVE  MeasuredAfter(old, req[r].count) \in Nat
    BY <2>1 DEF MeasuredAfter
  <2>3. \/ UNCHANGED measured
        \/ measured' = [measured EXCEPT ![PodOf(r)][Using(r)] = MeasuredAfter(@, req[r].count)]
    BY <1>2 DEF RateRefused
  <2>4. MeasuredAfter(measured[PodOf(r)][Using(r)], req[r].count) \in Nat
    BY <2>1, <2>2 DEF CapsMeasured, PodOf
  <2> QED BY <2>1, <2>3, <2>4 DEF CapsMeasured, PodOf
<1>3. ASSUME NEW p \in RestPods, RestCrash(p)
      PROVE  CapsMeasured'
  BY <1>3 DEF CapsMeasured, RestCrash
<1>4. ASSUME NEW r \in Requests, RequestStep(r)
      PROVE  UNCHANGED measured
  BY <1>4 DEF RequestStep, AcquireProcess, AcquireShared, AcquireLocal, Pace, Answered, pacing
<1>5. ASSUME NEW r \in Requests,
             \/ \E p \in RestPods, c \in RestCreds : StartRequest(r, p, c)
             \/ \E c \in RestCreds : RestLeaseLapses(c, r)
             \/ \E c \in CollectorCreds : TokenRefused(r, c)
      PROVE  UNCHANGED measured
  BY <1>5 DEF StartRequest, RestLeaseLapses, TokenRefused, pacing
<1>6. Tick \/ UNCHANGED restVars => UNCHANGED measured
  BY DEF Tick, restVars
<1> QED BY <1>1, <1>2, <1>3, <1>4, <1>5, <1>6 DEF RestNext

LEMMA GateInvTypes == GateInv /\ CapsMeasured => RestTypeOK
<1> SUFFICES ASSUME GateInv, CapsMeasured PROVE RestTypeOK
  OBVIOUS
<1>1. \A r \in Requests :
         /\ req[r].pc \in {"idle", "process", "shared", "local", "pace", "fetch"}
         /\ req[r].cred \subseteq RestCreds /\ req[r].attempt \in 0..MaxRestAttempts
  BY DEF GateInv, GateTypes, Request, RequestPlaces
<1>2. inFlight \in [RestPods -> 0..ProcessCap]
  BY CapsPositive DEF GateInv, GateTypes, RunCounted
<1>3. credInFlight \in [RestPods -> [RestCreds -> 0..CredentialCap]]
  <2>1. \A p \in RestPods : credInFlight[p] \in [RestCreds -> 0..CredentialCap]
    BY CapsPositive DEF GateInv, GateTypes, RestCounted
  <2> QED BY <2>1 DEF GateInv, GateTypes
<1>4. /\ \A c \in RestCreds : leases[c] \subseteq Requests
      /\ \A p \in RestPods, c \in RestCreds : measured[p][c] \in Nat /\ second[p][c] \in Nat
  BY DEF GateInv, GateTypes, CapsMeasured
<1> QED BY <1>1, <1>2, <1>3, <1>4 DEF RestTypeOK

-----------------------------------------------------------------------------
(* The composition.                                                           *)

BrokerageInv == SocketInv /\ AccountTypeOK /\ GateInv /\ CapsMeasured /\ PoolInv

LEMMA BrokerageInvInit ==
    ASSUME BrokerageInit
    PROVE  BrokerageInv
<1>1. CapsMeasured
  BY DEF BrokerageInit, RestInit, PerCred, CapsMeasured
<1> QED BY <1>1, SocketInitInv, AccountInitTypes, GateInit, PoolInvInit DEF BrokerageInit, BrokerageInv

\* A step is a step of one component, and the others do not notice it.
LEMMA BrokerageParts ==
    ASSUME [BrokerageNext]_brokerageVars
    PROVE  /\ [SocketNext]_socketVars /\ [AccountNext]_accountVars
           /\ [RestNext]_restVars /\ [PoolNext]_poolVars
BY DEF BrokerageNext, brokerageVars

LEMMA BrokerageInvStep ==
    ASSUME BrokerageInv, [BrokerageNext]_brokerageVars
    PROVE  BrokerageInv'
BY BrokerageParts, SocketStep, AccountTypesStep, GateNextInv, CapsMeasuredStep, PoolInvStep
   DEF BrokerageInv

\* The types of the four components on the broker's side hold in the composition:
\* those of the sockets, the pull, the gate and the pool of credentials.
THEOREM BrokerageTypes == BrokerageSpec => []BrokerageTypeOK
<1>1. BrokerageInv => BrokerageTypeOK
  BY GateInvTypes DEF BrokerageInv, BrokerageTypeOK, SocketInv, PoolInv, PoolShape, PoolTypeOK,
     EndpointState, CallRecord
<1> QED BY <1>1, BrokerageInvInit, BrokerageInvStep, PTL DEF BrokerageSpec

\* In every behaviour of the composition the trackers' maps agree with their sockets, the
\* limiters' counters with the requests under way, and the blame for a refusal falls on a
\* credential that deserved it.
THEOREM BrokerageIsSafe == BrokerageSpec => [](SocketsSafe /\ GateSafe /\ BlameIsDeserved)
<1>1. BrokerageInv => SocketsSafe /\ GateSafe /\ BlameIsDeserved
  BY SocketInvSafe, GateInvSafe DEF BrokerageInv, PoolInv
<1> QED BY <1>1, BrokerageInvInit, BrokerageInvStep, PTL DEF BrokerageSpec

\* In every behaviour of the composition a refused credential stays out until a token is
\* issued for it.
THEOREM RefusalSticks == BrokerageSpec => AuthFailedIsSticky
<1>1. BrokerageInv /\ [BrokerageNext]_brokerageVars =>
        [\A k \in Keys, e \in Endpoints :
           state[k][e].status = "authFailed" /\ state'[k][e].status # "authFailed"
           => issued'[k] > issued[k]]_poolVars
  BY BrokerageParts, StickyStep DEF BrokerageInv
<1> QED BY <1>1, BrokerageInvInit, BrokerageInvStep, PTL DEF BrokerageSpec, AuthFailedIsSticky

==============================================================================
