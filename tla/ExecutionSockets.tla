--------------------------- MODULE ExecutionSockets ---------------------------
(***************************************************************************)
(* The trackers' execution sockets for one account credential: the Redis   *)
(* lease of TrackerWsOwnershipService, the sync loop of                    *)
(* KiwoomExecutionSubscriber and the KiwoomWsClient objects it opens.      *)
(*                                                                         *)
(* A pod believes in its snapshot, not in the lease; the sync loop acts on *)
(* the snapshot and on the map `connections'.  A client's close event      *)
(* reaches the pod on its own, possibly after the code stopped waiting for *)
(* it, and removes whatever connection the map then holds.                 *)
(***************************************************************************)
EXTENDS Naturals, FiniteSets

CONSTANTS
    Trackers,         \* tracker pods
    Clients,          \* client objects a pod can have at a time
    NoClient, NoPod, Gone,   \* no client; a free lease; an owner id nobody has now
    MaxSocketFaults   \* bound: refused or dropped connections, failing calls, late
                      \* closes, expired leases, crashes, changes of the account

ASSUME SocketAssumption ==
    /\ IsFiniteSet(Trackers) /\ IsFiniteSet(Clients)
    /\ NoClient \notin Clients /\ NoPod \notin Trackers /\ Gone \notin Trackers
    /\ MaxSocketFaults \in Nat

VARIABLES
    active,       \* the account and its credential are active in the database
    lease,        \* the Redis key: owner id
    refresh,      \* each pod's refresh: idle, or the call it awaits
    owned,        \* each pod's snapshot: does it own the lease
    sync,         \* each pod's syncConnections: idle, or what it awaits
    syncClient,   \* the client the sync awaits
    client,       \* the clients of each pod: free, opening, login, open, closing
    connected,    \* `connections': the client stored under the key
    intentional,  \* `intentionalDisconnects' has the key
    system,       \* the client whose close an R10001 handler awaits
    backoff,      \* backoffUntil lies ahead
    lateCloses,   \* history: close events nobody awaits any more
    socketFaults

socketVars == <<active, lease, refresh, owned, sync, syncClient, client, connected,
                intentional, system, backoff, lateCloses, socketFaults>>

SocketInit ==
    /\ active = TRUE /\ lease = NoPod
    /\ refresh = [p \in Trackers |-> "idle"] /\ owned = [p \in Trackers |-> FALSE]
    /\ sync = [p \in Trackers |-> "idle"] /\ syncClient = [p \in Trackers |-> NoClient]
    /\ client = [p \in Trackers |-> [c \in Clients |-> "free"]]
    /\ connected = [p \in Trackers |-> NoClient]
    /\ intentional = [p \in Trackers |-> FALSE]
    /\ system = [p \in Trackers |-> NoClient]
    /\ backoff = [p \in Trackers |-> FALSE]
    /\ lateCloses = 0 /\ socketFaults = 0

SocketFault == socketFaults < MaxSocketFaults /\ socketFaults' = socketFaults + 1

-----------------------------------------------------------------------------
(* TrackerWsOwnershipService.                                              *)

leaseVars == <<lease, refresh, owned>>
connectionVars == <<sync, syncClient, client, connected, intentional, system, backoff, lateCloses>>

Refreshed(p, isOwner) ==
    /\ refresh' = [refresh EXCEPT ![p] = "idle"]
    /\ owned' = [owned EXCEPT ![p] = isOwner]

\* refresh: activeCredentialTargets, then SET NX EX.  Without the target the
\* new snapshot has no entry for the credential.
RefreshSet(p) ==
    /\ refresh[p] = "idle"
    /\ \/ /\ ~active /\ Refreshed(p, FALSE) /\ UNCHANGED lease
       \/ /\ active /\ lease = NoPod
          /\ lease' = p /\ refresh' = [refresh EXCEPT ![p] = "renew"] /\ UNCHANGED owned
       \/ /\ active /\ lease # NoPod
          /\ refresh' = [refresh EXCEPT ![p] = "get"] /\ UNCHANGED <<lease, owned>>
    /\ UNCHANGED <<active, connectionVars, socketFaults>>

\* GET after a refused SET: an own lease is renewed, else the snapshot is done.
RefreshGet(p) ==
    /\ refresh[p] = "get"
    /\ IF lease = p
         THEN refresh' = [refresh EXCEPT ![p] = "renew"] /\ UNCHANGED owned
         ELSE Refreshed(p, FALSE)
    /\ UNCHANGED <<active, lease, connectionVars, socketFaults>>

\* RENEW_SCRIPT; when the lease changed hands, a last GET tells the owner.
RefreshRenew(p) ==
    /\ refresh[p] = "renew"
    /\ Refreshed(p, lease = p)
    /\ UNCHANGED <<active, lease, connectionVars, socketFaults>>

\* A failing call ends the refresh; the old snapshot stays.
RefreshFails(p) ==
    /\ refresh[p] # "idle" /\ SocketFault
    /\ refresh' = [refresh EXCEPT ![p] = "idle"]
    /\ UNCHANGED <<active, lease, owned, connectionVars>>

\* The key's TTL (30 s, renewed every 5 s) runs out: nobody renews it, or its
\* holder is stalled, which is a fault.
LeaseExpires ==
    /\ lease # NoPod
    /\ \/ (lease = Gone \/ ~active) /\ UNCHANGED socketFaults
       \/ SocketFault
    /\ lease' = NoPod
    /\ UNCHANGED <<active, refresh, owned, connectionVars>>

\* The account or its credential is deactivated or activated by the back end.
AccountChanges ==
    /\ active' = ~active /\ SocketFault
    /\ UNCHANGED <<leaseVars, connectionVars>>

-----------------------------------------------------------------------------
(* KiwoomExecutionSubscriber and its clients.                              *)

SyncDone(p) ==
    /\ sync' = [sync EXCEPT ![p] = "idle"]
    /\ syncClient' = [syncClient EXCEPT ![p] = NoClient]

\* client.disconnect: the socket closes, or there is none left to close.
CloseClient(p, c) ==
    client' = [client EXCEPT ![p][c] = IF @ = "free" THEN "free" ELSE "closing"]

\* syncConnections with a connection the snapshot does not own: disconnect.
\* A client whose socket is closing already has none left: no wait.
SyncDisconnect(p) ==
    LET c == connected[p]
    IN  /\ sync[p] = "idle" /\ ~owned[p] /\ c # NoClient
        /\ connected' = [connected EXCEPT ![p] = NoClient]
        /\ IF client[p][c] = "open"
             THEN /\ CloseClient(p, c)
                  /\ intentional' = [intentional EXCEPT ![p] = TRUE]
                  /\ sync' = [sync EXCEPT ![p] = "closing"]
                  /\ syncClient' = [syncClient EXCEPT ![p] = c]
                  /\ UNCHANGED lateCloses
             ELSE /\ intentional' = [intentional EXCEPT ![p] = FALSE]
                  /\ lateCloses' = lateCloses + 1
                  /\ UNCHANGED <<client, sync, syncClient>>
        /\ UNCHANGED <<active, leaseVars, system, backoff, socketFaults>>

\* syncConnections with an owned lease, no connection and no backoff: connect
\* selects the credential and a token and opens a client.
SyncConnect(p) ==
    /\ sync[p] = "idle" /\ owned[p] /\ connected[p] = NoClient /\ ~backoff[p]
    /\ \E c \in Clients :
         /\ client[p][c] = "free"
         /\ client' = [client EXCEPT ![p][c] = "opening"]
         /\ sync' = [sync EXCEPT ![p] = "opening"]
         /\ syncClient' = [syncClient EXCEPT ![p] = c]
    /\ UNCHANGED <<active, leaseVars, connected, intentional, system, backoff, lateCloses,
                   socketFaults>>

\* The socket opens and LOGIN is sent.
SocketOpens(p) ==
    /\ sync[p] = "opening"
    /\ client' = [client EXCEPT ![p][syncClient[p]] = "login"]
    /\ sync' = [sync EXCEPT ![p] = "login"]
    /\ UNCHANGED <<active, leaseVars, syncClient, connected, intentional, system, backoff,
                   lateCloses, socketFaults>>

\* The LOGIN ack, REG and the entry in the map, without another event between.
LoginAcked(p) ==
    LET c == syncClient[p]
    IN  /\ sync[p] = "login" /\ client[p][c] = "login"
        /\ client' = [client EXCEPT ![p][c] = "open"]
        /\ connected' = [connected EXCEPT ![p] = c]
        /\ SyncDone(p)
        /\ backoff' = [backoff EXCEPT ![p] = FALSE]
        /\ UNCHANGED <<active, leaseVars, intentional, system, lateCloses, socketFaults>>

\* No credential, no token, a refused or timed out connect: a backoff.
ConnectFails(p) ==
    /\ sync[p] = "opening" /\ SocketFault
    /\ client' = [client EXCEPT ![p][syncClient[p]] = "free"]
    /\ SyncDone(p)
    /\ backoff' = [backoff EXCEPT ![p] = TRUE]
    /\ UNCHANGED <<active, leaseVars, connected, intentional, system, lateCloses>>

\* The LOGIN is refused, times out, or its socket is gone: the catch closes
\* the client and waits for that.
LoginFails(p) ==
    LET c == syncClient[p]
    IN  /\ sync[p] = "login"
        /\ \/ client[p][c] = "login" /\ SocketFault
           \/ client[p][c] = "free" /\ UNCHANGED socketFaults
        /\ CloseClient(p, c)
        /\ intentional' = [intentional EXCEPT ![p] = client[p][c] # "free"]
        /\ IF client[p][c] = "free"
             THEN SyncDone(p) /\ backoff' = [backoff EXCEPT ![p] = TRUE]
             ELSE /\ sync' = [sync EXCEPT ![p] = "failing"]
                  /\ UNCHANGED <<syncClient, backoff>>
        /\ UNCHANGED <<active, leaseVars, connected, system, lateCloses>>

\* SYSTEM R10001 on an open client: another session took over.
SystemConflict(p, c) ==
    /\ client[p][c] = "open" /\ system[p] = NoClient /\ SocketFault
    /\ backoff' = [backoff EXCEPT ![p] = TRUE]
    /\ intentional' = [intentional EXCEPT ![p] = TRUE]
    /\ system' = [system EXCEPT ![p] = c]
    /\ CloseClient(p, c)
    /\ UNCHANGED <<active, leaseVars, sync, syncClient, connected, lateCloses>>

\* Mutant: the entry of the map stays.
OnCloseKeepsEntry(p, c) ==
    /\ client' = [client EXCEPT ![p][c] = "free"]
    /\ intentional' = [intentional EXCEPT ![p] = FALSE]
    /\ backoff' = [backoff EXCEPT ![p] = @ \/ ~intentional[p]]
    /\ system' = [system EXCEPT ![p] = IF @ = c THEN NoClient ELSE @]
    /\ IF sync[p] \in {"closing", "failing"} /\ syncClient[p] = c
       THEN SyncDone(p) ELSE UNCHANGED <<sync, syncClient>>
    /\ UNCHANGED connected

\* The onClose handler of client c: the map's entry is deleted whatever client
\* it holds; a close nobody intended starts a backoff.  Whoever awaits this
\* close goes on, and takes the intention back.
OnClose(p, c) ==
    LET awaited == sync[p] \in {"closing", "failing"} /\ syncClient[p] = c
    IN  /\ connected' = [connected EXCEPT ![p] = NoClient]
        /\ client' = [client EXCEPT ![p][c] = "free"]
        /\ intentional' = [intentional EXCEPT ![p] = FALSE]
        /\ backoff' = [backoff EXCEPT ![p] =
               @ \/ ~intentional[p] \/ (awaited /\ sync[p] = "failing")]
        /\ IF awaited THEN SyncDone(p) ELSE UNCHANGED <<sync, syncClient>>
        /\ system' = [system EXCEPT ![p] = IF @ = c THEN NoClient ELSE @]

\* The close event of a socket that was told to close.
CloseEvent(p, c) ==
    /\ client[p][c] = "closing"
    /\ OnClose(p, c)
    /\ UNCHANGED <<active, leaseVars, lateCloses, socketFaults>>

\* The broker or the network drops an open socket.
SocketDrops(p, c) ==
    /\ client[p][c] \in {"login", "open"} /\ SocketFault
    /\ OnClose(p, c)
    /\ UNCHANGED <<active, leaseVars, lateCloses>>

\* closeTimeoutMs passes without the close event: the socket is terminated,
\* the waiter goes on and its event is still to come.
CloseTimeout(p) ==
    /\ SocketFault
    /\ lateCloses' = lateCloses + 1
    /\ \/ /\ sync[p] \in {"closing", "failing"}
          /\ SyncDone(p)
          /\ backoff' = [backoff EXCEPT ![p] = @ \/ sync[p] = "failing"]
          /\ UNCHANGED system
       \/ /\ system[p] # NoClient
          /\ system' = [system EXCEPT ![p] = NoClient]
          /\ UNCHANGED <<sync, syncClient, backoff>>
    /\ intentional' = [intentional EXCEPT ![p] = FALSE]
    /\ UNCHANGED <<active, leaseVars, client, connected>>

BackoffEnds(p) ==
    /\ backoff[p]
    /\ backoff' = [backoff EXCEPT ![p] = FALSE]
    /\ UNCHANGED <<active, leaseVars, sync, syncClient, client, connected, intentional, system,
                   lateCloses, socketFaults>>

\* The pod stops and starts again with a new owner id.  A shutdown releases the
\* lease it owns, a crash leaves it to expire; the sockets close with the process.
PodRestarts(p) ==
    /\ SocketFault
    /\ lease' \in (IF lease # p THEN {lease} ELSE IF owned[p] THEN {NoPod, Gone} ELSE {Gone})
    /\ refresh' = [refresh EXCEPT ![p] = "idle"] /\ owned' = [owned EXCEPT ![p] = FALSE]
    /\ SyncDone(p)
    /\ client' = [client EXCEPT ![p] = [c \in Clients |-> "free"]]
    /\ connected' = [connected EXCEPT ![p] = NoClient]
    /\ intentional' = [intentional EXCEPT ![p] = FALSE]
    /\ system' = [system EXCEPT ![p] = NoClient]
    /\ backoff' = [backoff EXCEPT ![p] = FALSE]
    /\ UNCHANGED <<active, lateCloses>>

RefreshStep(p) == RefreshSet(p) \/ RefreshGet(p) \/ RefreshRenew(p)
SyncStep(p) == SyncDisconnect(p) \/ SyncConnect(p) \/ SocketOpens(p) \/ LoginAcked(p)
                 \/ (LoginFails(p) /\ UNCHANGED socketFaults)
CloseStep(p) == \E c \in Clients : CloseEvent(p, c)

SocketNext ==
    \/ LeaseExpires \/ AccountChanges
    \/ \E p \in Trackers :
         \/ RefreshSet(p) \/ RefreshGet(p) \/ RefreshRenew(p) \/ RefreshFails(p)
         \/ SyncDisconnect(p) \/ SyncConnect(p) \/ SocketOpens(p) \/ LoginAcked(p)
         \/ ConnectFails(p) \/ LoginFails(p) \/ CloseTimeout(p) \/ BackoffEnds(p)
         \/ PodRestarts(p)
         \/ \E c \in Clients : SystemConflict(p, c) \/ CloseEvent(p, c) \/ SocketDrops(p, c)

\* Intervals fire, awaited calls settle, close events come, backoffs and TTLs end.
SocketFairness ==
    /\ WF_socketVars(LeaseExpires /\ UNCHANGED socketFaults)
    /\ \A p \in Trackers :
         /\ WF_socketVars(RefreshStep(p)) /\ WF_socketVars(SyncStep(p))
         /\ WF_socketVars(CloseStep(p)) /\ WF_socketVars(BackoffEnds(p))

SocketSpec == SocketInit /\ [][SocketNext]_socketVars /\ SocketFairness

-----------------------------------------------------------------------------
\* Types of lease, clients and connections.
SocketTypeOK ==
    /\ active \in BOOLEAN /\ lease \in Trackers \cup {NoPod, Gone}
    /\ refresh \in [Trackers -> {"idle", "get", "renew"}]
    /\ owned \in [Trackers -> BOOLEAN]
    /\ sync \in [Trackers -> {"idle", "opening", "login", "closing", "failing"}]
    /\ syncClient \in [Trackers -> Clients \cup {NoClient}]
    /\ client \in [Trackers -> [Clients -> {"free", "opening", "login", "open", "closing"}]]
    /\ connected \in [Trackers -> Clients \cup {NoClient}]
    /\ intentional \in [Trackers -> BOOLEAN] /\ backoff \in [Trackers -> BOOLEAN]
    /\ system \in [Trackers -> Clients \cup {NoClient}]
    /\ lateCloses \in Nat /\ socketFaults \in 0..MaxSocketFaults

\* Open sockets the pod no longer knows of: nothing will ever close them.
Orphans(p) == {c \in Clients : client[p][c] = "open" /\ connected[p] # c}

\* A socket is only lost from the map when the close of an earlier client came
\* after the code had stopped waiting for it.
OrphansAreLateCloses ==
    Cardinality(UNION {Orphans(p) \X {p} : p \in Trackers}) <= lateCloses

\* A connection in the map is to a client that is open or on its way out: a dead
\* client left in the map would keep the account unwatched for as long as the
\* lease lasts.
ConnectionsAreAlive ==
    \A p \in Trackers :
        connected[p] # NoClient => client[p][connected[p]] \in {"open", "closing"}

\* Both: the map and the sockets agree, but for closes that came late.
SocketsSafe == OrphansAreLateCloses /\ ConnectionsAreAlive

\* Leases and sockets converge: an active account ends up watched by exactly one
\* pod, the holder of its lease, and an inactive one by none.
SocketsConverge ==
    <>[](\A p \in Trackers : connected[p] # NoClient <=> active /\ lease = p)

==============================================================================
