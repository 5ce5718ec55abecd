------------------------------- MODULE RestGate -------------------------------
(***************************************************************************)
(* KiwoomApiClient.request between its caller and the broker: the          *)
(* process's RateLimiter, CredentialUsageService.runRest with the lease of *)
(* SharedCredentialRateLimiter in Redis and the credential's own           *)
(* RateLimiter, the adaptive pacing per credential, the retry with a fresh *)
(* token and the retry with the next collector credential.  A token bucket *)
(* may be empty whenever it is asked; a second is a window of the pacing.  *)
(***************************************************************************)
EXTENDS Naturals, FiniteSets, Sequences

CONSTANTS
    Requests, RestPods,                 \* requests that may run together, each in some pod
    CollectorCreds, AccountCreds,
    ProcessCap, CredentialCap,          \* maxConcurrent of the two limiters
    MaxPerSecond,                       \* bound: what the token buckets let through in a second
    MaxRestAttempts,                    \* MAX_COLLECTOR_REST_CREDENTIAL_ATTEMPTS
    MaxRestFaults                       \* bound: refusals, failures, crashes, lapsed leases

ASSUME RestAssumption ==
    /\ IsFiniteSet(Requests) /\ 0 \notin RestPods
    /\ CollectorCreds \cap AccountCreds = {}
    /\ {ProcessCap, CredentialCap, MaxPerSecond, MaxRestAttempts} \subseteq Nat \ {0}
    /\ MaxRestFaults \in Nat

VARIABLES
    req,           \* each request: [pc, pod, charged, cred, tried, attempt, retried, fetches, count]
    inFlight,      \* the process limiter of each pod
    credInFlight,  \* the limiter of each credential in each pod
    leases,        \* the in-flight hash in Redis: [credential -> requests]
    lapsed,        \* requests under way whose lease ran out
    queue,         \* pacing: the chain of waiting requests of a credential
    second,        \* pacing: requests let through in this second
    measured,      \* pacing: measured cap, 0 when none
    restFaults

restVars == <<req, inFlight, credInFlight, leases, lapsed, queue, second, measured, restFaults>>

RestCreds == CollectorCreds \cup AccountCreds
NoRequest == [pc |-> "idle", pod |-> 0, charged |-> {}, cred |-> {}, tried |-> {}, attempt |-> 0,
              retried |-> FALSE, fetches |-> 0, count |-> 0]
PerCred(v) == [p \in RestPods |-> [c \in RestCreds |-> v]]

RestInit ==
    /\ req = [r \in Requests |-> NoRequest]
    /\ inFlight = [p \in RestPods |-> 0] /\ credInFlight = PerCred(0)
    /\ leases = [c \in RestCreds |-> {}] /\ lapsed = {}
    /\ queue = PerCred(<<>>) /\ second = PerCred(0) /\ measured = PerCred(0)
    /\ restFaults = 0

RestFault == restFaults < MaxRestFaults /\ restFaults' = restFaults + 1
PodOf(r) == req[r].pod
The(set) == CHOOSE c \in set : TRUE
Charged(r) == The(req[r].charged)
Using(r) == The(req[r].cred)
IsCollector(r) == req[r].cred \subseteq CollectorCreds

pacing == <<queue, second, measured>>

-----------------------------------------------------------------------------
\* The token supplier chose the credential before any limiter is asked.
StartRequest(r, p, c) ==
    /\ req[r].pc = "idle"
    /\ req' = [req EXCEPT ![r] = [NoRequest EXCEPT !.pc = "process", !.pod = p, !.cred = {c},
                                                   !.tried = {c}, !.attempt = 1]]
    /\ UNCHANGED <<inFlight, credInFlight, leases, lapsed,
                   pacing, restFaults>>

\* Mutant: the finally releases what was never acquired.
AcquireProcessReleasing(r) ==
    LET p == PodOf(r) IN
    /\ req[r].pc = "process"
    /\ \/ /\ req' = [req EXCEPT ![r] = NoRequest]
          /\ inFlight' = [inFlight EXCEPT ![p] = @ - 1]
       \/ /\ inFlight[p] < ProcessCap
          /\ inFlight' = [inFlight EXCEPT ![p] = @ + 1]
          /\ req' = [req EXCEPT ![r].pc = "shared"]
    /\ UNCHANGED <<credInFlight, leases, lapsed, pacing, restFaults>>

\* RateLimiter.acquire of the process: refused at the cap, or at any time for lack of a token.
AcquireProcess(r) ==
    LET p == PodOf(r) IN
    /\ req[r].pc = "process"
    /\ \/ req' = [req EXCEPT ![r] = NoRequest] /\ UNCHANGED inFlight
       \/ /\ inFlight[p] < ProcessCap
          /\ inFlight' = [inFlight EXCEPT ![p] = @ + 1]
          /\ req' = [req EXCEPT ![r].pc = "shared"]
    /\ UNCHANGED <<credInFlight, leases, lapsed, pacing, restFaults>>

\* Mutant: the request is over, its slot is not given back.
LeavesUncounted(r) == req' = [req EXCEPT ![r] = NoRequest] /\ UNCHANGED inFlight

\* The request leaves rateLimiter.run, whatever it was refused by.
Leaves(r) ==
    /\ req' = [req EXCEPT ![r] = NoRequest]
    /\ inFlight' = [inFlight EXCEPT ![PodOf(r)] = @ - 1]

\* ACQUIRE_SCRIPT, atomic in Redis; an error of Redis counts as a refusal.
AcquireShared(r) ==
    LET c == Using(r) IN
    /\ req[r].pc = "shared"
    /\ \/ Leaves(r) /\ UNCHANGED leases
       \/ /\ Cardinality(leases[c]) < CredentialCap
          /\ leases' = [leases EXCEPT ![c] = @ \cup {r}]
          /\ req' = [req EXCEPT ![r].pc = "local", ![r].charged = {c}]
          /\ UNCHANGED inFlight
    /\ UNCHANGED <<credInFlight, lapsed, pacing, restFaults>>

\* The limiter of the credential; a refusal gives the lease back.
AcquireLocal(r) ==
    LET p == PodOf(r)  c == Charged(r) IN
    /\ req[r].pc = "local"
    /\ \/ /\ Leaves(r) /\ leases' = [leases EXCEPT ![c] = @ \ {r}] /\ lapsed' = lapsed \ {r}
          /\ UNCHANGED <<credInFlight, queue>>
       \/ /\ credInFlight[p][c] < CredentialCap
          /\ credInFlight' = [credInFlight EXCEPT ![p][c] = @ + 1]
          /\ req' = [req EXCEPT ![r].pc = IF IsCollector(r) THEN "pace" ELSE "fetch"]
          /\ queue' = IF IsCollector(r) THEN [queue EXCEPT ![p][c] = Append(@, r)] ELSE queue
          /\ UNCHANGED <<inFlight, leases, lapsed>>
    /\ UNCHANGED <<second, measured, restFaults>>

\* waitForAdaptiveRestPacing: the head of the chain waits for the next second
\* while the measured cap is used up.
Pace(r) ==
    LET p == PodOf(r)  c == Using(r) IN
    /\ req[r].pc = "pace" /\ queue[p][c] # <<>> /\ Head(queue[p][c]) = r
    /\ measured[p][c] = 0 \/ second[p][c] < measured[p][c]
    /\ second[p][c] < MaxPerSecond
    /\ second' = [second EXCEPT ![p][c] = @ + 1]
    /\ queue' = [queue EXCEPT ![p][c] = Tail(@)]
    /\ req' = [req EXCEPT ![r].pc = "fetch", ![r].count = second[p][c] + 1]
    /\ UNCHANGED <<inFlight, credInFlight, leases, lapsed,
                   measured, restFaults>>

-----------------------------------------------------------------------------
\* runRest's finally: both limiters are released.  Redis may not get the release.
Releases(r) ==
    /\ credInFlight' = [credInFlight EXCEPT ![PodOf(r)][Charged(r)] = @ - 1]
    /\ lapsed' = lapsed \ {r}

Sent(r) == [req[r] EXCEPT !.fetches = @ + 1]

\* The broker answers, or the call fails or times out: the request is over.
Answered(r) ==
    /\ req[r].pc = "fetch" /\ Releases(r) /\ Leaves(r)
    /\ \/ leases' = [leases EXCEPT ![Charged(r)] = @ \ {r}] /\ UNCHANGED restFaults
       \/ RestFault /\ UNCHANGED leases
    /\ UNCHANGED <<pacing>>

\* The broker refuses the token: a collector's request is sent once more, with
\* whatever credential the supplier chooses now, still charged to the first one.
TokenRefused(r, c) ==
    LET p == PodOf(r) IN
    /\ req[r].pc = "fetch" /\ IsCollector(r) /\ ~req[r].retried /\ RestFault
    /\ req' = [req EXCEPT ![r] = [Sent(r) EXCEPT !.pc = "pace", !.cred = {c}, !.retried = TRUE]]
    /\ queue' = [queue EXCEPT ![p][c] = Append(@, r)]
    /\ UNCHANGED <<inFlight, credInFlight, leases, lapsed,
                   second, measured>>

\* noteAdaptiveRestRateLimit: one below the count that was refused, never below
\* one and never above an earlier measurement.
MeasuredAfter(old, count) ==
    LET cap == IF count > 1 THEN count - 1 ELSE 1
    IN  IF old # 0 /\ old < cap THEN old ELSE cap

\* The broker refuses by rate: another collector credential is tried, if there is
\* one that this request has not used.
RateRefused(r) ==
    LET p == PodOf(r) IN
    /\ req[r].pc = "fetch" /\ RestFault /\ Releases(r)
    /\ leases' = [leases EXCEPT ![Charged(r)] = @ \ {r}]
    /\ measured' = IF IsCollector(r)
                   THEN [measured EXCEPT ![p][Using(r)] = MeasuredAfter(@, req[r].count)]
                   ELSE measured
    /\ \/ /\ IsCollector(r) /\ req[r].attempt < MaxRestAttempts
          /\ \E c \in CollectorCreds \ req[r].tried :
               req' = [req EXCEPT ![r] = [Sent(r) EXCEPT
                         !.pc = "shared", !.cred = {c}, !.charged = {}, !.tried = @ \cup {c},
                         !.attempt = @ + 1, !.retried = FALSE]]
          /\ UNCHANGED inFlight
       \/ /\ ~IsCollector(r) \/ req[r].attempt >= MaxRestAttempts
             \/ CollectorCreds \subseteq req[r].tried
          /\ Leaves(r)
    /\ UNCHANGED <<queue, second>>

\* The next second.
Tick ==
    /\ second' = PerCred(0)
    /\ UNCHANGED <<req, inFlight, credInFlight, leases, lapsed, queue, measured, restFaults>>

\* A lease runs out: one that was left behind, or (a fault) of a request that is
\* slower than the TTL.
RestLeaseLapses(c, r) ==
    /\ r \in leases[c] /\ leases' = [leases EXCEPT ![c] = @ \ {r}]
    /\ IF req[r].charged = {c} THEN RestFault /\ lapsed' = lapsed \cup {r}
       ELSE UNCHANGED <<restFaults, lapsed>>
    /\ UNCHANGED <<req, inFlight, credInFlight, pacing>>

\* A pod dies: its limiters start afresh, its leases stay until they run out.
RestCrash(p) ==
    /\ RestFault
    /\ req' = [r \in Requests |-> IF PodOf(r) = p THEN NoRequest ELSE req[r]]
    /\ inFlight' = [inFlight EXCEPT ![p] = 0]
    /\ credInFlight' = [credInFlight EXCEPT ![p] = [c \in RestCreds |-> 0]]
    /\ queue' = [queue EXCEPT ![p] = [c \in RestCreds |-> <<>>]]
    /\ second' = [second EXCEPT ![p] = [c \in RestCreds |-> 0]]
    /\ measured' = [measured EXCEPT ![p] = [c \in RestCreds |-> 0]]
    /\ lapsed' = {r \in lapsed : PodOf(r) # p}
    /\ UNCHANGED leases

RequestStep(r) ==
    AcquireProcess(r) \/ AcquireShared(r) \/ AcquireLocal(r) \/ Pace(r) \/ Answered(r)

RestNext ==
    \/ \E r \in Requests :
         \/ \E p \in RestPods, c \in RestCreds : StartRequest(r, p, c)
         \/ \E c \in RestCreds : RestLeaseLapses(c, r)
         \/ \E c \in CollectorCreds : TokenRefused(r, c)
         \/ RequestStep(r) \/ RateRefused(r)
    \/ Tick
    \/ \E p \in RestPods : RestCrash(p)

\* Time passes and calls are answered or time out.
RestFairness == WF_restVars(Tick) /\ \A r \in Requests : WF_restVars(RequestStep(r))

RestSpec == RestInit /\ [][RestNext]_restVars /\ RestFairness

-----------------------------------------------------------------------------
\* Types of requests, limiters and pacing.
RestTypeOK ==
    /\ \A r \in Requests :
         /\ req[r].pc \in {"idle", "process", "shared", "local", "pace", "fetch"}
         /\ req[r].cred \subseteq RestCreds /\ req[r].attempt \in 0..MaxRestAttempts
    /\ inFlight \in [RestPods -> 0..ProcessCap]
    /\ credInFlight \in [RestPods -> [RestCreds -> 0..CredentialCap]]
    /\ \A c \in RestCreds : leases[c] \subseteq Requests
    /\ \A p \in RestPods, c \in RestCreds : measured[p][c] \in Nat /\ second[p][c] \in Nat

InRun(p) == {r \in Requests : PodOf(r) = p /\ req[r].pc \in {"shared", "local", "pace", "fetch"}}
InRest(p, c) == {r \in Requests : /\ PodOf(r) = p /\ req[r].charged = {c}
                                  /\ req[r].pc \in {"pace", "fetch"}}

\* Nothing leaks and nothing is released twice, along every refusal, retry and
\* failure: the counters of the limiters are the requests under way, and a
\* request holds its lease in Redis unless that lapsed.
LimitsConserved ==
    /\ \A p \in RestPods :
         /\ inFlight[p] = Cardinality(InRun(p))
         /\ \A c \in RestCreds : credInFlight[p][c] = Cardinality(InRest(p, c))
    /\ \A r \in Requests :
         req[r].charged # {} => r \in leases[Charged(r)] \/ r \in lapsed

\* Across the pods no more requests than the cap are under way with a credential,
\* except those whose lease lapsed and those that the retry with a fresh token
\* moved to it from another one.
CapAcrossPods ==
    \A c \in CollectorCreds \cup AccountCreds :
        Cardinality({r \in Requests \ lapsed : /\ req[r].pc = "fetch" /\ req[r].cred = {c}
                                               /\ req[r].charged = {c}}) <= CredentialCap

\* An order or any other call with an account's credential reaches the broker at
\* most once per request; a collector's call stays within its attempts.
SentOnce ==
    \A r \in Requests :
        /\ req[r].cred \subseteq AccountCreds => req[r].fetches = 0
        /\ req[r].fetches < 2 * MaxRestAttempts

\* The three: what the gate guarantees of every request.
GateSafe == LimitsConserved /\ CapAcrossPods /\ SentOnce

\* Every request ends: no pacing chain and no limiter keeps it for ever.
RequestsEnd == \A r \in Requests : req[r].pc # "idle" ~> req[r].pc = "idle"

==============================================================================
