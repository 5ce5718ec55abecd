---------------------------- MODULE CredentialPool ----------------------------
(***************************************************************************)
(* The collectors' credentials: the runtime state in the database          *)
(* (CollectorCredentialLimitRepository), the selection of a credential     *)
(* (CredentialSourceService), the cooldown and the access tokens in each   *)
(* pod's memory (CredentialCooldownService, AccessTokenCacheService), and  *)
(* the REST calls and WS logins that report how they went.  What a call    *)
(* learnt is recorded some time after the broker answered.                 *)
(***************************************************************************)
EXTENDS Naturals, FiniteSets

CONSTANTS
    Keys, BadKeys,     \* credentials, and those the broker does not accept
    PoolPods, PoolCalls, CallPod(_),  \* calls that may overlap, and where they run
    Tokens,            \* tokens are numbers, in the order of issue
    MaxPoolFaults      \* bound: limits, dropped tokens, failing token requests

ASSUME PoolAssumption ==
    /\ BadKeys \subseteq Keys /\ Tokens \subseteq Nat /\ MaxPoolFaults \in Nat
    /\ \A x \in PoolCalls : CallPod(x) \in PoolPods

VARIABLES
    state,      \* database: [key -> [REST, WS -> [status, cooldown]]]
    cooling,    \* in memory: keys each pod keeps out for a while
    cache,      \* in memory: [pod -> [key -> token or 0]]
    issuing,    \* in memory: [pod -> [key -> "none", "refresh" or "issue"]]
    issued,     \* broker: the last token issued for each key
    valid,      \* broker: keys whose last token is accepted
    dropped,    \* ghost: keys whose token the broker dropped before its time
    call,       \* each call: [pc, endpoint, key, token, retry, outcome]
    poolFaults

poolVars == <<state, cooling, cache, issuing, issued, valid, dropped, call, poolFaults>>

Endpoints == {"REST", "WS"}
Fresh == [status |-> "active", cooldown |-> "none"]
NoPoolCall == [pc |-> "idle", endpoint |-> "REST", key |-> {}, token |-> 0, retry |-> FALSE,
               outcome |-> "none"]

PoolInit ==
    /\ state = [k \in Keys |-> [e \in Endpoints |-> Fresh]]
    /\ cooling = [p \in PoolPods |-> {}]
    /\ cache = [p \in PoolPods |-> [k \in Keys |-> 0]]
    /\ issuing = [p \in PoolPods |-> [k \in Keys |-> "none"]]
    /\ issued = [k \in Keys |-> 0] /\ valid = {} /\ dropped = {}
    /\ call = [x \in PoolCalls |-> NoPoolCall]
    /\ poolFaults = 0

PoolFault == poolFaults < MaxPoolFaults /\ poolFaults' = poolFaults + 1
memory == <<cooling, cache, issuing>>
broker == <<issued, valid, dropped>>
KeyOf(x) == CHOOSE k \in call[x].key : TRUE

-----------------------------------------------------------------------------
\* collectorExclusionReason and collectorPriority: a limited credential counts as
\* good again once its cooldown is past; what is limited without a cooldown comes last.
Usable(p, k, e) ==
    k \notin cooling[p] /\ state[k][e].cooldown # "pending" /\ state[k][e].status # "authFailed"
Preferred(p, e) ==
    {k \in Keys : Usable(p, k, e) /\ (state[k][e].status = "active" \/ state[k][e].cooldown = "past")}
Selectable(p, e) ==
    IF Preferred(p, e) # {} THEN Preferred(p, e) ELSE {k \in Keys : Usable(p, k, e)}

\* selectCollectorCredential goes round the eligible ones.
SelectKey(x, e) ==
    /\ call[x].pc = "idle"
    /\ \E k \in Selectable(CallPod(x), e) :
         call' = [call EXCEPT ![x] = [NoPoolCall EXCEPT !.pc = "token", !.endpoint = e, !.key = {k}]]
    /\ UNCHANGED <<state, memory, broker, poolFaults>>

\* getAccessToken: from the cache, or from the one request under way for the key.
\* A cached token near its end is renewed, and no longer handed out.
GetToken(x) ==
    LET p == CallPod(x)  k == KeyOf(x) IN
    /\ call[x].pc = "token"
    /\ IF cache[p][k] # 0 /\ issuing[p][k] # "refresh"
       THEN /\ call' = [call EXCEPT ![x].pc = "call", ![x].token = cache[p][k]]
            /\ UNCHANGED issuing
       ELSE /\ call' = [call EXCEPT ![x].pc = "wait"]
            /\ issuing' = [issuing EXCEPT ![p][k] = IF @ = "none" THEN "issue" ELSE @]
    /\ UNCHANGED <<state, cooling, cache, broker, poolFaults>>

RenewToken(x) ==
    LET p == CallPod(x)  k == KeyOf(x) IN
    /\ call[x].pc = "token" /\ cache[p][k] # 0 /\ issuing[p][k] = "none" /\ PoolFault
    /\ issuing' = [issuing EXCEPT ![p][k] = "refresh"]
    /\ call' = [call EXCEPT ![x].pc = "wait"]
    /\ UNCHANGED <<state, cooling, cache, broker>>

Waiting(p, k) == {x \in PoolCalls : CallPod(x) = p /\ call[x].pc = "wait" /\ call[x].key = {k}}

\* markSuccess of a token: lifts AUTH_FAILED from both endpoints.
TokenSuccess(k) ==
    IF \E e \in Endpoints : state[k][e].status = "authFailed"
    THEN [state EXCEPT ![k] = [e \in Endpoints |-> Fresh]] ELSE state

\* issueOrRefresh succeeds: the token is cached, recorded and handed to all who wait.
TokenIssued(p, k) ==
    /\ issuing[p][k] # "none" /\ k \notin BadKeys /\ issued[k] + 1 \in Tokens
    /\ issuing' = [issuing EXCEPT ![p][k] = "none"]
    /\ issued' = [issued EXCEPT ![k] = @ + 1] /\ valid' = valid \cup {k}
    /\ cache' = [cache EXCEPT ![p][k] = issued[k] + 1]
    /\ state' = TokenSuccess(k)
    /\ call' = [x \in PoolCalls |->
         IF x \in Waiting(p, k) THEN [call[x] EXCEPT !.pc = "call", !.token = issued[k] + 1]
         ELSE call[x]]
    /\ UNCHANGED <<cooling, dropped, poolFaults>>

\* Mutant: a limit replaces whatever the endpoint's status was.
LimitedAnyway(s) == [status |-> "limited", cooldown |-> "pending"]

\* The broker says no, or does not answer.  After a refresh a fresh issue is
\* tried; then the key is kept out of this pod for a while, a rate limit is
\* recorded for REST, a refusal of the key for both endpoints.
Limited(s) == [status |-> IF s.status = "authFailed" THEN s.status ELSE "limited",
               cooldown |-> IF s.status = "authFailed" THEN s.cooldown ELSE "pending"]
Refused == [status |-> "authFailed", cooldown |-> "none"]

TokenFails(p, k, why) ==
    /\ issuing[p][k] # "none"
    /\ IF why = "refused" THEN k \in BadKeys /\ UNCHANGED poolFaults ELSE PoolFault
    /\ IF issuing[p][k] = "refresh"
       THEN /\ issuing' = [issuing EXCEPT ![p][k] = "issue"] /\ cache' = [cache EXCEPT ![p][k] = 0]
            /\ UNCHANGED <<state, cooling, call>>
       ELSE /\ issuing' = [issuing EXCEPT ![p][k] = "none"]
            /\ cooling' = [cooling EXCEPT ![p] = @ \cup {k}]
            /\ state' = CASE why = "refused" -> [state EXCEPT ![k] = [e \in Endpoints |-> Refused]]
                          [] why = "limited" -> [state EXCEPT ![k]["REST"] = Limited(@)]
                          [] OTHER -> state
            /\ call' = [x \in PoolCalls |->
                 IF x \in Waiting(p, k) THEN NoPoolCall ELSE call[x]]
            /\ UNCHANGED cache
    /\ UNCHANGED broker

-----------------------------------------------------------------------------
Accepted(x) == KeyOf(x) \in valid /\ call[x].token = issued[KeyOf(x)]

\* The broker answers the call.  A limit may come at any time.
BrokerAnswers(x, outcome) ==
    /\ call[x].pc = "call"
    /\ CASE outcome = "ok" -> Accepted(x) /\ UNCHANGED poolFaults
         [] outcome = "limited" -> Accepted(x) /\ PoolFault
         [] outcome = "refused" -> ~Accepted(x) /\ UNCHANGED poolFaults
    /\ call' = [call EXCEPT ![x].pc = "answered", ![x].outcome = outcome]
    /\ UNCHANGED <<state, memory, broker>>

\* Mutant: the refused token stays in the cache.
RetryWithCachedToken(x) ==
    LET p == CallPod(x) IN
    /\ call[x].pc = "answered" /\ call[x].outcome = "refused" /\ ~call[x].retry
    /\ \E k \in IF call[x].endpoint = "WS" THEN call[x].key ELSE Selectable(p, "REST") :
         call' = [call EXCEPT ![x] = [NoPoolCall EXCEPT !.pc = "token", !.key = {k}, !.retry = TRUE,
                                                       !.endpoint = call[x].endpoint]]
    /\ UNCHANGED <<state, memory, broker, poolFaults>>

\* A refused token is forgotten and the call made once more: a REST call with the
\* credential the selection gives now, a WS login with its own.
RetryWithFreshToken(x) ==
    LET p == CallPod(x) IN
    /\ call[x].pc = "answered" /\ call[x].outcome = "refused" /\ ~call[x].retry
    /\ cache' = [cache EXCEPT ![p][KeyOf(x)] = 0]
    /\ \E k \in IF call[x].endpoint = "WS" THEN call[x].key ELSE Selectable(p, "REST") :
         call' = [call EXCEPT ![x] = [NoPoolCall EXCEPT !.pc = "token", !.key = {k}, !.retry = TRUE,
                                                       !.endpoint = call[x].endpoint]]
    /\ UNCHANGED <<state, cooling, issuing, broker, poolFaults>>

\* recordSuccess, recordFailedResponse, recordWsLoginFailure: one statement.
Blamed(x) == KeyOf(x)
RecordOutcome(x) ==
    LET k == Blamed(x)  e == call[x].endpoint IN
    /\ call[x].pc = "answered" /\ (call[x].outcome = "refused" => call[x].retry)
    /\ state' = CASE call[x].outcome = "ok" ->
                       IF state[k][e].status = "limited" THEN [state EXCEPT ![k][e] = Fresh] ELSE state
                  [] call[x].outcome = "limited" -> [state EXCEPT ![k][e] = Limited(@)]
                  [] call[x].outcome = "refused" -> [state EXCEPT ![k][e] = Refused]
    /\ call' = [call EXCEPT ![x] = NoPoolCall]
    /\ UNCHANGED <<memory, broker, poolFaults>>

\* A cooldown runs out.
CooldownEnds(k, e) ==
    /\ state[k][e].cooldown = "pending" /\ state' = [state EXCEPT ![k][e].cooldown = "past"]
    /\ UNCHANGED <<memory, broker, call, poolFaults>>

MemoryCooldownEnds(p, k) ==
    /\ k \in cooling[p] /\ cooling' = [cooling EXCEPT ![p] = @ \ {k}]
    /\ UNCHANGED <<state, cache, issuing, broker, call, poolFaults>>

\* The broker drops the tokens of some keys before their time.
TokensDropped(ks) ==
    /\ ks # {} /\ ks \subseteq valid /\ PoolFault
    /\ valid' = valid \ ks /\ dropped' = dropped \cup ks
    /\ UNCHANGED <<state, memory, issued, call>>

\* A pod restarts with an empty memory.
PoolRestart(p) ==
    /\ PoolFault
    /\ cooling' = [cooling EXCEPT ![p] = {}]
    /\ cache' = [cache EXCEPT ![p] = [k \in Keys |-> 0]]
    /\ issuing' = [issuing EXCEPT ![p] = [k \in Keys |-> "none"]]
    /\ call' = [x \in PoolCalls |-> IF CallPod(x) = p THEN NoPoolCall ELSE call[x]]
    /\ UNCHANGED <<state, broker>>

PoolNext ==
    \/ \E x \in PoolCalls :
         \/ \E e \in Endpoints : SelectKey(x, e)
         \/ GetToken(x) \/ RenewToken(x) \/ RetryWithFreshToken(x) \/ RecordOutcome(x)
         \/ \E o \in {"ok", "limited", "refused"} : BrokerAnswers(x, o)
    \/ \E p \in PoolPods, k \in Keys :
         \/ TokenIssued(p, k) \/ MemoryCooldownEnds(p, k)
         \/ \E why \in {"refused", "limited", "down"} : TokenFails(p, k, why)
    \/ \E k \in Keys, e \in Endpoints : CooldownEnds(k, e)
    \/ \E ks \in SUBSET Keys : TokensDropped(ks)
    \/ \E p \in PoolPods : PoolRestart(p)

PoolSpec == PoolInit /\ [][PoolNext]_poolVars

-----------------------------------------------------------------------------
\* Types of the pool.
PoolTypeOK ==
    /\ state \in [Keys -> [Endpoints -> [status: {"active", "limited", "authFailed"},
                                         cooldown: {"none", "pending", "past"}]]]
    /\ \A p \in PoolPods : /\ cooling[p] \subseteq Keys
                           /\ \A k \in Keys : cache[p][k] \in Tokens \cup {0}
    /\ valid \subseteq Keys /\ dropped \subseteq Keys
    /\ \A x \in PoolCalls : call[x].pc \in {"idle", "token", "wait", "call", "answered"}

\* A credential that the broker accepts is marked refused only after the broker
\* dropped a token of it or issued a second one, and for the socket only after two
\* tokens were tried: no failure is charged to another credential.
BlameIsDeserved ==
    \A k \in Keys \ BadKeys :
        /\ state[k]["REST"].status = "authFailed" => k \in dropped \/ issued[k] > 1
        /\ state[k]["WS"].status = "authFailed" => issued[k] > 1

\* A refused credential stays out until a token was issued for it: no late success
\* and no late limit of a call that overlapped brings it back.
AuthFailedIsSticky ==
    [][\A k \in Keys, e \in Endpoints :
         state[k][e].status = "authFailed" /\ state'[k][e].status # "authFailed"
         => issued'[k] > issued[k]]_poolVars

==============================================================================
