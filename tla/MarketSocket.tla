----------------------------- MODULE MarketSocket -----------------------------
(***************************************************************************)
(* One market data stream of KiwoomBrokerageVendor over KiwoomWsClient:    *)
(* connectMarketDataStream (the task `first'), the reconnect loop that a   *)
(* close starts (the task `loop'), which may run while `first' still waits *)
(* for its LOGIN, and the caller's subscribe, unsubscribe and disconnect.  *)
(* The sends of one call go out in order and before those of a later call, *)
(* so that each call's frames are one step.                                *)
(***************************************************************************)
EXTENDS Naturals, FiniteSets

CONSTANTS
    StreamSymbols,
    MaxLoginFailures,   \* login failures in a row before the loop halts (3)
    MaxStreamFaults     \* bound: closes, refusals, timeouts, failing calls

ASSUME StreamAssumption == MaxLoginFailures \in Nat \ {0} /\ MaxStreamFaults \in Nat

VARIABLES
    socket,      \* [open, loginSent, loggedIn]: the client's socket and the login on it
    registered,  \* what the broker streams on that socket
    subscriptions, \* the vendor's own map, replayed after a reconnect
    known,       \* the caller's view: symbols whose subscribe call returned
    firstPc, loopPc, retried,  \* the two tasks; which of them logged in again with a new token
    flags,       \* subset of {"halted", "disconnected"}
    loginFailures,
    orphanGate,  \* a login gate nobody awaits: "none", "waiting", or "fired": its
                 \* rejection is unhandled and ends the process
    raced,       \* ghost: the caller disconnected while the loop was closing the old socket
    streamFaults

streamVars == <<socket, registered, subscriptions, known, firstPc, loopPc, retried, flags,
                loginFailures, orphanGate, raced, streamFaults>>

Tasks == {"first", "loop"}
Closed == [open |-> FALSE, loginSent |-> FALSE, loggedIn |-> FALSE]
Opened == [Closed EXCEPT !.open = TRUE]
Pc(t) == IF t = "first" THEN firstPc ELSE loopPc
Live == socket.open /\ socket.loggedIn

StreamInit ==
    /\ socket = Closed /\ registered = {} /\ subscriptions = {} /\ known = {}
    /\ firstPc = "connect" /\ loopPc = "none" /\ retried = {} /\ flags = {}
    /\ loginFailures = 0 /\ orphanGate = "none" /\ raced = FALSE /\ streamFaults = 0

StreamFault == streamFaults < MaxStreamFaults /\ streamFaults' = streamFaults + 1

\* Mutant: the loop goes on after the last failure it may have.
AttemptFailsOnceMore(tasks, isLogin) ==
    /\ firstPc' = IF "first" \in tasks THEN "failed" ELSE firstPc
    /\ IF "loop" \notin tasks THEN UNCHANGED <<loopPc, loginFailures, flags>>
       ELSE /\ loopPc' = "sleep" /\ UNCHANGED flags
            /\ loginFailures' = IF isLogin THEN loginFailures + 1 ELSE 0

\* What a failing attempt leaves behind.  The first connect throws to its
\* caller.  The loop counts login failures, halts at the limit, ends when the
\* caller disconnected and otherwise sleeps.
AttemptFails(tasks, isLogin) ==
    /\ firstPc' = IF "first" \in tasks THEN "failed" ELSE firstPc
    /\ IF "loop" \notin tasks THEN UNCHANGED <<loopPc, loginFailures, flags>>
       ELSE LET n == IF isLogin THEN loginFailures + 1 ELSE 0
            IN  IF n >= MaxLoginFailures
                THEN /\ loopPc' = "none" /\ loginFailures' = n
                     /\ flags' = flags \cup {"halted"}
                ELSE /\ loopPc' = IF "disconnected" \in flags THEN "none" ELSE "sleep"
                     /\ loginFailures' = n /\ UNCHANGED flags

Moves(t, pc) ==
    /\ firstPc' = IF t = "first" THEN pc ELSE firstPc
    /\ loopPc' = IF t = "loop" THEN pc ELSE loopPc

-----------------------------------------------------------------------------
\* wsClient.connect, of either task; performLogin then asks for a token.
ConnectSocket(t) ==
    /\ Pc(t) = "connect" /\ ~socket.open
    /\ socket' = Opened /\ registered' = {} /\ Moves(t, "token")
    /\ retried' = retried \ {t}
    /\ UNCHANGED <<subscriptions, known, flags, loginFailures, orphanGate, raced, streamFaults>>

\* The connect is refused or times out, or the token cannot be had.
ConnectFails(t) ==
    /\ Pc(t) \in {"connect", "token"} /\ StreamFault
    /\ AttemptFails({t}, FALSE)
    /\ UNCHANGED <<socket, registered, subscriptions, known, retried, orphanGate, raced>>

\* sendLoginAndWait: the gate, then the LOGIN frame, which a closed socket
\* refuses: the gate stays behind with nobody awaiting it.
SendLogin(t) ==
    /\ Pc(t) = "token"
    /\ IF socket.open
       THEN /\ socket' = [socket EXCEPT !.loginSent = TRUE] /\ Moves(t, "login")
            /\ UNCHANGED <<flags, loginFailures, orphanGate>>
       ELSE AttemptFails({t}, FALSE) /\ orphanGate' = "waiting" /\ UNCHANGED socket
    /\ UNCHANGED <<registered, subscriptions, known, retried, raced, streamFaults>>

\* installLoginAckGate: a LOGIN frame settles the gates of both tasks.
Gated == {t \in Tasks : Pc(t) = "login"}

LoginAcked ==
    /\ socket.open /\ socket.loginSent /\ Gated # {}
    /\ socket' = [socket EXCEPT !.loggedIn = TRUE, !.loginSent = FALSE]
    /\ firstPc' = IF "first" \in Gated THEN "delay" ELSE firstPc
    /\ loopPc' = IF "loop" \in Gated THEN "delay" ELSE loopPc
    /\ orphanGate' = "none"
    /\ UNCHANGED <<registered, subscriptions, known, retried, flags, loginFailures, raced,
                   streamFaults>>

\* The broker refuses.  refreshWsLoginToken logs in once more when it is the
\* token that was refused and another one is to be had.
LoginRefused ==
    /\ socket.open /\ socket.loginSent /\ Gated # {} /\ StreamFault
    /\ socket' = [socket EXCEPT !.loginSent = FALSE]
    /\ orphanGate' = IF orphanGate = "waiting" THEN "fired" ELSE orphanGate
    /\ \/ AttemptFails(Gated, TRUE) /\ UNCHANGED retried
       \/ /\ Gated \cap retried = {} /\ retried' = retried \cup Gated
          /\ firstPc' = IF "first" \in Gated THEN "token" ELSE firstPc
          /\ loopPc' = IF "loop" \in Gated THEN "token" ELSE loopPc
          /\ UNCHANGED <<flags, loginFailures>>
    /\ UNCHANGED <<registered, subscriptions, known, raced>>

\* No LOGIN frame comes: the gate's timer.
LoginTimesOut(t) ==
    /\ Pc(t) = "login" /\ (socket.loginSent => StreamFault)
    /\ (~socket.loginSent => UNCHANGED streamFaults)
    /\ AttemptFails({t}, TRUE)
    /\ UNCHANGED <<socket, registered, subscriptions, known, retried, orphanGate, raced>>

\* The timer of a gate nobody awaits.
OrphanFires ==
    /\ orphanGate = "waiting" /\ orphanGate' = "fired"
    /\ UNCHANGED <<socket, registered, subscriptions, known, firstPc, loopPc, retried, flags,
                   loginFailures, raced, streamFaults>>

\* The first connect returns after its post-login delay.
FirstDone ==
    /\ firstPc = "delay" /\ firstPc' = "done"
    /\ UNCHANGED <<socket, registered, subscriptions, known, loopPc, retried, flags,
                   loginFailures, orphanGate, raced, streamFaults>>

\* Mutant: the map is not sent to the new socket.
ReplayNothing ==
    /\ loopPc = "delay" /\ loopPc' = "none" /\ loginFailures' = 0
    /\ UNCHANGED <<socket, registered, subscriptions, known, firstPc, retried, flags, orphanGate,
                   raced, streamFaults>>

\* replaySubscriptions: nothing is sent, and nothing can fail, when there are none.
Replay ==
    /\ loopPc = "delay"
    /\ IF subscriptions = {} \/ socket.open
       THEN /\ registered' = IF socket.open THEN registered \cup subscriptions ELSE {}
            /\ loopPc' = "none" /\ loginFailures' = 0 /\ UNCHANGED <<firstPc, flags>>
       ELSE AttemptFails({"loop"}, FALSE) /\ UNCHANGED registered
    /\ UNCHANGED <<socket, subscriptions, known, retried, orphanGate, raced, streamFaults>>

\* scheduleReconnect after the delay: close what is left, then connect.
LoopWakes ==
    /\ loopPc = "sleep"
    /\ loopPc' = IF "disconnected" \in flags THEN "none"
                 ELSE IF socket.open THEN "closing" ELSE "connect"
    /\ socket' = IF "disconnected" \in flags THEN socket ELSE Closed
    /\ registered' = IF "disconnected" \in flags THEN registered ELSE {}
    /\ UNCHANGED <<subscriptions, known, firstPc, retried, flags, loginFailures, orphanGate, raced,
                   streamFaults>>

OldSocketClosed ==
    /\ loopPc = "closing" /\ loopPc' = "connect"
    /\ UNCHANGED <<socket, registered, subscriptions, known, firstPc, retried, flags,
                   loginFailures, orphanGate, raced, streamFaults>>

-----------------------------------------------------------------------------
\* The onClose handler of connectMarketDataStream.
OnClose ==
    /\ socket' = Closed /\ registered' = {}
    /\ loopPc' = IF flags = {} /\ loopPc = "none" THEN "sleep" ELSE loopPc

\* The broker or the network closes the socket.
SocketLost ==
    /\ socket.open /\ StreamFault /\ OnClose
    /\ UNCHANGED <<subscriptions, known, firstPc, retried, flags, loginFailures, orphanGate, raced>>

\* SYSTEM R10001: another session has the key.  The broker then closes.
KickedOut ==
    /\ Live /\ StreamFault
    /\ flags' = flags \cup {"halted"}
    /\ socket' = Closed /\ registered' = {}
    /\ UNCHANGED <<subscriptions, known, firstPc, loopPc, retried, loginFailures, orphanGate, raced>>

\* subscribeMarketData: refused without a login; the map is written before the
\* send, which may find the socket closing.
Subscribe(symbols) ==
    /\ firstPc = "done" /\ "disconnected" \notin flags /\ Live
    /\ subscriptions' = subscriptions \cup symbols
    /\ \/ /\ registered' = registered \cup symbols /\ known' = known \cup symbols
          /\ UNCHANGED <<socket, loopPc, streamFaults>>
       \/ StreamFault /\ OnClose /\ UNCHANGED known
    /\ UNCHANGED <<firstPc, retried, flags, loginFailures, orphanGate, raced>>

\* unsubscribeMarketData: on a closed socket it returns at once, the map as it was.
Unsubscribe(symbols) ==
    /\ firstPc = "done" /\ "disconnected" \notin flags
    /\ known' = known \ symbols
    /\ IF socket.open
       THEN subscriptions' = subscriptions \ symbols /\ registered' = registered \ symbols
       ELSE UNCHANGED <<subscriptions, registered>>
    /\ UNCHANGED <<socket, firstPc, loopPc, retried, flags, loginFailures, orphanGate, raced, streamFaults>>

\* disconnectMarketDataStream, of a caller that has the vendor.  A connect in
\* flight is aborted.
Disconnect ==
    /\ firstPc = "done" /\ "disconnected" \notin flags
    /\ flags' = {"disconnected"} /\ loginFailures' = 0
    /\ socket' = Closed /\ registered' = {} /\ subscriptions' = {} /\ known' = {}
    /\ raced' = (loopPc = "closing")
    /\ loopPc' = IF loopPc = "connect" THEN "none" ELSE loopPc
    /\ UNCHANGED <<firstPc, retried, orphanGate, streamFaults>>

TaskStep ==
    \/ OrphanFires
    \/ \E t \in Tasks : ConnectSocket(t) \/ SendLogin(t)
                        \/ (LoginTimesOut(t) /\ UNCHANGED streamFaults)
    \/ LoginAcked \/ FirstDone \/ Replay \/ LoopWakes \/ OldSocketClosed

StreamNext ==
    /\ orphanGate # "fired"
    /\ \/ \E t \in Tasks : ConnectSocket(t) \/ ConnectFails(t) \/ SendLogin(t) \/ LoginTimesOut(t)
       \/ LoginAcked \/ LoginRefused \/ OrphanFires
       \/ FirstDone \/ Replay \/ LoopWakes \/ OldSocketClosed
       \/ SocketLost \/ KickedOut \/ Disconnect
       \/ \E s \in StreamSymbols : Subscribe({s}) \/ Unsubscribe({s})

\* Timers fire and the broker answers.
StreamFairness == WF_streamVars(orphanGate # "fired" /\ TaskStep)

StreamSpec == StreamInit /\ [][StreamNext]_streamVars /\ StreamFairness

-----------------------------------------------------------------------------
\* Types of the stream.
StreamTypeOK ==
    /\ socket \in [open: BOOLEAN, loginSent: BOOLEAN, loggedIn: BOOLEAN]
    /\ registered \subseteq StreamSymbols /\ known \subseteq StreamSymbols
    /\ subscriptions \subseteq StreamSymbols
    /\ firstPc \in {"connect", "token", "login", "delay", "done", "failed"}
    /\ loopPc \in {"none", "sleep", "closing", "connect", "token", "login", "delay"}
    /\ retried \subseteq Tasks /\ flags \subseteq {"halted", "disconnected"}
    /\ loginFailures \in 0..MaxLoginFailures /\ raced \in BOOLEAN
    /\ orphanGate \in {"none", "waiting", "fired"}
    /\ streamFaults \in 0..MaxStreamFaults

\* What the caller was told is subscribed survives every reconnect: it is in the
\* map that is replayed, and once no reconnect is under way the broker streams
\* exactly that map.
SubscriptionsSurvive ==
    /\ "disconnected" \notin flags => known \subseteq subscriptions
    /\ Live /\ loopPc = "none" => registered = subscriptions

\* A lost stream with subscriptions is given up only when the credential was
\* taken by another session or keeps being refused.  (Without subscriptions a
\* close during the post-login delay goes unnoticed.)
LostStreamIsRetried ==
    subscriptions # {} /\ ~Live /\ flags = {} => loopPc # "none"

\* After the caller's disconnect no session of this vendor comes back, unless the
\* loop was just then waiting for the old socket to close.
DisconnectHolds == "disconnected" \in flags /\ socket.open => raced

\* The three: what the caller may rely on across reconnects.
StreamSafe == SubscriptionsSurvive /\ LostStreamIsRetried /\ DisconnectHolds

\* The stream comes back with everything subscribed, or was given up.
StreamSettles ==
    <>[](\/ orphanGate = "fired" \/ flags # {} \/ firstPc = "failed" \/ subscriptions = {}
         \/ (Live /\ known \subseteq registered))

==============================================================================
