------------------------------ MODULE MCBrokerage ------------------------------
(***************************************************************************)
(* The worker's dealings with the broker on a small instance: the tracker's *)
(* execution sockets and account pull, the gate every REST call passes and *)
(* the pool of collector credentials.  They share no variable here, so     *)
(* `focus' chooses at the start which of them acts (see MCPipeline).         *)
(***************************************************************************)
EXTENDS ExecutionSockets, AccountSync, RestGate, CredentialPool

VARIABLE focus

brokerageVars == <<socketVars, accountVars, restVars, poolVars, focus>>

\* Calls 1 and 2 run in pod 1, 3 and 4 in pod 2.
MCCallPod(x) == (x + 1) \div 2

BrokerageInit ==
    /\ focus \in {"sockets", "account", "rest", "pool"}
    /\ SocketInit /\ AccountInit /\ RestInit /\ PoolInit

BrokerageNext ==
    /\ UNCHANGED focus
    /\ \/ focus = "sockets" /\ SocketNext /\ UNCHANGED <<accountVars, restVars, poolVars>>
       \/ focus = "account" /\ AccountNext /\ UNCHANGED <<socketVars, restVars, poolVars>>
       \/ focus = "rest" /\ RestNext /\ UNCHANGED <<socketVars, accountVars, poolVars>>
       \/ focus = "pool" /\ PoolNext /\ UNCHANGED <<socketVars, accountVars, restVars>>

\* The fairness of the component that acts.
BrokerageFairness ==
    /\ WF_socketVars(focus = "sockets" /\ LeaseExpires /\ UNCHANGED socketFaults)
    /\ \A p \in Trackers :
         /\ WF_socketVars(focus = "sockets" /\ RefreshStep(p))
         /\ WF_socketVars(focus = "sockets" /\ SyncStep(p))
         /\ WF_socketVars(focus = "sockets" /\ CloseStep(p))
         /\ WF_socketVars(focus = "sockets" /\ BackoffEnds(p))
    /\ \A i \in SyncSlots :
         /\ WF_accountVars(focus = "account" /\ PositionSync(i))
         /\ WF_accountVars(focus = "account" /\ BalanceSync(i))
    /\ WF_restVars(focus = "rest" /\ Tick)
    /\ \A r \in Requests : WF_restVars(focus = "rest" /\ RequestStep(r))

BrokerageSpec == BrokerageInit /\ [][BrokerageNext]_brokerageVars /\ BrokerageFairness

\* Types of the four components.
BrokerageTypeOK == SocketTypeOK /\ AccountTypeOK /\ RestTypeOK /\ PoolTypeOK

\* Whichever component acts, it settles: the sockets converge, the picture of the
\* account does, and every request ends.
BrokerageSettles ==
    /\ (focus = "sockets") => SocketsConverge
    /\ (focus = "account") => PictureSettles
    /\ RequestsEnd

==============================================================================
