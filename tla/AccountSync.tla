----------------------------- MODULE AccountSync -----------------------------
(***************************************************************************)
(* The tracker's pull of one account: AccountPositionService.syncOne and   *)
(* AccountBalanceService.syncOne, each started by an interval that does    *)
(* not wait for the run before.  A position sync stores the broker's       *)
(* positions, opens a manual book for a holding that has none and keeps    *)
(* one demand lease per held symbol in Redis, from which the collectors    *)
(* learn what to subscribe.  The hint it publishes with a changed lease    *)
(* only starts a collector's refresh earlier, and module Universe lets     *)
(* that start at any time.                                                 *)
(***************************************************************************)
EXTENDS Naturals, FiniteSets

CONSTANTS
    HeldSymbols,      \* symbols the account may hold
    SyncSlots,        \* syncs that may overlap
    UnknownStocks,    \* symbols missing from the stock table
    MaxTrades,        \* bound: changes of the account at the broker
    MaxSyncFaults     \* bound: failing calls and lapsing leases

ASSUME AccountSyncAssumption ==
    UnknownStocks \subseteq HeldSymbols /\ MaxTrades \in Nat /\ MaxSyncFaults \in Nat

VARIABLES
    holding,      \* symbols the account holds at the broker
    syncRun,      \* each position sync: step, what it fetched, what is left of the step
    positionRows, \* account_positions rows
    books,        \* symbols with a position_book row
    demandLease,  \* demand lease keys in Redis
    balanceRun,   \* each balance sync: the version it fetched, 0 when idle
    balanceRow,   \* the stored balance's version, 0 before the first
    trades, syncFaults

accountVars == <<holding, syncRun, positionRows, books, demandLease, balanceRun, balanceRow,
                 trades, syncFaults>>
positionVars == <<syncRun, positionRows, books, demandLease>>

SyncIdle == [pc |-> "idle", held |-> {}, todo |-> {}]

AccountInit ==
    /\ holding = {}
    /\ syncRun = [i \in SyncSlots |-> SyncIdle]
    /\ positionRows = {} /\ books = {} /\ demandLease = {}
    /\ balanceRun = [i \in SyncSlots |-> 0] /\ balanceRow = 0
    /\ trades = 0 /\ syncFaults = 0

\* The broker's account at this moment, as a version number.
BalanceNow == trades + 1

\* The account trades: a holding appears or disappears.  A fill the tracker
\* records keeps the symbol's book, under the lock EnsureBook takes; a trade
\* made elsewhere leaves the books alone.
Trade(s) ==
    /\ trades < MaxTrades /\ trades' = trades + 1
    /\ holding' = IF s \in holding THEN holding \ {s} ELSE holding \cup {s}
    /\ books' \in {books, books \cup {s}}
    /\ UNCHANGED <<syncRun, positionRows, demandLease, balanceRun, balanceRow, syncFaults>>

\* Go on with the set `todo' of a step, or with the next step once it is empty.
Proceed(i, todo, next, nextTodo) ==
    syncRun' = [syncRun EXCEPT
        ![i].pc = IF todo = {} THEN next ELSE @,
        ![i].todo = IF todo = {} THEN nextTodo ELSE todo]

\* getPositionsForAccount.
FetchPositions(i) ==
    /\ syncRun[i].pc = "idle"
    /\ syncRun' = [syncRun EXCEPT ![i] =
         [pc |-> IF holding = {} THEN "scan" ELSE "upsert", held |-> holding, todo |-> holding]]
    /\ UNCHANGED <<holding, positionRows, books, demandLease, balanceRun, balanceRow, trades, syncFaults>>

\* upsertMany, row by row; the row of a symbol sold since stays.  The insert of
\* a row another sync inserted meanwhile violates the unique key: SyncFails.
UpsertPosition(i, s) ==
    /\ syncRun[i].pc = "upsert" /\ s \in syncRun[i].todo
    /\ positionRows' = positionRows \cup {s}
    /\ Proceed(i, syncRun[i].todo \ {s}, "books", syncRun[i].held)
    /\ UNCHANGED <<holding, books, demandLease, balanceRun, balanceRow, trades, syncFaults>>

\* ensureManualPositionBooks: one transaction per symbol under the account and
\* stock advisory lock; nothing is opened where any book exists.
EnsureBook(i, s) ==
    /\ syncRun[i].pc = "books" /\ s \in syncRun[i].todo
    /\ books' = IF s \in UnknownStocks THEN books ELSE books \cup {s}
    /\ Proceed(i, syncRun[i].todo \ {s}, "scan", {})
    /\ UNCHANGED <<holding, positionRows, demandLease, balanceRun, balanceRow, trades, syncFaults>>

\* Mutant: the leases of symbols no longer held are left alone.
ScanFindsNothing(i) ==
    /\ syncRun[i].pc = "scan"
    /\ syncRun' = [syncRun EXCEPT ![i].pc = "del", ![i].todo = {}]
    /\ UNCHANGED <<holding, positionRows, books, demandLease, balanceRun, balanceRow, trades, syncFaults>>

\* refreshHeldSymbolDemandLeases: SCAN, for the keys of symbols not held (any more).
ScanLeases(i) ==
    /\ syncRun[i].pc = "scan"
    /\ syncRun' = [syncRun EXCEPT ![i].pc = "del", ![i].todo = demandLease \ syncRun[i].held]
    /\ UNCHANGED <<holding, positionRows, books, demandLease, balanceRun, balanceRow, trades, syncFaults>>

\* DEL of those, one by one.
DeleteLeases(i) ==
    /\ syncRun[i].pc = "del"
    /\ IF syncRun[i].todo = {}
       THEN /\ syncRun' = [syncRun EXCEPT ![i].pc = "set", ![i].todo = syncRun[i].held]
            /\ UNCHANGED demandLease
       ELSE \E s \in syncRun[i].todo :
            /\ demandLease' = demandLease \ {s}
            /\ syncRun' = [syncRun EXCEPT ![i].todo = @ \ {s}]
    /\ UNCHANGED <<holding, positionRows, books, balanceRun, balanceRow, trades, syncFaults>>

\* SET EX of every held symbol; then the sync is over.
SetLeases(i) ==
    /\ syncRun[i].pc = "set"
    /\ IF syncRun[i].todo = {}
       THEN syncRun' = [syncRun EXCEPT ![i] = SyncIdle] /\ UNCHANGED demandLease
       ELSE \E s \in syncRun[i].todo :
            /\ demandLease' = demandLease \cup {s}
            /\ syncRun' = [syncRun EXCEPT ![i].todo = @ \ {s}]
    /\ UNCHANGED <<holding, positionRows, books, balanceRun, balanceRow, trades, syncFaults>>

\* getAccountBalanceForAccount.
FetchBalance(i) ==
    /\ balanceRun[i] = 0
    /\ balanceRun' = [balanceRun EXCEPT ![i] = BalanceNow]
    /\ UNCHANGED <<holding, positionVars, balanceRow, trades, syncFaults>>

\* repo.upsert: the last writer wins, whatever it fetched when.
StoreBalance(i) ==
    /\ balanceRun[i] > 0
    /\ balanceRow' = balanceRun[i]
    /\ balanceRun' = [balanceRun EXCEPT ![i] = 0]
    /\ UNCHANGED <<holding, positionVars, trades, syncFaults>>

\* A lease's TTL runs out before the next sync renews it.
LeaseLapses(s) ==
    /\ s \in demandLease /\ syncFaults < MaxSyncFaults
    /\ syncFaults' = syncFaults + 1
    /\ demandLease' = demandLease \ {s}
    /\ UNCHANGED <<holding, syncRun, positionRows, books, balanceRun, balanceRow, trades>>

\* A call throws: the sync of this account ends where it is.
SyncFails(i) ==
    /\ syncFaults < MaxSyncFaults /\ syncFaults' = syncFaults + 1
    /\ \/ /\ syncRun[i].pc # "idle" /\ syncRun' = [syncRun EXCEPT ![i] = SyncIdle]
          /\ UNCHANGED balanceRun
       \/ /\ balanceRun[i] > 0 /\ balanceRun' = [balanceRun EXCEPT ![i] = 0]
          /\ UNCHANGED syncRun
    /\ UNCHANGED <<holding, positionRows, books, demandLease, balanceRow, trades>>

PositionSync(i) ==
    \/ FetchPositions(i) \/ ScanLeases(i) \/ DeleteLeases(i) \/ SetLeases(i)
    \/ \E s \in HeldSymbols : UpsertPosition(i, s) \/ EnsureBook(i, s)

BalanceSync(i) == FetchBalance(i) \/ StoreBalance(i)

AccountNext ==
    \/ \E s \in HeldSymbols : Trade(s) \/ LeaseLapses(s)
    \/ \E i \in SyncSlots : PositionSync(i) \/ BalanceSync(i) \/ SyncFails(i)

\* The intervals keep firing and awaited calls settle.
AccountFairness ==
    \A i \in SyncSlots : WF_accountVars(PositionSync(i)) /\ WF_accountVars(BalanceSync(i))

AccountSpec == AccountInit /\ [][AccountNext]_accountVars /\ AccountFairness

-----------------------------------------------------------------------------
\* Types of the account's stored and in-flight picture.
AccountTypeOK ==
    /\ holding \cup positionRows \cup books \cup demandLease \subseteq HeldSymbols
    /\ syncRun \in [SyncSlots -> [pc: {"idle", "upsert", "books", "scan", "del", "set"},
                                  held: SUBSET HeldSymbols, todo: SUBSET HeldSymbols]]
    /\ balanceRun \in [SyncSlots -> 0..MaxTrades + 1] /\ balanceRow \in 0..MaxTrades + 1
    /\ trades \in 0..MaxTrades /\ syncFaults \in 0..MaxSyncFaults

\* When the account stops changing, its stored picture settles on it for good:
\* the leases are the holdings, every holding of a known stock has its row and
\* its book, the balance is the latest.  A slow sync that still deletes, sets or
\* stores by what it fetched before is undone by the next one.
PictureSettles ==
    <>[](/\ demandLease = holding
         /\ holding \subseteq positionRows
         /\ holding \ UnknownStocks \subseteq books
         /\ balanceRow = BalanceNow)

==============================================================================
