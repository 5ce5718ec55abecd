----------------------------- MODULE StockMaster -----------------------------
(***************************************************************************)
(* The stock master: every collector pulls the broker's list and upserts   *)
(* the stocks table, row by row, each a SELECT and then an INSERT or an    *)
(* UPDATE.  Operators observe and delete stocks meanwhile.  A pod keeps    *)
(* the ids of the markets it has looked up, and also that one was missing. *)
(* A pod's runs are hours apart: one at a time.                            *)
(***************************************************************************)
EXTENDS Naturals, FiniteSets

CONSTANTS
    MasterPods,
    Stocks,            \* numbered in the order of the list
    MarketCodes,       \* markets of the list
    MarketCode(_),     \* the market of a stock
    RequiredMarkets,   \* REQUIRED_STOCK_MASTER_MARKETS
    MaxStockRuns,      \* bound: runs
    MaxStockChanges,   \* bound: changes by operators and migrations
    MaxStockFaults     \* bound: failing calls and restarts

ASSUME StockAssumption ==
    /\ Stocks \subseteq Nat /\ IsFiniteSet(Stocks) /\ \A s \in Stocks : MarketCode(s) \in MarketCodes
    /\ RequiredMarkets \subseteq MarketCodes
    /\ MaxStockRuns \in Nat /\ MaxStockChanges \in Nat /\ MaxStockFaults \in Nat

VARIABLES
    seeding,      \* NODE_ENV is not production: reference data is seeded
    markets,      \* the markets table
    stocks,       \* the live row of a stock: absent, or observed or not
    marketIds,    \* marketIdCache of each pod
    ensured,      \* krxReferenceDataEnsured of each pod
    stockRun,     \* execute of each pod: [pc, entries, todo, found]
    lastRunOk,    \* _lastRunOk of each pod
    deletedStocks, \* history: stocks an operator has deleted
    stockRuns, stockChanges, stockFaults

stockVars == <<seeding, markets, stocks, marketIds, ensured, stockRun, lastRunOk, deletedStocks,
               stockRuns, stockChanges, stockFaults>>
countVars == <<stockRuns, stockChanges, stockFaults>>

RunIdle == [pc |-> "idle", entries |-> {}, todo |-> {}, found |-> FALSE]
NothingCached == [c \in MarketCodes |-> "unset"]

\* Migrations have created some of the markets.
StockInit ==
    /\ seeding \in BOOLEAN /\ markets \in SUBSET MarketCodes
    /\ stocks = [s \in Stocks |-> "absent"]
    /\ marketIds = [p \in MasterPods |-> NothingCached] /\ ensured = [p \in MasterPods |-> FALSE]
    /\ stockRun = [p \in MasterPods |-> RunIdle] /\ lastRunOk = [p \in MasterPods |-> FALSE]
    /\ deletedStocks = {} /\ stockRuns = 0 /\ stockChanges = 0 /\ stockFaults = 0

StockFault == stockFaults < MaxStockFaults /\ stockFaults' = stockFaults + 1
StockChange == stockChanges < MaxStockChanges /\ stockChanges' = stockChanges + 1

-----------------------------------------------------------------------------
\* Mutant: the seeding is skipped everywhere.
EnsureNothing(p) ==
    /\ ensured' = [ensured EXCEPT ![p] = TRUE] /\ UNCHANGED <<markets, marketIds>>

\* ensureKrxReferenceData: outside production the markets are inserted in one
\* transaction and the cached ids dropped; in production only the flag is set.
EnsureKrxReferenceData(p) ==
    /\ ensured' = [ensured EXCEPT ![p] = TRUE]
    /\ IF seeding /\ ~ensured[p]
       THEN markets' = MarketCodes /\ marketIds' = [marketIds EXCEPT ![p] = NothingCached]
       ELSE UNCHANGED <<markets, marketIds>>

\* execute: the reference data, then the list, of which a market may be missing.
StockListSync(p) ==
    /\ stockRun[p].pc = "idle" /\ stockRuns < MaxStockRuns /\ stockRuns' = stockRuns + 1
    /\ EnsureKrxReferenceData(p)
    /\ \E listed \in SUBSET MarketCodes :
         stockRun' = [stockRun EXCEPT ![p] =
                        [RunIdle EXCEPT !.pc = "resolve", !.entries = {s \in Stocks : MarketCode(s) \in listed}]]
    /\ UNCHANGED <<seeding, stocks, lastRunOk, deletedStocks, stockChanges, stockFaults>>

\* resolveMarketId: a market is looked up once, found or not.
ResolveMarketId(p, c) ==
    /\ stockRun[p].pc = "resolve" /\ marketIds[p][c] = "unset"
    /\ \E s \in stockRun[p].entries : MarketCode(s) = c
    /\ marketIds' = [marketIds EXCEPT ![p][c] = IF c \in markets THEN "id" ELSE "null"]
    /\ UNCHANGED <<seeding, markets, stocks, ensured, stockRun, lastRunOk, deletedStocks, countVars>>

\* _lastRunOk of a run that got through: no required market was missing from the list.
Complete(entries) == \A c \in RequiredMarkets : \E s \in entries : MarketCode(s) = c

\* The run with its next row, or its end.
NextStock(p, todo) ==
    IF todo = {}
    THEN /\ stockRun' = [stockRun EXCEPT ![p] = RunIdle]
         /\ lastRunOk' = [lastRunOk EXCEPT ![p] = Complete(stockRun[p].entries)]
    ELSE /\ stockRun' = [stockRun EXCEPT ![p].pc = "find", ![p].todo = todo, ![p].found = FALSE]
         /\ UNCHANGED lastRunOk

\* All markets are resolved: stocks of a market without an id are skipped.
UpsertMany(p) ==
    /\ stockRun[p].pc = "resolve"
    /\ \A s \in stockRun[p].entries : marketIds[p][MarketCode(s)] # "unset"
    /\ NextStock(p, {s \in stockRun[p].entries : marketIds[p][MarketCode(s)] = "id"})
    /\ UNCHANGED <<seeding, markets, stocks, marketIds, ensured, deletedStocks, countVars>>

RowInHand(p) == CHOOSE s \in stockRun[p].todo : \A u \in stockRun[p].todo : s <= u

\* The SELECT of the next row, deleted rows excepted.
FindStock(p) ==
    /\ stockRun[p].pc = "find"
    /\ stockRun' = [stockRun EXCEPT ![p].pc = "write", ![p].found = (stocks[RowInHand(p)] # "absent")]
    /\ UNCHANGED <<seeding, markets, stocks, marketIds, ensured, lastRunOk, deletedStocks, countVars>>

\* Mutant: the update writes is_observed too.
UpdatedForgetting(s) == [stocks EXCEPT ![s] = IF @ = "absent" THEN @ ELSE "unobserved"]

\* The UPDATE by id names every column but is_observed; the row may be deleted by now.
Updated(s) == stocks

\* The row found is updated; a new one is inserted unobserved.
WriteStock(p) ==
    LET s == RowInHand(p) IN
    /\ stockRun[p].pc = "write"
    /\ stockRun[p].found \/ stocks[s] = "absent"
    /\ stocks' = IF stockRun[p].found THEN Updated(s) ELSE [stocks EXCEPT ![s] = "unobserved"]
    /\ NextStock(p, stockRun[p].todo \ {s})
    /\ UNCHANGED <<seeding, markets, marketIds, ensured, deletedStocks, countVars>>

\* The run throws: its last row was inserted by another pod since it looked (unique
\* index), or a call fails.  What it has written stays.
StockRunFails(p) ==
    /\ \/ /\ stockRun[p].pc = "write" /\ ~stockRun[p].found /\ stocks[RowInHand(p)] # "absent"
          /\ UNCHANGED stockFaults
       \/ stockRun[p].pc # "idle" /\ StockFault
    /\ stockRun' = [stockRun EXCEPT ![p] = RunIdle]
    /\ lastRunOk' = [lastRunOk EXCEPT ![p] = FALSE]
    /\ UNCHANGED <<seeding, markets, stocks, marketIds, ensured, deletedStocks, stockRuns, stockChanges>>

\* A pod restarts: what it kept in memory is gone.
MasterPodRestart(p) ==
    /\ StockFault
    /\ marketIds' = [marketIds EXCEPT ![p] = NothingCached] /\ ensured' = [ensured EXCEPT ![p] = FALSE]
    /\ stockRun' = [stockRun EXCEPT ![p] = RunIdle] /\ lastRunOk' = [lastRunOk EXCEPT ![p] = FALSE]
    /\ UNCHANGED <<seeding, markets, stocks, deletedStocks, stockRuns, stockChanges>>

\* An operator switches observation on or off, or deletes the row; a migration adds a market.
OperatorChanges ==
    /\ StockChange
    /\ \/ \E s \in Stocks :
            /\ stocks[s] # "absent"
            /\ \/ /\ stocks' = [stocks EXCEPT ![s] = IF @ = "observed" THEN "unobserved" ELSE "observed"]
                  /\ UNCHANGED deletedStocks
               \/ /\ stocks' = [stocks EXCEPT ![s] = "absent"]
                  /\ deletedStocks' = deletedStocks \cup {s}
            /\ UNCHANGED markets
       \/ \E c \in MarketCodes \ markets : /\ markets' = markets \cup {c}
                                           /\ UNCHANGED <<stocks, deletedStocks>>
    /\ UNCHANGED <<seeding, marketIds, ensured, stockRun, lastRunOk, stockRuns, stockFaults>>

StockNext ==
    \/ \E p \in MasterPods :
         \/ StockListSync(p) \/ UpsertMany(p) \/ FindStock(p) \/ WriteStock(p)
         \/ StockRunFails(p) \/ MasterPodRestart(p)
         \/ \E c \in MarketCodes : ResolveMarketId(p, c)
    \/ OperatorChanges

StockSpec == StockInit /\ [][StockNext]_stockVars

-----------------------------------------------------------------------------
\* Types of the stock master.
StockTypeOK ==
    /\ seeding \in BOOLEAN /\ markets \subseteq MarketCodes /\ deletedStocks \subseteq Stocks
    /\ stocks \in [Stocks -> {"absent", "observed", "unobserved"}]
    /\ marketIds \in [MasterPods -> [MarketCodes -> {"unset", "id", "null"}]]
    /\ ensured \in [MasterPods -> BOOLEAN] /\ lastRunOk \in [MasterPods -> BOOLEAN]
    /\ stockRun \in [MasterPods -> [pc: {"idle", "resolve", "find", "write"}, entries: SUBSET Stocks,
                                    todo: SUBSET Stocks, found: BOOLEAN]]
    /\ stockRuns \in 0..MaxStockRuns /\ stockChanges \in 0..MaxStockChanges
    /\ stockFaults \in 0..MaxStockFaults

\* A row that a run has passed is there, unless an operator took it away: overlapping
\* runs of other pods and rows they insert first leave no gap.
PassedRowsExist ==
    \A p \in MasterPods : stockRun[p].pc \in {"find", "write"} =>
        \A s \in stockRun[p].entries \ (stockRun[p].todo \cup deletedStocks) :
            stocks[s] # "absent" \/ marketIds[p][MarketCode(s)] = "null"

\* Where reference data is seeded no pod ever remembers a market as missing.
SeededMarketsKnown ==
    seeding => \A p \in MasterPods, c \in MarketCodes : marketIds[p][c] # "null"

\* A sync leaves no gaps and, where reference data is seeded, skips no market.
MasterSafe == PassedRowsExist /\ SeededMarketsKnown

\* is_observed belongs to the operators: a sync changes it for no stock, and a stock it
\* adds is not observed.
ObservationStays ==
    \A s \in Stocks : stocks'[s] # stocks[s] =>
        \/ stockChanges' # stockChanges
        \/ stocks[s] = "absent" /\ stocks'[s] = "unobserved"
ObservationKept == [][ObservationStays]_stockVars

==============================================================================
