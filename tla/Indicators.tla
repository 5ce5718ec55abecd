------------------------------ MODULE Indicators ------------------------------
(***************************************************************************)
(* The calculator: its consumer of market.candle.closed, the in-memory     *)
(* windows of IndicatorService and the indicator rows of                   *)
(* ProcessClosedCandleUsecase.  A close is represented by its candle; the  *)
(* moving average of twenty closes by the sequence it averages.            *)
(***************************************************************************)
EXTENDS StreamGroup

CONSTANTS
    Calculators,     \* calculator pods
    MaxCandles,      \* bound: candles produced
    CandleSymbol(_), \* the symbol of a candle
    Window,          \* SMA_WINDOW = EMA_WINDOW (20)
    CandleBatch,     \* batchSize of the consumer (32)
    MaxCalcFaults    \* bound: failing statements and crashes

ASSUME IndicatorAssumption ==
    /\ MaxCandles \in Nat /\ CandleBatch \in Nat \ {0} /\ MaxCalcFaults \in Nat
    /\ Window \in Nat \ {0} /\ IsFiniteSet(Calculators)

Symbols == {CandleSymbol(c) : c \in 1..MaxCandles}

VARIABLES
    candleStream,  \* the stream and its group "calculator"
    calc,          \* each pod's loop: step and batch
    closes,        \* each pod's SMA windows by symbol
    emaCount,      \* each pod's EMA counts by symbol
    indicators,    \* rows [candle, type] with their value
    calcFaults

indicatorVars == <<candleStream, calc, closes, emaCount, indicators, calcFaults>>

Warming == <<>>   \* the value null

IndicatorInit ==
    /\ candleStream = EmptyStream
    /\ calc = [p \in Calculators |-> [pc |-> "down", batch |-> <<>>]]
    /\ closes = [p \in Calculators |-> [s \in Symbols |-> <<>>]]
    /\ emaCount = [p \in Calculators |-> [s \in Symbols |-> 0]]
    /\ indicators = [k \in {} |-> Warming]
    /\ calcFaults = 0

Candle(p) == Head(calc[p].batch)

NextCandle(p) ==
    LET rest == Tail(calc[p].batch)
    IN  calc' = [calc EXCEPT ![p] = [pc |-> IF rest = <<>> THEN "read" ELSE "update", batch |-> rest]]

CloseCandle ==
    /\ candleStream.size < MaxCandles
    /\ candleStream' = XAdd(candleStream)
    /\ UNCHANGED <<calc, closes, emaCount, indicators, calcFaults>>

StartCalculator(p) ==
    /\ calc[p].pc = "down"
    /\ candleStream' = EnsureGroup(candleStream)
    /\ calc' = [calc EXCEPT ![p].pc = "read"]
    /\ UNCHANGED <<closes, emaCount, indicators, calcFaults>>

ReadCandles(p) ==
    /\ calc[p].pc = "read" /\ candleStream.last < candleStream.size
    /\ calc' = [calc EXCEPT ![p] = [pc |-> "update", batch |-> Unread(candleStream, CandleBatch)]]
    /\ candleStream' = XReadGroup(candleStream, CandleBatch)
    /\ UNCHANGED <<closes, emaCount, indicators, calcFaults>>

\* computeSma: push, and drop the oldest close beyond the window.
PushClose(window, c) ==
    LET longer == Append(window, c)
    IN  IF Len(longer) > Window THEN Tail(longer) ELSE longer

\* IndicatorService.update: both computations, keyed by the symbol.
UpdateWindows(p) ==
    LET s == CandleSymbol(Candle(p))
    IN  /\ calc[p].pc = "update"
        /\ closes' = [closes EXCEPT ![p][s] = PushClose(@, Candle(p))]
        /\ emaCount' = [emaCount EXCEPT ![p][s] = @ + 1]
        /\ calc' = [calc EXCEPT ![p].pc = "sma"]
        /\ UNCHANGED <<candleStream, indicators, calcFaults>>

\* The value of the row: null while the indicator warms up.
IndicatorValue(p, type) ==
    LET s == CandleSymbol(Candle(p))
    IN  IF type = "sma"
          THEN IF Len(closes[p][s]) = Window THEN closes[p][s] ELSE Warming
          ELSE IF emaCount[p][s] >= Window THEN <<emaCount[p][s]>> ELSE Warming

\* repo.upsert of one indicator, or its failure, which is only logged; the
\* publication that follows changes no state here.
UpsertIndicator(p, type, next) ==
    /\ calc[p].pc = type
    /\ \/ /\ indicators' = [k \in DOMAIN indicators \cup {<<Candle(p), type>>} |->
                               IF k = <<Candle(p), type>> THEN IndicatorValue(p, type)
                               ELSE indicators[k]]
          /\ UNCHANGED calcFaults
       \/ /\ calcFaults < MaxCalcFaults /\ calcFaults' = calcFaults + 1
          /\ UNCHANGED indicators
    /\ calc' = [calc EXCEPT ![p].pc = next]
    /\ UNCHANGED <<candleStream, closes, emaCount>>

\* XACK, or its failure.
AckCandle(p) ==
    /\ calc[p].pc = "ack"
    /\ \/ candleStream' = XAck(candleStream, Candle(p)) /\ UNCHANGED calcFaults
       \/ /\ calcFaults < MaxCalcFaults /\ calcFaults' = calcFaults + 1
          /\ UNCHANGED candleStream
    /\ NextCandle(p)
    /\ UNCHANGED <<closes, emaCount, indicators>>

\* The windows are memory: a restarted calculator warms up again.
CalculatorCrash(p) ==
    /\ calc[p].pc # "down"
    /\ calcFaults < MaxCalcFaults /\ calcFaults' = calcFaults + 1
    /\ calc' = [calc EXCEPT ![p] = [pc |-> "down", batch |-> <<>>]]
    /\ closes' = [closes EXCEPT ![p] = [s \in Symbols |-> <<>>]]
    /\ emaCount' = [emaCount EXCEPT ![p] = [s \in Symbols |-> 0]]
    /\ UNCHANGED <<candleStream, indicators>>

IndicatorNext ==
    \/ CloseCandle
    \/ \E p \in Calculators :
         \/ StartCalculator(p) \/ ReadCandles(p) \/ UpdateWindows(p)
         \/ UpsertIndicator(p, "sma", "ema") \/ UpsertIndicator(p, "ema", "ack")
         \/ AckCandle(p) \/ CalculatorCrash(p)

IndicatorSpec == IndicatorInit /\ [][IndicatorNext]_indicatorVars

-----------------------------------------------------------------------------
\* Types of the calculators and their rows; no window outgrows its size.
IndicatorTypeOK ==
    /\ candleStream \in StreamType(MaxCandles)
    /\ \A p \in Calculators :
         /\ calc[p].pc \in {"down", "read", "update", "sma", "ema", "ack"}
         /\ calc[p].batch \in Seq(1..MaxCandles)
         /\ \A s \in Symbols : Len(closes[p][s]) <= Window
    /\ DOMAIN indicators \subseteq (1..MaxCandles) \X {"sma", "ema"}
    /\ calcFaults \in 0..MaxCalcFaults

\* An emitted average is of the last Window candles of its own symbol, none left
\* out and none of another symbol, through restarts, failing statements and
\* unacknowledged entries, as long as one calculator reads the group.
AveragesAreGapless ==
    Cardinality(Calculators) = 1 =>
        \A k \in DOMAIN indicators :
            LET v == indicators[k]
                own(c) == CandleSymbol(c) = CandleSymbol(k[1])
            IN  k[2] = "sma" /\ v # Warming =>
                    /\ v[Len(v)] = k[1]
                    /\ \A i \in 1..Len(v) - 1 :
                         /\ own(v[i])
                         /\ \A c \in v[i] + 1 .. v[i + 1] - 1 : ~own(c)

==============================================================================
