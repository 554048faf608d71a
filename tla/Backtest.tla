------------------------------ MODULE Backtest ------------------------------
(***************************************************************************)
(* The backtest of one strategy over a range of days, one step per day:    *)
(* leave, enter, mark the equity.  Signals are whatever a strategy gives.  *)
(***************************************************************************)
EXTENDS Returns

CONSTANTS
    CloseValues,            \* the closes a day may have, in 1/Unit
    MaxBacktestDays,        \* bound: length of the range
    TakeProfit, StopLoss,   \* rates in 1/Unit, both positive
    MaxHoldDays,
    Commission, Slippage    \* per side, in 1/Unit; zero when not asked for

ASSUME BacktestParams ==
    /\ CloseValues \subseteq Nat \ {0}
    /\ MaxBacktestDays \in Nat /\ MaxHoldDays \in Nat \ {0}
    /\ {TakeProfit, StopLoss} \subseteq Nat \ {0}
    /\ {Commission, Slippage} \subseteq 0 .. Unit

VARIABLES
    btDay,      \* the days done
    lastClose,  \* the close of the last of them
    held,       \* the open position, or Flat
    realized,   \* the equity at the last close of a trade
    curve,      \* the marked equity of each day
    trades,     \* TradeList
    stats,      \* tradeStats
    finished    \* the range is over

btVars == <<btDay, lastClose, held, realized, curve, trades, stats, finished>>

Flat == [entered |-> 0]

\* effectiveEntryPrice and effectiveExitPrice
EntryPrice(c) == FMul(FMul(c, Unit + Slippage), Unit + Commission)
ExitPrice(c) == FMul(FMul(c, Unit - Slippage), Unit - Commission)

\* Mutant of ExitReason: a position may be held one day longer.
ExitReasonLate(raw, days, signal) ==
    IF raw >= TakeProfit THEN "take_profit"
    ELSE IF raw < -StopLoss THEN "stop_loss"
    ELSE IF days > MaxHoldDays THEN "max_hold"
    ELSE IF signal THEN "signal_exit"
    ELSE ""

\* decideExitReason: on the close without costs, the common rules first.
ExitReason(raw, days, signal) ==
    IF raw >= TakeProfit THEN "take_profit"
    ELSE IF raw <= -StopLoss THEN "stop_loss"
    ELSE IF days >= MaxHoldDays THEN "max_hold"
    ELSE IF signal THEN "signal_exit"
    ELSE ""

NoStats == [trades |-> 0, wins |-> 0, losses |-> 0, profit |-> 0, loss |-> 0,
            holdDays |-> 0]

\* tradeStats.record
Record(s, ret, days) ==
    [s EXCEPT !.trades = @ + 1, !.holdDays = @ + days,
              !.wins = @ + (IF ret > 0 THEN 1 ELSE 0),
              !.profit = @ + (IF ret > 0 THEN ret ELSE 0),
              !.losses = @ + (IF ret < 0 THEN 1 ELSE 0),
              !.loss = @ + (IF ret < 0 THEN -ret ELSE 0)]

Opened(day, c, equity) ==
    [entered |-> day, close |-> c, price |-> EntryPrice(c), equity |-> equity]

\* closeTrade: the trade of position p left on a day at close c.
Trade(p, day, c, reason) ==
    [entry |-> p.entered, exit |-> day, entryPrice |-> p.price, exitPrice |-> c,
     return |-> FDiv(ExitPrice(c), p.price) - Unit, reason |-> reason]

EquityAfter(p, c) == FMul(p.equity, FDiv(ExitPrice(c), p.price))

-----------------------------------------------------------------------------
BtInit ==
    /\ btDay = 0 /\ lastClose = 0 /\ held = Flat /\ realized = Unit
    /\ curve = <<>> /\ trades = <<>> /\ stats = NoStats /\ finished = FALSE

\* One turn of the loop of runBacktest.  A position taken today is not left
\* today; one left today may be followed by another at the same close.
TradingDay(c, entry, exit) ==
    LET day == btDay + 1
        reason == IF held = Flat THEN ""
                  ELSE ExitReason(FDiv(c, held.close) - Unit, day - held.entered, exit)
        left == reason # ""
        t == Trade(held, day, c, reason)
        equity == IF left THEN EquityAfter(held, c) ELSE realized
        kept == IF left THEN Flat ELSE held
        now == IF kept = Flat /\ entry THEN Opened(day, c, equity) ELSE kept
    IN  /\ ~ finished /\ btDay < MaxBacktestDays
        /\ btDay' = day /\ lastClose' = c
        /\ realized' = equity
        /\ trades' = IF left THEN Append(trades, t) ELSE trades
        /\ stats' = IF left THEN Record(stats, t.return, day - held.entered) ELSE stats
        /\ held' = now
        /\ curve' = Append(curve, IF now = Flat THEN equity
                                  ELSE FMul(now.equity, FDiv(c, now.price)))
        /\ UNCHANGED finished

\* The end of the range: what is still held is closed at the last close.  The
\* curve is not marked again.
EndOfData ==
    /\ ~ finished /\ btDay > 0
    /\ finished' = TRUE
    /\ held' = Flat
    /\ IF held = Flat
       THEN UNCHANGED <<realized, trades, stats>>
       ELSE LET t == Trade(held, btDay, lastClose, "end_of_data")
            IN  /\ realized' = EquityAfter(held, lastClose)
                /\ trades' = Append(trades, t)
                /\ stats' = Record(stats, t.return, btDay - held.entered)
    /\ UNCHANGED <<btDay, lastClose, curve>>

\* No strategy signals on the first day: each compares with the day before.
BtNext ==
    \/ \E c \in CloseValues, entry, exit \in BOOLEAN :
        (btDay = 0 => ~ entry /\ ~ exit) /\ TradingDay(c, entry, exit)
    \/ EndOfData

BtSpec == BtInit /\ [][BtNext]_btVars

\* fillTradeStats, and the figures runBacktest sets itself.
Result ==
    [total |-> realized - Unit, drawdown |-> MaxDrawdown(curve),
     winRate |-> Ratio(stats.wins, stats.trades),
     profitFactor |-> Ratio(stats.profit, stats.loss),
     avgWin |-> Ratio(stats.profit, stats.wins * Unit),
     avgLoss |-> -Ratio(stats.loss, stats.losses * Unit)]

-----------------------------------------------------------------------------
(* Properties.                                                             *)

TradeSet ==
    [entry : 1 .. MaxBacktestDays, exit : 1 .. MaxBacktestDays, entryPrice : Int,
     exitPrice : CloseValues, return : Int,
     reason : {"take_profit", "stop_loss", "max_hold", "signal_exit", "end_of_data"}]

\* Every variable keeps its type; a position is open since some day done.
BtTypeOK ==
    /\ btDay \in 0 .. MaxBacktestDays
    /\ lastClose \in CloseValues \cup {0}
    /\ btDay > 0 => lastClose \in CloseValues
    /\ \/ held = Flat
       \/ held \in [entered : 1 .. btDay, close : CloseValues, price : Int, equity : Int]
    /\ realized \in Int
    /\ trades \in Seq(TradeSet)
    /\ finished \in BOOLEAN

\* What runBacktest never does: carry a position past its limits.  Whatever
\* the strategy says, after each day a position older than today is within
\* the take-profit and stop-loss rates on the raw close and younger than the
\* maximum hold, and after the end of the range nothing is held.
HeldWithinLimits ==
    /\ finished => held = Flat
    /\ held # Flat /\ held.entered < btDay =>
        /\ FDiv(lastClose, held.close) - Unit < TakeProfit
        /\ FDiv(lastClose, held.close) - Unit > -StopLoss
        /\ btDay - held.entered < MaxHoldDays

\* One position at a time: trades follow each other, a trade may open at the
\* close the one before left at, none is left on its day of entry (unless the
\* range ends there) and none is held beyond the maximum.
OnePositionAtATime ==
    /\ \A i \in DOMAIN trades :
        /\ trades[i].exit - trades[i].entry <= MaxHoldDays
        /\ trades[i].entry <= trades[i].exit
        /\ trades[i].entry = trades[i].exit => trades[i].reason = "end_of_data"
        /\ i + 1 \in DOMAIN trades => trades[i].exit <= trades[i + 1].entry
        /\ held # Flat => trades[i].exit <= held.entered
    /\ \A i \in DOMAIN trades :
        trades[i].reason = "end_of_data" => finished /\ i = Len(trades)

\* The equity is compounded from the trades and from nothing else: it is the
\* product of their returns, costs included, and no day is lost or counted
\* twice when a trade is left and another taken at the same close.
Compounded(list) == FoldLeft(LAMBDA eq, t : FMul(eq, Unit + t.return), Unit, list)

EquityIsCompounded == realized = Compounded(trades)

\* The statistics accumulated on the way are those of the list of trades.
Wins(list) == {i \in DOMAIN list : list[i].return > 0}
Losses(list) == {i \in DOMAIN list : list[i].return < 0}
TotalReturn(list, s) == MapThenSumSet(LAMBDA i : list[i].return, s)

StatsOfTheTrades ==
    LET wins == Wins(trades)
        losses == Losses(trades)
    IN  /\ stats.trades = Len(trades)
        /\ Result.winRate = Ratio(Cardinality(wins), Len(trades))
        /\ Result.avgWin = Ratio(TotalReturn(trades, wins), Cardinality(wins) * Unit)
        /\ Result.avgLoss = Ratio(TotalReturn(trades, losses), Cardinality(losses) * Unit)
        /\ losses = {} => Result.profitFactor = 0

\* The curve and the total agree: the last point is the total, except after a
\* forced close, whose costs the curve never shows; so a loss has at least
\* its own drawdown unless it comes from those costs.
CurveEndsAtTotal ==
    finished =>
        LET forced == trades # <<>> /\ Last(trades).reason = "end_of_data" IN
        /\ ~ forced => Last(curve) = realized
        /\ forced => Last(curve) >= realized
        /\ ~ forced /\ Result.total < 0 => Result.drawdown <= Result.total + 1

\* A backtest keeps its limits, holds one position at a time, and its equity,
\* statistics and curve are those of its trades (runBacktest).
BacktestIsExact ==
    /\ HeldWithinLimits
    /\ OnePositionAtATime
    /\ EquityIsCompounded
    /\ StatsOfTheTrades
    /\ CurveEndsAtTotal
=============================================================================
