------------------------------ MODULE Backtest ------------------------------
(***************************************************************************)
(* run_ema_backtest() (app/services/backtest.py): one pass over the        *)
(* candles with one long position at a time, sized by risk and by cash,    *)
(* bought and sold with slippage and a fee on both sides, and closed at    *)
(* the last price.                                                         *)
(*                                                                         *)
(* What the indicators say of a candle is an input: whether ema20 is above *)
(* ema50, and the stop distance the average true range gives.  Rates are   *)
(* in parts of Scale and money in parts of Scale * Scale of a price unit,  *)
(* which makes every amount an integer.  Of trade_pnls the program reads   *)
(* the counts and the sums kept here; the statistics of the equity curve   *)
(* are left out.                                                           *)
(***************************************************************************)
EXTENDS Integers

CONSTANTS InitialCapital, \* initial_capital, in price units
          Scale,          \* how many parts a rate is counted in
          Risk,           \* risk_per_trade
          Fee,            \* fee_rate
          Slippage,       \* slippage_rate
          Price,          \* the closing prices
          StopDistance,   \* the stop distances, in price units
          MaxRows         \* bound: how many candles there are

ASSUME BacktestAssumption ==
    /\ InitialCapital \in Nat \ {0}
    /\ Scale \in Nat \ {0}
    /\ Risk \in Nat \ {0} /\ 20 * Risk <= Scale
    /\ Fee \in Nat
    /\ Slippage \in 0..(Scale - 1)
    /\ Price \subseteq Nat \ {0}
    /\ StopDistance \subseteq Nat \ {0}
    /\ MaxRows \in Nat

VARIABLES
    capital,  \* the cash
    position, \* how many units are held
    entry,    \* what one of them cost, in parts of Scale
    result,   \* trades, wins, losses, gross_profit and gross_loss of the closed trades
    rows,     \* how many candles were read
    close,    \* the closing price of the last one
    done      \* whether the result was returned

vars == <<capital, position, entry, result, rows, close, done>>

\* The type invariant: sizes, entries and the counts of trades are never negative.
TypeOK ==
    /\ capital \in Int
    /\ position \in Nat
    /\ entry \in Nat
    /\ result \in [trades : Nat, wins : Nat, losses : Nat, profit : Nat, loss : Nat]
    /\ rows \in 0..MaxRows
    /\ close \in Price \cup {0}
    /\ done \in BOOLEAN

Init ==
    /\ capital = InitialCapital * Scale * Scale
    /\ position = 0
    /\ entry = 0
    /\ result = [trades |-> 0, wins |-> 0, losses |-> 0, profit |-> 0, loss |-> 0]
    /\ rows = 0
    /\ close = 0
    /\ done = FALSE
-----------------------------------------------------------------------------
Smaller(m, n) == IF m <= n THEN m ELSE n

\* What a unit costs and brings with slippage, in parts of Scale.
EntryPrice(price) == price * (Scale + Slippage)
ExitPrice(price) == price * (Scale - Slippage)

\* The value of units at such a price, and the fee on it.
Value(units, at) == units * at * Scale
FeeOn(units, at) == units * at * Fee

\* Mutant: the cash is divided by the price without slippage.
SizeWithoutSlippage(price, stop) ==
    IF capital <= 0 THEN 0
    ELSE Smaller((capital * Risk) \div (stop * Scale * Scale * Scale),
                 capital \div (price * Scale * Scale))

\* The size of a new position: what the risk budget allows at this stop and what
\* the cash pays for, but never less than nothing.
Size(price, stop) ==
    IF capital <= 0 THEN 0
    ELSE Smaller((capital * Risk) \div (stop * Scale * Scale * Scale),
                 capital \div (EntryPrice(price) * Scale))

\* What selling the position brings.
Proceeds(price) ==
    Value(position, ExitPrice(price)) - FeeOn(position, ExitPrice(price))

\* Mutant: the fee of the entry is not taken off the profit.
ProfitBeforeEntryFee(price) == Proceeds(price) - Value(position, entry)

\* The profit of the trade: both fees and the entry value are taken off.
Profit(price) == Proceeds(price) - Value(position, entry) - FeeOn(position, entry)

\* A position is opened, unless its size is nothing.
Enter(price, stop) ==
    LET size == Size(price, stop) IN
    /\ position' = size
    /\ IF size = 0
       THEN UNCHANGED <<capital, entry>>
       ELSE /\ entry' = EntryPrice(price)
            /\ capital' = capital - Value(size, entry') - FeeOn(size, entry')
    /\ UNCHANGED result

\* What a closed trade adds to the result.
WithTrade(pnl) ==
    [trades |-> result.trades + 1,
     wins   |-> result.wins + (IF pnl > 0 THEN 1 ELSE 0),
     losses |-> result.losses + (IF pnl < 0 THEN 1 ELSE 0),
     profit |-> result.profit + (IF pnl > 0 THEN pnl ELSE 0),
     loss   |-> result.loss + (IF pnl < 0 THEN -pnl ELSE 0)]

Exit(price) ==
    /\ capital' = capital + Proceeds(price)
    /\ result' = WithTrade(Profit(price))
    /\ position' = 0
    /\ entry' = 0

\* One candle: `up` when ema20 is above ema50.  The stop distance is at least
\* half a percent of the price.
Row(price, up, stop) ==
    /\ ~done
    /\ rows < MaxRows
    /\ 200 * stop >= price
    /\ rows' = rows + 1
    /\ close' = price
    /\ \/ position = 0 /\ up /\ Enter(price, stop)
       \/ position > 0 /\ ~up /\ Exit(price)
       \/ (position = 0) # up /\ UNCHANGED <<capital, position, entry, result>>
    /\ UNCHANGED done

\* After the last candle an open position is closed at its price.
Finish ==
    /\ ~done
    /\ done' = TRUE
    /\ IF position > 0 THEN Exit(close) ELSE UNCHANGED <<capital, position, entry, result>>
    /\ UNCHANGED <<rows, close>>

Next ==
    \/ \E price \in Price, up \in BOOLEAN, stop \in StopDistance : Row(price, up, stop)
    \/ Finish

Spec == Init /\ [][Next]_vars
-----------------------------------------------------------------------------
\* The profits and losses reported are exactly what the capital gained: what is
\* not in the open position and its entry fee is the initial capital and the
\* outcome of the closed trades.
ProfitsExplainCapital ==
    capital + Value(position, entry) + FeeOn(position, entry)
        = InitialCapital * Scale * Scale + result.profit - result.loss

\* Sizing leaves the fee of the entry out of account, and nothing else: while a
\* position is open the cash is short by that fee at most.
ShortByFeeAtMost == position > 0 => capital + FeeOn(position, entry) >= 0

\* The backtest never spends cash it does not have, as the test
\* test_backtest_never_uses_more_cash_than_available says.
NeverOverdrawn == capital >= 0
=============================================================================
