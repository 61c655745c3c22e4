--------------------------- MODULE PaperPipeline ---------------------------
(***************************************************************************)
(* One paper account and the two ways into it: orders through              *)
(* PaperBrokerAdapter (app/services/paper_broker_adapter.py), and          *)
(* decisions through TradingPipeline (app/services/pipeline.py), which     *)
(* sizes them with RiskEngine (risk.py) and hands them to the same         *)
(* PaperBroker (paper_trading.py).  The account lives as long as the       *)
(* broker, and one thread uses it.                                         *)
(*                                                                         *)
(* Money is counted in the smallest unit, so that the program's floats are *)
(* integers and its rounding to two places is exact.  What the indicators  *)
(* say is an input.  Orders that are refused before the account is looked  *)
(* at (an unknown symbol or side, a quantity or price that is not          *)
(* positive) are not inputs.                                               *)
(***************************************************************************)
EXTENDS Integers, Sequences, DecisionEngine

CONSTANTS Symbol,       \* the assets of the registry
          LotSize,      \* the lot_size of each
          StartingCash, \* starting_cash of the account
          RiskBps,      \* risk_per_trade of the pipeline, in hundredths of a percent
          Reading,      \* what the indicators may say of the last candle
          Price,        \* the prices of the orders through the adapter
          Quantity,     \* the quantities ordered through the adapter
          MaxTrades     \* bound: how many trades the account makes

ASSUME PipelineAssumption ==
    /\ LotSize \in [Symbol -> Nat \ {0}]
    /\ StartingCash \in Nat \ {0}
    /\ RiskBps \in 1..500
    /\ Reading \subseteq ReadingType
    /\ Price \subseteq Nat \ {0}
    /\ Quantity \subseteq Nat \ {0}
    /\ MaxTrades \in Nat

VARIABLES
    cash,      \* account.cash
    positions, \* account.positions; 0 for a symbol that has no entry
    trades,    \* account.trades
    response   \* what the last caller got

vars == <<cash, positions, trades, response>>

Side == {"BUY", "SELL"}
Order == [symbol : Symbol, side : Side, quantity : Nat \ {0}, price : Nat \ {0}]
Trade == [order : Order, cashAfter : Int]

\* A response: who asked, what came of it, the status field the caller sees, and
\* the evidence of the decision; "none" when the dictionary has no such field.
Response == [by : {"nobody", "adapter", "pipeline"},
             outcome : {"filled", "skipped", "rejected", "error"},
             status : {"filled", "skipped", "none"},
             evidence : {"above", "below", "none"}]

Reply(by, outcome, status, evidence) ==
    response' = [by |-> by, outcome |-> outcome, status |-> status, evidence |-> evidence]

\* The type invariant: the account of PaperAccount and what its callers get.
TypeOK ==
    /\ cash \in Int
    /\ positions \in [Symbol -> Int]
    /\ trades \in Seq(Trade)
    /\ response \in Response

Init ==
    /\ cash = StartingCash
    /\ positions = [s \in Symbol |-> 0]
    /\ trades = <<>>
    /\ response = [by |-> "nobody", outcome |-> "skipped", status |-> "none",
                   evidence |-> "none"]
-----------------------------------------------------------------------------
Value(o) == o.quantity * o.price

\* What an order adds to the cash and to the position.
CashFlow(o) == IF o.side = "BUY" THEN -Value(o) ELSE Value(o)
Shares(o) == IF o.side = "BUY" THEN o.quantity ELSE -o.quantity

\* Mutant: the cash is compared with the price of one unit.
AcceptsUnitPrice(o) ==
    /\ o.quantity % LotSize[o.symbol] = 0
    /\ o.side = "BUY" => o.price <= cash
    /\ o.side = "SELL" => o.quantity <= positions[o.symbol]

\* The orders PaperBroker.execute() does not refuse with a ValueError.
Accepts(o) ==
    /\ o.quantity % LotSize[o.symbol] = 0
    /\ o.side = "BUY" => Value(o) <= cash
    /\ o.side = "SELL" => o.quantity <= positions[o.symbol]

\* Mutant: a sale closes the whole position.
HeldUnlessSold(o) == IF o.side = "BUY" THEN positions[o.symbol] + Shares(o) ELSE 0

\* The position in the symbol of an order once it is filled.
Held(o) == positions[o.symbol] + Shares(o)

\* Mutant: the trade is appended twice.
TradesWithTwice(trade) == Append(Append(trades, trade), trade)

TradesWith(trade) == Append(trades, trade)

\* PaperBroker.execute() fills the order and appends the trade.
Fill(o) ==
    /\ cash' = cash + CashFlow(o)
    /\ positions' = [positions EXCEPT ![o.symbol] = Held(o)]
    /\ trades' = TradesWith([order |-> o, cashAfter |-> cash + CashFlow(o)])

AccountUnchanged == UNCHANGED <<cash, positions, trades>>

\* place_order() of the adapter; it puts a status in front of the trade.
PlaceOrder(o) ==
    IF Accepts(o)
    THEN Fill(o) /\ Reply("adapter", "filled", "filled", "none")
    ELSE AccountUnchanged /\ Reply("adapter", "rejected", "none", "none")
-----------------------------------------------------------------------------
Smaller(m, n) == IF m <= n THEN m ELSE n
Distance(m, n) == IF m <= n THEN n - m ELSE m - n

\* Mutant: the position is limited by the risk budget only.
SizePositionByRisk(capital, entry, stop) ==
    IF entry = stop THEN 0
    ELSE (capital * RiskBps) \div (10000 * Distance(entry, stop))

\* RiskEngine.size_position(): as many units as the risk budget and the cash
\* allow, none when the stop is the entry.
SizePosition(capital, entry, stop) ==
    IF entry = stop THEN 0
    ELSE Smaller((capital * RiskBps) \div (10000 * Distance(entry, stop)),
                 capital \div entry)

\* The pipeline's quantity: whole lots.
WholeLots(s, q) == (q \div LotSize[s]) * LotSize[s]

\* What DecisionEngine may decide.
Decisions == {Evaluate(r) : r \in Reading}

SizedOrder(s, d) ==
    [symbol |-> s, side |-> d.action, price |-> d.entry,
     quantity |-> WholeLots(s, SizePosition(cash, d.entry, d.stop))]

\* evaluate() raises ValueError: too few candles, or no price, range or RSI.
RunUndecided ==
    /\ AccountUnchanged
    /\ Reply("pipeline", "error", "none", "none")

\* A HOLD decision is passed to execute_decision_signal(), which skips it.
RunHold(d) ==
    /\ d.action = "HOLD"
    /\ AccountUnchanged
    /\ Reply("pipeline", "skipped", "skipped", d.evidence)

\* A BUY or SELL decision without cash: size_position() raises ValueError.
RunWithoutCash(d) ==
    /\ d.action # "HOLD"
    /\ cash <= 0
    /\ AccountUnchanged
    /\ Reply("pipeline", "error", "none", "none")

\* A BUY or SELL decision is sized, then skipped or handed to the broker as it
\* is; the trade the broker returns is the execution of the result.
RunSized(o, evidence) ==
    /\ cash > 0
    /\ \/ /\ \/ o.quantity = 0
             \/ o.side = "SELL" /\ positions[o.symbol] < o.quantity
          /\ AccountUnchanged
          /\ Reply("pipeline", "skipped", "skipped", evidence)
       \/ /\ o.quantity > 0
          /\ o.side = "SELL" => positions[o.symbol] >= o.quantity
          /\ IF Accepts(o)
             THEN Fill(o) /\ Reply("pipeline", "filled", "none", evidence)
             ELSE AccountUnchanged /\ Reply("pipeline", "rejected", "none", evidence)

\* run() of the pipeline with a decision d.
Run(d) ==
    \/ RunHold(d)
    \/ RunWithoutCash(d)
    \/ d.action # "HOLD" /\ \E s \in Symbol : RunSized(SizedOrder(s, d), d.evidence)

Next ==
    /\ Len(trades) < MaxTrades
    /\ \/ \E s \in Symbol, side \in Side, q \in Quantity, p \in Price :
             PlaceOrder([symbol |-> s, side |-> side, quantity |-> q, price |-> p])
       \/ RunUndecided
       \/ \E d \in Decisions : Run(d)

Spec == Init /\ [][Next]_vars
-----------------------------------------------------------------------------
\* The account never owes anything: no order, placed or sized, leaves negative
\* cash or a short position, and positions stay whole lots.
AccountIsCovered ==
    /\ cash >= 0
    /\ \A s \in Symbol : positions[s] >= 0 /\ positions[s] % LotSize[s] = 0

\* The running totals of the amounts of a sequence, from a start.
Totals(start, amounts) ==
    LET total[n \in {0} \cup DOMAIN amounts] ==
            IF n = 0 THEN start ELSE total[n - 1] + amounts[n]
    IN  total

\* What the first n trades made of the cash and of the position in s.
CashFlows == [i \in DOMAIN trades |-> CashFlow(trades[i].order)]
Deliveries(s) ==
    [i \in DOMAIN trades |->
        IF trades[i].order.symbol = s THEN Shares(trades[i].order) ELSE 0]
CashAfter == Totals(StartingCash, CashFlows)
SharesAfter(s) == Totals(0, Deliveries(s))

\* The account is what its trades make of the starting cash, each trade reports
\* the cash it left, and no sale ever exceeded what had been bought before it.
AccountIsReplayOfTrades ==
    /\ cash = CashAfter[Len(trades)]
    /\ \A n \in 1..Len(trades) : trades[n].cashAfter = CashAfter[n]
    /\ \A s \in Symbol :
          /\ positions[s] = SharesAfter(s)[Len(trades)]
          /\ \A n \in 1..Len(trades) : SharesAfter(s)[n] >= 0

\* An order the pipeline sized is never refused by the broker: sizing, lot
\* rounding and the check for a long position leave it nothing to refuse.
SizedOrderIsFilled ==
    response.by = "pipeline" => response.outcome # "rejected"

\* The pipeline buys only above and sells only at or below the slower average,
\* and says so: MACD, RSI and volume together never outweigh the trend, although
\* the first two count as much as it does, and the RSI turns at the extremes.
PipelineFollowsTrend ==
    response.by = "pipeline" /\ response.outcome = "filled" =>
        trades[Len(trades)].order.side = IF response.evidence = "above" THEN "BUY" ELSE "SELL"

\* A caller that was not told of a fill left the account as it was, and one that
\* was finds exactly one trade more.
OneTradePerFill ==
    [][Len(trades') = Len(trades) + (IF response'.outcome = "filled" THEN 1 ELSE 0)]_vars

\* The status validate_paper_result() accepts.
KnownStatus == {"filled", "skipped", "hold", "accepted"}

\* validate_paper_result() of a run that ended: what can differ between runs is
\* the sign of the cash and the status of the execution.
ValidRun == cash >= 0 /\ response.status \in KnownStatus

\* A paper run whose decision was filled validates: "filled" is one of the known
\* statuses of app/services/paper_validation.py.
FilledRunIsValid ==
    response.by = "pipeline" /\ response.outcome = "filled" => ValidRun
=============================================================================
