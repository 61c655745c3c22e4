------------------------ MODULE PaperPipeline_proofs ------------------------
(***************************************************************************)
(* The account is never overdrawn and what the pipeline sizes is never     *)
(* refused, for every registry, lot size, starting cash, risk share, set   *)
(* of prices and reading of the indicators.  The first part is about what  *)
(* DecisionEngine decides: the parts of the score are small enough that    *)
(* the trend always has the last word.                                     *)
(***************************************************************************)
EXTENDS PaperPipeline, JournalFile_proofs

\* The parts of the score, by how much each can add.
LEMMA ScoreParts ==
    ASSUME NEW r \in ReadingType
    PROVE  /\ r.spread > 0 => Trend(r) \in 2..3
           /\ r.spread <= 0 => Trend(r) \in -3..-2
           /\ Momentum(r) \in -2..2
           /\ Strength(r) \in -2..2
<1>1. r.spread \in Int /\ r.macd \in Int /\ r.rsi \in Int
  BY DEF ReadingType
<1>2. r.spread > 0 => Trend(r) \in 2..3
  BY <1>1 DEF Trend
<1>3. r.spread <= 0 => Trend(r) \in -3..-2
  BY <1>1 DEF Trend
<1>4. Momentum(r) \in -2..2
  BY <1>1 DEF Momentum
<1>5. Strength(r) \in -2..2
  BY <1>1 DEF Strength
<1> QED BY <1>2, <1>3, <1>4, <1>5

\* The volume of a candle confirms a score by one half at most, and never turns it.
LEMMA VolumeConfirms ==
    ASSUME NEW r \in ReadingType, NEW s \in Int
    PROVE  /\ s > 0 => Volume(r, s) \in 0..1
           /\ s < 0 => Volume(r, s) \in -1..0
           /\ s = 0 => Volume(r, s) = 0
<1>1. Confirmed(r) \in BOOLEAN
  BY DEF Confirmed
<1> QED BY <1>1 DEF Volume

\* In an uptrend the score stays above the one of a sale, otherwise below the one
\* of a purchase.
LEMMA TrendBoundsScore ==
    ASSUME NEW r \in ReadingType
    PROVE  /\ Score(r) \in Int
           /\ r.spread > 0 => Score(r) > -4
           /\ r.spread <= 0 => Score(r) < 4
<1> DEFINE s == Trend(r) + Momentum(r) + Strength(r)
<1>1. r.spread \in Int
  BY DEF ReadingType
<1>2. /\ s \in Int
      /\ r.spread > 0 => s >= -2
      /\ r.spread <= 0 => s <= 2
  BY <1>1, ScoreParts
<1>3. Score(r) = s + Volume(r, s)
  BY DEF Score
<1> HIDE DEF s
<1>4. /\ s > 0 => Volume(r, s) \in 0..1
      /\ s < 0 => Volume(r, s) \in -1..0
      /\ s = 0 => Volume(r, s) = 0
  BY <1>2, VolumeConfirms
<1>5. Volume(r, s) \in -1..1 /\ Volume(r, s) \in Int
  BY <1>2, <1>4
<1> QED BY <1>1, <1>2, <1>3, <1>4, <1>5

\* evaluate() buys only with EMA20 above EMA50 and sells only otherwise, whatever
\* MACD, RSI and volume say.
THEOREM DecisionFollowsTrend ==
    ASSUME NEW r \in ReadingType
    PROVE  /\ Action(r) \in {"BUY", "SELL", "HOLD"}
           /\ Action(r) = "BUY" => Evidence(r) = "above"
           /\ Action(r) = "SELL" => Evidence(r) = "below"
<1>1. r.spread \in Int
  BY DEF ReadingType
<1>2. /\ Score(r) \in Int
      /\ r.spread > 0 => Score(r) > -4
      /\ r.spread <= 0 => Score(r) < 4
  BY TrendBoundsScore
<1>3. CASE Score(r) >= 4
  <2>1. Action(r) = "BUY"
    BY <1>2, <1>3 DEF Action
  <2> QED BY <1>1, <1>2, <1>3, <2>1 DEF Evidence
<1>4. CASE Score(r) <= -4
  <2>1. Action(r) = "SELL"
    BY <1>2, <1>4 DEF Action
  <2> QED BY <1>1, <1>2, <1>4, <2>1 DEF Evidence
<1>5. CASE Score(r) \in -3..3
  <2>1. Action(r) = "HOLD"
    BY <1>2, <1>5 DEF Action
  <2> QED BY <2>1
<1> QED BY <1>2, <1>3, <1>4, <1>5

\* What evaluate() returns is fit for sizing: a positive entry, and a stop apart
\* from it for every decision that trades.
LEMMA DecisionType ==
    ASSUME NEW r \in ReadingType
    PROVE  /\ Evaluate(r).action \in {"BUY", "SELL", "HOLD"}
           /\ Evaluate(r).entry \in Nat \ {0}
           /\ Evaluate(r).stop \in Int
           /\ Evaluate(r).action # "HOLD" => Evaluate(r).stop # Evaluate(r).entry
           /\ Evaluate(r).evidence \in {"above", "below"}
<1>1. r.price \in Nat \ {0} /\ r.distance \in Nat \ {0}
  BY DEF ReadingType
<1>2. Action(r) \in {"BUY", "SELL", "HOLD"}
  BY DecisionFollowsTrend
<1>3. Stop(r) \in Int /\ (Action(r) # "HOLD" => Stop(r) # r.price)
  BY <1>1, <1>2 DEF Stop
<1> QED BY <1>1, <1>2, <1>3 DEF Evaluate, Evidence

-----------------------------------------------------------------------------

\* An integer is its quotient times the divisor, and a remainder below it.
LEMMA QuotientAndRemainder ==
    ASSUME NEW a \in Int, NEW b \in Nat \ {0}
    PROVE  a = b * (a \div b) + (a % b) /\ a % b \in 0..(b - 1) /\ a \div b \in Int
BY SMT

\* A multiple leaves no remainder.
LEMMA MultipleHasNoRemainder ==
    ASSUME NEW k \in Int, NEW b \in Nat \ {0}
    PROVE  (k * b) % b = 0
BY SMT

\* Whole lots added to or taken from whole lots are whole lots.
LEMMA LotsAddUp ==
    ASSUME NEW p \in Int, NEW q \in Int, NEW b \in Nat \ {0}, p % b = 0, q % b = 0
    PROVE  (p + q) % b = 0 /\ (p - q) % b = 0
<1> DEFINE j == p \div b
           k == q \div b
<1>1. p = b * j /\ q = b * k /\ j \in Int /\ k \in Int
  BY QuotientAndRemainder
<1> HIDE DEF j, k
<1>2. p + q = (j + k) * b /\ p - q = (j - k) * b
  BY <1>1
<1>3. j + k \in Int /\ j - k \in Int
  BY <1>1
<1> QED BY <1>2, <1>3, MultipleHasNoRemainder

\* The rounding to whole lots of pipeline.py never rounds up.
LEMMA RoundingToLots ==
    ASSUME NEW q \in Nat, NEW b \in Nat \ {0}
    PROVE  /\ (q \div b) * b \in 0..q
           /\ ((q \div b) * b) % b = 0
<1> DEFINE j == q \div b
<1>1. q = b * j + (q % b) /\ q % b \in 0..(b - 1) /\ j \in Int
  BY QuotientAndRemainder
<1>2. j \in Nat
  BY SMT
<1> HIDE DEF j
<1>3. j * b \in 0..q
  BY <1>1, <1>2
<1>4. (j * b) % b = 0
  BY <1>1, MultipleHasNoRemainder
<1> QED BY <1>3, <1>4 DEF j

\* What costs no more units than the cash buys costs no more than the cash.
LEMMA UnitsThatFit ==
    ASSUME NEW c \in Nat, NEW e \in Nat \ {0}, NEW q \in Nat, q <= c \div e
    PROVE  q * e <= c
BY SMT

\* size_position() returns a number of units the capital pays for.
LEMMA SizeFitsCapital ==
    ASSUME PipelineAssumption, NEW capital \in Nat,
           NEW entry \in Nat \ {0}, NEW stop \in Int
    PROVE  /\ SizePosition(capital, entry, stop) \in Nat
           /\ SizePosition(capital, entry, stop) <= capital \div entry
<1>1. RiskBps \in Nat
  BY DEF PipelineAssumption
<1>2. capital \div entry \in Nat
  BY <1>1
<1>3. CASE entry = stop
  BY <1>2, <1>3 DEF SizePosition
<1>4. CASE entry # stop
  <2> DEFINE risk == capital * RiskBps
             step == 10000 * Distance(entry, stop)
  <2>1. step \in Nat \ {0}
    BY <1>1, <1>4 DEF Distance
  <2>2. risk \in Nat
    BY <1>1
  <2> HIDE DEF risk, step
  <2>3. risk \div step \in Nat
    BY <2>1, <2>2
  <2>4. /\ Smaller(risk \div step, capital \div entry) \in Nat
        /\ Smaller(risk \div step, capital \div entry) <= capital \div entry
    BY <1>2, <2>3 DEF Smaller
  <2> QED BY <1>4, <2>4 DEF SizePosition, risk, step
<1> QED BY <1>3, <1>4

\* PaperBroker.execute() keeps the account covered when it fills an order.
LEMMA FillKeepsCover ==
    ASSUME PipelineAssumption, TypeOK, AccountIsCovered,
           NEW o \in Order, Accepts(o), Fill(o)
    PROVE  /\ cash' \in Int
           /\ positions' \in [Symbol -> Int]
           /\ trades' \in Seq(Trade)
           /\ AccountIsCovered'
<1>1. o.symbol \in Symbol /\ o.quantity \in Nat \ {0} /\ o.price \in Nat \ {0} /\ o.side \in Side
  BY DEF Order, PipelineAssumption
<1>2. Value(o) \in Nat
  BY <1>1 DEF Value
<1>3. cash' \in Int /\ cash' >= 0
  BY <1>1, <1>2 DEF Fill, Held, TradesWith, CashFlow, Accepts, TypeOK, AccountIsCovered, Side
<1>4. positions' \in [Symbol -> Int]
  BY <1>1 DEF Fill, Held, TradesWith, Shares, TypeOK
<1>5. trades' \in Seq(Trade)
  BY <1>3 DEF Fill, Held, TradesWith, TypeOK, Trade
<1>6. ASSUME NEW s \in Symbol
      PROVE  positions'[s] >= 0 /\ positions'[s] % LotSize[s] = 0
  <2>1. CASE s # o.symbol
    BY <2>1 DEF Fill, Held, TradesWith, TypeOK, AccountIsCovered
  <2>2. CASE s = o.symbol
    <3>1. positions'[s] = positions[s] + Shares(o)
      BY <2>2 DEF Fill, Held, TradesWith, TypeOK
    <3>2. /\ positions[s] \in Int /\ positions[s] % LotSize[s] = 0 /\ positions[s] >= 0
          /\ LotSize[s] \in Nat \ {0}
          /\ o.quantity % LotSize[s] = 0
      BY <2>2 DEF TypeOK, AccountIsCovered, PipelineAssumption, Accepts
    <3>3. /\ (positions[s] + o.quantity) % LotSize[s] = 0
          /\ (positions[s] - o.quantity) % LotSize[s] = 0
      BY <1>1, <3>2, LotsAddUp
    <3>4. CASE o.side = "BUY"
      BY <1>1, <3>1, <3>2, <3>3, <3>4 DEF Shares
    <3>5. CASE o.side = "SELL"
      <4>1. o.quantity <= positions[s]
        BY <2>2, <3>5 DEF Accepts
      <4>2. positions'[s] = positions[s] - o.quantity
        BY <1>1, <3>1, <3>2, <3>5 DEF Shares
      <4> QED BY <1>1, <3>2, <3>3, <4>1, <4>2
    <3> QED BY <1>1, <3>4, <3>5 DEF Side
  <2> QED BY <2>1, <2>2
<1> QED BY <1>3, <1>4, <1>5, <1>6 DEF AccountIsCovered

\* An order the pipeline sized and did not skip is one the broker accepts.
LEMMA SizedIsAccepted ==
    ASSUME PipelineAssumption, TypeOK, AccountIsCovered,
           NEW s \in Symbol, NEW d,
           d.action \in Side, d.entry \in Nat \ {0}, d.stop \in Int,
           SizedOrder(s, d).quantity > 0,
           d.action = "SELL" => positions[s] >= SizedOrder(s, d).quantity
    PROVE  /\ SizedOrder(s, d) \in Order
           /\ Accepts(SizedOrder(s, d))
<1> DEFINE size == SizePosition(cash, d.entry, d.stop)
           q == WholeLots(s, size)
<1>1. cash \in Nat /\ positions[s] \in Int
  BY DEF TypeOK, AccountIsCovered
<1>2. LotSize[s] \in Nat \ {0}
  BY DEF PipelineAssumption
<1>3. size \in Nat /\ size <= cash \div d.entry
  BY <1>1, SizeFitsCapital
<1> HIDE DEF size
<1>4. q \in 0..size /\ q % LotSize[s] = 0
  BY <1>2, <1>3, RoundingToLots DEF WholeLots
<1> HIDE DEF q
<1>5. cash \div d.entry \in Nat
  BY <1>1, <1>2
<1>6. q \in Nat /\ q <= cash \div d.entry
  BY <1>3, <1>4, <1>5
<1>7. q * d.entry <= cash
  BY <1>1, <1>2, <1>6, UnitsThatFit
<1>8. SizedOrder(s, d)
        = [symbol |-> s, side |-> d.action, price |-> d.entry, quantity |-> q]
  BY DEF SizedOrder, size, q
<1>9. q > 0 /\ (d.action = "SELL" => positions[s] >= q)
  BY <1>8
<1>10. SizedOrder(s, d) \in Order
  BY <1>6, <1>8, <1>9 DEF Order
<1>11. Accepts(SizedOrder(s, d))
  <2> DEFINE o == SizedOrder(s, d)
  <2>1. o.symbol = s /\ o.side = d.action /\ o.price = d.entry /\ o.quantity = q
    BY <1>8
  <2> HIDE DEF o
  <2>2. Value(o) <= cash
    BY <1>7, <2>1 DEF Value
  <2>3. o.quantity % LotSize[o.symbol] = 0
    BY <1>4, <2>1
  <2>4. o.side = "SELL" => o.quantity <= positions[o.symbol]
    BY <1>1, <1>6, <1>9, <2>1
  <2>5. Accepts(o)
    BY <2>2, <2>3, <2>4 DEF Accepts
  <2> QED BY <2>5 DEF o
<1> QED BY <1>10, <1>11

-----------------------------------------------------------------------------
\* Every decision the pipeline gets is fit for sizing, and follows the trend.
LEMMA DecisionsAreFit ==
    ASSUME PipelineAssumption, NEW d \in Decisions
    PROVE  /\ d.action \in {"BUY", "SELL", "HOLD"}
           /\ d.entry \in Nat \ {0}
           /\ d.stop \in Int
           /\ d.evidence \in {"above", "below"}
           /\ d.action = "BUY" => d.evidence = "above"
           /\ d.action = "SELL" => d.evidence = "below"
<1>1. PICK r \in Reading : d = Evaluate(r)
  BY DEF Decisions
<1>2. r \in ReadingType
  BY DEF PipelineAssumption
<1>3. d.action = Action(r) /\ d.evidence = Evidence(r)
  BY <1>1 DEF Evaluate
<1> QED BY <1>1, <1>2, <1>3, DecisionType, DecisionFollowsTrend

\* The inductive invariant: sizing needs the cash to be covered, and the broker
\* keeps it covered.
IInv == TypeOK /\ AccountIsCovered /\ SizedOrderIsFilled

\* A fresh account is covered.
LEMMA InitIInv == PipelineAssumption /\ Init => IInv
<1> SUFFICES ASSUME PipelineAssumption, Init PROVE IInv
  OBVIOUS
<1>1. TypeOK
  BY DEF Init, TypeOK, PipelineAssumption, Response
<1>2. \A s \in Symbol : 0 % LotSize[s] = 0
  BY SMT DEF PipelineAssumption
<1>3. AccountIsCovered
  BY <1>2 DEF Init, AccountIsCovered, PipelineAssumption
<1> QED BY <1>1, <1>3 DEF IInv, Init, SizedOrderIsFilled

\* A reply keeps the type of the response, and is no refusal of the pipeline
\* unless it says so.
LEMMA ReplyType ==
    ASSUME NEW by \in {"adapter", "pipeline"},
           NEW outcome \in {"filled", "skipped", "rejected", "error"},
           NEW status \in {"filled", "skipped", "none"},
           NEW evidence \in {"above", "below", "none"},
           Reply(by, outcome, status, evidence),
           by = "pipeline" => outcome # "rejected"
    PROVE  response' \in Response /\ SizedOrderIsFilled'
BY DEF Reply, Response, SizedOrderIsFilled

\* Every operation keeps the account covered, and refuses no sized order.
LEMMA NextIInv == PipelineAssumption /\ IInv /\ [Next]_vars => IInv'
<1> SUFFICES ASSUME PipelineAssumption, IInv, [Next]_vars PROVE IInv'
  OBVIOUS
<1>0. TypeOK /\ AccountIsCovered /\ SizedOrderIsFilled
  BY DEF IInv
<1>1. ASSUME AccountUnchanged, response' \in Response, SizedOrderIsFilled'
      PROVE  IInv'
  BY <1>0, <1>1 DEF AccountUnchanged, IInv, TypeOK, AccountIsCovered
<1>2. ASSUME NEW o \in Order, Accepts(o), Fill(o), response' \in Response, SizedOrderIsFilled'
      PROVE  IInv'
  BY <1>0, <1>2, FillKeepsCover DEF IInv, TypeOK
<1>3. ASSUME NEW o \in Order, PlaceOrder(o)
      PROVE  IInv'
  <2>1. CASE Accepts(o)
    <3>1. Fill(o) /\ Reply("adapter", "filled", "filled", "none")
      BY <1>3, <2>1 DEF PlaceOrder
    <3> QED BY <1>2, <2>1, <3>1, ReplyType
  <2>2. CASE ~Accepts(o)
    <3>1. AccountUnchanged /\ Reply("adapter", "rejected", "none", "none")
      BY <1>3, <2>2 DEF PlaceOrder
    <3> QED BY <1>1, <3>1, ReplyType
  <2> QED BY <2>1, <2>2
<1>4. CASE RunUndecided
  BY <1>1, <1>4, ReplyType DEF RunUndecided
<1>5. ASSUME NEW d \in Decisions, Run(d)
      PROVE  IInv'
  <2>1. /\ d.action \in Side \cup {"HOLD"} /\ d.entry \in Nat \ {0} /\ d.stop \in Int
        /\ d.evidence \in {"above", "below", "none"}
    BY DecisionsAreFit DEF Side
  <2>2. CASE RunHold(d)
    BY <1>1, <2>1, <2>2, ReplyType DEF RunHold
  <2>3. CASE RunWithoutCash(d)
    BY <1>1, <2>3, ReplyType DEF RunWithoutCash
  <2>4. ASSUME d.action # "HOLD", NEW s \in Symbol, RunSized(SizedOrder(s, d), d.evidence)
        PROVE  IInv'
    <3> DEFINE o == SizedOrder(s, d)
    <3>1. o.symbol = s /\ o.side = d.action
      BY DEF SizedOrder
    <3>2. CASE AccountUnchanged /\ Reply("pipeline", "skipped", "skipped", d.evidence)
      BY <1>1, <2>1, <3>2, ReplyType
    <3>3. CASE /\ o.quantity > 0
               /\ o.side = "SELL" => positions[o.symbol] >= o.quantity
               /\ IF Accepts(o)
                  THEN Fill(o) /\ Reply("pipeline", "filled", "none", d.evidence)
                  ELSE AccountUnchanged /\ Reply("pipeline", "rejected", "none", d.evidence)
      <4>1. d.action \in Side
        BY <2>1, <2>4
      <4>2. o \in Order /\ Accepts(o)
        BY <1>0, <2>1, <3>1, <3>3, <4>1, SizedIsAccepted
      <4>3. Fill(o) /\ Reply("pipeline", "filled", "none", d.evidence)
        BY <3>3, <4>2
      <4> HIDE DEF o
      <4> QED BY <1>2, <2>1, <4>2, <4>3, ReplyType
    <3> QED BY <2>4, <3>2, <3>3 DEF RunSized
  <2> QED BY <1>5, <2>2, <2>3, <2>4 DEF Run
<1>7. CASE UNCHANGED vars
  BY <1>0, <1>7 DEF vars, IInv, TypeOK, AccountIsCovered, SizedOrderIsFilled
<1>8. ASSUME NEW s \in Symbol, NEW side \in Side, NEW q \in Quantity, NEW p \in Price
      PROVE  [symbol |-> s, side |-> side, quantity |-> q, price |-> p] \in Order
  BY DEF Order, PipelineAssumption
<1> QED BY <1>3, <1>4, <1>5, <1>7, <1>8 DEF Next

\* The inductive invariant holds throughout.
THEOREM Invariance == Spec => []IInv
<1>1. PipelineAssumption
  BY PipelineAssumption
<1> QED BY <1>1, InitIInv, NextIInv, PTL DEF Spec

\* Whatever is ordered or decided, the account is never overdrawn and never short,
\* and holds whole lots only.
THEOREM AccountStaysCovered == Spec => []AccountIsCovered
<1>1. IInv => AccountIsCovered
  BY DEF IInv
<1> QED BY <1>1, Invariance, PTL

\* RiskEngine, the lot rounding and the pipeline's check of the position leave
\* PaperBroker nothing to refuse.
THEOREM SizedOrdersAreFilled == Spec => []SizedOrderIsFilled
<1>1. IInv => SizedOrderIsFilled
  BY DEF IInv
<1> QED BY <1>1, Invariance, PTL

\* A step that reports a fill appends one trade, and no other step touches the
\* trades.
LEMMA StepRecordsFill ==
    TypeOK /\ [Next]_vars =>
    [Len(trades') = Len(trades) + (IF response'.outcome = "filled" THEN 1 ELSE 0)]_vars
<1> SUFFICES ASSUME TypeOK, Next
             PROVE  Len(trades') = Len(trades) + (IF response'.outcome = "filled" THEN 1 ELSE 0)
  OBVIOUS
<1>1. trades \in Seq(Trade) /\ Len(trades) \in Nat
  BY DEF TypeOK
<1>2. ASSUME NEW o, Fill(o), NEW by, NEW status, NEW evidence,
             Reply(by, "filled", status, evidence)
      PROVE  Len(trades') = Len(trades) + (IF response'.outcome = "filled" THEN 1 ELSE 0)
  <2>1. Len(trades') = Len(trades) + 1
    BY <1>1, <1>2 DEF Fill, TradesWith
  <2> QED BY <1>2, <2>1 DEF Reply
<1>3. ASSUME AccountUnchanged, NEW by, NEW status, NEW evidence,
             NEW outcome, outcome # "filled", Reply(by, outcome, status, evidence)
      PROVE  Len(trades') = Len(trades) + (IF response'.outcome = "filled" THEN 1 ELSE 0)
  BY <1>1, <1>3 DEF AccountUnchanged, Reply
<1>4. ASSUME NEW o, PlaceOrder(o)
      PROVE  Len(trades') = Len(trades) + (IF response'.outcome = "filled" THEN 1 ELSE 0)
  BY <1>2, <1>3, <1>4 DEF PlaceOrder
<1>5. ASSUME NEW o, NEW evidence, RunSized(o, evidence)
      PROVE  Len(trades') = Len(trades) + (IF response'.outcome = "filled" THEN 1 ELSE 0)
  BY <1>2, <1>3, <1>5 DEF RunSized
<1>6. ASSUME NEW d, Run(d)
      PROVE  Len(trades') = Len(trades) + (IF response'.outcome = "filled" THEN 1 ELSE 0)
  <2>1. CASE RunHold(d)
    BY <1>3, <2>1 DEF RunHold
  <2>2. CASE RunWithoutCash(d)
    BY <1>3, <2>2 DEF RunWithoutCash
  <2> QED BY <1>5, <1>6, <2>1, <2>2 DEF Run
<1>7. CASE RunUndecided
  BY <1>3, <1>7 DEF RunUndecided
<1> QED BY <1>4, <1>6, <1>7 DEF Next

\* What a caller is told and what the account did never differ.
THEOREM FillsAreRecordedOnce == Spec => OneTradePerFill
<1>1. IInv => TypeOK
  BY DEF IInv
<1> QED BY <1>1, Invariance, StepRecordsFill, PTL DEF Spec, OneTradePerFill

\* A fill of the pipeline is a purchase above the slower average or a sale at or
\* below it.
LEMMA StepFollowsTrend ==
    ASSUME PipelineAssumption, TypeOK, Next
    PROVE  PipelineFollowsTrend'
<1>1. trades \in Seq(Trade) /\ Len(trades) \in Nat
  BY DEF TypeOK
<1>2. ASSUME NEW by, NEW outcome, NEW status, NEW evidence,
             by # "pipeline" \/ outcome # "filled",
             Reply(by, outcome, status, evidence)
      PROVE  PipelineFollowsTrend'
  BY <1>2 DEF Reply, PipelineFollowsTrend
<1>3. ASSUME NEW o, PlaceOrder(o)
      PROVE  PipelineFollowsTrend'
  BY <1>2, <1>3 DEF PlaceOrder
<1>4. ASSUME NEW d \in Decisions, NEW s \in Symbol, d.action # "HOLD",
             RunSized(SizedOrder(s, d), d.evidence)
      PROVE  PipelineFollowsTrend'
  <2> DEFINE o == SizedOrder(s, d)
  <2>1. o.side = d.action
    BY DEF SizedOrder
  <2>2. o.side = IF d.evidence = "above" THEN "BUY" ELSE "SELL"
    BY <1>4, <2>1, DecisionsAreFit
  <2> HIDE DEF o
  <2>3. CASE Fill(o) /\ Reply("pipeline", "filled", "none", d.evidence)
    <3>1. trades'[Len(trades')].order = o
      BY <1>1, <2>3 DEF Fill, TradesWith
    <3> QED BY <2>2, <2>3, <3>1 DEF Reply, PipelineFollowsTrend
  <2>4. CASE Reply("pipeline", "skipped", "skipped", d.evidence)
    BY <1>2, <2>4
  <2>5. CASE Reply("pipeline", "rejected", "none", d.evidence)
    BY <1>2, <2>5
  <2> QED BY <1>4, <2>3, <2>4, <2>5 DEF RunSized, o
<1>5. ASSUME NEW d \in Decisions, Run(d)
      PROVE  PipelineFollowsTrend'
  <2>1. CASE RunHold(d)
    BY <1>2, <2>1 DEF RunHold
  <2>2. CASE RunWithoutCash(d)
    BY <1>2, <2>2 DEF RunWithoutCash
  <2> QED BY <1>4, <1>5, <2>1, <2>2 DEF Run
<1>6. CASE RunUndecided
  BY <1>2, <1>6 DEF RunUndecided
<1> QED BY <1>3, <1>5, <1>6 DEF Next

\* DecisionEngine, the pipeline and the broker agree on the direction of a trade.
THEOREM PipelineTradesWithTrend == Spec => []PipelineFollowsTrend
<1>1. PipelineAssumption
  BY PipelineAssumption
<1>2. Init => PipelineFollowsTrend
  BY DEF Init, PipelineFollowsTrend
<1>3. TypeOK /\ PipelineFollowsTrend /\ [Next]_vars => PipelineFollowsTrend'
  BY <1>1, StepFollowsTrend DEF vars, PipelineFollowsTrend
<1>4. IInv => TypeOK
  BY DEF IInv
<1> QED BY <1>2, <1>3, <1>4, Invariance, PTL DEF Spec
-----------------------------------------------------------------------------
\* One step of the running totals t of amounts a from a start.
Running(t, start, a, n) == t[n] = IF n = 0 THEN start ELSE t[n - 1] + a[n]

\* The first k running totals exist, for every k: the smallest k for which they did
\* not would be one above a k for which they do.
LEMMA TotalsExist ==
    ASSUME NEW N \in Nat, NEW start \in Int, NEW a \in [1..N -> Int]
    PROVE  \E t \in [0..N -> Int] : \A n \in 0..N : Running(t, start, a, n)
<1>. DEFINE Upto(k) == \E t \in [0..k -> Int] : \A n \in 0..k : Running(t, start, a, n)
            Missing == {k \in 0..N : ~Upto(k)}
<1>1. Upto(0)
  <2>1. [n \in 0..0 |-> start] \in [0..0 -> Int]
    OBVIOUS
  <2>2. \A n \in 0..0 : Running([m \in 0..0 |-> start], start, a, n)
    BY DEF Running
  <2>. QED  BY <2>1, <2>2
<1>2. ASSUME NEW k \in 1..N, Upto(k - 1) PROVE Upto(k)
  <2>1. PICK t \in [0..(k - 1) -> Int] : \A n \in 0..(k - 1) : Running(t, start, a, n)
    BY <1>2
  <2>. DEFINE u == [n \in 0..k |-> IF n = k THEN t[k - 1] + a[k] ELSE t[n]]
  <2>2. u \in [0..k -> Int]
    <3>1. t[k - 1] \in Int /\ a[k] \in Int
      OBVIOUS
    <3>2. \A n \in 0..k : n # k => t[n] \in Int
      OBVIOUS
    <3>. QED  BY <3>1, <3>2
  <2>3. ASSUME NEW n \in 0..k PROVE Running(u, start, a, n)
    <3>1. CASE n = k
      BY <3>1 DEF Running
    <3>2. CASE n # k
      <4>1. n \in 0..(k - 1) /\ (n # 0 => n - 1 \in 0..(k - 1))
        BY <3>2
      <4>2. u[n] = t[n] /\ (n # 0 => u[n - 1] = t[n - 1])
        BY <3>2, <4>1
      <4>. QED  BY <2>1, <4>1, <4>2 DEF Running
    <3>. QED  BY <3>1, <3>2
  <2>. QED  BY <2>2, <2>3
<1>. HIDE DEF Upto
<1>3. Missing = {}
  <2>1. SUFFICES ASSUME Missing # {} PROVE FALSE
    OBVIOUS
  <2>2. Missing \subseteq Nat
    OBVIOUS
  <2>3. PICK k \in Missing : \A m \in Missing : k <= m
    BY <2>1, <2>2, SmallestIn
  <2>4. k # 0 /\ k \in 0..N /\ ~Upto(k)
    BY <1>1, <2>3
  <2>5. k - 1 \in 0..N /\ k \in 1..N /\ ~(k <= k - 1)
    BY <2>4
  <2>6. Upto(k - 1)
    BY <2>3, <2>5
  <2>. QED  BY <1>2, <2>4, <2>5, <2>6
<1>4. Upto(N)
  BY <1>3
<1>. QED  BY <1>4 DEF Upto

\* Hence the recursive definition of the running totals means what it says.
LEMMA TotalsStep ==
    ASSUME NEW N \in Nat, NEW start \in Int, NEW a \in [1..N -> Int]
    PROVE  \A n \in 0..N : /\ Totals(start, a)[n] \in Int
                           /\ Running(Totals(start, a), start, a, n)
<1>. DEFINE Body(t) == [n \in {0} \cup DOMAIN a |-> IF n = 0 THEN start ELSE t[n - 1] + a[n]]
            t == Totals(start, a)
<1>1. {0} \cup DOMAIN a = 0..N
  OBVIOUS
<1>2. \E u : u = Body(u)
  <2>1. PICK u \in [0..N -> Int] : \A n \in 0..N : Running(u, start, a, n)
    BY TotalsExist
  <2>2. u = [n \in 0..N |-> IF n = 0 THEN start ELSE u[n - 1] + a[n]]
    BY <2>1 DEF Running
  <2>. QED  BY <1>1, <2>2
<1>3. t = CHOOSE u : u = Body(u)
  BY DEF Totals
<1>. HIDE DEF t
<1>4. t = Body(t)
  BY <1>2, <1>3
<1>5. \A n \in 0..N : Running(t, start, a, n)
  BY <1>1, <1>4 DEF Running
<1>6. \A n \in 0..N : t[n] \in Int
  <2>. DEFINE Odd == {n \in 0..N : t[n] \notin Int}
  <2>1. SUFFICES ASSUME Odd # {} PROVE FALSE
    OBVIOUS
  <2>2. Odd \subseteq Nat
    OBVIOUS
  <2>3. PICK k \in Odd : \A m \in Odd : k <= m
    BY <2>1, <2>2, SmallestIn
  <2>4. k \in 0..N /\ t[k] \notin Int
    BY <2>3
  <2>5. k # 0
    BY <1>5, <2>4 DEF Running
  <2>6. k - 1 \in 0..N /\ k \in 1..N /\ ~(k <= k - 1)
    BY <2>4, <2>5
  <2>7. t[k - 1] \in Int /\ a[k] \in Int
    BY <2>3, <2>6
  <2>8. t[k] = t[k - 1] + a[k]
    BY <1>5, <2>4, <2>5 DEF Running
  <2>. QED  BY <2>4, <2>7, <2>8
<1>. QED  BY <1>5, <1>6 DEF t

\* One more amount adds one more total and leaves the others as they are.
LEMMA TotalsAppend ==
    ASSUME NEW N \in Nat, NEW start \in Int, NEW a \in [1..N -> Int],
           NEW b \in [1..(N + 1) -> Int], \A i \in 1..N : b[i] = a[i]
    PROVE  /\ \A n \in 0..N : Totals(start, b)[n] = Totals(start, a)[n]
           /\ Totals(start, b)[N + 1] = Totals(start, a)[N] + b[N + 1]
<1>. DEFINE t == Totals(start, a)
            u == Totals(start, b)
            Apart == {n \in 0..N : u[n] # t[n]}
<1>1. \A n \in 0..N : Running(t, start, a, n)
  BY TotalsStep
<1>2. N + 1 \in Nat
  OBVIOUS
<1>3. \A n \in 0..(N + 1) : Running(u, start, b, n)
  BY <1>2, TotalsStep
<1>. HIDE DEF t, u
<1>4. Apart = {}
  <2>1. SUFFICES ASSUME Apart # {} PROVE FALSE
    OBVIOUS
  <2>2. Apart \subseteq Nat
    OBVIOUS
  <2>3. PICK k \in Apart : \A m \in Apart : k <= m
    BY <2>1, <2>2, SmallestIn
  <2>4. k \in 0..N /\ k \in 0..(N + 1) /\ u[k] # t[k]
    BY <2>3
  <2>5. k # 0
    BY <1>1, <1>3, <2>4 DEF Running
  <2>6. k - 1 \in 0..N /\ k \in 1..N /\ ~(k <= k - 1)
    BY <2>4, <2>5
  <2>7. u[k - 1] = t[k - 1]
    BY <2>3, <2>6
  <2>8. t[k] = t[k - 1] + a[k] /\ u[k] = u[k - 1] + b[k]
    BY <1>1, <1>3, <2>4, <2>5 DEF Running
  <2>. QED  BY <2>4, <2>6, <2>7, <2>8
<1>5. u[N + 1] = u[N] + b[N + 1]
  <2>1. N + 1 \in 0..(N + 1) /\ N + 1 # 0 /\ N + 1 - 1 = N
    OBVIOUS
  <2>. QED  BY <1>3, <2>1 DEF Running
<1>6. u[N] = t[N]
  BY <1>4
<1>. QED  BY <1>4, <1>5, <1>6 DEF t, u

\* What an order moves are integers.
LEMMA FlowType ==
    ASSUME NEW o \in Order
    PROVE  CashFlow(o) \in Int /\ Shares(o) \in Int
<1>1. o.quantity \in Int /\ o.price \in Int
  BY DEF Order
<1>2. Value(o) \in Int
  BY <1>1 DEF Value
<1>. QED  BY <1>1, <1>2 DEF CashFlow, Shares

\* CashFlows and Deliveries of any trades.
Flows(ts) == [i \in DOMAIN ts |-> CashFlow(ts[i].order)]
Moves(ts, s) ==
    [i \in DOMAIN ts |-> IF ts[i].order.symbol = s THEN Shares(ts[i].order) ELSE 0]

\* What the trades are made of.
LEMMA FlowsType ==
    ASSUME NEW ts \in Seq(Trade)
    PROVE  /\ Flows(ts) \in [1..Len(ts) -> Int]
           /\ \A s : Moves(ts, s) \in [1..Len(ts) -> Int]
<1>1. DOMAIN ts = 1..Len(ts)
  BY LenProperties
<1>2. \A i \in DOMAIN ts : ts[i].order \in Order
  <2>1. \A i \in DOMAIN ts : ts[i] \in Trade
    BY <1>1, ElementOfSeq
  <2>. QED  BY <2>1 DEF Trade
<1>3. \A i \in DOMAIN ts : CashFlow(ts[i].order) \in Int /\ Shares(ts[i].order) \in Int
  BY <1>2, FlowType
<1>. QED  BY <1>1, <1>3 DEF Flows, Moves

\* A fill makes of the account what its trade adds to it.
LEMMA FillIsReplayed ==
    ASSUME TypeOK, TypeOK', AccountIsCovered', AccountIsReplayOfTrades,
           NEW o \in Order, Fill(o)
    PROVE  AccountIsReplayOfTrades'
<1>. DEFINE N == Len(trades)
            trade == [order |-> o, cashAfter |-> cash + CashFlow(o)]
<1>1. /\ N \in Nat /\ DOMAIN trades = 1..N
      /\ trades' = Append(trades, trade) /\ Len(trades') = N + 1
      /\ DOMAIN trades' = 1..(N + 1)
      /\ trades'[N + 1] = trade
      /\ \A i \in 1..N : trades'[i] = trades[i]
      /\ cash' = cash + CashFlow(o)
      /\ positions' = [positions EXCEPT ![o.symbol] = positions[o.symbol] + Shares(o)]
      /\ o.symbol \in Symbol
      /\ StartingCash \in Int
  <2>1. trades \in Seq(Trade) /\ trades' \in Seq(Trade)
    BY DEF TypeOK
  <2>2. trades' = Append(trades, trade)
    BY DEF Fill, TradesWith
  <2>3. trade \in Trade
    BY DEF Trade, CashFlow, Value, Order, TypeOK
  <2>4. /\ N \in Nat /\ DOMAIN trades = 1..N /\ Len(trades') = N + 1
        /\ trades'[N + 1] = trade /\ \A i \in 1..N : trades'[i] = trades[i]
    BY <2>1, <2>2, <2>3, AppendProperties, LenProperties
  <2>5. DOMAIN trades' = 1..(N + 1)
    BY <2>1, <2>4, LenProperties
  <2>. QED
    BY <2>2, <2>4, <2>5, PipelineAssumption DEF Fill, Held, Order, PipelineAssumption
<1>. HIDE DEF N
<1>2. /\ CashFlows \in [1..N -> Int] /\ CashFlows' \in [1..(N + 1) -> Int]
      /\ \A s \in Symbol : /\ Deliveries(s) \in [1..N -> Int]
                           /\ Deliveries(s)' \in [1..(N + 1) -> Int]
  <2>1. trades \in Seq(Trade) /\ trades' \in Seq(Trade)
    BY DEF TypeOK
  <2>2. /\ CashFlows = Flows(trades) /\ CashFlows' = Flows(trades')
        /\ \A s : Deliveries(s) = Moves(trades, s) /\ Deliveries(s)' = Moves(trades', s)
    BY DEF CashFlows, Deliveries, Flows, Moves
  <2>3. Flows(trades) \in [1..Len(trades) -> Int] /\ Flows(trades') \in [1..Len(trades') -> Int]
    BY <2>1, FlowsType
  <2>4. \A s : /\ Moves(trades, s) \in [1..Len(trades) -> Int]
               /\ Moves(trades', s) \in [1..Len(trades') -> Int]
    BY <2>1, FlowsType
  <2>. QED  BY <1>1, <2>2, <2>3, <2>4 DEF N
<1>3. /\ \A i \in 1..N : CashFlows'[i] = CashFlows[i]
      /\ CashFlows'[N + 1] = CashFlow(o)
  BY <1>1 DEF CashFlows
<1>4. /\ \A n \in 0..N : CashAfter'[n] = CashAfter[n]
      /\ CashAfter'[N + 1] = CashAfter[N] + CashFlow(o)
  <2>. DEFINE a == CashFlows
              b == CashFlows'
              start == StartingCash
  <2>1. /\ N \in Nat /\ start \in Int /\ a \in [1..N -> Int] /\ b \in [1..(N + 1) -> Int]
        /\ \A i \in 1..N : b[i] = a[i]
        /\ b[N + 1] = CashFlow(o)
    BY <1>1, <1>2, <1>3
  <2>2. CashAfter = Totals(start, a) /\ CashAfter' = Totals(start, b)
    BY DEF CashAfter
  <2>. HIDE DEF a, b, start
  <2>3. /\ \A n \in 0..N : Totals(start, b)[n] = Totals(start, a)[n]
        /\ Totals(start, b)[N + 1] = Totals(start, a)[N] + b[N + 1]
    BY <2>1, TotalsAppend
  <2>. QED  BY <2>1, <2>2, <2>3
<1>5. ASSUME NEW s \in Symbol
      PROVE  /\ \A n \in 0..N : SharesAfter(s)'[n] = SharesAfter(s)[n]
             /\ SharesAfter(s)'[N + 1]
                  = SharesAfter(s)[N] + (IF o.symbol = s THEN Shares(o) ELSE 0)
  <2>1. /\ \A i \in 1..N : Deliveries(s)'[i] = Deliveries(s)[i]
        /\ Deliveries(s)'[N + 1] = IF o.symbol = s THEN Shares(o) ELSE 0
    BY <1>1 DEF Deliveries
  <2>2. Deliveries(s) \in [1..N -> Int] /\ Deliveries(s)' \in [1..(N + 1) -> Int]
    BY <1>2
  <2>. DEFINE a == Deliveries(s)
              b == Deliveries(s)'
  <2>3. SharesAfter(s) = Totals(0, a) /\ SharesAfter(s)' = Totals(0, b)
    BY DEF SharesAfter
  <2>4. /\ N \in Nat /\ 0 \in Int /\ a \in [1..N -> Int] /\ b \in [1..(N + 1) -> Int]
        /\ \A i \in 1..N : b[i] = a[i]
        /\ b[N + 1] = IF o.symbol = s THEN Shares(o) ELSE 0
    BY <1>1, <2>1, <2>2
  <2>. HIDE DEF a, b
  <2>5. /\ \A n \in 0..N : Totals(0, b)[n] = Totals(0, a)[n]
        /\ Totals(0, b)[N + 1] = Totals(0, a)[N] + b[N + 1]
    BY <2>4, TotalsAppend
  <2>. QED  BY <2>3, <2>4, <2>5
<1>6. N \in 0..N /\ \A n \in 1..(N + 1) : n \in 1..N \/ n = N + 1
  BY <1>1
<1>7. \A n \in 1..N : n \in 0..N
  BY <1>1
<1>8. cash' = CashAfter'[N + 1]
  BY <1>1, <1>4 DEF AccountIsReplayOfTrades, N
<1>9. \A n \in 1..(N + 1) : trades'[n].cashAfter = CashAfter'[n]
  <2>1. \A n \in 1..N : trades[n].cashAfter = CashAfter[n]
    BY DEF AccountIsReplayOfTrades, N
  <2>2. trades'[N + 1].cashAfter = cash'
    BY <1>1
  <2>. QED  BY <1>1, <1>4, <1>6, <1>7, <1>8, <2>1, <2>2
<1>10. ASSUME NEW s \in Symbol
       PROVE  /\ positions'[s] = SharesAfter(s)'[N + 1]
              /\ \A n \in 1..(N + 1) : SharesAfter(s)'[n] >= 0
  <2>1. /\ positions[s] = SharesAfter(s)[N]
        /\ \A n \in 1..N : SharesAfter(s)[n] >= 0
    BY DEF AccountIsReplayOfTrades, N
  <2>2. positions[s] \in Int /\ DOMAIN positions = Symbol
    BY DEF TypeOK
  <2>3. positions'[s] = positions[s] + (IF o.symbol = s THEN Shares(o) ELSE 0)
    BY <1>1, <2>2
  <2>4. positions'[s] = SharesAfter(s)'[N + 1]
    BY <1>5, <2>1, <2>3
  <2>5. positions'[s] >= 0
    BY DEF AccountIsCovered
  <2>. QED  BY <1>5, <1>6, <1>7, <2>1, <2>4, <2>5
<1>. QED  BY <1>1, <1>8, <1>9, <1>10 DEF AccountIsReplayOfTrades

\* At first there are no trades and the account is as it starts.
LEMMA InitReplay == PipelineAssumption /\ Init => AccountIsReplayOfTrades
<1>1. SUFFICES ASSUME PipelineAssumption, Init PROVE AccountIsReplayOfTrades
  OBVIOUS
<1>2. trades = <<>> /\ trades \in Seq(Trade) /\ Len(trades) = 0 /\ StartingCash \in Int
  BY <1>1 DEF Init, PipelineAssumption
<1>3. /\ CashFlows \in [1..0 -> Int]
      /\ \A s \in Symbol : Deliveries(s) \in [1..0 -> Int]
  <2>1. CashFlows = Flows(trades) /\ \A s : Deliveries(s) = Moves(trades, s)
    BY DEF CashFlows, Deliveries, Flows, Moves
  <2>. QED  BY <1>2, <2>1, FlowsType
<1>4. \A start \in Int : \A a \in [1..0 -> Int] : Totals(start, a)[0] = start
  <2>1. 0 \in Nat /\ 0 \in 0..0
    OBVIOUS
  <2>. QED  BY <2>1, TotalsStep DEF Running
<1>5. CashAfter[0] = StartingCash /\ \A s \in Symbol : SharesAfter(s)[0] = 0
  <2>1. 0 \in Int
    OBVIOUS
  <2>. QED  BY <1>2, <1>3, <1>4, <2>1, Zenon DEF CashAfter, SharesAfter
<1>. QED  BY <1>1, <1>2, <1>5 DEF Init, AccountIsReplayOfTrades

\* A step fills an order it accepts, or leaves the account as it is.
LEMMA FillOrNothing ==
    ASSUME PipelineAssumption, IInv, Next
    PROVE  AccountUnchanged \/ \E o \in Order : Fill(o)
<1>1. ASSUME NEW s \in Symbol, NEW side \in Side, NEW q \in Quantity, NEW p \in Price
      PROVE  [symbol |-> s, side |-> side, quantity |-> q, price |-> p] \in Order
  BY DEF Order, PipelineAssumption
<1>2. ASSUME NEW o \in Order, PlaceOrder(o)
      PROVE  AccountUnchanged \/ Fill(o)
  BY <1>2 DEF PlaceOrder
<1>3. ASSUME NEW d \in Decisions, Run(d)
      PROVE  AccountUnchanged \/ \E o \in Order : Fill(o)
  <2>1. CASE RunHold(d) \/ RunWithoutCash(d)
    BY <2>1 DEF RunHold, RunWithoutCash
  <2>2. ASSUME d.action # "HOLD", NEW s \in Symbol, RunSized(SizedOrder(s, d), d.evidence)
        PROVE  AccountUnchanged \/ \E o \in Order : Fill(o)
    <3>. DEFINE o == SizedOrder(s, d)
    <3>1. d.action \in Side /\ d.entry \in Nat \ {0} /\ d.stop \in Int
      BY <2>2, DecisionsAreFit DEF Side
    <3>2. o.symbol = s /\ o.side = d.action
      BY DEF SizedOrder
    <3>3. CASE o.quantity > 0 /\ (o.side = "SELL" => positions[o.symbol] >= o.quantity)
      <4>1. o \in Order
        BY <3>1, <3>2, <3>3, SizedIsAccepted DEF IInv
      <4>. HIDE DEF o
      <4>. QED  BY <2>2, <4>1 DEF RunSized, o
    <3>4. CASE ~(o.quantity > 0 /\ (o.side = "SELL" => positions[o.symbol] >= o.quantity))
      <4>. HIDE DEF o
      <4>. QED  BY <2>2, <3>4 DEF RunSized, o
    <3>. QED  BY <3>3, <3>4
  <2>. QED  BY <1>3, <2>1, <2>2 DEF Run
<1>4. CASE RunUndecided
  BY <1>4 DEF RunUndecided
<1>. QED  BY <1>1, <1>2, <1>3, <1>4 DEF Next

\* Every step keeps the account the replay of its trades.
LEMMA NextReplay ==
    PipelineAssumption /\ IInv /\ IInv' /\ AccountIsReplayOfTrades /\ [Next]_vars
        => AccountIsReplayOfTrades'
<1>1. SUFFICES ASSUME PipelineAssumption, IInv, IInv', AccountIsReplayOfTrades, [Next]_vars
               PROVE  AccountIsReplayOfTrades'
  OBVIOUS
<1>2. CASE AccountUnchanged
  BY <1>1, <1>2
     DEF AccountUnchanged, AccountIsReplayOfTrades, CashAfter, CashFlows, SharesAfter, Deliveries
<1>3. ASSUME NEW o \in Order, Fill(o) PROVE AccountIsReplayOfTrades'
  BY <1>1, <1>3, FillIsReplayed DEF IInv
<1>. QED  BY <1>1, <1>2, <1>3, FillOrNothing DEF vars, AccountUnchanged

\* For any number of trades, cash and positions of PaperAccount are what its trades
\* make of the starting cash, each trade reports the cash it left, and no sale ever
\* exceeded what had been bought before it.
THEOREM TradesExplainAccount == Spec => []AccountIsReplayOfTrades
<1>1. PipelineAssumption
  BY PipelineAssumption
<1>. QED  BY <1>1, Invariance, InitReplay, NextReplay, PTL DEF Spec
=============================================================================
