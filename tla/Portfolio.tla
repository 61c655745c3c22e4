----------------------------- MODULE Portfolio -----------------------------
(***************************************************************************)
(* Portfolio and PortfolioPosition (app/services/portfolio.py): a cash     *)
(* account whose positions carry a weighted average price and the profit   *)
(* realized so far, with a limit on what a position may have cost.         *)
(*                                                                         *)
(* Cash and prices are integers; averages and profits are exact fractions, *)
(* where the program has floats.  A position the program has created and   *)
(* never filled is the same as none: all that reads it weighs it with its  *)
(* quantity, zero.                                                         *)
(***************************************************************************)
EXTENDS Integers, FiniteSets, Functions

CONSTANTS Symbol,       \* the symbols traded
          StartingCash, \* starting_cash
          LimitPct,     \* max_position_pct, in percent
          OrderPrice,   \* the prices of orders
          Quantity,     \* the quantities of orders
          MaxTrades     \* bound: how many trades there are

ASSUME PortfolioAssumption ==
    /\ IsFiniteSet(Symbol)
    /\ StartingCash \in Nat \ {0}
    /\ LimitPct \in 1..100
    /\ OrderPrice \subseteq Nat \ {0}
    /\ Quantity \subseteq Nat \ {0}
    /\ MaxTrades \in Nat

VARIABLES
    cash,     \* the cash
    quantity, \* the quantity of each position
    average,  \* average_price of each position
    realized, \* realized_pnl of each position
    trades    \* how many records the journal has

portfolioVars == <<cash, quantity, average, realized, trades>>

\* Fractions n / d with a positive d.
Fraction(n, d) == [n |-> n, d |-> d]
Zero == Fraction(0, 1)
Plus(a, b) == IF a.d = b.d THEN Fraction(a.n + b.n, a.d)
              ELSE Fraction(a.n * b.d + b.n * a.d, a.d * b.d)
Times(k, a) == Fraction(k * a.n, a.d)
Equal(a, b) == a.n * b.d = b.n * a.d
AtMost(a, b) == a.n * b.d <= b.n * a.d

\* The type invariant: cash and quantities are never negative, and every fraction
\* has a positive denominator.
PortfolioTypeOK ==
    /\ cash \in Nat
    /\ quantity \in [Symbol -> Nat]
    /\ average \in [Symbol -> [n : Nat, d : Nat \ {0}]]
    /\ realized \in [Symbol -> [n : Int, d : Nat \ {0}]]
    /\ trades \in 0..MaxTrades

PortfolioInit ==
    /\ cash = StartingCash
    /\ quantity = [s \in Symbol |-> 0]
    /\ average = [s \in Symbol |-> Zero]
    /\ realized = [s \in Symbol |-> Zero]
    /\ trades = 0
-----------------------------------------------------------------------------
\* What the open quantity of s has cost.
CostOf(s) == Times(quantity[s], average[s])

\* Mutant: the limit is compared with the cost of the order alone.
WithinLimitAlone(s, cost) == 100 * cost <= StartingCash * LimitPct

\* The limit holds for the cost of the position with the order.
WithinLimit(s, cost) ==
    AtMost(Plus(CostOf(s), Fraction(cost, 1)), Fraction(StartingCash * LimitPct, 100))

\* Mutant: the average is the mean of the old average and the price.
AverageOfTwo(s, q, p) ==
    IF quantity[s] = 0 THEN Fraction(p, 1)
    ELSE Fraction(average[s].n + p * average[s].d, 2 * average[s].d)

\* The average price of position s with q more units at price p.
AverageWith(s, q, p) ==
    LET cost == Plus(CostOf(s), Fraction(q * p, 1))
    IN  Fraction(cost.n, cost.d * (quantity[s] + q))

\* Mutant: the order is not compared with the cash.
OnCredit(cost) == TRUE

\* The cash pays for the order.
Affordable(cost) == cost <= cash

\* buy(): refused, with nothing changed, when the cash or the limit is exceeded.
Buy(s, q, p) ==
    /\ Affordable(q * p)
    /\ WithinLimit(s, q * p)
    /\ average' = [average EXCEPT ![s] = AverageWith(s, q, p)]
    /\ quantity' = [quantity EXCEPT ![s] = @ + q]
    /\ cash' = cash - q * p
    /\ trades' = trades + 1
    /\ UNCHANGED realized

\* sell(): refused, with nothing changed, when the position is smaller.  The
\* average stays, until the position is closed.
Sell(s, q, p) ==
    /\ q <= quantity[s]
    /\ realized' = [realized EXCEPT
           ![s] = Plus(@, Times(q, Plus(Fraction(p, 1), Times(-1, average[s]))))]
    /\ quantity' = [quantity EXCEPT ![s] = @ - q]
    /\ average' = [average EXCEPT ![s] = IF q = quantity[s] THEN Zero ELSE @]
    /\ cash' = cash + q * p
    /\ trades' = trades + 1

PortfolioNext ==
    /\ trades < MaxTrades
    /\ \E s \in Symbol, q \in Quantity, p \in OrderPrice : Buy(s, q, p) \/ Sell(s, q, p)

PortfolioSpec == PortfolioInit /\ [][PortfolioNext]_portfolioVars
-----------------------------------------------------------------------------
\* The symbols in some order, and the running sums of what f has for each.
Order == CHOOSE o \in Bijection(1..Cardinality(Symbol), Symbol) : TRUE

Sums(f) ==
    LET sum[n \in 0..Cardinality(Symbol)] ==
            IF n = 0 THEN Zero ELSE Plus(sum[n - 1], f[Order[n]])
    IN  sum

Sum(f) == Sums(f)[Cardinality(Symbol)]

RealizedPnl == Sum(realized)

\* What the position in s gains at the marks: nothing, when it has none.
Unrealized(s, marks) ==
    IF s \in DOMAIN marks
    THEN Times(quantity[s], Plus(Fraction(marks[s], 1), Times(-1, average[s])))
    ELSE Zero

\* unrealized_pnl(marks).
UnrealizedPnl(marks) == Sum([s \in Symbol |-> Unrealized(s, marks)])

\* What the position in s is worth: at its mark or, without one, at its average.
MarketValue(s, marks) ==
    IF s \in DOMAIN marks THEN Fraction(quantity[s] * marks[s], 1) ELSE CostOf(s)

\* equity(marks).
Equity(marks) == Plus(Fraction(cash, 1), Sum([s \in Symbol |-> MarketValue(s, marks)]))

\* summary(marks), before rounding.
Summary(marks) ==
    [starting_cash  |-> StartingCash,
     cash           |-> cash,
     equity         |-> Equity(marks),
     realized_pnl   |-> RealizedPnl,
     unrealized_pnl |-> UnrealizedPnl(marks),
     open_positions |-> Cardinality({s \in Symbol : quantity[s] > 0}),
     trades         |-> trades]

\* A summary balances at any marks, for all the symbols, some of them or none:
\* whatever is bought and sold, in any order and in any portions, equity is the
\* starting cash, the realized and the unrealized profit, although the three are
\* computed apart and treat an unmarked position each in its own way; and with no
\* position open, equity is the cash.
SummaryBalances ==
    \A marked \in SUBSET Symbol : \A marks \in [marked -> OrderPrice] :
        LET summary == Summary(marks) IN
        /\ Equal(summary.equity,
                 Plus(Fraction(summary.starting_cash, 1),
                      Plus(summary.realized_pnl, summary.unrealized_pnl)))
        /\ summary.open_positions = 0 => Equal(summary.equity, Fraction(summary.cash, 1))

\* No sequence of purchases and partial sales takes a position over the limit on
\* what it may have cost.
PositionsWithinLimit ==
    \A s \in Symbol : AtMost(CostOf(s), Fraction(StartingCash * LimitPct, 100))
=============================================================================
