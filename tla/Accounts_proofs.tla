-------------------------- MODULE Accounts_proofs --------------------------
(***************************************************************************)
(* The two accounts that tell the profit apart from the cash.  The result  *)
(* of the backtest explains its capital, and its sizing is short by one    *)
(* fee at most.  The portfolio balances at any marks and keeps to its      *)
(* limit.  Both hold for every price, rate, quantity and number of trades. *)
(* The fractions of the portfolio are compared as parts of a common        *)
(* denominator; its sums are followed symbol by symbol.                    *)
(***************************************************************************)
EXTENDS Backtest, Portfolio, JournalFile_proofs

\* The amounts of money are integers, and those of a position are not negative.
LEMMA AmountTypes ==
    ASSUME BacktestAssumption, NEW units \in Nat, NEW at \in Nat
    PROVE  Value(units, at) \in Nat /\ FeeOn(units, at) \in Nat
BY DEF Value, FeeOn, BacktestAssumption

\* Prices with slippage are not negative, and an entry price is positive.
LEMMA PriceTypes ==
    ASSUME BacktestAssumption, NEW price \in Nat
    PROVE  /\ EntryPrice(price) \in Nat
           /\ ExitPrice(price) \in Nat
           /\ price > 0 => EntryPrice(price) > 0
<1>1. Scale \in Nat \ {0} /\ Slippage \in Nat /\ Slippage < Scale
  BY DEF BacktestAssumption
<1>2. Scale + Slippage \in Nat \ {0} /\ Scale - Slippage \in Nat
  BY <1>1
<1> QED BY <1>2 DEF EntryPrice, ExitPrice

\* No position amounts to nothing.
LEMMA NoUnits ==
    ASSUME BacktestAssumption, NEW at \in Nat
    PROVE  Value(0, at) = 0 /\ FeeOn(0, at) = 0
BY DEF Value, FeeOn, BacktestAssumption

\* The size of a new position is a number of units that the cash pays for, the
\* fee excepted.
LEMMA SizeFitsCapital ==
    ASSUME BacktestAssumption, TypeOK, NEW price \in Price, NEW stop \in StopDistance
    PROVE  /\ Size(price, stop) \in Nat
           /\ Size(price, stop) > 0 => Value(Size(price, stop), EntryPrice(price)) <= capital
<1>1. CASE capital <= 0
  BY <1>1 DEF Size
<1>2. CASE ~(capital <= 0)
  <2> DEFINE budget == capital * Risk
             step == stop * Scale * Scale * Scale
             unit == EntryPrice(price) * Scale
  <2>1. capital \in Nat /\ Risk \in Nat /\ Scale \in Nat \ {0} /\ stop \in Nat \ {0}
    BY <1>2 DEF TypeOK, BacktestAssumption
  <2>2. EntryPrice(price) \in Nat \ {0}
    BY PriceTypes DEF BacktestAssumption
  <2>3. unit \in Nat \ {0}
    BY <2>1, <2>2
  <2>4. budget \in Nat
    BY <2>1
  <2>5. step \in Nat \ {0}
    <3>1. stop * Scale \in Nat \ {0}
      BY <2>1
    <3>2. (stop * Scale) * Scale \in Nat \ {0}
      BY <2>1, <3>1
    <3> QED BY <2>1, <3>2
  <2>6. Size(price, stop) = Smaller(budget \div step, capital \div unit)
    BY <1>2 DEF Size
  <2>7. \A n \in Nat : Value(n, EntryPrice(price)) = n * unit
    BY <2>1, <2>2 DEF Value
  <2> HIDE DEF budget, step, unit
  <2>8. budget \div step \in Nat /\ capital \div unit \in Nat
    BY <2>1, <2>3, <2>4, <2>5
  <2>9. /\ Size(price, stop) \in Nat
        /\ Size(price, stop) <= capital \div unit
    BY <2>6, <2>8 DEF Smaller
  <2>10. \A n \in Nat : n <= capital \div unit => n * unit <= capital
    BY <2>1, <2>3
  <2> QED BY <2>7, <2>9, <2>10
<1> QED BY <1>1, <1>2

\* The inductive invariant: the equation needs the amounts to be integers, and the
\* bound on the shortage needs the position not to change while it is open.
IInv == TypeOK /\ ProfitsExplainCapital /\ ShortByFeeAtMost

\* The backtest starts with its capital and nothing else.
LEMMA InitIInv == BacktestAssumption /\ Init => IInv
<1> SUFFICES ASSUME BacktestAssumption, Init PROVE IInv
  OBVIOUS
<1>1. TypeOK
  <2>1. InitialCapital * Scale * Scale \in Int
    BY DEF BacktestAssumption
  <2>2. 0 \in 0..MaxRows
    BY DEF BacktestAssumption
  <2> QED BY <2>1, <2>2 DEF Init, TypeOK
<1>2. ProfitsExplainCapital
  BY NoUnits DEF Init, ProfitsExplainCapital, BacktestAssumption
<1> QED BY <1>1, <1>2 DEF IInv, Init, ShortByFeeAtMost

\* Opening a position moves its value and its fee out of the capital.
LEMMA EnterKeeps ==
    ASSUME BacktestAssumption, IInv, position = 0,
           NEW price \in Price, NEW stop \in StopDistance, Enter(price, stop)
    PROVE  /\ capital' \in Int /\ position' \in Nat /\ entry' \in Nat
           /\ result' = result
           /\ ProfitsExplainCapital' /\ ShortByFeeAtMost'
<1> DEFINE size == Size(price, stop)
           at == EntryPrice(price)
<1>1. TypeOK /\ ProfitsExplainCapital
  BY DEF IInv
<1>2. size \in Nat /\ (size > 0 => Value(size, at) <= capital)
  BY <1>1, SizeFitsCapital
<1>3. at \in Nat
  BY PriceTypes DEF BacktestAssumption
<1>4. position' = size /\ result' = result
  BY DEF Enter
<1>5. size = 0 => capital' = capital /\ entry' = entry
  BY DEF Enter
<1>6. size # 0 => /\ entry' = at
                  /\ capital' = capital - Value(size, at) - FeeOn(size, at)
  BY DEF Enter
<1> HIDE DEF size, at
<1>7. capital \in Int /\ entry \in Nat /\ result.profit \in Int /\ result.loss \in Int
  BY <1>1 DEF TypeOK
<1>8. capital = InitialCapital * Scale * Scale + result.profit - result.loss
  BY <1>1, <1>7, NoUnits DEF ProfitsExplainCapital
<1>9. CASE size = 0
  BY <1>4, <1>5, <1>7, <1>8, <1>9, NoUnits
     DEF ProfitsExplainCapital, ShortByFeeAtMost
<1>10. CASE size # 0
  <2>1. Value(size, at) \in Nat /\ FeeOn(size, at) \in Nat
    BY <1>2, <1>3, AmountTypes
  <2>2. entry' = at /\ capital' = capital - Value(size, at) - FeeOn(size, at)
    BY <1>6, <1>10
  <2>3. capital' \in Int
    BY <1>7, <2>1, <2>2
  <2>4. /\ Value(position', entry') = Value(size, at)
        /\ FeeOn(position', entry') = FeeOn(size, at)
    BY <1>4, <2>2
  <2>5. capital' + Value(position', entry') + FeeOn(position', entry') = capital
    BY <1>7, <2>1, <2>2, <2>4
  <2>6. capital' + FeeOn(position', entry') >= 0
    BY <1>2, <1>7, <1>10, <2>1, <2>2, <2>4
  <2>7. ProfitsExplainCapital'
    <3>1. ProfitsExplainCapital'
            <=> capital' + Value(position', entry') + FeeOn(position', entry')
                  = InitialCapital * Scale * Scale + result'.profit - result'.loss
      BY DEF ProfitsExplainCapital, Value, FeeOn
    <3> QED BY <1>4, <1>8, <2>5, <3>1
  <2>8. ShortByFeeAtMost'
    <3>1. ShortByFeeAtMost' <=> (position' > 0 => capital' + FeeOn(position', entry') >= 0)
      BY DEF ShortByFeeAtMost, FeeOn
    <3> QED BY <2>6, <3>1
  <2> QED BY <1>2, <1>3, <1>4, <2>2, <2>3, <2>7, <2>8
<1> QED BY <1>9, <1>10

\* Closing a position books the difference as its profit or loss.
LEMMA ExitKeeps ==
    ASSUME BacktestAssumption, IInv, NEW price \in Nat, Exit(price)
    PROVE  /\ capital' \in Int /\ position' = 0 /\ entry' = 0
           /\ result' \in [trades : Nat, wins : Nat, losses : Nat, profit : Nat, loss : Nat]
           /\ ProfitsExplainCapital' /\ ShortByFeeAtMost'
<1> DEFINE held == Value(position, entry)
           fee == FeeOn(position, entry)
           got == Proceeds(price)
           pnl == Profit(price)
<1>1. TypeOK /\ ProfitsExplainCapital
  BY DEF IInv
<1>2. capital \in Int /\ position \in Nat /\ entry \in Nat
      /\ result \in [trades : Nat, wins : Nat, losses : Nat, profit : Nat, loss : Nat]
  BY <1>1 DEF TypeOK
<1>3. held \in Nat /\ fee \in Nat
  BY <1>2, AmountTypes
<1>4. got \in Int
  <2>1. ExitPrice(price) \in Nat
    BY PriceTypes
  <2>2. /\ Value(position, ExitPrice(price)) \in Nat
        /\ FeeOn(position, ExitPrice(price)) \in Nat
    BY <1>2, <2>1, AmountTypes
  <2> QED BY <2>2 DEF Proceeds
<1>5. pnl = got - held - fee
  BY DEF Profit
<1>6. capital + held + fee = InitialCapital * Scale * Scale + result.profit - result.loss
  BY <1>1 DEF ProfitsExplainCapital
<1>7. capital' = capital + got /\ result' = WithTrade(pnl) /\ position' = 0 /\ entry' = 0
  BY DEF Exit
<1> HIDE DEF held, fee, got, pnl
<1>8. pnl \in Int
  BY <1>3, <1>4, <1>5
<1>9. result' \in [trades : Nat, wins : Nat, losses : Nat, profit : Nat, loss : Nat]
  BY <1>2, <1>7, <1>8 DEF WithTrade
<1>10. result'.profit - result'.loss = result.profit - result.loss + pnl
  BY <1>2, <1>7, <1>8 DEF WithTrade
<1>11. InitialCapital * Scale * Scale \in Int
  BY DEF BacktestAssumption
<1>12. capital' = InitialCapital * Scale * Scale + result'.profit - result'.loss
  <2>1. result'.profit \in Int /\ result'.loss \in Int /\ result.profit \in Int /\ result.loss \in Int
    BY <1>2, <1>9
  <2> QED BY <1>2, <1>3, <1>4, <1>5, <1>6, <1>7, <1>10, <1>11, <2>1
<1>13. ProfitsExplainCapital'
  <2>1. ProfitsExplainCapital'
          <=> capital' + Value(position', entry') + FeeOn(position', entry')
                = InitialCapital * Scale * Scale + result'.profit - result'.loss
    BY DEF ProfitsExplainCapital, Value, FeeOn
  <2>2. Value(position', entry') = 0 /\ FeeOn(position', entry') = 0
    BY <1>7, NoUnits
  <2>3. capital' \in Int
    BY <1>2, <1>4, <1>7
  <2> QED BY <1>12, <2>1, <2>2, <2>3
<1> QED BY <1>2, <1>4, <1>7, <1>9, <1>13 DEF ShortByFeeAtMost

\* Every candle keeps the invariant, and so does the end of the series.
LEMMA NextIInv == BacktestAssumption /\ IInv /\ [Next]_vars => IInv'
<1> SUFFICES ASSUME BacktestAssumption, IInv, [Next]_vars PROVE IInv'
  OBVIOUS
<1>0. TypeOK
  BY DEF IInv
<1>1. ASSUME NEW price \in Price, NEW up \in BOOLEAN, NEW stop \in StopDistance,
             Row(price, up, stop)
      PROVE  IInv'
  <2>1. rows' \in 0..MaxRows /\ close' \in Price \cup {0} /\ done' \in BOOLEAN
    BY <1>0, <1>1 DEF Row, TypeOK, BacktestAssumption
  <2>2. CASE position = 0 /\ Enter(price, stop)
    BY <1>0, <2>1, <2>2, EnterKeeps DEF IInv, TypeOK
  <2>3. CASE Exit(price)
    <3>1. price \in Nat
      BY DEF BacktestAssumption
    <3> QED BY <2>1, <2>3, <3>1, ExitKeeps DEF IInv, TypeOK
  <2>4. CASE UNCHANGED <<capital, position, entry, result>>
    BY <1>0, <2>1, <2>4
       DEF IInv, TypeOK, ProfitsExplainCapital, ShortByFeeAtMost, Value, FeeOn
  <2> QED BY <1>1, <2>2, <2>3, <2>4 DEF Row
<1>2. CASE Finish
  <2>1. rows' \in 0..MaxRows /\ close' \in Price \cup {0} /\ done' \in BOOLEAN /\ close \in Nat
    BY <1>0, <1>2 DEF Finish, TypeOK, BacktestAssumption
  <2>2. CASE Exit(close)
    BY <2>1, <2>2, ExitKeeps DEF IInv, TypeOK
  <2>3. CASE UNCHANGED <<capital, position, entry, result>>
    BY <1>0, <2>1, <2>3
       DEF IInv, TypeOK, ProfitsExplainCapital, ShortByFeeAtMost, Value, FeeOn
  <2> QED BY <1>2, <2>2, <2>3 DEF Finish
<1>3. CASE UNCHANGED vars
  BY <1>0, <1>3 DEF vars, IInv, TypeOK, ProfitsExplainCapital, ShortByFeeAtMost, Value, FeeOn
<1> QED BY <1>1, <1>2, <1>3 DEF Next

\* The inductive invariant holds throughout.
THEOREM Invariance == Spec => []IInv
<1>1. BacktestAssumption
  BY BacktestAssumption
<1> QED BY <1>1, InitIInv, NextIInv, PTL DEF Spec

\* Gross profit less gross loss is what the backtest earned, at every candle.
THEOREM ResultExplainsCapital == Spec => []ProfitsExplainCapital
<1>1. IInv => ProfitsExplainCapital
  BY DEF IInv
<1> QED BY <1>1, Invariance, PTL

\* An open position is paid for up to the fee of its entry.
THEOREM ShortageIsOneFee == Spec => []ShortByFeeAtMost
<1>1. IInv => ShortByFeeAtMost
  BY DEF IInv
<1> QED BY <1>1, Invariance, PTL
-----------------------------------------------------------------------------
\* The fractions: what the averages, the profits and the sums of them are.
Frac == [n : Int, d : Nat \ {0}]

\* The fraction a is k parts of m.
Parts(a, m, k) == k * a.d = a.n * m

\* A factor that is not zero can be cancelled.
LEMMA Cancel ==
    ASSUME NEW x \in Int, NEW y \in Int, NEW k \in Nat \ {0}, x * k = y * k
    PROVE  x = y
<1>1. (x - y) * k = 0
  OBVIOUS
<1>2. CASE x - y > 0
  <2>1. x - y \in Nat \ {0}
    BY <1>2
  <2>2. \A i, j \in Nat \ {0} : i * j # 0
    OBVIOUS
  <2>. QED  BY <1>1, <2>1, <2>2
<1>3. CASE x - y < 0
  <2>1. y - x \in Nat \ {0}
    BY <1>3
  <2>2. \A i, j \in Nat \ {0} : i * j # 0
    OBVIOUS
  <2>3. (y - x) * k = 0
    OBVIOUS
  <2>. QED  BY <2>1, <2>2, <2>3
<1>. QED  BY <1>2, <1>3

\* Products can be taken in any order.
LEMMA Reorder ==
    ASSUME NEW x \in Int, NEW y \in Int, NEW z \in Int
    PROVE  /\ (x * y) * z = (x * z) * y
           /\ (x * y) * z = (y * z) * x
           /\ (x * y) * z = x * (y * z)
           /\ x * y = y * x
           /\ x * y \in Int
OBVIOUS

\* Sums and products of fractions are fractions.
LEMMA FracTypes ==
    ASSUME NEW a \in Frac, NEW b \in Frac, NEW k \in Int
    PROVE  /\ Plus(a, b) \in Frac
           /\ Times(k, a) \in Frac
           /\ Fraction(k, 1) \in Frac
           /\ Zero \in Frac
<1>1. a.n \in Int /\ a.d \in Nat \ {0} /\ b.n \in Int /\ b.d \in Nat \ {0}
  BY DEF Frac
<1>2. \A i, j \in Nat \ {0} : i * j \in Nat \ {0}
  OBVIOUS
<1>3. a.d * b.d \in Nat \ {0}
  BY <1>1, <1>2
<1>4. a.n * b.d + b.n * a.d \in Int /\ a.n + b.n \in Int /\ k * a.n \in Int
  BY <1>1
<1>. QED  BY <1>1, <1>3, <1>4 DEF Plus, Times, Fraction, Zero, Frac

\* A sum of parts.
LEMMA PlusParts ==
    ASSUME NEW a \in Frac, NEW b \in Frac, NEW m \in Nat \ {0}, NEW x \in Int, NEW y \in Int,
           Parts(a, m, x), Parts(b, m, y)
    PROVE  Parts(Plus(a, b), m, x + y)
<1>. DEFINE an == a.n
            ad == a.d
            bn == b.n
            bd == b.d
<1>1. an \in Int /\ ad \in Int /\ bn \in Int /\ bd \in Int
  BY DEF Frac
<1>2. x * ad = an * m /\ y * bd = bn * m
  BY DEF Parts
<1>3. Plus(a, b) = IF ad = bd THEN Fraction(an + bn, ad) ELSE Fraction(an * bd + bn * ad, ad * bd)
  BY DEF Plus
<1>4. /\ Fraction(an + bn, ad).n = an + bn /\ Fraction(an + bn, ad).d = ad
      /\ Fraction(an * bd + bn * ad, ad * bd).n = an * bd + bn * ad
      /\ Fraction(an * bd + bn * ad, ad * bd).d = ad * bd
  BY DEF Fraction
<1>. HIDE DEF an, ad, bn, bd
<1>5. CASE ad = bd
  <2>1. (x + y) * ad = x * ad + y * ad
    BY <1>1
  <2>2. (an + bn) * m = an * m + bn * m
    BY <1>1
  <2>. QED  BY <1>2, <1>3, <1>4, <1>5, <2>1, <2>2 DEF Parts
<1>6. CASE ad # bd
  <2>1. (x + y) * (ad * bd) = (x * ad) * bd + (y * bd) * ad
    BY <1>1
  <2>2. (an * bd + bn * ad) * m = (an * m) * bd + (bn * m) * ad
    BY <1>1
  <2>. QED  BY <1>2, <1>3, <1>4, <1>6, <2>1, <2>2 DEF Parts
<1>. QED  BY <1>5, <1>6

\* A multiple of parts, and parts of a whole number.
LEMMA TimesParts ==
    ASSUME NEW a \in Frac, NEW m \in Nat \ {0}, NEW x \in Int, NEW k \in Int, Parts(a, m, x)
    PROVE  Parts(Times(k, a), m, k * x)
<1>. DEFINE an == a.n
            ad == a.d
<1>1. an \in Int /\ ad \in Int /\ x * ad = an * m
  BY DEF Frac, Parts
<1>2. Times(k, a).n = k * an /\ Times(k, a).d = ad
  BY DEF Times, Fraction
<1>. HIDE DEF an, ad
<1>3. (k * x) * ad = k * (x * ad) /\ (k * an) * m = k * (an * m)
  BY <1>1
<1>. QED  BY <1>1, <1>2, <1>3 DEF Parts

LEMMA WholeParts ==
    ASSUME NEW m \in Nat \ {0}, NEW k \in Int
    PROVE  Parts(Fraction(k, 1), m, k * m) /\ Parts(Zero, m, 0)
BY DEF Parts, Fraction, Zero

\* Fractions are equal when they are equally many parts.
LEMMA EqualParts ==
    ASSUME NEW a \in Frac, NEW b \in Frac, NEW m \in Nat \ {0}, NEW x \in Int, NEW y \in Int,
           Parts(a, m, x), Parts(b, m, y)
    PROVE  Equal(a, b) <=> x = y
<1>. DEFINE an == a.n
            ad == a.d
            bn == b.n
            bd == b.d
<1>1. an \in Int /\ ad \in Nat \ {0} /\ bn \in Int /\ bd \in Nat \ {0}
  BY DEF Frac
<1>2. x * ad = an * m /\ y * bd = bn * m
  BY DEF Parts
<1>3. Equal(a, b) <=> an * bd = bn * ad
  BY DEF Equal
<1>. HIDE DEF an, ad, bn, bd
<1>4. (an * bd) * m = (an * m) * bd /\ (bn * ad) * m = (bn * m) * ad
  BY <1>1, Reorder
<1>5. (x * ad) * bd = x * (ad * bd) /\ (y * bd) * ad = y * (ad * bd)
  BY <1>1
<1>6. (an * bd) * m = x * (ad * bd) /\ (bn * ad) * m = y * (ad * bd)
  BY <1>2, <1>4, <1>5
<1>7. ad * bd \in Nat \ {0}
  <2>1. \A i, j \in Nat \ {0} : i * j \in Nat \ {0}
    OBVIOUS
  <2>. QED  BY <1>1, <2>1
<1>8. an * bd \in Int /\ bn * ad \in Int
  BY <1>1
<1>9. x = y => an * bd = bn * ad
  BY <1>6, <1>8, Cancel
<1>10. an * bd = bn * ad => x = y
  BY <1>6, <1>7, Cancel
<1>. QED  BY <1>3, <1>9, <1>10

\* What is equal to a fraction is as many parts of it.
LEMMA SameParts ==
    ASSUME NEW a \in Frac, NEW b \in Frac, NEW m \in Nat \ {0}, NEW x \in Int,
           Parts(a, m, x), Equal(a, b)
    PROVE  Parts(b, m, x)
<1>. DEFINE an == a.n
            ad == a.d
            bn == b.n
            bd == b.d
<1>1. an \in Int /\ ad \in Nat \ {0} /\ bn \in Int /\ bd \in Nat \ {0}
  BY DEF Frac
<1>2. x * ad = an * m /\ an * bd = bn * ad
  BY DEF Parts, Equal
<1>3. Parts(b, m, x) <=> x * bd = bn * m
  BY DEF Parts
<1>. HIDE DEF an, ad, bn, bd
<1>4. (x * bd) * ad = (x * ad) * bd /\ (bn * m) * ad = (bn * ad) * m
  BY <1>1, Reorder
<1>5. (an * m) * bd = (an * bd) * m
  BY <1>1, Reorder
<1>6. (x * bd) * ad = (bn * m) * ad
  BY <1>2, <1>4, <1>5
<1>7. x * bd \in Int /\ bn * m \in Int
  BY <1>1
<1>. QED  BY <1>1, <1>3, <1>6, <1>7, Cancel

\* Four fractions have a common denominator.
LEMMA CommonParts ==
    ASSUME NEW a \in Frac, NEW b \in Frac, NEW c \in Frac, NEW e \in Frac
    PROVE  \E m \in Nat \ {0}, x, y, z, w \in Int :
               Parts(a, m, x) /\ Parts(b, m, y) /\ Parts(c, m, z) /\ Parts(e, m, w)
<1>. DEFINE an == a.n
            ad == a.d
            bn == b.n
            bd == b.d
            cn == c.n
            cd == c.d
            en == e.n
            ed == e.d
            m == (ad * bd) * (cd * ed)
            x == an * (bd * (cd * ed))
            y == bn * (ad * (cd * ed))
            z == cn * (ed * (ad * bd))
            w == en * (cd * (ad * bd))
<1>1. /\ an \in Int /\ ad \in Nat \ {0} /\ bn \in Int /\ bd \in Nat \ {0}
      /\ cn \in Int /\ cd \in Nat \ {0} /\ en \in Int /\ ed \in Nat \ {0}
  BY DEF Frac
<1>2. /\ Parts(a, m, x) <=> x * ad = an * m
      /\ Parts(b, m, y) <=> y * bd = bn * m
      /\ Parts(c, m, z) <=> z * cd = cn * m
      /\ Parts(e, m, w) <=> w * ed = en * m
  BY DEF Parts
<1>. HIDE DEF an, ad, bn, bd, cn, cd, en, ed
<1>3. \A i, j \in Nat \ {0} : i * j \in Nat \ {0}
  OBVIOUS
<1>4. m \in Nat \ {0}
  BY <1>1, <1>3
<1>5. x \in Int /\ y \in Int /\ z \in Int /\ w \in Int
  BY <1>1
<1>6. x * ad = an * m /\ y * bd = bn * m /\ z * cd = cn * m /\ w * ed = en * m
  BY <1>1
<1>. HIDE DEF m, x, y, z, w
<1>. QED  BY <1>2, <1>4, <1>5, <1>6

\* Sums of equals, taken in another order.
LEMMA Exchange ==
    ASSUME NEW a \in Frac, NEW b \in Frac, NEW c \in Frac, NEW e \in Frac,
           NEW g \in Frac, NEW h \in Frac, Equal(g, Plus(a, b)), Equal(h, Plus(c, e))
    PROVE  Equal(Plus(g, h), Plus(Plus(a, c), Plus(b, e)))
<1>1. PICK m \in Nat \ {0}, x, y, z, w \in Int :
          Parts(a, m, x) /\ Parts(b, m, y) /\ Parts(c, m, z) /\ Parts(e, m, w)
  BY CommonParts
<1>2. /\ Plus(a, b) \in Frac /\ Plus(c, e) \in Frac /\ Plus(g, h) \in Frac
      /\ Plus(a, c) \in Frac /\ Plus(b, e) \in Frac
  BY FracTypes
<1>3. Plus(Plus(a, c), Plus(b, e)) \in Frac
  BY <1>2, FracTypes
<1>4. /\ x + y \in Int /\ z + w \in Int /\ x + z \in Int /\ y + w \in Int
      /\ (x + y) + (z + w) = (x + z) + (y + w) /\ (x + y) + (z + w) \in Int
  OBVIOUS
<1>5. Equal(Plus(a, b), g) /\ Equal(Plus(c, e), h)
  BY DEF Equal
<1>6. Parts(g, m, x + y)
  <2>1. Parts(Plus(a, b), m, x + y)
    BY <1>1, PlusParts
  <2>. QED  BY <1>2, <1>4, <1>5, <2>1, SameParts
<1>7. Parts(h, m, z + w)
  <2>1. Parts(Plus(c, e), m, z + w)
    BY <1>1, PlusParts
  <2>. QED  BY <1>2, <1>4, <1>5, <2>1, SameParts
<1>8. Parts(Plus(g, h), m, (x + y) + (z + w))
  BY <1>4, <1>6, <1>7, PlusParts
<1>9. Parts(Plus(a, c), m, x + z) /\ Parts(Plus(b, e), m, y + w)
  BY <1>1, PlusParts
<1>10. Parts(Plus(Plus(a, c), Plus(b, e)), m, (x + z) + (y + w))
  BY <1>2, <1>4, <1>9, PlusParts
<1>. QED  BY <1>2, <1>3, <1>4, <1>8, <1>10, EqualParts

-----------------------------------------------------------------------------
\* How many symbols there are.
SymbolCount == Cardinality(Symbol)

\* The order of the symbols has each once.
LEMMA OrderIsBijection ==
    /\ SymbolCount \in Nat
    /\ Order \in [1..SymbolCount -> Symbol]
    /\ \A i, j \in 1..SymbolCount : Order[i] = Order[j] => i = j
    /\ \A s \in Symbol : \E i \in 1..SymbolCount : Order[i] = s
<1>1. SymbolCount \in Nat /\ Bijection(1..SymbolCount, Symbol) # {}
  BY PortfolioAssumption, FS_CardinalityType DEF PortfolioAssumption, SymbolCount, ExistsBijection
<1>2. Order \in Bijection(1..SymbolCount, Symbol)
  BY <1>1 DEF Order, SymbolCount
<1>. HIDE DEF SymbolCount
<1>3. /\ Order \in [1..SymbolCount -> Symbol]
      /\ IsInjective(Order)
      /\ \A s \in Symbol : \E i \in 1..SymbolCount : Order[i] = s
  BY <1>2, Zenon DEF Bijection, Injection, Surjection
<1>4. DOMAIN Order = 1..SymbolCount
  BY <1>3
<1>. QED  BY <1>1, <1>3, <1>4 DEF IsInjective

\* What holds at zero, and at each number when it holds at the one before, holds at
\* every number up to N.
LEMMA UpTo ==
    ASSUME NEW N \in Nat, NEW T, 0 \in T, \A k \in 1..N : k - 1 \in T => k \in T
    PROVE  \A k \in 0..N : k \in T
<1>. DEFINE Missing == {k \in 0..N : k \notin T}
<1>1. SUFFICES ASSUME Missing # {} PROVE FALSE
  OBVIOUS
<1>2. Missing \subseteq Nat
  OBVIOUS
<1>3. PICK k \in Missing : \A m \in Missing : k <= m
  BY <1>1, <1>2, SmallestIn
<1>4. k \in 0..N /\ k \notin T /\ k # 0
  BY <1>3
<1>5. k - 1 \in 0..N /\ k \in 1..N /\ ~(k <= k - 1)
  BY <1>4
<1>6. k - 1 \in T
  BY <1>3, <1>5
<1>. QED  BY <1>4, <1>5, <1>6

\* The n-th of the sums t of f follows from the one before.
SumStep(t, f, n) == t[n] = IF n = 0 THEN Zero ELSE Plus(t[n - 1], f[Order[n]])

\* There are sums of any fractions.
LEMMA SumsExist ==
    ASSUME NEW f \in [Symbol -> Frac]
    PROVE  \E t \in [0..SymbolCount -> Frac] : \A n \in 0..SymbolCount : SumStep(t, f, n)
<1>. DEFINE Partial(k) == \E t \in [0..k -> Frac] : \A n \in 0..k : SumStep(t, f, n)
            T == {k \in Nat : Partial(k)}
<1>0. SymbolCount \in Nat /\ Zero \in Frac
  BY OrderIsBijection DEF Zero, Fraction, Frac
<1>1. Partial(0)
  <2>1. [n \in 0..0 |-> Zero] \in [0..0 -> Frac]
    BY <1>0
  <2>2. \A n \in 0..0 : SumStep([m \in 0..0 |-> Zero], f, n)
    BY DEF SumStep
  <2>. QED  BY <2>1, <2>2
<1>2. ASSUME NEW k \in 1..SymbolCount, Partial(k - 1) PROVE Partial(k)
  <2>1. PICK t \in [0..(k - 1) -> Frac] : \A n \in 0..(k - 1) : SumStep(t, f, n)
    BY <1>2
  <2>. DEFINE u == [n \in 0..k |-> IF n = k THEN Plus(t[k - 1], f[Order[k]]) ELSE t[n]]
  <2>2. t[k - 1] \in Frac /\ f[Order[k]] \in Frac
    <3>1. k - 1 \in 0..(k - 1)
      BY <1>0
    <3>2. Order[k] \in Symbol
      BY OrderIsBijection
    <3>. QED  BY <3>1, <3>2
  <2>3. Plus(t[k - 1], f[Order[k]]) \in Frac
    BY <2>2, FracTypes
  <2>4. \A n \in 0..k : n # k => n \in 0..(k - 1)
    BY <1>0
  <2>5. u \in [0..k -> Frac]
    BY <2>3, <2>4
  <2>6. ASSUME NEW n \in 0..k PROVE SumStep(u, f, n)
    <3>1. n # 0 => n - 1 \in 0..k /\ n - 1 # k
      BY <1>0
    <3>2. CASE n = k
      <4>1. k # 0 /\ u[k] = Plus(t[k - 1], f[Order[k]]) /\ u[k - 1] = t[k - 1]
        BY <1>0, <3>1, <3>2
      <4>. HIDE DEF u
      <4>. QED  BY <3>2, <4>1 DEF SumStep
    <3>3. CASE n # k
      <4>1. n \in 0..(k - 1)
        BY <2>4, <3>3
      <4>2. u[n] = t[n] /\ (n # 0 => u[n - 1] = t[n - 1])
        BY <3>1, <3>3
      <4>. HIDE DEF u
      <4>. QED  BY <2>1, <4>1, <4>2 DEF SumStep
    <3>. QED  BY <3>2, <3>3
  <2>. HIDE DEF u
  <2>. QED  BY <2>5, <2>6
<1>. HIDE DEF Partial
<1>3. \A k \in 1..SymbolCount : k - 1 \in T => k \in T
  BY <1>0, <1>2
<1>4. \A k \in 0..SymbolCount : k \in T
  <2>1. 0 \in T
    BY <1>1
  <2>. HIDE DEF T
  <2>. QED  BY <1>0, <1>3, <2>1, UpTo
<1>5. Partial(SymbolCount)
  BY <1>0, <1>4
<1>. QED  BY <1>5 DEF Partial

\* The sums of f are fractions that follow from each other.
LEMMA SumsStep ==
    ASSUME NEW f \in [Symbol -> Frac]
    PROVE  \A n \in 0..SymbolCount : Sums(f)[n] \in Frac /\ SumStep(Sums(f), f, n)
<1>. DEFINE Body(t) == [n \in 0..SymbolCount |-> IF n = 0 THEN Zero ELSE Plus(t[n - 1], f[Order[n]])]
            t == Sums(f)
            T == {n \in Nat : t[n] \in Frac}
<1>0. SymbolCount \in Nat /\ Zero \in Frac
  BY OrderIsBijection DEF Zero, Fraction, Frac
<1>1. \E u : u = Body(u)
  <2>1. PICK u \in [0..SymbolCount -> Frac] : \A n \in 0..SymbolCount : SumStep(u, f, n)
    BY SumsExist
  <2>2. u = [n \in 0..SymbolCount |-> IF n = 0 THEN Zero ELSE Plus(u[n - 1], f[Order[n]])]
    BY <2>1 DEF SumStep
  <2>. QED  BY <2>2
<1>2. t = CHOOSE u : u = Body(u)
  BY DEF Sums, SymbolCount
<1>. HIDE DEF t
<1>3. t = Body(t)
  BY <1>1, <1>2
<1>4. \A n \in 0..SymbolCount : SumStep(t, f, n)
  BY <1>3 DEF SumStep
<1>5. \A n \in 1..SymbolCount : n - 1 \in T => n \in T
  <2>1. SUFFICES ASSUME NEW n \in 1..SymbolCount, t[n - 1] \in Frac PROVE t[n] \in Frac
    BY <1>0
  <2>2. n \in 0..SymbolCount /\ n # 0
    BY <1>0
  <2>3. t[n] = Plus(t[n - 1], f[Order[n]])
    BY <1>4, <2>2 DEF SumStep
  <2>4. f[Order[n]] \in Frac
    BY OrderIsBijection
  <2>. QED  BY <2>1, <2>3, <2>4, FracTypes
<1>6. \A n \in 0..SymbolCount : n \in T
  <2>1. 0 \in T
    BY <1>0, <1>4 DEF SumStep
  <2>. HIDE DEF T
  <2>. QED  BY <1>0, <1>5, <2>1, UpTo
<1>. QED  BY <1>4, <1>6 DEF t

\* What is a sum for every symbol is a sum for all together.
LEMMA SumPlus ==
    ASSUME NEW f \in [Symbol -> Frac], NEW g \in [Symbol -> Frac], NEW h \in [Symbol -> Frac],
           \A s \in Symbol : Equal(h[s], Plus(f[s], g[s]))
    PROVE  Equal(Sum(h), Plus(Sum(f), Sum(g)))
<1>. DEFINE F == Sums(f)
            G == Sums(g)
            H == Sums(h)
            T == {n \in Nat : Equal(H[n], Plus(F[n], G[n]))}
<1>0. SymbolCount \in Nat
  BY OrderIsBijection
<1>1. \A n \in 0..SymbolCount : F[n] \in Frac /\ SumStep(F, f, n)
  BY SumsStep
<1>2. \A n \in 0..SymbolCount : G[n] \in Frac /\ SumStep(G, g, n)
  BY SumsStep
<1>3. \A n \in 0..SymbolCount : H[n] \in Frac /\ SumStep(H, h, n)
  BY SumsStep
<1>. HIDE DEF F, G, H
<1>4. 0 \in T
  <2>1. F[0] = Zero /\ G[0] = Zero /\ H[0] = Zero
    BY <1>0, <1>1, <1>2, <1>3 DEF SumStep
  <2>2. Equal(Zero, Plus(Zero, Zero))
    BY DEF Equal, Plus, Zero, Fraction
  <2>. QED  BY <2>1, <2>2
<1>5. ASSUME NEW n \in 1..SymbolCount, n - 1 \in T PROVE n \in T
  <2>1. n \in 0..SymbolCount /\ n # 0 /\ n - 1 \in 0..SymbolCount /\ n \in Nat
    BY <1>0
  <2>2. /\ F[n] = Plus(F[n - 1], f[Order[n]])
        /\ G[n] = Plus(G[n - 1], g[Order[n]])
        /\ H[n] = Plus(H[n - 1], h[Order[n]])
    BY <1>1, <1>2, <1>3, <2>1 DEF SumStep
  <2>3. Order[n] \in Symbol
    BY OrderIsBijection
  <2>4. /\ f[Order[n]] \in Frac /\ g[Order[n]] \in Frac /\ h[Order[n]] \in Frac
        /\ Equal(h[Order[n]], Plus(f[Order[n]], g[Order[n]]))
    BY <2>3
  <2>5. F[n - 1] \in Frac /\ G[n - 1] \in Frac /\ H[n - 1] \in Frac
    BY <1>1, <1>2, <1>3, <2>1
  <2>6. Equal(H[n - 1], Plus(F[n - 1], G[n - 1]))
    BY <1>5
  <2>7. Equal(Plus(H[n - 1], h[Order[n]]),
              Plus(Plus(F[n - 1], f[Order[n]]), Plus(G[n - 1], g[Order[n]])))
    BY <2>4, <2>5, <2>6, Exchange
  <2>. QED  BY <2>1, <2>2, <2>7
<1>6. \A n \in 0..SymbolCount : n \in T
  <2>. HIDE DEF T
  <2>. QED  BY <1>0, <1>4, <1>5, UpTo
<1>7. Equal(H[SymbolCount], Plus(F[SymbolCount], G[SymbolCount]))
  BY <1>0, <1>6
<1>. QED  BY <1>7 DEF F, G, H, Sum, SymbolCount

\* Adding zero changes nothing.
LEMMA PlusZero ==
    ASSUME NEW a \in Frac
    PROVE  Plus(a, Zero) = a /\ Plus(Zero, a) = a
<1>1. PICK n \in Int, d \in Nat \ {0} : a = [n |-> n, d |-> d]
  BY DEF Frac
<1>2. n * 1 + 0 * d = n /\ d * 1 = d /\ 0 * d + n * 1 = n /\ 1 * d = d /\ n + 0 = n /\ 0 + n = n
  OBVIOUS
<1>. QED  BY <1>1, <1>2 DEF Plus, Zero, Fraction

\* The sum of one fraction and zeros.
LEMMA SumOne ==
    ASSUME NEW s \in Symbol, NEW x \in Frac
    PROVE  Sum([t \in Symbol |-> IF t = s THEN x ELSE Zero]) = x
<1>. DEFINE e == [t \in Symbol |-> IF t = s THEN x ELSE Zero]
            E == Sums(e)
<1>0. SymbolCount \in Nat /\ Zero \in Frac
  BY OrderIsBijection DEF Zero, Fraction, Frac
<1>1. e \in [Symbol -> Frac]
  BY <1>0
<1>2. PICK j \in 1..SymbolCount : Order[j] = s
  BY OrderIsBijection
<1>3. \A n \in 0..SymbolCount : E[n] \in Frac /\ SumStep(E, e, n)
  BY <1>1, SumsStep
<1>4. \A n \in 1..SymbolCount : e[Order[n]] = IF n = j THEN x ELSE Zero
  BY <1>2, OrderIsBijection
<1>. DEFINE T == {n \in Nat : E[n] = IF n < j THEN Zero ELSE x}
<1>. HIDE DEF E, e
<1>5. 0 \in T
  <2>1. E[0] = Zero
    BY <1>0, <1>3 DEF SumStep
  <2>. QED  BY <1>0, <2>1
<1>6. ASSUME NEW n \in 1..SymbolCount, n - 1 \in T PROVE n \in T
  <2>1. n \in 0..SymbolCount /\ n # 0 /\ n - 1 \in 0..SymbolCount /\ n \in Nat
    BY <1>0
  <2>2. E[n] = Plus(E[n - 1], e[Order[n]])
    BY <1>3, <2>1 DEF SumStep
  <2>3. E[n - 1] = IF n - 1 < j THEN Zero ELSE x
    BY <1>6
  <2>4. e[Order[n]] = IF n = j THEN x ELSE Zero
    BY <1>4
  <2>5. Plus(Zero, x) = x /\ Plus(x, Zero) = x /\ Plus(Zero, Zero) = Zero
    BY <1>0, PlusZero
  <2>6. CASE n < j
    BY <1>0, <2>1, <2>2, <2>3, <2>4, <2>5, <2>6
  <2>7. CASE n = j
    BY <1>0, <2>1, <2>2, <2>3, <2>4, <2>5, <2>7
  <2>8. CASE n > j
    BY <1>0, <2>1, <2>2, <2>3, <2>4, <2>5, <2>8
  <2>. QED  BY <1>0, <2>6, <2>7, <2>8
<1>7. \A n \in 0..SymbolCount : n \in T
  <2>. HIDE DEF T
  <2>. QED  BY <1>0, <1>5, <1>6, UpTo
<1>8. E[SymbolCount] = x
  BY <1>0, <1>7
<1>. QED  BY <1>8 DEF E, e, Sum, SymbolCount

\* When one symbol has more by x, the sum has.
LEMMA SumUpdate ==
    ASSUME NEW f \in [Symbol -> Frac], NEW g \in [Symbol -> Frac], NEW s \in Symbol, NEW x \in Frac,
           \A t \in Symbol : t # s => g[t] = f[t],
           Equal(g[s], Plus(f[s], x))
    PROVE  Equal(Sum(g), Plus(Sum(f), x))
<1>. DEFINE e == [t \in Symbol |-> IF t = s THEN x ELSE Zero]
<1>1. e \in [Symbol -> Frac]
  BY DEF Zero, Fraction, Frac
<1>2. ASSUME NEW t \in Symbol PROVE Equal(g[t], Plus(f[t], e[t]))
  <2>1. CASE t = s
    BY <2>1
  <2>2. CASE t # s
    <3>1. f[t] \in Frac /\ g[t] = f[t] /\ e[t] = Zero
      BY <2>2
    <3>2. Plus(f[t], Zero) = f[t]
      BY <3>1, PlusZero
    <3>. QED  BY <3>1, <3>2 DEF Equal
  <2>. QED  BY <2>1, <2>2
<1>3. Sum(e) = x
  BY SumOne
<1>. HIDE DEF e
<1>4. Equal(Sum(g), Plus(Sum(f), Sum(e)))
  BY <1>1, <1>2, SumPlus
<1>. QED  BY <1>3, <1>4

\* The sum of nothings is nothing.
LEMMA SumZero ==
    ASSUME NEW f \in [Symbol -> Frac], \A s \in Symbol : Equal(f[s], Zero)
    PROVE  Sum(f) \in Frac /\ Equal(Sum(f), Zero)
<1>. DEFINE F == Sums(f)
            T == {n \in Nat : Equal(F[n], Zero)}
<1>0. SymbolCount \in Nat /\ Zero \in Frac
  BY OrderIsBijection DEF Zero, Fraction, Frac
<1>1. \A n \in 0..SymbolCount : F[n] \in Frac /\ SumStep(F, f, n)
  BY SumsStep
<1>. HIDE DEF F
<1>2. 0 \in T
  <2>1. F[0] = Zero
    BY <1>0, <1>1 DEF SumStep
  <2>. QED  BY <2>1 DEF Equal
<1>3. ASSUME NEW n \in 1..SymbolCount, n - 1 \in T PROVE n \in T
  <2>1. n \in 0..SymbolCount /\ n # 0 /\ n - 1 \in 0..SymbolCount /\ n \in Nat
    BY <1>0
  <2>2. F[n] = Plus(F[n - 1], f[Order[n]])
    BY <1>1, <2>1 DEF SumStep
  <2>3. f[Order[n]] \in Frac /\ Equal(f[Order[n]], Zero)
    BY OrderIsBijection
  <2>4. F[n - 1] \in Frac /\ Equal(F[n - 1], Zero)
    BY <1>1, <1>3, <2>1
  <2>5. Equal(Zero, Plus(Zero, Zero)) /\ Plus(Zero, Zero) = Zero
    BY <1>0, PlusZero DEF Equal
  <2>6. Equal(Plus(F[n - 1], f[Order[n]]), Plus(Plus(Zero, Zero), Plus(Zero, Zero)))
    BY <1>0, <2>3, <2>4, <2>5, Exchange
  <2>. QED  BY <2>1, <2>2, <2>5, <2>6
<1>4. \A n \in 0..SymbolCount : n \in T
  <2>. HIDE DEF T
  <2>. QED  BY <1>0, <1>2, <1>3, UpTo
<1>5. F[SymbolCount] \in Frac /\ Equal(F[SymbolCount], Zero)
  BY <1>0, <1>1, <1>4
<1>. QED  BY <1>5 DEF F, Sum, SymbolCount

\* Sums of fractions are fractions.
LEMMA SumType ==
    ASSUME NEW f \in [Symbol -> Frac]
    PROVE  Sum(f) \in Frac
<1>1. SymbolCount \in Nat
  BY OrderIsBijection
<1>2. SymbolCount \in 0..SymbolCount
  BY <1>1
<1>3. Sums(f)[SymbolCount] \in Frac
  BY <1>2, SumsStep
<1>. QED  BY <1>3 DEF Sum, SymbolCount
-----------------------------------------------------------------------------
\* What the open quantities of all symbols have cost.
Costs == [s \in Symbol |-> CostOf(s)]

\* The cash and what was paid for the open positions are the starting cash and what
\* was realized.
Balanced ==
    Equal(Plus(Fraction(cash, 1), Sum(Costs)), Plus(Fraction(StartingCash, 1), Sum(realized)))

\* The inductive invariant.
PortfolioInv == PortfolioTypeOK /\ Balanced /\ PositionsWithinLimit

\* The costs and the profits are fractions.
LEMMA BookTypes ==
    ASSUME PortfolioTypeOK
    PROVE  /\ Costs \in [Symbol -> Frac]
           /\ realized \in [Symbol -> Frac]
           /\ \A s \in Symbol : /\ quantity[s] \in Nat /\ average[s] \in Frac
                                /\ average[s].n \in Nat /\ average[s].d \in Nat \ {0}
                                /\ CostOf(s) \in Frac
                                /\ CostOf(s).n = quantity[s] * average[s].n
                                /\ CostOf(s).d = average[s].d
           /\ cash \in Nat /\ StartingCash \in Nat \ {0} /\ LimitPct \in Nat \ {0}
<1>1. /\ cash \in Nat /\ StartingCash \in Nat \ {0} /\ LimitPct \in Nat \ {0}
      /\ realized \in [Symbol -> Frac]
  BY PortfolioAssumption DEF PortfolioAssumption, PortfolioTypeOK, Frac
<1>2. ASSUME NEW s \in Symbol
      PROVE  /\ quantity[s] \in Nat /\ average[s] \in Frac
             /\ average[s].n \in Nat /\ average[s].d \in Nat \ {0}
             /\ CostOf(s) \in Frac
             /\ CostOf(s).n = quantity[s] * average[s].n
             /\ CostOf(s).d = average[s].d
  <2>1. quantity[s] \in Nat /\ average[s] \in [n : Nat, d : Nat \ {0}]
    BY DEF PortfolioTypeOK
  <2>2. average[s] \in Frac /\ average[s].n \in Nat /\ average[s].d \in Nat \ {0}
    BY <2>1 DEF Frac
  <2>3. CostOf(s) \in Frac
    BY <2>1, <2>2, FracTypes DEF CostOf
  <2>. QED  BY <2>1, <2>2, <2>3 DEF CostOf, Times, Fraction
<1>. QED  BY <1>1, <1>2 DEF Costs

\* The averages are such that the whole position costs what the cost was.
LEMMA Averaged ==
    ASSUME NEW c \in Frac, NEW k \in Nat \ {0}
    PROVE  /\ Fraction(c.n, c.d * k) \in Frac
           /\ Equal(Times(k, Fraction(c.n, c.d * k)), c)
<1>. DEFINE cn == c.n
            cd == c.d
<1>1. cn \in Int /\ cd \in Nat \ {0}
  BY DEF Frac
<1>2. \A i, j \in Nat \ {0} : i * j \in Nat \ {0}
  OBVIOUS
<1>3. Equal(Times(k, Fraction(cn, cd * k)), c) <=> (k * cn) * cd = cn * (cd * k)
  BY DEF Equal, Times, Fraction
<1>4. Fraction(cn, cd * k) = [n |-> cn, d |-> cd * k]
  BY DEF Fraction
<1>. HIDE DEF cn, cd
<1>5. (k * cn) * cd = cn * (cd * k) /\ cd * k \in Nat \ {0}
  BY <1>1, <1>2
<1>. QED  BY <1>1, <1>3, <1>4, <1>5 DEF cn, cd, Frac

\* A fresh portfolio balances.
LEMMA InitPortfolio == PortfolioInit => PortfolioInv
<1>1. SUFFICES ASSUME PortfolioInit PROVE PortfolioInv
  OBVIOUS
<1>2. PortfolioTypeOK
  BY <1>1, PortfolioAssumption DEF PortfolioInit, PortfolioTypeOK, PortfolioAssumption, Zero, Fraction
<1>3. Costs \in [Symbol -> Frac] /\ realized \in [Symbol -> Frac] /\ StartingCash \in Nat \ {0}
  BY <1>2, BookTypes
<1>4. \A s \in Symbol : Equal(Costs[s], Zero) /\ Equal(realized[s], Zero)
  BY <1>1 DEF PortfolioInit, Costs, CostOf, Times, Equal, Zero, Fraction
<1>5. /\ Sum(Costs) \in Frac /\ Equal(Sum(Costs), Zero)
      /\ Sum(realized) \in Frac /\ Equal(Sum(realized), Zero)
  BY <1>3, <1>4, SumZero
<1>6. Balanced
  <2>1. PICK m \in Nat \ {0}, x, y, z, w \in Int :
            Parts(Sum(Costs), m, x) /\ Parts(Sum(realized), m, y) /\ Parts(Zero, m, z)
    <3>1. Zero \in Frac
      BY DEF Zero, Fraction, Frac
    <3>. QED  BY <1>5, <3>1, CommonParts
  <2>2. Parts(Zero, m, 0) /\ Zero \in Frac
    BY WholeParts DEF Zero, Fraction, Frac
  <2>3. x = 0 /\ y = 0
    BY <1>5, <2>1, <2>2, EqualParts
  <2>. DEFINE c == StartingCash
  <2>4. c \in Int /\ Fraction(c, 1) \in Frac /\ Parts(Fraction(c, 1), m, c * m) /\ c * m \in Int
    <3>1. c \in Int
      BY <1>3
    <3>. HIDE DEF c
    <3>2. Fraction(c, 1) \in Frac
      BY <1>5, <3>1, FracTypes
    <3>3. Parts(Fraction(c, 1), m, c * m)
      BY <3>1, WholeParts
    <3>. QED  BY <3>1, <3>2, <3>3
  <2>5. Parts(Plus(Fraction(c, 1), Sum(Costs)), m, c * m + x)
    BY <1>5, <2>1, <2>4, PlusParts
  <2>6. Parts(Plus(Fraction(c, 1), Sum(realized)), m, c * m + y)
    BY <1>5, <2>1, <2>4, PlusParts
  <2>7. /\ Plus(Fraction(c, 1), Sum(Costs)) \in Frac /\ Plus(Fraction(c, 1), Sum(realized)) \in Frac
        /\ c * m + x \in Int /\ c * m + y \in Int /\ c * m + x = c * m + y
    BY <1>5, <2>1, <2>3, <2>4, FracTypes
  <2>8. Equal(Plus(Fraction(c, 1), Sum(Costs)), Plus(Fraction(c, 1), Sum(realized)))
    BY <2>5, <2>6, <2>7, EqualParts
  <2>. QED  BY <1>1, <2>8 DEF Balanced, PortfolioInit
<1>7. PositionsWithinLimit
  <2>1. SUFFICES ASSUME NEW s \in Symbol
                 PROVE  AtMost(CostOf(s), Fraction(StartingCash * LimitPct, 100))
    BY DEF PositionsWithinLimit
  <2>2. CostOf(s).n = 0 /\ CostOf(s).d = 1
    BY <1>1 DEF PortfolioInit, CostOf, Times, Zero, Fraction
  <2>3. StartingCash * LimitPct >= 0 /\ StartingCash * LimitPct \in Nat
    BY <1>2, BookTypes
  <2>. QED  BY <2>2, <2>3 DEF AtMost, Fraction
<1>. QED  BY <1>2, <1>6, <1>7 DEF PortfolioInv

\* In parts of m, the books balance when the cash and the costs are the starting cash and
\* the profits.
LEMMA BalanceParts ==
    ASSUME NEW a \in Int, NEW start \in Int, NEW K \in Frac, NEW R \in Frac,
           NEW m \in Nat \ {0}, NEW k \in Int, NEW r \in Int, Parts(K, m, k), Parts(R, m, r)
    PROVE  Equal(Plus(Fraction(a, 1), K), Plus(Fraction(start, 1), R))
           <=> a * m + k = start * m + r
<1>1. Fraction(a, 1) \in Frac /\ Fraction(start, 1) \in Frac
  BY FracTypes
<1>2. a * m \in Int /\ start * m \in Int
  OBVIOUS
<1>3. Parts(Fraction(a, 1), m, a * m) /\ Parts(Fraction(start, 1), m, start * m)
  BY WholeParts
<1>4. /\ Parts(Plus(Fraction(a, 1), K), m, a * m + k)
      /\ Parts(Plus(Fraction(start, 1), R), m, start * m + r)
  BY <1>1, <1>2, <1>3, PlusParts
<1>5. Plus(Fraction(a, 1), K) \in Frac /\ Plus(Fraction(start, 1), R) \in Frac
  BY <1>1, FracTypes
<1>6. a * m + k \in Int /\ start * m + r \in Int
  BY <1>2
<1>. QED  BY <1>4, <1>5, <1>6, EqualParts

\* The books still balance when the cash and the costs change by what the profits do.
LEMMA BalanceMoves ==
    ASSUME NEW a \in Int, NEW b \in Int, NEW start \in Int,
           NEW K \in Frac, NEW L \in Frac, NEW R \in Frac, NEW P \in Frac,
           NEW m \in Nat \ {0}, NEW k \in Int, NEW r \in Int, NEW l \in Int, NEW p \in Int,
           Parts(K, m, k), Parts(R, m, r), Parts(L, m, l), Parts(P, m, p),
           Equal(Plus(Fraction(a, 1), K), Plus(Fraction(start, 1), R)),
           b * m + l - p = a * m + k - r
    PROVE  Equal(Plus(Fraction(b, 1), L), Plus(Fraction(start, 1), P))
<1>1. a * m + k = start * m + r
  BY BalanceParts
<1>2. a * m \in Int /\ b * m \in Int /\ start * m \in Int
  OBVIOUS
<1>3. b * m + l = start * m + p
  BY <1>1, <1>2
<1>. QED  BY <1>3, BalanceParts

\* A purchase keeps the invariant.
LEMMA BuyKeeps ==
    ASSUME PortfolioInv, NEW s \in Symbol, NEW q \in Quantity, NEW p \in OrderPrice,
           trades < MaxTrades, Buy(s, q, p)
    PROVE  PortfolioInv'
<1>. DEFINE cost == Plus(CostOf(s), Fraction(q * p, 1))
            k == quantity[s] + q
            new == Fraction(cost.n, cost.d * k)
<1>0. PortfolioTypeOK /\ Balanced /\ PositionsWithinLimit
  BY DEF PortfolioInv
<1>1. q \in Nat \ {0} /\ p \in Nat \ {0} /\ q * p \in Nat
  BY PortfolioAssumption DEF PortfolioAssumption
<1>2. /\ quantity[s] \in Nat /\ average[s].n \in Nat /\ average[s].d \in Nat \ {0}
      /\ CostOf(s) \in Frac
      /\ CostOf(s).n = quantity[s] * average[s].n /\ CostOf(s).d = average[s].d
      /\ Costs \in [Symbol -> Frac] /\ realized \in [Symbol -> Frac]
      /\ cash \in Nat /\ StartingCash \in Nat \ {0} /\ LimitPct \in Nat \ {0}
  BY <1>0, BookTypes
<1>3. k \in Nat \ {0}
  BY <1>1, <1>2
<1>4. cost \in Frac /\ Fraction(q * p, 1) \in Frac
  <2>. DEFINE v == q * p
  <2>1. v \in Int
    BY <1>1
  <2>. HIDE DEF v
  <2>2. Fraction(v, 1) \in Frac
    BY <1>2, <2>1, FracTypes
  <2>3. Plus(CostOf(s), Fraction(v, 1)) \in Frac
    BY <1>2, <2>2, FracTypes
  <2>. QED  BY <2>2, <2>3 DEF v
<1>5. cost.n \in Nat /\ cost.d \in Nat \ {0}
  <2>1. CostOf(s).n \in Nat
    BY <1>2
  <2>2. cost.d \in Nat \ {0}
    BY <1>4 DEF Frac
  <2>. DEFINE x == q * p
              cn == CostOf(s).n
              cd == CostOf(s).d
  <2>3. cn \in Nat /\ cd \in Nat \ {0} /\ x \in Nat
    BY <1>1, <1>2, <2>1
  <2>4. cost.n = IF cd = 1 THEN cn + x ELSE cn * 1 + x * cd
    BY DEF Plus, Fraction
  <2>. HIDE DEF x, cn, cd
  <2>5. cn + x \in Nat /\ cn * 1 + x * cd \in Nat
    BY <2>3
  <2>. QED  BY <2>2, <2>4, <2>5
<1>6. /\ average' = [average EXCEPT ![s] = new]
      /\ quantity' = [quantity EXCEPT ![s] = k]
      /\ cash' = cash - q * p
      /\ trades' = trades + 1
      /\ realized' = realized
      /\ q * p <= cash
      /\ AtMost(cost, Fraction(StartingCash * LimitPct, 100))
  BY DEF Buy, AverageWith, Affordable, WithinLimit
<1>7. new \in [n : Nat, d : Nat \ {0}]
  <2>1. \A i, j \in Nat \ {0} : i * j \in Nat \ {0}
    OBVIOUS
  <2>2. cost.d * k \in Nat \ {0}
    BY <1>3, <1>5, <2>1
  <2>. QED  BY <1>5, <2>2 DEF Fraction
<1>8. new \in Frac /\ Equal(Times(k, new), cost)
  BY <1>3, <1>4, Averaged
<1>9. PortfolioTypeOK'
  <2>1. average' \in [Symbol -> [n : Nat, d : Nat \ {0}]]
    <3>. HIDE DEF new
    <3>. QED  BY <1>0, <1>6, <1>7 DEF PortfolioTypeOK
  <2>2. quantity' \in [Symbol -> Nat]
    <3>. HIDE DEF k
    <3>. QED  BY <1>0, <1>3, <1>6 DEF PortfolioTypeOK
  <2>3. cash' \in Nat
    BY <1>1, <1>2, <1>6
  <2>4. trades' \in 0..MaxTrades
    BY <1>0, <1>6, PortfolioAssumption DEF PortfolioTypeOK, PortfolioAssumption
  <2>. QED  BY <1>0, <1>6, <2>1, <2>2, <2>3, <2>4 DEF PortfolioTypeOK
<1>10. /\ Costs' \in [Symbol -> Frac]
       /\ \A t \in Symbol : t # s => CostOf(t)' = CostOf(t)
       /\ CostOf(s)' = Times(k, new)
  <2>1. Costs' \in [Symbol -> Frac]
    <3>1. ASSUME NEW t \in Symbol PROVE CostOf(t)' \in Frac
      <4>1. quantity'[t] \in Nat /\ average'[t] \in Frac
        BY <1>9 DEF PortfolioTypeOK, Frac
      <4>. QED  BY <4>1, FracTypes DEF CostOf
    <3>. QED  BY <3>1 DEF Costs
  <2>. HIDE DEF k, new
  <2>2. /\ \A t \in Symbol : t # s => quantity'[t] = quantity[t] /\ average'[t] = average[t]
        /\ quantity'[s] = k /\ average'[s] = new
    BY <1>0, <1>6 DEF PortfolioTypeOK
  <2>. QED  BY <2>1, <2>2 DEF CostOf
<1>11. Balanced'
  <2>1. Equal(Sum(Costs'), Plus(Sum(Costs), Fraction(q * p, 1)))
    <3>1. \A t \in Symbol : t # s => Costs'[t] = Costs[t]
      BY <1>10 DEF Costs
    <3>2. Costs'[s] = Times(k, new) /\ Costs[s] = CostOf(s)
      BY <1>10 DEF Costs
    <3>3. Equal(Costs'[s], Plus(Costs[s], Fraction(q * p, 1)))
      BY <1>8, <3>2
    <3>. QED  BY <1>2, <1>4, <1>10, <3>1, <3>3, SumUpdate
  <2>2. Sum(Costs) \in Frac /\ Sum(Costs') \in Frac /\ Sum(realized) \in Frac
    BY <1>2, <1>10, SumType
  <2>3. PICK m \in Nat \ {0}, x, y, z, w \in Int :
            Parts(Sum(Costs), m, x) /\ Parts(Sum(realized), m, y)
    BY <2>2, CommonParts
  <2>. DEFINE v == q * p
  <2>4. v \in Int /\ Fraction(v, 1) \in Frac
    BY <1>1, <1>4
  <2>. HIDE DEF v
  <2>5. v * m \in Int /\ Parts(Fraction(v, 1), m, v * m)
    BY <2>4, WholeParts
  <2>6. Parts(Plus(Sum(Costs), Fraction(v, 1)), m, x + v * m)
    BY <2>2, <2>3, <2>4, <2>5, PlusParts
  <2>7. Plus(Sum(Costs), Fraction(v, 1)) \in Frac /\ x + v * m \in Int
    BY <2>2, <2>4, <2>5, FracTypes
  <2>8. Equal(Plus(Sum(Costs), Fraction(v, 1)), Sum(Costs'))
    BY <2>1 DEF Equal, v
  <2>9. Parts(Sum(Costs'), m, x + v * m)
    BY <2>2, <2>6, <2>7, <2>8, SameParts
  <2>10. (cash - v) * m + (x + v * m) - y = cash * m + x - y /\ cash - v \in Int
    BY <1>2, <2>4, <2>5
  <2>11. Equal(Plus(Fraction(cash, 1), Sum(Costs)), Plus(Fraction(StartingCash, 1), Sum(realized)))
    BY <1>0 DEF Balanced
  <2>12. cash \in Int /\ StartingCash \in Int
    BY <1>2
  <2>13. Equal(Plus(Fraction(cash - v, 1), Sum(Costs')),
               Plus(Fraction(StartingCash, 1), Sum(realized)))
    BY <2>2, <2>3, <2>7, <2>9, <2>10, <2>11, <2>12, BalanceMoves
  <2>14. cash' = cash - v /\ Sum(Costs)' = Sum(Costs') /\ Sum(realized)' = Sum(realized)
    BY <1>6 DEF v, Sum, Sums
  <2>. QED  BY <2>13, <2>14 DEF Balanced
<1>12. PositionsWithinLimit'
  <2>1. SUFFICES ASSUME NEW t \in Symbol
                 PROVE  AtMost(CostOf(t)', Fraction(StartingCash * LimitPct, 100))
    BY DEF PositionsWithinLimit
  <2>2. CASE t # s
    BY <1>0, <1>10, <2>2 DEF PositionsWithinLimit
  <2>3. CASE t = s
    <3>. DEFINE limit == StartingCash * LimitPct
                cn == cost.n
                cd == cost.d
    <3>1. limit \in Nat /\ cn \in Nat /\ cd \in Nat \ {0} /\ k \in Nat \ {0}
      BY <1>2, <1>3, <1>5
    <3>2. cn * 100 <= limit * cd
      BY <1>6 DEF AtMost, Fraction
    <3>3. AtMost(Times(k, new), Fraction(limit, 100)) <=> (k * cn) * 100 <= limit * (cd * k)
      BY DEF AtMost, Times, Fraction
    <3>. HIDE DEF limit, cn, cd, k
    <3>4. \A i, j \in Int, h \in Nat : i <= j => i * h <= j * h
      OBVIOUS
    <3>5. (cn * 100) * k <= (limit * cd) * k
      BY <3>1, <3>2, <3>4
    <3>6. (k * cn) * 100 = (cn * 100) * k /\ limit * (cd * k) = (limit * cd) * k
      BY <3>1
    <3>7. AtMost(Times(k, new), Fraction(limit, 100))
      BY <3>3, <3>5, <3>6
    <3>. QED  BY <1>10, <2>3, <3>7 DEF limit
  <2>. QED  BY <2>2, <2>3
<1>. QED  BY <1>9, <1>11, <1>12 DEF PortfolioInv

\* A sale keeps the invariant.
LEMMA SellKeeps ==
    ASSUME PortfolioInv, NEW s \in Symbol, NEW q \in Quantity, NEW p \in OrderPrice,
           trades < MaxTrades, Sell(s, q, p)
    PROVE  PortfolioInv'
<1>. DEFINE gain == Times(q, Plus(Fraction(p, 1), Times(-1, average[s])))
            less == -q
            spent == Times(less, average[s])
            held == quantity[s] - q
            now == IF q = quantity[s] THEN Zero ELSE average[s]
<1>0. PortfolioTypeOK /\ Balanced /\ PositionsWithinLimit
  BY DEF PortfolioInv
<1>1. q \in Nat \ {0} /\ p \in Nat \ {0} /\ q * p \in Nat /\ less \in Int /\ -1 \in Int /\ p \in Int
  BY PortfolioAssumption DEF PortfolioAssumption
<1>. HIDE DEF less
<1>2. /\ quantity[s] \in Nat /\ average[s] \in Frac
      /\ average[s].n \in Nat /\ average[s].d \in Nat \ {0}
      /\ CostOf(s) \in Frac
      /\ CostOf(s).n = quantity[s] * average[s].n /\ CostOf(s).d = average[s].d
      /\ Costs \in [Symbol -> Frac] /\ realized \in [Symbol -> Frac]
      /\ cash \in Nat /\ StartingCash \in Nat \ {0} /\ LimitPct \in Nat \ {0}
  BY <1>0, BookTypes
<1>3. /\ q <= quantity[s]
      /\ realized' = [realized EXCEPT ![s] = Plus(@, gain)]
      /\ quantity' = [quantity EXCEPT ![s] = held]
      /\ average' = [average EXCEPT ![s] = now]
      /\ cash' = cash + q * p
      /\ trades' = trades + 1
  BY <1>0, <1>2 DEF Sell, PortfolioTypeOK
<1>4. held \in Nat
  BY <1>1, <1>2, <1>3
<1>5. now \in [n : Nat, d : Nat \ {0}] /\ now \in Frac
  BY <1>0, <1>2 DEF PortfolioTypeOK, Zero, Fraction, Frac
<1>6. gain \in Frac /\ spent \in Frac
  <2>1. Fraction(p, 1) \in Frac /\ Times(-1, average[s]) \in Frac /\ Times(less, average[s]) \in Frac
    BY <1>1, <1>2, FracTypes
  <2>2. Plus(Fraction(p, 1), Times(-1, average[s])) \in Frac
    BY <2>1, FracTypes
  <2>. QED  BY <1>1, <2>1, <2>2, FracTypes
<1>7. Plus(realized[s], gain) \in Frac
  BY <1>2, <1>6, FracTypes
<1>8. PortfolioTypeOK'
  <2>. HIDE DEF gain, held, now
  <2>1. realized' \in [Symbol -> [n : Int, d : Nat \ {0}]]
    BY <1>2, <1>3, <1>7 DEF Frac
  <2>2. cash' \in Nat
    BY <1>1, <1>2, <1>3
  <2>3. trades' \in 0..MaxTrades
    BY <1>0, <1>3, PortfolioAssumption DEF PortfolioTypeOK, PortfolioAssumption
  <2>. QED  BY <1>0, <1>3, <1>4, <1>5, <2>1, <2>2, <2>3 DEF PortfolioTypeOK
<1>9. /\ Costs' \in [Symbol -> Frac]
      /\ realized' \in [Symbol -> Frac]
      /\ \A t \in Symbol : t # s => CostOf(t)' = CostOf(t) /\ realized'[t] = realized[t]
      /\ CostOf(s)' = Times(held, now)
      /\ realized'[s] = Plus(realized[s], gain)
  <2>. HIDE DEF gain, held, now
  <2>1. Costs' \in [Symbol -> Frac]
    <3>1. ASSUME NEW t \in Symbol PROVE CostOf(t)' \in Frac
      <4>1. quantity'[t] \in Nat /\ average'[t] \in Frac
        BY <1>8 DEF PortfolioTypeOK, Frac
      <4>. QED  BY <4>1, FracTypes DEF CostOf
    <3>. QED  BY <3>1 DEF Costs
  <2>2. /\ \A t \in Symbol : t # s => quantity'[t] = quantity[t] /\ average'[t] = average[t]
        /\ quantity'[s] = held /\ average'[s] = now
    BY <1>0, <1>3 DEF PortfolioTypeOK
  <2>3. realized' \in [Symbol -> Frac]
    BY <1>8 DEF PortfolioTypeOK, Frac
  <2>4. /\ \A t \in Symbol : t # s => realized'[t] = realized[t]
        /\ realized'[s] = Plus(realized[s], gain)
    BY <1>2, <1>3
  <2>. QED  BY <2>1, <2>2, <2>3, <2>4 DEF CostOf
<1>10. Equal(Times(held, now), Plus(CostOf(s), spent))
  <2>. DEFINE m == average[s].d
              n == average[s].n
  <2>1. m \in Nat \ {0} /\ n \in Nat /\ Parts(average[s], m, n)
    <3>1. n * m = average[s].n * m
      OBVIOUS
    <3>. QED  BY <1>2, <3>1 DEF Parts
  <2>. HIDE DEF m, n
  <2>2. quantity[s] * n \in Int /\ less * n \in Int /\ held * n \in Int
    BY <1>1, <1>2, <2>1
  <2>3. Parts(CostOf(s), m, quantity[s] * n) /\ Parts(spent, m, less * n)
    <3>1. \A k \in Int : Parts(Times(k, average[s]), m, k * n)
      BY <1>2, <2>1, TimesParts
    <3>2. Parts(Times(quantity[s], average[s]), m, quantity[s] * n)
      <4>1. quantity[s] \in Int
        BY <1>2
      <4>. QED  BY <3>1, <4>1, Zenon
    <3>3. Parts(Times(less, average[s]), m, less * n)
      BY <1>1, <1>2, <2>1, TimesParts
    <3>. QED  BY <3>2, <3>3 DEF CostOf
  <2>4. Parts(Plus(CostOf(s), spent), m, quantity[s] * n + less * n)
    BY <1>2, <1>6, <2>1, <2>2, <2>3, PlusParts
  <2>5. quantity[s] * n + less * n = held * n
    BY <1>1, <1>2, <2>1 DEF less
  <2>6. Parts(Times(held, now), m, held * n)
    <3>1. CASE q = quantity[s]
      <4>1. held = 0 /\ now = Zero
        BY <1>1, <1>2, <3>1
      <4>2. Times(0, Zero) = Zero /\ 0 * n = 0
        BY <2>1 DEF Times, Zero, Fraction
      <4>3. Parts(Zero, m, 0)
        BY <2>1, WholeParts
      <4>. QED  BY <4>1, <4>2, <4>3
    <3>2. CASE q # quantity[s]
      <4>1. now = average[s]
        BY <3>2
      <4>. HIDE DEF held
      <4>2. Parts(Times(held, average[s]), m, held * n)
        BY <1>2, <1>4, <2>1, TimesParts
      <4>. QED  BY <4>1, <4>2
    <3>. QED  BY <3>1, <3>2
  <2>. HIDE DEF held, now, spent
  <2>7. Times(held, now) \in Frac /\ Plus(CostOf(s), spent) \in Frac
    <3>1. held \in Int
      BY <1>4
    <3>2. Times(held, now) \in Frac
      BY <1>5, <3>1, FracTypes
    <3>3. Plus(CostOf(s), spent) \in Frac
      BY <1>2, <1>6, FracTypes
    <3>. QED  BY <3>2, <3>3
  <2>. QED  BY <2>1, <2>2, <2>4, <2>5, <2>6, <2>7, EqualParts
<1>11. Balanced'
  <2>1. Equal(Sum(Costs'), Plus(Sum(Costs), spent))
    <3>1. \A t \in Symbol : t # s => Costs'[t] = Costs[t]
      BY <1>9 DEF Costs
    <3>2. Costs'[s] = Times(held, now) /\ Costs[s] = CostOf(s)
      BY <1>9 DEF Costs
    <3>3. Equal(Costs'[s], Plus(Costs[s], spent))
      BY <1>10, <3>2
    <3>. HIDE DEF spent
    <3>. QED  BY <1>2, <1>6, <1>9, <3>1, <3>3, SumUpdate
  <2>2. Equal(Sum(realized'), Plus(Sum(realized), gain))
    <3>. HIDE DEF gain
    <3>1. Equal(realized'[s], Plus(realized[s], gain))
      BY <1>9 DEF Equal
    <3>. QED  BY <1>2, <1>6, <1>9, <3>1, SumUpdate
  <2>3. /\ Sum(Costs) \in Frac /\ Sum(Costs') \in Frac
        /\ Sum(realized) \in Frac /\ Sum(realized') \in Frac
    BY <1>2, <1>9, SumType
  <2>4. PICK m \in Nat \ {0}, x, y, z, w \in Int :
            Parts(Sum(Costs), m, x) /\ Parts(Sum(realized), m, y) /\ Parts(average[s], m, z)
    BY <1>2, <2>3, CommonParts
  <2>. DEFINE dk == less * z
              dr == q * (p * m + (-1) * z)
  <2>5. dk \in Int /\ Parts(spent, m, dk)
    <3>1. Parts(Times(less, average[s]), m, less * z)
      BY <1>1, <1>2, <2>4, TimesParts
    <3>. QED  BY <1>1, <3>1
  <2>6. dr \in Int /\ Parts(gain, m, dr)
    <3>1. Fraction(p, 1) \in Frac /\ Times(-1, average[s]) \in Frac
      BY <1>1, <1>2, FracTypes
    <3>2. Plus(Fraction(p, 1), Times(-1, average[s])) \in Frac
      BY <3>1, FracTypes
    <3>3. p * m \in Int /\ (-1) * z \in Int /\ p * m + (-1) * z \in Int
      BY <1>1
    <3>4. Parts(Fraction(p, 1), m, p * m)
      BY <1>1, WholeParts
    <3>5. Parts(Times(-1, average[s]), m, (-1) * z)
      BY <1>1, <1>2, <2>4, TimesParts
    <3>6. Parts(Plus(Fraction(p, 1), Times(-1, average[s])), m, p * m + (-1) * z)
      BY <3>1, <3>3, <3>4, <3>5, PlusParts
    <3>7. Parts(gain, m, dr)
      BY <1>1, <3>2, <3>3, <3>6, TimesParts
    <3>8. dr \in Int
      BY <1>1, <3>3
    <3>. QED  BY <3>7, <3>8
  <2>7. (cash + q * p) * m + (x + dk) - (y + dr) = cash * m + x - y
    <3>1. /\ q \in Int /\ p \in Int /\ m \in Int /\ z \in Int /\ x \in Int /\ y \in Int
          /\ cash \in Int
      BY <1>1, <1>2
    <3>2. (cash + q * p) * m = cash * m + (q * p) * m
      BY <3>1
    <3>3. dr = (q * p) * m - q * z /\ dk = -(q * z)
      BY <3>1 DEF less
    <3>4. cash * m \in Int /\ (q * p) * m \in Int /\ q * z \in Int
      BY <3>1
    <3>. HIDE DEF dk, dr
    <3>. QED  BY <3>1, <3>2, <3>3, <3>4
  <2>. HIDE DEF dk, dr, gain, spent
  <2>8. Parts(Plus(Sum(Costs), spent), m, x + dk) /\ Parts(Plus(Sum(realized), gain), m, y + dr)
    BY <1>6, <2>3, <2>4, <2>5, <2>6, PlusParts
  <2>9. /\ Plus(Sum(Costs), spent) \in Frac /\ Plus(Sum(realized), gain) \in Frac
        /\ x + dk \in Int /\ y + dr \in Int
    BY <1>6, <2>3, <2>5, <2>6, FracTypes
  <2>10. Equal(Plus(Sum(Costs), spent), Sum(Costs')) /\ Equal(Plus(Sum(realized), gain), Sum(realized'))
    BY <2>1, <2>2 DEF Equal
  <2>11. Parts(Sum(Costs'), m, x + dk) /\ Parts(Sum(realized'), m, y + dr)
    BY <2>3, <2>8, <2>9, <2>10, SameParts
  <2>12. Equal(Plus(Fraction(cash, 1), Sum(Costs)), Plus(Fraction(StartingCash, 1), Sum(realized)))
    BY <1>0 DEF Balanced
  <2>. DEFINE b == cash + q * p
  <2>13. cash \in Int /\ StartingCash \in Int /\ b \in Int
    BY <1>1, <1>2
  <2>14. b * m + (x + dk) - (y + dr) = cash * m + x - y
    BY <2>7
  <2>. HIDE DEF b
  <2>15. Equal(Plus(Fraction(b, 1), Sum(Costs')), Plus(Fraction(StartingCash, 1), Sum(realized')))
    <3>. DEFINE l == x + dk
                h == y + dr
    <3>1. l \in Int /\ h \in Int /\ b * m + l - h = cash * m + x - y
      BY <2>9, <2>14
    <3>2. Parts(Sum(Costs'), m, l) /\ Parts(Sum(realized'), m, h)
      BY <2>11
    <3>. HIDE DEF l, h
    <3>. QED  BY <2>3, <2>4, <2>12, <2>13, <3>1, <3>2, BalanceMoves
  <2>16. cash' = b /\ Sum(Costs)' = Sum(Costs') /\ Sum(realized)' = Sum(realized')
    BY <1>3 DEF b, Sum, Sums
  <2>. QED  BY <2>15, <2>16 DEF Balanced
<1>12. PositionsWithinLimit'
  <2>1. SUFFICES ASSUME NEW t \in Symbol
                 PROVE  AtMost(CostOf(t)', Fraction(StartingCash * LimitPct, 100))
    BY DEF PositionsWithinLimit
  <2>2. CASE t # s
    BY <1>0, <1>9, <2>2 DEF PositionsWithinLimit
  <2>3. CASE t = s /\ q = quantity[s]
    <3>1. CostOf(t)' = Zero
      <4>1. held = 0 /\ now = Zero
        BY <1>1, <1>2, <2>3
      <4>. QED  BY <1>9, <2>3, <4>1 DEF Times, Zero, Fraction
    <3>2. StartingCash * LimitPct \in Nat
      BY <1>2
    <3>. QED  BY <3>1, <3>2 DEF AtMost, Zero, Fraction
  <2>4. CASE t = s /\ q # quantity[s]
    <3>. DEFINE limit == StartingCash * LimitPct
                n == average[s].n
                m == average[s].d
    <3>1. limit \in Nat /\ n \in Nat /\ m \in Nat \ {0}
      BY <1>2
    <3>2. (quantity[s] * n) * 100 <= limit * m
      BY <1>0, <1>2 DEF PositionsWithinLimit, AtMost, Fraction
    <3>3. CostOf(t)'.n = held * n /\ CostOf(t)'.d = m
      BY <1>9, <2>4 DEF Times, Fraction
    <3>4. AtMost(CostOf(t)', Fraction(limit, 100)) <=> CostOf(t)'.n * 100 <= limit * CostOf(t)'.d
      BY DEF AtMost, Fraction
    <3>. HIDE DEF limit, n, m
    <3>5. held * n <= quantity[s] * n /\ held * n \in Int /\ quantity[s] * n \in Int /\ limit * m \in Int
      <4>1. \A i, j \in Int, h \in Nat : i <= j => i * h <= j * h
        OBVIOUS
      <4>2. held \in Int /\ quantity[s] \in Int /\ held <= quantity[s]
        BY <1>1, <1>2
      <4>. HIDE DEF held
      <4>. QED  BY <3>1, <4>1, <4>2
    <3>6. (held * n) * 100 <= limit * m
      BY <3>2, <3>5
    <3>7. AtMost(CostOf(t)', Fraction(limit, 100))
      BY <3>3, <3>4, <3>6
    <3>. QED  BY <3>7 DEF limit
  <2>. QED  BY <2>2, <2>3, <2>4
<1>. QED  BY <1>8, <1>11, <1>12 DEF PortfolioInv

\* Every step keeps the invariant.
LEMMA PortfolioStep == PortfolioInv /\ [PortfolioNext]_portfolioVars => PortfolioInv'
<1>1. SUFFICES ASSUME PortfolioInv, [PortfolioNext]_portfolioVars PROVE PortfolioInv'
  OBVIOUS
<1>2. CASE PortfolioNext
  BY <1>1, <1>2, BuyKeeps, SellKeeps DEF PortfolioNext
<1>3. CASE UNCHANGED portfolioVars
  BY <1>1, <1>3
     DEF portfolioVars, PortfolioInv, PortfolioTypeOK, Balanced, PositionsWithinLimit,
         Costs, CostOf, Sum, Sums
<1>. QED  BY <1>1, <1>2, <1>3

\* The inductive invariant holds throughout.
THEOREM PortfolioInvariance == PortfolioSpec => []PortfolioInv
BY InitPortfolio, PortfolioStep, PTL DEF PortfolioSpec

\* Cash and quantities never get negative, and every average and profit is a fraction,
\* for any symbols, prices, quantities and number of trades.
THEOREM PortfolioTypeCorrect == PortfolioSpec => []PortfolioTypeOK
<1>1. PortfolioInv => PortfolioTypeOK
  BY DEF PortfolioInv
<1>. QED  BY <1>1, PortfolioInvariance, PTL

\* No sequence of purchases and partial sales takes a position over its limit, whatever
\* the orders and the limit.
THEOREM LimitHolds == PortfolioSpec => []PositionsWithinLimit
<1>1. PortfolioInv => PositionsWithinLimit
  BY DEF PortfolioInv
<1>. QED  BY <1>1, PortfolioInvariance, PTL

\* At marks of any symbols, what the positions are worth is what they have cost and what
\* they have gained.
LEMMA WorthIsCostAndGain ==
    ASSUME PortfolioTypeOK, NEW marked \in SUBSET Symbol, NEW marks \in [marked -> OrderPrice]
    PROVE  LET worth == [s \in Symbol |-> MarketValue(s, marks)]
               gains == [s \in Symbol |-> Unrealized(s, marks)]
           IN  /\ worth \in [Symbol -> Frac]
               /\ gains \in [Symbol -> Frac]
               /\ Equal(Sum(worth), Plus(Sum(Costs), Sum(gains)))
<1>. DEFINE worth == [s \in Symbol |-> MarketValue(s, marks)]
            gains == [s \in Symbol |-> Unrealized(s, marks)]
<1>1. Costs \in [Symbol -> Frac]
  BY BookTypes
<1>2. ASSUME NEW s \in Symbol
      PROVE  /\ MarketValue(s, marks) \in Frac /\ Unrealized(s, marks) \in Frac
             /\ Equal(MarketValue(s, marks), Plus(CostOf(s), Unrealized(s, marks)))
  <2>1. /\ quantity[s] \in Nat /\ average[s] \in Frac /\ CostOf(s) \in Frac
        /\ average[s].n \in Nat /\ average[s].d \in Nat \ {0}
    BY BookTypes
  <2>2. CASE s \notin DOMAIN marks
    <3>1. MarketValue(s, marks) = CostOf(s) /\ Unrealized(s, marks) = Zero
      BY <2>2 DEF MarketValue, Unrealized
    <3>2. Zero \in Frac /\ Plus(CostOf(s), Zero) = CostOf(s)
      BY <2>1, PlusZero DEF Zero, Fraction, Frac
    <3>. QED  BY <2>1, <3>1, <3>2 DEF Equal
  <2>3. CASE s \in DOMAIN marks
    <3>. DEFINE k == quantity[s]
                p == marks[s]
                m == average[s].d
                n == average[s].n
                gain == Plus(Fraction(p, 1), Times(-1, average[s]))
    <3>1. k \in Int /\ p \in Int
      BY <2>1, <2>3, PortfolioAssumption DEF PortfolioAssumption
    <3>2. m \in Nat \ {0} /\ n \in Int /\ Parts(average[s], m, n)
      <4>1. n * m = average[s].n * m
        OBVIOUS
      <4>. QED  BY <2>1, <4>1 DEF Parts
    <3>3. MarketValue(s, marks) = Fraction(k * p, 1) /\ Unrealized(s, marks) = Times(k, gain)
      BY <2>3 DEF MarketValue, Unrealized
    <3>4. CostOf(s) = Times(k, average[s])
      BY DEF CostOf
    <3>. HIDE DEF k, p, m, n
    <3>5. k * p \in Int /\ -1 \in Int /\ p * m \in Int /\ (-1) * n \in Int
      BY <3>1, <3>2
    <3>6. Fraction(p, 1) \in Frac /\ Times(-1, average[s]) \in Frac
      BY <2>1, <3>1, <3>5, FracTypes
    <3>7. gain \in Frac
      BY <3>6, FracTypes
    <3>8. Times(k, gain) \in Frac
      BY <3>1, <3>7, FracTypes
    <3>9. Fraction(k * p, 1) \in Frac
      <4>. DEFINE v == k * p
      <4>1. v \in Int
        BY <3>5
      <4>. HIDE DEF v
      <4>2. Fraction(v, 1) \in Frac
        BY <2>1, <4>1, FracTypes
      <4>. QED  BY <4>2 DEF v
    <3>10. Parts(gain, m, p * m + (-1) * n)
      <4>1. Parts(Fraction(p, 1), m, p * m)
        BY <3>1, <3>2, WholeParts
      <4>2. Parts(Times(-1, average[s]), m, (-1) * n)
        BY <2>1, <3>2, <3>5, TimesParts
      <4>. QED  BY <3>2, <3>5, <3>6, <4>1, <4>2, PlusParts
    <3>. DEFINE g == p * m + (-1) * n
    <3>11. g \in Int
      BY <3>5
    <3>12. Parts(gain, m, g)
      BY <3>10
    <3>. HIDE DEF gain, g
    <3>13. Parts(Times(k, gain), m, k * g) /\ Parts(Times(k, average[s]), m, k * n)
      BY <2>1, <3>1, <3>2, <3>7, <3>11, <3>12, TimesParts
    <3>14. k * g \in Int /\ k * n \in Int /\ (k * p) * m \in Int
      BY <3>1, <3>2, <3>11
    <3>15. Parts(Plus(CostOf(s), Times(k, gain)), m, k * n + k * g)
      BY <2>1, <3>2, <3>4, <3>8, <3>13, <3>14, PlusParts
    <3>16. Parts(Fraction(k * p, 1), m, (k * p) * m)
      <4>1. \A v \in Int : Parts(Fraction(v, 1), m, v * m)
        BY <3>2, WholeParts
      <4>. QED  BY <3>5, <4>1, Zenon
    <3>17. k * n + k * g = (k * p) * m
      BY <3>1, <3>2 DEF g
    <3>18. Plus(CostOf(s), Times(k, gain)) \in Frac
      BY <2>1, <3>8, FracTypes
    <3>19. Equal(Fraction(k * p, 1), Plus(CostOf(s), Times(k, gain)))
      <4>. DEFINE v == (k * p) * m
                  a == Fraction(k * p, 1)
                  b == Plus(CostOf(s), Times(k, gain))
      <4>1. v \in Int /\ a \in Frac /\ b \in Frac /\ Parts(a, m, v) /\ Parts(b, m, v)
        BY <3>9, <3>14, <3>15, <3>16, <3>17, <3>18
      <4>. HIDE DEF v, a, b
      <4>2. Equal(a, b)
        BY <3>2, <4>1, EqualParts
      <4>. QED  BY <4>2 DEF a, b
    <3>. QED  BY <3>3, <3>8, <3>9, <3>19
  <2>. QED  BY <2>2, <2>3
<1>3. worth \in [Symbol -> Frac] /\ gains \in [Symbol -> Frac]
  BY <1>2
<1>4. \A s \in Symbol : Equal(worth[s], Plus(Costs[s], gains[s]))
  BY <1>2 DEF Costs
<1>. HIDE DEF worth, gains
<1>5. Equal(Sum(worth), Plus(Sum(Costs), Sum(gains)))
  BY <1>1, <1>3, <1>4, SumPlus
<1>. QED  BY <1>3, <1>5 DEF worth, gains

\* With no position open, the positions are worth nothing.
LEMMA NothingOpen ==
    ASSUME PortfolioTypeOK, NEW marked \in SUBSET Symbol, NEW marks \in [marked -> OrderPrice],
           Summary(marks).open_positions = 0
    PROVE  Equal(Sum([s \in Symbol |-> MarketValue(s, marks)]), Zero)
<1>. DEFINE open == {s \in Symbol : quantity[s] > 0}
            worth == [s \in Symbol |-> MarketValue(s, marks)]
<1>1. Cardinality(open) = 0
  BY DEF Summary
<1>2. open = {}
  <2>1. IsFiniteSet(open)
    BY PortfolioAssumption, FS_Subset DEF PortfolioAssumption
  <2>. QED  BY <1>1, <2>1, FS_EmptySet
<1>3. \A s \in Symbol : Equal(MarketValue(s, marks), Zero)
  <2>1. SUFFICES ASSUME NEW s \in Symbol PROVE Equal(MarketValue(s, marks), Zero)
    OBVIOUS
  <2>2. quantity[s] = 0 /\ average[s].n \in Nat
    <3>1. quantity[s] \in Nat /\ average[s].n \in Nat
      BY BookTypes
    <3>. QED  BY <1>2, <3>1
  <2>3. CASE s \in DOMAIN marks
    <3>1. marks[s] \in Nat
      BY <2>3, PortfolioAssumption DEF PortfolioAssumption
    <3>2. 0 * marks[s] = 0
      BY <3>1
    <3>. QED  BY <2>2, <2>3, <3>2 DEF MarketValue, Equal, Zero, Fraction
  <2>4. CASE s \notin DOMAIN marks
    <3>1. 0 * average[s].n = 0 /\ average[s].d \in Nat
      BY <2>2, BookTypes
    <3>. QED  BY <2>2, <2>4, <3>1 DEF MarketValue, CostOf, Times, Equal, Zero, Fraction
  <2>. QED  BY <2>3, <2>4
<1>4. worth \in [Symbol -> Frac]
  BY WorthIsCostAndGain
<1>5. \A s \in Symbol : Equal(worth[s], Zero)
  BY <1>3
<1>. HIDE DEF worth
<1>6. Equal(Sum(worth), Zero)
  BY <1>4, <1>5, SumZero
<1>. QED  BY <1>6 DEF worth

\* For any symbols, and however much and in whichever portions is bought and sold: at the
\* marks of all symbols, of some or of none, equity is the starting cash, the realized
\* and the unrealized profit, and with no position open it is the cash.
THEOREM SummariesBalance == PortfolioSpec => []SummaryBalances
<1>1. PortfolioInv => SummaryBalances
  <2>1. SUFFICES ASSUME PortfolioInv, NEW marked \in SUBSET Symbol,
                        NEW marks \in [marked -> OrderPrice]
                 PROVE  /\ Equal(Summary(marks).equity,
                                 Plus(Fraction(Summary(marks).starting_cash, 1),
                                      Plus(Summary(marks).realized_pnl,
                                           Summary(marks).unrealized_pnl)))
                        /\ Summary(marks).open_positions = 0 =>
                               Equal(Summary(marks).equity, Fraction(Summary(marks).cash, 1))
    BY DEF SummaryBalances
  <2>2. PortfolioTypeOK /\ Balanced
    BY <2>1 DEF PortfolioInv
  <2>. DEFINE W == Sum([s \in Symbol |-> MarketValue(s, marks)])
              U == Sum([s \in Symbol |-> Unrealized(s, marks)])
              K == Sum(Costs)
              R == Sum(realized)
  <2>3. /\ Summary(marks).equity = Plus(Fraction(cash, 1), W)
        /\ Summary(marks).starting_cash = StartingCash
        /\ Summary(marks).cash = cash
        /\ Summary(marks).realized_pnl = R
        /\ Summary(marks).unrealized_pnl = U
    BY DEF Summary, Equity, RealizedPnl, UnrealizedPnl
  <2>4. W \in Frac /\ U \in Frac /\ K \in Frac /\ R \in Frac /\ Equal(W, Plus(K, U))
    <3>1. Costs \in [Symbol -> Frac] /\ realized \in [Symbol -> Frac]
      BY <2>2, BookTypes
    <3>. DEFINE worth == [s \in Symbol |-> MarketValue(s, marks)]
                gains == [s \in Symbol |-> Unrealized(s, marks)]
    <3>2. /\ worth \in [Symbol -> Frac] /\ gains \in [Symbol -> Frac]
          /\ Equal(Sum(worth), Plus(Sum(Costs), Sum(gains)))
      BY <2>2, WorthIsCostAndGain
    <3>. HIDE DEF worth, gains
    <3>3. Sum(worth) \in Frac /\ Sum(gains) \in Frac /\ Sum(Costs) \in Frac /\ Sum(realized) \in Frac
      BY <3>1, <3>2, SumType
    <3>. QED  BY <3>2, <3>3 DEF worth, gains
  <2>5. Summary(marks).open_positions = 0 => Equal(W, Zero)
    BY <2>2, NothingOpen
  <2>6. Equal(Plus(Fraction(cash, 1), K), Plus(Fraction(StartingCash, 1), R))
    BY <2>2 DEF Balanced
  <2>7. cash \in Int /\ StartingCash \in Int
    BY <2>2, BookTypes
  <2>. HIDE DEF W, U, K, R
  <2>8. PICK m \in Nat \ {0}, k, u, r, z \in Int :
            Parts(K, m, k) /\ Parts(U, m, u) /\ Parts(R, m, r)
    BY <2>4, CommonParts
  <2>9. Parts(Plus(K, U), m, k + u) /\ Parts(Plus(R, U), m, r + u)
    BY <2>4, <2>8, PlusParts
  <2>10. Plus(K, U) \in Frac /\ Plus(R, U) \in Frac /\ k + u \in Int /\ r + u \in Int
    BY <2>4, FracTypes
  <2>11. Equal(Plus(K, U), W)
    BY <2>4 DEF Equal
  <2>12. Parts(W, m, k + u)
    BY <2>4, <2>9, <2>10, <2>11, SameParts
  <2>13. cash * m + k = StartingCash * m + r
    BY <2>4, <2>6, <2>7, <2>8, BalanceParts
  <2>14. Equal(Plus(Fraction(cash, 1), W), Plus(Fraction(StartingCash, 1), Plus(R, U)))
    <3>. DEFINE l == k + u
                p == r + u
    <3>1. cash * m + l = StartingCash * m + p
      <4>1. cash * m \in Int /\ StartingCash * m \in Int
        BY <2>7
      <4>. QED  BY <2>13, <4>1
    <3>2. l \in Int /\ p \in Int /\ Parts(W, m, l) /\ Parts(Plus(R, U), m, p)
      BY <2>9, <2>10, <2>12
    <3>. HIDE DEF l, p
    <3>. QED  BY <2>4, <2>7, <2>10, <3>1, <3>2, BalanceParts
  <2>15. Equal(W, Zero) => Equal(Plus(Fraction(cash, 1), W), Fraction(cash, 1))
    <3>1. SUFFICES ASSUME Equal(W, Zero)
                   PROVE  Equal(Plus(Fraction(cash, 1), W), Fraction(cash, 1))
      OBVIOUS
    <3>2. Parts(Zero, 1, 0) /\ Zero \in Frac /\ Equal(Zero, W)
      BY <3>1 DEF Parts, Zero, Fraction, Frac, Equal
    <3>3. Parts(W, 1, 0)
      BY <2>4, <3>2, SameParts
    <3>4. Fraction(cash, 1) \in Frac
      BY <2>4, <2>7, FracTypes
    <3>5. Parts(Fraction(cash, 1), 1, cash * 1) /\ cash * 1 \in Int /\ cash * 1 + 0 = cash * 1
      BY <2>7, WholeParts
    <3>6. Parts(Plus(Fraction(cash, 1), W), 1, cash * 1 + 0)
      BY <2>4, <3>3, <3>4, <3>5, PlusParts
    <3>7. Plus(Fraction(cash, 1), W) \in Frac
      BY <2>4, <3>4, FracTypes
    <3>. QED  BY <3>4, <3>5, <3>6, <3>7, EqualParts
  <2>. QED  BY <2>3, <2>5, <2>14, <2>15
<1>. QED  BY <1>1, PortfolioInvariance, PTL
=============================================================================
