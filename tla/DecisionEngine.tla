--------------------------- MODULE DecisionEngine ---------------------------
(***************************************************************************)
(* DecisionEngine.evaluate() (app/services/decision.py): from the          *)
(* indicators of the last candle to a decision to buy, to sell or to hold. *)
(* Scores are counted in halves.  A reading holds                          *)
(*   price     the close, in the smallest unit of money,                   *)
(*   distance  one and a half times the average true range, in that unit,  *)
(*   spread    (ema20 - ema50) / price, in hundredths of a percent,        *)
(*   macd      the MACD less its signal,                                   *)
(*   rsi       the relative strength index,                                *)
(*   volume, average   the volume and its average, 0 if there is none.     *)
(* Target, confidence, risk_reward and the wording of the evidence are     *)
(* left out.                                                               *)
(***************************************************************************)
EXTENDS Integers

\* The readings evaluate() does not refuse with a ValueError.
ReadingType == [price : Nat \ {0}, distance : Nat \ {0}, spread : Int, macd : Int,
                rsi : Int, volume : Nat, average : Nat]

\* The averages count one, and half as much again when they are a percent apart.
\* Averages that are equal count as falling.
Trend(r) == CASE r.spread >= 100              -> 3
              [] r.spread \in 1..99           -> 2
              [] r.spread \in -99..0          -> -2
              [] r.spread <= -100             -> -3

Momentum(r) == CASE r.macd > 0 -> 2
                 [] r.macd < 0 -> -2
                 [] r.macd = 0 -> 0

\* Mutant: an RSI above 70 counts twice as much as one in 50..70.
StrengthOverbought(r) == CASE r.rsi > 70       -> 4
                           [] r.rsi \in 50..70 -> 2
                           [] r.rsi < 50       -> -2

\* The RSI is taken as momentum between 30 and 70, and against the trend at the
\* extremes.
Strength(r) == CASE r.rsi \in 50..70 -> 2
                 [] r.rsi \in 30..49 -> -2
                 [] r.rsi > 75       -> -1
                 [] r.rsi < 25       -> 1
                 [] OTHER            -> 0

\* The volume is at least 1.2 times its average.
Confirmed(r) == r.average > 0 /\ 10 * r.volume >= 12 * r.average

\* What volume adds to a score of s.
Volume(r, s) == CASE ~Confirmed(r) \/ s = 0 -> 0
                  [] Confirmed(r) /\ s > 0  -> 1
                  [] Confirmed(r) /\ s < 0  -> -1

Score(r) == LET s == Trend(r) + Momentum(r) + Strength(r) IN s + Volume(r, s)

Action(r) == CASE Score(r) >= 4       -> "BUY"
               [] Score(r) <= -4      -> "SELL"
               [] Score(r) \in -3..3  -> "HOLD"

\* The stop is on the losing side of the entry, and on the entry itself for HOLD.
Stop(r) == CASE Action(r) = "BUY"  -> r.price - r.distance
             [] Action(r) = "SELL" -> r.price + r.distance
             [] Action(r) = "HOLD" -> r.price

\* What the first line of the evidence says of the averages.
Evidence(r) == IF r.spread > 0 THEN "above" ELSE "below"

Evaluate(r) == [action |-> Action(r), entry |-> r.price, stop |-> Stop(r),
                evidence |-> Evidence(r)]
=============================================================================
