------------------------------- MODULE CciBbc -------------------------------
(***************************************************************************)
(* CciBbcStrategy.on_tick(): what one tick says, from the candles of the   *)
(* engine's buffer, the tick itself, the daily frame and the directions of *)
(* the other frames.  The strategy keeps nothing between ticks, so this is *)
(* a function.  Prices and volumes are integers, and a factor such as 1.5  *)
(* is a fraction multiplied out.                                           *)
(*                                                                         *)
(* An input x has: candles, oldest first, each with open, high, low, close *)
(* and volume; price, volume and clock of the tick; ma5, ma20 and volMa20  *)
(* of the daily frame; cci and signal, its last two values, or none.  The  *)
(* clock says how many of 10:00, 14:00, 14:30 and 15:30 have passed.       *)
(***************************************************************************)
EXTENDS Integers, Sequences, FiniteSets, FiniteSetsExt, SequencesExt

CONSTANT QtyPerUnit   \* qty_per_unit

Latest(x)   == Last(x.candles)
Surge(x, n) == 2 * x.volume > n * x.volMa20   \* more than n halves of the average
Size(n)     == IF n < 0 THEN -n ELSE n
\* The open of the oldest candle in the buffer stands for the day's open.
DayOpen(x)  == x.candles[1].open

(***************************************************************************)
(* Candles and crosses                                                     *)
(***************************************************************************)
Class(c) == IF 1000 * c.close > 1001 * c.open THEN "bullish"
            ELSE IF 1000 * c.close < 999 * c.open THEN "bearish" ELSE "doji"

IsLarge(c) == c.high > c.low /\ 10 * Size(c.close - c.open) >= 6 * (c.high - c.low)

\* "gc" or "dc" when the last candle took the CCI across its signal line.
Cross(cci, signal) ==
  IF Len(cci) # Len(signal) \/ Len(cci) < 2 THEN "no"
  ELSE IF cci[1] <= signal[1] /\ cci[2] > signal[2] THEN "gc"
  ELSE IF cci[1] >= signal[1] /\ cci[2] < signal[2] THEN "dc" ELSE "no"

\* A confirmed head-and-shoulders top of the last three peaks of the closes.
\* The rebound to be compared with half the head is never above zero, since
\* the right shoulder is below the head.
HeadAndShoulders(candles) ==
  LET n == Len(candles)
      Close(i) == candles[i].close
      peaks == SetToSortSeq({i \in 2 .. n - 1 : Close(i) > Close(i - 1) /\ Close(i) > Close(i + 1)}, <)
      k == Len(peaks)
      left == peaks[k - 2]   head == peaks[k - 1]   right == peaks[k]
  IN /\ n >= 10 /\ k >= 3
     /\ Close(head) > Close(left) /\ Close(head) > Close(right)
     /\ Close(right) < Close(left)
     /\ 2 * Max({Close(right) - Close(head), 0}) < Close(head) - Close(left)
     /\ candles[right].volume < candles[head].volume

\* A falling regression line through the last twelve closes, of volumes that
\* vary little: slope / first close < -0.001, deviation / mean < 0.8.
Declines45(candles) ==
  LET n == Len(candles)
      w == SubSeq(candles, n - 11, n)
      Total(F(_)) == FoldLeft(LAMBDA s, i : s + F(i), 0, [i \in 1 .. 12 |-> i])
      closes == Total(LAMBDA i : w[i].close)
      slope  == 12 * Total(LAMBDA i : (i - 1) * w[i].close) - 66 * closes   \* times 1716
      volume == Total(LAMBDA i : w[i].volume)
      square == 12 * Total(LAMBDA i : w[i].volume * w[i].volume) - volume * volume
  IN /\ n >= 12 /\ volume > 0
     /\ 1000 * slope < -1716 * (IF w[1].close > 0 THEN w[1].close ELSE 1)
     /\ 100 * square < 64 * volume * volume

(***************************************************************************)
(* The types of the day: 4 before 2 before 3 before 1                      *)
(***************************************************************************)
IsType(x, type) ==
  LET c == Latest(x)
      open == DayOpen(x)
      any(P(_)) == \E i \in DOMAIN x.candles : P(x.candles[i])
      surge == 2 * c.volume > 3 * x.volMa20
  IN CASE type = 1 -> IF x.clock >= 2 THEN surge /\ Class(c) # "bearish"
                      ELSE /\ Len(x.candles) >= 2 /\ c.close > open
                           /\ any(LAMBDA d : d.low < open)
       [] type = 2 -> /\ x.clock >= 2 /\ Class(c) = "bearish" /\ c.close < open
                      /\ 2 * (c.high - Max({c.open, c.close})) > Size(c.close - c.open)
       [] type = 3 -> x.clock >= 3 /\ Class(c) # "bearish" /\ surge /\ c.close > open
       [] type = 4 -> /\ IsLarge(c) /\ Class(c) = "bearish" /\ c.close < open
                      /\ \/ any(LAMBDA d : 1000 * d.high > 1005 * open)
                         \/ ~any(LAMBDA d : d.close > open)

Intraday(x) ==
  LET first == SelectSeq(<<4, 2, 3, 1>>, LAMBDA type : IsType(x, type))
  IN IF first = <<>> THEN 0 ELSE Head(first)

(***************************************************************************)
(* The principles of buying and selling                                    *)
(***************************************************************************)
Principle1(x) ==
  /\ x.price > x.ma5 /\ Surge(x, 3)
  /\ \/ x.clock = 0 /\ x.price > DayOpen(x)
     \/ x.clock >= 2

\* Neither the fallen volume of the correction nor a peak volume decides.
Principle2(x) ==
  LET n == Len(x.candles)
      recentHigh == Max({x.candles[i].high : i \in Max({1, n - 9}) .. n})
  IN /\ x.ma20 <= x.price /\ x.price <= x.ma5 /\ n >= 2
     /\ Surge(x, 3) /\ Class(Latest(x)) # "bearish"
     /\ recentHigh > 0 /\ 2 * (recentHigh - x.price) <= recentHigh

\* The first principle that is met, or none; the third one asks for a price
\* below the 20-day line at more than twice the volume.
EvaluateBuy(x) ==
  \/ Principle1(x)
  \/ Principle2(x)
  \/ x.price < x.ma20 /\ Surge(x, 4) /\ Class(Latest(x)) # "bearish"

SellPrinciple1(x) ==
  \/ x.price < x.ma5 /\ x.ma5 < x.ma20
  \/ x.price > x.ma5 /\ Surge(x, 4) /\ Class(Latest(x)) # "bullish"

EvaluateSell(x) ==
  \/ SellPrinciple1(x)
  \/ /\ x.ma20 < x.price /\ x.price <= x.ma5 /\ Class(Latest(x)) = "bearish"
     /\ \/ Surge(x, 3)
        \/ 100 * x.price <= 105 * x.ma20 /\ Surge(x, 4) /\ IsLarge(Latest(x))

(***************************************************************************)
(* The score and the decision                                              *)
(***************************************************************************)
Score(x, dir) ==
  LET type == Intraday(x)
      Points(holds, n) == IF holds THEN n ELSE 0
  IN Points(dir["monthly"] = "bullish", 1) + Points(dir["weekly"] = "bullish", 1)
     + Points(Cross(x.cci, x.signal) = "gc", 2) + Points(Cross(x.cci, x.signal) = "dc", -2)
     + Points(dir["60min"] = "bullish", 1)
     + Points(x.volMa20 > 0 /\ Surge(x, 3), 1)
     + Points(type \in {1, 3}, 1) + Points(x.ma5 > x.ma20, 1)
     + Points(Declines45(x.candles), -1) + Points(type = 4, -2)

\* Tenths of the position: 30 %, 10 % or nothing.
\* For comparison: the cautious buyer gets the large one.
PositionSize_Swapped(score) == IF score >= 7 THEN 1 ELSE IF score >= 4 THEN 3 ELSE 0
PositionSize(score) == IF score >= 7 THEN 3 ELSE IF score >= 4 THEN 1 ELSE 0

ImmediateSell(x) ==
  LET type == Intraday(x)
  IN \/ Declines45(x.candles)
     \/ x.price < x.ma5 /\ x.price < x.ma20
     \/ type = 4 /\ 100 * x.price < 102 * x.ma20
     \/ Cross(x.cci, x.signal) = "dc" /\ x.cci[2] >= 100 /\ type = 2

NoSignal      == [side |-> "none", of |-> "stock", qty |-> 0]
\* Every ratio of a sale ends as the same quantity, and max(1, ...) never bites.
Sell(qty)     == [side |-> "SELL", of |-> "stock", qty |-> qty]
Buy(tenths)   == [side |-> "BUY",  of |-> "stock", qty |-> QtyPerUnit * tenths]
All           == 9999   \* to be cut to what is held

\* A top sells everything unless month and week both rise, before anything
\* else; then a month that does not rise keeps the strategy from all trades,
\* selling included.  The strategy has its frames.
OnTick(x, dir) ==
  LET top == /\ HeadAndShoulders(x.candles)
             /\ dir["monthly"] # "bullish" \/ dir["weekly"] # "bullish"
      score == Score(x, dir)
  IN CASE x.candles = <<>> -> NoSignal
       [] x.candles # <<>> /\ top -> Sell(All)
       [] OTHER ->
            IF dir["monthly"] # "bullish" \/ ~x.daily THEN NoSignal
            ELSE IF ImmediateSell(x) THEN Sell(QtyPerUnit)
            ELSE IF score < 0 THEN IF EvaluateSell(x) THEN Sell(QtyPerUnit) ELSE NoSignal
            ELSE IF PositionSize(score) = 0 \/ ~EvaluateBuy(x) \/ Intraday(x) = 4 THEN NoSignal
            ELSE Buy(PositionSize(score))
=============================================================================
