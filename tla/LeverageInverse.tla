--------------------------- MODULE LeverageInverse ---------------------------
(***************************************************************************)
(* LeverageInverseStrategy.on_tick(): it watches a stock, buys the         *)
(* leveraged or the inverse product of it when three indicators turn the   *)
(* same way, and sells again.  It never hears of fills: what it believes   *)
(* to hold is what it asked for.                                           *)
(*                                                                         *)
(* The two products mirror each other, so "side" stands for both.  Of the  *)
(* candles a reading keeps what the rules look at: the last DEMA, CCI and  *)
(* signal values, %D, the last close and the highest high and lowest low   *)
(* of the candles before.                                                  *)
(***************************************************************************)
EXTENDS Integers, Sequences

Sides == {"leverage", "inverse"}
Other(side) == IF side = "leverage" THEN "inverse" ELSE "leverage"

Reading == [ready : BOOLEAN, dema : Int \X Int \X Int, cci : Int \X Int,
            signal : Int \X Int, stoch : Int, close : Int, high : Int, low : Int]

\* A CCI of 20 candles lies within 667 of zero, so the mean of ten of them
\* moves by no more than 134 from one candle to the next.
Steady(r) == r.signal[2] - r.signal[1] \in -134 .. 134

\* a lies on the product's side of b.
Beyond(side, a, b) == IF side = "leverage" THEN a > b ELSE a < b

\* detect_dema_slope_up, _down: the last step is steeper than the one before.
Turned(side, r) == Beyond(side, r.dema[3] - r.dema[2], r.dema[2] - r.dema[1])

\* recent_swing_high, _low, and the DEMA: the close is past both.
Breaks(side, r) == /\ Beyond(side, r.close, r.dema[3])
                   /\ Beyond(side, r.close, IF side = "leverage" THEN r.high ELSE r.low)

\* detect_golden_cross, detect_dead_cross
Crosses(side, r) == ~Beyond(side, r.cci[1], r.signal[1]) /\ Beyond(side, r.cci[2], r.signal[2])

(***************************************************************************)
(* Entry                                                                   *)
(***************************************************************************)
EntryMet(side, r) ==
  /\ Turned(side, r)
  /\ Beyond(side, r.cci[2], 0)
  /\ ~Beyond(side, r.cci[1], 0) \/ Crosses(side, r)
  /\ Breaks(side, r)
  /\ IF side = "leverage" THEN r.stoch < 80 ELSE r.stoch > 20

Order(way, side, qty) == [way |-> way, side |-> side, qty |-> qty]
NoOrder == Order("none", "none", 0)

\* phase and position_qty; "warned" is the flag of the product held.
Watching == [side |-> "none", partial |-> FALSE, qty |-> 0, warned |-> FALSE]

Enter(side, unit) ==
  [pos   |-> [side |-> side, partial |-> FALSE, qty |-> unit, warned |-> FALSE],
   order |-> Order("BUY", side, unit)]

(***************************************************************************)
(* Exit                                                                    *)
(***************************************************************************)
\* Two of the three confirmations against the product.
Confirmed(side, r) ==
  LET against == Other(side)
      zero == Beyond(against, r.cci[2], 0)
      turn == Turned(against, r)
  IN (zero /\ turn) \/ ((zero \/ turn) /\ Breaks(against, r))

\* The part is 40 % to the nearest, one at least, and all when that is all.
PartialQty(qty) ==
  LET part == (4 * qty + 5) \div 10
      some == IF part < 1 THEN 1 ELSE part
  IN IF some < qty THEN some ELSE qty

ExitFull(p, unit) ==
  [pos |-> Watching, order |-> Order("SELL", p.side, IF p.qty > 0 THEN p.qty ELSE unit)]

\* For comparison: what is sold is still counted as held; the phase stays.
ExitPartial_Kept(p) ==
  [pos   |-> [p EXCEPT !.partial = TRUE, !.warned = TRUE],
   order |-> Order("SELL", p.side, PartialQty(p.qty))]

ExitPartial_Again(p) ==
  [pos   |-> [p EXCEPT !.qty = p.qty - PartialQty(p.qty), !.warned = TRUE],
   order |-> Order("SELL", p.side, PartialQty(p.qty))]

ExitPartial(p) ==
  [pos   |-> [p EXCEPT !.partial = TRUE, !.qty = p.qty - PartialQty(p.qty), !.warned = TRUE],
   order |-> Order("SELL", p.side, PartialQty(p.qty))]

\* A CCI at or beyond 150 is remembered; a later cross back sells the part.
Extreme(side, r) == IF side = "leverage" THEN r.cci[2] >= 150 ELSE r.cci[2] <= -150

Manage(p, r, unit) ==
  LET warned == p.warned \/ Extreme(p.side, r)
  IN IF Confirmed(p.side, r) THEN ExitFull(p, unit)
     ELSE IF ~p.partial /\ warned /\ Crosses(Other(p.side), r) THEN ExitPartial(p)
     ELSE [pos |-> [p EXCEPT !.warned = warned], order |-> NoOrder]

\* Too few candles for some indicator: nothing happens, not even an exit.
OnTick(p, r, unit) ==
  IF ~r.ready THEN [pos |-> p, order |-> NoOrder]
  ELSE IF p.side # "none" THEN Manage(p, r, unit)
  ELSE IF EntryMet("leverage", r) THEN Enter("leverage", unit)
  ELSE IF EntryMet("inverse", r) THEN Enter("inverse", unit)
  ELSE [pos |-> p, order |-> NoOrder]
=============================================================================
