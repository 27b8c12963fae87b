-------------------------- MODULE MC_StrategyEngine --------------------------
(* The strategy engine on readings and ticks about every threshold.        *)
EXTENDS StrategyEngine, SequencesExt

\* The DEMA bends up, down or not at all; the close is above, within or
\* below the candles before; the CCI crosses zero or its signal line.
Bends   == {<<0, 0, 1>>, <<0, 0, 0>>, <<0, 0, -1>>}
CciPairs == {<<-1, 1>>, <<1, -1>>, <<5, 20>>, <<-5, -20>>, <<170, 160>>, <<-170, -160>>}
Signals == {<<0, 0>>, <<165, 165>>, <<-165, -165>>}

ManyReadings ==
  {r \in [ready : {TRUE}, dema : Bends, cci : CciPairs, signal : Signals, stoch : {15, 50, 85},
          close : {-3, 0, 3}, high : {2}, low : {-2}] :
     /\ r.signal[1] # 0 => r.cci[1] - r.signal[1] \in {5, -5}
     /\ r.stoch # 50 => r.signal[1] = 0 /\ r.dema[3] * r.close > 0}

C(o, h, l, c, v) == [open |-> o, high |-> h, low |-> l, close |-> c, volume |-> v]
Bar(o, c, v) == C(o, 1 + IF o > c THEN o ELSE c, (IF o < c THEN o ELSE c) - 1, c, v)

\* Twelve candles that rise, that fall evenly, or that form a top: shoulders
\* of 104 and 102, a head of 110 at a higher volume than the right shoulder.
Rise == [i \in 1 .. 12 |-> Bar(93 + i, 94 + i, 100)]
Fall == [i \in 1 .. 12 |-> Bar(125 - 2 * i, 124 - 2 * i, 100)]
Tops == LET closes == <<100, 101, 104, 101, 105, 110, 104, 101, 102, 100, 99, 98>>
        IN [i \in 1 .. 12 |-> Bar(closes[i], closes[i], IF i = 6 THEN 200 ELSE 100)]

Endings == {C(104, 107, 103, 106, 160), C(104, 109, 91, 92, 100), C(105, 106, 85, 86, 160)}
Buffers == {<<>>, <<C(104, 105, 90, 92, 160)>>, Tops}
           \cup {Append(s, c) : s \in {Rise, Fall}, c \in Endings}

SomeTicks ==
  [candles : Buffers, price : {90, 101, 110}, volume : {100, 160, 210}, clock : {0, 3},
   ma5 : {95, 105}, ma20 : {100}, volMa20 : {100},
   cci : {<<-5, 5>>, <<120, 110>>}, signal : {<<0, 0>>, <<115, 115>>}, daily : {TRUE}]
  \cup
  [candles : {Rise}, price : {110}, volume : {210}, clock : {2}, ma5 : {0}, ma20 : {0},
   volMa20 : {0}, cci : {<<>>}, signal : {<<>>}, daily : BOOLEAN]

Minutes == [f \in Frames |-> CASE f = "daily" -> 2 [] f = "weekly" -> 3
                               [] f = "monthly" -> 3 [] f = "60min" -> 1]
=============================================================================
