--------------------------- MODULE StrategyEngine ---------------------------
(***************************************************************************)
(* The strategy engine with one strategy: the leverage/inverse one, which  *)
(* keeps a position, or CCI/BBC, which looks at the frames it was built    *)
(* with.  The engine keeps the last candles, hands each tick to the        *)
(* strategy and puts its signal on the bus, or drops it when that is full. *)
(* Register, Warmup, the candles and the ticks come from a caller: app.py  *)
(* starts the engine and leaves that to come.                              *)
(*                                                                         *)
(* The handlers are synchronous, so each is one step.                      *)
(***************************************************************************)
EXTENDS MultiTimeframe, LeverageInverse

CONSTANTS
  Units,        \* qty_per_unit
  BufferSize,   \* candle_buffer_size: 200
  Readings,     \* what the candles of a full enough buffer read as
  ReadyAt,      \* candles the indicators of leverage/inverse need
  StockTicks,   \* inputs of CciBbc
  MaxFaults     \* bound: dropped signals, failed warm-ups, registrations and restarts

ASSUME EngineAssumption ==
  /\ Units \subseteq Nat \ {0}
  /\ BufferSize \in Nat \ {0} /\ ReadyAt \in 1 .. BufferSize
  /\ MaxFaults \in Nat
ASSUME ReadingAssumption ==
  Readings # {} /\ \A r \in Readings : r \in Reading /\ r.ready /\ Steady(r)

VARIABLES
  plugin,    \* the strategy registered
  unit,      \* its qty_per_unit
  view,      \* _mtf_data of CciBbcStrategy: the candles in each frame
  pos,       \* the position LeverageInverseStrategy believes in
  failed,    \* it is in _failed_warmup
  running,   \* run() was called, and so the handlers are subscribed
  buffer,    \* number of candles in the buffer
  reading,   \* what they read as
  signals,   \* signals the strategy gave since the buffer last changed, or three for more
  asked,     \* of each product, bought less sold by the signals on the bus
  astray,    \* the strategy's belief was lost, or a signal of its was dropped
  faults

engine == <<plugin, unit, view, pos, failed, running, buffer, reading, signals, asked, astray, faults>>
vars   == <<engine, mtf>>

Judged == Resampled \cup {"60min"}   \* the frames CciBbc asks a direction of

\* What a strategy built now is given.
NoData == [f \in Judged |-> -1]
Data   == IF frames = None THEN NoData ELSE [f \in Judged |-> frames.of[f].candles]

NotReady == [ready |-> FALSE, dema |-> <<0, 0, 0>>, cci |-> <<0, 0>>, signal |-> <<0, 0>>,
             stoch |-> 0, close |-> 0, high |-> 0, low |-> 0]

\* Only the leverage/inverse strategy reads the buffer this way.
ReadingsOf(n) ==
  IF plugin = "leverage_inverse" /\ n >= ReadyAt THEN Readings ELSE {NotReady}

Init ==
  /\ \/ plugin = "leverage_inverse" /\ unit \in Units
     \/ plugin = "cci_bbc" /\ unit = 1
  /\ view = NoData /\ pos = Watching /\ failed = FALSE
  /\ running = FALSE /\ buffer = 0 /\ reading = NotReady /\ signals = 0
  /\ asked = [side \in Sides |-> 0] /\ astray = FALSE /\ faults = 0
  /\ MtfInit

Fault == faults < MaxFaults /\ faults' = faults + 1

\* The strategy starts from nothing; what it held is forgotten.
Anew ==
  /\ view' = Data /\ pos' = Watching /\ failed' = FALSE /\ signals' = 0
  /\ astray' = (astray \/ pos.qty > 0)

\* register() of a strategy of the same name, with the frames loaded by now.
Register == Anew /\ Fault /\ UNCHANGED <<plugin, unit, running, buffer, reading, asked, mtf>>

\* warmup(): the last candles of the history fill the buffer, even when the
\* strategy then raises and is set aside.  Its position is not touched.
Warmup ==
  /\ \E n \in 1 .. BufferSize : buffer' = n /\ reading' \in ReadingsOf(n)
  /\ signals' = 0
  /\ \/ UNCHANGED <<failed, faults>>
     \/ failed' = TRUE /\ Fault
  /\ UNCHANGED <<plugin, unit, view, pos, running, asked, astray, mtf>>

\* Nothing unsubscribes the handlers: stop() only ends run().
Run == /\ ~running /\ running' = TRUE
       /\ UNCHANGED <<plugin, unit, view, pos, failed, buffer, reading, signals, asked, astray, faults, mtf>>

\* For comparison: the buffer has no end.
Appended_Endless(n) == n + 1
Appended(n) == IF n < BufferSize THEN n + 1 ELSE n

Candle ==
  /\ running
  /\ buffer' = Appended(buffer)
  /\ reading' \in ReadingsOf(buffer') /\ signals' = 0
  /\ UNCHANGED <<plugin, unit, view, pos, failed, running, asked, astray, faults, mtf>>

\* publish_nowait(): nothing tells the strategy that its signal was dropped.
\* What was asked is no longer counted once belief and signals disagree.
Publish(order) ==
  LET sign == IF order.way = "BUY" THEN order.qty ELSE -order.qty
      kept == IF astray THEN asked ELSE [asked EXCEPT ![order.side] = @ + sign]
  IN \/ asked' = kept /\ UNCHANGED <<astray, faults>>
     \/ astray' = TRUE /\ Fault /\ UNCHANGED asked

Given == IF signals < 3 THEN signals + 1 ELSE 3

TickOfLeverageInverse ==
  /\ running /\ ~failed /\ plugin = "leverage_inverse"
  /\ LET step == OnTick(pos, reading, unit)
     IN /\ pos' = step.pos
        /\ IF step.order = NoOrder THEN UNCHANGED <<signals, asked, astray, faults>>
           ELSE signals' = Given /\ Publish(step.order)
  /\ UNCHANGED <<plugin, unit, view, failed, running, buffer, reading, mtf>>

(***************************************************************************)
(* CCI/BBC                                                                 *)
(***************************************************************************)
Bbc == INSTANCE CciBbc WITH QtyPerUnit <- 1

Directions == {"bullish", "bearish", "neutral"}

\* The directions with what a tick may say under them; constant, so TLC finds
\* it once.
Verdicts == {<<dir, Bbc!OnTick(x, dir)>> : dir \in [Judged -> Directions], x \in StockTicks}

\* The directions of the frames, whatever their CCI.
Assessed == {[f \in Judged |-> Assess(view[f], up[f])] : up \in [Judged -> BOOLEAN]}

\* Without frames it never trades.  It keeps nothing between ticks; whether its
\* signal is dropped changes nothing of it.  One signal stands for any number.
TickOfCciBbc ==
  /\ running /\ ~failed /\ plugin = "cci_bbc" /\ buffer > 0
  /\ IF view = NoData THEN UNCHANGED signals
     ELSE \E v \in Verdicts :
            /\ v[1] \in Assessed
            /\ signals' = IF v[2] = Bbc!NoSignal THEN signals ELSE 1
  /\ UNCHANGED <<plugin, unit, view, pos, failed, running, buffer, reading, asked, astray, faults, mtf>>

\* The process starts again; the buffer, the frames and the position are gone.
Restart ==
  /\ Fault /\ running' = FALSE /\ buffer' = 0 /\ reading' = NotReady
  /\ view' = NoData /\ pos' = Watching /\ failed' = FALSE /\ signals' = 0
  /\ astray' = (astray \/ pos.qty > 0)
  /\ cache' = [f \in Frames |-> Absent] /\ load' = Idle /\ frames' = None
  /\ UNCHANGED <<plugin, unit, asked, now, failures>>

Loader == plugin = "cci_bbc" /\ MtfNext /\ UNCHANGED engine

Next == Register \/ Warmup \/ Run \/ Candle \/ TickOfLeverageInverse \/ TickOfCciBbc
        \/ Restart \/ Loader

Spec == Init /\ [][Next]_vars

TypeOK ==
  /\ plugin \in {"leverage_inverse", "cci_bbc"} /\ unit \in Units \cup {1}
  /\ failed \in BOOLEAN /\ running \in BOOLEAN /\ astray \in BOOLEAN
  /\ buffer \in 0 .. BufferSize /\ reading \in Readings \cup {NotReady}
  /\ faults \in 0 .. MaxFaults /\ signals \in 0 .. 3
  /\ asked \in [Sides -> Int]
  /\ pos \in [side : Sides \cup {"none"}, partial : BOOLEAN, qty : 0 .. unit, warned : BOOLEAN]
  /\ view = NoData \/ view \in [Judged -> Nat]
  /\ MtfTypeOK

(***************************************************************************)
(* Of either product the leverage/inverse strategy asks to sell what it    *)
(* asked to buy, no more and in the end no less, as long as no signal was  *)
(* dropped and its memory was not lost while it held something             *)
(* (_enter_*, _exit_position_full, _exit_position_partial).  With a unit   *)
(* of one the part is the whole, and the full exit sells it again.         *)
(***************************************************************************)
SellsCovered ==
  ~astray /\ unit > 1 =>
    \A side \in Sides : asked[side] = IF pos.side = side THEN pos.qty ELSE 0

(***************************************************************************)
(* Between two candles, however many ticks come, the leverage/inverse      *)
(* strategy gives two signals at most, an exit and an entry: what it reads *)
(* are the candles, and a reading that makes it enter neither confirms an  *)
(* exit nor crosses back (evaluate_*_entry against _manage_*_position).    *)
(***************************************************************************)
NoChurn == plugin = "leverage_inverse" => signals <= 2

\* A sale below nothing below ever larger purchases.
Worth(signal) == IF signal.side = "SELL" THEN -1 ELSE signal.qty

BuyingIsMonotone ==
  \A dir \in [Judged -> Directions], x \in StockTicks, f \in {"weekly", "60min"} :
    LET better == [dir EXCEPT ![f] = "bullish"]
        Rank(d) == Worth(Bbc!OnTick(x, d))
    IN Rank(dir) <= Rank(better)

(***************************************************************************)
(* A better week or hour, all else equal, never makes CCI/BBC sell where   *)
(* it bought or stayed out, nor buy less (compute_reliability_score,       *)
(* calculate_position_size, on_tick).                                      *)
(***************************************************************************)
BetterFramesBuyNoLess == plugin = "cci_bbc" => BuyingIsMonotone

(***************************************************************************)
(* A frame of at least 20 candles has a direction: specs/tasks.md calls    *)
(* for "neutral" when there are fewer (T072), but the CCI and its signal   *)
(* line are aligned first, and 58 candles is what it takes.                *)
(***************************************************************************)
JudgedWithEnoughCandles ==
  view # NoData => \A f \in Judged, up \in BOOLEAN :
    view[f] >= Period => Assess(view[f], up) # "neutral"
=============================================================================
