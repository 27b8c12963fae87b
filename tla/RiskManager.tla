---------------------------- MODULE RiskManager ----------------------------
(***************************************************************************)
(* RiskManager and the control routes: the gate between a signal and an    *)
(* order.  evaluate() and check_exit() do not await, so each is one step.  *)
(*                                                                         *)
(* What the gate knows of the account is the Portfolio its caller hands    *)
(* in, a snapshot.  The account, and the orders approved and still open,   *)
(* are around it: they tell what the limits amount to.  A BUY fills one    *)
(* unit at a time; of a SELL only matters that it is open.  Every symbol   *)
(* has one price, so that quantity times price is the book value.          *)
(***************************************************************************)
EXTENDS Integers, FiniteSets

CONSTANTS
  Symbols,
  Price,          \* the price of each symbol
  MaxQty,         \* bound: quantities in signals are 1..MaxQty
  ReduceDivisor,  \* reduce_ratio is one part in ReduceDivisor
  MaxPositionValue, MaxTotalExposure, MaxDailyOrders,   \* RiskConfig
  MaxDays,        \* bound: days
  MaxBoots,       \* bound: starts of the process
  MaxExits        \* bound: exit orders of a symbol that are open at once

ASSUME RiskAssumption ==
  /\ IsFiniteSet(Symbols)
  /\ Price \in [Symbols -> Nat \ {0}]
  /\ ReduceDivisor \in Nat \ {0}
  /\ MaxQty \in Nat /\ MaxDays \in Nat /\ MaxBoots \in Nat /\ MaxExits \in Nat
  /\ MaxPositionValue \in Nat /\ MaxTotalExposure \in Nat /\ MaxDailyOrders \in Nat

VARIABLES
  halt,              \* _halt
  count, resetDate,  \* _daily_order_count, _daily_reset_date
  today,             \* the date (UTC)
  account,           \* units the broker holds
  portfolio,         \* units in the Portfolio callers hand to evaluate()
  buying,            \* open units of approved BUY orders
  selling,           \* symbols with an open SELL order
  exits,             \* open exit orders of check_exit, each for a whole position
  blind,             \* a BUY was approved on a portfolio that lacked something
  boots,             \* starts of the process
  bootsToday, approvedToday   \* starts it ran in today; orders evaluate() let through today

gate  == <<halt, count, resetDate>>
clock == <<today, boots, bootsToday>>
open  == <<buying, selling, exits>>
vars  == <<gate, clock, account, portfolio, open, blind, approvedToday>>

(* HaltLevel, in the order of the enumeration.                             *)
HaltLevel == {"none", "reduce", "pause", "kill"}
Level == [none |-> 0, reduce |-> 1, pause |-> 2, kill |-> 3]

NoUnits == [s \in Symbols |-> 0]

(* Portfolio.total_exposure: book values added up, as the number of all    *)
(* the units of money in them.                                             *)
Money(units) == UNION {{s} \X (1 .. units[s] * Price[s]) : s \in Symbols}
TotalExposure(units) == Cardinality(Money(units))

(* What the account will hold if every approved BUY fills.                 *)
Committed == [s \in Symbols |-> account[s] + buying[s]]

Init ==
  /\ halt = "none" /\ count = 0 /\ resetDate = 1
  /\ today = 1 /\ boots = 1 /\ bootsToday = 1 /\ approvedToday = 0
  /\ account = NoUnits /\ portfolio = NoUnits
  /\ buying = NoUnits /\ selling = {} /\ exits = NoUnits
  /\ blind = FALSE

(***************************************************************************)
(* evaluate                                                                *)
(***************************************************************************)

RefreshedCount == IF today # resetDate THEN 0 ELSE count

(* Bug: the date is kept, so that every call of the next day resets.       *)
RefreshDailyCounter_KeepsDate == resetDate' = resetDate

RefreshDailyCounter == resetDate' = today

CheckHalt(side) == side = "sell" \/ halt \notin {"pause", "kill"}

(* Bug: one too many.                                                      *)
CheckDailyOrders_OffByOne == RefreshedCount <= MaxDailyOrders

CheckDailyOrders == RefreshedCount < MaxDailyOrders

(* Bug: what is already held is left out.                                  *)
CheckTotalExposure_PerOrder(s, qty) == qty * Price[s] <= MaxTotalExposure

CheckTotalExposure(s, qty) ==
  TotalExposure(portfolio) + qty * Price[s] <= MaxTotalExposure

CheckPositionValue(s, qty) ==
  portfolio[s] * Price[s] + qty * Price[s] <= MaxPositionValue

(* int(qty * reduce_ratio), but never less than one.                       *)
ApplyReduce(qty) ==
  IF halt # "reduce" THEN qty
  ELSE IF qty \div ReduceDivisor < 1 THEN 1 ELSE qty \div ReduceDivisor

Passes(side, s, qty, priced) ==
  /\ CheckHalt(side)
  /\ CheckDailyOrders
  /\ side = "buy" => priced /\ CheckTotalExposure(s, qty) /\ CheckPositionValue(s, qty)

(* The portfolio shows less than the account holds or has on order.        *)
Overlooks == \E s \in Symbols : portfolio[s] < Committed[s]

Evaluate(side, s, qty, priced) ==
  /\ RefreshDailyCounter
  /\ IF Passes(side, s, qty, priced)
     THEN /\ count' = RefreshedCount + 1
          /\ approvedToday' = approvedToday + 1
          /\ IF side = "buy"
             THEN /\ buying' = [buying EXCEPT ![s] = @ + ApplyReduce(qty)]
                  /\ blind' = (blind \/ Overlooks)
                  /\ UNCHANGED selling
             ELSE /\ selling' = selling \union {s}
                  /\ UNCHANGED <<buying, blind>>
     ELSE /\ count' = RefreshedCount
          /\ UNCHANGED <<approvedToday, buying, selling, blind>>
  /\ UNCHANGED <<halt, clock, account, portfolio, exits>>

(* check_exit on a price beyond the stop-loss or the take-profit: no halt  *)
(* level, no daily count.                                                  *)
CheckExit(s) ==
  /\ portfolio[s] > 0
  /\ exits[s] < MaxExits
  /\ exits' = [exits EXCEPT ![s] = @ + 1]
  /\ selling' = selling \union {s}
  /\ UNCHANGED <<gate, clock, account, portfolio, buying, blind, approvedToday>>

(* daily_order_count: reading it refreshes it.                             *)
DailyOrderCount ==
  /\ RefreshDailyCounter /\ count' = RefreshedCount
  /\ UNCHANGED <<halt, clock, account, portfolio, open, blind, approvedToday>>

(***************************************************************************)
(* The halt level                                                          *)
(***************************************************************************)

SetHalt(h) ==
  /\ halt' = h
  /\ UNCHANGED <<count, resetDate, clock, account, portfolio, open, blind, approvedToday>>

(* Bug: the levels are not compared.                                       *)
GraduatedHalt_AnyLevel(h) == SetHalt(h)

(* graduated_halt: a level that is not higher is ignored.                 *)
GraduatedHalt(h) == Level[h] > Level[halt] /\ SetHalt(h)

(* Bug: pause forgets the kill.                                            *)
Pause_Always == SetHalt("pause")

(* The routes: 409 under a kill.                                           *)
Pause  == halt # "kill" /\ SetHalt("pause")
Resume == halt # "kill" /\ SetHalt("none")
Kill   == SetHalt("kill")

(***************************************************************************)
(* Around the gate                                                         *)
(***************************************************************************)

(* A restart forgets the halt level and the count.                         *)
Restart ==
  /\ boots < MaxBoots
  /\ boots' = boots + 1 /\ bootsToday' = bootsToday + 1
  /\ halt' = "none" /\ count' = 0 /\ resetDate' = today
  /\ UNCHANGED <<today, account, portfolio, open, blind, approvedToday>>

NextDay ==
  /\ today < MaxDays
  /\ today' = today + 1 /\ bootsToday' = 1 /\ approvedToday' = 0
  /\ UNCHANGED <<gate, boots, account, portfolio, open, blind>>

(* The caller reads the positions anew.                                    *)
LoadPortfolio ==
  /\ portfolio' = account
  /\ UNCHANGED <<gate, clock, account, open, blind, approvedToday>>

FillBuy(s) ==
  /\ buying[s] > 0
  /\ buying' = [buying EXCEPT ![s] = @ - 1]
  /\ account' = [account EXCEPT ![s] = @ + 1]
  /\ UNCHANGED <<gate, clock, portfolio, selling, exits, blind, approvedToday>>

FillSell(s) ==
  /\ s \in selling /\ account[s] > 0
  /\ account' = [account EXCEPT ![s] = @ - 1]
  /\ UNCHANGED <<gate, clock, portfolio, open, blind, approvedToday>>

(* The open orders of a symbol end: filled, refused, cancelled or expired. *)
CloseBuys(s) ==
  /\ buying[s] > 0 /\ buying' = [buying EXCEPT ![s] = 0]
  /\ UNCHANGED <<gate, clock, account, portfolio, selling, exits, blind, approvedToday>>

CloseSells(s) ==
  /\ s \in selling /\ selling' = selling \ {s}
  /\ exits' = [exits EXCEPT ![s] = 0]
  /\ UNCHANGED <<gate, clock, account, portfolio, buying, blind, approvedToday>>

Next ==
  \/ \E side \in {"buy", "sell"}, s \in Symbols, qty \in 1 .. MaxQty, priced \in BOOLEAN :
       Evaluate(side, s, qty, priced)
  \/ \E s \in Symbols : CheckExit(s) \/ FillBuy(s) \/ FillSell(s) \/ CloseBuys(s) \/ CloseSells(s)
  \/ DailyOrderCount
  \/ \E h \in HaltLevel : GraduatedHalt(h)
  \/ Pause \/ Resume \/ Kill
  \/ Restart \/ NextDay \/ LoadPortfolio

Spec == Init /\ [][Next]_vars

(***************************************************************************)
(* Properties                                                              *)
(***************************************************************************)

(* Types; the counter never passes the limit and never counts ahead of the *)
(* date.                                                                   *)
TypeOK ==
  /\ halt \in HaltLevel /\ count \in 0 .. MaxDailyOrders
  /\ today \in Nat /\ resetDate \in Nat /\ resetDate <= today
  /\ boots \in Nat /\ bootsToday \in Nat \ {0} /\ approvedToday \in Nat
  /\ account \in [Symbols -> Nat] /\ portfolio \in [Symbols -> Nat]
  /\ buying \in [Symbols -> Nat] /\ selling \subseteq Symbols /\ exits \in [Symbols -> Nat]
  /\ blind \in BOOLEAN

(* max_daily_orders: whatever order approvals, reads of the counter,       *)
(* midnights and restarts come in, evaluate() lets at most that many       *)
(* orders through on one day for every start of the process, since the     *)
(* count is lost with it.                                                  *)
DailyLimit == approvedToday <= MaxDailyOrders * bootsToday

(* max_position_value: what the account holds of a symbol and has on order *)
(* stays within the limit, under any halt level and whatever part of the   *)
(* orders fills, unless a BUY was approved on a portfolio that did not     *)
(* show all of it.                                                         *)
PositionValueUnlessBlind ==
  ~blind => \A s \in Symbols : Committed[s] * Price[s] <= MaxPositionValue

(* max_total_exposure: the same of all symbols together.                   *)
TotalExposureUnlessBlind == ~blind => TotalExposure(Committed) <= MaxTotalExposure

(* Both value limits.  Nothing is claimed after a BUY that was approved on *)
(* a portfolio that showed too little: then the code does exceed them.     *)
LimitsUnlessBlind == PositionValueUnlessBlind /\ TotalExposureUnlessBlind

(* A kill lasts until a restart and lets no BUY through meanwhile, whoever *)
(* presses pause and resume, or escalates, after it.                       *)
KillHolds ==
  [][halt = "kill" /\ boots' = boots =>
       halt' = "kill" /\ \A s \in Symbols : buying'[s] <= buying[s]]_vars

(* An escalation that comes late never takes back an operator's pause or   *)
(* kill: only resume, a pause of the operator, or a restart lower it.      *)
LoweredByHand ==
  [][Level[halt'] < Level[halt] => Resume \/ Restart]_vars

(* The inductive invariant: what earlier starts of today let through is    *)
(* at most the limit each, and the rest is in the count.                   *)
CountInv ==
  /\ RefreshedCount <= MaxDailyOrders
  /\ approvedToday <= MaxDailyOrders * (bootsToday - 1) + RefreshedCount

IInv == TypeOK /\ CountInv /\ LimitsUnlessBlind

=============================================================================
