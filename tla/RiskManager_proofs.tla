------------------------- MODULE RiskManager_proofs -------------------------
(***************************************************************************)
(* The gate, for every finite set of symbols, all prices and limits, any   *)
(* number of days and restarts.  IInv of RiskManager is inductive.  The    *)
(* exposure over all symbols counts units of money, so that what an order  *)
(* adds to it follows from the cardinality of sets.                        *)
(***************************************************************************)
EXTENDS RiskManager, FiniteSetTheorems, TLAPS

(* Multiplying by a price keeps the order of quantities.                   *)
LEMMA Times ==
  ASSUME NEW a \in Int, NEW b \in Int, NEW p \in Nat, a <= b
  PROVE  a * p <= b * p
<1>1. (b - a) * p >= 0
  OBVIOUS
<1> QED
  BY <1>1

(***************************************************************************)
(* Total exposure                                                          *)
(***************************************************************************)
LEMMA MoneyFinite ==
  ASSUME NEW u \in [Symbols -> Nat]
  PROVE  /\ IsFiniteSet(Money(u)) /\ TotalExposure(u) \in Nat
         /\ \A s, n : <<s, n>> \in Money(u) <=> s \in Symbols /\ n \in 1 .. u[s] * Price[s]
         /\ \A x \in Money(u) : \E s, n : x = <<s, n>>
<1> DEFINE f == [s \in Symbols |-> {s} \X (1 .. u[s] * Price[s])]
           F == {{s} \X (1 .. u[s] * Price[s]) : s \in Symbols}
<1>1. IsFiniteSet(F)
  <2>1. f \in Surjection(Symbols, F)
    BY DEF Surjection
  <2>2. IsFiniteSet(Symbols)
    BY RiskAssumption
  <2> HIDE DEF f, F
  <2> QED
    BY <2>1, <2>2, FS_Surjection
<1>2. \A T \in F : IsFiniteSet(T)
  <2> SUFFICES ASSUME NEW s \in Symbols PROVE IsFiniteSet({s} \X (1 .. u[s] * Price[s]))
    OBVIOUS
  <2>1. u[s] * Price[s] \in Int
    BY RiskAssumption
  <2>2. IsFiniteSet(1 .. u[s] * Price[s])
    BY <2>1, FS_Interval
  <2>3. IsFiniteSet({s})
    BY FS_Singleton
  <2> QED
    BY <2>2, <2>3, FS_Product
<1>3. IsFiniteSet(Money(u))
  <2>1. IsFiniteSet(UNION F)
    <3> HIDE DEF F
    <3> QED
      BY <1>1, <1>2, FS_UNION
  <2> QED
    BY <2>1 DEF Money
<1>4. TotalExposure(u) \in Nat
  BY <1>3, FS_CardinalityType DEF TotalExposure
<1>5. \A s, n : <<s, n>> \in Money(u) <=> s \in Symbols /\ n \in 1 .. u[s] * Price[s]
  BY DEF Money
<1>6. \A x \in Money(u) : \E s, n : x = <<s, n>>
  BY DEF Money
<1> QED
  BY <1>3, <1>4, <1>5, <1>6

(* Fewer units of everything are not worth more.                           *)
LEMMA ExposureGrows ==
  ASSUME NEW u \in [Symbols -> Nat], NEW v \in [Symbols -> Nat], \A s \in Symbols : u[s] <= v[s]
  PROVE  TotalExposure(u) <= TotalExposure(v)
<1>1. ASSUME NEW x \in Money(u) PROVE x \in Money(v)
  <2>1. PICK s, n : x = <<s, n>>
    BY MoneyFinite
  <2>2. s \in Symbols /\ n \in 1 .. u[s] * Price[s]
    BY <2>1, MoneyFinite
  <2>3. u[s] \in Int /\ v[s] \in Int /\ Price[s] \in Nat /\ u[s] <= v[s]
    BY <2>2, RiskAssumption
  <2>4. u[s] * Price[s] <= v[s] * Price[s]
    BY <2>3, Times
  <2>5. u[s] * Price[s] \in Int /\ v[s] * Price[s] \in Int
    BY <2>3
  <2>6. n \in 1 .. v[s] * Price[s]
    BY <2>2, <2>4, <2>5
  <2> QED
    BY <2>1, <2>2, <2>6, MoneyFinite
<1> QED
  BY <1>1, MoneyFinite, FS_Subset DEF TotalExposure

(* At most q units more of one symbol are worth at most q times its price. *)
LEMMA ExposureOfOrder ==
  ASSUME NEW u \in [Symbols -> Nat], NEW v \in [Symbols -> Nat], NEW s \in Symbols, NEW q \in Nat,
         v[s] <= u[s] + q, \A r \in Symbols \ {s} : v[r] <= u[r]
  PROVE  TotalExposure(v) <= TotalExposure(u) + q * Price[s]
<1> DEFINE a == u[s] * Price[s]
           b == q * Price[s]
           Order == {s} \X (a + 1 .. a + b)
<1>1. a \in Nat /\ b \in Nat /\ Price[s] \in Nat
  BY RiskAssumption
<1>2. v[s] * Price[s] <= a + b /\ v[s] * Price[s] \in Int
  <2>1. v[s] * Price[s] <= (u[s] + q) * Price[s]
    BY <1>1, Times
  <2>2. (u[s] + q) * Price[s] = u[s] * Price[s] + q * Price[s]
    BY <1>1
  <2> QED
    BY <1>1, <2>1, <2>2
<1> HIDE DEF a, b
<1>3. IsFiniteSet(Order) /\ Cardinality(Order) = b
  <2>1. IsFiniteSet(a + 1 .. a + b) /\ Cardinality(a + 1 .. a + b) = b
    <3>1. /\ a + 1 \in Int /\ a + b \in Int
          /\ (IF a + 1 > a + b THEN 0 ELSE (a + b) - (a + 1) + 1) = b
      BY <1>1
    <3> QED
      BY <3>1, FS_Interval
  <2>2. IsFiniteSet({s}) /\ Cardinality({s}) = 1
    BY FS_Singleton
  <2> QED
    BY <1>1, <2>1, <2>2, FS_Product
<1>4. ASSUME NEW x \in Money(v) PROVE x \in Money(u) \union Order
  <2>1. PICK r, n : x = <<r, n>>
    BY MoneyFinite
  <2>2. r \in Symbols /\ n \in 1 .. v[r] * Price[r]
    BY <2>1, MoneyFinite
  <2>3. CASE r = s
    <3>1. n \in 1 .. a \/ n \in a + 1 .. a + b
      BY <1>1, <1>2, <2>2, <2>3
    <3> QED
      BY <2>1, <2>2, <2>3, <3>1, MoneyFinite DEF a
  <2>4. CASE r # s
    <3>1. v[r] \in Int /\ u[r] \in Int /\ Price[r] \in Nat /\ v[r] <= u[r]
      BY <2>2, <2>4, RiskAssumption
    <3>2. v[r] * Price[r] <= u[r] * Price[r] /\ v[r] * Price[r] \in Int /\ u[r] * Price[r] \in Int
      BY <3>1, Times
    <3>3. n \in 1 .. u[r] * Price[r]
      BY <2>2, <3>2
    <3> QED
      BY <2>1, <2>2, <3>3, MoneyFinite
  <2> QED
    BY <2>3, <2>4
<1> DEFINE U == Money(u)
           V == Money(v)
<1>5. IsFiniteSet(U) /\ IsFiniteSet(V) /\ V \subseteq U \union Order
  BY <1>4, MoneyFinite
<1> HIDE DEF U, V, Order
<1>6. /\ IsFiniteSet(U \union Order)
      /\ Cardinality(U \union Order) = Cardinality(U) + Cardinality(Order) - Cardinality(U \intersect Order)
  BY <1>3, <1>5, FS_Union
<1>7. Cardinality(V) <= Cardinality(U \union Order)
  BY <1>5, <1>6, FS_Subset
<1>8. /\ Cardinality(U) \in Nat /\ Cardinality(V) \in Nat /\ Cardinality(U \intersect Order) \in Nat
      /\ Cardinality(U \union Order) \in Nat
  <2>1. IsFiniteSet(U \intersect Order)
    BY <1>5, FS_Intersection
  <2> QED
    BY <1>5, <1>6, <2>1, FS_CardinalityType
<1>9. Cardinality(V) <= Cardinality(U) + b
  BY <1>1, <1>3, <1>6, <1>7, <1>8
<1> QED
  BY <1>9 DEF TotalExposure, U, V, b

(* An order is never larger than its signal.                               *)
LEMMA ReduceShrinks ==
  ASSUME NEW q \in 1 .. MaxQty
  PROVE  ApplyReduce(q) \in 1 .. q
<1>1. MaxQty \in Nat /\ ReduceDivisor \in Nat /\ ReduceDivisor >= 1
  BY RiskAssumption
<1>2. q \div ReduceDivisor \in Nat /\ q \div ReduceDivisor <= q
  BY <1>1
<1> QED
  BY <1>1, <1>2 DEF ApplyReduce

(* The limits survive a step that commits no more.                         *)
LEMMA LimitKept ==
  ASSUME TypeOK, TypeOK', LimitsUnlessBlind, blind' = blind, \A s \in Symbols : Committed'[s] <= Committed[s]
  PROVE  LimitsUnlessBlind'
<1>1. ASSUME ~blind, NEW s \in Symbols
      PROVE  Committed'[s] * Price[s] <= MaxPositionValue
  <2>1. Committed[s] \in Nat /\ Committed'[s] \in Nat /\ Price[s] \in Nat /\ MaxPositionValue \in Nat
    BY RiskAssumption DEF TypeOK, Committed
  <2>2. Committed[s] * Price[s] <= MaxPositionValue
    BY <1>1 DEF LimitsUnlessBlind, PositionValueUnlessBlind
  <2>3. Committed'[s] * Price[s] <= Committed[s] * Price[s]
    BY <2>1, Times
  <2>4. Committed'[s] * Price[s] \in Int /\ Committed[s] * Price[s] \in Int
    BY <2>1
  <2> QED
    BY <2>1, <2>2, <2>3, <2>4
<1>2. ASSUME ~blind
      PROVE  TotalExposure(Committed') <= MaxTotalExposure
  <2>1. Committed \in [Symbols -> Nat] /\ Committed' \in [Symbols -> Nat]
    BY DEF TypeOK, Committed
  <2>2. TotalExposure(Committed) \in Nat /\ TotalExposure(Committed') \in Nat
    BY <2>1, MoneyFinite
  <2>3. TotalExposure(Committed') <= TotalExposure(Committed)
    BY <2>1, ExposureGrows
  <2>4. TotalExposure(Committed) <= MaxTotalExposure
    BY <1>2 DEF LimitsUnlessBlind, TotalExposureUnlessBlind
  <2> QED
    BY <2>2, <2>3, <2>4, RiskAssumption
<1>3. PositionValueUnlessBlind'
  BY <1>1 DEF PositionValueUnlessBlind
<1>4. TotalExposureUnlessBlind'
  BY <1>2 DEF TotalExposureUnlessBlind, TotalExposure, Money
<1> QED
  BY <1>3, <1>4 DEF LimitsUnlessBlind

(* ... and a step that leaves the account and the open BUYs alone.         *)
LEMMA LimitUntouched ==
  ASSUME LimitsUnlessBlind, UNCHANGED <<account, buying, blind>>
  PROVE  LimitsUnlessBlind'
<1>1. Committed' = Committed
  BY DEF Committed
<1> QED
  BY <1>1 DEF LimitsUnlessBlind, PositionValueUnlessBlind, TotalExposureUnlessBlind, TotalExposure, Money

(* ... and an approved BUY of a caller that showed everything the account  *)
(* has committed.                                                          *)
LEMMA LimitsOfBuy ==
  ASSUME TypeOK, TypeOK', LimitsUnlessBlind, NEW s \in Symbols, NEW qty \in 1 .. MaxQty,
         CheckTotalExposure(s, qty), CheckPositionValue(s, qty),
         buying' = [buying EXCEPT ![s] = @ + ApplyReduce(qty)],
         blind' = (blind \/ Overlooks), account' = account
  PROVE  LimitsUnlessBlind'
<1>0. /\ Committed \in [Symbols -> Nat] /\ Committed' \in [Symbols -> Nat] /\ portfolio \in [Symbols -> Nat]
      /\ Price[s] \in Nat /\ MaxPositionValue \in Nat /\ MaxTotalExposure \in Nat
  <2>1. Committed \in [Symbols -> Nat] /\ portfolio \in [Symbols -> Nat]
    BY DEF TypeOK, Committed
  <2>2. Committed' \in [Symbols -> Nat]
    BY DEF TypeOK, Committed
  <2> QED
    BY <2>1, <2>2, RiskAssumption
<1>1. ApplyReduce(qty) \in 1 .. qty /\ qty \in Nat
  BY ReduceShrinks
<1>2. /\ Committed'[s] = Committed[s] + ApplyReduce(qty)
      /\ \A r \in Symbols \ {s} : Committed'[r] = Committed[r]
  BY <1>1 DEF TypeOK, Committed
<1>3. ASSUME ~blind' PROVE ~blind /\ \A r \in Symbols : Committed[r] <= portfolio[r]
  <2>1. ~blind /\ ~Overlooks
    BY <1>3, Zenon
  <2> QED
    BY <1>0, <2>1 DEF Overlooks
<1>4. ASSUME ~blind', NEW r \in Symbols
      PROVE  Committed'[r] * Price[r] <= MaxPositionValue
  <2>1. CASE r # s
    BY <1>2, <1>3, <1>4, <2>1 DEF LimitsUnlessBlind, PositionValueUnlessBlind
  <2>2. CASE r = s
    <3>1. Committed'[s] \in Nat /\ Committed'[s] <= portfolio[s] + qty /\ portfolio[s] \in Nat
      BY <1>0, <1>1, <1>2, <1>3, <1>4
    <3>2. Committed'[s] * Price[s] <= (portfolio[s] + qty) * Price[s]
      BY <1>0, <1>1, <3>1, Times
    <3>3. (portfolio[s] + qty) * Price[s] = portfolio[s] * Price[s] + qty * Price[s]
      BY <1>0, <1>1, <3>1
    <3>4. portfolio[s] * Price[s] + qty * Price[s] <= MaxPositionValue
      BY DEF CheckPositionValue
    <3>5. Committed'[s] * Price[s] \in Int /\ (portfolio[s] + qty) * Price[s] \in Int
      BY <1>0, <1>1, <3>1
    <3> QED
      BY <1>0, <2>2, <3>2, <3>3, <3>4, <3>5
  <2> QED
    BY <2>1, <2>2
<1>5. ASSUME ~blind'
      PROVE  TotalExposure(Committed') <= MaxTotalExposure
  <2>1. Committed'[s] <= portfolio[s] + qty /\ \A r \in Symbols \ {s} : Committed'[r] <= portfolio[r]
    BY <1>0, <1>1, <1>2, <1>3, <1>5
  <2>2. TotalExposure(Committed') <= TotalExposure(portfolio) + qty * Price[s]
    BY <1>0, <1>1, <2>1, ExposureOfOrder
  <2>3. TotalExposure(portfolio) + qty * Price[s] <= MaxTotalExposure
    BY DEF CheckTotalExposure
  <2>4. TotalExposure(Committed') \in Nat /\ TotalExposure(portfolio) \in Nat /\ qty * Price[s] \in Nat
    BY <1>0, <1>1, MoneyFinite
  <2> QED
    BY <1>0, <2>2, <2>3, <2>4
<1>6. PositionValueUnlessBlind'
  BY <1>4 DEF PositionValueUnlessBlind
<1>7. TotalExposureUnlessBlind'
  BY <1>5 DEF TotalExposureUnlessBlind, TotalExposure, Money
<1> QED
  BY <1>6, <1>7 DEF LimitsUnlessBlind

(* The count survives a step that touches neither it nor the clock.        *)
LEMMA CountKept ==
  ASSUME CountInv, UNCHANGED <<count, resetDate, clock, approvedToday>>
  PROVE  CountInv'
BY DEF CountInv, RefreshedCount, clock

(* Refreshing the counter changes nothing but the date of the reset.       *)
LEMMA RefreshKeeps ==
  ASSUME TypeOK, CountInv, RefreshDailyCounter, count' = RefreshedCount,
         UNCHANGED <<clock, approvedToday>>
  PROVE  CountInv' /\ count' \in 0 .. MaxDailyOrders /\ resetDate' = today
<1>1. RefreshedCount' = RefreshedCount
  BY DEF RefreshDailyCounter, RefreshedCount, clock
<1>2. RefreshedCount \in 0 .. MaxDailyOrders
  BY RiskAssumption DEF TypeOK, RefreshedCount
<1> QED
  BY <1>1, <1>2 DEF CountInv, RefreshDailyCounter, clock

LEMMA InitHolds == Init => IInv
<1> SUFFICES ASSUME Init PROVE IInv
  OBVIOUS
<1> USE RiskAssumption
<1>1. TypeOK
  <2>1. NoUnits \in [Symbols -> Nat]
    BY DEF NoUnits
  <2>2. count \in 0 .. MaxDailyOrders /\ halt \in HaltLevel
    BY DEF Init, HaltLevel
  <2>3. /\ today \in Nat /\ resetDate \in Nat /\ resetDate <= today /\ boots \in Nat
        /\ bootsToday \in Nat \ {0} /\ approvedToday \in Nat
    BY DEF Init
  <2>4. selling \subseteq Symbols /\ blind \in BOOLEAN
    BY DEF Init
  <2> HIDE RiskAssumption
  <2> QED
    BY <2>1, <2>2, <2>3, <2>4 DEF Init, TypeOK
<1>2. CountInv
  BY DEF Init, CountInv, RefreshedCount
<1>3. \A s \in Symbols : Committed[s] * Price[s] = 0
  BY DEF Init, Committed, NoUnits
<1>4. PositionValueUnlessBlind
  BY <1>3 DEF PositionValueUnlessBlind
<1>5. TotalExposureUnlessBlind
  <2>1. Money(Committed) = {}
    BY <1>3 DEF Money
  <2>2. TotalExposure(Committed) = 0
    BY <2>1, FS_EmptySet DEF TotalExposure
  <2> QED
    BY <2>2 DEF TotalExposureUnlessBlind
<1> QED
  BY <1>1, <1>2, <1>4, <1>5 DEF IInv, LimitsUnlessBlind

-----------------------------------------------------------------------------
(* evaluate: an approved BUY stays within the limit if the portfolio       *)
(* showed everything the account has committed.                            *)
LEMMA EvaluateKeeps ==
  ASSUME IInv, NEW side \in {"buy", "sell"}, NEW s \in Symbols, NEW qty \in 1 .. MaxQty,
         NEW priced \in BOOLEAN, Evaluate(side, s, qty, priced)
  PROVE  IInv'
<1> USE RiskAssumption
<1>1. /\ RefreshDailyCounter
      /\ UNCHANGED <<halt, clock, account, portfolio, exits>>
  BY DEF Evaluate
<1>2. RefreshedCount \in 0 .. MaxDailyOrders
  BY DEF IInv, TypeOK, RefreshedCount
<1>3. CASE ~Passes(side, s, qty, priced)
  <2>1. count' = RefreshedCount /\ UNCHANGED <<approvedToday, buying, selling, blind>>
    BY <1>3 DEF Evaluate
  <2>2. CountInv' /\ count' \in 0 .. MaxDailyOrders
    BY <1>1, <2>1, RefreshKeeps DEF IInv
  <2>3. TypeOK'
    BY <1>1, <2>1, <2>2 DEF IInv, TypeOK, clock, RefreshDailyCounter
  <2>4. LimitsUnlessBlind'
    BY <1>1, <2>1, LimitUntouched DEF IInv, LimitsUnlessBlind
  <2> QED
    BY <2>2, <2>3, <2>4 DEF IInv, LimitsUnlessBlind
<1>4. CASE Passes(side, s, qty, priced)
  <2>1. /\ count' = RefreshedCount + 1 /\ approvedToday' = approvedToday + 1
        /\ RefreshedCount < MaxDailyOrders
    BY <1>4 DEF Evaluate, Passes, CheckDailyOrders
  <2>2. RefreshedCount' = RefreshedCount + 1
    BY <1>1, <2>1 DEF RefreshDailyCounter, RefreshedCount, clock
  <2>3. CountInv'
    <3>1. MaxDailyOrders * (bootsToday - 1) \in Int /\ approvedToday \in Nat
      BY DEF IInv, TypeOK
    <3> QED
      BY <1>1, <1>2, <2>1, <2>2, <3>1 DEF CountInv, IInv, clock
  <2>4. CASE side = "sell"
    <3>1. selling' = selling \union {s} /\ UNCHANGED <<buying, blind>>
      BY <1>4, <2>4 DEF Evaluate
    <3>2. TypeOK'
      BY <1>1, <1>2, <2>1, <3>1 DEF IInv, TypeOK, clock, RefreshDailyCounter
    <3>3. LimitsUnlessBlind'
      BY <1>1, <3>1, LimitUntouched DEF IInv, LimitsUnlessBlind
    <3> QED
      BY <2>3, <3>2, <3>3 DEF IInv, LimitsUnlessBlind
  <2>5. CASE side = "buy"
    <3>1. /\ buying' = [buying EXCEPT ![s] = @ + ApplyReduce(qty)]
          /\ blind' = (blind \/ Overlooks) /\ UNCHANGED selling
          /\ CheckPositionValue(s, qty) /\ CheckTotalExposure(s, qty)
      BY <1>4, <2>5 DEF Evaluate, Passes
    <3>2. ApplyReduce(qty) \in 1 .. qty /\ qty \in Nat
      BY ReduceShrinks
    <3>3. TypeOK'
      <4>1. buying' \in [Symbols -> Nat]
        BY <3>1, <3>2 DEF IInv, TypeOK
      <4> QED
        BY <1>1, <1>2, <2>1, <3>1, <4>1 DEF IInv, TypeOK, clock, RefreshDailyCounter
    <3>4. LimitsUnlessBlind'
      BY <1>1, <3>1, <3>3, LimitsOfBuy DEF IInv, LimitsUnlessBlind
    <3> QED
      BY <2>3, <3>3, <3>4 DEF IInv, LimitsUnlessBlind
  <2> QED
    BY <2>4, <2>5
<1> QED
  BY <1>3, <1>4

(* The limits stay as they are over an exit, a read of the counter, a new  *)
(* halt level, a new portfolio and the end of SELL orders.                 *)
LEMMA QuietKeeps ==
  ASSUME IInv,
         \/ \E s \in Symbols : CheckExit(s) \/ CloseSells(s)
         \/ DailyOrderCount
         \/ \E h \in HaltLevel : SetHalt(h)
         \/ LoadPortfolio
  PROVE  IInv'
<1> USE DEF IInv
<1>1. ASSUME NEW s \in Symbols, CheckExit(s) \/ CloseSells(s)
      PROVE  IInv'
  <2>1. UNCHANGED <<gate, clock, account, portfolio, buying, blind, approvedToday>>
    BY <1>1 DEF CheckExit, CloseSells
  <2>2. TypeOK'
    BY <1>1, <2>1 DEF CheckExit, CloseSells, TypeOK, gate, clock
  <2> QED
    BY <2>1, <2>2, CountKept, LimitUntouched DEF gate, LimitsUnlessBlind
<1>2. CASE DailyOrderCount
  <2>1. CountInv' /\ count' \in 0 .. MaxDailyOrders
    BY <1>2, RefreshKeeps DEF DailyOrderCount
  <2>2. TypeOK'
    BY <1>2, <2>1 DEF DailyOrderCount, RefreshDailyCounter, TypeOK, clock, open
  <2> QED
    BY <1>2, <2>1, <2>2, LimitUntouched DEF DailyOrderCount, open, LimitsUnlessBlind
<1>3. ASSUME NEW h \in HaltLevel, SetHalt(h)
      PROVE  IInv'
  <2>1. TypeOK'
    BY <1>3 DEF SetHalt, TypeOK, clock, open
  <2> QED
    BY <1>3, <2>1, CountKept, LimitUntouched DEF SetHalt, open, LimitsUnlessBlind
<1>4. CASE LoadPortfolio
  <2>1. TypeOK'
    BY <1>4 DEF LoadPortfolio, TypeOK, gate, clock, open
  <2> QED
    BY <1>4, <2>1, CountKept, LimitUntouched DEF LoadPortfolio, gate, open, LimitsUnlessBlind
<1> QED
  BY <1>1, <1>2, <1>3, <1>4

(* What the account does with orders commits no more than was approved.    *)
LEMMA AccountKeeps ==
  ASSUME IInv, NEW s \in Symbols, FillBuy(s) \/ FillSell(s) \/ CloseBuys(s)
  PROVE  IInv'
<1> USE DEF IInv
<1>1. UNCHANGED <<gate, clock, portfolio, blind, approvedToday>>
  BY DEF FillBuy, FillSell, CloseBuys
<1>2. CountInv'
  BY <1>1, CountKept DEF gate
<1>3. TypeOK'
  <2>1. account' \in [Symbols -> Nat] /\ buying' \in [Symbols -> Nat] /\ UNCHANGED <<selling, exits>>
    BY DEF FillBuy, FillSell, CloseBuys, TypeOK, open
  <2> QED
    BY <1>1, <2>1 DEF TypeOK, gate, clock
<1>4. \A r \in Symbols : Committed'[r] <= Committed[r]
  BY DEF FillBuy, FillSell, CloseBuys, TypeOK, open, Committed
<1> QED
  BY <1>1, <1>2, <1>3, <1>4, LimitKept DEF LimitsUnlessBlind

(* A restart turns the count into one more start.                          *)
LEMMA RestartKeeps == ASSUME IInv, Restart PROVE IInv'
<1> USE RiskAssumption DEF IInv
<1>1. TypeOK'
  BY DEF Restart, TypeOK, HaltLevel, open
<1>2. MaxDailyOrders * (bootsToday - 1) + MaxDailyOrders = MaxDailyOrders * bootsToday
  BY DEF TypeOK
<1>3. bootsToday' - 1 = bootsToday /\ RefreshedCount' = 0 /\ approvedToday' = approvedToday
  BY DEF Restart, TypeOK, RefreshedCount
<1>4. CountInv'
  <2>1. MaxDailyOrders * (bootsToday - 1) \in Int /\ RefreshedCount \in Int
    BY DEF TypeOK, RefreshedCount
  <2>2. approvedToday <= MaxDailyOrders * bootsToday
    BY <1>2, <2>1 DEF CountInv, TypeOK
  <2> QED
    BY <1>3, <2>2 DEF CountInv, TypeOK
<1> QED
  BY <1>1, <1>4, LimitUntouched DEF Restart, open, LimitsUnlessBlind

(* Midnight: nothing was approved yet on the new day.                      *)
LEMMA NextDayKeeps == ASSUME IInv, NextDay PROVE IInv'
<1> USE RiskAssumption DEF IInv
<1>1. TypeOK'
  BY DEF NextDay, TypeOK, gate, open
<1>2. RefreshedCount' = 0 /\ bootsToday' = 1 /\ approvedToday' = 0
  BY DEF NextDay, TypeOK, RefreshedCount, gate
<1>3. CountInv'
  BY <1>2 DEF CountInv
<1> QED
  BY <1>1, <1>3, LimitUntouched DEF NextDay, open, LimitsUnlessBlind

LEMMA StutterKeeps == ASSUME IInv, UNCHANGED vars PROVE IInv'
<1>1. TypeOK'
  BY DEF IInv, TypeOK, vars, gate, clock, open
<1> QED
  BY <1>1, CountKept, LimitUntouched DEF IInv, vars, gate, open, LimitsUnlessBlind

LEMMA NextKeeps == ASSUME IInv, [Next]_vars PROVE IInv'
<1>1. ASSUME Pause \/ Resume \/ Kill \/ \E h \in HaltLevel : GraduatedHalt(h)
      PROVE  \E h \in HaltLevel : SetHalt(h)
  BY <1>1 DEF Pause, Resume, Kill, GraduatedHalt, HaltLevel
<1> QED
  BY <1>1, EvaluateKeeps, QuietKeeps, AccountKeeps, RestartKeeps, NextDayKeeps, StutterKeeps
     DEF Next

-----------------------------------------------------------------------------
(* IInv is an invariant.                                                   *)
THEOREM GateInvariance == Spec => []IInv
<1>1. Init => IInv
  BY InitHolds
<1>2. IInv /\ [Next]_vars => IInv'
  BY NextKeeps
<1> QED
  BY <1>1, <1>2, PTL DEF Spec

(* Type correctness: the counter of the day is within its limit, before    *)
(* and after midnight.                                                     *)
THEOREM GateTyping == Spec => []TypeOK
<1>1. IInv => TypeOK
  BY DEF IInv
<1> QED
  BY <1>1, GateInvariance, PTL

(* evaluate() lets at most max_daily_orders orders through on one day for  *)
(* every start of the process, over midnights and restarts.                *)
THEOREM OrdersOfADay == Spec => []DailyLimit
<1>1. IInv => DailyLimit
  <2> SUFFICES ASSUME IInv PROVE DailyLimit
    OBVIOUS
  <2>1. MaxDailyOrders \in Nat /\ bootsToday \in Nat /\ approvedToday \in Nat
    BY RiskAssumption DEF IInv, TypeOK
  <2>2. MaxDailyOrders * (bootsToday - 1) + MaxDailyOrders = MaxDailyOrders * bootsToday
    BY <2>1
  <2>3. MaxDailyOrders * (bootsToday - 1) \in Int /\ RefreshedCount \in Int
    BY <2>1 DEF IInv, TypeOK, RefreshedCount
  <2> QED
    BY <2>1, <2>2, <2>3 DEF IInv, CountInv, DailyLimit
<1> QED
  BY <1>1, GateInvariance, PTL

(* Each position, its open BUY orders included, is worth at most           *)
(* max_position_value and all together at most max_total_exposure, unless  *)
(* a BUY was approved on a portfolio that did not show everything.         *)
THEOREM ValuesWithinLimits == Spec => []LimitsUnlessBlind
<1>1. IInv => LimitsUnlessBlind
  BY DEF IInv
<1> QED
  BY <1>1, GateInvariance, PTL

(* No step but a restart lifts a kill, and none lets a BUY through it.     *)
THEOREM KillLasts == Spec => KillHolds
<1>1. TypeOK /\ [Next]_vars =>
        [halt = "kill" /\ boots' = boots =>
           halt' = "kill" /\ \A s \in Symbols : buying'[s] <= buying[s]]_vars
  <2> SUFFICES ASSUME TypeOK, Next, halt = "kill", boots' = boots
               PROVE  halt' = "kill" /\ \A s \in Symbols : buying'[s] <= buying[s]
    OBVIOUS
  <2>1. CASE UNCHANGED <<halt, buying>>
    BY <2>1 DEF TypeOK
  <2>2. ASSUME NEW side \in {"buy", "sell"}, NEW s \in Symbols, NEW qty \in 1 .. MaxQty,
               NEW priced \in BOOLEAN, Evaluate(side, s, qty, priced)
        PROVE  UNCHANGED <<halt, buying>>
    BY <2>2 DEF Evaluate, Passes, CheckHalt
  <2>3. ASSUME NEW s \in Symbols, FillBuy(s) \/ CloseBuys(s)
        PROVE  halt' = halt /\ \A r \in Symbols : buying'[r] <= buying[r]
    BY <2>3 DEF FillBuy, CloseBuys, gate, TypeOK
  <2>4. ASSUME NEW s \in Symbols, CheckExit(s) \/ FillSell(s) \/ CloseSells(s)
        PROVE  UNCHANGED <<halt, buying>>
    BY <2>4 DEF CheckExit, FillSell, CloseSells, gate, open
  <2>5. ASSUME NEW h \in HaltLevel
        PROVE  ~GraduatedHalt(h)
    BY DEF GraduatedHalt, HaltLevel, Level
  <2>6. ~Pause /\ ~Resume /\ ~Restart
    BY DEF Pause, Resume, Restart, TypeOK
  <2>7. CASE Kill
    BY <2>7, <2>1 DEF Kill, SetHalt, open
  <2>8. CASE DailyOrderCount \/ NextDay \/ LoadPortfolio
    BY <2>8, <2>1 DEF DailyOrderCount, NextDay, LoadPortfolio, gate, open
  <2> QED
    BY <2>1, <2>2, <2>3, <2>4, <2>5, <2>6, <2>7, <2>8 DEF Next
<1> QED
  BY <1>1, GateTyping, PTL DEF Spec, KillHolds

(* Only resume and a restart lower the halt level; what graduated_halt     *)
(* does late never does.                                                   *)
THEOREM OnlyHandsLower == Spec => LoweredByHand
<1>1. TypeOK /\ [Next]_vars => [Level[halt'] < Level[halt] => Resume \/ Restart]_vars
  <2> SUFFICES ASSUME TypeOK, Next, ~Resume, ~Restart
               PROVE  ~(Level[halt'] < Level[halt])
    OBVIOUS
  <2>1. CASE halt' = halt
    BY <2>1 DEF TypeOK, HaltLevel, Level
  <2>2. ASSUME NEW h \in HaltLevel, GraduatedHalt(h)
        PROVE  ~(Level[halt'] < Level[halt])
    BY <2>2 DEF GraduatedHalt, SetHalt, TypeOK, HaltLevel, Level
  <2>3. CASE Pause \/ Kill
    BY <2>3 DEF Pause, Kill, SetHalt, TypeOK, HaltLevel, Level
  <2>4. ASSUME NEW side \in {"buy", "sell"}, NEW s \in Symbols, NEW qty \in 1 .. MaxQty,
               NEW priced \in BOOLEAN, Evaluate(side, s, qty, priced)
        PROVE  halt' = halt
    BY <2>4 DEF Evaluate
  <2>5. ASSUME NEW s \in Symbols,
               CheckExit(s) \/ FillBuy(s) \/ FillSell(s) \/ CloseBuys(s) \/ CloseSells(s)
        PROVE  halt' = halt
    BY <2>5 DEF CheckExit, FillBuy, FillSell, CloseBuys, CloseSells, gate
  <2>6. CASE DailyOrderCount \/ NextDay \/ LoadPortfolio
    BY <2>6, <2>1 DEF DailyOrderCount, NextDay, LoadPortfolio, gate
  <2> QED
    BY <2>1, <2>2, <2>3, <2>4, <2>5, <2>6 DEF Next
<1> QED
  BY <1>1, GateTyping, PTL DEF Spec, LoweredByHand

=============================================================================
