-------------------------- MODULE StockMiner_proofs --------------------------
(***************************************************************************)
(* The safety of the screener, for any stocks, markets, days, attempts,    *)
(* failed reads and restarts.                                              *)
(*   Caches    what a day's file holds is the last trading day up to it    *)
(*   Stages    the steps of a run up to the report send nothing            *)
(*   Sending   the outbox is the rest of the report, and a message that is *)
(*             not in doubt is in one place                                *)
(***************************************************************************)
EXTENDS StockMiner, SequenceTheorems, FiniteSetTheorems, WellFoundedInduction, TLAPS

(***************************************************************************)
(* Greatest and least                                                      *)
(***************************************************************************)

(* Every set of numbers has a least, as < is well-founded on them.         *)
LEMMA LeastOf ==
  ASSUME NEW S, S \subseteq Nat, S # {}
  PROVE  \E n \in S : \A x \in S : n <= x
<1>1. PICK n \in S : \A x \in S : ~(<<x, n>> \in OpToRel(<, Nat))
  BY NatLessThanWellFounded, WFMin
<1>2. \A x \in S : ~(x < n)
  BY <1>1 DEF OpToRel
<1> QED
  BY <1>2

LEMMA MaxOf ==
  ASSUME NEW d \in Nat, NEW S, S \subseteq 0 .. d, S # {}
  PROVE  Max(S) \in S /\ \A x \in S : Max(S) >= x
<1> DEFINE T == {y \in Nat : \E x \in S : y = d - x}
<1>1. T # {}
  <2>1. PICK x \in S : TRUE
    OBVIOUS
  <2>2. d - x \in Nat
    BY <2>1
  <2> QED
    BY <2>2
<1>2. PICK y \in T : \A z \in T : y <= z
  BY <1>1, LeastOf
<1>3. PICK x \in S : y = d - x
  BY <1>2
<1>4. ASSUME NEW z \in S PROVE x >= z
  <2>1. d - z \in T
    BY <1>4
  <2>2. y <= d - z
    BY <1>2, <2>1
  <2>3. d \in Int /\ x \in Int /\ z \in Int
    BY <1>3, <1>4
  <2> QED
    BY <1>3, <2>2, <2>3
<1> QED
  BY <1>4 DEF Max

LEMMA MinOfTwo ==
  ASSUME NEW a \in Nat, NEW b \in Nat
  PROVE  Min({a, b}) \in Nat /\ Min({a, b}) <= a /\ Min({a, b}) <= b
<1>1. \E x \in {a, b} : \A y \in {a, b} : x <= y
  BY a <= b \/ b <= a
<1>2. Min({a, b}) \in {a, b} /\ \A y \in {a, b} : Min({a, b}) <= y
  BY <1>1 DEF Min
<1> QED
  BY <1>2

LEMMA Constants ==
  /\ ReportTopN \in Nat \ {0} /\ AvgDays \in Nat \ {0} /\ MaxStreak \in Nat \ {0} /\ Attempts \in Nat \ {0}
  /\ Retries \in Nat \ {0} /\ DlqMax \in Nat \ {0} /\ MaxPolls \in Nat \ {0} /\ MaxResults \in Nat \ {0}
  /\ MaxFallback \in Nat /\ LastDay \in Nat /\ "header" \notin Tickers /\ "alert" \notin Tickers
BY MinerAssumption

LEMMA Polls ==
  Max({MaxPolls, MaxResults}) \in Nat /\ MaxPolls <= Max({MaxPolls, MaxResults})
    /\ MaxResults <= Max({MaxPolls, MaxResults})
<1>1. MaxPolls \in Nat /\ MaxResults \in Nat
  BY Constants
<1>2. \E x \in {MaxPolls, MaxResults} : \A y \in {MaxPolls, MaxResults} : x >= y
  BY <1>1, MaxPolls <= MaxResults \/ MaxResults <= MaxPolls
<1>3. /\ Max({MaxPolls, MaxResults}) \in {MaxPolls, MaxResults}
      /\ \A y \in {MaxPolls, MaxResults} : Max({MaxPolls, MaxResults}) >= y
  BY <1>2 DEF Max
<1> QED
  BY <1>1, <1>3

(***************************************************************************)
(* Caches                                                                  *)
(***************************************************************************)

(* What the exchange would show on day d.                                  *)
True(d) == [of |-> LastTradingDay(d), markets |-> Markets]

LEMMA UniverseTypes ==
  ASSUME TypeOK, NEW d \in Weekdays, NEW lost
  PROVE  FetchUniverse(d, lost) \in Universes
<1>1. Unread \in Universes /\ cache[d] \in Universes /\ LastDay \in Nat
  BY Constants DEF Unread, Universes, TypeOK
<1>2. ASSUME NEW x \in Weekdays PROVE FetchUniverseSync(x, lost) \in Universes
  BY <1>1 DEF FetchUniverseSync, Universes
<1> DEFINE back == {x \in Weekdays : x <= d /\ x >= d - MaxFallback /\ FetchUniverseSync(x, lost) # Unread}
<1>3. back \subseteq 0 .. LastDay
  BY DEF Weekdays
<1>4. back # {} => Max(back) \in Weekdays
  BY <1>1, <1>3, MaxOf
<1>5. FetchUniverse(d, lost) = IF cache[d] # Unread THEN cache[d]
                             ELSE IF back # {} THEN FetchUniverseSync(Max(back), lost) ELSE Unread
  BY DEF FetchUniverse
<1> HIDE DEF back
<1>6. back # {} => FetchUniverseSync(Max(back), lost) \in Universes
  BY <1>2, <1>4
<1> QED
  BY <1>1, <1>5, <1>6

(* Read without disturbance, a day's universe is that of the last trading  *)
(* day up to it, or nothing.                                               *)
LEMMA UniverseIsTrue ==
  ASSUME NEW d \in Weekdays, 0 \in trading, trading \subseteq Weekdays,
         cache[d] \in {Unread, True(d)}
  PROVE  FetchUniverse(d, {}) \in {Unread, True(d)}
<1> DEFINE back == {x \in Weekdays : x <= d /\ x >= d - MaxFallback /\ FetchUniverseSync(x, {}) # Unread}
           past == {x \in trading : x <= d}
<1>1. ASSUME NEW x \in Weekdays
      PROVE  FetchUniverseSync(x, {}) \in {Unread} \union (IF x \in trading THEN {[of |-> x, markets |-> Markets]} ELSE {})
  <2> DEFINE got == IF x \in trading THEN {m \in Markets : <<x, m>> \notin {}} ELSE {}
  <2>1. got = IF x \in trading THEN Markets ELSE {}
    OBVIOUS
  <2>2. FetchUniverseSync(x, {}) = IF got = {} THEN Unread ELSE [of |-> x, markets |-> got]
    BY DEF FetchUniverseSync
  <2> HIDE DEF got
  <2> QED
    BY <2>1, <2>2
<1>2. back \subseteq past
  BY <1>1
<1>3. LastDay \in Nat /\ MaxFallback \in Nat /\ back \subseteq 0 .. LastDay /\ past \subseteq 0 .. LastDay
  BY Constants DEF Weekdays
<1>4. ASSUME back # {} PROVE Max(back) = Max(past) /\ Max(back) \in Weekdays
  <2>1. Max(back) \in back /\ \A x \in back : Max(back) >= x
    BY <1>3, <1>4, MaxOf
  <2>2. past # {}
    BY <1>2, <1>4
  <2>3. Max(past) \in past /\ \A x \in past : Max(past) >= x
    BY <1>3, <2>2, MaxOf
  <2> DEFINE a == Max(back)
             b == Max(past)
  <2>4. a \in back /\ b \in past /\ a \in past
    BY <1>2, <2>1, <2>3
  <2>5. b >= a /\ \A x \in back : a >= x
    BY <2>1, <2>3, <2>4
  <2>6. /\ a \in Int /\ b \in Int /\ d \in Int /\ a >= d - MaxFallback /\ b <= d /\ b \in trading /\ b \in Weekdays
        /\ FetchUniverseSync(a, {}) # Unread /\ a \in trading /\ a \in Weekdays
    BY <1>3, <2>4 DEF Weekdays
  <2> HIDE DEF a, b, back, past
  <2>7. Markets # {}
    <3>1. CASE Markets = {}
      <4>1. FetchUniverseSync(a, {}) = Unread
        BY <3>1 DEF FetchUniverseSync
      <4> QED
        BY <2>6, <4>1
    <3> QED
      BY <3>1
  <2>8. FetchUniverseSync(b, {}) # Unread
    <3>1. {m \in Markets : <<b, m>> \notin {}} = Markets
      OBVIOUS
    <3>2. FetchUniverseSync(b, {}) = [of |-> b, markets |-> Markets]
      BY <2>6, <2>7, <3>1 DEF FetchUniverseSync
    <3> QED
      BY <2>7, <3>2 DEF Unread
  <2>9. b >= d - MaxFallback
    BY <1>3, <2>5, <2>6
  <2>10. b \in back
    BY <2>6, <2>8, <2>9 DEF back
  <2>11. a >= b
    BY <2>5, <2>10
  <2> QED
    BY <2>5, <2>6, <2>11 DEF a, b
<1>5. FetchUniverse(d, {}) = IF cache[d] # Unread THEN cache[d]
                           ELSE IF back # {} THEN FetchUniverseSync(Max(back), {}) ELSE Unread
  BY DEF FetchUniverse
<1>6. back # {} => FetchUniverseSync(Max(back), {}) \in {Unread, True(d)}
  BY <1>1, <1>4 DEF True, LastTradingDay
<1> HIDE DEF back
<1> QED
  BY <1>5, <1>6

(***************************************************************************)
(* The ranking and the report                                              *)
(***************************************************************************)

\* A ranking lists stocks once each, no more than asked for.
LEMMA Ranking ==
  ASSUME NEW stocks, stocks \subseteq Tickers, NEW score, NEW streak, NEW s \in RankTopN(stocks, score, streak)
  PROVE  s \in Seq(Tickers) /\ Len(s) <= ReportTopN /\ IsInjective(s)
<1> DEFINE n == Cardinality(stocks)
<1>1. n \in Nat
  BY MinerAssumption, FS_Subset, FS_CardinalityType
<1>2. PICK r \in SetToSeqs(stocks) : s = SubSeq(r, 1, Min({ReportTopN, Len(r)}))
  BY DEF RankTopN
<1>3. r \in [1 .. n -> stocks] /\ \A i, j \in 1 .. n : i # j => r[i] # r[j]
  BY <1>2 DEF SetToSeqs
<1> HIDE DEF n
<1>4. r \in Seq(Tickers) /\ Len(r) = n
  <2>1. r \in [1 .. n -> Tickers]
    BY <1>3
  <2> QED
    BY <1>1, <2>1
<1> DEFINE k == Min({ReportTopN, n})
<1>5. k \in Nat /\ k <= ReportTopN /\ k <= n
  BY <1>1, MinOfTwo, Constants
<1>6. s = SubSeq(r, 1, k)
  BY <1>2, <1>4
<1> HIDE DEF k
<1>7. \A i \in 1 .. k : r[i] \in Tickers /\ i \in 1 .. n
  BY <1>1, <1>3, <1>5
<1>8. /\ s \in Seq(Tickers) /\ Len(s) = IF 1 <= k THEN k - 1 + 1 ELSE 0
      /\ \A i \in 1 .. k - 1 + 1 : s[i] = r[1 + i - 1]
  BY <1>5, <1>6, <1>7, SubSeqProperties
<1>9. Len(s) = k /\ DOMAIN s = 1 .. k /\ \A i \in 1 .. k : s[i] = r[i]
  BY <1>5, <1>8
<1>10. IsInjective(s)
  BY <1>3, <1>7, <1>9 DEF IsInjective
<1> QED
  BY <1>5, <1>8, <1>9, <1>10

(* A header, then each stock of the ranking; no message is listed twice.   *)
LEMMA ReportIs ==
  ASSUME TypeOK
  PROVE  /\ Report \in Seq(Letters) /\ Len(Report) = Len(ranked) + 1 /\ Report[1] = <<today, "header">>
         /\ Len(ranked) \in Nat /\ DOMAIN Report = 1 .. Len(ranked) + 1
         /\ \A i \in 1 .. Len(ranked) : Report[i + 1] = <<today, ranked[i]>> /\ ranked[i] \in Tickers
<1> DEFINE head == <<<<today, "header">>>>
           rest == [i \in DOMAIN ranked |-> <<today, ranked[i]>>]
<1>1. ranked \in Seq(Tickers) /\ today \in Weekdays
  BY DEF TypeOK
<1>2. Len(ranked) \in Nat /\ DOMAIN ranked = 1 .. Len(ranked) /\ \A i \in 1 .. Len(ranked) : ranked[i] \in Tickers
  BY <1>1
<1>3. rest \in [1 .. Len(ranked) -> Letters]
  BY <1>1, <1>2 DEF Letters
<1>4. rest \in Seq(Letters) /\ Len(rest) = Len(ranked)
  BY <1>2, <1>3
<1>5. <<today, "header">> \in Letters
  BY <1>1 DEF Letters
<1>6. head \in Seq(Letters) /\ Len(head) = 1 /\ head[1] = <<today, "header">>
  BY <1>5
<1>7. \A i \in 1 .. Len(ranked) : rest[i] = <<today, ranked[i]>>
  BY <1>2
<1>8. Report = head \o rest
  BY DEF Report
<1> HIDE DEF head, rest
<1>9. /\ Report \in Seq(Letters) /\ Len(Report) = Len(head) + Len(rest)
      /\ \A i \in 1 .. Len(head) + Len(rest) : Report[i] = IF i <= Len(head) THEN head[i] ELSE rest[i - Len(head)]
  BY <1>4, <1>6, <1>8, ConcatProperties
<1>10. Len(Report) = Len(ranked) + 1
  BY <1>2, <1>4, <1>6, <1>9
<1>11. \A i \in 1 .. 1 + Len(ranked) : Report[i] = IF i <= 1 THEN head[i] ELSE rest[i - 1]
  BY <1>4, <1>6, <1>9
<1>12. Report[1] = <<today, "header">>
  BY <1>2, <1>6, <1>11
<1>13. ASSUME NEW i \in 1 .. Len(ranked) PROVE Report[i + 1] = <<today, ranked[i]>>
  <2>1. i + 1 \in 1 .. 1 + Len(ranked) /\ ~(i + 1 <= 1) /\ (i + 1) - 1 = i
    BY <1>2
  <2> QED
    BY <1>7, <1>11, <2>1
<1>14. DOMAIN Report = 1 .. Len(ranked) + 1
  BY <1>9, <1>10
<1> QED
  BY <1>2, <1>9, <1>10, <1>12, <1>13, <1>14

LEMMA ReportOnce ==
  ASSUME TypeOK
  PROVE  /\ \A a, b \in DOMAIN Report : Report[a] = Report[b] => a = b
         /\ \A a \in DOMAIN Report : Report[a] \in Letters /\ Report[a][1] = today /\ Report[a][2] # "alert"
<1>0. /\ Report \in Seq(Letters) /\ Report[1] = <<today, "header">>
      /\ Len(ranked) \in Nat /\ DOMAIN Report = 1 .. Len(ranked) + 1
      /\ \A i \in 1 .. Len(ranked) : Report[i + 1] = <<today, ranked[i]>> /\ ranked[i] \in Tickers
  BY ReportIs
<1>1. "header" \notin Tickers /\ "alert" \notin Tickers
  BY Constants
<1>2. \A i, j \in 1 .. Len(ranked) : ranked[i] = ranked[j] => i = j
  <2>1. DOMAIN ranked = 1 .. Len(ranked) /\ IsInjective(ranked)
    BY DEF TypeOK
  <2> QED
    BY <2>1 DEF IsInjective
<1>3. ASSUME NEW a \in DOMAIN Report
      PROVE  a = 1 \/ \E i \in 1 .. Len(ranked) : a = i + 1
  <2>1. a = 1 \/ (a - 1 \in 1 .. Len(ranked) /\ a = (a - 1) + 1)
    BY <1>0
  <2> QED
    BY <2>1
<1>4. \A i \in 1 .. Len(ranked) : Report[i + 1][2] \in Tickers /\ Report[i + 1][2] = ranked[i] /\ Report[i + 1][1] = today
  BY <1>0
<1>5. ASSUME NEW a \in DOMAIN Report, NEW b \in DOMAIN Report, Report[a] = Report[b] PROVE a = b
  <2>1. CASE a = 1
    BY <1>0, <1>1, <1>3, <1>4, <1>5, <2>1
  <2>2. CASE b = 1
    BY <1>0, <1>1, <1>3, <1>4, <1>5, <2>2
  <2>3. CASE a # 1 /\ b # 1
    <3>1. PICK i \in 1 .. Len(ranked) : a = i + 1
      BY <1>3, <2>3
    <3>2. PICK j \in 1 .. Len(ranked) : b = j + 1
      BY <1>3, <2>3
    <3>3. ranked[i] = ranked[j]
      BY <1>4, <1>5, <3>1, <3>2
    <3> QED
      BY <1>2, <3>1, <3>2, <3>3
  <2> QED
    BY <2>1, <2>2, <2>3
<1>6. ASSUME NEW a \in DOMAIN Report
      PROVE  Report[a] \in Letters /\ Report[a][1] = today /\ Report[a][2] # "alert"
  <2>1. Report[a] \in Letters
    BY <1>0
  <2>2. CASE a = 1
    BY <1>0, <2>1, <2>2
  <2>3. CASE a # 1
    BY <1>1, <1>3, <1>4, <2>1, <2>3
  <2> QED
    BY <2>2, <2>3
<1> QED
  BY <1>5, <1>6

(***************************************************************************)
(* Caches                                                                  *)
(***************************************************************************)

LEMMA AverageTypes ==
  ASSUME TypeOK, NEW lost
  PROVE  AverageOverTradingDays(lost) \in [Weekdays -> Universes]
<1> DEFINE asked(d) == d <= today /\
             Cardinality({x \in d + 1 .. today : FetchUniverse(x, lost) # Unread}) < AvgDays
<1>1. AverageOverTradingDays(lost) = [d \in Weekdays |-> IF asked(d) THEN FetchUniverse(d, lost) ELSE cache[d]]
  BY DEF AverageOverTradingDays
<1>2. \A d \in Weekdays : FetchUniverse(d, lost) \in Universes /\ cache[d] \in Universes
  BY UniverseTypes DEF TypeOK
<1> HIDE DEF asked
<1> QED
  BY <1>1, <1>2

(* The averages leave a file alone or fill it with what the exchange shows.*)
LEMMA AverageIsTrue ==
  ASSUME NEW d \in Weekdays, 0 \in trading, trading \subseteq Weekdays, cache[d] \in {Unread, True(d)}
  PROVE  AverageOverTradingDays({})[d] \in {Unread, True(d)}
<1> DEFINE asked(x) == x <= today /\
             Cardinality({y \in x + 1 .. today : FetchUniverse(y, {}) # Unread}) < AvgDays
<1>1. AverageOverTradingDays({}) = [x \in Weekdays |-> IF asked(x) THEN FetchUniverse(x, {}) ELSE cache[x]]
  BY DEF AverageOverTradingDays
<1>2. FetchUniverse(d, {}) \in {Unread, True(d)}
  BY UniverseIsTrue
<1> HIDE DEF asked
<1> QED
  BY <1>1, <1>2

(* CacheTruthful, by the name of what the exchange shows.                  *)
LEMMA CacheTruthfulIs ==
  CacheTruthful <=> /\ \A d \in Weekdays \ hurt : cache[d] \in {Unread, True(d)}
                    /\ \A t \in Tickers \ hurt : books[t] \in {{}, Years}
BY DEF CacheTruthful, True

LEMMA CacheTruthfulNext ==
  CacheTruthful' <=> /\ \A d \in Weekdays \ hurt' : cache'[d] \in {Unread, [of |-> LastTradingDay(d)', markets |-> Markets]}
                     /\ \A t \in Tickers \ hurt' : books'[t] \in {{}, Years}
BY DEF CacheTruthful

LEMMA CachesKept ==
  ASSUME UNCHANGED <<trading, files>>, CacheTruthful
  PROVE  CacheTruthful'
BY DEF CacheTruthful, LastTradingDay, files

LEMMA ReadUniverseCaches ==
  ASSUME IInv, ReadUniverse
  PROVE  CacheTruthful' /\ cache' \in [Weekdays -> Universes] /\ snap' \in Universes /\ hurt' \subseteq Weekdays \union Tickers
<1>1. /\ TypeOK /\ 0 \in trading /\ trading \subseteq Weekdays /\ today \in Weekdays /\ hurt \subseteq Weekdays \union Tickers
      /\ cache \in [Weekdays -> Universes]
  BY DEF IInv, RunInv, TypeOK
<1>2. /\ \A d \in Weekdays \ hurt : cache[d] \in {Unread, True(d)}
      /\ \A t \in Tickers \ hurt : books[t] \in {{}, Years}
  BY CacheTruthfulIs DEF IInv
<1>3. trading' = trading /\ books' = books
  BY DEF ReadUniverse, market
<1>4. PICK lost \in Outages :
        /\ snap' = FetchUniverse(today, lost) /\ cache' = [cache EXCEPT ![today] = FetchUniverse(today, lost)]
        /\ hurt' = IF cache[today] = Unread /\ lost # {} THEN hurt \union {today} ELSE hurt
  BY DEF ReadUniverse
<1>5. FetchUniverse(today, lost) \in Universes
  BY <1>1, UniverseTypes
<1>6. cache[today] # Unread => FetchUniverse(today, lost) = cache[today]
  BY DEF FetchUniverse
<1>7. cache[today] = Unread => FetchUniverse(today, {}) \in {Unread, True(today)}
  BY <1>1, UniverseIsTrue
<1>8. ASSUME NEW d \in Weekdays \ hurt' PROVE cache'[d] \in {Unread, True(d)}
  <2>1. CASE d # today
    BY <1>1, <1>2, <1>4, <2>1
  <2>2. CASE d = today /\ cache[today] # Unread
    BY <1>1, <1>2, <1>4, <1>6, <2>2
  <2>3. CASE d = today /\ cache[today] = Unread
    <3>1. lost = {}
      BY <1>4, <2>3
    <3> QED
      BY <1>1, <1>4, <1>7, <2>3, <3>1
  <2> QED
    BY <2>1, <2>2, <2>3
<1>9. \A t \in Tickers \ hurt' : books'[t] \in {{}, Years}
  BY <1>2, <1>3, <1>4
<1>10. CacheTruthful'
  BY <1>3, <1>8, <1>9, CacheTruthfulNext DEF True, LastTradingDay
<1> QED
  BY <1>1, <1>4, <1>5, <1>10

(* The averages of either stage: what a failed read may touch is hurt.     *)
LEMMA AverageCaches ==
  ASSUME IInv, UNCHANGED <<trading, books>>, NEW lost,
         cache' = AverageOverTradingDays(lost),
         hurt' = IF lost = {} THEN hurt ELSE hurt \union {d \in Weekdays : cache[d] # cache'[d]}
  PROVE  CacheTruthful' /\ cache' \in [Weekdays -> Universes] /\ hurt' \subseteq Weekdays \union Tickers
<1>1. TypeOK /\ 0 \in trading /\ trading \subseteq Weekdays /\ hurt \subseteq Weekdays \union Tickers
  BY DEF IInv, RunInv, TypeOK
<1>2. /\ \A d \in Weekdays \ hurt : cache[d] \in {Unread, True(d)}
      /\ \A t \in Tickers \ hurt : books[t] \in {{}, Years}
  BY CacheTruthfulIs DEF IInv
<1>3. ASSUME NEW d \in Weekdays \ hurt' PROVE cache'[d] \in {Unread, True(d)}
  <2>1. cache[d] \in {Unread, True(d)}
    BY <1>2, <1>3
  <2>2. CASE lost = {}
    BY <1>1, <2>1, <2>2, AverageIsTrue
  <2>3. CASE lost # {}
    <3>1. cache'[d] = cache[d]
      BY <1>3, <2>3
    <3> QED
      BY <2>1, <3>1
  <2> QED
    BY <2>2, <2>3
<1>4. \A t \in Tickers \ hurt' : books'[t] \in {{}, Years}
  BY <1>2
<1>5. CacheTruthful'
  BY <1>3, <1>4, CacheTruthfulNext DEF True, LastTradingDay
<1> QED
  BY <1>1, <1>5, AverageTypes

LEMMA FilterCaches ==
  ASSUME IInv, Filter
  PROVE  CacheTruthful' /\ cache' \in [Weekdays -> Universes] /\ hurt' \subseteq Weekdays \union Tickers
<1>1. UNCHANGED <<trading, books>>
  BY DEF Filter, market
<1>2. PICK lost \in Outages :
        /\ cache' = AverageOverTradingDays(lost)
        /\ hurt' = IF lost = {} THEN hurt ELSE hurt \union {d \in Weekdays : cache[d] # cache'[d]}
  BY DEF Filter
<1> QED
  BY <1>1, <1>2, AverageCaches

LEMMA RankCaches ==
  ASSUME IInv, Rank
  PROVE  CacheTruthful' /\ cache' \in [Weekdays -> Universes] /\ hurt' \subseteq Weekdays \union Tickers
<1>1. UNCHANGED <<trading, books>>
  BY DEF Rank, market
<1>2. CASE \E lost \in Outages :
             /\ cache' = AverageOverTradingDays(lost)
             /\ hurt' = IF lost = {} THEN hurt ELSE hurt \union {d \in Weekdays : cache[d] # cache'[d]}
  BY <1>1, <1>2, AverageCaches
<1>3. CASE UNCHANGED <<cache, hurt>>
  <2>1. CacheTruthful /\ TypeOK
    BY DEF IInv
  <2>2. CacheTruthful'
    BY <1>1, <1>3, <2>1, CachesKept DEF files
  <2> QED
    BY <1>3, <2>1, <2>2 DEF TypeOK
<1> QED
  BY <1>2, <1>3 DEF Rank

LEMMA ReadBooksCaches ==
  ASSUME IInv, ReadBooks
  PROVE  CacheTruthful' /\ books' \in [Tickers -> SUBSET Years] /\ hurt' \subseteq Weekdays \union Tickers
<1>1. TypeOK /\ hurt \subseteq Weekdays \union Tickers /\ books \in [Tickers -> SUBSET Years] /\ pool \subseteq Tickers
  BY DEF IInv, TypeOK
<1>2. /\ \A d \in Weekdays \ hurt : cache[d] \in {Unread, True(d)}
      /\ \A t \in Tickers \ hurt : books[t] \in {{}, Years}
  BY CacheTruthfulIs DEF IInv
<1>3. trading' = trading /\ cache' = cache
  BY DEF ReadBooks, market
<1>4. PICK t \in pool, lost \in SUBSET Years :
        /\ books' = [u \in Tickers |-> IF u \in pool THEN FetchFinancials(u, IF u = t THEN lost ELSE {}) ELSE books[u]]
        /\ hurt' = IF books[t] = {} /\ lost # {} THEN hurt \union {t} ELSE hurt
  BY DEF ReadBooks
<1>5. ASSUME NEW u \in Tickers \ hurt' PROVE books'[u] \in {{}, Years}
  <2>1. books[u] \in {{}, Years}
    BY <1>2, <1>4, <1>5
  <2>2. CASE u \in pool /\ (u # t \/ lost = {})
    <3>1. books'[u] = FetchFinancials(u, {})
      BY <1>4, <2>2
    <3> QED
      BY <2>1, <3>1 DEF FetchFinancials
  <2>3. CASE u = t /\ lost # {}
    <3>1. books[u] # {}
      BY <1>4, <1>5, <2>3
    <3>2. books'[u] = books[u]
      BY <1>4, <2>3, <3>1 DEF FetchFinancials
    <3> QED
      BY <2>1, <3>2
  <2>4. CASE u \notin pool
    BY <1>4, <2>1, <2>4
  <2> QED
    BY <2>2, <2>3, <2>4
<1>6. \A d \in Weekdays \ hurt' : cache'[d] \in {Unread, True(d)}
  BY <1>2, <1>3, <1>4
<1>7. CacheTruthful'
  BY <1>3, <1>5, <1>6, CacheTruthfulNext DEF True, LastTradingDay
<1>8. \A u \in Tickers : FetchFinancials(u, IF u = t THEN lost ELSE {}) \in SUBSET Years
  BY <1>1, <1>4 DEF FetchFinancials
<1> QED
  BY <1>1, <1>4, <1>7, <1>8

(***************************************************************************)
(* The stages before the report                                            *)
(***************************************************************************)

Stages == {"universe", "filter", "books", "rank", "judge", "create", "poll", "results"}

MailTypes ==
  /\ step \in Stages \union {"idle", "send"} /\ attempt \in 0 .. Attempts /\ tries \in 0 .. Retries - 1
  /\ outbox \in Seq(Letters) /\ told \in Seq(Letters) /\ dlq \in Seq(Letters) /\ Len(dlq) <= DlqMax
  /\ dropped \subseteq Letters /\ doubtful \subseteq Letters
  /\ outcome \in {"idle", "none", "report", "alert", "cut"} /\ lines \subseteq Tickers

DataTypes ==
  /\ today \in Weekdays /\ trading \subseteq Weekdays /\ large \subseteq Tickers
  /\ cache \in [Weekdays -> Universes] /\ books \in [Tickers -> SUBSET Years]
  /\ hurt \subseteq Weekdays \union Tickers
  /\ polls \in 0 .. Max({MaxPolls, MaxResults})
  /\ snap \in Universes /\ pool \subseteq Tickers
  /\ ranked \in Seq(Tickers) /\ Len(ranked) <= ReportTopN /\ IsInjective(ranked)
  /\ DOMAIN summaries \subseteq Tickers /\ down \in BOOLEAN
  /\ rows \in [Tickers -> {"none", "scored", "bare"}]

LEMMA TypesAre == TypeOK <=> MailTypes /\ DataTypes
BY DEF TypeOK, MailTypes, DataTypes, Stages

LEMMA TypesAreNext == TypeOK' <=> MailTypes' /\ DataTypes'
BY DEF TypeOK, MailTypes, DataTypes, Stages

(* All the invariant says of messages.                                     *)
RunKept == RunInv /\ OldLetters /\ ButtonsWork /\ ButtonsWillWork /\ SentInv

(* Before the report nothing is sent or told.                              *)
LEMMA StageIs ==
  ASSUME IInv, step \in Stages
  PROVE  /\ outbox = <<>> /\ told = <<>> /\ outcome = "none" /\ 0 \in trading
         /\ \A m \in ToSet(dlq) \union dropped : m[1] < today
         /\ MailTypes /\ today \in Weekdays
BY TypesAre DEF IInv, RunInv, OldLetters, Stages, DataTypes

LEMMA GoesKeeps ==
  ASSUME IInv, step \in Stages, UNCHANGED <<today, trading>>, NEW next \in Stages, Goes(next)
  PROVE  RunKept' /\ MailTypes'
<1>1. /\ outbox = <<>> /\ told = <<>> /\ outcome = "none" /\ 0 \in trading /\ MailTypes
      /\ \A m \in ToSet(dlq) \union dropped : m[1] < today
      /\ today \in Weekdays /\ \A m \in ToSet(dlq) \union dropped : m \in Letters
  <2>1. \A m \in ToSet(dlq) \union dropped : m \in Letters
    BY DEF IInv, TypeOK, ToSet
  <2> QED
    BY <2>1, StageIs
<1>2. /\ outbox' = <<>> /\ told' = <<>> /\ outcome' = "none" /\ today' = today /\ trading' = trading
      /\ dlq' = dlq /\ dropped' = dropped /\ step' = next /\ attempt' = attempt
      /\ tries' = tries /\ doubtful' = doubtful /\ lines' = lines
  BY <1>1 DEF Goes, mail
<1>3. MailTypes'
  BY <1>1, <1>2 DEF MailTypes
<1>4. ToSet(outbox') = {} /\ ToSet(told') = {}
  BY <1>2 DEF ToSet
<1>5. step' # "send" /\ step' # "idle"
  BY <1>2 DEF Stages
<1>6. RunInv'
  BY <1>1, <1>2, <1>4, <1>5 DEF RunInv
<1>7. OldLetters'
  <2>1. \A m \in ToSet(dlq) \union dropped : m[1] <= today
    <3>1. \A m \in Letters : m[1] \in Int
      BY DEF Letters, Weekdays
    <3>2. today \in Int
      BY <1>1 DEF Weekdays
    <3> QED
      BY <1>1, <3>1, <3>2
  <2> QED
    BY <1>1, <1>2, <1>4, <2>1 DEF OldLetters
<1>8. ButtonsWork' /\ ButtonsWillWork'
  BY <1>4 DEF ButtonsWork, ButtonsWillWork
<1>9. ~Reporting'
  BY <1>2, <1>5 DEF Reporting
<1>10. SentInv'
  BY <1>9 DEF SentInv
<1> QED
  BY <1>3, <1>6, <1>7, <1>8, <1>10 DEF RunKept

LEMMA FailsKeeps ==
  ASSUME IInv, step \in Stages, UNCHANGED <<today, trading>>, Fails
  PROVE  RunKept' /\ MailTypes'
<1>1. /\ outbox = <<>> /\ told = <<>> /\ outcome = "none" /\ 0 \in trading /\ MailTypes
      /\ \A m \in ToSet(dlq) \union dropped : m[1] < today
      /\ today \in Weekdays /\ \A m \in ToSet(dlq) \union dropped : m \in Letters
  <2>1. \A m \in ToSet(dlq) \union dropped : m \in Letters
    BY DEF IInv, TypeOK, ToSet
  <2> QED
    BY <2>1, StageIs
<1>2. \A m \in ToSet(dlq) \union dropped : m[1] <= today
  <2>1. \A m \in Letters : m[1] \in Int
    BY DEF Letters, Weekdays
  <2>2. today \in Int
    BY <1>1 DEF Weekdays
  <2> QED
    BY <1>1, <2>1, <2>2
<1>3. /\ told' = <<>> /\ outcome' = "none" /\ today' = today /\ trading' = trading
      /\ dlq' = dlq /\ dropped' = dropped /\ tries' = tries /\ doubtful' = doubtful /\ lines' = lines
  BY <1>1 DEF Fails
<1>4. ToSet(told') = {} /\ ButtonsWork'
  <2>1. ToSet(told') = {}
    BY <1>3 DEF ToSet
  <2> QED
    BY <2>1 DEF ButtonsWork
<1>5. CASE attempt < Attempts
  <2>1. outbox' = <<>> /\ step' = "universe" /\ attempt' = attempt + 1
    BY <1>1, <1>5 DEF Fails
  <2>2. ToSet(outbox') = {}
    BY <2>1 DEF ToSet
  <2>3. attempt' \in 0 .. Attempts
    BY <1>1, <1>5, <2>1, Constants DEF MailTypes
  <2>4. MailTypes'
    BY <1>1, <1>3, <2>1, <2>3 DEF MailTypes, Stages
  <2>5. RunInv'
    BY <1>1, <1>3, <2>1, <2>2 DEF RunInv
  <2>6. ~Reporting' /\ ButtonsWillWork' /\ OldLetters'
    BY <1>1, <1>2, <1>3, <2>1, <2>2 DEF Reporting, ButtonsWillWork, OldLetters
  <2>7. SentInv'
    BY <2>6 DEF SentInv
  <2> QED
    BY <1>4, <2>4, <2>5, <2>6, <2>7 DEF RunKept
<1>6. CASE ~(attempt < Attempts)
  <2> DEFINE m == <<today, "alert">>
  <2>1. outbox' = <<m>> /\ step' = "send" /\ attempt' = attempt
    BY <1>6 DEF Fails
  <2>2. m \in Letters /\ m[2] = "alert" /\ m[1] <= today
    BY <1>1 DEF Letters, Weekdays
  <2> HIDE DEF m
  <2>3. outbox' \in Seq(Letters) /\ Len(outbox') = 1 /\ outbox' # <<>> /\ ToSet(outbox') = {m}
    BY <2>1, <2>2 DEF ToSet
  <2>4. MailTypes'
    BY <1>1, <1>3, <2>1, <2>3 DEF MailTypes
  <2>5. RunInv'
    BY <1>1, <1>3, <2>1, <2>3 DEF RunInv
  <2>6. ~Reporting'
    BY <2>2, <2>3 DEF Reporting
  <2>7. ButtonsWillWork'
    BY <2>2, <2>3, Constants DEF ButtonsWillWork
  <2>8. SentInv'
    BY <2>6 DEF SentInv
  <2>9. OldLetters'
    BY <1>2, <1>3, <2>1, <2>2, <2>3 DEF OldLetters
  <2> QED
    BY <1>4, <2>4, <2>5, <2>7, <2>8, <2>9 DEF RunKept
<1> QED
  BY <1>5, <1>6

LEMMA SentStays ==
  ASSUME SentInv, UNCHANGED <<today, ranked, step, mail>>
  PROVE  SentInv'
<1>1. outbox' = outbox /\ told' = told /\ dlq' = dlq /\ dropped' = dropped /\ doubtful' = doubtful /\ outcome' = outcome
  BY DEF mail
<1>2. Report' = Report
  BY DEF Report
<1>3. Reporting' = Reporting
  BY <1>1 DEF Reporting
<1>4. InOrder' = InOrder
  BY <1>1, <1>2 DEF InOrder
<1>5. \A m : Places(m)' = Places(m)
  BY <1>1 DEF Places
<1> QED
  BY <1>1, <1>2, <1>3, <1>4, <1>5 DEF SentInv

LEMMA RunStays ==
  ASSUME IInv, UNCHANGED <<today, trading, ranked, signals, summaries, step, attempt, mail>>
  PROVE  RunKept' /\ MailTypes'
<1>1. SentInv'
  BY SentStays DEF IInv
<1>2. RunInv'
  BY DEF IInv, RunInv, mail
<1>3. OldLetters'
  BY DEF IInv, OldLetters, mail
<1>4. ButtonsWork' /\ ButtonsWillWork'
  BY DEF IInv, ButtonsWork, ButtonsWillWork, mail
<1>5. MailTypes'
  BY TypesAre DEF IInv, MailTypes, mail
<1> QED
  BY <1>1, <1>2, <1>3, <1>4, <1>5 DEF RunKept

(* When the summaries are made, all messages of the report are still to be *)
(* sent.                                                                   *)
LEMMA SummarisedKeeps ==
  ASSUME IInv, step \in Stages, UNCHANGED <<today, trading, ranked, signals>>, NEW made,
         DOMAIN made = ToSet(ranked), \A t \in ToSet(ranked) : made[t] = signals[t], Summarised(made)
  PROVE  RunKept' /\ MailTypes' /\ DOMAIN summaries' \subseteq Tickers
<1>1. /\ outbox = <<>> /\ told = <<>> /\ outcome = "none" /\ 0 \in trading /\ MailTypes
      /\ \A m \in ToSet(dlq) \union dropped : m[1] < today
      /\ today \in Weekdays /\ \A m \in ToSet(dlq) \union dropped : m \in Letters
  <2>1. \A m \in ToSet(dlq) \union dropped : m \in Letters
    BY DEF IInv, TypeOK, ToSet
  <2> QED
    BY <2>1, StageIs
<1>2. \A m \in ToSet(dlq) \union dropped : m[1] <= today /\ m[1] # today
  <2>1. \A m \in Letters : m[1] \in Int
    BY DEF Letters, Weekdays
  <2>2. today \in Int
    BY <1>1 DEF Weekdays
  <2> QED
    BY <1>1, <2>1, <2>2
<1>3. /\ told' = <<>> /\ outcome' = "none" /\ today' = today /\ trading' = trading /\ step' = "send"
      /\ dlq' = dlq /\ dropped' = dropped /\ tries' = tries /\ doubtful' = doubtful /\ lines' = lines
      /\ summaries' = made /\ outbox' = Report /\ attempt' = attempt /\ signals' = signals /\ ranked' = ranked
  BY <1>1 DEF Summarised
<1>4. TypeOK /\ Report' = Report
  BY DEF IInv, Report
<1>5. /\ Report \in Seq(Letters) /\ Len(Report) = Len(ranked) + 1 /\ Report[1] = <<today, "header">>
      /\ Len(ranked) \in Nat /\ DOMAIN Report = 1 .. Len(ranked) + 1
      /\ \A i \in 1 .. Len(ranked) : Report[i + 1] = <<today, ranked[i]>> /\ ranked[i] \in Tickers
  BY <1>4, ReportIs
<1>6. /\ \A a, b \in DOMAIN Report : Report[a] = Report[b] => a = b
      /\ \A a \in DOMAIN Report : Report[a] \in Letters /\ Report[a][1] = today /\ Report[a][2] # "alert"
  BY <1>4, ReportOnce
<1>7. DOMAIN ranked = 1 .. Len(ranked) /\ ToSet(ranked) \subseteq Tickers
  BY <1>4, <1>5 DEF TypeOK, ToSet
<1>8. ToSet(told') = {} /\ ButtonsWork' /\ DOMAIN told' = {}
  <2>1. ToSet(told') = {} /\ DOMAIN told' = {}
    BY <1>3 DEF ToSet
  <2> QED
    BY <2>1 DEF ButtonsWork
<1>9. Report # <<>>
  BY <1>5
<1>10. MailTypes'
  BY <1>1, <1>3, <1>5 DEF MailTypes
<1>11. \A m \in ToSet(outbox') : m[2] # "alert" /\ \E a \in DOMAIN Report : m = Report[a]
  BY <1>3, <1>6 DEF ToSet
<1>12. RunInv' /\ OldLetters'
  <2>1. RunInv'
    BY <1>1, <1>3, <1>9, <1>11 DEF RunInv
  <2>2. \A m \in ToSet(outbox') : m[1] <= today
    BY <1>1, <1>6, <1>11 DEF Weekdays
  <2>3. OldLetters'
    BY <1>2, <1>3, <2>2 DEF OldLetters
  <2> QED
    BY <2>1, <2>3
<1>13. ASSUME NEW a \in DOMAIN Report, Report[a][2] \in Tickers
       PROVE  Report[a][2] \in ToSet(ranked)
  <2>1. a # 1
    BY <1>5, <1>13, Constants
  <2>2. a - 1 \in 1 .. Len(ranked) /\ (a - 1) + 1 = a
    BY <1>5, <2>1
  <2>3. Report[a] = <<today, ranked[a - 1]>>
    BY <1>5, <2>2
  <2> QED
    BY <1>7, <2>2, <2>3 DEF ToSet
<1>14. ButtonsWillWork'
  BY <1>3, <1>11, <1>13 DEF ButtonsWillWork
<1>15. SentInv'
  <2>1. Len(Report') - Len(outbox') = 0
    BY <1>3, <1>4, <1>5
  <2>2. \A i \in DOMAIN outbox' : outbox'[i] = Report'[0 + i]
    BY <1>3, <1>4, <1>5
  <2>3. InOrder' /\ \A i \in DOMAIN told' : \E a \in DOMAIN Report' : a <= 0 + 1 /\ told'[i] = Report'[a]
    BY <1>8 DEF InOrder
  <2>4. ASSUME NEW m \in ToSet(Report') PROVE \E p \in Places(m)' : Places(m)' = {p}
    <3>1. PICK a \in DOMAIN Report : m = Report[a]
      BY <1>4, <2>4 DEF ToSet
    <3>2. {i \in DOMAIN outbox' : outbox'[i] = m} = {a}
      BY <1>3, <1>6, <3>1
    <3>3. {i \in DOMAIN told' : told'[i] = m} = {}
      BY <1>8
    <3>4. m[1] = today
      BY <1>6, <3>1
    <3>5. {i \in DOMAIN dlq' : dlq'[i] = m} = {} /\ dropped' \intersect {m} = {}
      BY <1>2, <1>3, <3>4 DEF ToSet
    <3>6. Places(m)' = {<<"outbox", a>>}
      BY <3>2, <3>3, <3>5 DEF Places
    <3> QED
      BY <3>6
  <2> QED
    BY <2>1, <2>2, <2>3, <2>4 DEF SentInv
<1> QED
  BY <1>3, <1>7, <1>8, <1>10, <1>12, <1>14, <1>15 DEF RunKept

(***************************************************************************)
(* Sending                                                                 *)
(***************************************************************************)

LEMMA AppendedPlaces ==
  ASSUME NEW S, NEW s \in Seq(S), NEW e \in S, NEW m
  PROVE  /\ ToSet(Append(s, e)) = ToSet(s) \union {e}
         /\ m # e => {i \in DOMAIN Append(s, e) : Append(s, e)[i] = m} = {i \in DOMAIN s : s[i] = m}
         /\ m = e /\ {i \in DOMAIN s : s[i] = m} = {} =>
              {i \in DOMAIN Append(s, e) : Append(s, e)[i] = m} = {Len(s) + 1}
<1> DEFINE t == Append(s, e)
<1>1. /\ Len(s) \in Nat /\ DOMAIN s = 1 .. Len(s) /\ DOMAIN t = 1 .. Len(s) + 1
      /\ \A i \in 1 .. Len(s) : t[i] = s[i]
      /\ t[Len(s) + 1] = e
  BY AppendProperties
<1> HIDE DEF t
<1>2. ToSet(t) = ToSet(s) \union {e}
  <2>1. ToSet(t) \subseteq ToSet(s) \union {e}
    BY <1>1 DEF ToSet
  <2>2. \A i \in DOMAIN s : i \in DOMAIN t /\ t[i] = s[i]
    BY <1>1
  <2>3. Len(s) + 1 \in DOMAIN t
    BY <1>1
  <2> QED
    BY <1>1, <2>1, <2>2, <2>3 DEF ToSet
<1>3. m # e => {i \in DOMAIN t : t[i] = m} = {i \in DOMAIN s : s[i] = m}
  BY <1>1
<1>4. m = e /\ {i \in DOMAIN s : s[i] = m} = {} => {i \in DOMAIN t : t[i] = m} = {Len(s) + 1}
  BY <1>1
<1> QED
  BY <1>2, <1>3, <1>4 DEF t

LEMMA RemovedPlaces ==
  ASSUME NEW S, NEW s \in Seq(S), s # <<>>, NEW m
  PROVE  /\ ToSet(Tail(s)) \subseteq ToSet(s) /\ Head(s) = s[1] /\ Head(s) \in ToSet(s) /\ Head(s) \in S /\ 1 \in DOMAIN s
         /\ \A e \in ToSet(s) : e = Head(s) \/ e \in ToSet(Tail(s))
         /\ {i \in DOMAIN s : s[i] = m} = {} => {i \in DOMAIN Tail(s) : Tail(s)[i] = m} = {}
         /\ {i \in DOMAIN s : s[i] = m} = {1} => {i \in DOMAIN Tail(s) : Tail(s)[i] = m} = {}
<1> DEFINE t == Tail(s)
<1>1. /\ Len(s) \in Nat \ {0} /\ DOMAIN s = 1 .. Len(s) /\ t \in Seq(S) /\ Len(t) = Len(s) - 1 /\ Head(s) = s[1]
      /\ \A i \in 1 .. Len(t) : t[i] = s[i + 1]
  BY HeadTailProperties, EmptySeq
<1>2. DOMAIN t = 1 .. Len(s) - 1 /\ \A i \in 1 .. Len(s) - 1 : t[i] = s[i + 1]
  BY <1>1
<1> HIDE DEF t
<1>3. \A i \in DOMAIN t : i + 1 \in DOMAIN s /\ t[i] = s[i + 1] /\ i + 1 # 1 /\ i = (i + 1) - 1
  BY <1>1, <1>2
<1>4. \A i \in DOMAIN s : i # 1 => i - 1 \in DOMAIN t /\ t[i - 1] = s[i]
  <2>1. \A i \in DOMAIN s : i # 1 => i - 1 \in DOMAIN t /\ (i - 1) + 1 = i
    BY <1>1, <1>2
  <2> QED
    BY <1>3, <2>1
<1>5. 1 \in DOMAIN s
  BY <1>1
<1>6. ToSet(t) \subseteq ToSet(s) /\ Head(s) \in ToSet(s) /\ Head(s) \in S
  <2>1. ToSet(t) \subseteq ToSet(s)
    BY <1>3 DEF ToSet
  <2>2. Head(s) \in ToSet(s)
    BY <1>1, <1>5 DEF ToSet
  <2>3. Head(s) \in S
    BY HeadTailProperties
  <2> QED
    BY <2>1, <2>2, <2>3
<1>7. \A e \in ToSet(s) : e = Head(s) \/ e \in ToSet(t)
  BY <1>1, <1>4 DEF ToSet
<1>8. {i \in DOMAIN s : s[i] = m} = {} => {i \in DOMAIN t : t[i] = m} = {}
  BY <1>3
<1>9. {i \in DOMAIN s : s[i] = m} = {1} => {i \in DOMAIN t : t[i] = m} = {}
  BY <1>3
<1> QED
  BY <1>1, <1>5, <1>6, <1>7, <1>8, <1>9 DEF t

LEMMA ShiftedPlaces ==
  ASSUME NEW S, NEW s \in Seq(S), s # <<>>, NEW m, m # Head(s), NEW k, {i \in DOMAIN s : s[i] = m} = {k}
  PROVE  {i \in DOMAIN Tail(s) : Tail(s)[i] = m} = {k - 1}
<1> DEFINE t == Tail(s)
<1>1. /\ Len(s) \in Nat \ {0} /\ DOMAIN s = 1 .. Len(s) /\ t \in Seq(S) /\ Len(t) = Len(s) - 1 /\ Head(s) = s[1]
      /\ \A i \in 1 .. Len(t) : t[i] = s[i + 1]
  BY HeadTailProperties, EmptySeq
<1>2. DOMAIN t = 1 .. Len(s) - 1
  BY <1>1
<1> HIDE DEF t
<1>3. k \in DOMAIN s /\ s[k] = m /\ k # 1
  BY <1>1
<1>4. k - 1 \in DOMAIN t /\ t[k - 1] = m
  <2>1. k - 1 \in 1 .. Len(t) /\ (k - 1) + 1 = k
    BY <1>1, <1>3
  <2> QED
    BY <1>1, <1>2, <1>3, <2>1
<1>5. ASSUME NEW i \in DOMAIN t, t[i] = m PROVE i = k - 1
  <2>1. i + 1 \in DOMAIN s /\ s[i + 1] = m
    BY <1>1, <1>2, <1>5
  <2>2. i + 1 = k
    BY <2>1
  <2> QED
    BY <1>2, <2>2
<1> QED
  BY <1>4, <1>5 DEF t

(* What an attempt does to the first message of the outbox: it keeps it,   *)
(* or settles it; as delivered, perhaps in doubt, or as a dead letter.     *)
Keeps  == UNCHANGED <<outbox, step, outcome, dlq, dropped>> /\ tries + 1 < Retries /\ tries' = tries + 1
Buries == \/ dlq' = Append(dlq, Head(outbox)) /\ Len(dlq) < DlqMax /\ dropped' = dropped
          \/ dropped' = dropped \union {Head(outbox)} /\ dlq' = dlq
Tells  == told' = Append(told, Head(outbox))
Doubts == doubtful' = doubtful \union {Head(outbox)}

LEMMA SendIs ==
  ASSUME SendRaw
  PROVE  /\ UNCHANGED <<today, trading, ranked, signals, summaries, attempt>>
         /\ \/ Keeps /\ told' = told /\ doubtful' = doubtful
            \/ Keeps /\ Tells /\ Doubts
            \/ Settled /\ Tells /\ doubtful' = doubtful /\ UNCHANGED <<dlq, dropped>>
            \/ Settled /\ Tells /\ Doubts /\ Buries
            \/ Settled /\ told' = told /\ doubtful' = doubtful /\ Buries
         /\ lines' = lines \/ lines' = lines \union ({Head(outbox)[2]} \intersect Pressed)
<1>1. UNCHANGED <<today, trading, ranked, signals, summaries>>
  BY DEF SendRaw, market, work, batch
<1>2. ASSUME Undelivered
      PROVE  attempt' = attempt /\ (Keeps \/ (Settled /\ Buries))
  BY <1>2 DEF Undelivered, Keeps, Buries
<1>3. CASE ~down /\ Arrives /\ Settled /\ Fine /\ UNCHANGED <<attempt, dlq, dropped, doubtful>>
  BY <1>1, <1>3 DEF Arrives, Tells
<1>4. CASE ~down /\ Fault /\ Arrives /\ Undelivered /\ doubtful' = doubtful \union {Head(outbox)}
  BY <1>1, <1>2, <1>4 DEF Arrives, Tells, Doubts
<1>5. CASE down /\ Undelivered /\ Fine /\ UNCHANGED <<told, lines, doubtful>>
  BY <1>1, <1>2, <1>5
<1> QED
  BY <1>3, <1>4, <1>5 DEF SendRaw

LEMMA SendFacts ==
  ASSUME IInv, step = "send"
  PROVE  /\ outbox \in Seq(Letters) /\ outbox # <<>> /\ told \in Seq(Letters) /\ dlq \in Seq(Letters)
         /\ Len(outbox) \in Nat \ {0} /\ Head(outbox) = outbox[1] /\ Head(outbox) \in Letters
         /\ Head(outbox) \in ToSet(outbox) /\ ToSet(Tail(outbox)) \subseteq ToSet(outbox)
         /\ Tail(outbox) \in Seq(Letters) /\ Len(Tail(outbox)) = Len(outbox) - 1
         /\ (Tail(outbox) # <<>> <=> Len(outbox) > 1)
         /\ outcome = "none" /\ MailTypes /\ 0 \in trading /\ today \in Weekdays
         /\ \A m \in ToSet(outbox) \union ToSet(dlq) \union dropped : m[1] <= today
<1>1. /\ outbox \in Seq(Letters) /\ outbox # <<>> /\ told \in Seq(Letters) /\ dlq \in Seq(Letters)
      /\ outcome = "none" /\ MailTypes /\ 0 \in trading /\ today \in Weekdays
      /\ \A m \in ToSet(outbox) \union ToSet(dlq) \union dropped : m[1] <= today
  BY TypesAre DEF IInv, RunInv, OldLetters, MailTypes, DataTypes
<1>2. Len(outbox) \in Nat \ {0}
  BY <1>1, EmptySeq
<1>3. Tail(outbox) \in Seq(Letters) /\ Len(Tail(outbox)) = Len(outbox) - 1
  BY <1>1, HeadTailProperties
<1>4. Tail(outbox) # <<>> <=> Len(outbox) > 1
  <2> DEFINE t == Tail(outbox)
  <2> HIDE DEF t
  <2>1. t \in Seq(Letters) /\ Len(t) = Len(outbox) - 1
    BY <1>3 DEF t
  <2>2. t # <<>> => Len(t) \in Nat \ {0}
    BY <2>1, EmptySeq
  <2>3. t = <<>> => Len(t) = 0
    OBVIOUS
  <2>4. t # <<>> <=> Len(outbox) > 1
    BY <1>2, <2>1, <2>2, <2>3
  <2> QED
    BY <2>4 DEF t
<1>5. /\ Head(outbox) = outbox[1] /\ Head(outbox) \in Letters
      /\ Head(outbox) \in ToSet(outbox) /\ ToSet(Tail(outbox)) \subseteq ToSet(outbox)
  BY <1>1, RemovedPlaces
<1> QED
  BY <1>1, <1>2, <1>3, <1>4, <1>5

LEMMA SettledIs ==
  ASSUME IInv, step = "send", Settled
  PROVE  /\ outbox' = Tail(outbox) /\ outbox' \in Seq(Letters) /\ Len(outbox') = Len(outbox) - 1
         /\ ToSet(outbox') \subseteq ToSet(outbox) /\ tries' = 0
         /\ \/ outbox' # <<>> /\ step' = "send" /\ outcome' = "none"
            \/ /\ outbox' = <<>> /\ step' = "idle"
               /\ outcome' = IF Head(outbox)[2] = "alert" THEN "alert" ELSE "report"
BY SendFacts DEF Settled

LEMMA SendTypes ==
  ASSUME IInv, step = "send", SendRaw
  PROVE  MailTypes'
<1>1. /\ told \in Seq(Letters) /\ dlq \in Seq(Letters) /\ MailTypes
      /\ Head(outbox) \in Letters /\ outcome = "none"
  BY SendFacts
<1>2. attempt' = attempt
  BY SendIs
<1>3. lines' \subseteq Tickers
  BY <1>1, SendIs, MinerAssumption DEF MailTypes
<1>4. told' \in Seq(Letters) /\ doubtful' \subseteq Letters
  <2>1. Append(told, Head(outbox)) \in Seq(Letters)
    BY <1>1, AppendProperties
  <2> QED
    BY <1>1, <2>1, SendIs DEF MailTypes, Tells, Doubts
<1>5. Buries => dlq' \in Seq(Letters) /\ Len(dlq') <= DlqMax /\ dropped' \subseteq Letters
  <2>1. /\ Append(dlq, Head(outbox)) \in Seq(Letters) /\ Len(Append(dlq, Head(outbox))) = Len(dlq) + 1
        /\ Len(dlq) \in Nat /\ DlqMax \in Nat
    BY <1>1, AppendProperties, LenProperties, Constants
  <2>2. Len(dlq) <= DlqMax /\ dropped \subseteq Letters
    BY <1>1 DEF MailTypes
  <2>3. CASE dlq' = Append(dlq, Head(outbox)) /\ Len(dlq) < DlqMax /\ dropped' = dropped
    <3>1. Len(dlq') = Len(dlq) + 1
      BY <2>1, <2>3
    <3>2. Len(dlq') <= DlqMax
      BY <2>1, <2>3, <3>1
    <3> QED
      BY <2>1, <2>2, <2>3, <3>2
  <2>4. CASE dropped' = dropped \union {Head(outbox)} /\ dlq' = dlq
    BY <1>1, <2>2, <2>4
  <2> QED
    BY <2>3, <2>4 DEF Buries
<1>6. dlq' \in Seq(Letters) /\ Len(dlq') <= DlqMax /\ dropped' \subseteq Letters
  BY <1>1, <1>5, SendIs DEF MailTypes, Keeps
<1>7. Retries \in Nat \ {0} /\ tries \in 0 .. Retries - 1
  BY <1>1, Constants DEF MailTypes
<1>8. Keeps => outbox' \in Seq(Letters) /\ step' = "send" /\ outcome' = "none" /\ tries' \in 0 .. Retries - 1
  BY <1>1, <1>7 DEF MailTypes, Keeps
<1>9. Settled => outbox' \in Seq(Letters) /\ step' \in {"send", "idle"} /\ tries' \in 0 .. Retries - 1
                   /\ outcome' \in {"none", "alert", "report"}
  BY <1>7, SettledIs
<1>10. Keeps \/ Settled
  BY SendIs
<1> QED
  BY <1>1, <1>2, <1>3, <1>4, <1>6, <1>8, <1>9, <1>10 DEF MailTypes

(* The buttons of a message that arrives work, for those of a message to   *)
(* be sent will.                                                           *)
LEMMA SendButtons ==
  ASSUME IInv, step = "send", SendRaw
  PROVE  ButtonsWork' /\ ButtonsWillWork' /\ RunInv' /\ OldLetters'
<1> DEFINE h == Head(outbox)
<1>1. /\ told \in Seq(Letters) /\ dlq \in Seq(Letters) /\ MailTypes /\ h \in Letters /\ outcome = "none"
      /\ h \in ToSet(outbox) /\ outbox # <<>> /\ 0 \in trading /\ Len(outbox) \in Nat \ {0}
      /\ \A m \in ToSet(outbox) \union ToSet(dlq) \union dropped : m[1] <= today
  BY SendFacts
<1>2. UNCHANGED <<today, trading, signals, summaries>>
  BY SendIs
<1>3. /\ ToSet(Append(told, h)) = ToSet(told) \union {h}
      /\ ToSet(Append(dlq, h)) = ToSet(dlq) \union {h}
  <2> HIDE DEF h
  <2>1. ToSet(Append(told, h)) = ToSet(told) \union {h}
    BY <1>1, AppendedPlaces
  <2>2. ToSet(Append(dlq, h)) = ToSet(dlq) \union {h}
    BY <1>1, AppendedPlaces
  <2> QED
    BY <2>1, <2>2
<1>4. ToSet(told') \subseteq ToSet(told) \union {h}
  BY <1>3, SendIs DEF Tells
<1>5. ToSet(dlq') \subseteq ToSet(dlq) \union {h} /\ dropped' \subseteq dropped \union {h}
  <2>1. Buries => ToSet(dlq') \subseteq ToSet(dlq) \union {h} /\ dropped' \subseteq dropped \union {h}
    BY <1>3 DEF Buries
  <2> QED
    BY <2>1, SendIs DEF Keeps
<1>6. \/ /\ outbox' = outbox /\ step' = "send" /\ outcome' = "none"
      \/ /\ ToSet(outbox') \subseteq ToSet(outbox) /\ Len(outbox') = Len(outbox) - 1
         /\ \/ outbox' # <<>> /\ step' = "send" /\ outcome' = "none"
            \/ outbox' = <<>> /\ step' = "idle" /\ outcome' # "none"
  <2>1. Settled => /\ ToSet(outbox') \subseteq ToSet(outbox) /\ Len(outbox') = Len(outbox) - 1
                   /\ \/ outbox' # <<>> /\ step' = "send" /\ outcome' = "none"
                      \/ outbox' = <<>> /\ step' = "idle" /\ outcome' # "none"
    BY SettledIs
  <2>2. Keeps => outbox' = outbox /\ step' = "send" /\ outcome' = "none"
    BY <1>1 DEF Keeps
  <2> QED
    BY <2>1, <2>2, SendIs
<1> HIDE DEF h
<1>7. ToSet(outbox') \subseteq ToSet(outbox) /\ (step' = "send") = (outbox' # <<>>) /\ (step' = "idle") = (outcome' # "none")
        /\ step' \in {"send", "idle"}
  BY <1>1, <1>6
<1>8. \A m \in ToSet(outbox) \union ToSet(told) : m[2] \in Tickers =>
         m[2] \in DOMAIN summaries /\ summaries[m[2]] = signals[m[2]]
  BY DEF IInv, ButtonsWork, ButtonsWillWork
<1>9. ButtonsWork' /\ ButtonsWillWork'
  BY <1>1, <1>2, <1>4, <1>7, <1>8 DEF ButtonsWork, ButtonsWillWork
<1>10. OldLetters'
  BY <1>1, <1>2, <1>5, <1>7 DEF OldLetters
<1>11. \A m \in ToSet(outbox') : m[2] = "alert" => Len(outbox') = 1
  <2>1. \A m \in ToSet(outbox) : m[2] = "alert" => Len(outbox) = 1
    BY DEF IInv, RunInv
  <2>2. CASE outbox' = outbox
    BY <2>1, <2>2
  <2>3. CASE outbox' # outbox /\ outbox' # <<>>
    <3>1. Len(outbox') # 0 /\ Len(outbox') = Len(outbox) - 1
      <4>1. outbox' \in Seq(Letters)
        BY SendTypes DEF MailTypes
      <4> QED
        BY <1>6, <2>3, <4>1, EmptySeq
    <3>2. Len(outbox) # 1
      BY <1>1, <3>1
    <3> QED
      BY <1>7, <2>1, <3>2
  <2>4. CASE outbox' = <<>>
    BY <2>4 DEF ToSet
  <2> QED
    BY <2>2, <2>3, <2>4
<1>12. RunInv'
  BY <1>1, <1>2, <1>7, <1>11 DEF RunInv
<1> QED
  BY <1>9, <1>10, <1>12

LEMMA SendReports ==
  ASSUME IInv, step = "send", SendRaw, Reporting'
  PROVE  Reporting
<1>1. Head(outbox) \in ToSet(outbox)
  BY SendFacts
<1>2. SUFFICES ASSUME NEW m \in ToSet(outbox), m[2] = "alert" PROVE FALSE
  BY DEF Reporting
<1>3. Len(outbox) = 1
  BY <1>2 DEF IInv, RunInv
<1>4. outbox \in Seq(Letters) /\ DOMAIN outbox = {1} /\ Head(outbox) = outbox[1]
  <2>1. outbox \in Seq(Letters) /\ Head(outbox) = outbox[1]
    BY SendFacts
  <2> QED
    BY <1>3, <2>1
<1>5. m = Head(outbox)
  BY <1>2, <1>4 DEF ToSet
<1>6. CASE Keeps
  BY <1>2, <1>6 DEF Reporting, Keeps
<1>7. CASE Settled
  <2>1. ~(Tail(outbox) # <<>>) /\ outbox' = Tail(outbox)
    BY <1>3, <1>7, SendFacts, SettledIs
  <2>2. step' = "idle" /\ outcome' = "alert"
    BY <1>2, <1>5, <1>7, <2>1, SettledIs
  <2> QED
    BY <2>2 DEF Reporting
<1> QED
  BY <1>6, <1>7, SendIs

(* One place of a message, seen from each of the places there are.         *)
LEMMA OnePlace ==
  ASSUME NEW m, NEW p, Places(m) = {p}
  PROVE  LET O == {i \in DOMAIN outbox : outbox[i] = m}
             T == {i \in DOMAIN told : told[i] = m}
             D == {i \in DOMAIN dlq : dlq[i] = m}
         IN  \/ \E k : O = {k} /\ T = {} /\ D = {} /\ m \notin dropped
             \/ O = {}
<1> DEFINE O == {i \in DOMAIN outbox : outbox[i] = m}
           T == {i \in DOMAIN told : told[i] = m}
           D == {i \in DOMAIN dlq : dlq[i] = m}
<1>1. Places(m) = ({"outbox"} \X O) \union ({"told"} \X T) \union ({"dlq"} \X D) \union ({"dropped"} \X (dropped \intersect {m}))
  BY DEF Places
<1>2. /\ \A k \in O : <<"outbox", k>> \in Places(m)
      /\ \A k \in T : <<"told", k>> \in Places(m)
      /\ \A k \in D : <<"dlq", k>> \in Places(m)
      /\ m \in dropped => <<"dropped", m>> \in Places(m)
  <2> HIDE DEF O, T, D
  <2> QED
    BY <1>1
<1> HIDE DEF O, T, D
<1>3. ASSUME NEW k \in O PROVE O = {k} /\ T = {} /\ D = {} /\ m \notin dropped
  <2>1. p = <<"outbox", k>>
    BY <1>2, <1>3
  <2> QED
    BY <1>2, <1>3, <2>1
<1>4. (\E k : O = {k} /\ T = {} /\ D = {} /\ m \notin dropped) \/ O = {}
  BY <1>3
<1> QED
  BY <1>4 DEF O, T, D

(* A message not in doubt stays in one place: what is sent moves, the rest *)
(* of the outbox moves up.                                                 *)
LEMMA SendPlaces ==
  ASSUME IInv, step = "send", SendRaw, NEW m, m \notin doubtful', \E p : Places(m) = {p}
  PROVE  \E p : Places(m)' = {p}
<1> DEFINE h == Head(outbox)
           O == {i \in DOMAIN outbox : outbox[i] = m}
           T == {i \in DOMAIN told : told[i] = m}
           D == {i \in DOMAIN dlq : dlq[i] = m}
           O1 == {i \in DOMAIN outbox' : outbox'[i] = m}
           T1 == {i \in DOMAIN told' : told'[i] = m}
           D1 == {i \in DOMAIN dlq' : dlq'[i] = m}
           R == dropped \intersect {m}
           R1 == dropped' \intersect {m}
<1>1. PICK p : Places(m) = {p}
  OBVIOUS
<1>2. Places(m) = ({"outbox"} \X O) \union ({"told"} \X T) \union ({"dlq"} \X D) \union ({"dropped"} \X R)
  BY DEF Places
<1>3. Places(m)' = ({"outbox"} \X O1) \union ({"told"} \X T1) \union ({"dlq"} \X D1) \union ({"dropped"} \X R1)
  BY DEF Places
<1>4. /\ outbox \in Seq(Letters) /\ outbox # <<>> /\ told \in Seq(Letters) /\ dlq \in Seq(Letters)
      /\ h \in Letters /\ h = outbox[1] /\ 1 \in DOMAIN outbox
  BY SendFacts
<1>5. (\E k : O = {k} /\ T = {} /\ D = {} /\ m \notin dropped) \/ O = {}
  BY <1>1, OnePlace
<1>6. Settled => outbox' = Tail(outbox)
  BY SettledIs
<1> HIDE DEF h
<1>7. m = h => O = {1} /\ T = {} /\ D = {} /\ m \notin dropped
  <2>1. m = h => 1 \in O
    BY <1>4
  <2> HIDE DEF O, T, D
  <2> QED
    BY <1>5, <2>1
<1>8. /\ O = {} => {i \in DOMAIN Tail(outbox) : Tail(outbox)[i] = m} = {}
      /\ O = {1} => {i \in DOMAIN Tail(outbox) : Tail(outbox)[i] = m} = {}
      /\ \A k : m # h /\ O = {k} => {i \in DOMAIN Tail(outbox) : Tail(outbox)[i] = m} = {k - 1}
  <2>1. outbox \in Seq(Letters) /\ outbox # <<>>
    BY <1>4
  <2>2. /\ O = {} => {i \in DOMAIN Tail(outbox) : Tail(outbox)[i] = m} = {}
        /\ O = {1} => {i \in DOMAIN Tail(outbox) : Tail(outbox)[i] = m} = {}
    BY <2>1, RemovedPlaces
  <2>3. \A k : m # Head(outbox) /\ O = {k} => {i \in DOMAIN Tail(outbox) : Tail(outbox)[i] = m} = {k - 1}
    BY <2>1, ShiftedPlaces
  <2> QED
    BY <2>2, <2>3 DEF h
<1>9. /\ m # h => {i \in DOMAIN Append(told, h) : Append(told, h)[i] = m} = T
      /\ m = h /\ T = {} => {i \in DOMAIN Append(told, h) : Append(told, h)[i] = m} = {Len(told) + 1}
  BY <1>4, AppendedPlaces
<1>10. /\ m # h => {i \in DOMAIN Append(dlq, h) : Append(dlq, h)[i] = m} = D
       /\ m = h /\ D = {} => {i \in DOMAIN Append(dlq, h) : Append(dlq, h)[i] = m} = {Len(dlq) + 1}
  BY <1>4, AppendedPlaces
<1>11. Keeps => O1 = O /\ D1 = D /\ R1 = R
  BY DEF Keeps
<1>12. told' = told => T1 = T
  OBVIOUS
<1>13. dlq' = dlq => D1 = D
  OBVIOUS
<1>14. dropped' = dropped => R1 = R
  OBVIOUS
<1>15. Tells => /\ m # h => T1 = T
                /\ m = h /\ T = {} => T1 = {Len(told) + 1}
  BY <1>9 DEF Tells, h
<1>16. Settled => /\ O = {} => O1 = {}
                  /\ O = {1} => O1 = {}
                  /\ \A k : m # h /\ O = {k} => O1 = {k - 1}
  BY <1>6, <1>8
<1>17. Buries => /\ m # h => D1 = D /\ R1 = R
                 /\ m = h /\ D = {} /\ m \notin dropped =>
                      (D1 = {Len(dlq) + 1} /\ R1 = {}) \/ (D1 = {} /\ R1 = {m})
  <2>1. CASE dlq' = Append(dlq, h) /\ dropped' = dropped
    <3>1. D1 = {i \in DOMAIN Append(dlq, h) : Append(dlq, h)[i] = m} /\ R1 = R
      BY <2>1
    <3> HIDE DEF D, D1, R1
    <3> QED
      BY <1>10, <3>1
  <2>2. CASE dropped' = dropped \union {h} /\ dlq' = dlq
    <3>1. D1 = D /\ R1 = (dropped \union {h}) \intersect {m}
      BY <2>2
    <3> HIDE DEF D, D1, R1
    <3> QED
      BY <3>1
  <2>3. Buries => (dlq' = Append(dlq, h) /\ dropped' = dropped) \/ (dropped' = dropped \union {h} /\ dlq' = dlq)
    BY DEF Buries, h
  <2> HIDE DEF D, D1, R, R1
  <2> QED
    BY <2>1, <2>2, <2>3
<1>18. Doubts => m # h
  BY DEF Doubts, h
<1>19. m \notin dropped => R = {}
  OBVIOUS
<1> HIDE DEF O, T, D, R, O1, T1, D1, R1
<1>20. CASE m # h
  <2>1. T1 = T /\ D1 = D /\ R1 = R
    BY <1>11, <1>12, <1>13, <1>14, <1>15, <1>17, <1>20, SendIs
  <2>2. CASE Keeps
    <3>1. Places(m)' = Places(m)
      BY <1>2, <1>3, <1>11, <2>1, <2>2
    <3> QED
      BY <1>1, <3>1
  <2>3. CASE Settled /\ O = {}
    <3>1. Places(m)' = Places(m)
      BY <1>2, <1>3, <1>16, <2>1, <2>3
    <3> QED
      BY <1>1, <3>1
  <2>4. CASE Settled /\ O # {}
    <3>1. PICK k : O = {k} /\ T = {} /\ D = {} /\ m \notin dropped
      BY <1>5, <2>4
    <3>2. O1 = {k - 1} /\ T1 = {} /\ D1 = {} /\ R1 = {}
      BY <1>16, <1>19, <1>20, <2>1, <2>4, <3>1
    <3>3. Places(m)' = {<<"outbox", k - 1>>}
      BY <1>3, <3>2
    <3> QED
      BY <3>3
  <2> QED
    BY <2>2, <2>3, <2>4, SendIs
<1>21. CASE m = h
  <2>1. O = {1} /\ T = {} /\ D = {} /\ R = {}
    BY <1>7, <1>19, <1>21
  <2>2. CASE Keeps /\ told' = told
    <3>1. Places(m)' = Places(m)
      BY <1>2, <1>3, <1>11, <1>12, <2>2
    <3> QED
      BY <1>1, <3>1
  <2>3. CASE Settled /\ Tells /\ UNCHANGED <<dlq, dropped>>
    <3>1. O1 = {} /\ T1 = {Len(told) + 1} /\ D1 = {} /\ R1 = {}
      BY <1>13, <1>14, <1>15, <1>16, <1>21, <2>1, <2>3
    <3>2. Places(m)' = {<<"told", Len(told) + 1>>}
      BY <1>3, <3>1
    <3> QED
      BY <3>2
  <2>4. CASE Settled /\ told' = told /\ Buries
    <3>1. O1 = {} /\ T1 = {}
      BY <1>12, <1>16, <2>1, <2>4
    <3>2. (D1 = {Len(dlq) + 1} /\ R1 = {}) \/ (D1 = {} /\ R1 = {m})
      BY <1>7, <1>17, <1>21, <2>1, <2>4
    <3>3. Places(m)' = {<<"dlq", Len(dlq) + 1>>} \/ Places(m)' = {<<"dropped", m>>}
      BY <1>3, <3>1, <3>2
    <3> QED
      BY <3>3
  <2> QED
    BY <1>18, <1>21, <2>2, <2>3, <2>4, SendIs
<1> QED
  BY <1>20, <1>21

LEMMA SendSent ==
  ASSUME IInv, step = "send", SendRaw
  PROVE  SentInv'
<1>1. SUFFICES ASSUME Reporting' PROVE SentInv'
  BY DEF SentInv
<1> DEFINE n == Len(Report) - Len(outbox)
           h == Head(outbox)
           n1 == Len(Report') - Len(outbox')
<1>2. Reporting
  BY <1>1, SendReports
<1>3. /\ n >= 0 /\ \A i \in DOMAIN outbox : outbox[i] = Report[n + i]
      /\ \A i \in DOMAIN told : \E a \in DOMAIN Report : a <= n + 1 /\ told[i] = Report[a]
      /\ InOrder
      /\ \A m \in ToSet(Report) \ doubtful : \E p \in Places(m) : Places(m) = {p}
  BY <1>2 DEF IInv, SentInv
<1>4. /\ outbox \in Seq(Letters) /\ outbox # <<>> /\ Len(outbox) \in Nat \ {0} /\ told \in Seq(Letters)
      /\ Head(outbox) = outbox[1] /\ h \in Letters /\ h = outbox[1] /\ Tail(outbox) \in Seq(Letters)
      /\ Len(Tail(outbox)) = Len(outbox) - 1
  BY SendFacts
<1>5. Report' = Report
  BY SendIs DEF Report
<1>6. Len(Report) \in Nat /\ DOMAIN Report = 1 .. Len(Report)
  <2>1. TypeOK
    BY DEF IInv
  <2> QED
    BY <2>1, ReportIs
<1>7. Keeps => outbox' = outbox
  BY DEF Keeps
<1>8. Settled => outbox' = Tail(outbox)
  BY SettledIs
<1>9. \A i \in 1 .. Len(outbox) - 1 : Tail(outbox)[i] = outbox[i + 1]
  BY <1>4, HeadTailProperties
<1>10. told' = told \/ told' = Append(told, h)
  BY SendIs DEF Tells
<1>11. doubtful \subseteq doubtful'
  BY SendIs DEF Doubts
<1>12. Keeps \/ Settled
  BY SendIs
<1>13. n \in Nat /\ n1 \in Nat /\ n <= n1 /\ \A i \in DOMAIN outbox' : outbox'[i] = Report'[n1 + i]
  <2> HIDE DEF h
  <2>1. n \in Nat
    BY <1>3, <1>4, <1>6
  <2>2. CASE Keeps
    <3>1. n1 = n /\ outbox' = outbox
      BY <1>5, <1>7, <2>2
    <3> QED
      BY <1>3, <1>5, <2>1, <3>1
  <2>3. CASE Settled
    <3>1. outbox' = Tail(outbox) /\ DOMAIN outbox' = 1 .. Len(outbox) - 1
      BY <1>4, <1>8, <2>3
    <3>2. n1 = n + 1
      BY <1>4, <1>5, <1>6, <3>1
    <3>3. ASSUME NEW i \in DOMAIN outbox' PROVE outbox'[i] = Report[n1 + i]
      <4>1. outbox'[i] = outbox[i + 1] /\ i + 1 \in DOMAIN outbox
        BY <1>4, <1>9, <3>1
      <4>2. outbox[i + 1] = Report[n + (i + 1)]
        BY <1>3, <4>1
      <4>3. n + (i + 1) = n1 + i
        <5>1. i \in Int
          BY <1>4, <3>1
        <5> HIDE DEF n, n1
        <5> QED
          BY <2>1, <3>2, <5>1
      <4> QED
        BY <4>1, <4>2, <4>3
    <3> QED
      BY <1>5, <2>1, <3>2, <3>3
  <2> QED
    BY <1>12, <2>2, <2>3
<1>14. h = Report[n + 1] /\ n + 1 \in DOMAIN Report
  <2>1. 1 \in DOMAIN outbox
    BY <1>4
  <2>2. n + 1 \in 1 .. Len(Report)
    BY <1>3, <1>4, <1>6
  <2> QED
    BY <1>3, <1>4, <1>6, <2>1, <2>2
<1> HIDE DEF n, n1, h
<1>15. ASSUME NEW i \in DOMAIN told'
       PROVE  \E a \in DOMAIN Report : a <= n + 1 /\ told'[i] = Report[a]
  <2>1. CASE told' = told
    BY <1>3, <1>15, <2>1
  <2>2. CASE told' = Append(told, h)
    <3>1. (i \in DOMAIN told /\ told'[i] = told[i]) \/ told'[i] = h
      BY <1>4, <1>15, <2>2, AppendProperties
    <3>2. n + 1 <= n + 1
      BY <1>13
    <3> QED
      BY <1>3, <1>14, <3>1, <3>2
  <2> QED
    BY <1>10, <2>1, <2>2
<1>16. ASSUME NEW i \in DOMAIN told'
       PROVE  \E a \in DOMAIN Report' : a <= n1 + 1 /\ told'[i] = Report'[a]
  <2>1. PICK a \in DOMAIN Report : a <= n + 1 /\ told'[i] = Report[a]
    BY <1>15, <1>16
  <2>2. a <= n1 + 1
    BY <1>6, <1>13, <2>1
  <2> QED
    BY <1>5, <2>1, <2>2
<1>17. InOrder'
  <2>1. SUFFICES ASSUME NEW i \in DOMAIN told', NEW k \in DOMAIN told', i < k
                 PROVE  \E a, b \in DOMAIN Report : a <= b /\ told'[i] = Report[a] /\ told'[k] = Report[b]
    BY <1>5 DEF InOrder
  <2>2. CASE told' = told
    BY <1>3, <2>1, <2>2 DEF InOrder
  <2>3. CASE told' = Append(told, h)
    <3>1. /\ DOMAIN told' = 1 .. Len(told) + 1 /\ DOMAIN told = 1 .. Len(told) /\ Len(told) \in Nat
          /\ told'[Len(told) + 1] = h /\ \A j \in 1 .. Len(told) : told'[j] = told[j]
      BY <1>4, <2>3, AppendProperties
    <3>2. CASE k = Len(told) + 1
      <4>1. PICK a \in DOMAIN Report : a <= n + 1 /\ told'[i] = Report[a]
        BY <1>15
      <4> QED
        BY <1>14, <3>1, <3>2, <4>1
    <3>3. CASE k # Len(told) + 1
      <4>1. i \in DOMAIN told /\ k \in DOMAIN told /\ told'[i] = told[i] /\ told'[k] = told[k]
        BY <2>1, <3>1, <3>3
      <4> QED
        BY <1>3, <2>1, <4>1 DEF InOrder
    <3> QED
      BY <3>2, <3>3
  <2> QED
    BY <1>10, <2>2, <2>3
<1>18. ASSUME NEW m \in ToSet(Report') \ doubtful'
       PROVE  \E p \in Places(m)' : Places(m)' = {p}
  <2>1. \E p : Places(m) = {p}
    BY <1>3, <1>5, <1>11, <1>18
  <2>2. m \notin doubtful'
    BY <1>18
  <2>3. \E p : Places(m)' = {p}
    BY <2>1, <2>2, SendPlaces
  <2> QED
    BY <2>3
<1> QED
  BY <1>13, <1>16, <1>17, <1>18 DEF SentInv, n1

LEMMA SendRawKeeps ==
  ASSUME IInv, SendRaw
  PROVE  RunKept' /\ MailTypes'
<1>1. step = "send"
  BY DEF SendRaw
<1> QED
  BY <1>1, SendTypes, SendButtons, SendSent DEF RunKept

(***************************************************************************)
(* The stages, one by one                                                  *)
(***************************************************************************)

Kept == CacheTruthful /\ RunKept /\ MailTypes /\ DataTypes

LEMMA KeptIs == Kept' => IInv'
BY TypesAreNext DEF Kept, RunKept, IInv

LEMMA HasTypes ==
  ASSUME IInv
  PROVE  TypeOK /\ MailTypes /\ DataTypes /\ CacheTruthful
BY TypesAre DEF IInv

LEMMA ReadUniverseKeeps == ASSUME IInv, ReadUniverse PROVE Kept'
<1>1. /\ UNCHANGED <<today, trading, large, books, pool, ranked, signals, polls, summaries, down, rows>>
      /\ step = "universe" /\ (Fails \/ Goes("filter"))
  BY DEF ReadUniverse, market, batch
<1>2. RunKept' /\ MailTypes'
  BY <1>1, FailsKeeps, GoesKeeps DEF Stages
<1>3. CacheTruthful' /\ cache' \in [Weekdays -> Universes] /\ snap' \in Universes /\ hurt' \subseteq Weekdays \union Tickers
  BY ReadUniverseCaches
<1>4. DataTypes'
  BY <1>1, <1>3, HasTypes DEF DataTypes
<1> QED
  BY <1>2, <1>3, <1>4 DEF Kept

LEMMA FilterKeeps == ASSUME IInv, Filter PROVE Kept'
<1>1. /\ UNCHANGED <<today, trading, large, books, snap, ranked, signals, polls, summaries, down, rows>>
      /\ step = "filter" /\ (Fails \/ Goes("books")) /\ pool' = FilterUniverse(snap)
  BY DEF Filter, market, batch
<1>2. RunKept' /\ MailTypes'
  BY <1>1, FailsKeeps, GoesKeeps DEF Stages
<1>3. CacheTruthful' /\ cache' \in [Weekdays -> Universes] /\ hurt' \subseteq Weekdays \union Tickers
  BY FilterCaches
<1>4. pool' \subseteq Tickers
  BY <1>1, HasTypes DEF FilterUniverse, DataTypes
<1>5. DataTypes'
  BY <1>1, <1>3, <1>4, HasTypes DEF DataTypes
<1> QED
  BY <1>2, <1>3, <1>5 DEF Kept

LEMMA ReadBooksKeeps == ASSUME IInv, ReadBooks PROVE Kept'
<1>1. /\ UNCHANGED <<today, trading, large, cache, snap, pool, ranked, signals, polls, summaries, down, rows>>
      /\ step = "books" /\ Goes("rank")
  BY DEF ReadBooks, market, work, batch
<1>2. RunKept' /\ MailTypes'
  BY <1>1, GoesKeeps DEF Stages
<1>3. CacheTruthful' /\ books' \in [Tickers -> SUBSET Years] /\ hurt' \subseteq Weekdays \union Tickers
  BY ReadBooksCaches
<1>4. DataTypes'
  BY <1>1, <1>3, HasTypes DEF DataTypes
<1> QED
  BY <1>2, <1>3, <1>4 DEF Kept

LEMMA RankKeeps == ASSUME IInv, Rank PROVE Kept'
<1>1. /\ UNCHANGED <<today, trading, large, books, snap, pool, signals, polls, summaries, down, rows>>
      /\ step = "rank"
  BY DEF Rank, market, batch
<1>2. \/ Goes("judge") /\ \E score, streak : ranked' \in RankTopN(pool, score, streak)
      \/ Fails /\ ranked' = ranked
  <2>1. \/ Goes("judge") /\ ranked' \in Rankings
        \/ Fails /\ ranked' = ranked
    BY DEF Rank
  <2>2. ASSUME NEW r \in Rankings
        PROVE  \E score, streak : r \in RankTopN(pool, score, streak)
    <3>1. PICK made \in {RankTopN(pool, score, streak) : score \in Scores, streak \in Streaks} : r \in made
      BY DEF Rankings
    <3>2. PICK score \in Scores, streak \in Streaks : made = RankTopN(pool, score, streak)
      BY <3>1
    <3> QED
      BY <3>1, <3>2
  <2> QED
    BY <2>1, <2>2
<1>3. RunKept' /\ MailTypes'
  BY <1>1, <1>2, FailsKeeps, GoesKeeps DEF Stages
<1>4. CacheTruthful' /\ cache' \in [Weekdays -> Universes] /\ hurt' \subseteq Weekdays \union Tickers
  BY RankCaches
<1>5. pool \subseteq Tickers /\ ranked \in Seq(Tickers) /\ Len(ranked) <= ReportTopN /\ IsInjective(ranked)
  BY HasTypes DEF DataTypes
<1>6. ASSUME NEW score, NEW streak, ranked' \in RankTopN(pool, score, streak)
      PROVE  ranked' \in Seq(Tickers) /\ Len(ranked') <= ReportTopN /\ IsInjective(ranked')
  BY <1>5, <1>6, Ranking
<1>7. ranked' \in Seq(Tickers) /\ Len(ranked') <= ReportTopN /\ IsInjective(ranked')
  BY <1>2, <1>5, <1>6
<1>8. IsInjective(ranked)'
  BY <1>7 DEF IsInjective
<1>9. DataTypes'
  BY <1>1, <1>4, <1>7, <1>8, HasTypes DEF DataTypes
<1> QED
  BY <1>3, <1>4, <1>9 DEF Kept

LEMMA JudgeKeeps == ASSUME IInv, Judge PROVE Kept'
<1>1. /\ UNCHANGED <<today, trading, large, cache, books, hurt, ranked, polls, summaries, down, rows>>
      /\ snap' = Unread /\ pool' = {} /\ step = "judge" /\ Goes("create")
  BY DEF Judge, market, files, batch
<1>2. RunKept' /\ MailTypes'
  BY <1>1, GoesKeeps DEF Stages
<1>3. CacheTruthful'
  BY <1>1, CachesKept DEF files, IInv
<1>4. Unread \in Universes
  BY DEF Unread, Universes
<1>5. DataTypes'
  BY <1>1, <1>4, HasTypes DEF DataTypes
<1> QED
  BY <1>2, <1>3, <1>5 DEF Kept

(* The summaries, whatever Claude does.                                    *)
LEMMA SummaryKeeps ==
  ASSUME IInv, UNCHANGED <<today, market, files, work, down, rows>>, step \in Stages,
         polls' \in 0 .. Max({MaxPolls, MaxResults}),
         \/ \E next \in Stages : Goes(next) /\ UNCHANGED summaries
         \/ \E good \in SUBSET ToSet(ranked) :
              Summarised([t \in ToSet(ranked) |-> IF t \in good THEN signals[t] ELSE FallbackForAll[t]])
  PROVE  Kept'
<1>1. UNCHANGED <<today, trading, large, cache, books, hurt, snap, pool, ranked, signals, down, rows>>
  BY DEF market, files, work
<1>2. CacheTruthful'
  BY <1>1, CachesKept DEF files, IInv
<1>3. ASSUME NEW good \in SUBSET ToSet(ranked),
             Summarised([t \in ToSet(ranked) |-> IF t \in good THEN signals[t] ELSE FallbackForAll[t]])
      PROVE  RunKept' /\ MailTypes' /\ DOMAIN summaries' \subseteq Tickers
  <2> DEFINE made == [t \in ToSet(ranked) |-> IF t \in good THEN signals[t] ELSE FallbackForAll[t]]
  <2>1. DOMAIN made = ToSet(ranked) /\ \A t \in ToSet(ranked) : made[t] = signals[t]
    BY DEF FallbackForAll
  <2>2. Summarised(made)
    BY <1>3
  <2> HIDE DEF made
  <2> QED
    BY <1>1, <2>1, <2>2, SummarisedKeeps
<1>4. RunKept' /\ MailTypes' /\ DOMAIN summaries' \subseteq Tickers
  <2>1. ASSUME NEW next \in Stages, Goes(next), UNCHANGED summaries
        PROVE  RunKept' /\ MailTypes' /\ DOMAIN summaries' \subseteq Tickers
    BY <1>1, <2>1, GoesKeeps, HasTypes DEF DataTypes
  <2> QED
    BY <1>3, <2>1
<1>5. IsInjective(ranked)'
  BY <1>1, HasTypes DEF DataTypes, IsInjective
<1>6. DataTypes'
  BY <1>1, <1>4, <1>5, HasTypes DEF DataTypes
<1> QED
  BY <1>2, <1>4, <1>6 DEF Kept

LEMMA AllFallback ==
  ASSUME Summarised(FallbackForAll)
  PROVE  \E good \in SUBSET ToSet(ranked) :
           Summarised([t \in ToSet(ranked) |-> IF t \in good THEN signals[t] ELSE FallbackForAll[t]])
<1>1. [t \in ToSet(ranked) |-> IF t \in {} THEN signals[t] ELSE FallbackForAll[t]] = FallbackForAll
  BY DEF FallbackForAll
<1>2. Summarised([t \in ToSet(ranked) |-> IF t \in {} THEN signals[t] ELSE FallbackForAll[t]])
  BY <1>1
<1> WITNESS {} \in SUBSET ToSet(ranked)
<1> QED
  BY <1>2

LEMMA CreateBatchKeeps == ASSUME IInv, CreateBatch PROVE Kept'
<1>1. UNCHANGED <<today, market, files, work, down, rows>> /\ step \in Stages
  BY DEF CreateBatch, Stages
<1>2. polls' \in 0 .. Max({MaxPolls, MaxResults})
  BY Polls DEF CreateBatch
<1>3. \/ \E next \in Stages : Goes(next) /\ UNCHANGED summaries
      \/ Summarised(FallbackForAll)
  BY DEF CreateBatch, Stages
<1> QED
  BY <1>1, <1>2, <1>3, AllFallback, SummaryKeeps

LEMMA PollKeeps == ASSUME IInv, Poll PROVE Kept'
<1>1. UNCHANGED <<today, market, files, work, down, rows>> /\ step \in Stages
  BY DEF Poll, Stages
<1>2. polls' \in 0 .. Max({MaxPolls, MaxResults})
  <2>1. polls \in 0 .. Max({MaxPolls, MaxResults}) /\ MaxPolls \in Nat
    BY HasTypes, Constants DEF DataTypes
  <2>2. polls' = 0 \/ (polls < MaxPolls /\ polls' = polls + 1) \/ polls' = polls
    BY DEF Poll
  <2> QED
    BY <2>1, <2>2, Polls
<1>3. \/ \E next \in Stages : Goes(next) /\ UNCHANGED summaries
      \/ Summarised(FallbackForAll)
  BY DEF Poll, Stages
<1> QED
  BY <1>1, <1>2, <1>3, AllFallback, SummaryKeeps

LEMMA FetchResultsKeeps == ASSUME IInv, FetchResults PROVE Kept'
<1>1. UNCHANGED <<today, market, files, work, down, rows>> /\ step \in Stages
  BY DEF FetchResults, Stages
<1>2. polls' \in 0 .. Max({MaxPolls, MaxResults})
  <2>1. polls \in 0 .. Max({MaxPolls, MaxResults}) /\ MaxResults \in Nat
    BY HasTypes, Constants DEF DataTypes
  <2>2. (polls + 1 < MaxResults /\ polls' = polls + 1) \/ polls' = polls
    BY DEF FetchResults
  <2> QED
    BY <2>1, <2>2, Polls
<1>3. \/ \E next \in Stages : Goes(next) /\ UNCHANGED summaries
      \/ Summarised(FallbackForAll)
      \/ \E good \in SUBSET ToSet(ranked) :
           Summarised([t \in ToSet(ranked) |-> IF t \in good THEN signals[t] ELSE FallbackForAll[t]])
  BY DEF FetchResults, Stages
<1> QED
  BY <1>1, <1>2, <1>3, AllFallback, SummaryKeeps

(***************************************************************************)
(* The other actions                                                       *)
(***************************************************************************)

LEMMA SendRawKept == ASSUME IInv, SendRaw PROVE Kept'
<1>1. UNCHANGED <<today, trading, large, cache, books, hurt, snap, pool, ranked, signals, polls, summaries, down, rows>>
  BY DEF SendRaw, market, files, work, batch
<1>2. CacheTruthful'
  BY <1>1, CachesKept DEF files, IInv
<1>3. IsInjective(ranked)'
  BY <1>1, HasTypes DEF DataTypes, IsInjective
<1>4. DataTypes'
  BY <1>1, <1>3, HasTypes DEF DataTypes
<1> QED
  BY <1>2, <1>4, SendRawKeeps DEF Kept

LEMMA FireKeeps == ASSUME IInv, Fire PROVE Kept'
<1>1. /\ UNCHANGED <<trading, large, cache, books, hurt, snap, pool, ranked, signals, polls, summaries, down, rows>>
      /\ UNCHANGED <<outbox, tries, dlq, dropped, doubtful, lines>>
      /\ step = "idle" /\ today < LastDay /\ today' = today + 1 /\ step' = "universe" /\ attempt' = 1
      /\ told' = <<>> /\ outcome' = "none"
  BY DEF Fire, market, files, work, batch
<1>2. MailTypes /\ DataTypes /\ CacheTruthful
  BY HasTypes
<1>3. CacheTruthful'
  BY <1>1, CachesKept DEF files, IInv
<1>4. today \in 0 .. LastDay /\ LastDay \in Nat /\ Attempts \in Nat \ {0}
  BY <1>2, Constants DEF DataTypes, Weekdays
<1>5. today' \in Weekdays
  BY <1>1, <1>4 DEF Weekdays
<1>6. IsInjective(ranked)'
  BY <1>1, <1>2 DEF DataTypes, IsInjective
<1>7. DataTypes'
  BY <1>1, <1>2, <1>5, <1>6 DEF DataTypes
<1>8. attempt' \in 0 .. Attempts /\ <<>> \in Seq(Letters)
  BY <1>1, <1>4
<1>9. MailTypes'
  BY <1>1, <1>2, <1>8 DEF MailTypes, Stages
<1>10. outbox = <<>> /\ 0 \in trading
  BY <1>1 DEF IInv, RunInv
<1>11. ToSet(told') = {} /\ ToSet(outbox') = {}
  BY <1>1, <1>10 DEF ToSet
<1>12. RunInv' /\ ButtonsWork' /\ ButtonsWillWork'
  BY <1>1, <1>10, <1>11 DEF RunInv, ButtonsWork, ButtonsWillWork
<1>13. OldLetters'
  <2>1. \A m \in ToSet(dlq) \union dropped : m[1] <= today /\ m \in Letters
    BY <1>2 DEF IInv, OldLetters, MailTypes, ToSet
  <2>2. \A m \in Letters : m[1] \in Nat
    BY DEF Letters, Weekdays
  <2>3. \A m \in ToSet(dlq) \union dropped : m[1] <= today + 1 /\ m[1] < today + 1
    BY <1>4, <2>1, <2>2
  <2> QED
    BY <1>1, <1>11, <2>3 DEF OldLetters
<1>14. SentInv'
  BY <1>1 DEF SentInv, Reporting
<1> QED
  BY <1>3, <1>7, <1>9, <1>12, <1>13, <1>14 DEF Kept, RunKept

LEMMA RestartKeeps == ASSUME IInv, Restart PROVE Kept'
<1>1. /\ UNCHANGED <<trading, large, cache, books, hurt, down, rows, lines>>
      /\ step' = "idle" /\ attempt' = 0 /\ outcome' = "cut" /\ today' \in Weekdays
      /\ snap' = Unread /\ pool' = {} /\ ranked' = <<>> /\ polls' = 0 /\ tries' = 0 /\ summaries' = <<>>
      /\ outbox' = <<>> /\ told' = <<>> /\ dlq' = <<>> /\ dropped' = {} /\ doubtful' = {}
  BY DEF Restart, market, files, NoSummaries
<1>2. MailTypes /\ DataTypes /\ CacheTruthful /\ 0 \in trading
  BY HasTypes DEF IInv, RunInv
<1>3. CacheTruthful'
  BY <1>1, CachesKept DEF files, IInv
<1>4. IsInjective(ranked)' /\ ranked' \in Seq(Tickers) /\ Len(ranked') = 0 /\ ReportTopN \in Nat
  BY <1>1, Constants DEF IsInjective
<1>5. Unread \in Universes
  BY DEF Unread, Universes
<1>6. DOMAIN summaries' = {}
  BY <1>1
<1>7. DataTypes'
  BY <1>1, <1>2, <1>4, <1>5, <1>6, Polls DEF DataTypes
<1>8. Retries \in Nat \ {0} /\ DlqMax \in Nat /\ Attempts \in Nat /\ <<>> \in Seq(Letters) /\ Len(<<>>) = 0
  BY Constants
<1>9. MailTypes'
  BY <1>1, <1>2, <1>8 DEF MailTypes
<1>10. ToSet(told') = {} /\ ToSet(outbox') = {} /\ ToSet(dlq') = {}
  BY <1>1 DEF ToSet
<1>11. RunInv' /\ ButtonsWork' /\ ButtonsWillWork' /\ OldLetters'
  BY <1>1, <1>2, <1>10 DEF RunInv, ButtonsWork, ButtonsWillWork, OldLetters
<1>12. SentInv'
  BY <1>1 DEF SentInv, Reporting
<1> QED
  BY <1>3, <1>7, <1>9, <1>11, <1>12 DEF Kept, RunKept

(* A row, an outage, or nothing: the run is where it was.                  *)
LEMMA AsideKeeps ==
  ASSUME IInv, UNCHANGED <<today, market, files, step, attempt, work, batch, mail>>,
         down' \in BOOLEAN, rows' \in [Tickers -> {"none", "scored", "bare"}]
  PROVE  Kept'
<1>1. UNCHANGED <<today, trading, large, cache, books, hurt, snap, pool, ranked, signals, polls, summaries>>
  BY DEF market, files, work, batch
<1>2. RunKept' /\ MailTypes'
  BY <1>1, RunStays
<1>3. CacheTruthful'
  BY <1>1, CachesKept DEF files, IInv
<1>4. IsInjective(ranked)'
  BY <1>1, HasTypes DEF DataTypes, IsInjective
<1>5. DataTypes'
  BY <1>1, <1>4, HasTypes DEF DataTypes
<1> QED
  BY <1>2, <1>3, <1>5 DEF Kept

LEMMA WatchlistAddKeeps == ASSUME IInv, NEW t \in Tickers, WatchlistAdd(t) PROVE Kept'
<1>1. UNCHANGED <<today, market, files, step, attempt, work, batch, mail>> /\ down' = down
  BY DEF WatchlistAdd
<1>2. down \in BOOLEAN /\ rows \in [Tickers -> {"none", "scored", "bare"}]
  BY HasTypes DEF DataTypes
<1>3. rows' \in [Tickers -> {"none", "scored", "bare"}]
  BY <1>2 DEF WatchlistAdd
<1>4. down' \in BOOLEAN
  BY <1>1, <1>2
<1> QED
  BY <1>1, <1>3, <1>4, AsideKeeps

LEMMA OutageKeeps == ASSUME IInv, Outage \/ Heal \/ UNCHANGED vars PROVE Kept'
<1>1. UNCHANGED <<today, market, files, step, attempt, work, batch, mail>>
  BY DEF Outage, Heal, vars
<1>2. down \in BOOLEAN /\ rows \in [Tickers -> {"none", "scored", "bare"}]
  BY HasTypes DEF DataTypes
<1>3. down' \in BOOLEAN /\ rows' = rows
  BY <1>2 DEF Outage, Heal, vars
<1> QED
  BY <1>1, <1>2, <1>3, AsideKeeps

(***************************************************************************)
(* Theorems                                                                *)
(***************************************************************************)

LEMMA InitInv == Init => IInv
<1> SUFFICES ASSUME Init PROVE IInv
  OBVIOUS
<1>1. CacheTruthful
  BY DEF Init, CacheTruthful
<1>2. today \in Weekdays /\ trading \subseteq Weekdays /\ 0 \in trading /\ large \subseteq Tickers
  BY Constants DEF Init, Weekdays
<1>3. Unread \in Universes
  BY DEF Unread, Universes
<1>4. IsInjective(ranked) /\ ranked \in Seq(Tickers) /\ Len(ranked) = 0 /\ ReportTopN \in Nat
  BY Constants DEF Init, IsInjective
<1>5. DataTypes
  <2>1. cache \in [Weekdays -> Universes]
    BY <1>3 DEF Init
  <2>2. polls \in 0 .. Max({MaxPolls, MaxResults})
    BY Polls DEF Init
  <2>3. DOMAIN summaries \subseteq Tickers
    BY DEF Init, NoSummaries
  <2>4. snap \in Universes /\ pool \subseteq Tickers /\ hurt \subseteq Weekdays \union Tickers /\ down \in BOOLEAN
    BY <1>3 DEF Init
  <2>5. books \in [Tickers -> SUBSET Years] /\ rows \in [Tickers -> {"none", "scored", "bare"}]
    BY DEF Init
  <2> QED
    BY <1>2, <1>4, <2>1, <2>2, <2>3, <2>4, <2>5 DEF DataTypes
<1>6. Retries \in Nat \ {0} /\ DlqMax \in Nat /\ Attempts \in Nat /\ <<>> \in Seq(Letters) /\ Len(<<>>) = 0
  BY Constants
<1>7. MailTypes
  BY <1>6 DEF MailTypes, Init
<1>8. ToSet(told) = {} /\ ToSet(outbox) = {} /\ ToSet(dlq) = {} /\ dropped = {}
  BY DEF ToSet, Init
<1>9. ButtonsWork /\ ButtonsWillWork /\ OldLetters
  BY <1>8 DEF ButtonsWork, ButtonsWillWork, OldLetters
<1>10. RunInv
  BY <1>2, <1>8 DEF RunInv, Init
<1>11. SentInv
  BY DEF SentInv, Reporting, Init
<1> QED
  BY <1>1, <1>5, <1>7, <1>9, <1>10, <1>11, TypesAre DEF IInv

LEMMA NextInv == IInv /\ [Next]_vars => IInv'
<1> SUFFICES ASSUME IInv, [Next]_vars PROVE IInv'
  OBVIOUS
<1>1. CASE ReadUniverse
  BY <1>1, ReadUniverseKeeps, KeptIs
<1>2. CASE Filter
  BY <1>2, FilterKeeps, KeptIs
<1>3. CASE ReadBooks
  BY <1>3, ReadBooksKeeps, KeptIs
<1>4. CASE Rank
  BY <1>4, RankKeeps, KeptIs
<1>5. CASE Judge
  BY <1>5, JudgeKeeps, KeptIs
<1>6. CASE CreateBatch
  BY <1>6, CreateBatchKeeps, KeptIs
<1>7. CASE Poll
  BY <1>7, PollKeeps, KeptIs
<1>8. CASE FetchResults
  BY <1>8, FetchResultsKeeps, KeptIs
<1>9. CASE SendRaw
  BY <1>9, SendRawKept, KeptIs
<1>10. CASE Fire
  BY <1>10, FireKeeps, KeptIs
<1>11. CASE Restart
  BY <1>11, RestartKeeps, KeptIs
<1>12. CASE \E t \in Tickers : WatchlistAdd(t)
  BY <1>12, WatchlistAddKeeps, KeptIs
<1>13. CASE Outage \/ Heal \/ UNCHANGED vars
  BY <1>13, OutageKeeps, KeptIs
<1> QED
  BY <1>1, <1>2, <1>3, <1>4, <1>5, <1>6, <1>7, <1>8, <1>9, <1>10, <1>11, <1>12, <1>13 DEF Next, Job

(* The invariant behind the safety of the screener holds throughout.       *)
THEOREM Invariance == Spec => []IInv
BY InitInv, NextInv, PTL DEF Spec

(* All state of the job, its caches, messages and buttons keeps its type;  *)
(* the report and the dead letters of _send_raw keep their bounds.         *)
THEOREM Typing == Spec => []TypeOK
<1>1. IInv => TypeOK
  BY DEF IInv
<1> QED
  BY <1>1, Invariance, PTL

(* What fetch_universe and fetch_financials leave on disk is right, unless *)
(* a read of it failed.                                                    *)
THEOREM CachesAreTrue == Spec => []CacheTruthful
<1>1. IInv => CacheTruthful
  BY DEF IInv
<1> QED
  BY <1>1, Invariance, PTL

(* No message of a report is lost or told twice by _send_raw and the run,  *)
(* and they come in order.                                                 *)
THEOREM EachMessageOnce == Spec => []ReportAccounted
<1>1. IInv => ReportAccounted
  <2>1. SUFFICES ASSUME IInv, Reporting
                 PROVE  InOrder /\ \A m \in ToSet(Report) \ doubtful : Cardinality(Places(m)) = 1
    BY DEF ReportAccounted
  <2>2. InOrder /\ \A m \in ToSet(Report) \ doubtful : \E p \in Places(m) : Places(m) = {p}
    BY <2>1 DEF IInv, SentInv
  <2>3. ASSUME NEW m \in ToSet(Report) \ doubtful PROVE Cardinality(Places(m)) = 1
    <3>1. PICK p : Places(m) = {p}
      BY <2>2, <2>3
    <3> QED
      BY <3>1, FS_Singleton
  <2> QED
    BY <2>2, <2>3
<1> QED
  BY <1>1, Invariance, PTL

(* The buttons of a message that arrived find the summary of its stock.    *)
THEOREM ButtonsFind == Spec => []ButtonsWork
<1>1. IInv => ButtonsWork
  BY DEF IInv
<1> QED
  BY <1>1, Invariance, PTL

(***************************************************************************)
(* Streaks                                                                 *)
(***************************************************************************)

(* Every bounded set of numbers with something in it has a greatest, and   *)
(* Max finds it.                                                           *)
LEMMA MaxIs ==
  ASSUME NEW d \in Nat, NEW S, S \subseteq 0 .. d, NEW m \in S, \A x \in S : x <= m
  PROVE  Max(S) = m
<1>1. Max(S) \in S /\ \A x \in S : Max(S) >= x
  BY MaxOf
<1> DEFINE x == Max(S)
<1>2. x \in S /\ x >= m
  BY <1>1
<1> HIDE DEF x
<1>3. x <= m /\ x \in Int /\ m \in Int
  BY <1>2
<1>4. x = m
  BY <1>2, <1>3
<1> QED
  BY <1>4 DEF x

(* The stock was bought on each of the last n days up to one.              *)
Bought(bought, from, t, n) == \A d \in from - n + 1 .. from : d \in DOMAIN bought /\ t \in bought[d]

LEMMA BoughtSplits ==
  ASSUME NEW bought, NEW from \in Int, NEW t, NEW i \in Nat \ {0}
  PROVE  Bought(bought, from, t, i) <=>
           /\ Bought(bought, from, t, i - 1)
           /\ from - i + 1 \in DOMAIN bought /\ t \in bought[from - i + 1]
<1>1. from - i + 1 .. from = (from - (i - 1) + 1 .. from) \union {from - i + 1}
  OBVIOUS
<1> QED
  BY <1>1 DEF Bought

LEMMA BoughtNone ==
  ASSUME NEW bought, NEW from \in Int, NEW t
  PROVE  Bought(bought, from, t, 0)
BY DEF Bought

LEMMA BoughtFewer ==
  ASSUME NEW bought, NEW from \in Int, NEW t, NEW i \in Nat, NEW k \in Nat, k <= i, Bought(bought, from, t, i)
  PROVE  Bought(bought, from, t, k)
<1>1. from - k + 1 .. from \subseteq from - i + 1 .. from
  OBVIOUS
<1> QED
  BY <1>1 DEF Bought

(* The longest run of such days among the last i.                          *)
Longest(bought, from, t, i) == Max({n \in 0 .. i : Bought(bought, from, t, n)})

LEMMA LongestIs ==
  ASSUME NEW bought, NEW from \in Int, NEW t, NEW i \in Nat
  PROVE  /\ Longest(bought, from, t, 0) = 0
         /\ i # 0 => Longest(bought, from, t, i) = Longest(bought, from, t, i - 1) + (IF Bought(bought, from, t, i) THEN 1 ELSE 0)
         /\ Longest(bought, from, t, i) \in Int
<1> DEFINE S(n) == {k \in 0 .. n : Bought(bought, from, t, k)}
<1>1. \A n \in Nat : 0 \in S(n) /\ S(n) \subseteq 0 .. n
  BY BoughtNone
<1>2. \A n \in Nat : Max(S(n)) \in S(n) /\ \A x \in S(n) : Max(S(n)) >= x
  BY <1>1, MaxOf
<1>3. S(0) = {0}
  BY <1>1
<1>4. Longest(bought, from, t, 0) = 0
  BY <1>2, <1>3 DEF Longest
<1>5. ASSUME i # 0, Bought(bought, from, t, i)
      PROVE  Longest(bought, from, t, i) = i /\ Longest(bought, from, t, i - 1) = i - 1
  <2>1. Bought(bought, from, t, i - 1)
    BY <1>5, BoughtFewer
  <2>2. i \in S(i) /\ \A x \in S(i) : x <= i
    BY <1>5
  <2>3. i - 1 \in S(i - 1) /\ \A x \in S(i - 1) : x <= i - 1
    BY <1>5, <2>1
  <2>4. Max(S(i)) = i
    BY <1>1, <2>2, MaxIs
  <2>5. i - 1 \in Nat
    BY <1>5
  <2>6. Max(S(i - 1)) = i - 1
    <3> DEFINE j == i - 1
    <3>1. j \in Nat /\ j \in S(j) /\ \A x \in S(j) : x <= j
      BY <2>3, <2>5
    <3> HIDE DEF j
    <3>2. Max(S(j)) = j
      BY <1>1, <3>1, MaxIs
    <3> QED
      BY <3>2 DEF j
  <2> QED
    BY <2>4, <2>6 DEF Longest
<1>6. ASSUME i # 0, ~Bought(bought, from, t, i)
      PROVE  S(i) = S(i - 1)
  BY <1>6
<1>7. Longest(bought, from, t, i) \in Int
  BY <1>1, <1>2 DEF Longest
<1>8. i # 0 => Longest(bought, from, t, i - 1) \in Int
  <2>1. i # 0 => i - 1 \in Nat
    OBVIOUS
  <2>2. \A n \in Nat : Max(S(n)) \in Int
    BY <1>1, <1>2
  <2> QED
    BY <2>1, <2>2 DEF Longest
<1>9. CASE i # 0 /\ Bought(bought, from, t, i)
  BY <1>4, <1>5, <1>7, <1>9
<1>10. CASE i # 0 /\ ~Bought(bought, from, t, i)
  <2>1. Longest(bought, from, t, i) = Longest(bought, from, t, i - 1)
    BY <1>6, <1>10 DEF Longest
  <2> QED
    BY <1>4, <1>7, <1>8, <1>10, <2>1
<1> QED
  BY <1>4, <1>7, <1>9, <1>10

(* The walk of foreign_institution_streak, as an equation, has the longest *)
(* runs as its one solution: a first day on which another differed would   *)
(* have to follow from the day before.                                     *)
LEMMA WalkIs ==
  ASSUME NEW bought, NEW from \in Int, NEW t \in Tickers
  PROVE  Streak(bought, from)[t] = Longest(bought, from, t, MaxStreak)
<1> DEFINE Day(i) == from - i + 1
           Still(s, i) == IF Day(i) \in DOMAIN bought THEN s.active \intersect bought[Day(i)] ELSE {}
           Walked(s, i) == [active |-> Still(s, i),
                            count |-> [u \in Tickers |-> s.count[u] + (IF u \in Still(s, i) THEN 1 ELSE 0)]]
           Begin == [active |-> Tickers, count |-> [u \in Tickers |-> 0]]
           F(f) == [i \in 0 .. MaxStreak |-> IF i = 0 THEN Begin ELSE Walked(f[i - 1], i)]
           walk == CHOOSE f : f = F(f)
           Here(i) == [active |-> {u \in Tickers : Bought(bought, from, u, i)},
                       count |-> [u \in Tickers |-> Longest(bought, from, u, i)]]
           W == [i \in 0 .. MaxStreak |-> Here(i)]
<1>1. Streak(bought, from) = walk[MaxStreak].count
  BY DEF Streak
<1>2. MaxStreak \in Nat
  BY Constants
<1>3. ASSUME NEW i \in 0 .. MaxStreak, i # 0 PROVE Walked(Here(i - 1), i) = Here(i)
  <2>1. i \in Nat \ {0}
    BY <1>2, <1>3
  <2>2. ASSUME NEW u \in Tickers
        PROVE  u \in Still(Here(i - 1), i) <=> Bought(bought, from, u, i)
    BY <2>1, BoughtSplits
  <2>3. Still(Here(i - 1), i) = {u \in Tickers : Bought(bought, from, u, i)}
    <3>1. Still(Here(i - 1), i) \subseteq Tickers
      OBVIOUS
    <3> HIDE DEF Still, Here
    <3> QED
      BY <2>2, <3>1
  <2>4. ASSUME NEW u \in Tickers
        PROVE  Longest(bought, from, u, i) =
                 Here(i - 1).count[u] + (IF u \in Still(Here(i - 1), i) THEN 1 ELSE 0)
    <3>1. Longest(bought, from, u, i) = Longest(bought, from, u, i - 1) + (IF Bought(bought, from, u, i) THEN 1 ELSE 0)
      BY <2>1, LongestIs
    <3>2. Here(i - 1).count[u] = Longest(bought, from, u, i - 1)
      OBVIOUS
    <3> HIDE DEF Here, Still
    <3> QED
      BY <2>2, <3>1, <3>2
  <2>5. [u \in Tickers |-> Here(i - 1).count[u] + (IF u \in Still(Here(i - 1), i) THEN 1 ELSE 0)]
          = [u \in Tickers |-> Longest(bought, from, u, i)]
    <3> HIDE DEF Here, Still
    <3> QED
      BY <2>4
  <2> HIDE DEF Still
  <2> QED
    BY <2>3, <2>5
<1>4. Begin = Here(0)
  BY BoughtNone, LongestIs
<1> HIDE DEF Walked, Begin, Here
<1>5. \A i \in 0 .. MaxStreak : i # 0 => i - 1 \in 0 .. MaxStreak
  BY <1>2
<1>6. W = F(W)
  BY <1>3, <1>4, <1>5
<1> HIDE DEF W
<1>7. walk = F(walk)
  BY <1>6
<1> HIDE DEF walk
<1>8. \A i \in 0 .. MaxStreak : walk[i] = Here(i)
  <2> DEFINE Wrong == {i \in 0 .. MaxStreak : walk[i] # Here(i)}
  <2>1. SUFFICES ASSUME Wrong # {} PROVE FALSE
    OBVIOUS
  <2>2. PICK i \in Wrong : \A k \in Wrong : i <= k
    <3>1. Wrong \subseteq Nat
      BY <1>2
    <3> HIDE DEF Wrong
    <3> QED
      BY <2>1, <3>1, LeastOf
  <2>3. walk[i] = IF i = 0 THEN Begin ELSE Walked(walk[i - 1], i)
    BY <1>7, <2>2
  <2>4. CASE i = 0
    BY <1>4, <2>2, <2>3, <2>4
  <2>5. CASE i # 0
    <3>1. i - 1 \in 0 .. MaxStreak /\ ~(i <= i - 1)
      BY <1>2, <2>2, <2>5
    <3>2. walk[i - 1] = Here(i - 1)
      BY <2>2, <3>1
    <3> QED
      BY <1>3, <2>2, <2>3, <2>5, <3>2
  <2> QED
    BY <2>4, <2>5
<1>9. walk[MaxStreak] = Here(MaxStreak)
  BY <1>2, <1>8
<1> QED
  BY <1>1, <1>9 DEF Here

LEMMA StreaksHold == TypeOK => StreakTruthful
<1> SUFFICES ASSUME TypeOK, NEW bought \in [trading -> SUBSET Tickers], NEW from \in Weekdays, NEW t \in Tickers
             PROVE  Streak(bought, from)[t] =
                      Max({n \in 0 .. MaxStreak : \A d \in from - n + 1 .. from : d \in trading /\ t \in bought[d]})
  BY DEF StreakTruthful
<1>1. from \in Int
  BY DEF Weekdays
<1>2. DOMAIN bought = trading
  OBVIOUS
<1>3. Longest(bought, from, t, MaxStreak) =
        Max({n \in 0 .. MaxStreak : \A d \in from - n + 1 .. from : d \in trading /\ t \in bought[d]})
  BY <1>2 DEF Longest, Bought
<1> QED
  BY <1>1, <1>3, WalkIs

(***************************************************************************)
(* Scores                                                                  *)
(***************************************************************************)

(* Among finitely many stocks one has the greatest figure: a smallest set  *)
(* without one would lose that by losing a stock.                          *)
LEMMA LargestOf ==
  ASSUME NEW S, IsFiniteSet(S), S # {}, NEW h, \A x \in S : h[x] \in Nat
  PROVE  \E m \in S : \A x \in S : h[x] <= h[m]
<1> DEFINE Has(T) == \E m \in T : \A x \in T : h[x] <= h[m]
           Bad == {n \in Nat : \E T : IsFiniteSet(T) /\ T \subseteq S /\ T # {} /\ Cardinality(T) = n /\ ~Has(T)}
<1>1. SUFFICES ASSUME ~Has(S) PROVE FALSE
  OBVIOUS
<1>2. Cardinality(S) \in Bad
  BY <1>1, FS_CardinalityType
<1>3. PICK n \in Bad : \A k \in Bad : n <= k
  <2>1. Bad \subseteq Nat /\ Bad # {}
    BY <1>2
  <2> HIDE DEF Bad
  <2> QED
    BY <2>1, LeastOf
<1>4. PICK T : IsFiniteSet(T) /\ T \subseteq S /\ T # {} /\ Cardinality(T) = n /\ ~Has(T)
  BY <1>3
<1>5. PICK x \in T : TRUE
  BY <1>4
<1> DEFINE R == T \ {x}
<1>6. IsFiniteSet(R) /\ Cardinality(R) = n - 1 /\ R \subseteq S
  BY <1>4, <1>5, FS_RemoveElement
<1>7. n - 1 \in Nat
  BY <1>6, FS_CardinalityType
<1>8. h[x] \in Nat /\ n \in Nat
  BY <1>3, <1>4, <1>5
<1>9. CASE R = {}
  <2>1. T = {x}
    BY <1>5, <1>9
  <2> QED
    BY <1>4, <1>8, <2>1
<1>10. CASE R # {}
  <2>1. n - 1 \notin Bad
    BY <1>3, <1>8
  <2>2. Has(R)
    BY <1>6, <1>7, <1>10, <2>1
  <2>3. PICK m \in R : \A y \in R : h[y] <= h[m]
    BY <2>2
  <2>4. h[m] \in Nat /\ \A y \in T : h[y] \in Nat /\ (y = x \/ h[y] <= h[m])
    BY <1>4, <1>6, <2>3
  <2>5. CASE h[x] <= h[m]
    BY <1>4, <2>3, <2>4, <2>5
  <2>6. CASE h[m] < h[x]
    <3>1. \A y \in T : h[y] <= h[x]
      BY <1>8, <2>4, <2>6
    <3> QED
      BY <1>4, <1>5, <3>1
  <2> QED
    BY <1>8, <2>4, <2>5, <2>6
<1> QED
  BY <1>9, <1>10

LEMMA LeastFound ==
  ASSUME NEW S, S \subseteq Nat, S # {}
  PROVE  Min(S) \in S
<1>1. \E x \in S : \A y \in S : x <= y
  BY LeastOf
<1> QED
  BY <1>1 DEF Min

(* What takes the place of a missing figure is a number.                   *)
LEMMA DoubledIs ==
  ASSUME NEW D, IsFiniteSet(D), NEW figure \in [D -> Nat \union {Missing}], NEW known \in D, figure[known] # Missing
  PROVE  /\ Doubled(figure) \in [D -> Int]
         /\ \A t \in D : figure[t] # Missing => Doubled(figure)[t] = 2 * figure[t]
<1> DEFINE there == {t \in DOMAIN figure : figure[t] # Missing}
           n == Cardinality(there)
           UpTo(t) == Cardinality({u \in there : figure[u] <= figure[t]})
           Reach(k) == {figure[t] : t \in {u \in there : UpTo(u) >= k}}
           median == Min(Reach((n + 1) \div 2)) + Min(Reach(n \div 2 + 1))
<1>1. there \subseteq D /\ IsFiniteSet(there) /\ known \in there /\ \A t \in there : figure[t] \in Nat
  BY FS_Subset
<1>2. n \in Nat /\ n # 0
  <2>1. n \in Nat
    BY <1>1, FS_CardinalityType
  <2>2. n # 0
    BY <1>1, FS_EmptySet
  <2> QED
    BY <2>1, <2>2
<1>5. PICK top \in there : \A t \in there : figure[t] <= figure[top]
  <2> HIDE DEF there
  <2> QED
    BY <1>1, LargestOf
<1>6. UpTo(top) = n
  <2>1. {u \in there : figure[u] <= figure[top]} = there
    BY <1>5
  <2> QED
    BY <2>1
<1>7. ASSUME NEW k \in Int, k <= n PROVE Min(Reach(k)) \in Nat
  <2>1. figure[top] \in Reach(k)
    <3>1. UpTo(top) >= k
      BY <1>2, <1>6, <1>7
    <3> QED
      BY <1>5, <3>1
  <2>2. Reach(k) \subseteq Nat
    BY <1>1
  <2> HIDE DEF Reach
  <2> QED
    BY <2>1, <2>2, LeastFound
<1>8. median \in Int
  <2> HIDE DEF n, Reach
  <2>1. (n + 1) \div 2 \in Int /\ (n + 1) \div 2 <= n /\ n \div 2 + 1 \in Int /\ n \div 2 + 1 <= n
    BY <1>2
  <2> QED
    BY <1>7, <2>1
<1>9. Doubled(figure) = [t \in D |-> IF figure[t] = Missing THEN median ELSE 2 * figure[t]]
  BY DEF Doubled
<1> HIDE DEF median
<1>10. \A t \in D : figure[t] # Missing => figure[t] \in Nat /\ 2 * figure[t] \in Int
  OBVIOUS
<1> QED
  BY <1>8, <1>9, <1>10

LEMMA DivIs ==
  ASSUME NEW a \in Int, NEW d \in Nat \ {0}
  PROVE  a \div d \in Int /\ d * (a \div d) <= a /\ a < d * (a \div d) + d
OBVIOUS

LEMMA TimesMonotone ==
  ASSUME NEW d \in Nat \ {0}, NEW p \in Int, NEW q \in Int, p + 1 <= q
  PROVE  d * p + d <= d * q
OBVIOUS

LEMMA DivMonotone ==
  ASSUME NEW a \in Int, NEW b \in Int, NEW d \in Nat \ {0}, a <= b
  PROVE  a \div d <= b \div d
<1> DEFINE p == a \div d
           q == b \div d
<1>1. p \in Int /\ q \in Int /\ d * p <= a /\ b < d * q + d
  BY DivIs
<1> HIDE DEF p, q
<1>2. q + 1 <= p => d * q + d <= d * p
  BY <1>1, TimesMonotone
<1>3. d * p \in Int /\ d * q \in Int
  BY <1>1
<1>4. ~(q + 1 <= p)
  BY <1>1, <1>2, <1>3
<1> QED
  BY <1>1, <1>4 DEF p, q

(* Twice the mean rank of a stock, and its level.                          *)
Peers(values, sector, t) == {u \in DOMAIN values : sector[u] = sector[t]}
Below(values, sector, ascending, t) ==
  {u \in Peers(values, sector, t) : IF ascending THEN values[u] < values[t] ELSE values[u] > values[t]}
Equals(values, sector, t) == {u \in Peers(values, sector, t) : values[u] = values[t]}
Rank2(values, sector, ascending, t) ==
  2 * Cardinality(Below(values, sector, ascending, t)) + Cardinality(Equals(values, sector, t)) + 1

LEMMA LevelIs ==
  ASSUME NEW values, NEW sector, NEW ascending, NEW t
  PROVE  Level(values, sector, ascending, t) =
           (5 * Rank2(values, sector, ascending, t) + 2 * Cardinality(Peers(values, sector, t)) - 1)
             \div (2 * Cardinality(Peers(values, sector, t)))
BY DEF Level, Rank2, Below, Equals, Peers

LEMMA RankBounds ==
  ASSUME NEW D, IsFiniteSet(D), NEW values \in [D -> Int], NEW sector, NEW ascending \in BOOLEAN, NEW t \in D
  PROVE  LET N == Cardinality(Peers(values, sector, t))
             b == Cardinality(Below(values, sector, ascending, t))
             e == Cardinality(Equals(values, sector, t))
         IN  N \in Nat \ {0} /\ b \in Nat /\ e \in Nat \ {0} /\ b + e <= N
<1> DEFINE P == Peers(values, sector, t)
           B == Below(values, sector, ascending, t)
           E == Equals(values, sector, t)
<1>1. P \subseteq D /\ B \subseteq P /\ E \subseteq P /\ t \in P /\ t \in E
  BY DEF Peers, Below, Equals
<1>2. B \intersect E = {}
  BY DEF Peers, Below, Equals
<1> HIDE DEF P, B, E
<1>3. IsFiniteSet(P) /\ IsFiniteSet(B) /\ IsFiniteSet(E)
  <2>1. IsFiniteSet(P)
    BY <1>1, FS_Subset
  <2> QED
    BY <1>1, <2>1, FS_Subset
<1>4. Cardinality(P) \in Nat /\ Cardinality(B) \in Nat /\ Cardinality(E) \in Nat
  BY <1>3, FS_CardinalityType
<1>5. Cardinality(P) # 0 /\ Cardinality(E) # 0
  BY <1>1, <1>3, FS_EmptySet
<1>6. Cardinality(B \union E) = Cardinality(B) + Cardinality(E) - Cardinality(B \intersect E)
  BY <1>3, FS_Union
<1>7. Cardinality(B \intersect E) = 0
  BY <1>2, FS_EmptySet
<1>8. Cardinality(B \union E) <= Cardinality(P)
  BY <1>1, <1>3, FS_Subset
<1>9. Cardinality(B) + Cardinality(E) <= Cardinality(P)
  BY <1>4, <1>6, <1>7, <1>8
<1> QED
  BY <1>4, <1>5, <1>9 DEF P, B, E

(* No level leaves 1 to 5.                                                 *)
LEMMA LevelBounds ==
  ASSUME NEW D, IsFiniteSet(D), NEW values \in [D -> Int], NEW sector, NEW ascending \in BOOLEAN, NEW t \in D
  PROVE  Level(values, sector, ascending, t) \in 1 .. 5
<1> DEFINE N == Cardinality(Peers(values, sector, t))
           b == Cardinality(Below(values, sector, ascending, t))
           e == Cardinality(Equals(values, sector, t))
           a == 5 * Rank2(values, sector, ascending, t) + 2 * N - 1
           q == Level(values, sector, ascending, t)
<1>1. N \in Nat \ {0} /\ b \in Nat /\ e \in Nat \ {0} /\ b + e <= N
  BY RankBounds
<1>2. Rank2(values, sector, ascending, t) = 2 * b + e + 1
  BY DEF Rank2
<1> HIDE DEF b, e
<1>3. Rank2(values, sector, ascending, t) \in Int /\ 2 <= Rank2(values, sector, ascending, t)
        /\ Rank2(values, sector, ascending, t) <= 2 * N
  <2> HIDE DEF N
  <2> QED
    BY <1>1, <1>2
<1>4. q = a \div (2 * N)
  BY LevelIs
<1> HIDE DEF N
<1>5. 2 * N \in Nat \ {0} /\ a \in Int /\ 2 * N <= a /\ a < 6 * (2 * N)
  BY <1>1, <1>3
<1> HIDE DEF a, q
<1> DEFINE d == 2 * N
<1>6. q \in Int /\ d * q <= a /\ a < d * q + d /\ d \in Nat \ {0} /\ d <= a /\ a < 6 * d
  <2> HIDE DEF d
  <2>1. d \in Nat \ {0} /\ d <= a /\ a < 6 * d /\ q = a \div d /\ a \in Int
    BY <1>4, <1>5 DEF d
  <2> QED
    BY <2>1, DivIs
<1> HIDE DEF d
<1>7. q >= 1
  <2>1. CASE q + 1 <= 1
    <3>1. d * q + d <= d * 1
      BY <1>6, <2>1, TimesMonotone
    <3> QED
      BY <1>5, <1>6, <3>1
  <2> QED
    BY <1>6, <2>1
<1>8. q <= 5
  <2>1. CASE 5 + 1 <= q
    <3>1. d * 5 + d <= d * q
      BY <1>6, <2>1, TimesMonotone
    <3> QED
      BY <1>5, <1>6, <3>1
  <2> QED
    BY <1>6, <2>1
<1> QED
  BY <1>6, <1>7, <1>8 DEF q

(* Of two stocks of a sector, the one that is at least as good is at least *)
(* as high.                                                                *)
LEMMA LevelMonotone ==
  ASSUME NEW D, IsFiniteSet(D), NEW values \in [D -> Int], NEW sector, NEW ascending \in BOOLEAN,
         NEW t \in D, NEW u \in D, sector[t] = sector[u],
         IF ascending THEN values[u] <= values[t] ELSE values[t] <= values[u]
  PROVE  Level(values, sector, ascending, u) <= Level(values, sector, ascending, t)
<1> DEFINE N == Cardinality(Peers(values, sector, t))
           Bt == Below(values, sector, ascending, t)
           Bu == Below(values, sector, ascending, u)
           Et == Equals(values, sector, t)
           Eu == Equals(values, sector, u)
<1>1. Peers(values, sector, u) = Peers(values, sector, t)
  BY DEF Peers
<1>2. /\ N \in Nat \ {0} /\ Cardinality(Bt) \in Nat /\ Cardinality(Et) \in Nat \ {0}
      /\ Cardinality(Bu) \in Nat /\ Cardinality(Eu) \in Nat \ {0}
  BY RankBounds
<1>3. IsFiniteSet(Bt) /\ IsFiniteSet(Bu) /\ IsFiniteSet(Eu)
  <2>1. Bt \subseteq D /\ Bu \subseteq D /\ Eu \subseteq D
    BY DEF Below, Equals, Peers
  <2> HIDE DEF Bt, Bu, Eu
  <2> QED
    BY <2>1, FS_Subset
<1>4. CASE values[t] = values[u]
  <2>1. Bt = Bu /\ Et = Eu
    BY <1>1, <1>4 DEF Below, Equals
  <2>2. Rank2(values, sector, ascending, t) = Rank2(values, sector, ascending, u)
    BY <2>1 DEF Rank2
  <2>3. Level(values, sector, ascending, t) = Level(values, sector, ascending, u)
    BY <1>1, <2>2, LevelIs
  <2>4. Level(values, sector, ascending, t) \in 1 .. 5
    BY LevelBounds
  <2> HIDE DEF Bt, Bu, Et, Eu, N
  <2> QED
    BY <2>3, <2>4
<1>5. CASE values[t] # values[u]
  <2>1. Bu \union Eu \subseteq Bt /\ Bu \intersect Eu = {}
    BY <1>1, <1>5 DEF Below, Equals, Peers
  <2> HIDE DEF Bt, Bu, Eu, Et, N
  <2>2. Cardinality(Bu \union Eu) <= Cardinality(Bt)
    BY <1>3, <2>1, FS_Subset
  <2>3. Cardinality(Bu \union Eu) = Cardinality(Bu) + Cardinality(Eu) - Cardinality(Bu \intersect Eu)
    BY <1>3, FS_Union
  <2>4. Cardinality(Bu \intersect Eu) = 0
    BY <2>1, FS_EmptySet
  <2>5. Cardinality(Bu) + Cardinality(Eu) <= Cardinality(Bt)
    BY <1>2, <2>2, <2>3, <2>4
  <2> DEFINE rt == Rank2(values, sector, ascending, t)
             ru == Rank2(values, sector, ascending, u)
  <2>6. rt = 2 * Cardinality(Bt) + Cardinality(Et) + 1 /\ ru = 2 * Cardinality(Bu) + Cardinality(Eu) + 1
    BY DEF Rank2, Bt, Bu, Et, Eu
  <2>7. Level(values, sector, ascending, t) = (5 * rt + 2 * N - 1) \div (2 * N)
    BY LevelIs DEF N
  <2>8. Level(values, sector, ascending, u) = (5 * ru + 2 * N - 1) \div (2 * N)
    BY <1>1, LevelIs DEF N
  <2> HIDE DEF rt, ru
  <2>9. rt \in Int /\ ru \in Int /\ ru <= rt
    BY <1>2, <2>5, <2>6
  <2>10. /\ 5 * ru + 2 * N - 1 \in Int /\ 5 * rt + 2 * N - 1 \in Int
         /\ 5 * ru + 2 * N - 1 <= 5 * rt + 2 * N - 1 /\ 2 * N \in Nat \ {0}
    BY <1>2, <2>9
  <2> QED
    BY <2>7, <2>8, <2>10, DivMonotone
<1> QED
  BY <1>4, <1>5

(* An axis with a figure of its own for each of two stocks of a sector.    *)
LEMMA AxisMonotone ==
  ASSUME NEW sector, NEW figure, NEW a \in Axes, figure[a] \in [Tickers -> Nat \union {Missing}],
         NEW t \in Tickers, NEW u \in Tickers, sector[t] = sector[u],
         figure[a][t] # Missing, figure[a][u] # Missing,
         IF a = "growth" THEN figure[a][t] >= figure[a][u] ELSE figure[a][t] <= figure[a][u]
  PROVE  /\ AxisScore(a, figure, sector, u) <= AxisScore(a, figure, sector, t)
         /\ AxisScore(a, figure, sector, u) \in 1 .. 5 /\ AxisScore(a, figure, sector, t) \in 1 .. 5
<1> DEFINE values == Doubled(figure[a])
           up == a # "valuation"
<1>1. values \in [Tickers -> Int] /\ values[t] = 2 * figure[a][t] /\ values[u] = 2 * figure[a][u]
  BY MinerAssumption, DoubledIs
<1>2. figure[a][t] \in Nat /\ figure[a][u] \in Nat
  OBVIOUS
<1>3. up \in BOOLEAN /\ (up <=> a = "growth")
  BY DEF Axes
<1>4. \A x \in Tickers : AxisScore(a, figure, sector, x) = Level(values, sector, up, x)
  BY DEF AxisScore
<1> HIDE DEF values, up
<1>5. IF up THEN values[u] <= values[t] ELSE values[t] <= values[u]
  BY <1>1, <1>2, <1>3
<1>6. IsFiniteSet(Tickers)
  BY MinerAssumption
<1>7. Level(values, sector, up, u) <= Level(values, sector, up, t)
  BY <1>1, <1>3, <1>5, <1>6, LevelMonotone
<1>8. Level(values, sector, up, u) \in 1 .. 5 /\ Level(values, sector, up, t) \in 1 .. 5
  BY <1>1, <1>3, <1>6, LevelBounds
<1> QED
  BY <1>4, <1>7, <1>8

LEMMA AxisBounds ==
  ASSUME NEW sector, NEW figure, NEW a \in Axes, figure[a] \in [Tickers -> Nat \union {Missing}],
         NEW t \in Tickers, Range(figure[a]) # {Missing}
  PROVE  AxisScore(a, figure, sector, t) \in 1 .. 5
<1>1. PICK known \in Tickers : figure[a][known] # Missing
  <2>1. SUFFICES ASSUME \A x \in Tickers : figure[a][x] = Missing PROVE FALSE
    OBVIOUS
  <2>2. Range(figure[a]) = {Missing}
    BY <2>1 DEF Range
  <2> QED
    BY <2>2
<1> DEFINE values == Doubled(figure[a])
           up == a # "valuation"
<1>2. values \in [Tickers -> Int] /\ IsFiniteSet(Tickers)
  BY <1>1, MinerAssumption, DoubledIs
<1>3. up \in BOOLEAN
  BY DEF Axes
<1>4. AxisScore(a, figure, sector, t) = Level(values, sector, up, t)
  BY DEF AxisScore
<1> HIDE DEF values, up
<1> QED
  BY <1>2, <1>3, <1>4, LevelBounds

LEMMA ScoresHold == ScoresTruthful
<1> SUFFICES ASSUME NEW sector \in [Tickers -> {"IT", "UNKNOWN"}],
                    NEW figure \in [Axes -> [Tickers -> Figures \union {Missing}]]
             PROVE  /\ \A t, u \in Tickers :
                         /\ sector[t] = sector[u]
                         /\ \A a \in Axes : Missing \notin {figure[a][t], figure[a][u]}
                         /\ figure["growth"][t] >= figure["growth"][u] /\ figure["valuation"][t] <= figure["valuation"][u]
                         => WeightedScore(figure, sector, t) >= WeightedScore(figure, sector, u)
                    /\ \A t \in Tickers, a \in Axes :
                         Range(figure[a]) # {Missing} => AxisScore(a, figure, sector, t) \in 1 .. 5
  BY DEF ScoresTruthful
<1>1. \A a \in Axes : figure[a] \in [Tickers -> Nat \union {Missing}]
  BY MinerAssumption, ZenonT(60)
<1>2. \A t \in Tickers, a \in Axes : Range(figure[a]) # {Missing} => AxisScore(a, figure, sector, t) \in 1 .. 5
  BY <1>1, AxisBounds
<1>3. ASSUME NEW t \in Tickers, NEW u \in Tickers, sector[t] = sector[u],
             \A a \in Axes : Missing \notin {figure[a][t], figure[a][u]},
             figure["growth"][t] >= figure["growth"][u], figure["valuation"][t] <= figure["valuation"][u]
      PROVE  WeightedScore(figure, sector, t) >= WeightedScore(figure, sector, u)
  <2> DEFINE Of(a, x) == AxisScore(a, figure, sector, x)
  <2>1. "growth" \in Axes /\ "valuation" \in Axes /\ "valuation" # "growth"
    BY DEF Axes
  <2>2. Of("growth", u) <= Of("growth", t) /\ Of("growth", u) \in Int /\ Of("growth", t) \in Int
    BY <1>1, <1>3, <2>1, AxisMonotone
  <2>3. Of("valuation", u) <= Of("valuation", t) /\ Of("valuation", u) \in Int /\ Of("valuation", t) \in Int
    BY <1>1, <1>3, <2>1, AxisMonotone
  <2>4. \A x \in Tickers : WeightedScore(figure, sector, x) =
          IF \E a \in Axes : Range(figure[a]) = {Missing} THEN 0 ELSE Of("growth", x) + Of("valuation", x)
    BY DEF WeightedScore
  <2> HIDE DEF Of
  <2> QED
    BY <2>2, <2>3, <2>4
<1> QED
  BY <1>2, <1>3

\* The ranking rests on sound streaks and scores (foreign_institution_streak,
\* SectorPercentileScorer): for all stocks, sectors, figures and days.
THEOREM RankingSound == Spec => []RankingIsSound
<1>1. IInv => RankingIsSound
  BY HasTypes, StreaksHold, ScoresHold DEF RankingIsSound
<1> QED
  BY <1>1, Invariance, PTL

=============================================================================
