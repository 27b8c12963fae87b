----------------------------- MODULE StockMiner -----------------------------
(***************************************************************************)
(* The Stock Miner screener: one job every weekday at 18:30 that reads the *)
(* market through caches, filters, scores and ranks the stocks, has Claude *)
(* summarise the best of them in a batch, and reports them one message     *)
(* each; a failed job is repeated and then told.  Buttons under the        *)
(* messages look the summaries up in the memory of the process.            *)
(*                                                                         *)
(* Days are the weekdays 0, 1, 2, ...; the exchange is closed on some.     *)
(***************************************************************************)
EXTENDS Integers, Sequences, FiniteSets, SequencesExt, FiniteSetsExt, Functions

CONSTANTS
  Tickers, Markets,
  MarketOf,         \* the market a stock is listed in
  SectorOf,         \* and its sector
  Years,            \* years of statements that are read, newest first: 1, 2, 3
  ReportTopN,       \* stocks in the report: 10
  AvgDays,          \* days in an average: 20
  MaxStreak,        \* days looked at for a streak: 20
  MaxFallback,      \* weekdays within _MAX_FALLBACK_DAYS, 7 calendar days: 5
  Attempts,         \* _MAX_RETRIES of the job: 3
  Retries,          \* _MAX_RETRIES of a message: 3
  DlqMax,           \* _DLQ_MAX: 100
  MaxPolls,         \* polls within _BATCH_MAX_WAIT_SECONDS
  MaxResults,       \* _RESULTS_FETCH_MAX_RETRIES
  Figures,          \* figures that occur in statements and prices
  Pressed,          \* bound: the stocks whose buttons are pressed
  LastDay,          \* bound: the last day
  MaxFaults,        \* bound: failed reads, requests and outages
  MaxRestarts       \* bound: restarts

Missing == -1                           \* NaN
Unread  == [of |-> -1, markets |-> {}]   \* an empty DataFrame

ASSUME MinerAssumption ==
  /\ IsFiniteSet(Tickers) /\ IsFiniteSet(Markets) /\ MarketOf \in [Tickers -> Markets]
  /\ SectorOf \in [Tickers -> {"IT", "UNKNOWN"}] /\ {"header", "alert"} \intersect Tickers = {}
  /\ Pressed \subseteq Tickers /\ IsFiniteSet(Years) /\ Years \subseteq Nat /\ Figures \subseteq Nat
  /\ {ReportTopN, AvgDays, MaxStreak, Attempts, Retries, DlqMax, MaxPolls, MaxResults} \subseteq Nat \ {0}
  /\ {MaxFallback, LastDay, MaxFaults, MaxRestarts} \subseteq Nat

Weekdays == 0 .. LastDay
Axes     == {"growth", "valuation"}

VARIABLES
  today,
  trading,     \* the days the exchange is open
  large,       \* stocks above the thresholds of the filter
  cache,       \* the parquet files of the universe, by the day asked for
  books,       \* the statements kept this quarter: years, or {}
  hurt,        \* days and stocks some read of which failed
  step, attempt,
  snap, pool, ranked, signals,   \* locals of _run_once
  polls, tries,
  summaries,   \* last_summaries
  outbox,      \* messages still to be sent by this run
  told,        \* messages of this day's run and this process that arrived, in order
  dlq, dropped,
  doubtful,    \* messages that arrived although an error said no
  down,        \* Telegram cannot be reached
  outcome,     \* how the run of this day ended
  rows,        \* rows of the watchlist table
  lines,       \* stocks of Pressed with a message, and so buttons, on the phone
  faults, restarts

market == <<trading, large>>
files  == <<cache, books, hurt>>
work   == <<snap, pool, ranked, signals>>
batch  == <<polls, summaries>>
mail   == <<outbox, tries, told, dlq, dropped, doubtful, outcome, lines>>
vars   == <<today, market, files, step, attempt, work, batch, mail, down, rows, faults, restarts>>

NoSummaries == <<>>

Init ==
  /\ today = 0 /\ trading \in {s \in SUBSET Weekdays : 0 \in s} /\ large \in SUBSET Tickers \ {{}}
  /\ cache = [d \in Weekdays |-> Unread] /\ books = [t \in Tickers |-> {}] /\ hurt = {}
  /\ step = "idle" /\ attempt = 0
  /\ snap = Unread /\ pool = {} /\ ranked = <<>> /\ signals = <<>>
  /\ polls = 0 /\ tries = 0 /\ summaries = NoSummaries
  /\ outbox = <<>> /\ told = <<>> /\ dlq = <<>> /\ dropped = {} /\ doubtful = {}
  /\ down = FALSE /\ outcome = "idle" /\ rows = [t \in Tickers |-> "none"] /\ lines = {}
  /\ faults = 0 /\ restarts = 0

Fault == faults < MaxFaults /\ faults' = faults + 1
Fine  == UNCHANGED faults
Hit(lost) == IF lost = {} THEN Fine ELSE Fault

(***************************************************************************)
(* The market data and their caches                                        *)
(***************************************************************************)

(* Bug: the loop over the markets stops at the first that answers.         *)
FetchUniverseSync_First(d, lost) ==
  LET got == IF d \in trading THEN {m \in Markets : <<d, m>> \notin lost} ELSE {}
  IN IF got = {} THEN Unread ELSE [of |-> d, markets |-> {CHOOSE m \in got : TRUE}]

(* _fetch_universe_sync: the markets that can be read, an error being      *)
(* taken for a missing market; no market at all looks like a holiday.      *)
FetchUniverseSync(d, lost) ==
  LET got == IF d \in trading THEN {m \in Markets : <<d, m>> \notin lost} ELSE {}
  IN IF got = {} THEN Unread ELSE [of |-> d, markets |-> got]

(* fetch_universe: the file of the day, else the day itself or the last    *)
(* weekday before it with any data.                                        *)
FetchUniverse(d, lost) ==
  LET back == {x \in Weekdays : x <= d /\ x >= d - MaxFallback /\ FetchUniverseSync(x, lost) # Unread}
  IN IF cache[d] # Unread THEN cache[d]
     ELSE IF back # {} THEN FetchUniverseSync(Max(back), lost) ELSE Unread

(* average_over_trading_days asks for weekday after weekday, backwards,    *)
(* until it has AvgDays answers; every answer stays as the file of the day *)
(* asked for.                                                              *)
AverageOverTradingDays(lost) ==
  LET asked(d) == d <= today /\
        Cardinality({x \in d + 1 .. today : FetchUniverse(x, lost) # Unread}) < AvgDays
  IN [d \in Weekdays |-> IF asked(d) THEN FetchUniverse(d, lost) ELSE cache[d]]

(* What a disturbance of the exchange's service takes away.                *)
Outages == {{}} \union {days \X markets : days \in SUBSET Weekdays \ {{}}, markets \in SUBSET Markets \ {{}}}

(* filter_universe: stocks in the data that are above the thresholds; a    *)
(* stock without an average counts as zero, but today's is always in it.   *)
FilterUniverse(universe) == {t \in large : MarketOf[t] \in universe.markets}

(***************************************************************************)
(* Scores and ranks                                                        *)
(***************************************************************************)

(* Bug: a stock that was not bought on a day is still counted before it.   *)
Streak_Gaps(bought, from) ==
  [t \in Tickers |-> Cardinality({d \in DOMAIN bought : d <= from /\ d > from - MaxStreak /\ t \in bought[d]})]

(* The streak of foreign and institutional purchases: from today backwards *)
(* over MaxStreak weekdays, every stock counted while it is active; a day  *)
(* without data ends all of them.  bought[d]: the stocks both bought.      *)
Streak(bought, from) ==
  LET walk[i \in 0 .. MaxStreak] ==
        IF i = 0 THEN [active |-> Tickers, count |-> [t \in Tickers |-> 0]]
        ELSE LET s == walk[i - 1]
                 d == from - i + 1
                 still == IF d \in DOMAIN bought THEN s.active \intersect bought[d] ELSE {}
             IN [active |-> still, count |-> [t \in Tickers |-> s.count[t] + (IF t \in still THEN 1 ELSE 0)]]
  IN walk[MaxStreak].count

(* The figures, twice, with the median of the ones there are in place of a  *)
(* missing one: the median of all stocks, not of the sector.               *)
Doubled(figure) ==
  LET there == {t \in DOMAIN figure : figure[t] # Missing}
      n == Cardinality(there)
      UpTo(t) == Cardinality({u \in there : figure[u] <= figure[t]})
      KthOf(k) == Min({figure[t] : t \in {u \in there : UpTo(u) >= k}})
      median == KthOf((n + 1) \div 2) + KthOf(n \div 2 + 1)
  IN [t \in DOMAIN figure |-> IF figure[t] = Missing THEN median ELSE 2 * figure[t]]

(* SectorPercentileScorer.score: the mean rank in the sector as a          *)
(* percentage, in five levels.                                             *)
Level(values, sector, ascending, t) ==
  LET peers == {u \in DOMAIN values : sector[u] = sector[t]}
      below == {u \in peers : IF ascending THEN values[u] < values[t] ELSE values[u] > values[t]}
      equal == {u \in peers : values[u] = values[t]}
      rank2 == 2 * Cardinality(below) + Cardinality(equal) + 1
  IN (5 * rank2 + 2 * Cardinality(peers) - 1) \div (2 * Cardinality(peers))

(* Bug: a high price counts as good value.                                 *)
AxisScore_Ascending(axis, figure, sector, t) ==
  Level(Doubled(figure[axis]), sector, TRUE, t)

(* score_growth, ..., score_valuation: growth is better the more, the      *)
(* price in relation to earnings the less.                                 *)
AxisScore(axis, figure, sector, t) ==
  Level(Doubled(figure[axis]), sector, axis # "valuation", t)

(* calculate_weighted_score with equal weights.  An axis that no stock has *)
(* a figure for is NaN, and makes every score NaN.                         *)
WeightedScore(figure, sector, t) ==
  IF \E a \in Axes : Range(figure[a]) = {Missing} THEN 0
  ELSE AxisScore("growth", figure, sector, t) + AxisScore("valuation", figure, sector, t)

(* build_financial_features: growth takes the newest two years there are.  *)
Feature(years, value) == IF Cardinality(years) < 2 THEN Missing ELSE value

(* rank_top_n: by score, then by streak; the sort may order equals anyhow. *)
Before(score, streak, a, b) ==
  score[a] > score[b] \/ (score[a] = score[b] /\ streak[a] > streak[b])
RankTopN(stocks, score, streak) ==
  {SubSeq(s, 1, Min({ReportTopN, Len(s)})) : s \in
     {r \in SetToSeqs(stocks) : \A i, j \in DOMAIN r : i < j => ~Before(score, streak, r[j], r[i])}}

(***************************************************************************)
(* The run of a day                                                        *)
(***************************************************************************)

(* The trigger of weekdays, 18:30; the last run is over by then.           *)
Fire ==
  /\ step = "idle" /\ today < LastDay
  /\ today' = today + 1 /\ step' = "universe" /\ attempt' = 1
  /\ told' = <<>> /\ outcome' = "none"
  /\ UNCHANGED <<market, files, work, batch, outbox, tries, dlq, dropped, doubtful, lines, down, rows, faults, restarts>>

(* An exception of _run_once: again, or an alert.                          *)
Fails ==
  /\ IF attempt < Attempts
     THEN step' = "universe" /\ attempt' = attempt + 1 /\ UNCHANGED outbox
     ELSE step' = "send" /\ outbox' = <<<<today, "alert">>>> /\ UNCHANGED attempt
  /\ UNCHANGED <<tries, told, dlq, dropped, doubtful, outcome, lines>>

Goes(next) == step' = next /\ UNCHANGED <<attempt, mail>>

(* The universe of the day; none at all is an exception.                   *)
ReadUniverse ==
  /\ step = "universe"
  /\ \E lost \in Outages :
       LET universe == FetchUniverse(today, lost)
       IN /\ Hit(lost) /\ snap' = universe
          /\ cache' = [cache EXCEPT ![today] = universe]
          /\ hurt' = IF cache[today] = Unread /\ lost # {} THEN hurt \union {today} ELSE hurt
          /\ IF universe = Unread THEN Fails ELSE Goes("filter")
  /\ UNCHANGED <<today, market, books, pool, ranked, signals, batch, down, rows, restarts>>

(* The averages of trading value, and the filter; no stock left is an      *)
(* exception.                                                              *)
Filter ==
  /\ step = "filter"
  /\ \E lost \in Outages :
       /\ Hit(lost) /\ cache' = AverageOverTradingDays(lost)
       /\ hurt' = IF lost = {} THEN hurt ELSE hurt \union {d \in Weekdays : cache[d] # cache'[d]}
  /\ pool' = FilterUniverse(snap)
  /\ IF pool' = {} THEN Fails ELSE Goes("books")
  /\ UNCHANGED <<today, market, books, snap, ranked, signals, batch, down, rows, restarts>>

(* fetch_financials: the file of the quarter, else the years that can be   *)
(* read, which make the file if there are any.                             *)
FetchFinancials(t, lost) == IF books[t] # {} THEN books[t] ELSE Years \ lost

(* The statements of one stock after the other.  A client that cannot be   *)
(* set up is all years lost.                                               *)
ReadBooks ==
  /\ step = "books"
  /\ \E t \in pool, lost \in SUBSET Years :
       /\ Hit(lost)
       /\ books' = [u \in Tickers |-> IF u \in pool THEN FetchFinancials(u, IF u = t THEN lost ELSE {}) ELSE books[u]]
       /\ hurt' = IF books[t] = {} /\ lost # {} THEN hurt \union {t} ELSE hurt
  /\ Goes("rank")
  /\ UNCHANGED <<today, market, cache, work, batch, down, rows, restarts>>

(* The rankings that may come out of what was bought up to today and of the *)
(* figures in the prices and the statements.                               *)
Statements ==
  {[a \in Axes |-> [t \in pool |-> IF a = "growth" THEN Feature(books[t], value[a][t]) ELSE value[a][t]]] :
     value \in [Axes -> [pool -> Figures]]}
Scores   == {[t \in pool |-> WeightedScore(figure, SectorOf, t)] : figure \in Statements}
Streaks  == {Streak(bought, today) : bought \in [trading \intersect today - MaxStreak + 1 .. today -> SUBSET pool]}
Rankings == UNION {RankTopN(pool, score, streak) : score \in Scores, streak \in Streaks}

(* Disclosures, streaks and surges, and the ranking.  The reads of one     *)
(* investor group failing in all markets leave a table without its column, *)
(* an exception; a table nobody is in, or none at all, only ends the       *)
(* streaks.  After them the averages of the volume ask again for the days  *)
(* that had no answer, and may fail again.                                 *)
Rank ==
  /\ step = "rank"
  /\ \/ /\ ranked' \in Rankings
        /\ \E lost \in Outages :
             /\ Hit(lost) /\ cache' = AverageOverTradingDays(lost)
             /\ hurt' = IF lost = {} THEN hurt ELSE hurt \union {d \in Weekdays : cache[d] # cache'[d]}
        /\ Goes("judge")
     \/ Fault /\ Fails /\ UNCHANGED <<ranked, cache, hurt>>
  /\ UNCHANGED <<today, market, books, snap, pool, signals, batch, down, rows, restarts>>

(* assess_buy_principle for the best: no history, or one of less than 21   *)
(* days, is no signal.                                                     *)
Judge ==
  /\ step = "judge"
  /\ signals' \in [ToSet(ranked) -> BOOLEAN] /\ snap' = Unread /\ pool' = {}
  /\ Goes("create")
  /\ UNCHANGED <<today, market, files, ranked, batch, down, rows, faults, restarts>>

(***************************************************************************)
(* Summaries                                                               *)
(***************************************************************************)

(* Bug: the summary that needs no Claude comes without the signal.         *)
FallbackForAll_Bare == [t \in ToSet(ranked) |-> FALSE]

(* A summary is a text, by Claude or the fallback, and the signal of the   *)
(* candles, which every one of them carries.                               *)
FallbackForAll == [t \in ToSet(ranked) |-> signals[t]]

(* last_summaries is set, and the report begins: a header, then a message  *)
(* for each stock by rank.                                                 *)
Report == <<<<today, "header">>>> \o [i \in DOMAIN ranked |-> <<today, ranked[i]>>]

(* Bug: the summaries are kept when the report is out.                     *)
Summarised_Late(made) ==
  /\ outbox' = Report /\ step' = "send" /\ UNCHANGED <<summaries, attempt>>
  /\ UNCHANGED <<tries, told, dlq, dropped, doubtful, outcome, lines>>

Summarised(made) ==
  /\ summaries' = made /\ outbox' = Report /\ step' = "send" /\ UNCHANGED attempt
  /\ UNCHANGED <<tries, told, dlq, dropped, doubtful, outcome, lines>>

(* _run_batch: the batch is created, or not.                               *)
CreateBatch ==
  /\ step = "create" /\ polls' = 0
  /\ \/ Goes("poll") /\ UNCHANGED summaries
     \/ Summarised(FallbackForAll)
  /\ UNCHANGED <<today, market, files, work, down, rows, faults, restarts>>

(* Bug: the time that has passed is never compared with the limit.         *)
Poll_Endless ==
  /\ step = "poll"
  /\ \/ Goes("results") /\ polls' = 0 /\ UNCHANGED summaries
     \/ Goes("poll") /\ polls' = (polls + 1) % (MaxPolls + 1) /\ UNCHANGED summaries
  /\ UNCHANGED <<today, market, files, work, down, rows, faults, restarts>>

(* One look at the batch: it has ended, or not, or the look itself failed  *)
(* (HTTP), and is repeated.  The batch is given up after MaxPolls, and at  *)
(* once when the answer cannot be read (no JSON, no status).               *)
Poll ==
  /\ step = "poll"
  /\ \/ polls < MaxPolls /\ Goes("results") /\ polls' = 0 /\ UNCHANGED summaries
     \/ polls < MaxPolls /\ Goes("poll") /\ polls' = polls + 1 /\ UNCHANGED summaries
     \/ Summarised(FallbackForAll) /\ UNCHANGED polls
  /\ UNCHANGED <<today, market, files, work, down, rows, faults, restarts>>

(* Bug: a stock whose answer is missing is passed over.                    *)
FetchResults_Skips ==
  /\ step = "results"
  /\ \E good \in SUBSET ToSet(ranked) : Summarised([t \in good |-> signals[t]])
  /\ UNCHANGED <<today, market, files, work, polls, down, rows, faults, restarts>>

(* The results, tried MaxResults times; a stock whose answer is missing,   *)
(* broken or empty has a fallback of its own.                              *)
FetchResults ==
  /\ step = "results"
  /\ \/ \E good \in SUBSET ToSet(ranked) :
          Summarised([t \in ToSet(ranked) |-> IF t \in good THEN signals[t] ELSE FallbackForAll[t]]) /\ UNCHANGED polls
     \/ polls + 1 < MaxResults /\ polls' = polls + 1 /\ Goes("results") /\ UNCHANGED summaries
     \/ polls + 1 = MaxResults /\ Summarised(FallbackForAll) /\ UNCHANGED polls
  /\ UNCHANGED <<today, market, files, work, down, rows, faults, restarts>>

(***************************************************************************)
(* Messages                                                                *)
(***************************************************************************)

(* The first message is settled; the last one ends the run.                *)
Settled ==
  /\ outbox' = Tail(outbox) /\ tries' = 0
  /\ IF Len(outbox) > 1 THEN UNCHANGED <<step, outcome>>
     ELSE step' = "idle" /\ outcome' = IF Head(outbox)[2] = "alert" THEN "alert" ELSE "report"

(* Bug: the last failure is an exception, and the run begins anew.         *)
Undelivered_Raises ==
  IF tries + 1 < Retries
  THEN tries' = tries + 1 /\ UNCHANGED <<step, attempt, outbox, outcome, dlq, dropped>>
  ELSE IF attempt < Attempts
  THEN /\ step' = "universe" /\ attempt' = attempt + 1 /\ outbox' = <<>> /\ tries' = 0
       /\ UNCHANGED <<outcome, dlq, dropped>>
  ELSE Settled /\ dropped' = dropped \union {Head(outbox)} /\ UNCHANGED <<attempt, dlq>>

(* Bug: the dead letters have no bound.                                    *)
Undelivered_Unbounded ==
  IF tries + 1 < Retries
  THEN tries' = tries + 1 /\ UNCHANGED <<step, attempt, outbox, outcome, dlq, dropped>>
  ELSE Settled /\ dlq' = Append(dlq, Head(outbox)) /\ UNCHANGED <<attempt, dropped>>

(* A message that failed Retries times is a dead letter, if there is room. *)
Undelivered ==
  IF tries + 1 < Retries
  THEN tries' = tries + 1 /\ UNCHANGED <<step, attempt, outbox, outcome, dlq, dropped>>
  ELSE /\ Settled /\ UNCHANGED attempt
       /\ IF Len(dlq) < DlqMax
          THEN dlq' = Append(dlq, Head(outbox)) /\ UNCHANGED dropped
          ELSE dropped' = dropped \union {Head(outbox)} /\ UNCHANGED dlq

Arrives ==
  /\ told' = Append(told, Head(outbox))
  /\ lines' = lines \union ({Head(outbox)[2]} \intersect Pressed)

(* _send_raw, one attempt.  An error may hide that the message arrived.    *)
SendRaw ==
  /\ step = "send"
  /\ \/ ~down /\ Arrives /\ Settled /\ Fine /\ UNCHANGED <<attempt, dlq, dropped, doubtful>>
     \/ ~down /\ Fault /\ Arrives /\ Undelivered /\ doubtful' = doubtful \union {Head(outbox)}
     \/ down /\ Undelivered /\ Fine /\ UNCHANGED <<told, lines, doubtful>>
  /\ UNCHANGED <<today, market, files, work, batch, down, rows, restarts>>

Outage ==
  /\ Fault /\ ~down /\ down' = TRUE
  /\ UNCHANGED <<today, market, files, step, attempt, work, batch, mail, rows, restarts>>

Heal ==
  /\ down /\ down' = FALSE
  /\ UNCHANGED <<today, market, files, step, attempt, work, batch, mail, rows, faults, restarts>>

(***************************************************************************)
(* Buttons and the process                                                 *)
(***************************************************************************)

(* on_watchlist_add: the row of the stock is written anew, with what is    *)
(* known of it; the other two buttons only read and answer.                *)
WatchlistAdd(t) ==
  /\ t \in lines
  /\ rows' = [rows EXCEPT ![t] = IF t \in DOMAIN summaries THEN "scored" ELSE "bare"]
  /\ UNCHANGED <<today, market, files, step, attempt, work, batch, mail, down, faults, restarts>>

(* The process stops and starts again, perhaps after 18:30 of the next     *)
(* day, whose run is then missed.  What is on disk stays: the files and    *)
(* the watchlist.                                                          *)
Restart ==
  /\ restarts < MaxRestarts /\ restarts' = restarts + 1
  /\ today' \in {today, today + 1} \intersect Weekdays
  /\ step' = "idle" /\ attempt' = 0 /\ outcome' = "cut"
  /\ snap' = Unread /\ pool' = {} /\ ranked' = <<>> /\ signals' = <<>>
  /\ polls' = 0 /\ tries' = 0 /\ summaries' = NoSummaries
  /\ outbox' = <<>> /\ told' = <<>> /\ dlq' = <<>> /\ dropped' = {} /\ doubtful' = {}
  /\ UNCHANGED <<market, files, down, rows, lines, faults>>

Job ==
  \/ ReadUniverse \/ Filter \/ ReadBooks \/ Rank \/ Judge
  \/ CreateBatch \/ Poll \/ FetchResults \/ SendRaw

Next ==
  \/ Fire \/ Job \/ Outage \/ Heal \/ Restart
  \/ \E t \in Tickers : WatchlistAdd(t)

Spec == Init /\ [][Next]_vars

(* A run goes on; reads, requests and sends have timeouts.                 *)
FairSpec == Spec /\ WF_vars(Job)

(***************************************************************************)
(* Properties                                                              *)
(***************************************************************************)

Universes == [of : Weekdays \union {-1}, markets : SUBSET Markets]
Letters   == Weekdays \X (Tickers \union {"header", "alert"})

(* Types; the report is no longer than asked for, the dead letters no more *)
(* than their bound.                                                       *)
TypeOK ==
  /\ today \in Weekdays /\ trading \subseteq Weekdays /\ large \subseteq Tickers
  /\ cache \in [Weekdays -> Universes] /\ books \in [Tickers -> SUBSET Years]
  /\ hurt \subseteq Weekdays \union Tickers
  /\ step \in {"idle", "universe", "filter", "books", "rank", "judge", "create", "poll", "results", "send"}
  /\ attempt \in 0 .. Attempts /\ polls \in 0 .. Max({MaxPolls, MaxResults}) /\ tries \in 0 .. Retries - 1
  /\ snap \in Universes /\ pool \subseteq Tickers
  /\ ranked \in Seq(Tickers) /\ Len(ranked) <= ReportTopN /\ IsInjective(ranked)
  /\ DOMAIN summaries \subseteq Tickers
  /\ outbox \in Seq(Letters) /\ told \in Seq(Letters) /\ dlq \in Seq(Letters) /\ Len(dlq) <= DlqMax
  /\ dropped \subseteq Letters /\ doubtful \subseteq Letters /\ down \in BOOLEAN
  /\ outcome \in {"idle", "none", "report", "alert", "cut"}
  /\ rows \in [Tickers -> {"none", "scored", "bare"}] /\ lines \subseteq Tickers

LastTradingDay(d) == Max({x \in trading : x <= d})

(* The files outlive runs, retries and restarts, and are never read again  *)
(* from the source, so they must be right when written: unless a read of   *)
(* it failed, the file of a day holds all markets of the last trading day  *)
(* up to it, and the file of a stock all its years.                        *)
CacheTruthful ==
  /\ \A d \in Weekdays \ hurt : cache[d] \in {Unread, [of |-> LastTradingDay(d), markets |-> Markets]}
  /\ \A t \in Tickers \ hurt : books[t] \in {{}, Years}

\* For every course of trade the streak of the walk is the length of the
\* longest run of days up to the day asked for, all in the data, on each of
\* which the stock was bought; so never more than the true one over trading
\* days, and a holiday breaks it.
StreakTruthful ==
  \A bought \in [trading -> SUBSET Tickers], from \in Weekdays, t \in Tickers :
    Streak(bought, from)[t] =
      Max({n \in 0 .. MaxStreak : \A d \in from - n + 1 .. from : d \in trading /\ t \in bought[d]})

\* For all figures and sectors a stock that is at least as good on every axis
\* as another of its sector scores no less, and no level leaves 1 to 5.
ScoresTruthful ==
  \A sector \in [Tickers -> {"IT", "UNKNOWN"}], figure \in [Axes -> [Tickers -> Figures \union {Missing}]] :
    /\ \A t, u \in Tickers :
         /\ sector[t] = sector[u]
         /\ \A a \in Axes : Missing \notin {figure[a][t], figure[a][u]}
         /\ figure["growth"][t] >= figure["growth"][u] /\ figure["valuation"][t] <= figure["valuation"][u]
         => WeightedScore(figure, sector, t) >= WeightedScore(figure, sector, u)
    /\ \A t \in Tickers, a \in Axes :
         Range(figure[a]) # {Missing} => AxisScore(a, figure, sector, t) \in 1 .. 5

(* What the ranking will rest on is sound, whatever the days the exchange  *)
(* is open, what is bought on them and what the statements say: the        *)
(* streaks (foreign_institution_streak) and the scores                     *)
(* (SectorPercentileScorer, calculate_weighted_score).                     *)
RankingIsSound == outcome = "idle" => StreakTruthful /\ ScoresTruthful

(* Where a message is, and whether the run of the day reports.             *)
Places(m) ==
  ({"outbox"} \X {i \in DOMAIN outbox : outbox[i] = m}) \union ({"told"} \X {i \in DOMAIN told : told[i] = m})
    \union ({"dlq"} \X {i \in DOMAIN dlq : dlq[i] = m}) \union ({"dropped"} \X (dropped \intersect {m}))
Reporting == (step = "send" \/ outcome = "report") /\ \A m \in ToSet(outbox) : m[2] # "alert"

(* What arrived is in the order of the ranking.                            *)
InOrder ==
  \A i, k \in DOMAIN told : i < k =>
    \E a, b \in DOMAIN Report : a <= b /\ told[i] = Report[a] /\ told[k] = Report[b]

(* No stock of a report is lost or told twice, by the retries of messages  *)
(* or of the whole run, and what arrives is in the order of the ranking:   *)
(* each message of the run is still to be sent, has arrived once, is a     *)
(* dead letter or was dropped with a log entry - but for messages whose    *)
(* delivery was in doubt.                                                  *)
ReportAccounted ==
  Reporting => InOrder /\ \A m \in ToSet(Report) \ doubtful : Cardinality(Places(m)) = 1

(* Whatever Claude did, the buttons of a message find the summary of their *)
(* stock as soon as the message is there, with the signal of that day's    *)
(* candles in it, until the next run or a restart replaces the summaries.  *)
ButtonsWork ==
  \A m \in ToSet(told) : m[2] \in Tickers =>
    m[2] \in DOMAIN summaries /\ summaries[m[2]] = signals[m[2]]

(* Every run ends, with a report or an alert composed and each message     *)
(* tried, unless the process stops.  Whether a message arrived is not in   *)
(* it: a report whose messages all became dead letters, which nobody sends *)
(* again, has ended as well.                                               *)
EveryRunEnds == outcome = "none" ~> outcome \in {"report", "alert", "cut"}

(***************************************************************************)
(* The inductive invariant behind the safety properties                    *)
(***************************************************************************)

(* What a run has at each of its steps.                                    *)
RunInv ==
  /\ 0 \in trading
  /\ (step = "send") = (outbox # <<>>) /\ (step = "idle") = (outcome # "none")
  /\ step \notin {"idle", "send"} => told = <<>>
  /\ \A m \in ToSet(outbox) : m[2] = "alert" => Len(outbox) = 1

(* What did not arrive is of today only when the run of today is sending.  *)
OldLetters ==
  \A m \in ToSet(outbox) \union ToSet(dlq) \union dropped : m[1] <= today /\ (step \notin {"idle", "send"} => m[1] < today)

(* The buttons of what is still to be sent will work.                      *)
ButtonsWillWork ==
  \A m \in ToSet(outbox) : m[2] \in Tickers =>
    m[2] \in DOMAIN summaries /\ summaries[m[2]] = signals[m[2]]

(* The outbox is the rest of the report, what arrived comes before it (or  *)
(* is its first, if that was in doubt), and each message is in one place.  *)
SentInv ==
  Reporting =>
    LET n == Len(Report) - Len(outbox)
    IN /\ n >= 0 /\ \A i \in DOMAIN outbox : outbox[i] = Report[n + i]
       /\ \A i \in DOMAIN told : \E a \in DOMAIN Report : a <= n + 1 /\ told[i] = Report[a]
       /\ InOrder
       /\ \A m \in ToSet(Report) \ doubtful : \E p \in Places(m) : Places(m) = {p}

IInv == TypeOK /\ CacheTruthful /\ ButtonsWork /\ RunInv /\ OldLetters /\ ButtonsWillWork /\ SentInv

=============================================================================
