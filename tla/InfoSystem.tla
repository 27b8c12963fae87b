----------------------------- MODULE InfoSystem -----------------------------
(***************************************************************************)
(* The information system: the jobs of the scheduler, the notifier with    *)
(* its retries and dead letters, the news that were seen, the FX base and  *)
(* the calendar.                                                           *)
(*                                                                         *)
(* Every job, and the loop over the dead letters, is a coroutine with a    *)
(* list of things it still has to do; a step takes the first one off, and  *)
(* between two steps any other job may run.  Things are <<what, about>>.   *)
(***************************************************************************)
EXTENDS Integers, Sequences, FiniteSets, SequencesExt

CONSTANTS
  News, UsNews,     \* items of the RSS feeds and of Finnhub
  Events,           \* calendar entries of the coming month
  Rates,            \* rates that occur, in units of the alert threshold; 0: no data
  Retries,          \* _MAX_RETRIES: 3
  DlqMax,           \* _DLQ_MAX: 100
  Wirings,          \* the notifier wrapped: "direct" raises, "queued" only queues
  QueueMax,         \* queue of a TelegramNotifier: 100
  Switch,           \* values of _NEWS_POLLING_ENABLED that are looked at
  MaxHours,         \* bound: how many Hours pass, over all days
  MaxPolls,         \* bound: interval jobs started per day
  Late,             \* bound: jobs that may be busy for more than an hour
  MaxFaults,        \* bound: outages, failed jobs and lost answers
  MaxRestarts       \* bound: restarts

ASSUME InfoAssumption ==
  /\ IsFiniteSet(News) /\ IsFiniteSet(UsNews) /\ News \intersect UsNews = {}
  /\ IsFiniteSet(Events) /\ Rates \subseteq Nat /\ 0 \in Rates
  /\ {Retries, DlqMax, QueueMax} \subseteq Nat \ {0}
  /\ Wirings \subseteq {"direct", "queued"} /\ Switch \subseteq BOOLEAN
  /\ {MaxHours, MaxPolls, MaxFaults, MaxRestarts} \subseteq Nat

Cron     == {"monthly", "brief", "earnings", "report"}
Interval == {"rss", "fx", "usnews"}
Jobs     == Cron \union Interval \union {"notice", "dlq"}

(* The day as far as the jobs tell it apart, and when a job starts; the    *)
(* market hours and the US session are the guards of the interval jobs.    *)
Hours == <<"midnight", "8:00", "9:00", "15:30", "16:00", "22:00">>
StartsAt(j) ==
  CASE j = "monthly"  -> "midnight"
    [] j = "brief"    -> "8:00"
    [] j = "earnings" -> "15:30"
    [] j = "report"   -> "16:00"
    [] j = "usnews"   -> "22:00"
    [] OTHER          -> "9:00"

VARIABLES
  day, hour, fired, polls,   \* the clock, and what it has started today
  open,        \* the rate at the opening of the day
  polling,     \* _NEWS_POLLING_ENABLED
  wiring,      \* what start() wrapped
  todo, tries, \* per job: what it still has to do, failures with the first of it
  dlq,         \* the dead letters
  down,        \* Telegram cannot be reached
  owed,        \* messages composed, less those delivered or given up: how often each
  gone,        \* the ways in which messages were given up so far
  alerted,     \* alerts composed of each item of the feeds
  waiting,     \* what a wrapped TelegramNotifier has queued
  seen,        \* seen_urls: the day an item was marked, or 0
  base,        \* _base: the rate and the day whose opening it is; 0: provisional
  calendar,    \* how often an entry is in the calendar
  astray,      \* items given up, and entries that may be added twice
  faults, restarts

clock   == <<day, hour, fired, polls, open, polling, wiring>>
letters == <<dlq, down, waiting>>
made    == <<owed, gone, alerted>>
vars    == <<clock, todo, tries, letters, made, seen, base, calendar, astray, faults, restarts>>

Messages ==
  ({"notice", "brief", "earnings", "report", "escalation"} \X {0})
    \union ({"news"} \X (News \union UsNews)) \union ({"fx"} \X Rates)

(* How often w is on the list works, and how often in what the jobs do.    *)
Copies(works, w) == Cardinality({i \in DOMAIN works : works[i] = w})
Places(w) == UNION {{j} \X {i \in DOMAIN todo[j] : todo[j][i] = w} : j \in Jobs}
ToDo(w) == Cardinality(Places(w))

(* How often a message is under way.                                       *)
UnderWay(m) == Copies(dlq, m) + Copies(waiting, m) + ToDo(m)

(* How messages are given up: full dead letters or a full queue refuse one *)
(* (with a log entry), a job fails before it, the process stops.           *)
Ways == {"letters full", "queue full", "job", "stop"}

Composed(works) ==
  /\ owed' = [m \in Messages |-> owed[m] + Copies(works, m)] /\ UNCHANGED gone
  /\ alerted' = [n \in News |-> alerted[n] + Copies(works, <<"news", n>>)]

NoBase == [rate |-> 0, of |-> -1]

(* start(): the operator is told if the news are switched off.             *)
Notice(on) == IF on THEN <<>> ELSE <<<<"notice", 0>>>>
Started(on) == [j \in Jobs |-> IF j = "notice" THEN Notice(on) ELSE <<>>]
OwedAtStart(on) == [m \in Messages |-> Copies(Notice(on), m)]

Init ==
  /\ day = 1 /\ hour = 1 /\ fired = {} /\ polls = 0
  /\ open \in Rates \ {0} /\ polling \in Switch /\ wiring \in Wirings
  /\ todo = Started(polling) /\ tries = [j \in Jobs |-> 0]
  /\ dlq = <<>> /\ down = FALSE /\ waiting = <<>>
  /\ owed = OwedAtStart(polling) /\ gone = {} /\ alerted = [n \in News |-> 0]
  /\ seen = [n \in News |-> 0] /\ base = NoBase /\ calendar = [e \in Events |-> 0]
  /\ astray = {} /\ faults = 0 /\ restarts = 0

Fault == faults < MaxFaults /\ faults' = faults + 1

(* The first thing job j has to do is `what`; it is done, `next` replaces  *)
(* it, and the messages in `next` are composed.                            *)
At(j, what) == todo[j] # <<>> /\ todo[j][1][1] = what
About(j) == todo[j][1][2]
Do(j, next) ==
  /\ todo' = [todo EXCEPT ![j] = next \o Tail(@)]
  /\ tries' = [tries EXCEPT ![j] = 0]
  /\ Composed(next)

(***************************************************************************)
(* The scheduler                                                           *)
(***************************************************************************)

(* The body of each job, as far as it is known at its start.  generate()   *)
(* of the FX reporter sends the report, and then the job sends it.         *)
Plan(j) ==
  CASE j = "monthly"  -> [i \in 1 .. Cardinality(Events) |-> <<"check", SetToSeq(Events)[i]>>]
    [] j = "brief"    -> (IF polling THEN <<<<"fetch", 0>>>> ELSE <<>>) \o <<<<"brief", 0>>>>
    [] j = "rss"      -> IF polling THEN <<<<"fetch", 0>>>> ELSE <<>>
    [] j = "usnews"   -> IF polling THEN <<<<"usfetch", 0>>>> ELSE <<>>
    [] j = "fx"       -> <<<<"rate", 0>>>>
    [] j = "earnings" -> <<<<"earnings", 0>>>>
    [] j = "report"   -> <<<<"report", 0>>, <<"report", 0>>>>

Fire(j) ==
  /\ StartsAt(j) = Hours[hour] /\ todo[j] = <<>>
  /\ \/ j \in Cron \ fired /\ fired' = fired \union {j} /\ UNCHANGED polls
     \/ j \in Interval /\ polls < MaxPolls /\ polls' = polls + 1 /\ UNCHANGED fired
  /\ todo' = [todo EXCEPT ![j] = Plan(j)]
  /\ Composed(Plan(j))
  /\ UNCHANGED <<day, hour, open, polling, wiring, tries, letters, seen, base, calendar, astray, faults, restarts>>

(* Time passes, through outages, with dead letters, and over the jobs of   *)
(* Late that have a list to work on.  The feeds and the rate are read      *)
(* within the hour (time-outs of 10 s).  What is due has started, unless   *)
(* the one before still runs (max_instances).                              *)
Busy == {j \in Jobs : todo[j] # <<>>}
Reads == {"fetch", "mark", "usfetch", "rate"}

Tick ==
  /\ (day - 1) * Len(Hours) + hour < MaxHours
  /\ Busy \subseteq Late /\ \A j \in Busy : todo[j][1][1] \notin Reads
  /\ \A j \in Cron \ fired : StartsAt(j) = Hours[hour] => j \in Busy
  /\ IF hour < Len(Hours)
     THEN hour' = hour + 1 /\ UNCHANGED <<day, fired, polls, open>>
     ELSE day' = day + 1 /\ hour' = 1 /\ fired' = {} /\ polls' = 0 /\ open' \in Rates \ {0}
  /\ UNCHANGED <<polling, wiring, todo, tries, letters, made, seen, base, calendar, astray, faults, restarts>>

(* An exception ends a job: SQLite in fetch, yfinance in the rate.  Only   *)
(* the morning's brief has a message to come, and tells of it.             *)
JobFails(j) ==
  /\ Fault /\ \E what \in {"fetch", "mark", "rate"} : At(j, what)
  /\ LET next == IF j = "brief" THEN <<<<"escalation", 0>>>> ELSE <<>>
     IN /\ todo' = [todo EXCEPT ![j] = next]
        /\ owed' = [m \in Messages |-> owed[m] - Copies(todo[j], m) + Copies(next, m)]
        /\ gone' = IF j = "brief" THEN gone \union {"job"} ELSE gone
  /\ astray' = astray \union ToSet(todo[j])
  /\ UNCHANGED <<clock, alerted, tries, letters, seen, base, calendar, restarts>>

(***************************************************************************)
(* News                                                                    *)
(***************************************************************************)

(* fetch(): old marks are deleted (24 h are over for some of another day), *)
(* and the feeds are read.                                                 *)
RssFetch(j) ==
  /\ At(j, "fetch")
  /\ \E old \in SUBSET {n \in News : seen[n] \in 1 .. day - 1}, items \in SUBSET News :
       /\ seen' = [n \in News |-> IF n \in old THEN 0 ELSE seen[n]]
       /\ Do(j, [i \in 1 .. Cardinality(items) |-> <<"mark", SetToSeq(items)[i]>>])
  /\ UNCHANGED <<clock, letters, base, calendar, astray, faults, restarts>>

(* What to do with the new items comes after all marks, and before the     *)
(* brief of the day.                                                       *)
Later(s, w) ==
  LET n == Cardinality({i \in DOMAIN s : s[i][1] # "brief"}) IN InsertAt(s, n + 1, w)

(* _is_seen and _mark_seen; no two fetches overlap.                        *)
MarkSeen(j) ==
  /\ At(j, "mark")
  /\ LET n == About(j)
     IN IF seen[n] = 0
        THEN /\ seen' = [seen EXCEPT ![n] = day]
             /\ todo' = [todo EXCEPT ![j] = Later(Tail(@), <<"item", n>>)]
        ELSE todo' = [todo EXCEPT ![j] = Tail(@)] /\ UNCHANGED seen
  /\ UNCHANGED <<clock, tries, letters, made, base, calendar, astray, faults, restarts>>

(* Finnhub, with its own retries: the items of the week or nothing, and no *)
(* memory of the ones that were told already.                              *)
UsFetch ==
  /\ At("usnews", "usfetch")
  /\ \E items \in {{}, UsNews} :
       Do("usnews", [i \in 1 .. Cardinality(items) |-> <<"item", SetToSeq(items)[i]>>])
  /\ UNCHANGED <<clock, letters, seen, base, calendar, astray, faults, restarts>>

(* Bug: no alert is made of what Claude finds HIGH.                        *)
Classify_Drops(j) ==
  /\ At(j, "item")
  /\ Do(j, <<>>)
  /\ UNCHANGED <<clock, letters, seen, base, calendar, astray, faults, restarts>>

(* classify(): every item here is worth an alert if Claude answers.  The   *)
(* fallback by keywords never finds more than MEDIUM, which is no alert.   *)
Classify(j) ==
  /\ At(j, "item")
  /\ \/ Do(j, <<<<"news", About(j)>>>>) /\ UNCHANGED <<astray, faults>>
     \/ Fault /\ Do(j, <<>>) /\ astray' = astray \union {todo[j][1]}
  /\ UNCHANGED <<clock, letters, seen, base, calendar, restarts>>

(***************************************************************************)
(* The exchange rate                                                       *)
(***************************************************************************)

Abs(n) == IF n < 0 THEN -n ELSE n
Moved(rate, from) == rate # 0 /\ from # 0 /\ Abs(rate - from) >= 1

(* Bug: the newest price of the day instead of its first.                  *)
FirstBase_Newest(rate) == {[rate |-> r, of |-> day] : r \in Rates} \union {[rate |-> rate, of |-> 0]}

(* The base, when there is none: the day's first price by yfinance, which  *)
(* may have no data for this pair, or the current rate if the history      *)
(* cannot be read (provisional).                                           *)
FirstBase(rate) ==
  {[rate |-> open, of |-> day], [rate |-> 0, of |-> day], [rate |-> rate, of |-> 0]}

(* check_and_alert: the base is set once per process.                      *)
FxCheck ==
  /\ At("fx", "rate")
  /\ \E rate \in Rates :
       /\ base' \in IF base = NoBase THEN FirstBase(rate) ELSE {base}
       /\ Do("fx", IF Moved(rate, base'.rate) THEN <<<<"fx", rate>>>> ELSE <<>>)
  /\ UNCHANGED <<clock, letters, seen, calendar, astray, faults, restarts>>

(***************************************************************************)
(* Sending                                                                 *)
(***************************************************************************)

Sending(j) == todo[j] # <<>> /\ todo[j][1] \in Messages

(* The first thing j has to do is off its list.                            *)
Settled(j) ==
  /\ todo' = [todo EXCEPT ![j] = Tail(@)] /\ tries' = [tries EXCEPT ![j] = 0]
  /\ UNCHANGED alerted

NoLongerOwed(j) == owed' = [owed EXCEPT ![todo[j][1]] = @ - 1]

(* Bug: the last attempt failed, and the message is dropped.               *)
Failed_Drops(j) ==
  IF tries[j] + 1 < Retries
  THEN tries' = [tries EXCEPT ![j] = @ + 1] /\ UNCHANGED <<todo, made, dlq>>
  ELSE Settled(j) /\ UNCHANGED <<owed, gone, dlq>>

(* Bug: the dead letters have no bound.                                    *)
Failed_Unbounded(j) ==
  IF tries[j] + 1 < Retries
  THEN tries' = [tries EXCEPT ![j] = @ + 1] /\ UNCHANGED <<todo, made, dlq>>
  ELSE Settled(j) /\ dlq' = Append(dlq, todo[j][1]) /\ UNCHANGED <<owed, gone>>

(* A message that failed Retries times goes to the dead letters.           *)
Failed(j) ==
  IF tries[j] + 1 < Retries
  THEN tries' = [tries EXCEPT ![j] = @ + 1] /\ UNCHANGED <<todo, made, dlq>>
  ELSE /\ Settled(j)
       /\ IF Len(dlq) < DlqMax
          THEN dlq' = Append(dlq, todo[j][1]) /\ UNCHANGED <<owed, gone>>
          ELSE NoLongerOwed(j) /\ gone' = gone \union {"letters full"} /\ UNCHANGED dlq

(* The send() of a TelegramNotifier only queues: it raises nothing, and    *)
(* nobody runs the queue.                                                  *)
Queued(j) ==
  /\ Settled(j)
  /\ IF Len(waiting) < QueueMax
     THEN waiting' = Append(waiting, todo[j][1]) /\ UNCHANGED <<owed, gone>>
     ELSE NoLongerOwed(j) /\ gone' = gone \union {"queue full"} /\ UNCHANGED waiting

(* One round of _send_text.  An error may hide that the message came       *)
(* through: then it is sent again.                                         *)
SendText(j) ==
  /\ Sending(j)
  /\ \/ /\ wiring = "direct" /\ ~down
        /\ Settled(j) /\ NoLongerOwed(j) /\ UNCHANGED <<gone, dlq, waiting, faults>>
     \/ wiring = "direct" /\ down /\ Failed(j) /\ UNCHANGED <<waiting, faults>>
     \/ wiring = "direct" /\ ~down /\ Fault /\ Failed(j) /\ UNCHANGED waiting
     \/ wiring = "queued" /\ Queued(j) /\ UNCHANGED <<dlq, faults>>
  /\ UNCHANGED <<clock, down, seen, base, calendar, astray, restarts>>

(* Bug: the loop is switched off together with the news.                   *)
RetryDlq_WithNews ==
  /\ polling /\ todo["dlq"] = <<>> /\ dlq # <<>>
  /\ todo' = [todo EXCEPT !["dlq"] = dlq] /\ dlq' = <<>>
  /\ UNCHANGED <<clock, tries, down, waiting, made, seen, base, calendar, astray, faults, restarts>>

(* retry_dlq takes all dead letters over before it sends the first.        *)
RetryDlq ==
  /\ todo["dlq"] = <<>> /\ dlq # <<>>
  /\ todo' = [todo EXCEPT !["dlq"] = dlq] /\ dlq' = <<>>
  /\ UNCHANGED <<clock, tries, down, waiting, made, seen, base, calendar, astray, faults, restarts>>

Outage ==
  /\ Fault /\ ~down /\ down' = TRUE
  /\ UNCHANGED <<clock, todo, tries, dlq, waiting, made, seen, base, calendar, astray, restarts>>

Heal ==
  /\ down /\ down' = FALSE
  /\ UNCHANGED <<clock, todo, tries, dlq, waiting, made, seen, base, calendar, astray, faults, restarts>>

(***************************************************************************)
(* The calendar                                                            *)
(***************************************************************************)

(* Bug: no look for the entry before it is added.                          *)
CheckEntry_Never ==
  /\ At("monthly", "check")
  /\ Do("monthly", <<<<"add", About("monthly")>>>>)
  /\ UNCHANGED <<clock, letters, seen, base, calendar, astray, faults, restarts>>

(* Is it there already?  If the question fails it is added anyway.         *)
CheckEntry ==
  /\ At("monthly", "check")
  /\ LET e == About("monthly")
     IN \/ /\ Do("monthly", IF calendar[e] > 0 THEN <<>> ELSE <<<<"add", e>>>>)
           /\ UNCHANGED <<astray, faults>>
        \/ /\ Fault /\ Do("monthly", <<<<"add", e>>>>)
           /\ astray' = astray \union {<<"add", e>>}
  /\ UNCHANGED <<clock, letters, seen, base, calendar, restarts>>

(* add_event with its retries; an answer may be lost, and what was added   *)
(* is then added again.                                                    *)
AddEntry ==
  /\ At("monthly", "add")
  /\ LET e == About("monthly")
         again == IF tries["monthly"] + 1 < Retries
                  THEN tries' = [tries EXCEPT !["monthly"] = @ + 1] /\ UNCHANGED <<todo, made>>
                  ELSE Do("monthly", <<>>)
     IN \/ /\ calendar' = [calendar EXCEPT ![e] = @ + 1] /\ Do("monthly", <<>>)
           /\ UNCHANGED <<astray, faults>>
        \/ /\ Fault /\ again /\ calendar' \in {calendar, [calendar EXCEPT ![e] = @ + 1]}
           /\ astray' = astray \union {<<"add", e>>}
  /\ UNCHANGED <<clock, letters, seen, base, restarts>>

(***************************************************************************)
(* The process                                                             *)
(***************************************************************************)

(* All messages under way are given up, and the notice is composed.        *)
Stopped ==
  /\ owed' = [m \in Messages |-> owed[m] - UnderWay(m) + OwedAtStart(polling)[m]]
  /\ gone' = IF \E m \in Messages : UnderWay(m) > 0 THEN gone \union {"stop"} ELSE gone
  /\ UNCHANGED alerted

(* Bug: the marks are kept in memory.                                      *)
Restart_Forgets ==
  /\ restarts < MaxRestarts /\ restarts' = restarts + 1
  /\ todo' = Started(polling) /\ tries' = [j \in Jobs |-> 0] /\ Stopped
  /\ dlq' = <<>> /\ waiting' = <<>> /\ base' = NoBase /\ seen' = [n \in News |-> 0]
  /\ astray' = astray \union {w \in UNION {ToSet(todo[j]) : j \in Jobs} : w[1] \in {"item", "add"}}
  /\ UNCHANGED <<clock, down, calendar, faults>>

(* stop() cancels the jobs and the loop wherever they are, or the process  *)
(* crashes; it starts again with the marks and the calendar only, and all  *)
(* messages under way are gone: the letters, what the loop had taken over  *)
(* of them, and what was queued.                                           *)
Restart ==
  /\ restarts < MaxRestarts /\ restarts' = restarts + 1
  /\ todo' = Started(polling) /\ tries' = [j \in Jobs |-> 0] /\ Stopped
  /\ dlq' = <<>> /\ waiting' = <<>> /\ base' = NoBase
  /\ astray' = astray \union {w \in UNION {ToSet(todo[j]) : j \in Jobs} : w[1] \in {"item", "add"}}
  /\ UNCHANGED <<clock, down, seen, calendar, faults>>

Step(j) == RssFetch(j) \/ MarkSeen(j) \/ Classify(j) \/ SendText(j)

Next ==
  \/ \E j \in Cron \union Interval : Fire(j)
  \/ \E j \in Jobs : Step(j) \/ JobFails(j)
  \/ Tick \/ UsFetch \/ FxCheck \/ CheckEntry \/ AddEntry
  \/ RetryDlq \/ Outage \/ Heal \/ Restart

Spec == Init /\ [][Next]_vars

(* The event loop runs what can run, and an outage ends.                   *)
Fairness ==
  /\ \A j \in Jobs : WF_vars(Step(j))
  /\ WF_vars(UsFetch) /\ WF_vars(FxCheck) /\ WF_vars(CheckEntry) /\ WF_vars(AddEntry)
  /\ WF_vars(RetryDlq) /\ WF_vars(Heal)

FairSpec == Spec /\ Fairness

(***************************************************************************)
(* Properties                                                              *)
(***************************************************************************)

Works ==
  Messages \union ({"fetch", "usfetch", "rate"} \X {0}) \union ({"mark"} \X News)
    \union ({"item"} \X (News \union UsNews)) \union ({"check", "add"} \X Events)

(* Types, and the dead letters within their bound.                         *)
TypeOK ==
  /\ day \in Nat \ {0} /\ hour \in DOMAIN Hours /\ fired \subseteq Cron /\ polls \in Nat
  /\ open \in Rates /\ polling \in BOOLEAN /\ wiring \in Wirings /\ down \in BOOLEAN
  /\ todo \in [Jobs -> Seq(Works)] /\ tries \in [Jobs -> 0 .. Retries - 1]
  /\ dlq \in Seq(Messages) /\ Len(dlq) <= DlqMax
  /\ waiting \in Seq(Messages) /\ Len(waiting) <= QueueMax
  /\ owed \in [Messages -> Nat] /\ gone \subseteq Ways /\ alerted \in [News -> Nat] /\ astray \subseteq Works
  /\ seen \in [News -> Nat] /\ base \in [rate : Rates, of : Nat \union {-1}] /\ calendar \in [Events -> Nat]

(* The books of the messages, over all restarts and in both wirings: each  *)
(* composed message is under way until it is delivered or given up in one  *)
(* of the four ways; no other step, retry, dead letter or round of the     *)
(* loop loses or doubles one.  A notifier that raises its errors gives     *)
(* nothing up without a fault or a stop.  The one start() wraps raises     *)
(* none and is not run: no message is ever delivered, and what its full    *)
(* queue refuses never gets to the dead letters.                           *)
MessagesAccounted ==
  /\ \A m \in Messages : owed[m] = UnderWay(m)
  /\ wiring = "direct" /\ faults = 0 /\ restarts = 0 => gone = {}
  /\ wiring = "queued" => dlq = <<>> /\ "letters full" \notin gone

(* A mark silences an item for good, so a marked item has been alerted, is *)
(* on its way to Claude, or was given up: by a failed job, a stop, or the  *)
(* fallback while Claude did not answer.                                   *)
MarkedAreHandled ==
  \A n \in News : seen[n] # 0 =>
    alerted[n] > 0 \/ <<"item", n>> \in astray \/ ToDo(<<"item", n>>) > 0

(* An item of the feeds is alerted once in 24 hours, and an entry is in    *)
(* the calendar once, over polls, months and restarts, unless the calendar *)
(* failed to answer.                                                       *)
NothingTwice ==
  /\ \A n \in News : alerted[n] <= day
  /\ \A e \in Events : <<"add", e>> \notin astray => calendar[e] <= 1

(* An FX alert is about a move since today's opening, as long as the base  *)
(* is of today: the first price of the history, whenever the process came  *)
(* up.                                                                     *)
FxAlertsAreOfToday ==
  [][\A r \in Rates :
       owed'[<<"fx", r>>] > owed[<<"fx", r>>] /\ base'.of = day =>
         Moved(r, open)]_vars

(* Whatever happens, all that was started is done again and again, and no  *)
(* letter stays dead: outages end, and the loop comes back.  It says       *)
(* nothing of what a wrapped TelegramNotifier has queued.                  *)
AllSettled == []<>(dlq = <<>> /\ \A j \in Jobs : todo[j] = <<>>)

(***************************************************************************)
(* The inductive invariant behind the safety properties                    *)
(***************************************************************************)

(* An item's alerts, made and still to come, are one a day at most: today  *)
(* only of an item that was marked today.                                  *)
MarksInv ==
  \A n \in News :
    /\ seen[n] <= day
    /\ alerted[n] + ToDo(<<"item", n>>) <= IF seen[n] = day THEN day ELSE day - 1

(* An entry is added right after the look for it, and was not there.       *)
NoAdds(works) == \A i \in DOMAIN works : works[i][1] # "add"
CalendarInv ==
  todo["monthly"] # <<>> =>
    /\ NoAdds(Tail(todo["monthly"]))
    /\ \A e \in Events :
         todo["monthly"][1] = <<"add", e>> /\ <<"add", e>> \notin astray => calendar[e] = 0

(* A base of today is today's opening, or there is none.                   *)
BaseInv == base.of <= day /\ (base.of = day => base.rate \in {open, 0})

IInv ==
  /\ TypeOK /\ MessagesAccounted /\ MarkedAreHandled /\ MarksInv
  /\ faults \in Nat /\ restarts \in Nat /\ (down => faults > 0)
  /\ CalendarInv /\ (\A e \in Events : <<"add", e>> \notin astray => calendar[e] <= 1)
  /\ BaseInv

=============================================================================
