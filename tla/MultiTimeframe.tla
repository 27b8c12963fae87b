--------------------------- MODULE MultiTimeframe ---------------------------
(***************************************************************************)
(* MultiTimeframeLoader: four views of one stock's candles, each kept for  *)
(* its own time.  The daily frame is settled first; the weekly and monthly *)
(* ones are resampled from the daily candles in the cache, the hourly one  *)
(* is put together from minutes.  A frame that cannot be read keeps what   *)
(* the cache has, however old.  TimeframeJudge reads a direction off each. *)
(*                                                                         *)
(* A frame is the number of its candles and the minute their data are of;  *)
(* what its CCI says is chosen when a tick looks.                          *)
(***************************************************************************)
EXTENDS Integers, FiniteSets, FiniteSetsExt

CONSTANTS
  Ttl,            \* minutes a frame is kept: daily 5, weekly 30, monthly 60, 60min 1
  DayCounts,      \* numbers of daily candles Toss answers with, 500 at most
  MinuteCounts,   \* numbers of one-minute candles, 3600 at most
  LastMinute,     \* bound: the last minute
  MaxFailures     \* bound: requests that fail

Resampled == {"weekly", "monthly"}
Frames    == Resampled \cup {"daily", "60min"}

ASSUME FrameAssumption ==
  /\ Ttl \in [Frames -> Nat \ {0}]
  /\ DayCounts \subseteq 0 .. 500 /\ MinuteCounts \subseteq 0 .. 3600
  /\ {LastMinute, MaxFailures} \subseteq Nat

VARIABLES
  now,       \* minutes
  cache,     \* _cache of the symbol
  load,      \* the call of load() under way: when it began and what it waits for
  frames,    \* what the last successful load returned, with the time it began
  failures   \* requests that failed so far

mtf == <<now, cache, load, frames, failures>>

Absent == [candles |-> 0, at |-> -1, until |-> -1]   \* no entry, or is_empty
Idle   == [began |-> -1, waits |-> "nothing"]
None   == [began |-> -1, of |-> [f \in Frames |-> Absent]]

Period == 20   \* of the CCI and of its signal line

\* Candles of a frame from n days, or from n minutes.  A week has five days
\* and a month 21; an hour that is not complete is left out.
CandleCount(f, n) ==
  IF n = 0 THEN 0
  ELSE CASE f = "daily"   -> n
         [] f = "weekly"  -> n \div 5 + 1
         [] f = "monthly" -> n \div 21 + 1
         [] f = "60min"   -> n \div 60

\* calculate_cci and its signal line each use up 19 candles; the CCI is cut
\* to the length of the signal line.
CciLength(n) == Max({0, n - 2 * (Period - 1)})

\* What TimeframeJudge makes of a frame of so many candles, its CCI being
\* above its signal line, and for the month above zero, when "up".
Assess(candles, up) ==
  IF CciLength(candles) < Period THEN "neutral" ELSE IF up THEN "bullish" ELSE "bearish"

MtfInit == /\ now = 0 /\ cache = [f \in Frames |-> Absent] /\ load = Idle
           /\ frames = None /\ failures = 0

Loaded(f) == cache[f] # Absent
\* For comparison: the last minute is still good.
Fresh_Late(f) == Loaded(f) /\ load.began <= cache[f].until
Fresh(f) == Loaded(f) /\ load.began < cache[f].until

\* A frame computed now from n days or minutes whose data are of minute "at".
Computed(f, n, at) == [candles |-> CandleCount(f, n), at |-> at, until |-> load.began + Ttl[f]]

Minute == now < LastMinute /\ now' = now + 1 /\ UNCHANGED <<cache, load, frames, failures>>

LoadBegins == /\ load = Idle /\ load' = [began |-> now, waits |-> "daily"]
              /\ UNCHANGED <<now, cache, frames, failures>>

\* The weekly and monthly frames, from the daily candles in the cache as they
\* are, expired or not.  No daily candles, no weeks: the old frame stays.
Resample(c, f) ==
  IF Fresh(f) \/ c["daily"].candles = 0 THEN c[f] ELSE Computed(f, c["daily"].candles, c["daily"].at)

\* The daily frame from the cache or from Toss; then, in the same breath, the
\* frames resampled from it.
DailySettled ==
  /\ load.waits = "daily"
  /\ \E c \in {cache} \cup {[cache EXCEPT !["daily"] = Computed("daily", n, now)] : n \in DayCounts} :
       /\ Fresh("daily") => c = cache
       /\ c = cache /\ ~Fresh("daily") => failures < MaxFailures
       /\ failures' = failures + (IF c = cache /\ ~Fresh("daily") THEN 1 ELSE 0)
       /\ cache' = IF c["daily"] = Absent THEN c
                   ELSE [f \in Frames |-> IF f \in Resampled THEN Resample(c, f) ELSE c[f]]
  /\ load' = [load EXCEPT !.waits = "rest"]
  /\ UNCHANGED <<now, frames>>

\* Without any daily candles each resampled frame asks Toss for them itself,
\* and is kept although load() then fails for want of the daily frame.
OwnDays(f) ==
  IF Loaded("daily") \/ Fresh(f) THEN {cache[f]}
  ELSE {cache[f]} \cup {Computed(f, n, now) : n \in DayCounts \ {0}}
Hours ==
  IF Fresh("60min") THEN {cache["60min"]}
  ELSE {cache["60min"]} \cup {Computed("60min", n, now) : n \in {m \in MinuteCounts : m >= 60}}

\* The frames whose request failed: they are not fresh and have not changed.
Refused(week, month, hour) ==
  {f \in Frames : \/ f = "weekly"  /\ week = cache[f]  /\ ~Loaded("daily") /\ ~Fresh(f)
                  \/ f = "monthly" /\ month = cache[f] /\ ~Loaded("daily") /\ ~Fresh(f)
                  \/ f = "60min"   /\ hour = cache[f]  /\ ~Fresh(f)}

\* The last answers; load() returns the frames there are, or fails.
LoadEnds ==
  /\ load.waits = "rest"
  /\ \E week \in OwnDays("weekly"), month \in OwnDays("monthly"), hour \in Hours :
       /\ failures' = failures + Cardinality(Refused(week, month, hour))
       /\ failures' <= MaxFailures
       /\ cache' = [cache EXCEPT !["weekly"] = week, !["monthly"] = month, !["60min"] = hour]
  /\ load' = Idle
  /\ frames' = IF Loaded("daily") THEN [began |-> load.began, of |-> cache'] ELSE frames
  /\ UNCHANGED now

MtfNext == Minute \/ LoadBegins \/ DailySettled \/ LoadEnds

FrameType == [candles : Nat, at : -1 .. LastMinute, until : Int]

MtfTypeOK ==
  /\ now \in 0 .. LastMinute /\ failures \in 0 .. MaxFailures
  /\ cache \in [Frames -> FrameType]
  /\ load.began \in -1 .. now /\ load.waits \in {"nothing", "daily", "rest"}
  /\ frames.began \in -1 .. now /\ frames.of \in [Frames -> FrameType]

(***************************************************************************)
(* The frames a load returns fit together: no week or month knows of data  *)
(* the daily frame does not have, and as long as no request has failed a   *)
(* frame is no older than its own time to live, or, when resampled, than   *)
(* that and the daily frame's (_load_timeframe, _fetch_and_compute_weekly).*)
(***************************************************************************)
FramesAligned ==
  LET of == frames.of
      Age(f) == frames.began - of[f].at
  IN frames # None =>
       /\ \A f \in Resampled : of[f].at <= of["daily"].at
       /\ failures = 0 =>
            /\ Age("daily") < Ttl["daily"] /\ Age("60min") < Ttl["60min"]
            /\ \A f \in Resampled : of["daily"].candles > 0 => Age(f) < Ttl["daily"] + Ttl[f] - 1

(***************************************************************************)
(* What makes it inductive: an entry is no older than its expiry tells, a  *)
(* resampled one by the age its days may have had, and while nothing has   *)
(* failed the rest of a load looks at fresh frames.                        *)
(***************************************************************************)
CacheInv ==
  /\ \A f \in Frames : cache[f].at <= now /\ (Loaded(f) => cache[f].at >= 0)
  /\ \A f \in Frames \ Resampled : Loaded(f) => cache[f].until <= cache[f].at + Ttl[f]
  /\ \A f \in Resampled :
       /\ Loaded("daily") => cache[f].at <= cache["daily"].at
       /\ failures = 0 /\ Loaded(f) => cache[f].until < cache[f].at + Ttl[f] + Ttl["daily"]
  /\ load.began <= now
  /\ load.waits = "rest" /\ failures = 0 =>
       /\ Loaded("daily") /\ Fresh("daily")
       /\ cache["daily"].candles > 0 => \A f \in Resampled : Fresh(f)

FrameInv ==
  /\ now \in 0 .. LastMinute /\ failures \in 0 .. MaxFailures
  /\ cache \in [Frames -> FrameType] /\ frames \in [began : Int, of : [Frames -> FrameType]]
  /\ load \in [began : Int, waits : {"nothing", "daily", "rest"}]
  /\ load.waits = "nothing" \/ load.began >= 0
  /\ CacheInv
  /\ FramesAligned
=============================================================================
