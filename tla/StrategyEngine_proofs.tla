------------------------ MODULE StrategyEngine_proofs ------------------------
(***************************************************************************)
(* The leverage/inverse strategy behind its engine, for every unit, every  *)
(* set of readings, any number of candles, ticks and faults.  The argument *)
(* is about one reading: what makes the strategy enter contradicts what    *)
(* makes it leave, so a reading is used up after an exit and an entry.     *)
(* Before it, the frames of MultiTimeframeLoader, for any times to live,   *)
(* answers, delays and failures: every step of the loader keeps FrameInv.  *)
(***************************************************************************)
EXTENDS StrategyEngine, FiniteSetTheorems, TLAPS

(***************************************************************************)
(* The frames                                                              *)
(***************************************************************************)

LEMMA TtlIsPositive == \A f \in Frames : Ttl[f] \in Nat /\ Ttl[f] >= 1
  BY FrameAssumption

LEMMA FrameNames == "daily" \in Frames /\ "60min" \in Frames /\ Resampled \subseteq Frames
                    /\ "daily" \notin Resampled /\ "60min" \notin Resampled
                    /\ Frames \ Resampled = {"daily", "60min"}
  BY DEF Frames, Resampled

(* A set of frames has a number of elements, none if it is empty.          *)
LEMMA FrameCount ==
  ASSUME NEW S \in SUBSET Frames
  PROVE  Cardinality(S) \in Nat /\ (Cardinality(S) = 0 => S = {})
<1>1. IsFiniteSet({"weekly"})
  BY FS_Singleton
<1>2. IsFiniteSet({"weekly"} \cup {"monthly"})
  BY <1>1, FS_AddElement
<1>3. IsFiniteSet({"weekly"} \cup {"monthly"} \cup {"daily"})
  BY <1>2, FS_AddElement
<1>4. IsFiniteSet({"weekly"} \cup {"monthly"} \cup {"daily"} \cup {"60min"})
  BY <1>3, FS_AddElement
<1>5. Frames = {"weekly"} \cup {"monthly"} \cup {"daily"} \cup {"60min"}
  BY DEF Frames, Resampled
<1>6. IsFiniteSet(S)
  BY <1>4, <1>5, FS_Subset
<1> QED
  BY <1>6, FS_CardinalityType, FS_EmptySet

LEMMA InitFrames == MtfInit => FrameInv
<1> SUFFICES ASSUME MtfInit PROVE FrameInv
  OBVIOUS
<1>1. Absent \in FrameType
  BY FrameAssumption DEF Absent, FrameType
<1>2. \A f \in Frames : cache[f] = Absent
  BY DEF MtfInit
<1>3. CacheInv
  BY <1>2, FrameNames DEF MtfInit, CacheInv, Loaded, Absent, Idle
<1>4. FramesAligned
  BY DEF MtfInit, FramesAligned
<1>5. now \in 0 .. LastMinute /\ failures \in 0 .. MaxFailures
  BY FrameAssumption DEF MtfInit
<1> QED
  BY <1>1, <1>3, <1>4, <1>5 DEF MtfInit, FrameInv, None, Idle

(* A frame computed during a load that began at b.                         *)
LEMMA ComputedIs ==
  ASSUME FrameInv, load.began >= 0, NEW f \in Frames, NEW n \in Nat, NEW at \in 0 .. now
  PROVE  LET c == Computed(f, n, at)
         IN  /\ c \in FrameType /\ c # Absent /\ c.at = at /\ c.until = load.began + Ttl[f]
             /\ load.began < c.until /\ load.began \in Nat /\ load.began <= now
<1>1. CandleCount(f, n) \in Nat
  BY DEF CandleCount, Frames, Resampled
<1>2. load.began \in Nat /\ load.began <= now /\ now \in 0 .. LastMinute
  BY DEF FrameInv, CacheInv
<1>3. Ttl[f] \in Nat /\ Ttl[f] >= 1 /\ LastMinute \in Nat
  BY TtlIsPositive, FrameAssumption
<1>4. at \in -1 .. LastMinute /\ at # -1
  BY <1>2, <1>3
<1> QED
  BY <1>1, <1>2, <1>3, <1>4 DEF Computed, FrameType, Absent

LEMMA MinuteKeeps == FrameInv /\ Minute => FrameInv'
<1> SUFFICES ASSUME FrameInv, Minute PROVE FrameInv'
  OBVIOUS
<1>1. now' = now + 1 /\ UNCHANGED <<cache, load, frames, failures>> /\ now' \in 0 .. LastMinute /\ now \in Int
  BY FrameAssumption DEF Minute, FrameInv
<1>2. \A f \in Frames : cache[f].at \in Int
  BY DEF FrameInv, FrameType
<1>3. CacheInv'
  BY <1>1, <1>2 DEF FrameInv, CacheInv, Loaded, Fresh
<1> QED
  BY <1>1, <1>3 DEF FrameInv, FramesAligned

LEMMA LoadBeginsKeeps == FrameInv /\ LoadBegins => FrameInv'
<1> SUFFICES ASSUME FrameInv, LoadBegins PROVE FrameInv'
  OBVIOUS
<1>1. load' = [began |-> now, waits |-> "daily"] /\ UNCHANGED <<now, cache, frames, failures>> /\ now \in Nat
  BY DEF LoadBegins, FrameInv
<1>2. CacheInv'
  BY <1>1 DEF FrameInv, CacheInv, Loaded
<1> QED
  BY <1>1, <1>2 DEF FrameInv, FramesAligned

(* The daily frame is settled; the old one stays when it is fresh or the   *)
(* request fails.                                                          *)
LEMMA DailySettledKeeps == FrameInv /\ DailySettled => FrameInv'
<1> SUFFICES ASSUME FrameInv, DailySettled PROVE FrameInv'
  OBVIOUS
<1>0. /\ load.waits = "daily" /\ load' = [load EXCEPT !.waits = "rest"] /\ UNCHANGED <<now, frames>>
      /\ load.began \in Nat /\ load.began <= now /\ now \in 0 .. LastMinute /\ failures \in Nat
      /\ cache \in [Frames -> FrameType]
  BY DEF DailySettled, FrameInv, CacheInv
<1>1. PICK c \in {cache} \cup {[cache EXCEPT !["daily"] = Computed("daily", n, now)] : n \in DayCounts} :
        /\ Fresh("daily") => c = cache
        /\ c = cache /\ ~Fresh("daily") => failures < MaxFailures
        /\ failures' = failures + (IF c = cache /\ ~Fresh("daily") THEN 1 ELSE 0)
        /\ cache' = IF c["daily"] = Absent THEN c
                    ELSE [f \in Frames |-> IF f \in Resampled THEN Resample(c, f) ELSE c[f]]
  BY DEF DailySettled
<1>2. /\ failures' \in 0 .. MaxFailures
      /\ failures' = 0 => failures = 0 /\ (c = cache => Fresh("daily"))
  BY <1>0, <1>1, FrameAssumption DEF FrameInv
<1>3. load'.began = load.began /\ load'.waits = "rest" /\ load' \in [began : Int, waits : {"nothing", "daily", "rest"}]
  BY <1>0 DEF FrameInv
<1> DEFINE d == c["daily"]
<1>4. /\ c \in [Frames -> FrameType] /\ \A f \in Frames \ {"daily"} : c[f] = cache[f]
      /\ c = cache \/ d # Absent
      /\ d.at <= now /\ (d # Absent => d.at >= 0 /\ d.until <= d.at + Ttl["daily"])
      /\ d # Absent => \A f \in Resampled : cache[f].at <= d.at
      /\ failures' = 0 => d # Absent /\ load.began < d.until
  <2>1. CASE c = cache
    BY <1>0, <1>2, <2>1, FrameNames DEF FrameInv, CacheInv, Loaded, Fresh
  <2>2. CASE c # cache
    <3>1. PICK n \in DayCounts : c = [cache EXCEPT !["daily"] = Computed("daily", n, now)]
      BY <1>1, <2>2
    <3>2. n \in Nat /\ now \in 0 .. now
      BY <1>0, FrameAssumption
    <3>3. LET e == Computed("daily", n, now)
          IN  /\ e \in FrameType /\ e # Absent /\ e.at = now /\ e.until = load.began + Ttl["daily"]
              /\ load.began < e.until
      BY <1>0, <3>2, FrameNames, ComputedIs
    <3>4. d = Computed("daily", n, now) /\ \A f \in Frames \ {"daily"} : c[f] = cache[f]
      BY <1>0, <3>1, FrameNames
    <3>5. \A f \in Frames : cache[f].at <= now
      BY DEF FrameInv, CacheInv
    <3>6. c \in [Frames -> FrameType]
      BY <1>0, <3>1, <3>3
    <3> HIDE DEF d
    <3>7. d.until <= d.at + Ttl["daily"]
      BY <1>0, <3>3, <3>4, TtlIsPositive, FrameNames
    <3> QED
      BY <1>0, <3>3, <3>4, <3>5, <3>6, <3>7, FrameNames
  <2> QED
    BY <2>1, <2>2
<1> HIDE DEF d
<1>5. d \in FrameType /\ c["daily"] = d
  BY <1>4, FrameNames DEF d
<1>6. CASE d = Absent
  <2>1. cache' = c
    BY <1>1, <1>5, <1>6
  <2>2. c = cache
    BY <1>4, <1>6
  <2>3. failures' # 0
    BY <1>4, <1>6
  <2>4. CacheInv'
    BY <1>0, <1>2, <1>3, <2>1, <2>2, <2>3 DEF FrameInv, CacheInv, Loaded
  <2>5. FramesAligned'
    BY <1>0, <2>3 DEF FrameInv, FramesAligned
  <2> QED
    BY <1>0, <1>2, <1>3, <1>4, <2>1, <2>4, <2>5 DEF FrameInv
<1>7. CASE d # Absent
  <2>1. cache' = [f \in Frames |-> IF f \in Resampled THEN Resample(c, f) ELSE c[f]]
    BY <1>1, <1>5, <1>7
  <2>2. cache'["daily"] = d /\ cache'["60min"] = cache["60min"]
    BY <1>4, <1>5, <2>1, FrameNames
  <2>3. \A f \in Frames \ Resampled : cache'[f] = c[f]
    BY <2>1
  <2>4. ASSUME NEW f \in Resampled
        PROVE  /\ cache'[f] \in FrameType /\ cache'[f].at <= d.at
               /\ cache'[f] # Absent => cache'[f].at >= 0
               /\ failures' = 0 /\ cache'[f] # Absent => cache'[f].until < cache'[f].at + Ttl[f] + Ttl["daily"]
               /\ d.candles > 0 => cache'[f] # Absent /\ load.began < cache'[f].until
    <3>0. cache'[f] = Resample(c, f) /\ f \in Frames /\ f # "daily" /\ c[f] = cache[f]
      BY <1>4, <2>1, FrameNames
    <3>1. CASE Fresh(f) \/ d.candles = 0
      <4>1. cache'[f] = cache[f]
        BY <1>5, <3>0, <3>1 DEF Resample
      <4>2. d.candles > 0 => Fresh(f)
        BY <1>5, <3>1 DEF FrameType
      <4> QED
        BY <1>0, <1>2, <1>4, <1>7, <3>0, <4>1, <4>2 DEF FrameInv, CacheInv, Loaded, Fresh
    <3>2. CASE ~(Fresh(f) \/ d.candles = 0)
      <4>1. cache'[f] = Computed(f, d.candles, d.at)
        BY <1>5, <3>0, <3>2 DEF Resample
      <4>2. d.candles \in Nat /\ d.at \in 0 .. now /\ d.until \in Int
        BY <1>0, <1>4, <1>5, <1>7 DEF FrameType
      <4>3. /\ cache'[f] \in FrameType /\ cache'[f] # Absent /\ cache'[f].at = d.at
            /\ cache'[f].until = load.began + Ttl[f] /\ load.began < cache'[f].until
        BY <1>0, <3>0, <4>1, <4>2, ComputedIs
      <4>4. failures' = 0 => cache'[f].until < cache'[f].at + Ttl[f] + Ttl["daily"]
        <5>1. failures' = 0 => load.began < d.at + Ttl["daily"]
          BY <1>0, <1>4, <1>7, <4>2, TtlIsPositive, FrameNames
        <5>2. Ttl[f] \in Nat /\ Ttl["daily"] \in Nat
          BY <3>0, TtlIsPositive, FrameNames
        <5> QED
          BY <1>0, <4>2, <4>3, <5>1, <5>2
      <4> QED
        BY <4>2, <4>3, <4>4
    <3> QED
      BY <3>1, <3>2
  <2>5. cache' \in [Frames -> FrameType]
    BY <1>4, <2>1, <2>4
  <2>6. CacheInv'
    <3>1. \A f \in Frames : cache'[f].at <= now /\ (cache'[f] # Absent => cache'[f].at >= 0)
      <4> SUFFICES ASSUME NEW f \in Frames PROVE cache'[f].at <= now /\ (cache'[f] # Absent => cache'[f].at >= 0)
        OBVIOUS
      <4>1. CASE f \in Resampled
        BY <1>0, <1>4, <1>5, <2>4, <2>5, <4>1 DEF FrameType
      <4>2. CASE f = "daily"
        BY <1>4, <2>2, <4>2
      <4>3. CASE f = "60min"
        BY <2>2, <4>3 DEF FrameInv, CacheInv, Loaded
      <4> QED
        BY <4>1, <4>2, <4>3, FrameNames
    <3>2. \A f \in Frames \ Resampled : cache'[f] # Absent => cache'[f].until <= cache'[f].at + Ttl[f]
      BY <1>4, <2>2, FrameNames DEF FrameInv, CacheInv, Loaded
    <3>3. failures' = 0 => load.began < d.until
      BY <1>4
    <3> QED
      BY <1>0, <1>3, <1>7, <2>2, <2>4, <3>1, <3>2, <3>3 DEF CacheInv, Loaded, Fresh
  <2>7. FramesAligned'
    BY <1>0, <1>2 DEF FrameInv, FramesAligned
  <2> QED
    BY <1>0, <1>2, <1>3, <2>5, <2>6, <2>7 DEF FrameInv
<1> QED
  BY <1>6, <1>7

(* A frame of the last step of a load: the cached one, or one computed now *)
(* from data of this minute.                                               *)
Recent(e, f) ==
  /\ e \in FrameType /\ e # Absent /\ e.at = now
  /\ e.until = load.began + Ttl[f]

LEMMA RecentIs ==
  ASSUME FrameInv, load.began >= 0, NEW f \in Frames, NEW n \in Nat
  PROVE  Recent(Computed(f, n, now), f)
<1>1. now \in 0 .. now
  BY DEF FrameInv
<1> QED
  BY <1>1, ComputedIs DEF Recent

(* The load ends: every frame is fresh unless its request failed.          *)
LEMMA LoadEndsKeeps == FrameInv /\ LoadEnds => FrameInv'
<1> SUFFICES ASSUME FrameInv, LoadEnds PROVE FrameInv'
  OBVIOUS
<1>0. /\ load.waits = "rest" /\ load' = Idle /\ now' = now
      /\ load.began \in Nat /\ load.began <= now /\ now \in 0 .. LastMinute /\ failures \in 0 .. MaxFailures
      /\ cache \in [Frames -> FrameType]
      /\ frames' = IF Loaded("daily") THEN [began |-> load.began, of |-> cache'] ELSE frames
  BY DEF LoadEnds, FrameInv, CacheInv
<1>1. PICK week \in OwnDays("weekly"), month \in OwnDays("monthly"), hour \in Hours :
        /\ failures' = failures + Cardinality(Refused(week, month, hour))
        /\ failures' <= MaxFailures
        /\ cache' = [cache EXCEPT !["weekly"] = week, !["monthly"] = month, !["60min"] = hour]
  BY DEF LoadEnds
<1>2. /\ failures' \in 0 .. MaxFailures
      /\ failures' = 0 => failures = 0 /\ (hour = cache["60min"] => Fresh("60min"))
  <2> DEFINE refused == Refused(week, month, hour)
  <2>1. failures' = failures + Cardinality(refused) /\ failures' <= MaxFailures
    BY <1>1
  <2>2. refused \in SUBSET Frames
    BY DEF Refused
  <2>3. (hour = cache["60min"] /\ ~Fresh("60min")) => "60min" \in refused
    BY FrameNames DEF Refused
  <2> HIDE DEF refused
  <2>4. Cardinality(refused) \in Nat /\ (Cardinality(refused) = 0 => refused = {})
    BY <2>2, FrameCount
  <2> QED
    BY <1>0, <2>1, <2>3, <2>4, FrameAssumption
<1>3. /\ week = cache["weekly"] \/ (~Loaded("daily") /\ Recent(week, "weekly"))
      /\ month = cache["monthly"] \/ (~Loaded("daily") /\ Recent(month, "monthly"))
      /\ hour = cache["60min"] \/ Recent(hour, "60min")
  <2>1. DayCounts \subseteq Nat /\ MinuteCounts \subseteq Nat
    BY FrameAssumption
  <2>2. "weekly" \in Frames /\ "monthly" \in Frames /\ "60min" \in Frames
    BY DEF Frames, Resampled
  <2>3. \A f \in Frames, n \in Nat : Recent(Computed(f, n, now), f)
    BY <1>0, RecentIs
  <2>4. week = cache["weekly"] \/ (~Loaded("daily") /\ Recent(week, "weekly"))
    BY <2>1, <2>2, <2>3 DEF OwnDays
  <2>5. month = cache["monthly"] \/ (~Loaded("daily") /\ Recent(month, "monthly"))
    BY <2>1, <2>2, <2>3 DEF OwnDays
  <2>6. hour = cache["60min"] \/ Recent(hour, "60min")
    BY <2>1, <2>2, <2>3 DEF Hours
  <2> QED
    BY <2>4, <2>5, <2>6
<1>4. /\ cache' \in [Frames -> FrameType]
      /\ cache'["weekly"] = week /\ cache'["monthly"] = month
      /\ cache'["60min"] = hour /\ cache'["daily"] = cache["daily"]
  <2>1. /\ week \in FrameType /\ month \in FrameType /\ hour \in FrameType
    BY <1>0, <1>3 DEF Recent, Frames, Resampled
  <2> QED
    BY <1>0, <1>1, <2>1 DEF Frames, Resampled
<1>5. /\ \A f \in Resampled : cache'[f] = cache[f] \/ (~Loaded("daily") /\ Recent(cache'[f], f))
      /\ cache'["60min"] = cache["60min"] \/ Recent(cache'["60min"], "60min")
  BY <1>3, <1>4 DEF Resampled
<1>6. \A f \in Frames : Ttl[f] \in Nat /\ Ttl[f] >= 1 /\ cache[f].at \in Int /\ cache[f].until \in Int
  BY <1>0, TtlIsPositive DEF FrameType
<1>7. CacheInv'
  <2>1. \A f \in Frames : cache'[f].at <= now /\ (cache'[f] # Absent => cache'[f].at >= 0)
    <3> SUFFICES ASSUME NEW f \in Frames PROVE cache'[f].at <= now /\ (cache'[f] # Absent => cache'[f].at >= 0)
      OBVIOUS
    <3>1. CASE cache'[f] = cache[f]
      BY <3>1 DEF FrameInv, CacheInv, Loaded
    <3>2. CASE Recent(cache'[f], f)
      BY <1>0, <3>2 DEF Recent
    <3> QED
      BY <1>4, <1>5, <3>1, <3>2, FrameNames
  <2>2. \A f \in Frames \ Resampled : cache'[f] # Absent => cache'[f].until <= cache'[f].at + Ttl[f]
    <3>1. Recent(hour, "60min") => hour.until <= hour.at + Ttl["60min"]
      BY <1>0, <1>6, FrameNames DEF Recent
    <3> QED
      BY <1>4, <1>5, <3>1, FrameNames DEF FrameInv, CacheInv, Loaded
  <2>3. ASSUME NEW f \in Resampled
        PROVE  /\ Loaded("daily")' => cache'[f].at <= cache'["daily"].at
               /\ failures' = 0 /\ cache'[f] # Absent =>
                    cache'[f].until < cache'[f].at + Ttl[f] + Ttl["daily"]
    <3>1. f \in Frames
      BY FrameNames
    <3>2. CASE cache'[f] = cache[f]
      BY <1>2, <1>4, <3>2 DEF FrameInv, CacheInv, Loaded
    <3>3. CASE ~Loaded("daily") /\ Recent(cache'[f], f)
      <4>1. ~Loaded("daily")'
        BY <1>4, <3>3 DEF Loaded
      <4>2. cache'[f].until < cache'[f].at + Ttl[f] + Ttl["daily"]
        BY <1>0, <1>6, <3>1, <3>3, FrameNames DEF Recent
      <4> QED
        BY <4>1, <4>2
    <3> QED
      BY <1>5, <3>2, <3>3
  <2> QED
    BY <1>0, <2>1, <2>2, <2>3 DEF CacheInv, Loaded, Idle
<1>8. FramesAligned'
  <2>1. CASE ~Loaded("daily")
    BY <1>0, <1>2, <2>1 DEF FrameInv, FramesAligned
  <2>2. CASE Loaded("daily")
    <3>1. frames' = [began |-> load.began, of |-> cache']
      BY <1>0, <2>2
    <3>2. \A f \in Resampled : cache'[f] = cache[f] /\ cache'[f].at <= cache'["daily"].at
      BY <1>4, <1>5, <2>2 DEF FrameInv, CacheInv
    <3>3. ASSUME failures' = 0
          PROVE  /\ load.began - cache'["daily"].at < Ttl["daily"]
                 /\ load.began - cache'["60min"].at < Ttl["60min"]
                 /\ \A f \in Resampled : cache'["daily"].candles > 0 =>
                      load.began - cache'[f].at < Ttl["daily"] + Ttl[f] - 1
      <4>0. failures = 0
        BY <1>2, <3>3
      <4>1. load.began - cache'["daily"].at < Ttl["daily"]
        <5>1. load.began < cache["daily"].until /\ cache["daily"].until <= cache["daily"].at + Ttl["daily"]
          BY <1>0, <2>2, <4>0, FrameNames DEF FrameInv, CacheInv, Fresh
        <5> QED
          BY <1>0, <1>4, <1>6, <5>1, FrameNames
      <4>2. load.began - cache'["60min"].at < Ttl["60min"]
        <5>1. CASE hour = cache["60min"]
          <6>1. load.began < cache["60min"].until /\ cache["60min"].until <= cache["60min"].at + Ttl["60min"]
            BY <1>2, <3>3, <5>1, FrameNames DEF FrameInv, CacheInv, Fresh
          <6> QED
            BY <1>0, <1>4, <1>6, <5>1, <6>1, FrameNames
        <5>2. CASE Recent(hour, "60min")
          BY <1>0, <1>4, <1>6, <5>2, FrameNames DEF Recent
        <5> QED
          BY <1>3, <5>1, <5>2
      <4>3. ASSUME NEW f \in Resampled, cache'["daily"].candles > 0
            PROVE  load.began - cache'[f].at < Ttl["daily"] + Ttl[f] - 1
        <5>1. Fresh(f) /\ cache'[f] = cache[f] /\ f \in Frames /\ "daily" \in Frames
          BY <1>0, <1>4, <3>2, <4>0, <4>3, FrameNames DEF FrameInv, CacheInv
        <5>2. load.began < cache[f].until /\ cache[f].until < cache[f].at + Ttl[f] + Ttl["daily"]
          BY <4>0, <5>1 DEF FrameInv, CacheInv, Fresh
        <5> QED
          BY <1>0, <1>6, <5>1, <5>2
      <4> QED
        BY <4>1, <4>2, <4>3
    <3> QED
      BY <3>1, <3>2, <3>3 DEF FramesAligned
  <2> QED
    BY <2>1, <2>2
<1> QED
  BY <1>0, <1>2, <1>4, <1>7, <1>8 DEF FrameInv, Idle

LEMMA LoaderKeeps == FrameInv /\ MtfNext => FrameInv'
  BY MinuteKeeps, LoadBeginsKeeps, DailySettledKeeps, LoadEndsKeeps DEF MtfNext

(***************************************************************************)
(* The strategy and its engine                                             *)
(***************************************************************************)

(* A part of more than one is never the whole.                             *)
LEMMA PartialIsPart ==
  ASSUME NEW qty \in Nat \ {0}
  PROVE  PartialQty(qty) \in 1 .. qty /\ (qty > 1 => PartialQty(qty) < qty)
  BY DEF PartialQty

(* A reading to enter on confirms no exit: the slope has turned the other  *)
(* way, the CCI is on the other side of zero, the close past the other     *)
(* edge.                                                                   *)
LEMMA EntryConfirmsNoExit ==
  ASSUME NEW r \in Reading, NEW side \in Sides, EntryMet(side, r)
  PROVE  ~Confirmed(side, r)
<1>1. \A a, b \in Int : ~(Beyond(side, a, b) /\ Beyond(Other(side), a, b))
  BY DEF Beyond, Sides, Other
<1>2. /\ r.dema[1] \in Int /\ r.dema[2] \in Int /\ r.dema[3] \in Int /\ r.cci[2] \in Int
      /\ r.close \in Int
  BY DEF Reading
<1>3. ~Turned(Other(side), r)
  BY <1>1, <1>2 DEF EntryMet, Turned
<1>4. ~Beyond(Other(side), r.cci[2], 0)
  BY <1>1, <1>2 DEF EntryMet
<1> QED
  BY <1>3, <1>4 DEF Confirmed

(* Nor does it warn: the signal line would have had to move by more than   *)
(* it can.                                                                 *)
LEMMA EntryWarnsNot ==
  ASSUME NEW r \in Reading, NEW side \in Sides, Steady(r), EntryMet(side, r), Extreme(side, r)
  PROVE  ~Crosses(Other(side), r)
<1>1. r.cci[1] \in Int /\ r.cci[2] \in Int /\ r.signal[1] \in Int /\ r.signal[2] \in Int
  BY DEF Reading
<1>2. CASE side = "leverage"
  BY <1>1, <1>2 DEF Other, Crosses, Beyond, EntryMet, Extreme, Steady
<1>3. CASE side = "inverse"
  BY <1>1, <1>3 DEF Other, Crosses, Beyond, EntryMet, Extreme, Steady
<1> QED
  BY <1>2, <1>3 DEF Sides

Position == [side : Sides \cup {"none"}, partial : BOOLEAN, qty : Nat, warned : BOOLEAN]

(* A flag set or a part sold leaves a position.                            *)
LEMMA WarnedPosition ==
  ASSUME NEW p \in Position, NEW w \in BOOLEAN
  PROVE  LET q == [p EXCEPT !.warned = w]
         IN q \in Position /\ q.side = p.side /\ q.partial = p.partial /\ q.qty = p.qty /\ q.warned = w
  BY DEF Position

LEMMA ReducedPosition ==
  ASSUME NEW p \in Position, NEW n \in Nat
  PROVE  LET q == [p EXCEPT !.partial = TRUE, !.qty = n, !.warned = TRUE]
         IN q \in Position /\ q.side = p.side /\ q.partial /\ q.qty = n
  BY DEF Position

\* The ways a tick can go.
Quiet(p, r, u) ==
  LET step == OnTick(p, r, u)
  IN /\ step.order = NoOrder /\ step.pos \in Position
     /\ step.pos.side = p.side /\ step.pos.partial = p.partial /\ step.pos.qty = p.qty
     /\ p.side = "none" => step.pos = p
     /\ step.pos.warned => p.warned \/ Extreme(p.side, r)
Enters(p, r, u) ==
  \E side \in Sides : p.side = "none" /\ r.ready /\ EntryMet(side, r) /\ OnTick(p, r, u) = Enter(side, u)
Leaves(p, r, u) ==
  p.side # "none" /\ r.ready /\ Confirmed(p.side, r) /\ OnTick(p, r, u) = ExitFull(p, u)
Reduces(p, r, u) ==
  /\ p.side # "none" /\ r.ready /\ ~Confirmed(p.side, r) /\ ~p.partial
  /\ p.warned \/ Extreme(p.side, r)
  /\ Crosses(Other(p.side), r)
  /\ OnTick(p, r, u) = ExitPartial(p)

(* Every tick goes one of them.                                            *)
LEMMA TickSplits ==
  ASSUME NEW p \in Position, NEW r \in Reading, NEW u \in Nat
  PROVE  Quiet(p, r, u) \/ Enters(p, r, u) \/ Leaves(p, r, u) \/ Reduces(p, r, u)
<1>1. CASE ~r.ready
  BY <1>1, Zenon DEF Quiet, OnTick
<1>2. CASE r.ready /\ p.side = "none"
  <2>1. CASE EntryMet("leverage", r)
    BY <1>2, <2>1 DEF Enters, OnTick, Sides
  <2>2. CASE ~EntryMet("leverage", r) /\ EntryMet("inverse", r)
    BY <1>2, <2>2 DEF Enters, OnTick, Sides
  <2>3. CASE ~EntryMet("leverage", r) /\ ~EntryMet("inverse", r)
    BY <1>2, <2>3, Zenon DEF Quiet, OnTick
  <2> QED
    BY <2>1, <2>2, <2>3
<1>3. CASE r.ready /\ p.side # "none"
  <2>0. OnTick(p, r, u) = Manage(p, r, u)
    BY <1>3 DEF OnTick
  <2>1. CASE Confirmed(p.side, r)
    BY <1>3, <2>0, <2>1 DEF Leaves, Manage
  <2>2. CASE ~Confirmed(p.side, r) /\ ~p.partial /\ (p.warned \/ Extreme(p.side, r))
             /\ Crosses(Other(p.side), r)
    BY <1>3, <2>0, <2>2 DEF Reduces, Manage
  <2>3. CASE ~Confirmed(p.side, r) /\ ~(~p.partial /\ (p.warned \/ Extreme(p.side, r))
             /\ Crosses(Other(p.side), r))
    <3> DEFINE w == p.warned \/ Extreme(p.side, r)
    <3>1. Manage(p, r, u) = [pos |-> [p EXCEPT !.warned = w], order |-> NoOrder]
      BY <2>3 DEF Manage
    <3>2. w \in BOOLEAN
      BY DEF Extreme, Position
    <3>3. w => p.warned \/ Extreme(p.side, r)
      OBVIOUS
    <3>4. OnTick(p, r, u).order = NoOrder /\ OnTick(p, r, u).pos = [p EXCEPT !.warned = w]
      BY <2>0, <3>1
    <3> HIDE DEF w
    <3> DEFINE q == OnTick(p, r, u).pos
    <3>5. q \in Position /\ q.side = p.side /\ q.partial = p.partial /\ q.qty = p.qty /\ q.warned = w
      BY <3>2, <3>4, WarnedPosition
    <3> QED
      BY <1>3, <3>3, <3>4, <3>5, Zenon DEF Quiet
  <2> QED
    BY <2>1, <2>2, <2>3
<1> QED
  BY <1>1, <1>2, <1>3

(***************************************************************************)
(* The inductive invariant                                                 *)
(***************************************************************************)
\* A phase fixes the quantity.
PhaseSound ==
  /\ pos \in Position
  /\ pos.side = "none" => pos = Watching
  /\ pos.side # "none" /\ ~pos.partial => pos.qty = unit
  /\ pos.side # "none" /\ pos.partial  => pos.qty = unit - PartialQty(unit)

\* What a signal on this reading has left of it.
Entered == /\ reading.ready /\ pos.side # "none" /\ ~pos.partial
           /\ EntryMet(pos.side, reading)
           /\ pos.warned => Extreme(pos.side, reading)
Reduced == reading.ready /\ pos.side # "none" /\ pos.partial /\ ~Confirmed(pos.side, reading)
Left    == reading.ready /\ pos.side = "none" /\ \E side \in Sides : Confirmed(side, reading)

Used == /\ signals \in Nat /\ signals <= 2
        /\ signals = 1 => Entered \/ Reduced \/ Left
        /\ signals = 2 => Entered

EngineTyped ==
  /\ unit \in Nat \ {0} /\ reading \in Reading /\ (reading.ready => Steady(reading))
  /\ asked \in [Sides -> Int] /\ astray \in BOOLEAN

IInv == EngineTyped /\ PhaseSound /\ SellsCovered /\ (plugin = "leverage_inverse" => Used)

LEMMA NotReadyReads == NotReady \in Reading /\ ~NotReady.ready
  BY DEF NotReady, Reading

LEMMA ReadingsRead ==
  ASSUME NEW n, NEW r \in ReadingsOf(n)
  PROVE  r \in Reading /\ (r.ready => Steady(r))
  BY ReadingAssumption, NotReadyReads DEF ReadingsOf

LEMMA WatchingIsFlat ==
  Watching \in Position /\ Watching.side = "none" /\ Watching.qty = 0 /\ ~Watching.partial
  BY DEF Watching, Position

(* With what is not held, nothing is asked for.                            *)
LEMMA InitIInv == Init => IInv
<1> SUFFICES ASSUME Init
             PROVE  IInv
  OBVIOUS
<1>1. unit \in Nat \ {0}
  <2>1. Units \subseteq Nat \ {0}
    BY EngineAssumption
  <2>2. unit \in Units \/ unit = 1
    BY DEF Init
  <2>3. CASE unit \in Units
    BY <2>1, <2>3
  <2>4. CASE unit = 1
    BY <2>4
  <2> QED
    BY <2>2, <2>3, <2>4
<1>2. EngineTyped
  <2>1. astray \in BOOLEAN
    BY DEF Init
  <2>2. asked \in [Sides -> Int]
    BY DEF Init
  <2>3. reading \in Reading /\ ~reading.ready
    BY NotReadyReads DEF Init
  <2> QED
    BY <1>1, <2>1, <2>2, <2>3, Zenon DEF EngineTyped
<1>3. PhaseSound
  BY WatchingIsFlat DEF Init, PhaseSound
<1>4. Used
  BY DEF Init, Used
<1>5. SellsCovered
  BY WatchingIsFlat DEF Init, SellsCovered
<1> QED
  BY <1>2, <1>3, <1>4, <1>5 DEF IInv

(* A quiet tick leaves the reading as used as it was.                      *)
LEMMA QuietKeeps ==
  ASSUME IInv, plugin = "leverage_inverse", Quiet(pos, reading, unit),
         pos' = OnTick(pos, reading, unit).pos,
         UNCHANGED <<plugin, unit, reading, signals, asked, astray>>
  PROVE  IInv'
<1> USE DEF IInv, EngineTyped
<1>1. pos' \in Position /\ pos'.side = pos.side /\ pos'.partial = pos.partial /\ pos'.qty = pos.qty
  BY Zenon DEF Quiet
<1>2. /\ pos.side = "none" => pos' = pos
      /\ pos'.warned => pos.warned \/ Extreme(pos.side, reading)
  BY Zenon DEF Quiet
<1>3. PhaseSound'
  BY <1>1, <1>2 DEF PhaseSound
<1>4. /\ Entered => Entered'
      /\ Reduced => Reduced'
      /\ Left => Left'
  BY <1>1, <1>2, Zenon DEF Entered, Reduced, Left
<1>5. Used'
  BY <1>4 DEF Used
<1>6. SellsCovered'
  BY <1>1 DEF SellsCovered
<1> QED
  BY <1>3, <1>5, <1>6

(* What the bus took is counted, what it dropped leads astray.             *)
LEMMA PublishCounts ==
  ASSUME IInv, NEW side \in Sides, NEW way \in {"BUY", "SELL"}, NEW qty \in Nat,
         Publish(Order(way, side, qty))
  PROVE  /\ asked' \in [Sides -> Int] /\ astray' \in BOOLEAN
         /\ ~astray' => ~astray /\ asked' = [asked EXCEPT
                         ![side] = @ + (IF way = "BUY" THEN qty ELSE -qty)]
<1>1. asked \in [Sides -> Int] /\ astray \in BOOLEAN
  BY DEF IInv, EngineTyped
<1> QED
  <2> DEFINE sign == IF way = "BUY" THEN qty ELSE -qty
  <2>1. Order(way, side, qty).side = side
        /\ (IF Order(way, side, qty).way = "BUY" THEN Order(way, side, qty).qty
            ELSE -Order(way, side, qty).qty) = sign
    BY DEF Order
  <2>2. [asked EXCEPT ![side] = @ + sign] \in [Sides -> Int]
    BY <1>1
  <2>3. CASE asked' = (IF astray THEN asked ELSE [asked EXCEPT ![side] = @ + sign]) /\ astray' = astray
    BY <1>1, <2>2, <2>3
  <2>4. CASE astray' = TRUE /\ asked' = asked
    BY <1>1, <2>4
  <2> QED
    BY <2>1, <2>3, <2>4 DEF Publish

(* A tick that enters, leaves or reduces.                                  *)
LEMMA EnterKeeps ==
  ASSUME IInv, plugin = "leverage_inverse", Enters(pos, reading, unit),
         pos' = OnTick(pos, reading, unit).pos,
         signals' = Given, Publish(OnTick(pos, reading, unit).order),
         UNCHANGED <<plugin, unit, reading>>
  PROVE  IInv'
<1> USE DEF IInv, EngineTyped
<1>1. PICK side \in Sides : /\ pos.side = "none" /\ reading.ready /\ EntryMet(side, reading)
                             /\ OnTick(pos, reading, unit) = Enter(side, unit)
  BY DEF Enters
<1>2. /\ pos' = [side |-> side, partial |-> FALSE, qty |-> unit, warned |-> FALSE]
      /\ OnTick(pos, reading, unit).order = Order("BUY", side, unit)
  BY <1>1 DEF Enter
<1>3. side # "none" /\ pos' \in Position
  BY <1>2 DEF Position, Sides
<1>4. PhaseSound'
  BY <1>2, <1>3 DEF PhaseSound
<1>5. Entered'
  BY <1>1, <1>2, <1>3 DEF Entered
<1>6. signals \in {0, 1}
  BY <1>1 DEF Used, Entered
<1>7. Used'
  BY <1>5, <1>6 DEF Used, Given
<1>8. /\ asked' \in [Sides -> Int] /\ astray' \in BOOLEAN
      /\ ~astray' => ~astray /\ asked' = [asked EXCEPT ![side] = @ + unit]
  BY <1>2, PublishCounts
<1>9. SellsCovered'
  <2> SUFFICES ASSUME ~astray', unit > 1, NEW s \in Sides
               PROVE  asked'[s] = IF side = s THEN unit ELSE 0
    BY <1>2 DEF SellsCovered
  <2>1. asked[s] = 0
    BY <1>1, <1>8 DEF SellsCovered, Sides
  <2> QED
    BY <1>8, <2>1
<1> QED
  BY <1>4, <1>7, <1>8, <1>9

LEMMA LeaveKeeps ==
  ASSUME IInv, plugin = "leverage_inverse", Leaves(pos, reading, unit),
         pos' = OnTick(pos, reading, unit).pos,
         signals' = Given, Publish(OnTick(pos, reading, unit).order),
         UNCHANGED <<plugin, unit, reading>>
  PROVE  IInv'
<1> USE DEF IInv, EngineTyped
<1> DEFINE sold == IF pos.qty > 0 THEN pos.qty ELSE unit
<1>1. /\ pos.side \in Sides /\ reading.ready /\ Confirmed(pos.side, reading)
      /\ pos' = Watching
      /\ OnTick(pos, reading, unit).order = Order("SELL", pos.side, sold)
  BY DEF Leaves, ExitFull, PhaseSound, Position
<1>2. PhaseSound'
  BY <1>1, WatchingIsFlat DEF PhaseSound
<1>3. Left'
  BY <1>1, WatchingIsFlat DEF Left
<1>4. signals = 0
  <2>1. ~Entered
    BY <1>1, EntryConfirmsNoExit DEF Entered
  <2>2. ~Reduced /\ ~Left
    BY <1>1 DEF Reduced, Left, Sides
  <2> QED
    BY <2>1, <2>2 DEF Used
<1>5. Used'
  BY <1>3, <1>4 DEF Used, Given
<1>6. pos.qty \in Nat /\ sold \in Nat
  BY DEF PhaseSound, Position
<1>7. /\ asked' \in [Sides -> Int] /\ astray' \in BOOLEAN
      /\ ~astray' => ~astray /\ asked' = [asked EXCEPT ![pos.side] = @ - sold]
  <2>1. Publish(Order("SELL", pos.side, sold))
    BY <1>1
  <2> QED
    BY <1>1, <1>6, <2>1, PublishCounts
<1>8. SellsCovered'
  <2> SUFFICES ASSUME ~astray', unit > 1
               PROVE  \A side \in Sides : asked'[side] = 0
    BY <1>1, WatchingIsFlat DEF SellsCovered, Sides
  <2>1. pos.qty > 0
    BY <1>1, PartialIsPart DEF PhaseSound, Sides
  <2>2. asked[pos.side] = pos.qty /\ \A side \in Sides \ {pos.side} : asked[side] = 0
    BY <1>1, <1>7 DEF SellsCovered
  <2> QED
    BY <1>1, <1>6, <1>7, <2>1, <2>2
<1> QED
  BY <1>2, <1>5, <1>7, <1>8

LEMMA ReduceKeeps ==
  ASSUME IInv, plugin = "leverage_inverse", Reduces(pos, reading, unit),
         pos' = OnTick(pos, reading, unit).pos,
         signals' = Given, Publish(OnTick(pos, reading, unit).order),
         UNCHANGED <<plugin, unit, reading>>
  PROVE  IInv'
<1> USE DEF IInv, EngineTyped
<1>a. /\ pos.side # "none" /\ pos \in Position /\ ~pos.partial
      /\ reading.ready /\ ~Confirmed(pos.side, reading)
      /\ OnTick(pos, reading, unit) = ExitPartial(pos)
  BY DEF Reduces, PhaseSound
<1>b. pos.side \in Sides
  BY <1>a DEF Position
<1>c. pos.qty = unit
  BY <1>a DEF PhaseSound
<1>1. /\ pos.side \in Sides /\ reading.ready /\ ~Confirmed(pos.side, reading)
      /\ pos.qty = unit /\ pos \in Position /\ ~pos.partial
      /\ pos' = [pos EXCEPT !.partial = TRUE, !.qty = unit - PartialQty(unit), !.warned = TRUE]
      /\ OnTick(pos, reading, unit).order = Order("SELL", pos.side, PartialQty(unit))
  <2>1. /\ pos' = [pos EXCEPT !.partial = TRUE, !.qty = pos.qty - PartialQty(pos.qty), !.warned = TRUE]
        /\ OnTick(pos, reading, unit).order = Order("SELL", pos.side, PartialQty(pos.qty))
    BY <1>a DEF ExitPartial
  <2> QED
    BY <1>a, <1>b, <1>c, <2>1, Zenon
<1>2. PartialQty(unit) \in 1 .. unit
  BY PartialIsPart
<1>3. /\ pos' \in Position /\ pos'.side = pos.side /\ pos'.partial
      /\ pos'.qty = unit - PartialQty(unit)
  <2> DEFINE q == [pos EXCEPT !.partial = TRUE, !.qty = unit - PartialQty(unit), !.warned = TRUE]
  <2>1. unit - PartialQty(unit) \in Nat
    BY <1>2
  <2>2. q \in Position /\ q.side = pos.side /\ q.partial /\ q.qty = unit - PartialQty(unit)
    BY <1>1, <2>1, ReducedPosition
  <2>3. pos' = q
    BY <1>1
  <2> HIDE DEF q
  <2> QED
    BY <2>2, <2>3, Zenon
<1>4. PhaseSound'
  BY <1>1, <1>3 DEF PhaseSound, Sides
<1>5. Reduced'
  BY <1>1, <1>3 DEF Reduced, Sides
<1>6. signals = 0
  <2>1. ~Entered
    BY <1>1, EntryWarnsNot DEF Reduces, Entered
  <2>2. ~Reduced /\ ~Left
    BY <1>1 DEF Reduced, Left, Sides
  <2> QED
    BY <2>1, <2>2 DEF Used
<1>7. Used'
  BY <1>5, <1>6 DEF Used, Given
<1>8. /\ asked' \in [Sides -> Int] /\ astray' \in BOOLEAN
      /\ ~astray' => ~astray /\ asked' = [asked EXCEPT ![pos.side] = @ - PartialQty(unit)]
  <2>1. Publish(Order("SELL", pos.side, PartialQty(unit)))
    BY <1>1
  <2> QED
    BY <1>1, <1>2, <2>1, PublishCounts
<1>9. SellsCovered'
  BY <1>1, <1>2, <1>3, <1>8 DEF SellsCovered
<1> QED
  BY <1>4, <1>7, <1>8, <1>9

(* When the buffer, the reading with it, or the strategy is new, the       *)
(* reading is unused.                                                      *)
LEMMA NewReadingKeeps ==
  ASSUME IInv, signals' = 0, reading' \in Reading, reading'.ready => Steady(reading'),
         UNCHANGED <<plugin, unit, pos, asked, astray>>
  PROVE  IInv'
<1>1. EngineTyped' /\ PhaseSound' /\ SellsCovered'
  BY DEF IInv, EngineTyped, PhaseSound, SellsCovered
<1>2. Used'
  BY DEF Used
<1> QED
  BY <1>1, <1>2 DEF IInv

LEMMA NewStrategyKeeps ==
  ASSUME IInv, signals' = 0, pos' = Watching, astray' = (astray \/ pos.qty > 0),
         reading' \in Reading, reading'.ready => Steady(reading'),
         UNCHANGED <<plugin, unit, asked>>
  PROVE  IInv'
<1>1. EngineTyped'
  BY DEF IInv, EngineTyped, PhaseSound, Position
<1>2. PhaseSound'
  BY WatchingIsFlat DEF PhaseSound
<1>3. SellsCovered'
  <2> SUFFICES ASSUME ~astray', unit > 1, NEW side \in Sides
               PROVE  asked[side] = 0
    BY WatchingIsFlat DEF SellsCovered, Sides
  <2>0. pos.qty \in Nat
    BY DEF IInv, PhaseSound, Position
  <2>1. ~astray /\ ~(pos.qty > 0)
    BY Zenon
  <2> QED
    BY <2>0, <2>1 DEF IInv, SellsCovered
<1>4. Used'
  BY DEF Used
<1> QED
  BY <1>1, <1>2, <1>3, <1>4 DEF IInv

LEMMA TickKeeps == IInv /\ TickOfLeverageInverse => IInv'
<1> SUFFICES ASSUME IInv, TickOfLeverageInverse
             PROVE  IInv'
  OBVIOUS
<1>1. /\ plugin = "leverage_inverse"
      /\ pos' = OnTick(pos, reading, unit).pos
      /\ UNCHANGED <<plugin, unit, reading>>
  BY DEF TickOfLeverageInverse
<1>2. /\ OnTick(pos, reading, unit).order = NoOrder => UNCHANGED <<signals, asked, astray>>
      /\ OnTick(pos, reading, unit).order # NoOrder =>
           signals' = Given /\ Publish(OnTick(pos, reading, unit).order)
  BY DEF TickOfLeverageInverse
<1>3. pos \in Position /\ reading \in Reading /\ unit \in Nat
  BY DEF IInv, PhaseSound, EngineTyped
<1>4. CASE Quiet(pos, reading, unit)
  BY <1>1, <1>2, <1>4, QuietKeeps DEF Quiet
<1>5. CASE Enters(pos, reading, unit)
  <2>1. OnTick(pos, reading, unit).order # NoOrder
    BY <1>5 DEF Enters, Enter, NoOrder, Order
  <2> QED
    BY <1>1, <1>2, <1>5, <2>1, EnterKeeps
<1>6. CASE Leaves(pos, reading, unit)
  <2>1. OnTick(pos, reading, unit).order # NoOrder
    BY <1>6 DEF Leaves, ExitFull, NoOrder, Order
  <2> QED
    BY <1>1, <1>2, <1>6, <2>1, LeaveKeeps
<1>7. CASE Reduces(pos, reading, unit)
  <2>1. OnTick(pos, reading, unit).order # NoOrder
    BY <1>7 DEF Reduces, ExitPartial, NoOrder, Order
  <2> QED
    BY <1>1, <1>2, <1>7, <2>1, ReduceKeeps
<1> QED
  BY <1>3, <1>4, <1>5, <1>6, <1>7, TickSplits

LEMMA NextIInv == IInv /\ [Next]_vars => IInv'
<1> SUFFICES ASSUME IInv, [Next]_vars
             PROVE  IInv'
  OBVIOUS
<1>r. reading \in Reading /\ (reading.ready => Steady(reading))
  BY DEF IInv, EngineTyped
<1>1. CASE Register
  BY <1>r, <1>1, NewStrategyKeeps DEF Register, Anew
<1>2. CASE Warmup
  <2>1. PICK n \in 1 .. BufferSize : reading' \in ReadingsOf(n)
    BY <1>2 DEF Warmup
  <2>2. signals' = 0 /\ UNCHANGED <<plugin, unit, pos, asked, astray>>
    BY <1>2 DEF Warmup
  <2> QED
    BY <2>1, <2>2, ReadingsRead, NewReadingKeeps
<1>3. CASE Run
  BY <1>3 DEF Run, IInv, EngineTyped, PhaseSound, SellsCovered, Used, Entered, Reduced, Left
<1>4. CASE Candle
  <2>1. reading' \in ReadingsOf(buffer') /\ signals' = 0
        /\ UNCHANGED <<plugin, unit, pos, asked, astray>>
    BY <1>4 DEF Candle
  <2> QED
    BY <2>1, ReadingsRead, NewReadingKeeps
<1>5. CASE TickOfLeverageInverse
  BY <1>5, TickKeeps
<1>6. CASE TickOfCciBbc
  <2>1. plugin' # "leverage_inverse" /\ UNCHANGED <<unit, pos, reading, asked, astray>>
    BY <1>6 DEF TickOfCciBbc
  <2> QED
    BY <2>1 DEF IInv, EngineTyped, PhaseSound, SellsCovered
<1>7. CASE Restart
  <2>1. /\ signals' = 0 /\ pos' = Watching /\ astray' = (astray \/ pos.qty > 0)
        /\ reading' = NotReady /\ UNCHANGED <<plugin, unit, asked>>
    BY <1>7 DEF Restart
  <2> QED
    BY <2>1, NotReadyReads, NewStrategyKeeps
<1>8. CASE Loader \/ UNCHANGED vars
  <2>1. UNCHANGED engine
    BY <1>8 DEF Loader, vars
  <2> QED
    BY <2>1 DEF engine, IInv, EngineTyped, PhaseSound, SellsCovered, Used, Entered, Reduced, Left
<1> QED
  BY <1>1, <1>2, <1>3, <1>4, <1>5, <1>6, <1>7, <1>8 DEF Next

(* IInv is an invariant.                                                   *)
THEOREM IInvAlways == Spec => []IInv
<1>1. Init => IInv
  BY InitIInv
<1>2. IInv /\ [Next]_vars => IInv'
  BY NextIInv
<1> QED
  BY <1>1, <1>2, PTL DEF Spec

(***************************************************************************)
(* The strategy asks to sell what it asked to buy (_exit_position_full),   *)
(* for every unit of more than one and all readings.                       *)
(***************************************************************************)
THEOREM SellsAreCovered == Spec => []SellsCovered
<1>1. IInv => SellsCovered
  BY DEF IInv
<1> QED
  BY <1>1, IInvAlways, PTL

(***************************************************************************)
(* Two signals between two candles at most, however many ticks come        *)
(* (on_tick, evaluate_*_entry, _manage_*_position).                        *)
(***************************************************************************)
THEOREM NeverChurns == Spec => []NoChurn
<1>1. IInv => NoChurn
  BY DEF IInv, Used, NoChurn
<1> QED
  BY <1>1, IInvAlways, PTL

(***************************************************************************)
(* The frames behind the CCI/BBC strategy                                  *)
(***************************************************************************)
(* A restart empties the cache and keeps the clock.                        *)
LEMMA RestartFrames == FrameInv /\ Restart => FrameInv'
<1> SUFFICES ASSUME FrameInv, Restart
             PROVE  FrameInv'
  OBVIOUS
<1>1. /\ cache' = [f \in Frames |-> Absent] /\ load' = Idle /\ frames' = None
      /\ UNCHANGED <<now, failures>>
  BY DEF Restart
<1>2. Absent \in FrameType
  BY FrameAssumption DEF Absent, FrameType
<1>3. \A f \in Frames : cache'[f] = Absent
  BY <1>1
<1>4. CacheInv'
  <2>1. now' \in Nat
    BY <1>1, FrameAssumption DEF FrameInv
  <2>2. load'.waits = "nothing" /\ load'.began = -1
    BY <1>1 DEF Idle
  <2>3. \A f \in Frames : cache'[f].at = -1 /\ ~Loaded(f)'
    BY <1>3 DEF Loaded, Absent
  <2> QED
    BY <2>1, <2>2, <2>3, FrameNames DEF CacheInv
<1>5. FramesAligned'
  BY <1>1 DEF FramesAligned
<1> QED
  BY <1>1, <1>2, <1>4, <1>5 DEF FrameInv, None, Idle

LEMMA NextFrames == FrameInv /\ [Next]_vars => FrameInv'
<1> SUFFICES ASSUME FrameInv, [Next]_vars
             PROVE  FrameInv'
  OBVIOUS
<1>1. CASE UNCHANGED mtf
  BY <1>1 DEF mtf, FrameInv, CacheInv, FramesAligned, Loaded, Fresh
<1>2. CASE Loader
  BY <1>2, LoaderKeeps DEF Loader
<1>3. CASE Restart
  BY <1>3, RestartFrames
<1>4. CASE Register \/ Warmup \/ Run \/ Candle \/ TickOfLeverageInverse \/ TickOfCciBbc
  BY <1>1, <1>4 DEF Register, Warmup, Run, Candle, TickOfLeverageInverse, TickOfCciBbc
<1> QED
  BY <1>1, <1>2, <1>3, <1>4 DEF Next, vars

LEMMA FramesAlways == Spec => []FrameInv
<1>1. Init => FrameInv
  BY InitFrames DEF Init
<1>2. FrameInv /\ [Next]_vars => FrameInv'
  BY NextFrames
<1> QED
  BY <1>1, <1>2, PTL DEF Spec

(***************************************************************************)
(* What the strategy is built with comes from one load: the daily candles  *)
(* and those resampled from them belong together, whatever the times to    *)
(* live, the delays of Toss and the failures (load_all, _load_or_refresh). *)
(***************************************************************************)
THEOREM FramesFit == Spec => []FramesAligned
<1>1. FrameInv => FramesAligned
  BY DEF FrameInv
<1> QED
  BY <1>1, FramesAlways, PTL

(***************************************************************************)
(* The type invariant, from the two above.                                 *)
(***************************************************************************)
LEMMA PositionTyped ==
  PhaseSound /\ unit \in Nat \ {0} =>
    pos \in [side : Sides \cup {"none"}, partial : BOOLEAN, qty : 0 .. unit, warned : BOOLEAN]
<1> SUFFICES ASSUME PhaseSound, unit \in Nat \ {0}
             PROVE  pos.qty \in 0 .. unit
  BY DEF PhaseSound, Position
<1> QED
  BY PartialIsPart, WatchingIsFlat DEF PhaseSound

LEMMA LoaderTyped == FrameInv /\ MtfTypeOK /\ MtfNext => MtfTypeOK'
<1> SUFFICES ASSUME FrameInv, MtfTypeOK, MtfNext
             PROVE  MtfTypeOK'
  OBVIOUS
<1>1. FrameInv'
  BY LoaderKeeps
<1>2. now' \in Nat /\ now \in Nat /\ now <= now'
  BY FrameAssumption, <1>1 DEF FrameInv, MtfNext, Minute, LoadBegins, DailySettled, LoadEnds
<1>3. load'.began \in -1 .. now'
  <2>1. CASE DailySettled
    <3>1. load' = [load EXCEPT !.waits = "rest"]
      BY <2>1 DEF DailySettled
    <3> QED
      BY <1>2, <3>1 DEF MtfTypeOK, FrameInv
  <2>2. CASE Minute \/ LoadBegins \/ LoadEnds
    BY <1>2, <2>2 DEF MtfTypeOK, Minute, LoadBegins, LoadEnds, Idle
  <2> QED
    BY <2>1, <2>2 DEF MtfNext
<1>4. frames'.began \in -1 .. now'
  BY <1>2 DEF MtfTypeOK, MtfNext, Minute, LoadBegins, DailySettled, LoadEnds
<1> QED
  BY <1>1, <1>3, <1>4 DEF FrameInv, MtfTypeOK

LEMMA DataTyped == MtfTypeOK => Data = NoData \/ Data \in [Judged -> Nat]
  BY DEF Data, MtfTypeOK, FrameType, Judged, Frames

\* What is left to type once the invariants hold.
Flags == failed \in BOOLEAN /\ running \in BOOLEAN

Rest ==
  /\ plugin \in {"leverage_inverse", "cci_bbc"} /\ unit \in Units \cup {1}
  /\ buffer \in 0 .. BufferSize /\ reading \in Readings \cup {NotReady}
  /\ faults \in 0 .. MaxFaults
  /\ plugin = "cci_bbc" => signals \in 0 .. 3
  /\ view = NoData \/ view \in [Judged -> Nat]
  /\ MtfTypeOK

LEMMA FlagsStay == (Init => Flags) /\ (Flags /\ [Next]_vars => Flags')
<1>1. Init => Flags
  BY Zenon DEF Init, Flags
<1>2. ASSUME Flags, Next PROVE Flags'
  BY <1>2, Zenon DEF Flags, Next, Register, Anew, Warmup, Run, Candle, TickOfLeverageInverse,
     TickOfCciBbc, Restart, Loader, engine
<1>3. ASSUME Flags, UNCHANGED vars PROVE Flags'
  BY <1>3, Zenon DEF Flags, vars, engine
<1> QED
  BY <1>1, <1>2, <1>3, Zenon

LEMMA RestTypes == IInv /\ Flags /\ Rest => TypeOK
<1> SUFFICES ASSUME IInv, Flags, Rest
             PROVE  TypeOK
  OBVIOUS
<1>1. pos \in [side : Sides \cup {"none"}, partial : BOOLEAN, qty : 0 .. unit, warned : BOOLEAN]
  BY PositionTyped DEF IInv, EngineTyped
<1>2. signals \in 0 .. 3
  BY DEF IInv, Used, Rest
<1> QED
  BY <1>1, <1>2 DEF Flags, Rest, TypeOK, IInv, EngineTyped

LEMMA SomeReading == ASSUME NEW n PROVE ReadingsOf(n) \subseteq Readings \cup {NotReady}
  BY DEF ReadingsOf

LEMMA NextRest == FrameInv /\ Rest /\ [Next]_vars => Rest'
<1> SUFFICES ASSUME FrameInv, Rest, [Next]_vars
             PROVE  Rest'
  OBVIOUS
<1> USE EngineAssumption DEF Rest
<1>m. UNCHANGED mtf => MtfTypeOK'
  BY DEF mtf, MtfTypeOK
<1>f. Fault => faults' \in 0 .. MaxFaults
  BY DEF Fault
<1>1. CASE Register
  <2>1. MtfTypeOK'
    BY <1>1, <1>m DEF Register
  <2> QED
    BY <1>1, <1>f, <2>1, DataTyped DEF Register, Anew
<1>2. CASE Warmup
  <2>1. MtfTypeOK'
    BY <1>2, <1>m DEF Warmup
  <2> QED
    BY <1>2, <1>f, <2>1, SomeReading DEF Warmup
<1>3. CASE Run
  <2>1. MtfTypeOK'
    BY <1>3, <1>m DEF Run
  <2> QED
    BY <1>3, <2>1 DEF Run
<1>4. CASE Candle
  <2>1. MtfTypeOK'
    BY <1>4, <1>m DEF Candle
  <2> QED
    BY <1>4, <2>1, SomeReading DEF Candle, Appended
<1>5. CASE TickOfLeverageInverse
  <2>1. MtfTypeOK'
    BY <1>5, <1>m DEF TickOfLeverageInverse
  <2>2. faults' \in 0 .. MaxFaults
    BY <1>5 DEF TickOfLeverageInverse, Publish, Fault
  <2> QED
    BY <1>5, <2>1, <2>2 DEF TickOfLeverageInverse
<1>6. CASE TickOfCciBbc
  <2>1. MtfTypeOK'
    BY <1>6, <1>m DEF TickOfCciBbc
  <2>2. signals' \in 0 .. 3
    BY <1>6 DEF TickOfCciBbc
  <2> QED
    BY <1>6, <2>1, <2>2 DEF TickOfCciBbc
<1>7. CASE Restart
  <2>1. MtfTypeOK'
    <3>1. FrameInv'
      BY <1>7, RestartFrames
    <3>2. load'.began = -1 /\ load'.waits = "nothing" /\ frames'.began = -1 /\ now' \in Nat
      BY <1>7, FrameAssumption DEF Restart, Idle, None, FrameInv
    <3> QED
      BY <3>1, <3>2 DEF FrameInv, MtfTypeOK
  <2> QED
    BY <1>7, <1>f, <2>1 DEF Restart
<1>8. CASE Loader
  <2>1. MtfTypeOK'
    BY <1>8, LoaderTyped DEF Loader
  <2> QED
    BY <1>8, <2>1 DEF Loader, engine
<1>9. CASE UNCHANGED vars
  <2>1. MtfTypeOK'
    BY <1>9, <1>m DEF vars
  <2> QED
    BY <1>9, <2>1 DEF vars, engine
<1> QED
  BY <1>1, <1>2, <1>3, <1>4, <1>5, <1>6, <1>7, <1>8, <1>9 DEF Next

LEMMA InitRest == Init => Rest
<1> SUFFICES ASSUME Init
             PROVE  Rest
  OBVIOUS
<1>1. FrameInv
  BY InitFrames DEF Init
<1>2. load.began = -1 /\ load.waits = "nothing" /\ frames.began = -1 /\ now \in Nat
  BY DEF Init, MtfInit, Idle, None
<1>3. MtfTypeOK
  BY <1>1, <1>2 DEF FrameInv, MtfTypeOK
<1> QED
  BY <1>3, EngineAssumption DEF Init, Rest

(* Every variable of the engine and of the loader stays within its type.   *)
THEOREM EngineTypes == Spec => []TypeOK
<1>1. Init => Rest
  BY InitRest
<1>2. FrameInv /\ Rest /\ [Next]_vars => Rest'
  BY NextRest
<1>3. IInv /\ Flags /\ Rest => TypeOK
  BY RestTypes
<1>4. (Init => Flags) /\ (Flags /\ [Next]_vars => Flags')
  BY FlagsStay
<1> QED
  BY <1>1, <1>2, <1>3, <1>4, IInvAlways, FramesAlways, PTL DEF Spec

(***************************************************************************)
(* CCI/BBC                                                                 *)
(***************************************************************************)

(* Points are given or not, whatever they are for.                         *)
LEMMA ScoreIs ==
  ASSUME NEW x
  PROVE  \E rest \in Int : \A dir : Bbc!Score(x, dir) =
           (IF dir["monthly"] = "bullish" THEN 1 ELSE 0) + (IF dir["weekly"] = "bullish" THEN 1 ELSE 0)
             + (IF dir["60min"] = "bullish" THEN 1 ELSE 0) + rest
<1> DEFINE c1 == IF Bbc!Cross(x.cci, x.signal) = "gc" THEN 2 ELSE 0
           c2 == IF Bbc!Cross(x.cci, x.signal) = "dc" THEN -2 ELSE 0
           c3 == IF x.volMa20 > 0 /\ Bbc!Surge(x, 3) THEN 1 ELSE 0
           c4 == IF Bbc!Intraday(x) \in {1, 3} THEN 1 ELSE 0
           c5 == IF x.ma5 > x.ma20 THEN 1 ELSE 0
           c6 == IF Bbc!Declines45(x.candles) THEN -1 ELSE 0
           c7 == IF Bbc!Intraday(x) = 4 THEN -2 ELSE 0
           Of(dir, f) == IF dir[f] = "bullish" THEN 1 ELSE 0
<1>1. c1 \in Int /\ c2 \in Int /\ c3 \in Int /\ c4 \in Int /\ c5 \in Int /\ c6 \in Int /\ c7 \in Int
  OBVIOUS
<1>2. ASSUME NEW dir
      PROVE  Bbc!Score(x, dir) = Of(dir, "monthly") + Of(dir, "weekly") + c1 + c2 + Of(dir, "60min") + c3 + c4 + c5 + c6 + c7
  BY DEF Bbc!Score
<1>3. \A dir, f : Of(dir, f) \in Int
  OBVIOUS
<1> HIDE DEF c1, c2, c3, c4, c5, c6, c7, Of
<1>4. c1 + c2 + c3 + c4 + c5 + c6 + c7 \in Int
  BY <1>1
<1>5. ASSUME NEW dir
      PROVE  Bbc!Score(x, dir) = Of(dir, "monthly") + Of(dir, "weekly") + Of(dir, "60min") + (c1 + c2 + c3 + c4 + c5 + c6 + c7)
  BY <1>1, <1>2, <1>3
<1> QED
  BY <1>4, <1>5 DEF Of

(* What is bought is worth nothing, one tenth or three.                    *)
LEMMA WorthIs ==
  /\ Worth(Bbc!NoSignal) = 0
  /\ \A n : Worth(Bbc!Sell(n)) = -1
  /\ \A n \in Int : Worth(Bbc!Buy(n)) = n
BY DEF Worth, Bbc!NoSignal, Bbc!Sell, Bbc!Buy

LEMMA BetterBuysNoLess ==
  ASSUME NEW dir \in [Judged -> Directions], NEW x, NEW f \in {"weekly", "60min"}
  PROVE  Worth(Bbc!OnTick(x, dir)) <= Worth(Bbc!OnTick(x, [dir EXCEPT ![f] = "bullish"]))
<1> DEFINE better == [dir EXCEPT ![f] = "bullish"]
           top(d) == /\ Bbc!HeadAndShoulders(x.candles)
                     /\ d["monthly"] # "bullish" \/ d["weekly"] # "bullish"
           Decided(d) ==
             LET score == Bbc!Score(x, d)
             IN  IF d["monthly"] # "bullish" \/ ~x.daily THEN Bbc!NoSignal
                 ELSE IF Bbc!ImmediateSell(x) THEN Bbc!Sell(1)
                 ELSE IF score < 0 THEN IF Bbc!EvaluateSell(x) THEN Bbc!Sell(1) ELSE Bbc!NoSignal
                 ELSE IF Bbc!PositionSize(score) = 0 \/ ~Bbc!EvaluateBuy(x) \/ Bbc!Intraday(x) = 4 THEN Bbc!NoSignal
                 ELSE Bbc!Buy(Bbc!PositionSize(score))
<1>1. /\ better["monthly"] = dir["monthly"]
      /\ dir["weekly"] = "bullish" => better["weekly"] = "bullish"
      /\ dir["60min"] = "bullish" => better["60min"] = "bullish"
  BY DEF Judged, Resampled
<1>2. ASSUME NEW d
      PROVE  Bbc!OnTick(x, d) = IF x.candles = <<>> THEN Bbc!NoSignal
                                ELSE IF top(d) THEN Bbc!Sell(Bbc!All) ELSE Decided(d)
  BY DEF Bbc!OnTick
<1> HIDE DEF better
<1>3. top(better) => top(dir)
  BY <1>1
<1>4. Bbc!Score(x, dir) \in Int /\ Bbc!Score(x, better) \in Int /\ Bbc!Score(x, dir) <= Bbc!Score(x, better)
  <2>1. PICK rest \in Int : \A d : Bbc!Score(x, d) =
           (IF d["monthly"] = "bullish" THEN 1 ELSE 0) + (IF d["weekly"] = "bullish" THEN 1 ELSE 0)
             + (IF d["60min"] = "bullish" THEN 1 ELSE 0) + rest
    BY ScoreIs
  <2> DEFINE Of(d, g) == IF d[g] = "bullish" THEN 1 ELSE 0
  <2>2. \A d, g : Of(d, g) \in Int
    OBVIOUS
  <2>3. \A d : Bbc!Score(x, d) = Of(d, "monthly") + Of(d, "weekly") + Of(d, "60min") + rest
    BY <2>1
  <2>4. \A g \in {"monthly", "weekly", "60min"} : Of(dir, g) <= Of(better, g)
    BY <1>1
  <2> HIDE DEF Of
  <2>5. /\ Of(dir, "monthly") <= Of(better, "monthly") /\ Of(dir, "weekly") <= Of(better, "weekly")
        /\ Of(dir, "60min") <= Of(better, "60min")
    BY <2>4
  <2> QED
    BY <2>2, <2>3, <2>5
<1>5. ASSUME NEW d, Bbc!Score(x, d) \in Int
      PROVE  /\ Worth(Decided(d)) \in {-1, 0, 1, 3}
             /\ Bbc!PositionSize(Bbc!Score(x, d)) \in {0, 1, 3}
  <2>1. Bbc!PositionSize(Bbc!Score(x, d)) \in {0, 1, 3}
    BY <1>5 DEF Bbc!PositionSize
  <2> QED
    BY <2>1, WorthIs
<1>6. Bbc!PositionSize(Bbc!Score(x, dir)) <= Bbc!PositionSize(Bbc!Score(x, better))
  BY <1>4 DEF Bbc!PositionSize
<1>7. Worth(Decided(dir)) <= Worth(Decided(better))
  <2>1. CASE dir["monthly"] # "bullish" \/ ~x.daily
    BY <1>1, <2>1, WorthIs
  <2>2. CASE ~(dir["monthly"] # "bullish" \/ ~x.daily) /\ Bbc!ImmediateSell(x)
    BY <1>1, <2>2, WorthIs
  <2>3. CASE ~(dir["monthly"] # "bullish" \/ ~x.daily) /\ ~Bbc!ImmediateSell(x)
    <3>1. CASE Bbc!Score(x, dir) < 0 /\ Bbc!Score(x, better) < 0
      BY <1>1, <2>3, <3>1, WorthIs
    <3>2. CASE Bbc!Score(x, dir) < 0 /\ ~(Bbc!Score(x, better) < 0)
      <4>1. Worth(Decided(dir)) \in {-1, 0}
        BY <2>3, <3>2, WorthIs
      <4>2. Worth(Decided(better)) \in {0, 1, 3}
        BY <1>1, <1>4, <1>5, <2>3, <3>2, WorthIs
      <4> QED
        BY <4>1, <4>2
    <3>3. CASE ~(Bbc!Score(x, dir) < 0)
      <4> DEFINE p == Bbc!PositionSize(Bbc!Score(x, dir))
                 q == Bbc!PositionSize(Bbc!Score(x, better))
                 no == ~Bbc!EvaluateBuy(x) \/ Bbc!Intraday(x) = 4
      <4>1. ~(Bbc!Score(x, better) < 0)
        BY <1>4, <3>3
      <4>2. p \in {0, 1, 3} /\ q \in {0, 1, 3} /\ p <= q
        BY <1>4, <1>5, <1>6
      <4>3. Decided(dir) = IF p = 0 \/ no THEN Bbc!NoSignal ELSE Bbc!Buy(p)
        BY <2>3, <3>3
      <4>4. Decided(better) = IF q = 0 \/ no THEN Bbc!NoSignal ELSE Bbc!Buy(q)
        BY <1>1, <2>3, <4>1
      <4> HIDE DEF p, q, no, Decided
      <4> QED
        BY <4>2, <4>3, <4>4, WorthIs
    <3> QED
      BY <3>1, <3>2, <3>3
  <2> QED
    BY <2>1, <2>2, <2>3
<1>8. Worth(Decided(better)) \in {-1, 0, 1, 3}
  BY <1>4, <1>5
<1> HIDE DEF Decided, top
<1>9. Worth(Bbc!OnTick(x, dir)) <= Worth(Bbc!OnTick(x, better))
  <2>1. CASE x.candles = <<>>
    BY <1>2, <2>1, WorthIs
  <2>2. CASE x.candles # <<>> /\ top(dir)
    <3>1. Worth(Bbc!OnTick(x, dir)) = -1
      BY <1>2, <2>2, WorthIs
    <3>2. Worth(Bbc!OnTick(x, better)) \in {-1, 0, 1, 3}
      BY <1>2, <1>8, <2>2, WorthIs
    <3> QED
      BY <3>1, <3>2
  <2>3. CASE x.candles # <<>> /\ ~top(dir)
    BY <1>2, <1>3, <1>7, <2>3
  <2> QED
    BY <2>1, <2>2, <2>3
<1> QED
  BY <1>9 DEF better

\* A better week or hour never makes CCI/BBC buy less: for whatever candles,
\* prices and volumes a tick finds (compute_reliability_score, on_tick).
THEOREM BetterFramesAlways == Spec => []BetterFramesBuyNoLess
<1>1. BetterFramesBuyNoLess
  BY BetterBuysNoLess DEF BetterFramesBuyNoLess, BuyingIsMonotone
<1> QED
  BY <1>1, PTL
=============================================================================
