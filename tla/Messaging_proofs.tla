--------------------------- MODULE Messaging_proofs --------------------------
(***************************************************************************)
(* The bus, the notifier and a /stream client for any bounds of their      *)
(* queues, any number of events and any way to the end: types, the drain   *)
(* of a shutdown, the priority of urgent messages, and that bus and client *)
(* queue together, and bus, notifier queues, drain and cancellation        *)
(* together for each of the two kinds of message, implement LossyChannel.  *)
(***************************************************************************)
EXTENDS Messaging, SequenceTheorems, TLAPS

(***************************************************************************)
(* Sequences                                                               *)
(***************************************************************************)
LEMMA TailIs ==
  ASSUME NEW S, NEW q \in Seq(S), q # <<>>
  PROVE  /\ Len(q) \in Nat \ {0} /\ DOMAIN q = 1 .. Len(q)
         /\ Head(q) = q[1] /\ Head(q) \in S
         /\ Tail(q) \in Seq(S) /\ Len(Tail(q)) = Len(q) - 1
         /\ DOMAIN Tail(q) = 1 .. Len(q) - 1
         /\ \A i \in 1 .. Len(q) - 1 : Tail(q)[i] = q[i + 1]
<1>1. Len(q) \in Nat \ {0} /\ DOMAIN q = 1 .. Len(q)
  BY EmptySeq, LenProperties
<1>2. /\ Head(q) \in S /\ Tail(q) \in Seq(S) /\ Len(Tail(q)) = Len(q) - 1
      /\ \A i \in 1 .. Len(Tail(q)) : Tail(q)[i] = q[i + 1]
  BY HeadTailProperties
<1>3. DOMAIN Tail(q) = 1 .. Len(q) - 1
  BY <1>2, LenProperties
<1>4. Head(q) = q[1]
  OBVIOUS
<1> QED
  BY <1>1, <1>2, <1>3, <1>4

LEMMA AppendIs ==
  ASSUME NEW S, NEW q \in Seq(S), NEW e \in S
  PROVE  /\ Len(q) \in Nat /\ DOMAIN q = 1 .. Len(q)
         /\ Append(q, e) \in Seq(S) /\ Len(Append(q, e)) = Len(q) + 1
         /\ DOMAIN Append(q, e) = 1 .. Len(q) + 1
         /\ \A i \in 1 .. Len(q) : Append(q, e)[i] = q[i]
         /\ Append(q, e)[Len(q) + 1] = e
<1>1. /\ Append(q, e) \in Seq(S) /\ Len(Append(q, e)) = Len(q) + 1
      /\ \A i \in 1 .. Len(q) : Append(q, e)[i] = q[i]
      /\ Append(q, e)[Len(q) + 1] = e
  BY AppendProperties
<1>2. Len(q) \in Nat /\ DOMAIN q = 1 .. Len(q) /\ DOMAIN Append(q, e) = 1 .. Len(q) + 1
  BY <1>1, LenProperties
<1> QED
  BY <1>1, <1>2

(* Sequences of events, and what order means for them.                     *)
LEMMA TailAscends ==
  ASSUME NEW q \in Seq(Nat), q # <<>>, Ascends(q)
  PROVE  /\ Ascends(Tail(q)) /\ \A i \in DOMAIN Tail(q) : Head(q) < Tail(q)[i]
         /\ \A p : Precedes(p, q) => Precedes(p, Tail(q)) /\ \A i \in DOMAIN p : p[i] < Head(q)
         /\ \A p : Precedes(q, p) => Precedes(Tail(q), p) /\ \A i \in DOMAIN p : Head(q) < p[i]
         /\ \A n : Has(q, n) <=> n = Head(q) \/ Has(Tail(q), n)
<1> DEFINE r == Tail(q)
<1>0. /\ Len(q) \in Nat \ {0} /\ DOMAIN q = 1 .. Len(q) /\ Head(q) = q[1]
      /\ DOMAIN r = 1 .. Len(q) - 1 /\ \A i \in 1 .. Len(q) - 1 : r[i] = q[i + 1]
  BY TailIs
<1> DEFINE h == Head(q)
<1>00. h = q[1]
  BY <1>0
<1> HIDE DEF r, h
<1>01. 1 \in DOMAIN q /\ \A i \in DOMAIN r : i + 1 \in DOMAIN q /\ r[i] = q[i + 1]
  BY <1>0
<1>1. ASSUME NEW i \in DOMAIN r, NEW j \in DOMAIN r, i < j PROVE r[i] < r[j]
  <2>1. i + 1 \in DOMAIN q /\ j + 1 \in DOMAIN q /\ i + 1 < j + 1 /\ r[i] = q[i + 1] /\ r[j] = q[j + 1]
    BY <1>0, <1>1
  <2> QED
    BY <2>1 DEF Ascends
<1>2. ASSUME NEW i \in DOMAIN r PROVE h < r[i]
  <2>1. i + 1 \in DOMAIN q /\ 1 \in DOMAIN q /\ 1 < i + 1 /\ r[i] = q[i + 1]
    BY <1>0
  <2> QED
    BY <1>00, <2>1 DEF Ascends
<1>3. ASSUME NEW p, Precedes(p, q) PROVE Precedes(p, r) /\ \A i \in DOMAIN p : p[i] < h
  BY <1>01, <1>00, <1>3 DEF Precedes
<1>4. ASSUME NEW p, Precedes(q, p) PROVE Precedes(r, p) /\ \A i \in DOMAIN p : h < p[i]
  BY <1>01, <1>00, <1>4 DEF Precedes
<1>5. ASSUME NEW n PROVE Has(q, n) <=> n = h \/ Has(r, n)
  <2>1. ASSUME NEW i \in DOMAIN q, q[i] = n PROVE n = h \/ Has(r, n)
    <3>1. CASE i = 1
      BY <3>1, <2>1, <1>00
    <3>2. CASE i # 1
      <4>1. i - 1 \in DOMAIN r /\ r[i - 1] = q[i]
        BY <1>0, <3>2
      <4> QED
        BY <4>1, <2>1 DEF Has
    <3> QED
      BY <3>1, <3>2
  <2>2. ASSUME NEW i \in DOMAIN r, r[i] = n PROVE Has(q, n)
    BY <1>01, <2>2 DEF Has
  <2>3. Has(q, h)
    BY <1>0, <1>00 DEF Has
  <2> QED
    BY <2>1, <2>2, <2>3 DEF Has
<1>6. Ascends(r)
  BY <1>1 DEF Ascends
<1> QED
  BY <1>2, <1>3, <1>4, <1>5, <1>6 DEF r, h

LEMMA AppendAscends ==
  ASSUME NEW q \in Seq(Nat), NEW e \in Nat, Ascends(q), \A i \in DOMAIN q : q[i] < e
  PROVE  /\ Ascends(Append(q, e))
         /\ \A p : Precedes(p, q) /\ (\A i \in DOMAIN p : p[i] < e) => Precedes(p, Append(q, e))
         /\ \A p : Precedes(q, p) /\ (\A i \in DOMAIN p : e < p[i]) => Precedes(Append(q, e), p)
         /\ \A n : Has(Append(q, e), n) <=> Has(q, n) \/ n = e
<1> DEFINE r == Append(q, e)
<1>0. /\ Len(q) \in Nat /\ DOMAIN q = 1 .. Len(q)
      /\ DOMAIN r = 1 .. Len(q) + 1 /\ r[Len(q) + 1] = e
      /\ \A i \in 1 .. Len(q) : r[i] = q[i]
  BY AppendIs
<1> HIDE DEF r
<1>1. ASSUME NEW i \in DOMAIN r PROVE (i \in DOMAIN q /\ r[i] = q[i]) \/ (i = Len(q) + 1 /\ r[i] = e)
  <2>1. CASE i = Len(q) + 1
    BY <1>0, <2>1
  <2>2. CASE i # Len(q) + 1
    <3>1. i \in 1 .. Len(q)
      BY <1>0, <2>2
    <3> QED
      BY <1>0, <3>1
  <2> QED
    BY <2>1, <2>2
<1>2. ASSUME NEW i \in DOMAIN r, NEW j \in DOMAIN r, i < j PROVE r[i] < r[j]
  <2>1. i \in DOMAIN q /\ r[i] = q[i]
    BY <1>0, <1>2
  <2>2. CASE j \in DOMAIN q /\ r[j] = q[j]
    BY <1>2, <2>1, <2>2 DEF Ascends
  <2>3. CASE r[j] = e
    BY <2>1, <2>3
  <2> QED
    BY <1>1, <2>2, <2>3
<1>3. ASSUME NEW p, Precedes(p, q), \A i \in DOMAIN p : p[i] < e PROVE Precedes(p, r)
  BY <1>1, <1>3 DEF Precedes
<1>4. ASSUME NEW p, Precedes(q, p), \A i \in DOMAIN p : e < p[i] PROVE Precedes(r, p)
  BY <1>1, <1>4 DEF Precedes
<1>5. ASSUME NEW n PROVE Has(r, n) <=> Has(q, n) \/ n = e
  BY <1>0, <1>1 DEF Has
<1>6. Ascends(r)
  BY <1>2 DEF Ascends
<1> QED
  BY <1>3, <1>4, <1>5, <1>6 DEF r

(***************************************************************************)
(* Types                                                                   *)
(***************************************************************************)
Events == 1 .. Len(kind)
Troubles == {"bus", "urgent", "normal", "api", "stream", "left", "end", "cut"}

LEMMA KindIs ==
  ASSUME TypeOK
  PROVE  Len(kind) \in Nat /\ DOMAIN kind = Events /\ Events \subseteq Nat /\ 0 \notin Events
<1>1. kind \in Seq(Kinds)
  BY DEF TypeOK
<1>2. Len(kind) \in Nat /\ DOMAIN kind = 1 .. Len(kind)
  BY <1>1, LenProperties
<1> QED
  BY <1>2 DEF Events

(* The message at the head of a queue of the notifier is taken.            *)
LEMMA Taken ==
  ASSUME TypeOK, NEW q \in Seq(Events), NEW cap \in Nat, Len(q) <= cap, q # <<>>
  PROVE  Head(q) \in Events /\ Head(q) # 0 /\ Tail(q) \in Seq(Events) /\ Len(Tail(q)) <= cap
<1>1. /\ Len(q) \in Nat \ {0} /\ Head(q) \in Events
      /\ Tail(q) \in Seq(Events) /\ Len(Tail(q)) = Len(q) - 1
  BY TailIs
<1> QED
  BY <1>1, KindIs

(* An event joins a queue that has room for it.                            *)
LEMMA Joined ==
  ASSUME NEW S, NEW q \in Seq(S), NEW cap \in Nat, Len(q) <= cap, NEW e \in S
  PROVE  Put(q, cap, e) \in Seq(S) /\ Len(Put(q, cap, e)) <= cap
<1>1. Len(q) \in Nat /\ Append(q, e) \in Seq(S) /\ Len(Append(q, e)) = Len(q) + 1
  BY AppendIs
<1> QED
  BY <1>1 DEF Put

NotifierTypes ==
  /\ urgent \in Seq(Events) /\ normal \in Seq(Events) /\ told \in [Queued -> Seq(Events)]
  /\ flight \in Events \union {0}
  /\ Len(urgent) <= UrgentCap /\ Len(normal) <= NormalCap
  /\ phase \in {"poll", "send", "rest", "drain", "closed"}
  /\ flight # 0 <=> phase \in {"send", "drain"}
  /\ stage \in {"urgent", "normal"}

LEMMA TypesOfNotifier == TypeOK => NotifierTypes
  BY DEF TypeOK, NotifierTypes, Events

LEMMA DeliveredTypes ==
  ASSUME told \in [Queued -> Seq(Events)], flight \in Events
  PROVE  Delivered \in [Queued -> Seq(Events)]
<1>1. ASSUME NEW k \in Queued PROVE Append(told[k], flight) \in Seq(Events)
  <2>1. told[k] \in Seq(Events)
    OBVIOUS
  <2> QED
    BY <2>1, AppendIs
<1> QED
  BY <1>1 DEF Delivered

LEMMA AnsweredTypes ==
  ASSUME TypeOK, Answered, flight # 0
  PROVE  told' \in [Queued -> Seq(Events)] /\ trouble' \in SUBSET Troubles
<1>1. told \in [Queued -> Seq(Events)] /\ flight \in Events /\ trouble \subseteq Troubles
  BY DEF TypeOK, Events, Troubles
<1>2. Delivered \in [Queued -> Seq(Events)]
  BY <1>1, DeliveredTypes
<1> QED
  BY <1>1, <1>2 DEF Answered, Troubles

LEMMA DrainTypes ==
  ASSUME TypeOK, NEW at \in {"urgent", "normal"}, DrainFrom(at)
  PROVE  /\ urgent' \in Seq(Events) /\ normal' \in Seq(Events)
         /\ flight' \in Events \union {0}
         /\ Len(urgent') <= UrgentCap /\ Len(normal') <= NormalCap
         /\ phase' \in {"drain", "closed"}
         /\ flight' # 0 <=> phase' = "drain"
         /\ stage' \in {"urgent", "normal"}
<1>1. /\ urgent \in Seq(Events) /\ normal \in Seq(Events) /\ stage \in {"urgent", "normal"}
      /\ Len(urgent) <= UrgentCap /\ Len(normal) <= NormalCap
      /\ UrgentCap \in Nat /\ NormalCap \in Nat
  BY MessagingAssumption DEF TypeOK, Events
<1>2. CASE /\ at = "urgent" /\ urgent # <<>>
           /\ flight' = Head(urgent) /\ urgent' = Tail(urgent)
           /\ phase' = "drain" /\ stage' = "urgent" /\ UNCHANGED normal
  BY <1>1, <1>2, Taken
<1>3. CASE /\ normal # <<>>
           /\ flight' = Head(normal) /\ normal' = Tail(normal)
           /\ phase' = "drain" /\ stage' = "normal" /\ UNCHANGED urgent
  BY <1>1, <1>3, Taken
<1>4. CASE flight' = 0 /\ phase' = "closed" /\ UNCHANGED <<stage, urgent, normal>>
  BY <1>1, <1>4
<1> QED
  BY <1>2, <1>3, <1>4 DEF DrainFrom

LEMMA CancelTypes ==
  ASSUME TypeOK, CancelNotifier
  PROVE  /\ urgent' \in Seq(Events) /\ normal' \in Seq(Events) /\ told' \in [Queued -> Seq(Events)]
         /\ flight' \in Events \union {0}
         /\ Len(urgent') <= UrgentCap /\ Len(normal') <= NormalCap
         /\ phase' \in {"drain", "closed"}
         /\ flight' # 0 <=> phase' = "drain"
         /\ stage' \in {"urgent", "normal"} /\ trouble' \in SUBSET Troubles
<1>1. NotifierTypes /\ trouble \subseteq Troubles
  BY TypesOfNotifier DEF TypeOK, Troubles
<1>2. told' \in [Queued -> Seq(Events)]
  <2>1. flight # 0 => Delivered \in [Queued -> Seq(Events)]
    BY <1>1, DeliveredTypes DEF NotifierTypes
  <2> QED
    BY <1>1, <2>1 DEF CancelNotifier, NotifierTypes
<1>3. trouble' \in SUBSET Troubles
  BY <1>1 DEF CancelNotifier, Troubles
<1>4. CASE DrainFrom("urgent")
  BY <1>2, <1>3, <1>4, DrainTypes
<1>5. CASE /\ phase' = "closed" /\ flight' = 0 /\ UNCHANGED <<urgent, normal, stage>>
  BY <1>1, <1>2, <1>3, <1>5 DEF NotifierTypes
<1>6. CASE /\ phase = "closed" /\ UNCHANGED <<urgent, normal, stage, phase, flight>>
  BY <1>1, <1>2, <1>3, <1>6 DEF NotifierTypes
<1> QED
  BY <1>4, <1>5, <1>6 DEF CancelNotifier

LEMMA NotifierStepTypes ==
  ASSUME TypeOK, NotifierStep
  PROVE  NotifierTypes' /\ trouble' \in SUBSET Troubles /\ UNCHANGED <<outside, running>>
<1>1. NotifierTypes /\ trouble \subseteq Troubles /\ UrgentCap \in Nat /\ NormalCap \in Nat
  BY TypesOfNotifier, MessagingAssumption DEF TypeOK, Troubles
<1>2. UNCHANGED <<outside, running>> /\ Events' = Events
  BY DEF NotifierStep, GetNext, SendMessage, Rested, LeaveLoop, DrainMessage, outside, Events
<1>3. CASE GetNext
  <2>1. CASE urgent # <<>> /\ flight' = Head(urgent) /\ urgent' = Tail(urgent) /\ UNCHANGED normal
    BY <1>1, <1>2, <1>3, <2>1, Taken DEF GetNext, NotifierTypes
  <2>2. CASE normal # <<>> /\ flight' = Head(normal) /\ normal' = Tail(normal) /\ UNCHANGED urgent
    BY <1>1, <1>2, <1>3, <2>2, Taken DEF GetNext, NotifierTypes
  <2> QED
    BY <1>3, <2>1, <2>2 DEF GetNext
<1>4. CASE SendMessage
  <2>1. flight # 0
    BY <1>1, <1>4 DEF SendMessage, NotifierTypes
  <2>2. told' \in [Queued -> Seq(Events)] /\ trouble' \in SUBSET Troubles
    BY <1>4, <2>1, AnsweredTypes DEF SendMessage
  <2> QED
    BY <1>1, <1>2, <1>4, <2>2 DEF SendMessage, NotifierTypes
<1>5. CASE Rested
  BY <1>1, <1>2, <1>5 DEF Rested, NotifierTypes
<1>6. CASE LeaveLoop
  BY <1>1, <1>2, <1>6, DrainTypes DEF LeaveLoop, NotifierTypes
<1>7. CASE DrainMessage
  <2>1. flight # 0 /\ stage \in {"urgent", "normal"} /\ DrainFrom(stage)
    BY <1>1, <1>7 DEF DrainMessage, NotifierTypes
  <2>2. told' \in [Queued -> Seq(Events)] /\ trouble' \in SUBSET Troubles
    BY <1>7, <2>1, AnsweredTypes DEF DrainMessage
  <2> QED
    BY <1>2, <2>1, <2>2, DrainTypes DEF NotifierTypes
<1> QED
  BY <1>3, <1>4, <1>5, <1>6, <1>7 DEF NotifierStep

LEMMA InitTyped == Init => TypeOK
<1> SUFFICES ASSUME Init PROVE TypeOK
  OBVIOUS
<1>1. \A S : <<>> \in Seq(S)
  BY EmptySeq
<1>2. Len(<<>>) = 0
  OBVIOUS
<1> QED
  BY <1>1, <1>2, MessagingAssumption DEF Init, TypeOK

LEMMA PublishTyped ==
  ASSUME TypeOK, NEW k \in Kinds, Publish(k)
  PROVE  TypeOK'
<1>0. /\ kind' = Append(kind, k) /\ UNCHANGED <<busRuns, notifier, client, watch>>
      /\ trouble' \in {trouble, trouble \union {"bus"}}
  BY DEF Publish
<1>1. kind \in Seq(Kinds) /\ Len(kind) \in Nat
  BY KindIs DEF TypeOK
<1>2. kind' \in Seq(Kinds) /\ Len(kind') = Len(kind) + 1
  BY <1>0, <1>1, AppendIs
<1>3. Events \subseteq Events' /\ Len(kind') \in Events'
  BY <1>1, <1>2 DEF Events
<1>4. \A q \in Seq(Events) : q \in Seq(Events')
  BY <1>3, SeqMonotonic
<1>5. bus' \in Seq(Events') /\ Len(bus') <= BusCap
  <2>1. bus \in Seq(Events) /\ Len(bus) <= BusCap
    BY DEF TypeOK, Events
  <2>2. CASE bus' = bus
    BY <1>4, <2>1, <2>2
  <2>3. CASE Len(bus) < BusCap /\ bus' = Append(bus, Len(kind'))
    <3>1. bus \in Seq(Events')
      BY <1>4, <2>1
    <3>2. Len(bus) \in Nat /\ bus' \in Seq(Events') /\ Len(bus') = Len(bus) + 1
      BY <1>3, <2>3, <3>1, AppendIs
    <3> QED
      BY <2>3, <3>2, MessagingAssumption
  <2> QED
    BY <2>2, <2>3 DEF Publish
<1>6. /\ urgent' \in Seq(Events') /\ normal' \in Seq(Events') /\ outbox' \in Seq(Events')
      /\ told' \in [Queued -> Seq(Events')] /\ shown' \in Seq(Events') /\ flight' \in Events' \union {0}
  <2>1. /\ urgent \in Seq(Events) /\ normal \in Seq(Events) /\ outbox \in Seq(Events)
        /\ told \in [Queued -> Seq(Events)] /\ shown \in Seq(Events) /\ flight \in Events \union {0}
    BY DEF TypeOK, Events
  <2>2. /\ urgent' = urgent /\ normal' = normal /\ outbox' = outbox
        /\ told' = told /\ shown' = shown /\ flight' = flight
    BY <1>0 DEF notifier, client
  <2> QED
    BY <1>3, <1>4, <2>1, <2>2
<1> QED
  BY <1>0, <1>2, <1>5, <1>6 DEF TypeOK, notifier, client, Events

LEMMA DispatchTyped ==
  ASSUME TypeOK, Dispatch
  PROVE  TypeOK'
<1>0. /\ bus \in Seq(Events) /\ bus # <<>> /\ Len(bus) <= BusCap
      /\ urgent \in Seq(Events) /\ Len(urgent) <= UrgentCap /\ UrgentCap \in Nat
      /\ normal \in Seq(Events) /\ Len(normal) <= NormalCap /\ NormalCap \in Nat
      /\ outbox \in Seq(Events) /\ Len(outbox) <= StreamCap /\ StreamCap \in Nat
      /\ BusCap \in Nat
  BY MessagingAssumption DEF TypeOK, Events, Dispatch
<1> DEFINE n == Head(bus)
<1>1. n \in Events /\ bus' \in Seq(Events) /\ Len(bus') <= BusCap
  BY <1>0, Taken DEF Dispatch
<1> HIDE DEF n
<1>2. /\ urgent' \in {urgent, Put(urgent, UrgentCap, n)} /\ normal' \in {normal, Put(normal, NormalCap, n)}
      /\ outbox' \in {outbox, Put(outbox, StreamCap, n)}
      /\ \E full \in SUBSET {"urgent", "normal", "stream"} : trouble' = trouble \union full
  <2>1. \E full \in SUBSET {"urgent", "normal", "stream"} : trouble' = trouble \union full
    BY DEF Dispatch
  <2> QED
    BY <2>1 DEF Dispatch, n
<1>3. /\ urgent' \in Seq(Events) /\ Len(urgent') <= UrgentCap
      /\ normal' \in Seq(Events) /\ Len(normal') <= NormalCap
      /\ outbox' \in Seq(Events) /\ Len(outbox') <= StreamCap
  <2>1. Put(urgent, UrgentCap, n) \in Seq(Events) /\ Len(Put(urgent, UrgentCap, n)) <= UrgentCap
    BY <1>0, <1>1, Joined
  <2>2. Put(normal, NormalCap, n) \in Seq(Events) /\ Len(Put(normal, NormalCap, n)) <= NormalCap
    BY <1>0, <1>1, Joined
  <2>3. Put(outbox, StreamCap, n) \in Seq(Events) /\ Len(Put(outbox, StreamCap, n)) <= StreamCap
    BY <1>0, <1>1, Joined
  <2> QED
    BY <1>0, <1>2, <2>1, <2>2, <2>3
<1>4. UNCHANGED <<kind, busRuns, phase, stage, running, flight, told, joined, shown, watch>>
  BY DEF Dispatch
<1> QED
  BY <1>1, <1>2, <1>3, <1>4 DEF TypeOK, Events

LEMMA NextTyped == TypeOK /\ [Next]_vars => TypeOK'
<1> SUFFICES ASSUME TypeOK, [Next]_vars PROVE TypeOK'
  OBVIOUS
<1>1. CASE NotifierStep
  <2>1. NotifierTypes' /\ trouble' \in SUBSET Troubles /\ UNCHANGED <<outside, running>>
    BY <1>1, NotifierStepTypes
  <2> QED
    BY <2>1 DEF TypeOK, NotifierTypes, outside, client, Events, Troubles
<1>2. CASE StreamSend
  <2>1. outbox \in Seq(Events) /\ shown \in Seq(Events) /\ Len(outbox) <= StreamCap /\ StreamCap \in Nat
    BY MessagingAssumption DEF TypeOK, Events
  <2>2. Head(outbox) \in Events /\ outbox' \in Seq(Events) /\ Len(outbox') <= StreamCap
    BY <1>2, <2>1, Taken DEF StreamSend
  <2>3. shown' \in Seq(Events)
    BY <1>2, <2>1, <2>2, AppendIs DEF StreamSend
  <2> QED
    BY <1>2, <2>2, <2>3 DEF StreamSend, TypeOK, notifier, Events
<1>3. CASE Leave
  <2>1. outbox' \in Seq(Events) /\ Len(outbox') = 0
    BY <1>3, EmptySeq DEF Leave
  <2>2. Len(outbox') <= StreamCap
    BY <2>1, MessagingAssumption
  <2> QED
    BY <1>3, <2>1, <2>2 DEF Leave, TypeOK, notifier, Events
<1>4. CASE Join \/ Exit
  BY <1>4 DEF Join, Exit, TypeOK, notifier, client
<1>5. CASE StopBus
  BY <1>5 DEF StopBus, TypeOK, notifier, client
<1>6. CASE StopNotifier
  <2>1. CASE watch' = "info" /\ UNCHANGED <<urgent, normal, phase, stage, flight, told, trouble>>
    BY <1>6, <2>1 DEF StopNotifier, TypeOK, client
  <2>2. CASE watch' = "done" /\ CancelNotifier
    BY <1>6, <2>2, CancelTypes DEF StopNotifier, TypeOK, client, Events, Troubles
  <2> QED
    BY <1>6, <2>1, <2>2 DEF StopNotifier
<1>7. CASE CancelPendingTasks
  BY <1>7, CancelTypes DEF CancelPendingTasks, TypeOK, client, Events, Troubles
<1>8. CASE TaskFails
  BY <1>8, CancelTypes DEF TaskFails, TypeOK, client, Events, Troubles
<1>9. CASE UNCHANGED vars
  BY <1>9 DEF vars, TypeOK, notifier, client
<1> QED
  BY <1>1, <1>2, <1>3, <1>4, <1>5, <1>6, <1>7, <1>8, <1>9, PublishTyped, DispatchTyped DEF Next

(* Types, and every queue within its bound.                                *)
THEOREM MessagingTyping == Spec => []TypeOK
  BY InitTyped, NextTyped, PTL DEF Spec

(***************************************************************************)
(* The drain and the priority                                              *)
(***************************************************************************)
AllUrgent(q) == \A i \in DOMAIN q : kind[q[i]] = "urgent"

(* Taking the first message leaves urgent ones.                            *)
LEMMA UrgentLeft ==
  ASSUME TypeOK, AllUrgent(urgent), urgent # <<>>
  PROVE  AllUrgent(Tail(urgent)) /\ kind[Head(urgent)] = "urgent"
<1>1. urgent \in Seq(Events)
  BY DEF TypeOK, Events
<1>2. /\ Len(urgent) \in Nat \ {0} /\ DOMAIN urgent = 1 .. Len(urgent) /\ Head(urgent) = urgent[1]
      /\ DOMAIN Tail(urgent) = 1 .. Len(urgent) - 1
      /\ \A i \in 1 .. Len(urgent) - 1 : Tail(urgent)[i] = urgent[i + 1]
  BY <1>1, TailIs
<1>3. 1 \in DOMAIN urgent /\ \A i \in 1 .. Len(urgent) - 1 : i + 1 \in DOMAIN urgent
  BY <1>2
<1> QED
  BY <1>2, <1>3 DEF AllUrgent

(* The drain takes urgent messages first, and ends with nothing left.      *)
LEMMA Drains ==
  ASSUME TypeOK, AllUrgent(urgent), NEW at \in {"urgent", "normal"}, DrainFrom(at),
         at = "normal" => urgent = <<>>
  PROVE  /\ AllUrgent(urgent') /\ phase' \in {"drain", "closed"}
         /\ phase' = "drain" /\ stage' = "normal" => urgent' = <<>>
         /\ phase' = "closed" => urgent' = <<>> /\ normal' = <<>>
         /\ flight' # 0 => urgent = <<>> \/ kind[flight'] = "urgent"
<1>1. CASE /\ at = "urgent" /\ urgent # <<>>
           /\ flight' = Head(urgent) /\ urgent' = Tail(urgent)
           /\ phase' = "drain" /\ stage' = "urgent" /\ UNCHANGED normal
  BY <1>1, UrgentLeft
<1>2. CASE /\ urgent = <<>> /\ phase' = "drain" /\ UNCHANGED urgent
  BY <1>2
<1>3. CASE /\ urgent = <<>> /\ normal = <<>>
           /\ flight' = 0 /\ phase' = "closed" /\ UNCHANGED <<stage, urgent, normal>>
  BY <1>3
<1> QED
  BY <1>1, <1>2, <1>3 DEF DrainFrom

LEMMA InitDrains == Init => DrainInv /\ ClosedIsDrained
  BY DEF Init, DrainInv, ClosedIsDrained

LEMMA NotifierDrains ==
  ASSUME TypeOK, DrainInv, ClosedIsDrained, NotifierStep
  PROVE  /\ DrainInv' /\ ClosedIsDrained'
         /\ flight' \notin {0, flight} /\ kind'[flight'] = "normal" /\ watch' # "failed" => urgent = <<>>
<1>0. UNCHANGED <<outside, running>> /\ AllUrgent(urgent)
  BY DEF NotifierStep, GetNext, SendMessage, Rested, LeaveLoop, DrainMessage, outside, DrainInv, AllUrgent
<1>00. kind' = kind /\ busRuns' = busRuns /\ watch' = watch /\ running' = running
  BY <1>0 DEF outside
<1>1. CASE GetNext
  <2>1. phase = "poll" /\ phase' = "send"
    BY <1>1 DEF GetNext
  <2>2. AllUrgent(urgent') /\ (urgent = <<>> \/ kind[flight'] = "urgent")
    BY <1>0, <1>1, UrgentLeft DEF GetNext
  <2> QED
    BY <1>00, <2>1, <2>2 DEF DrainInv, ClosedIsDrained, AllUrgent
<1>2. CASE SendMessage \/ Rested
  BY <1>00, <1>2 DEF SendMessage, Rested, DrainInv, ClosedIsDrained
<1>3. CASE LeaveLoop
  <2>1. DrainFrom("urgent") /\ ~running
    BY <1>3 DEF LeaveLoop
  <2>2. /\ AllUrgent(urgent') /\ phase' \in {"drain", "closed"}
        /\ phase' = "drain" /\ stage' = "normal" => urgent' = <<>>
        /\ phase' = "closed" => urgent' = <<>> /\ normal' = <<>>
        /\ flight' # 0 => urgent = <<>> \/ kind[flight'] = "urgent"
    BY <1>0, <2>1, Drains
  <2> QED
    BY <1>00, <2>1, <2>2 DEF DrainInv, ClosedIsDrained, AllUrgent
<1>4. CASE DrainMessage
  <2>1. /\ DrainFrom(stage) /\ stage \in {"urgent", "normal"} /\ phase = "drain"
        /\ watch \notin {"waiting", "stopping"}
    BY <1>4 DEF DrainMessage, TypeOK, DrainInv
  <2>2. CASE watch # "failed"
    <3>1. stage = "normal" => urgent = <<>>
      BY <2>1, <2>2 DEF DrainInv
    <3>2. /\ AllUrgent(urgent') /\ phase' \in {"drain", "closed"}
          /\ phase' = "drain" /\ stage' = "normal" => urgent' = <<>>
          /\ phase' = "closed" => urgent' = <<>> /\ normal' = <<>>
          /\ flight' # 0 => urgent = <<>> \/ kind[flight'] = "urgent"
      BY <1>0, <2>1, <3>1, Drains
    <3> QED
      BY <1>00, <2>1, <3>2 DEF DrainInv, ClosedIsDrained, AllUrgent
  <2>3. CASE watch = "failed"
    <3>1. AllUrgent(urgent')
      BY <1>0, <2>1, UrgentLeft DEF DrainFrom
    <3> QED
      BY <1>00, <2>3, <3>1 DEF DrainInv, ClosedIsDrained, AllUrgent
  <2> QED
    BY <2>2, <2>3
<1> QED
  BY <1>1, <1>2, <1>3, <1>4 DEF NotifierStep

(* A cancellation starts the drain, cuts it off, or comes too late.        *)
LEMMA CancelDrains ==
  ASSUME TypeOK, DrainInv, ClosedIsDrained, CancelNotifier
  PROVE  /\ AllUrgent(urgent') /\ phase' \in {"drain", "closed"}
         /\ watch # "failed" =>
              /\ phase' = "drain" /\ stage' = "normal" => urgent' = <<>>
              /\ phase' = "closed" /\ "cut" \notin trouble' => urgent' = <<>> /\ normal' = <<>>
         /\ flight' # 0 => urgent = <<>> \/ kind[flight'] = "urgent"
<1>0. AllUrgent(urgent) /\ (flight # 0 <=> phase \in {"send", "drain"})
  BY DEF DrainInv, AllUrgent, TypeOK
<1>1. CASE DrainFrom("urgent")
  BY <1>0, <1>1, Drains
<1>2. CASE phase = "drain" /\ phase' = "closed" /\ flight' = 0 /\ "cut" \in trouble' /\ UNCHANGED <<urgent, normal, stage>>
  BY <1>0, <1>2
<1>3. CASE /\ phase = "closed" /\ trouble' = trouble \union {"end"}
           /\ UNCHANGED <<urgent, normal, stage, phase, flight>>
  BY <1>0, <1>3 DEF ClosedIsDrained
<1> QED
  BY <1>1, <1>2, <1>3 DEF CancelNotifier

LEMMA NextDrains ==
  ASSUME TypeOK, DrainInv, ClosedIsDrained, [Next]_vars
  PROVE  /\ DrainInv' /\ ClosedIsDrained'
         /\ flight' \notin {0, flight} /\ kind'[flight'] = "normal" /\ watch' # "failed" => urgent = <<>>
<1>1. CASE NotifierStep
  BY <1>1, NotifierDrains
<1>2. ASSUME NEW k \in Kinds, Publish(k)
      PROVE  DrainInv' /\ ClosedIsDrained' /\ flight' = flight
  <2>1. /\ kind \in Seq(Kinds) /\ kind' = Append(kind, k) /\ urgent \in Seq(Events)
        /\ UNCHANGED <<busRuns, notifier, client, watch>>
        /\ "cut" \in trouble => "cut" \in trouble'
    BY <1>2 DEF TypeOK, Publish, Events
  <2>2. DOMAIN urgent = 1 .. Len(urgent) /\ \A i \in DOMAIN urgent : urgent[i] \in Events
    BY <2>1, LenProperties, ElementOfSeq
  <2>3. \A i \in Events : kind'[i] = kind[i]
    BY <2>1, AppendIs DEF Events
  <2> QED
    BY <2>1, <2>2, <2>3 DEF DrainInv, ClosedIsDrained, notifier
<1>3. CASE Dispatch
  <2> DEFINE n == Head(bus)
  <2>1. /\ UNCHANGED <<kind, busRuns, phase, stage, running, flight, told, joined, shown, watch>>
        /\ busRuns /\ trouble \subseteq trouble'
    BY <1>3 DEF Dispatch
  <2>2. urgent' = IF kind[n] = "urgent" THEN Put(urgent, UrgentCap, n) ELSE urgent
    BY <1>3 DEF Dispatch
  <2>3. bus \in Seq(Events) /\ bus # <<>> /\ urgent \in Seq(Events) /\ AllUrgent(urgent)
    BY <1>3 DEF TypeOK, Events, Dispatch, DrainInv, AllUrgent
  <2>4. n \in Events
    BY <2>3, TailIs
  <2> HIDE DEF n
  <2>5. AllUrgent(urgent')
    <3>1. CASE urgent' = urgent
      BY <2>3, <3>1
    <3>2. CASE kind[n] = "urgent" /\ urgent' = Append(urgent, n)
      <4>1. /\ Len(urgent) \in Nat /\ DOMAIN urgent = 1 .. Len(urgent) /\ DOMAIN urgent' = 1 .. Len(urgent) + 1
            /\ \A i \in 1 .. Len(urgent) : urgent'[i] = urgent[i]
            /\ urgent'[Len(urgent) + 1] = n
        BY <2>3, <2>4, <3>2, AppendIs
      <4>2. \A i \in DOMAIN urgent' : i \in DOMAIN urgent \/ i = Len(urgent) + 1
        BY <4>1
      <4> QED
        BY <2>3, <3>2, <4>1, <4>2 DEF AllUrgent
    <3> QED
      BY <2>2, <3>1, <3>2 DEF Put
  <2>6. watch = "failed" \/ watch = "waiting"
    BY <2>1 DEF DrainInv, TypeOK
  <2> QED
    BY <2>1, <2>5, <2>6 DEF DrainInv, ClosedIsDrained, AllUrgent
<1>4. CASE StreamSend \/ Leave \/ Join
  BY <1>4 DEF StreamSend, Leave, Join, notifier, DrainInv, ClosedIsDrained
<1>5. CASE StopBus
  BY <1>5 DEF StopBus, notifier, DrainInv, ClosedIsDrained
<1>6. CASE StopNotifier
  <2>0. watch = "stopping" /\ kind' = kind /\ busRuns' = busRuns
    BY <1>6 DEF StopNotifier
  <2>1. CASE watch' = "info" /\ UNCHANGED <<urgent, normal, phase, stage, flight, told, trouble>>
    BY <1>6, <2>0, <2>1 DEF StopNotifier, DrainInv, ClosedIsDrained
  <2>2. CASE watch' = "done" /\ CancelNotifier
    BY <2>0, <2>2, CancelDrains DEF DrainInv, ClosedIsDrained, AllUrgent
  <2> QED
    BY <1>6, <2>1, <2>2 DEF StopNotifier
<1>7. CASE CancelPendingTasks
  <2>1. watch = "info" /\ watch' = "done" /\ CancelNotifier /\ kind' = kind /\ busRuns' = busRuns
    BY <1>7 DEF CancelPendingTasks
  <2> QED
    BY <2>1, CancelDrains DEF DrainInv, ClosedIsDrained, AllUrgent
<1>8. CASE TaskFails
  <2>1. watch' = "failed" /\ CancelNotifier /\ kind' = kind
    BY <1>8 DEF TaskFails
  <2> QED
    BY <2>1, CancelDrains DEF DrainInv, ClosedIsDrained, AllUrgent
<1>9. CASE Exit
  BY <1>9 DEF Exit, notifier, DrainInv, ClosedIsDrained
<1>10. CASE UNCHANGED vars
  BY <1>10 DEF vars, notifier, DrainInv, ClosedIsDrained
<1> QED
  BY <1>1, <1>2, <1>3, <1>4, <1>5, <1>6, <1>7, <1>8, <1>9, <1>10 DEF Next

(* A notifier that closed after a shutdown has sent or tried all it had,   *)
(* unless a second cancellation cut its drain off.                         *)
THEOREM ClosedDrained == Spec => []ClosedIsDrained
<1> DEFINE I == TypeOK /\ DrainInv /\ ClosedIsDrained
<1>1. Init => I
  BY InitTyped, InitDrains
<1>2. I /\ [Next]_vars => I'
  BY NextTyped, NextDrains
<1>3. I => ClosedIsDrained
  OBVIOUS
<1> QED
  BY <1>1, <1>2, <1>3, PTL DEF Spec

(* No normal message is taken while an urgent one waits.                   *)
THEOREM UrgentGoesFirst == Spec => UrgentFirst
<1> DEFINE I == TypeOK /\ DrainInv /\ ClosedIsDrained
<1>1. Init => I
  BY InitTyped, InitDrains
<1>2. I /\ [Next]_vars => I'
  BY NextTyped, NextDrains
<1>3. I /\ [Next]_vars =>
        [flight' \notin {0, flight} /\ kind'[flight'] = "normal" /\ watch' # "failed" => urgent = <<>>]_vars
  BY NextDrains
<1> QED
  BY <1>1, <1>2, <1>3, PTL DEF Spec, UrgentFirst

(***************************************************************************)
(* A /stream client                                                        *)
(***************************************************************************)

(* What the client's part of the state is made of.                         *)
LEMMA StreamTypes ==
  ASSUME TypeOK
  PROVE  /\ shown \in Seq(Nat) /\ outbox \in Seq(Nat) /\ bus \in Seq(Nat)
         /\ \A q \in {shown, outbox, bus} : \A i \in DOMAIN q : q[i] \in Events
<1>1. shown \in Seq(Events) /\ outbox \in Seq(Events) /\ bus \in Seq(Events)
  BY DEF TypeOK, Events
<1>2. \A q \in {shown, outbox, bus} : \A i \in DOMAIN q : q[i] \in Events
  BY <1>1, LenProperties, ElementOfSeq
<1>3. shown \in Seq(Nat) /\ outbox \in Seq(Nat) /\ bus \in Seq(Nat)
  BY <1>1, KindIs, SeqMonotonic
<1> QED
  BY <1>2, <1>3

(* Trouble does not go away.                                               *)
LEMMA TroubleStays ==
  ASSUME [Next]_vars
  PROVE  /\ trouble \subseteq trouble'
         /\ StreamTrouble => StreamTrouble'
<1>1. CancelNotifier => trouble \subseteq trouble'
  BY DEF CancelNotifier
<1>2. NotifierStep => trouble \subseteq trouble'
  BY DEF NotifierStep, GetNext, SendMessage, Rested, LeaveLoop, DrainMessage, Answered
<1>3. ASSUME Next PROVE trouble \subseteq trouble'
  <2>1. CASE \E k \in Kinds : Publish(k)
    BY <2>1 DEF Publish
  <2>2. CASE Dispatch
    BY <2>2 DEF Dispatch
  <2>3. CASE StreamSend \/ Leave \/ Join \/ StopBus \/ Exit
    BY <2>3 DEF StreamSend, Leave, Join, StopBus, Exit
  <2>4. CASE StopNotifier \/ CancelPendingTasks \/ TaskFails
    BY <2>4, <1>1 DEF StopNotifier, CancelPendingTasks, TaskFails
  <2> QED
    BY <1>2, <1>3, <2>1, <2>2, <2>3, <2>4 DEF Next
<1>4. trouble \subseteq trouble'
  BY <1>3 DEF vars
<1> QED
  BY <1>4 DEF StreamTrouble, Broken

(* The steps that have to do with the client.                              *)
StreamStep == (\E k \in Kinds : Publish(k)) \/ Dispatch \/ StreamSend \/ Leave \/ Join

LEMMA OtherSteps ==
  ASSUME [Next]_vars, ~StreamStep
  PROVE  UNCHANGED <<kind, bus, client>>
<1>1. NotifierStep => UNCHANGED <<kind, bus, client>>
  BY DEF NotifierStep, GetNext, SendMessage, Rested, LeaveLoop, DrainMessage, outside
<1>2. StopBus \/ StopNotifier \/ CancelPendingTasks \/ TaskFails \/ Exit => UNCHANGED <<kind, bus, client>>
  BY DEF StopBus, StopNotifier, CancelPendingTasks, TaskFails, Exit
<1>3. UNCHANGED vars => UNCHANGED <<kind, bus, client>>
  BY DEF vars
<1> QED
  BY <1>1, <1>2, <1>3 DEF Next, StreamStep

LEMMA InitStreams == Init => StreamInv
<1>1. DOMAIN <<>> = {}
  OBVIOUS
<1> QED
  BY <1>1 DEF Init, StreamInv, Ascends, Precedes

LEMMA PublishStreams ==
  ASSUME TypeOK, StreamInv, NEW k \in Kinds, Publish(k), StreamTrouble => StreamTrouble'
  PROVE  StreamInv' /\ DOMAIN kind' = DOMAIN kind \union {Len(kind')} /\ \A n \in DOMAIN kind : n < Len(kind')
<1> DEFINE e == Len(kind')
<1>0. kind \in Seq(Kinds) /\ kind' = Append(kind, k) /\ UNCHANGED <<outbox, shown, joined>>
  BY DEF TypeOK, Publish, client
<1>1. /\ Len(kind) \in Nat /\ e = Len(kind) + 1 /\ DOMAIN kind' = 1 .. Len(kind) + 1 /\ DOMAIN kind = 1 .. Len(kind)
  BY <1>0, AppendIs
<1>2. DOMAIN kind' = DOMAIN kind \union {e} /\ e \in Nat /\ \A n \in Events : n < e
  BY <1>1 DEF Events
<1> HIDE DEF e
<1>3. /\ bus \in Seq(Nat) /\ \A q \in {shown, outbox, bus} : \A i \in DOMAIN q : q[i] < e
  BY <1>2, StreamTypes
<1>4. CASE bus' = Append(bus, e) /\ UNCHANGED trouble
  <2>1. /\ Ascends(bus') /\ Precedes(shown, bus') /\ Precedes(outbox, bus')
        /\ \A n : Has(bus', n) <=> Has(bus, n) \/ n = e
    BY <1>2, <1>3, <1>4, AppendAscends DEF StreamInv
  <2>2. StreamTrouble' \/ \A n \in DOMAIN kind' : Has(shown, n) \/ Has(outbox, n) \/ Has(bus', n)
    BY <1>2, <2>1 DEF StreamInv
  <2> QED
    BY <1>0, <1>1, <1>2, <1>4, <2>1, <2>2 DEF StreamInv, Events, e
<1>5. CASE trouble' = trouble \union {"bus"} /\ UNCHANGED bus
  <2>1. StreamTrouble'
    BY <1>5 DEF StreamTrouble, Broken
  <2> QED
    BY <1>0, <1>1, <1>2, <1>5, <2>1 DEF StreamInv, Events, e
<1> QED
  BY <1>4, <1>5 DEF Publish, e

LEMMA DispatchStreams ==
  ASSUME TypeOK, StreamInv, Dispatch, StreamTrouble => StreamTrouble'
  PROVE  StreamInv'
<1> DEFINE n == Head(bus)
<1>0. /\ bus # <<>> /\ bus' = Tail(bus) /\ UNCHANGED <<kind, joined, shown>> /\ trouble \subseteq trouble'
      /\ outbox' = IF joined THEN Put(outbox, StreamCap, n) ELSE outbox
      /\ joined /\ Len(outbox) = StreamCap => "stream" \in trouble'
  BY DEF Dispatch
<1>1. shown \in Seq(Nat) /\ outbox \in Seq(Nat) /\ bus \in Seq(Nat)
  BY StreamTypes
<1>2. /\ Ascends(bus') /\ \A i \in DOMAIN bus' : n < bus'[i]
      /\ Precedes(shown, bus') /\ \A i \in DOMAIN shown : shown[i] < n
      /\ Precedes(outbox, bus') /\ \A i \in DOMAIN outbox : outbox[i] < n
      /\ \A m : Has(bus, m) <=> m = n \/ Has(bus', m)
  BY <1>0, <1>1, TailAscends DEF StreamInv
<1>3. n \in Nat
  BY <1>0, <1>1, TailIs
<1> HIDE DEF n
<1>4. CASE joined /\ Len(outbox) < StreamCap
  <2>1. outbox' = Append(outbox, n)
    BY <1>0, <1>4 DEF Put
  <2>2. /\ Ascends(outbox') /\ Precedes(shown, outbox') /\ Precedes(outbox', bus')
        /\ \A m : Has(outbox', m) <=> Has(outbox, m) \/ m = n
    BY <1>1, <1>2, <1>3, <2>1, AppendAscends DEF StreamInv
  <2>3. StreamTrouble' \/ \A m \in DOMAIN kind' : Has(shown, m) \/ Has(outbox', m) \/ Has(bus', m)
    BY <1>0, <1>2, <2>2 DEF StreamInv
  <2> QED
    BY <1>0, <1>2, <1>4, <2>2, <2>3 DEF StreamInv
<1>5. CASE ~(joined /\ Len(outbox) < StreamCap)
  <2>1. outbox' = outbox
    BY <1>0, <1>5 DEF Put
  <2>2. StreamTrouble'
    <3>1. CASE ~joined
      BY <1>0, <3>1 DEF StreamInv, StreamTrouble, Broken
    <3>2. CASE joined
      <4>1. Len(outbox) \in Nat /\ Len(outbox) <= StreamCap /\ StreamCap \in Nat
        BY <1>1, LenProperties, MessagingAssumption DEF TypeOK
      <4>2. "stream" \in trouble'
        BY <1>0, <1>5, <3>2, <4>1
      <4> QED
        BY <4>2 DEF StreamTrouble, Broken
    <3> QED
      BY <3>1, <3>2
  <2> QED
    BY <1>0, <1>2, <2>1, <2>2 DEF StreamInv
<1> QED
  BY <1>4, <1>5

LEMMA SendStreams ==
  ASSUME TypeOK, StreamInv, StreamSend, StreamTrouble => StreamTrouble'
  PROVE  /\ StreamInv' /\ Head(outbox) \in DOMAIN kind /\ Head(outbox) \in Nat
         /\ \A i \in DOMAIN shown : shown[i] < Head(outbox)
         /\ StreamTrouble \/ \A m \in DOMAIN kind :
              m < Head(outbox) => Has(shown, m)
<1> DEFINE n == Head(outbox)
<1>0. /\ outbox # <<>> /\ outbox' = Tail(outbox) /\ shown' = Append(shown, n)
      /\ UNCHANGED <<kind, bus, joined, trouble>>
  BY DEF StreamSend
<1>1. shown \in Seq(Nat) /\ outbox \in Seq(Nat) /\ bus \in Seq(Nat)
  BY StreamTypes
<1>2. /\ Ascends(outbox') /\ \A i \in DOMAIN outbox' : n < outbox'[i]
      /\ Precedes(shown, outbox') /\ \A i \in DOMAIN shown : shown[i] < n
      /\ Precedes(outbox', bus) /\ \A i \in DOMAIN bus : n < bus[i]
      /\ \A m : Has(outbox, m) <=> m = n \/ Has(outbox', m)
  BY <1>0, <1>1, TailAscends DEF StreamInv
<1>3. n \in Nat /\ n \in DOMAIN kind
  <2>1. 1 \in DOMAIN outbox /\ n = outbox[1] /\ n \in Nat
    BY <1>0, <1>1, TailIs
  <2> QED
    BY <2>1, StreamTypes, KindIs
<1> HIDE DEF n
<1>4. /\ Ascends(shown') /\ Precedes(shown', outbox') /\ Precedes(shown', bus)
      /\ \A m : Has(shown', m) <=> Has(shown, m) \/ m = n
  BY <1>0, <1>1, <1>2, <1>3, AppendAscends DEF StreamInv
<1>5. StreamTrouble \/ \A m \in DOMAIN kind : Has(shown', m) \/ Has(outbox', m) \/ Has(bus, m)
  BY <1>2, <1>4 DEF StreamInv
<1>6. StreamInv'
  BY <1>0, <1>2, <1>4, <1>5 DEF StreamInv, StreamTrouble, Broken
<1>7. ASSUME NEW m \in DOMAIN kind, m < n, ~StreamTrouble PROVE Has(shown, m)
  <2>0. m \in Nat
    BY KindIs
  <2>1. ~Has(bus, m)
    <3> SUFFICES ASSUME NEW i \in DOMAIN bus, bus[i] = m PROVE FALSE
      BY DEF Has
    <3> QED
      BY <1>2, <1>3, <1>7, <2>0
  <2>2. ~Has(outbox', m)
    <3> SUFFICES ASSUME NEW i \in DOMAIN outbox', outbox'[i] = m PROVE FALSE
      BY DEF Has
    <3> QED
      BY <1>2, <1>3, <1>7, <2>0
  <2>3. m # n
    BY <1>3, <1>7, <2>0
  <2> QED
    BY <1>4, <1>5, <1>7, <2>1, <2>2, <2>3
<1> QED
  BY <1>2, <1>3, <1>6, <1>7 DEF n

LEMMA NextStreams == TypeOK /\ StreamInv /\ [Next]_vars => StreamInv'
<1> SUFFICES ASSUME TypeOK, StreamInv, [Next]_vars PROVE StreamInv'
  OBVIOUS
<1>0. trouble \subseteq trouble' /\ (StreamTrouble => StreamTrouble')
  BY TroubleStays
<1>1. CASE \E k \in Kinds : Publish(k)
  BY <1>0, <1>1, PublishStreams
<1>2. CASE Dispatch
  BY <1>0, <1>2, DispatchStreams
<1>3. CASE StreamSend
  BY <1>0, <1>3, SendStreams
<1>4. CASE Leave
  <2>1. "left" \in trouble' /\ outbox' = <<>> /\ UNCHANGED <<kind, bus, shown>>
    BY <1>4 DEF Leave, notifier
  <2>2. DOMAIN outbox' = {}
    BY <2>1
  <2>3. StreamTrouble'
    BY <2>1 DEF StreamTrouble, Broken
  <2> QED
    BY <2>1, <2>2, <2>3 DEF StreamInv, Ascends, Precedes
<1>5. CASE Join
  BY <1>0, <1>5 DEF Join, StreamInv, notifier
<1>6. CASE ~StreamStep
  <2>1. UNCHANGED <<kind, bus, client>>
    BY <1>6, OtherSteps
  <2> QED
    BY <1>0, <2>1 DEF StreamInv, client
<1> QED
  BY <1>1, <1>2, <1>3, <1>4, <1>5, <1>6 DEF StreamStep

LEMMA BrokenStays ==
  ASSUME StreamTrouble => StreamTrouble'
  PROVE  StreamTrouble' \in {StreamTrouble, TRUE}
<1>1. StreamTrouble \in BOOLEAN /\ StreamTrouble' \in BOOLEAN
  BY DEF StreamTrouble, Broken
<1> QED
  BY <1>1, Zenon

LEMMA InitImplements == Init => StreamView!Init
<1> SUFFICES ASSUME Init PROVE StreamView!Init
  OBVIOUS
<1>1. DOMAIN kind = {} /\ shown = <<>>
  BY DEF Init
<1>2. StreamTrouble = FALSE
  BY DEF Init, StreamTrouble, Broken
<1> QED
  BY <1>1, <1>2 DEF StreamView!Init

(* Publishing offers an event.                                             *)
LEMMA PublishOffers ==
  ASSUME TypeOK, StreamInv, NEW k \in Kinds, Publish(k), StreamTrouble => StreamTrouble'
  PROVE  StreamView!Next
<1> DEFINE e == Len(kind')
<1>1. DOMAIN kind' = DOMAIN kind \union {e} /\ \A n \in DOMAIN kind : n < e
  BY PublishStreams
<1>2. UNCHANGED shown
  BY DEF Publish, client
<1>3. StreamTrouble' \in {StreamTrouble, TRUE}
  BY BrokenStays
<1> HIDE DEF e
<1>4. StreamView!Offer(e) /\ e \in DOMAIN kind'
  BY <1>1, <1>2, <1>3 DEF StreamView!Offer
<1> QED
  BY <1>4 DEF StreamView!Next

(* Sending to the socket is receiving.                                     *)
LEMMA SendReceives ==
  ASSUME TypeOK, StreamInv, StreamSend, StreamTrouble => StreamTrouble'
  PROVE  StreamView!Next
<1> DEFINE e == Head(outbox)
<1>1. /\ e \in DOMAIN kind /\ e \in Nat /\ \A i \in DOMAIN shown : shown[i] < e
      /\ StreamTrouble \/ \A m \in DOMAIN kind : m < e => Has(shown, m)
  BY SendStreams
<1>2. shown' = Append(shown, e) /\ UNCHANGED kind
  BY DEF StreamSend
<1> HIDE DEF e
<1>3. /\ shown \in Seq(Nat) /\ Len(shown) \in Nat /\ DOMAIN shown = 1 .. Len(shown)
      /\ shown # <<>> => Len(shown) \in DOMAIN shown
      /\ DOMAIN kind \subseteq Nat /\ 0 \notin DOMAIN kind
  BY StreamTypes, LenProperties, EmptySeq, KindIs
<1>4. StreamView!Newest < e
  <2>1. e # 0
    BY <1>1, <1>3
  <2> QED
    BY <1>1, <1>3, <2>1 DEF StreamView!Newest
<1>5. StreamTrouble \/ StreamView!IsNext(e)
  <2> SUFFICES ASSUME ~StreamTrouble, NEW f \in DOMAIN kind, StreamView!Newest < f, f < e PROVE FALSE
    BY DEF StreamView!IsNext
  <2>1. PICK i \in DOMAIN shown : shown[i] = f
    BY <1>1 DEF Has
  <2>2. shown # <<>>
    BY <2>1, <1>3
  <2>3. StreamView!Newest = shown[Len(shown)]
    BY <2>2 DEF StreamView!Newest
  <2>4. CASE i = Len(shown)
    BY <2>1, <2>3, <2>4, <1>3
  <2>5. CASE i < Len(shown)
    <3>1. shown[i] < shown[Len(shown)]
      BY <2>2, <2>5, <1>3 DEF StreamInv, Ascends
    <3>2. shown[i] \in Nat /\ shown[Len(shown)] \in Nat
      BY <1>3, <2>2, ElementOfSeq
    <3> QED
      BY <3>1, <3>2, <2>1, <2>3
  <2> QED
    BY <2>4, <2>5, <1>3
<1>6. StreamTrouble' \in {StreamTrouble, TRUE}
  BY BrokenStays
<1>7. DOMAIN kind' = DOMAIN kind
  BY <1>2
<1>8. StreamView!Receive(e)
  BY <1>1, <1>2, <1>4, <1>5, <1>6, <1>7 DEF StreamView!Receive
<1> QED
  BY <1>1, <1>8 DEF StreamView!Next

LEMMA NextImplements ==
  TypeOK /\ StreamInv /\ [Next]_vars => [StreamView!Next]_<<DOMAIN kind, shown, StreamTrouble>>
<1> SUFFICES ASSUME TypeOK, StreamInv, [Next]_vars
             PROVE  StreamView!Next \/ UNCHANGED <<DOMAIN kind, shown, StreamTrouble>>
  OBVIOUS
<1>0. StreamTrouble => StreamTrouble'
  BY TroubleStays
<1>1. CASE \E k \in Kinds : Publish(k)
  BY <1>0, <1>1, PublishOffers
<1>2. CASE StreamSend
  BY <1>0, <1>2, SendReceives
<1>3. CASE ~((\E k \in Kinds : Publish(k)) \/ StreamSend)
  <2>1. kind' = kind /\ shown' = shown
    <3>1. CASE Dispatch \/ Leave \/ Join
      BY <3>1 DEF Dispatch, Leave, Join
    <3>2. CASE ~StreamStep
      BY <3>2, OtherSteps DEF client
    <3> QED
      BY <1>3, <3>1, <3>2 DEF StreamStep
  <2>2. CASE StreamTrouble' /\ ~StreamTrouble
    <3>1. StreamTrouble' = TRUE
      BY <2>2 DEF StreamTrouble, Broken
    <3> QED
      BY <2>1, <3>1 DEF StreamView!Next, StreamView!Break
  <2>3. CASE StreamTrouble' <=> StreamTrouble
    <3>1. StreamTrouble' = StreamTrouble
      BY <2>3 DEF StreamTrouble, Broken
    <3> QED
      BY <2>1, <3>1
  <2> QED
    BY <1>0, <2>2, <2>3
<1> QED
  BY <1>1, <1>2, <1>3

(* The bus and the queue of a client are a LossyChannel.                   *)
THEOREM StreamIsChannel == Spec => StreamView!Spec
<1> DEFINE I == TypeOK /\ StreamInv
<1>1. Init => I
  BY InitTyped, InitStreams
<1>2. I /\ [Next]_vars => I'
  BY NextTyped, NextStreams
<1>3. Init => StreamView!Init
  BY InitImplements
<1>4. I /\ [Next]_vars => [StreamView!Next]_<<DOMAIN kind, shown, StreamTrouble>>
  BY NextImplements
<1> QED
  BY <1>1, <1>2, <1>3, <1>4, PTL DEF Spec, StreamView!Spec

(***************************************************************************)
(* The notifier's two channels to Telegram                                 *)
(***************************************************************************)

(* What Telegram got (t), the message in hand, the queue (q) and the bus   *)
(* (b): what the steps between them do to their order and to what is held. *)
LEMMA Delivering ==
  ASSUME NEW t \in Seq(Nat), NEW m \in Nat, NEW q, NEW b, InOrder(t, {m}, q, b)
  PROVE  /\ InOrder(Append(t, m), {}, q, b)
         /\ \A n : Held(Append(t, m), {}, q, b, n) <=> Held(t, {m}, q, b, n)
<1>1. Ascends(t) /\ Below(t, m) /\ Above(q, m) /\ Above(b, m)
  BY DEF InOrder
<1>2. /\ Ascends(Append(t, m))
      /\ Precedes(t, q) => Precedes(Append(t, m), q)
      /\ Precedes(t, b) => Precedes(Append(t, m), b)
      /\ \A n : Has(Append(t, m), n) <=> Has(t, n) \/ n = m
  BY <1>1, AppendAscends DEF Below, Above
<1> QED
  BY <1>2 DEF InOrder, Held

LEMMA Losing ==
  ASSUME NEW t, NEW hand, NEW q, NEW b, InOrder(t, hand, q, b)
  PROVE  InOrder(t, {}, q, b)
  BY DEF InOrder

LEMMA Taking ==
  ASSUME NEW t, NEW q \in Seq(Nat), NEW b, InOrder(t, {}, q, b), q # <<>>
  PROVE  /\ InOrder(t, {Head(q)}, Tail(q), b)
         /\ \A n : Held(t, {Head(q)}, Tail(q), b, n) <=> Held(t, {}, q, b, n)
<1> DEFINE h == Head(q)
           r == Tail(q)
<1>1. /\ Ascends(r) /\ Above(r, h)
      /\ Precedes(t, q) => Precedes(t, r) /\ Below(t, h)
      /\ Precedes(q, b) => Precedes(r, b) /\ Above(b, h)
      /\ \A n : Has(q, n) <=> n = h \/ Has(r, n)
  BY TailAscends DEF InOrder, Below, Above
<1> HIDE DEF h, r
<1>2. InOrder(t, {h}, r, b)
  BY <1>1 DEF InOrder
<1>3. \A n : Held(t, {h}, r, b, n) <=> Held(t, {}, q, b, n)
  BY <1>1 DEF Held
<1> QED
  BY <1>2, <1>3 DEF h, r

LEMMA Dispatching ==
  ASSUME NEW t, NEW hand, NEW q \in Seq(Nat), NEW b \in Seq(Nat), InOrder(t, hand, q, b), b # <<>>
  PROVE  /\ InOrder(t, hand, q, Tail(b))
         /\ \A n : Held(t, hand, q, b, n) => n = Head(b) \/ Held(t, hand, q, Tail(b), n)
         /\ InOrder(t, hand, Append(q, Head(b)), Tail(b))
         /\ \A n : Held(t, hand, Append(q, Head(b)), Tail(b), n) <=> Held(t, hand, q, b, n)
<1> DEFINE h == Head(b)
           r == Tail(b)
           a == Append(q, h)
<1>1. /\ Ascends(r) /\ Above(r, h)
      /\ \A p : Precedes(p, b) => Precedes(p, r) /\ Below(p, h)
      /\ \A n : Has(b, n) <=> n = h \/ Has(r, n)
  BY TailAscends DEF InOrder, Below, Above
<1>2. \A m \in hand : Above(r, m) /\ m < h
  <2> SUFFICES ASSUME NEW m \in hand PROVE Above(r, m) /\ m < h
    OBVIOUS
  <2>1. Above(b, m)
    BY DEF InOrder
  <2>2. /\ 1 \in DOMAIN b /\ b[1] = h
        /\ \A i \in DOMAIN r : i + 1 \in DOMAIN b /\ r[i] = b[i + 1]
    BY TailIs
  <2> HIDE DEF h, r
  <2> QED
    BY <2>1, <2>2 DEF Above
<1>3. h \in Nat
  BY TailIs
<1> HIDE DEF h, r
<1>4. Precedes(t, r) /\ Precedes(q, r) /\ Below(t, h) /\ Below(q, h)
  BY <1>1 DEF InOrder
<1>5. InOrder(t, hand, q, r)
  BY <1>1, <1>2, <1>4 DEF InOrder
<1>6. /\ Ascends(a)
      /\ Precedes(t, q) => Precedes(t, a)
      /\ Precedes(q, r) => Precedes(a, r)
      /\ \A n : Has(a, n) <=> Has(q, n) \/ n = h
  BY <1>1, <1>3, <1>4, AppendAscends DEF InOrder, Below, Above
<1>7. \A m \in hand : Above(a, m)
  <2> SUFFICES ASSUME NEW m \in hand PROVE Above(a, m)
    OBVIOUS
  <2>1. Above(q, m)
    BY DEF InOrder
  <2>2. /\ Len(q) \in Nat /\ DOMAIN q = 1 .. Len(q) /\ DOMAIN a = 1 .. Len(q) + 1
        /\ \A i \in 1 .. Len(q) : a[i] = q[i]
        /\ a[Len(q) + 1] = h
    BY <1>3, AppendIs
  <2> HIDE DEF a
  <2>3. SUFFICES ASSUME NEW i \in DOMAIN a PROVE m < a[i]
    BY DEF Above
  <2>4. CASE i = Len(q) + 1
    BY <1>2, <2>2, <2>4
  <2>5. CASE i \in 1 .. Len(q)
    BY <2>1, <2>2, <2>5 DEF Above
  <2> QED
    BY <2>2, <2>3, <2>4, <2>5
<1> HIDE DEF a
<1>8. InOrder(t, hand, a, r)
  BY <1>1, <1>2, <1>4, <1>6, <1>7 DEF InOrder
<1>9. /\ \A n : Held(t, hand, q, b, n) => n = h \/ Held(t, hand, q, r, n)
      /\ \A n : Held(t, hand, a, r, n) <=> Held(t, hand, q, b, n)
  BY <1>1, <1>6 DEF Held
<1> QED
  BY <1>5, <1>8, <1>9 DEF h, r, a

LEMMA Posting ==
  ASSUME NEW t, NEW hand, NEW q, NEW b \in Seq(Nat), NEW e \in Nat, InOrder(t, hand, q, b),
         Below(t, e), Below(q, e), Below(b, e), \A m \in hand : m < e
  PROVE  /\ InOrder(t, hand, q, Append(b, e))
         /\ \A n : Held(t, hand, q, Append(b, e), n) <=> Held(t, hand, q, b, n) \/ n = e
<1> DEFINE a == Append(b, e)
<1>1. /\ Ascends(a)
      /\ Precedes(t, a) /\ Precedes(q, a)
      /\ \A n : Has(a, n) <=> Has(b, n) \/ n = e
  BY AppendAscends DEF InOrder, Below
<1>2. /\ Len(b) \in Nat /\ DOMAIN b = 1 .. Len(b) /\ DOMAIN a = 1 .. Len(b) + 1
      /\ \A i \in 1 .. Len(b) : a[i] = b[i]
      /\ a[Len(b) + 1] = e
  BY AppendIs
<1> HIDE DEF a
<1>3. ASSUME NEW m \in hand, NEW i \in DOMAIN a PROVE m < a[i]
  <2>1. CASE i = Len(b) + 1
    BY <1>2, <2>1
  <2>2. CASE i \in 1 .. Len(b)
    BY <1>2, <2>2 DEF InOrder, Above
  <2> QED
    BY <1>2, <2>1, <2>2
<1>4. InOrder(t, hand, q, a)
  BY <1>1, <1>3 DEF InOrder, Above
<1>5. \A n : Held(t, hand, q, a, n) <=> Held(t, hand, q, b, n) \/ n = e
  BY <1>1 DEF Held
<1> QED
  BY <1>4, <1>5 DEF a

LEMMA ChannelTypes ==
  ASSUME TypeOK, NEW k \in Queued
  PROVE  /\ told[k] \in Seq(Nat) /\ Queue(k) \in Seq(Nat) /\ bus \in Seq(Nat) /\ flight \in Nat
         /\ \A q \in {told[k], Queue(k), bus} : \A i \in DOMAIN q : q[i] \in Events
         /\ Of(k) \subseteq Events /\ InHand(k) \subseteq Events
<1>1. told[k] \in Seq(Events) /\ Queue(k) \in Seq(Events) /\ bus \in Seq(Events) /\ flight \in Events \union {0}
  BY DEF TypeOK, Events, Queue
<1>2. \A q \in {told[k], Queue(k), bus} : \A i \in DOMAIN q : q[i] \in Events
  BY <1>1, LenProperties, ElementOfSeq
<1>3. told[k] \in Seq(Nat) /\ Queue(k) \in Seq(Nat) /\ bus \in Seq(Nat) /\ flight \in Nat
  BY <1>1, KindIs, SeqMonotonic
<1>4. Of(k) \subseteq Events /\ InHand(k) \subseteq Events
  BY KindIs DEF Of, InHand
<1> QED
  BY <1>2, <1>3, <1>4

(* What every step of the notifier, and its cancellation, is made of: the  *)
(* message in hand is delivered, or was lost to an error or to the end;    *)
(* then the next one is taken from a queue, or none.                       *)
Finished ==
  \/ flight # 0 /\ told' = Delivered
  \/ told' = told /\ (flight # 0 => "api" \in trouble' \/ "end" \in trouble')
TakesFrom(j) ==
  /\ Queue(j) # <<>> /\ flight' = Head(Queue(j)) /\ Queue(j)' = Tail(Queue(j))
  /\ \A i \in Queued \ {j} : Queue(i)' = Queue(i)
TakesNone == flight' = 0 /\ UNCHANGED <<urgent, normal>>
Moves ==
  /\ UNCHANGED <<kind, bus>> /\ trouble \subseteq trouble'
  /\ Finished
  /\ TakesNone \/ \E j \in Queued : TakesFrom(j)

LEMMA TakesUrgent ==
  ASSUME urgent # <<>>, flight' = Head(urgent), urgent' = Tail(urgent), UNCHANGED normal
  PROVE  \E j \in Queued : TakesFrom(j)
<1>1. TakesFrom("urgent")
  BY DEF TakesFrom, Queue, Queued
<1> QED
  BY <1>1 DEF Queued

LEMMA TakesNormal ==
  ASSUME normal # <<>>, flight' = Head(normal), normal' = Tail(normal), UNCHANGED urgent
  PROVE  \E j \in Queued : TakesFrom(j)
<1>1. TakesFrom("normal")
  BY DEF TakesFrom, Queue, Queued
<1> QED
  BY <1>1 DEF Queued

LEMMA DrainTakes ==
  ASSUME NEW at, DrainFrom(at)
  PROVE  TakesNone \/ \E j \in Queued : TakesFrom(j)
<1>1. CASE /\ urgent # <<>> /\ flight' = Head(urgent) /\ urgent' = Tail(urgent) /\ UNCHANGED normal
  BY <1>1, TakesUrgent
<1>2. CASE /\ normal # <<>> /\ flight' = Head(normal) /\ normal' = Tail(normal) /\ UNCHANGED urgent
  BY <1>2, TakesNormal
<1>3. CASE flight' = 0 /\ UNCHANGED <<stage, urgent, normal>>
  BY <1>3 DEF TakesNone
<1> QED
  BY <1>1, <1>2, <1>3 DEF DrainFrom

LEMMA AnsweredFinishes ==
  ASSUME Answered, flight # 0
  PROVE  Finished /\ trouble \subseteq trouble'
<1>1. CASE told' = Delivered /\ UNCHANGED trouble
  BY <1>1 DEF Finished
<1>2. CASE trouble' = trouble \union {"api"} /\ told' \in {told, Delivered}
  <2>1. "api" \in trouble' /\ trouble \subseteq trouble'
    BY <1>2
  <2>2. told' = told \/ told' = Delivered
    BY <1>2
  <2> QED
    BY <2>1, <2>2 DEF Finished
<1> QED
  BY <1>1, <1>2 DEF Answered

LEMMA NotifierMoves ==
  ASSUME TypeOK, NotifierStep
  PROVE  Moves
<1>0. UNCHANGED <<kind, bus>>
  BY DEF NotifierStep, GetNext, SendMessage, Rested, LeaveLoop, DrainMessage, outside
<1>1. flight # 0 <=> phase \in {"send", "drain"}
  BY DEF TypeOK
<1>2. CASE GetNext
  <2>1. told' = told /\ trouble' = trouble /\ flight = 0
    BY <1>1, <1>2 DEF GetNext
  <2>2. \E j \in Queued : TakesFrom(j)
    BY <1>2, TakesUrgent, TakesNormal DEF GetNext
  <2> QED
    BY <1>0, <2>1, <2>2 DEF Moves, Finished
<1>3. CASE SendMessage
  <2>1. Answered /\ flight # 0 /\ TakesNone
    BY <1>1, <1>3 DEF SendMessage, TakesNone
  <2> QED
    BY <1>0, <2>1, AnsweredFinishes DEF Moves
<1>4. CASE Rested
  <2>1. told' = told /\ trouble' = trouble /\ flight = 0 /\ TakesNone
    BY <1>1, <1>4 DEF Rested, TakesNone
  <2> QED
    BY <1>0, <2>1 DEF Moves, Finished
<1>5. CASE LeaveLoop
  <2>1. told' = told /\ trouble' = trouble /\ flight = 0 /\ DrainFrom("urgent")
    BY <1>1, <1>5 DEF LeaveLoop
  <2> QED
    BY <1>0, <2>1, DrainTakes DEF Moves, Finished
<1>6. CASE DrainMessage
  <2>1. Answered /\ flight # 0 /\ DrainFrom(stage)
    BY <1>1, <1>6 DEF DrainMessage
  <2> QED
    BY <1>0, <2>1, AnsweredFinishes, DrainTakes DEF Moves
<1> QED
  BY <1>2, <1>3, <1>4, <1>5, <1>6 DEF NotifierStep

LEMMA CancelMoves ==
  ASSUME TypeOK, CancelNotifier, UNCHANGED <<kind, bus>>
  PROVE  Moves
<1>1. flight # 0 <=> phase \in {"send", "drain"}
  BY DEF TypeOK
<1>2. "end" \in trouble' /\ trouble \subseteq trouble'
  BY DEF CancelNotifier
<1>3. Finished
  BY <1>2 DEF CancelNotifier, Finished
<1>4. TakesNone \/ \E j \in Queued : TakesFrom(j)
  <2>1. CASE DrainFrom("urgent")
    BY <2>1, DrainTakes
  <2>2. CASE flight' = 0 /\ UNCHANGED <<urgent, normal, stage>>
    BY <2>2 DEF TakesNone
  <2>3. CASE phase = "closed" /\ UNCHANGED <<urgent, normal, stage, phase, flight>>
    BY <1>1, <2>3 DEF TakesNone
  <2> QED
    BY <2>1, <2>2, <2>3 DEF CancelNotifier
<1> QED
  BY <1>2, <1>3, <1>4 DEF Moves

(* What a queue holds are events of its kind.                              *)
LEMMA QueueKinds ==
  ASSUME TypeOK, NEW k \in Queued, ChannelInv(k), Queue(k) # <<>>
  PROVE  /\ Head(Queue(k)) \in Of(k) /\ Head(Queue(k)) \in Nat
         /\ \A i \in DOMAIN Tail(Queue(k)) : kind[Tail(Queue(k))[i]] = k
<1> DEFINE q == Queue(k)
<1>1. q \in Seq(Nat) /\ \A i \in DOMAIN q : q[i] \in Events /\ kind[q[i]] = k
  BY ChannelTypes DEF ChannelInv
<1>2. q # <<>>
  OBVIOUS
<1> HIDE DEF q
<1>3. /\ Head(q) = q[1] /\ 1 \in DOMAIN q /\ Head(q) \in Nat
      /\ \A i \in DOMAIN Tail(q) : i + 1 \in DOMAIN q /\ Tail(q)[i] = q[i + 1]
  BY <1>1, <1>2, TailIs
<1>4. Head(q) \in Of(k)
  BY <1>1, <1>3, KindIs DEF Of
<1>5. \A i \in DOMAIN Tail(q) : kind[Tail(q)[i]] = k
  BY <1>1, <1>3
<1> QED
  BY <1>3, <1>4, <1>5 DEF q

(* After the message in hand is done with, nothing is missing unless the   *)
(* channel broke.                                                          *)
LEMMA Finishing ==
  ASSUME TypeOK, NEW k \in Queued, ChannelInv(k), Moves
  PROVE  /\ InOrder(told'[k], {}, Queue(k), bus)
         /\ Broken(Causes(k))' \/ \A n \in Of(k) : Held(told'[k], {}, Queue(k), bus, n)
         /\ \/ told'[k] = told[k]
            \/ /\ flight \in Of(k) /\ told'[k] = Append(told[k], flight)
               /\ Below(told[k], flight)
               /\ \/ Broken(Causes(k))
                  \/ \A n \in Of(k) : n < flight => Has(told[k], n)
<1>0. /\ told[k] \in Seq(Nat) /\ Queue(k) \in Seq(Nat) /\ bus \in Seq(Nat) /\ flight \in Nat
      /\ Of(k) \subseteq Nat /\ told \in [Queued -> Seq(Events)]
      /\ Broken(Causes(k)) => Broken(Causes(k))'
      /\ \A q \in {told[k], Queue(k), bus} : \A i \in DOMAIN q : q[i] \in Nat
  BY ChannelTypes, KindIs DEF TypeOK, Events, Moves, Broken
<1>1. InOrder(told[k], InHand(k), Queue(k), bus)
  BY DEF ChannelInv
<1>2. Broken(Causes(k)) \/ \A n \in Of(k) : Held(told[k], InHand(k), Queue(k), bus, n)
  BY DEF ChannelInv
<1>3. CASE flight \in Of(k) /\ told' = Delivered
  <2>1. told'[k] = Append(told[k], flight)
    BY <1>0, <1>3 DEF Delivered, Of
  <2>2. InHand(k) = {flight}
    BY <1>3 DEF InHand
  <2>3. /\ InOrder(told'[k], {}, Queue(k), bus)
        /\ \A n : Held(told'[k], {}, Queue(k), bus, n) <=> Held(told[k], InHand(k), Queue(k), bus, n)
    <3> DEFINE t == told[k]
               q == Queue(k)
    <3>1. t \in Seq(Nat) /\ InOrder(t, {flight}, q, bus)
      BY <1>0, <1>1, <2>2
    <3> HIDE DEF t, q
    <3>2. /\ InOrder(Append(t, flight), {}, q, bus)
          /\ \A n : Held(Append(t, flight), {}, q, bus, n) <=> Held(t, {flight}, q, bus, n)
      BY <1>0, <3>1, Delivering
    <3>3. told'[k] = Append(t, flight)
      BY <2>1 DEF t
    <3> QED
      BY <3>2, <3>3, <2>2 DEF t, q
  <2>4. Below(told[k], flight) /\ Above(Queue(k), flight) /\ Above(bus, flight)
    BY <1>1, <2>2 DEF InOrder
  <2>5. ASSUME NEW n \in Of(k), n < flight, Held(told[k], {flight}, Queue(k), bus, n) PROVE Has(told[k], n)
    <3>1. n # flight
      BY <1>0, <2>5
    <3>2. ~Has(Queue(k), n)
      <4> SUFFICES ASSUME NEW i \in DOMAIN Queue(k), Queue(k)[i] = n PROVE FALSE
        BY DEF Has
      <4> QED
        BY <1>0, <2>4, <2>5 DEF Above
    <3>3. ~Has(bus, n)
      <4> SUFFICES ASSUME NEW i \in DOMAIN bus, bus[i] = n PROVE FALSE
        BY DEF Has
      <4> QED
        BY <1>0, <2>4, <2>5 DEF Above
    <3> QED
      BY <3>1, <3>2, <3>3, <2>5 DEF Held
  <2> QED
    BY <1>0, <1>2, <1>3, <2>1, <2>2, <2>3, <2>4, <2>5
<1>4. CASE flight \notin Of(k) /\ told'[k] = told[k]
  <2>1. InHand(k) = {}
    BY <1>4 DEF InHand
  <2> QED
    BY <1>0, <1>1, <1>2, <1>4, <2>1
<1>5. CASE told' = told /\ ("api" \in trouble' \/ "end" \in trouble')
  <2>1. Broken(Causes(k))'
    BY <1>5 DEF Broken, Causes
  <2> QED
    BY <1>1, <1>5, <2>1, Losing
<1>6. CASE flight \notin Of(k) /\ flight # 0 /\ told' = Delivered
  <2>1. kind[flight] # k
    <3>1. flight \in Events
      BY <1>6 DEF TypeOK, Events
    <3> QED
      BY <1>6, <3>1, KindIs DEF Of
  <2>2. told'[k] = told[k]
    BY <1>0, <1>6, <2>1 DEF Delivered
  <2> QED
    BY <1>4, <1>6, <2>2
<1>7. CASE told' = told /\ flight = 0
  <2>1. flight \notin Of(k)
    BY <1>7, ChannelTypes, KindIs
  <2> QED
    BY <1>4, <1>7, <2>1
<1>8. CASE flight # 0 /\ told' = told /\ ("api" \in trouble' \/ "end" \in trouble')
  BY <1>5, <1>8
<1> QED
  BY <1>3, <1>6, <1>7, <1>8 DEF Moves, Finished

LEMMA MovesKeep ==
  ASSUME TypeOK, NotifierInv, Moves
  PROVE  NotifierInv'
<1>0. kind' = kind /\ bus' = bus /\ \A k \in Queued : ChannelInv(k) /\ Of(k)' = Of(k)
  BY DEF NotifierInv, Moves, Of
<1>1. ASSUME TakesNone, NEW k \in Queued PROVE ChannelInv(k)'
  <2>1. Queue(k)' = Queue(k) /\ InHand(k)' = {}
    <3>1. 0 \notin Of(k)
      BY ChannelTypes, KindIs
    <3> QED
      BY <1>0, <1>1, <3>1 DEF TakesNone, Queue, InHand
  <2>2. /\ InOrder(told'[k], {}, Queue(k), bus)
        /\ Broken(Causes(k))' \/ \A n \in Of(k) : Held(told'[k], {}, Queue(k), bus, n)
    BY <1>0, Finishing
  <2>3. \A i \in DOMAIN Queue(k) : kind[Queue(k)[i]] = k
    BY <1>0 DEF ChannelInv
  <2> QED
    BY <1>0, <2>1, <2>2, <2>3 DEF ChannelInv
<1>2. ASSUME NEW j \in Queued, TakesFrom(j) PROVE flight' \in Of(j) /\ \A k \in Queued : ChannelInv(k)'
  <2>1. flight' \in Of(j) /\ \A i \in DOMAIN Queue(j)' : kind[Queue(j)'[i]] = j
    BY <1>0, <1>2, QueueKinds DEF TakesFrom
  <2>2. ASSUME NEW k \in Queued PROVE ChannelInv(k)'
    <3>1. /\ InOrder(told'[k], {}, Queue(k), bus)
          /\ Broken(Causes(k))' \/ \A n \in Of(k) : Held(told'[k], {}, Queue(k), bus, n)
      BY <1>0, Finishing
    <3>2. CASE k = j
      <4> DEFINE t == told'[k]
                 q == Queue(k)
      <4>0. InHand(k)' = {Head(q)} /\ Queue(k)' = Tail(q) /\ q # <<>>
        BY <1>0, <1>2, <2>1, <3>2 DEF InHand, TakesFrom
      <4>1. q \in Seq(Nat) /\ InOrder(t, {}, q, bus)
        BY <3>1, ChannelTypes
      <4>11. Broken(Causes(k))' \/ \A n \in Of(k) : Held(t, {}, q, bus, n)
        BY <3>1
      <4> HIDE DEF t, q
      <4>2. /\ InOrder(t, {Head(q)}, Tail(q), bus)
            /\ \A n : Held(t, {Head(q)}, Tail(q), bus, n) <=> Held(t, {}, q, bus, n)
        BY <4>0, <4>1, Taking
      <4>3. InOrder(t, InHand(k)', Queue(k)', bus')
        BY <1>0, <4>0, <4>2
      <4>4. Broken(Causes(k))' \/ \A n \in Of(k)' : Held(t, InHand(k)', Queue(k)', bus', n)
        BY <1>0, <4>0, <4>2, <4>11
      <4>5. \A i \in DOMAIN Queue(k)' : kind'[Queue(k)'[i]] = k
        BY <1>0, <2>1, <3>2
      <4> QED
        BY <4>3, <4>4, <4>5 DEF ChannelInv, t
    <3>3. CASE k # j
      <4>1. Queue(k)' = Queue(k) /\ InHand(k)' = {}
        <5>1. kind[flight'] = j
          BY <2>1 DEF Of
        <5> QED
          BY <1>0, <1>2, <2>1, <3>3, <5>1 DEF TakesFrom, InHand, Of
      <4>2. \A i \in DOMAIN Queue(k) : kind[Queue(k)[i]] = k
        BY <1>0 DEF ChannelInv
      <4> QED
        BY <1>0, <3>1, <4>1, <4>2 DEF ChannelInv
    <3> QED
      BY <3>2, <3>3
  <2> QED
    BY <2>1, <2>2
<1>3. flight' # 0 => kind'[flight'] \in Queued
  BY <1>0, <1>2 DEF Moves, TakesNone, Of
<1> QED
  BY <1>1, <1>2, <1>3 DEF Moves, NotifierInv

LEMMA PublishChannels ==
  ASSUME TypeOK, NotifierInv, NEW c \in Kinds, Publish(c)
  PROVE  /\ NotifierInv' /\ told' = told
         /\ \A k \in Queued :
              /\ Broken(Causes(k)) => Broken(Causes(k))'
              /\ \/ Of(k)' = Of(k)
                 \/ Of(k)' = Of(k) \union {Len(kind')} /\ \A f \in Of(k) : f < Len(kind')
<1> DEFINE e == Len(kind')
<1>0. /\ kind \in Seq(Kinds) /\ kind' = Append(kind, c) /\ trouble \subseteq trouble'
      /\ told' = told /\ flight' = flight /\ urgent' = urgent /\ normal' = normal
  BY DEF TypeOK, Publish, notifier
<1>1. /\ Len(kind) \in Nat /\ e = Len(kind) + 1 /\ DOMAIN kind' = 1 .. Len(kind) + 1
      /\ DOMAIN kind = 1 .. Len(kind) /\ kind'[e] = c /\ \A n \in 1 .. Len(kind) : kind'[n] = kind[n]
  BY <1>0, AppendIs
<1>2. /\ DOMAIN kind' = DOMAIN kind \union {e} /\ e \in Nat /\ e \notin Events /\ DOMAIN kind = Events
      /\ kind'[e] = c /\ \A n \in Events : n < e /\ n \in Nat /\ kind'[n] = kind[n]
  BY <1>1 DEF Events
<1>3. (bus' = Append(bus, e) /\ UNCHANGED trouble) \/ (trouble' = trouble \union {"bus"} /\ UNCHANGED bus)
  BY DEF Publish
<1> HIDE DEF e
<1>4. ASSUME NEW k \in Queued
      PROVE  /\ ChannelInv(k)'
             /\ Broken(Causes(k)) => Broken(Causes(k))'
             /\ Of(k)' = Of(k) \/ (Of(k)' = Of(k) \union {e} /\ \A f \in Of(k) : f < e)
  <2>1. Queue(k)' = Queue(k)
    BY <1>0 DEF Queue
  <2>2. Of(k)' = IF c = k THEN Of(k) \union {e} ELSE Of(k)
    BY <1>2 DEF Of
  <2>3. \A f \in Of(k) : f < e /\ f \in Events
    BY <1>2, ChannelTypes
  <2>4. InHand(k)' = InHand(k)
    <3>1. flight # e
      <4>1. flight \in Events \union {0} /\ e # 0
        BY <1>1 DEF TypeOK, Events, e
      <4> QED
        BY <4>1, <1>2
    <3> QED
      BY <1>0, <2>2, <3>1 DEF InHand
  <2>5. /\ told[k] \in Seq(Nat) /\ Queue(k) \in Seq(Nat) /\ bus \in Seq(Nat)
        /\ Below(told[k], e) /\ Below(Queue(k), e) /\ Below(bus, e) /\ \A m \in InHand(k) : m < e
    BY <1>2, ChannelTypes DEF Below
  <2>6. \A i \in DOMAIN Queue(k) : kind'[Queue(k)[i]] = k
    BY <1>2, ChannelTypes DEF ChannelInv, NotifierInv
  <2>7. InOrder(told[k], InHand(k), Queue(k), bus)
    BY DEF ChannelInv, NotifierInv
  <2>8. Broken(Causes(k)) \/ \A n \in Of(k) : Held(told[k], InHand(k), Queue(k), bus, n)
    BY DEF ChannelInv, NotifierInv
  <2>9. Broken(Causes(k)) => Broken(Causes(k))'
    BY <1>0 DEF Broken, Causes
  <2>10. CASE bus' = Append(bus, e)
    <3> DEFINE t == told[k]
               q == Queue(k)
               hand == InHand(k)
    <3>1. /\ InOrder(t, hand, q, bus) /\ bus \in Seq(Nat)
          /\ Below(t, e) /\ Below(q, e) /\ Below(bus, e) /\ \A m \in hand : m < e
      BY <2>5, <2>7
    <3> HIDE DEF t, q, hand
    <3>2. /\ InOrder(t, hand, q, bus')
          /\ \A n : Held(t, hand, q, bus', n) <=> Held(t, hand, q, bus, n) \/ n = e
      BY <1>2, <2>10, <3>1, Posting
    <3>3. /\ InOrder(told[k], InHand(k), Queue(k), bus')
          /\ Broken(Causes(k))' \/ \A n \in Of(k)' : Held(told[k], InHand(k), Queue(k), bus', n)
      BY <2>2, <2>8, <2>9, <3>2 DEF t, q, hand
    <3> QED
      BY <1>0, <2>1, <2>2, <2>3, <2>4, <2>6, <2>9, <3>3 DEF ChannelInv
  <2>11. CASE trouble' = trouble \union {"bus"} /\ UNCHANGED bus
    <3>1. Broken(Causes(k))'
      BY <2>11 DEF Broken, Causes
    <3> QED
      BY <1>0, <2>1, <2>2, <2>3, <2>4, <2>6, <2>7, <2>11, <3>1 DEF ChannelInv
  <2> QED
    BY <1>3, <2>10, <2>11
<1>5. flight' # 0 => kind'[flight'] \in Queued
  BY <1>0, <1>2 DEF TypeOK, Events, NotifierInv
<1>6. NotifierInv'
  BY <1>4, <1>5 DEF NotifierInv
<1>7. \A k \in Queued :
        /\ Broken(Causes(k)) => Broken(Causes(k))'
        /\ Of(k)' = Of(k) \/ (Of(k)' = Of(k) \union {e} /\ \A f \in Of(k) : f < e)
  BY <1>4
<1> QED
  BY <1>0, <1>6, <1>7 DEF e

LEMMA DispatchChannels ==
  ASSUME TypeOK, NotifierInv, Dispatch
  PROVE  NotifierInv'
<1> DEFINE n == Head(bus)
<1>0. /\ bus # <<>> /\ bus' = Tail(bus) /\ trouble \subseteq trouble'
      /\ kind' = kind /\ told' = told /\ flight' = flight
      /\ urgent' = IF kind[n] = "urgent" THEN Put(urgent, UrgentCap, n) ELSE urgent
      /\ normal' = IF kind[n] = "normal" THEN Put(normal, NormalCap, n) ELSE normal
      /\ kind[n] = "urgent" /\ Len(urgent) = UrgentCap => "urgent" \in trouble'
      /\ kind[n] = "normal" /\ Len(normal) = NormalCap => "normal" \in trouble'
  BY DEF Dispatch
<1>1. n \in Events /\ bus \in Seq(Nat)
  <2>1. bus \in Seq(Events)
    BY DEF TypeOK, Events
  <2> QED
    BY <1>0, <2>1, TailIs, KindIs, SeqMonotonic
<1> HIDE DEF n
<1>2. ASSUME NEW k \in Queued
      PROVE  \/ kind[n] # k /\ Queue(k)' = Queue(k)
             \/ kind[n] = k /\ Queue(k)' = Append(Queue(k), n)
             \/ kind[n] = k /\ Queue(k)' = Queue(k) /\ k \in trouble'
  <2>1. CASE k = "urgent"
    <3>1. Len(urgent) \in Nat /\ Len(urgent) <= UrgentCap /\ UrgentCap \in Nat
      BY MessagingAssumption, LenProperties DEF TypeOK
    <3>2. CASE Len(urgent) < UrgentCap
      BY <1>0, <2>1, <3>2 DEF Put, Queue
    <3>3. CASE Len(urgent) = UrgentCap
      BY <1>0, <2>1, <3>1, <3>3 DEF Put, Queue
    <3> QED
      BY <3>1, <3>2, <3>3
  <2>2. CASE k = "normal"
    <3>1. Len(normal) \in Nat /\ Len(normal) <= NormalCap /\ NormalCap \in Nat
      BY MessagingAssumption, LenProperties DEF TypeOK
    <3>2. CASE Len(normal) < NormalCap
      BY <1>0, <2>2, <3>2 DEF Put, Queue
    <3>3. CASE Len(normal) = NormalCap
      BY <1>0, <2>2, <3>1, <3>3 DEF Put, Queue
    <3> QED
      BY <3>1, <3>2, <3>3
  <2> QED
    BY <2>1, <2>2 DEF Queued
<1>3. ASSUME NEW k \in Queued PROVE ChannelInv(k)'
  <2> DEFINE t == told[k]
             q == Queue(k)
             hand == InHand(k)
  <2>1. /\ InOrder(t, hand, q, bus) /\ q \in Seq(Nat)
        /\ Broken(Causes(k)) \/ \A m \in Of(k) : Held(t, hand, q, bus, m)
        /\ \A i \in DOMAIN q : kind[q[i]] = k
    BY ChannelTypes DEF ChannelInv, NotifierInv
  <2>2. told'[k] = t /\ InHand(k)' = hand /\ Of(k)' = Of(k)
    BY <1>0 DEF InHand, Of
  <2>3. Broken(Causes(k)) => Broken(Causes(k))'
    BY <1>0 DEF Broken, Causes
  <2>4. \/ kind[n] # k /\ Queue(k)' = q
        \/ kind[n] = k /\ Queue(k)' = Append(q, n)
        \/ kind[n] = k /\ Queue(k)' = q /\ k \in trouble'
    BY <1>2
  <2> HIDE DEF t, q, hand
  <2>5. /\ InOrder(t, hand, q, bus')
        /\ \A m : Held(t, hand, q, bus, m) => m = n \/ Held(t, hand, q, bus', m)
        /\ InOrder(t, hand, Append(q, n), bus')
        /\ \A m : Held(t, hand, Append(q, n), bus', m) <=> Held(t, hand, q, bus, m)
    BY <1>0, <1>1, <2>1, Dispatching DEF n
  <2>6. CASE kind[n] # k /\ Queue(k)' = q
    <3>1. \A m \in Of(k) : m # n
      BY <2>6 DEF Of
    <3>2. Broken(Causes(k))' \/ \A m \in Of(k) : Held(t, hand, q, bus', m)
      BY <2>1, <2>3, <2>5, <3>1
    <3> QED
      BY <1>0, <2>1, <2>2, <2>5, <2>6, <3>2 DEF ChannelInv
  <2>7. CASE kind[n] = k /\ Queue(k)' = Append(q, n)
    <3>1. \A i \in DOMAIN Queue(k)' : kind[Queue(k)'[i]] = k
      <4>1. /\ DOMAIN q = 1 .. Len(q) /\ DOMAIN Append(q, n) = 1 .. Len(q) + 1 /\ Len(q) \in Nat
            /\ Append(q, n)[Len(q) + 1] = n /\ \A i \in 1 .. Len(q) : Append(q, n)[i] = q[i]
        BY <2>1, <1>1, KindIs, AppendIs
      <4>2. ASSUME NEW i \in 1 .. Len(q) + 1 PROVE kind[Append(q, n)[i]] = k
        <5>1. CASE i = Len(q) + 1
          BY <4>1, <5>1, <2>7
        <5>2. CASE i \in 1 .. Len(q)
          BY <4>1, <5>2, <2>1
        <5> QED
          BY <4>1, <5>1, <5>2
      <4> QED
        BY <2>7, <4>1, <4>2
    <3>2. Broken(Causes(k))' \/ \A m \in Of(k) : Held(t, hand, Append(q, n), bus', m)
      BY <2>1, <2>3, <2>5
    <3> QED
      BY <1>0, <2>2, <2>5, <2>7, <3>1, <3>2 DEF ChannelInv
  <2>8. CASE Queue(k)' = q /\ k \in trouble'
    <3>1. Broken(Causes(k))'
      BY <2>8 DEF Broken, Causes
    <3> QED
      BY <1>0, <2>1, <2>2, <2>5, <2>8, <3>1 DEF ChannelInv
  <2> QED
    BY <2>4, <2>6, <2>7, <2>8
<1>4. flight' # 0 => kind'[flight'] \in Queued
  BY <1>0 DEF NotifierInv
<1> QED
  BY <1>3, <1>4 DEF NotifierInv

(* What a step is for the notifier's channels.                             *)
Aside == UNCHANGED <<kind, bus, urgent, normal, flight, told>> /\ trouble \subseteq trouble'

LEMMA StepsOfChannels ==
  ASSUME TypeOK, [Next]_vars
  PROVE  (\E k \in Kinds : Publish(k)) \/ Dispatch \/ Moves \/ Aside
<1>0. trouble \subseteq trouble'
  BY TroubleStays
<1>1. CASE NotifierStep
  BY <1>1, NotifierMoves
<1>2. CASE StreamSend \/ Leave \/ Join \/ StopBus \/ Exit
  BY <1>0, <1>2 DEF StreamSend, Leave, Join, StopBus, Exit, notifier, Aside
<1>3. CASE StopNotifier \/ CancelPendingTasks \/ TaskFails
  <2>1. UNCHANGED <<kind, bus>>
    BY <1>3 DEF StopNotifier, CancelPendingTasks, TaskFails
  <2>2. CASE CancelNotifier
    BY <2>1, <2>2, CancelMoves
  <2>3. CASE UNCHANGED <<urgent, normal, phase, stage, flight, told, trouble>>
    BY <1>0, <2>1, <2>3 DEF Aside
  <2> QED
    BY <1>3, <2>2, <2>3 DEF StopNotifier, CancelPendingTasks, TaskFails
<1>4. CASE UNCHANGED vars
  BY <1>4 DEF vars, notifier, Aside
<1> QED
  BY <1>1, <1>2, <1>3, <1>4 DEF Next

LEMMA InitChannels == Init => NotifierInv
<1> SUFFICES ASSUME Init PROVE NotifierInv
  OBVIOUS
<1>1. /\ DOMAIN <<>> = {} /\ kind = <<>> /\ bus = <<>> /\ flight = 0
      /\ \A k \in Queued : told[k] = <<>> /\ Queue(k) = <<>>
  BY DEF Init, Queue
<1>2. \A k : Of(k) = {} /\ InHand(k) = {}
  BY <1>1 DEF Of, InHand
<1> QED
  BY <1>1, <1>2 DEF NotifierInv, ChannelInv, InOrder, Ascends, Precedes

LEMMA NextChannels == TypeOK /\ NotifierInv /\ [Next]_vars => NotifierInv'
<1> SUFFICES ASSUME TypeOK, NotifierInv, [Next]_vars PROVE NotifierInv'
  OBVIOUS
<1>1. CASE Aside
  <2>1. flight' # 0 => kind'[flight'] \in Queued
    BY <1>1 DEF Aside, NotifierInv
  <2>2. ASSUME NEW k \in Queued PROVE ChannelInv(k)'
    <3>1. ChannelInv(k) /\ (Broken(Causes(k)) => Broken(Causes(k))')
      BY <1>1 DEF NotifierInv, Aside, Broken
    <3>2. /\ Queue(k)' = Queue(k) /\ InHand(k)' = InHand(k) /\ Of(k)' = Of(k)
          /\ told'[k] = told[k] /\ bus' = bus /\ kind' = kind
      BY <1>1 DEF Aside, Queue, InHand, Of
    <3> QED
      BY <3>1, <3>2 DEF ChannelInv
  <2> QED
    BY <2>1, <2>2 DEF NotifierInv
<1> QED
  BY <1>1, StepsOfChannels, MovesKeep, PublishChannels, DispatchChannels

(* A step of the system for one of the channels: nothing, an event that is *)
(* published for it, or the next message that arrives.                     *)
LEMMA StepOfChannel ==
  ASSUME TypeOK, NotifierInv, [Next]_vars, NEW k \in Queued
  PROVE  /\ Broken(Causes(k)) => Broken(Causes(k))'
         /\ \/ Of(k)' = Of(k) /\ told'[k] = told[k]
            \/ /\ told'[k] = told[k]
               /\ \E e : Of(k)' = Of(k) \union {e} /\ \A f \in Of(k) : f < e
            \/ /\ Of(k)' = Of(k) /\ flight \in Of(k) /\ told'[k] = Append(told[k], flight)
               /\ Below(told[k], flight)
               /\ Broken(Causes(k)) \/ \A n \in Of(k) : n < flight => Has(told[k], n)
<1>0. Broken(Causes(k)) => Broken(Causes(k))'
  BY TroubleStays DEF Broken
<1>1. CASE \E c \in Kinds : Publish(c)
  BY <1>0, <1>1, PublishChannels
<1>2. CASE Dispatch
  BY <1>0, <1>2 DEF Dispatch, Of
<1>3. CASE Moves
  <2>1. Of(k)' = Of(k) /\ ChannelInv(k)
    BY <1>3 DEF Moves, Of, NotifierInv
  <2> QED
    BY <1>0, <1>3, <2>1, Finishing
<1>4. CASE Aside
  BY <1>0, <1>4 DEF Aside, Of
<1> QED
  BY <1>1, <1>2, <1>3, <1>4, StepsOfChannels

(* The newest event of an ascending sequence.                              *)
LEMMA NewestIs ==
  ASSUME NEW t \in Seq(Nat), Ascends(t)
  PROVE  LET newest == IF t = <<>> THEN 0 ELSE t[Len(t)]
         IN  /\ newest \in Nat
             /\ \A n : Has(t, n) => n \in Nat /\ n <= newest
             /\ \A e \in Nat \ {0} : Below(t, e) => newest < e
<1> DEFINE newest == IF t = <<>> THEN 0 ELSE t[Len(t)]
<1>1. /\ Len(t) \in Nat /\ DOMAIN t = 1 .. Len(t) /\ \A i \in 1 .. Len(t) : t[i] \in Nat
      /\ t # <<>> => Len(t) \in 1 .. Len(t)
  BY LenProperties, EmptySeq, ElementOfSeq
<1>2. newest \in Nat
  BY <1>1
<1>3. ASSUME NEW i \in DOMAIN t PROVE t[i] \in Nat /\ t[i] <= newest
  <2>1. t # <<>>
    BY <1>1
  <2>2. newest = t[Len(t)] /\ Len(t) \in DOMAIN t
    BY <1>1, <2>1
  <2> HIDE DEF newest
  <2>3. CASE i = Len(t)
    BY <1>1, <2>2, <2>3
  <2>4. CASE i < Len(t)
    BY <1>1, <2>2, <2>4 DEF Ascends
  <2> QED
    BY <1>1, <2>3, <2>4
<1>4. ASSUME NEW e \in Nat \ {0}, Below(t, e) PROVE newest < e
  BY <1>1, <1>4 DEF Below
<1> QED
  BY <1>2, <1>3, <1>4 DEF Has

LEMMA ChannelBreaks ==
  ASSUME NEW causes, Broken(causes) => Broken(causes)'
  PROVE  Broken(causes)' \in {Broken(causes), TRUE}
<1>1. Broken(causes) \in BOOLEAN /\ Broken(causes)' \in BOOLEAN
  BY DEF Broken
<1> QED
  BY <1>1, Zenon

LEMMA UrgentImplements ==
  TypeOK /\ NotifierInv /\ [Next]_vars =>
    [UrgentView!Next]_<<Of("urgent"), told["urgent"], Broken({"bus", "urgent", "api", "end"})>>
<1> DEFINE k == "urgent"
           causes == {"bus", "urgent", "api", "end"}
           t == told["urgent"]
<1> SUFFICES ASSUME TypeOK, NotifierInv, [Next]_vars
             PROVE  UrgentView!Next \/ UNCHANGED <<Of("urgent"), told["urgent"], Broken(causes)>>
  OBVIOUS
<1>0. k \in Queued /\ Causes(k) = causes
  BY DEF Queued, Causes
<1>1. /\ t \in Seq(Nat) /\ Ascends(t) /\ Of("urgent") \subseteq Nat \ {0}
      /\ Broken(causes) => Broken(causes)'
  <2>1. t \in Seq(Nat) /\ Of("urgent") \subseteq Events
    BY <1>0, ChannelTypes
  <2>2. Ascends(t)
    BY <1>0 DEF NotifierInv, ChannelInv, InOrder
  <2>3. Broken(causes) => Broken(causes)'
    BY <1>0, StepOfChannel
  <2> QED
    BY <2>1, <2>2, <2>3, KindIs
<1>2. Broken(causes)' \in {Broken(causes), TRUE}
  BY <1>1, ChannelBreaks
<1>3. CASE Of("urgent")' = Of("urgent") /\ told'["urgent"] = t
  <2>1. CASE Broken(causes)' = Broken(causes)
    BY <1>3, <2>1
  <2>2. CASE Broken(causes)' = TRUE
    BY <1>3, <2>2 DEF UrgentView!Next, UrgentView!Break
  <2> QED
    BY <1>2, <2>1, <2>2
<1>4. ASSUME told'["urgent"] = t, NEW e, Of("urgent")' = Of("urgent") \union {e}, \A f \in Of("urgent") : f < e
      PROVE  UrgentView!Next
  <2>1. UrgentView!Offer(e) /\ e \in Of("urgent")'
    BY <1>2, <1>4 DEF UrgentView!Offer
  <2> QED
    BY <2>1 DEF UrgentView!Next
<1>5. ASSUME Of("urgent")' = Of("urgent"), flight \in Of("urgent"), told'["urgent"] = Append(t, flight),
             Below(t, flight), Broken(causes) \/ \A n \in Of("urgent") : n < flight => Has(t, n)
      PROVE  UrgentView!Next
  <2>1. /\ UrgentView!Newest \in Nat
        /\ \A n : Has(t, n) => n \in Nat /\ n <= UrgentView!Newest
        /\ UrgentView!Newest < flight
    BY <1>1, <1>5, NewestIs DEF UrgentView!Newest
  <2>2. Broken(causes) \/ UrgentView!IsNext(flight)
    BY <1>1, <1>5, <2>1 DEF UrgentView!IsNext
  <2>3. UrgentView!Receive(flight)
    BY <1>2, <1>5, <2>1, <2>2 DEF UrgentView!Receive
  <2> QED
    BY <1>5, <2>3 DEF UrgentView!Next
<1> QED
  BY <1>0, <1>3, <1>4, <1>5, StepOfChannel

LEMMA NormalImplements ==
  TypeOK /\ NotifierInv /\ [Next]_vars =>
    [NormalView!Next]_<<Of("normal"), told["normal"], Broken({"bus", "normal", "api", "end"})>>
<1> DEFINE k == "normal"
           causes == {"bus", "normal", "api", "end"}
           t == told["normal"]
<1> SUFFICES ASSUME TypeOK, NotifierInv, [Next]_vars
             PROVE  NormalView!Next \/ UNCHANGED <<Of("normal"), told["normal"], Broken(causes)>>
  OBVIOUS
<1>0. k \in Queued /\ Causes(k) = causes
  BY DEF Queued, Causes
<1>1. /\ t \in Seq(Nat) /\ Ascends(t) /\ Of("normal") \subseteq Nat \ {0}
      /\ Broken(causes) => Broken(causes)'
  <2>1. t \in Seq(Nat) /\ Of("normal") \subseteq Events
    BY <1>0, ChannelTypes
  <2>2. Ascends(t)
    BY <1>0 DEF NotifierInv, ChannelInv, InOrder
  <2>3. Broken(causes) => Broken(causes)'
    BY <1>0, StepOfChannel
  <2> QED
    BY <2>1, <2>2, <2>3, KindIs
<1>2. Broken(causes)' \in {Broken(causes), TRUE}
  BY <1>1, ChannelBreaks
<1>3. CASE Of("normal")' = Of("normal") /\ told'["normal"] = t
  <2>1. CASE Broken(causes)' = Broken(causes)
    BY <1>3, <2>1
  <2>2. CASE Broken(causes)' = TRUE
    BY <1>3, <2>2 DEF NormalView!Next, NormalView!Break
  <2> QED
    BY <1>2, <2>1, <2>2
<1>4. ASSUME told'["normal"] = t, NEW e, Of("normal")' = Of("normal") \union {e}, \A f \in Of("normal") : f < e
      PROVE  NormalView!Next
  <2>1. NormalView!Offer(e) /\ e \in Of("normal")'
    BY <1>2, <1>4 DEF NormalView!Offer
  <2> QED
    BY <2>1 DEF NormalView!Next
<1>5. ASSUME Of("normal")' = Of("normal"), flight \in Of("normal"), told'["normal"] = Append(t, flight),
             Below(t, flight), Broken(causes) \/ \A n \in Of("normal") : n < flight => Has(t, n)
      PROVE  NormalView!Next
  <2>1. /\ NormalView!Newest \in Nat
        /\ \A n : Has(t, n) => n \in Nat /\ n <= NormalView!Newest
        /\ NormalView!Newest < flight
    BY <1>1, <1>5, NewestIs DEF NormalView!Newest
  <2>2. Broken(causes) \/ NormalView!IsNext(flight)
    BY <1>1, <1>5, <2>1 DEF NormalView!IsNext
  <2>3. NormalView!Receive(flight)
    BY <1>2, <1>5, <2>1, <2>2 DEF NormalView!Receive
  <2> QED
    BY <1>5, <2>3 DEF NormalView!Next
<1> QED
  BY <1>0, <1>3, <1>4, <1>5, StepOfChannel

(* The notifier's queues are LossyChannels to Telegram.                    *)
LEMMA InitChannelViews == Init => UrgentView!Init /\ NormalView!Init
<1> SUFFICES ASSUME Init PROVE UrgentView!Init /\ NormalView!Init
  OBVIOUS
<1>1. kind = <<>> /\ told["urgent"] = <<>> /\ told["normal"] = <<>> /\ trouble = {}
  BY DEF Init, Queued
<1>2. \A k : Of(k) = {}
  BY <1>1 DEF Of
<1>3. \A causes : Broken(causes) = FALSE
  BY <1>1 DEF Broken
<1> QED
  BY <1>1, <1>2, <1>3 DEF UrgentView!Init, NormalView!Init

THEOREM NotifierIsChannel == Spec => UrgentView!Spec /\ NormalView!Spec
<1> DEFINE I == TypeOK /\ NotifierInv
<1>1. Init => I /\ UrgentView!Init /\ NormalView!Init
  BY InitTyped, InitChannels, InitChannelViews
<1>2. I /\ [Next]_vars => I'
  BY NextTyped, NextChannels
<1>3. I /\ [Next]_vars =>
        [UrgentView!Next]_<<Of("urgent"), told["urgent"], Broken({"bus", "urgent", "api", "end"})>>
  BY UrgentImplements
<1>4. I /\ [Next]_vars =>
        [NormalView!Next]_<<Of("normal"), told["normal"], Broken({"bus", "normal", "api", "end"})>>
  BY NormalImplements
<1> QED
  BY <1>1, <1>2, <1>3, <1>4, PTL DEF Spec, UrgentView!Spec, NormalView!Spec

(* Everything Channels says: the two channels of the notifier, the one of  *)
(* a client, and the priority of urgent messages.                          *)
THEOREM AllChannels == Spec => Channels
<1> QED
  BY NotifierIsChannel, StreamIsChannel, UrgentGoesFirst, PTL DEF Channels

=============================================================================
