--------------------------- MODULE TossAuth_proofs ---------------------------
(***************************************************************************)
(* The lock of TossAuth and the 401 retry of the REST client, for any      *)
(* number of callers, and any number of tokens, faults, restarts and       *)
(* tokens issued to others.  The first part says what joining, leaving and *)
(* being cancelled do to the queue of the lock; then each kind of step     *)
(* keeps IInv of TossAuth.                                                 *)
(***************************************************************************)
EXTENDS TossAuth, SequenceTheorems, TLAPS

(***************************************************************************)
(* The queue                                                               *)
(***************************************************************************)

(* r is q without the job of c.                                            *)
IsWithout(r, c, q) ==
  /\ r \in Seq(Jobs) /\ Once(r)
  /\ \A i \in DOMAIN r : \E k \in DOMAIN q : r[i] = q[k]
  /\ \A d \in Clients : In(d, r) <=> In(d, q) /\ d # c

(* The holder leaves.                                                      *)
LEMMA Leaving ==
  ASSUME NEW q \in Seq(Jobs), Once(q), q # <<>>
  PROVE  /\ Head(q) \in Jobs /\ Head(q) = q[1] /\ 1 \in DOMAIN q
         /\ IsWithout(Tail(q), Head(q).who, q)
<1> DEFINE r == Tail(q)
<1>1. Len(q) \in Nat /\ Len(q) >= 1 /\ DOMAIN q = 1 .. Len(q) /\ \A i \in 1 .. Len(q) : q[i] \in Jobs
  BY LenProperties, EmptySeq, ElementOfSeq
<1>2. r \in Seq(Jobs) /\ Len(r) = Len(q) - 1 /\ Head(q) = q[1]
  BY HeadTailProperties
<1>3. DOMAIN r = 1 .. Len(q) - 1
  BY <1>2, LenProperties
<1>4. \A i \in 1 .. Len(q) - 1 : r[i] = q[i + 1]
  <2>1. \A i \in 1 .. Len(r) : r[i] = q[i + 1]
    BY HeadTailProperties
  <2> QED
    BY <2>1, <1>2
<1> HIDE DEF r
<1>5. Once(r)
  <2> SUFFICES ASSUME NEW i \in DOMAIN r, NEW j \in DOMAIN r, r[i].who = r[j].who PROVE i = j
    BY DEF Once
  <2>1. i + 1 \in DOMAIN q /\ j + 1 \in DOMAIN q /\ q[i + 1].who = q[j + 1].who
    BY <1>1, <1>3, <1>4
  <2>2. i + 1 = j + 1
    BY <2>1 DEF Once
  <2> QED
    BY <2>2, <1>1, <1>3
<1>6. \A i \in DOMAIN r : \E k \in DOMAIN q : r[i] = q[k]
  BY <1>1, <1>3, <1>4
<1>7. ASSUME NEW d \in Clients PROVE In(d, r) <=> In(d, q) /\ d # q[1].who
  <2>1. ASSUME In(d, r) PROVE In(d, q) /\ d # q[1].who
    <3>1. PICK i \in DOMAIN r : r[i].who = d
      BY <2>1 DEF In
    <3>2. i + 1 \in DOMAIN q /\ q[i + 1].who = d /\ i + 1 # 1
      BY <3>1, <1>1, <1>3, <1>4
    <3> QED
      BY <3>2, <1>1 DEF In, Once
  <2>2. ASSUME In(d, q), d # q[1].who PROVE In(d, r)
    <3>1. PICK i \in DOMAIN q : q[i].who = d
      BY <2>2 DEF In
    <3>2. i # 1
      BY <3>1, <2>2
    <3>3. i - 1 \in DOMAIN r /\ r[i - 1] = q[i]
      BY <3>1, <3>2, <1>1, <1>3, <1>4
    <3> QED
      BY <3>1, <3>3 DEF In
  <2> QED
    BY <2>1, <2>2
<1> QED
  BY <1>1, <1>2, <1>5, <1>6, <1>7 DEF IsWithout, r

(* A waiter is cancelled.                                                  *)
LEMMA Cancelling ==
  ASSUME NEW q \in Seq(Jobs), Once(q), NEW c \in Clients
  PROVE  IsWithout(Without(c, q), c, q)
<1>1. Len(q) \in Nat /\ DOMAIN q = 1 .. Len(q) /\ \A i \in 1 .. Len(q) : q[i] \in Jobs
  BY LenProperties, ElementOfSeq
<1>2. CASE ~In(c, q)
  <2>1. Without(c, q) = q
    BY <1>2 DEF Without
  <2> QED
    BY <2>1, <1>2 DEF IsWithout, In
<1>3. CASE In(c, q)
  <2> DEFINE n == CHOOSE i \in DOMAIN q : q[i].who = c
             a == SubSeq(q, 1, n - 1)
             b == SubSeq(q, n + 1, Len(q))
             r == a \o b
  <2>1. n \in 1 .. Len(q) /\ q[n].who = c
    BY <1>1, <1>3 DEF In
  <2>2. Without(c, q) = r
    BY <1>3 DEF Without, RemoveAt
  <2> HIDE DEF n
  <2>3. a \in Seq(Jobs) /\ Len(a) = n - 1 /\ \A i \in 1 .. n - 1 : a[i] = q[i]
    <3>1. \A i \in 1 .. n - 1 : q[i] \in Jobs
      BY <2>1, <1>1
    <3>2. n - 1 \in Int
      BY <2>1, <1>1
    <3>3. /\ a \in Seq(Jobs)
          /\ Len(a) = IF 1 <= n - 1 THEN n - 1 - 1 + 1 ELSE 0
          /\ \A i \in 1 .. n - 1 - 1 + 1 : a[i] = q[1 + i - 1]
      BY <3>1, <3>2, SubSeqProperties
    <3> QED
      BY <3>3, <2>1, <1>1
  <2>4. b \in Seq(Jobs) /\ Len(b) = Len(q) - n /\ \A i \in 1 .. Len(q) - n : b[i] = q[n + i]
    <3>1. \A i \in n + 1 .. Len(q) : q[i] \in Jobs
      BY <2>1, <1>1
    <3>2. n + 1 \in Int /\ Len(q) \in Int
      BY <2>1, <1>1
    <3>3. /\ b \in Seq(Jobs)
          /\ Len(b) = IF n + 1 <= Len(q) THEN Len(q) - (n + 1) + 1 ELSE 0
          /\ \A i \in 1 .. Len(q) - (n + 1) + 1 : b[i] = q[n + 1 + i - 1]
      BY <3>1, <3>2, SubSeqProperties
    <3>4. Len(q) - (n + 1) + 1 = Len(q) - n
      BY <2>1, <1>1
    <3>5. \A i \in 1 .. Len(q) - n : n + 1 + i - 1 = n + i
      BY <2>1, <1>1
    <3>6. Len(b) = Len(q) - n
      <4>1. Len(b) = IF n + 1 <= Len(q) THEN Len(q) - n ELSE 0
        BY <3>3, <3>4
      <4>2. n \in Int /\ Len(q) \in Int /\ n <= Len(q)
        BY <2>1, <1>1
      <4>3. ~(n + 1 <= Len(q)) => Len(q) - n = 0
        BY <4>2
      <4> QED
        BY <4>1, <4>3
    <3>7. \A i \in 1 .. Len(q) - n : b[i] = q[n + i]
      BY <3>3, <3>4, <3>5
    <3> QED
      BY <3>3, <3>6, <3>7
  <2> HIDE DEF a, b
  <2>5. /\ r \in Seq(Jobs) /\ Len(r) = Len(a) + Len(b)
        /\ \A i \in 1 .. Len(a) + Len(b) : r[i] = IF i <= Len(a) THEN a[i] ELSE b[i - Len(a)]
    BY <2>3, <2>4, ConcatProperties
  <2> HIDE DEF r
  <2>6. DOMAIN r = 1 .. Len(q) - 1
    <3>1. Len(r) = Len(q) - 1
      BY <2>3, <2>4, <2>5, <2>1, <1>1
    <3> QED
      BY <3>1, <2>5, LenProperties
  <2>7. \A i \in 1 .. Len(q) - 1 : r[i] = q[IF i < n THEN i ELSE i + 1]
    <3> SUFFICES ASSUME NEW i \in 1 .. Len(q) - 1 PROVE r[i] = q[IF i < n THEN i ELSE i + 1]
      OBVIOUS
    <3>1. i \in 1 .. Len(a) + Len(b) /\ i \in Int /\ n \in Int
      BY <2>1, <2>3, <2>4, <1>1
    <3>2. r[i] = IF i <= Len(a) THEN a[i] ELSE b[i - Len(a)]
      BY <2>5, <3>1
    <3>3. CASE i < n
      <4>1. i <= Len(a) /\ i \in 1 .. n - 1
        BY <3>1, <3>3, <2>3
      <4> QED
        BY <4>1, <3>2, <3>3, <2>3
    <3>4. CASE ~(i < n)
      <4>1. ~(i <= Len(a)) /\ i - Len(a) \in 1 .. Len(q) - n /\ n + (i - Len(a)) = i + 1
        BY <3>1, <3>4, <2>1, <2>3, <1>1
      <4>2. b[i - Len(a)] = q[n + (i - Len(a))]
        BY <4>1, <2>4
      <4> QED
        BY <4>1, <4>2, <3>2, <3>4
    <3> QED
      BY <3>3, <3>4
  <2>8. Once(r)
    <3> SUFFICES ASSUME NEW i \in DOMAIN r, NEW j \in DOMAIN r, r[i].who = r[j].who PROVE i = j
      BY DEF Once
    <3> DEFINE at(k) == IF k < n THEN k ELSE k + 1
    <3>1. at(i) \in DOMAIN q /\ at(j) \in DOMAIN q /\ q[at(i)].who = q[at(j)].who
      BY <2>1, <2>6, <2>7, <1>1
    <3>2. at(i) = at(j)
      BY <3>1 DEF Once
    <3> QED
      BY <3>2, <2>1, <2>6, <1>1
  <2>9. \A i \in DOMAIN r : \E k \in DOMAIN q : r[i] = q[k]
    BY <2>1, <2>6, <2>7, <1>1
  <2>10. ASSUME NEW d \in Clients PROVE In(d, r) <=> In(d, q) /\ d # c
    <3>1. ASSUME In(d, r) PROVE In(d, q) /\ d # c
      <4>1. PICK i \in DOMAIN r : r[i].who = d
        BY <3>1 DEF In
      <4> DEFINE at == IF i < n THEN i ELSE i + 1
      <4>3. i \in 1 .. Len(q) - 1 /\ n \in 1 .. Len(q) /\ Len(q) \in Nat
        BY <4>1, <2>1, <2>6, <1>1
      <4>4. at \in 1 .. Len(q) /\ at # n
        BY <4>3
      <4>5. r[i] = q[at]
        BY <2>7, <4>3
      <4> HIDE DEF at
      <4>2. PICK k \in DOMAIN q : k # n /\ q[k].who = d
        BY <4>1, <4>4, <4>5, <1>1
      <4> QED
        BY <4>2, <2>1, <1>1 DEF In, Once
    <3>2. ASSUME In(d, q), d # c PROVE In(d, r)
      <4>1. PICK k \in DOMAIN q : q[k].who = d
        BY <3>2 DEF In
      <4>2. k # n
        BY <4>1, <3>2, <2>1
      <4>3. PICK i \in DOMAIN r : r[i] = q[k]
        <5>1. CASE k < n
          BY <5>1, <2>1, <2>6, <2>7, <1>1
        <5>2. CASE k > n
          <6>1. k - 1 \in 1 .. Len(q) - 1 /\ ~(k - 1 < n) /\ k - 1 + 1 = k
            BY <5>2, <2>1, <1>1
          <6> QED
            BY <6>1, <2>6, <2>7
        <5> QED
          BY <5>1, <5>2, <4>2, <2>1, <1>1
      <4> QED
        BY <4>1, <4>3 DEF In
    <3> QED
      BY <3>1, <3>2
  <2> QED
    BY <2>2, <2>5, <2>8, <2>9, <2>10 DEF IsWithout
<1> QED
  BY <1>2, <1>3

(* Somebody who is not in the queue joins it at the end.                   *)
LEMMA Joining ==
  ASSUME TypeOK, NEW c \in Clients, NEW o \in {"get", "on401", "renew"}, ~In(c, queue)
  PROVE  LET job == [who |-> c, op |-> o]
             r   == Enter(c, o)
         IN  /\ r \in Seq(Jobs) /\ Once(r) /\ r # <<>>
             /\ \A i \in DOMAIN r : r[i] = job \/ \E k \in DOMAIN queue : r[i] = queue[k]
             /\ \A d \in Clients : In(d, r) <=> In(d, queue) \/ d = c
             /\ queue # <<>> => Head(r) = Head(queue)
<1> DEFINE job == [who |-> c, op |-> o]
           r   == Append(queue, job)
<1>0. queue \in Seq(Jobs) /\ Once(queue) /\ job \in Jobs
  BY DEF TypeOK, Jobs
<1>1. Len(queue) \in Nat /\ DOMAIN queue = 1 .. Len(queue)
  BY <1>0, LenProperties
<1>2. /\ r \in Seq(Jobs) /\ r # <<>> /\ Len(r) = Len(queue) + 1
      /\ \A i \in 1 .. Len(queue) : r[i] = queue[i]
      /\ r[Len(queue) + 1] = job
  BY <1>0, AppendProperties
<1>3. DOMAIN r = 1 .. Len(queue) + 1
  BY <1>2, LenProperties
<1>4. queue # <<>> => Head(r) = Head(queue)
  BY <1>0, <1>1, <1>2, EmptySeq, HeadTailProperties
<1>5. job.who = c
  OBVIOUS
<1> HIDE DEF r, job
<1>6. \A i \in 1 .. Len(queue) : queue[i].who # c
  BY <1>1 DEF In
<1>7. Once(r)
  <2> SUFFICES ASSUME NEW i \in DOMAIN r, NEW j \in DOMAIN r, r[i].who = r[j].who PROVE i = j
    BY DEF Once
  <2>1. CASE i = Len(queue) + 1
    BY <2>1, <1>1, <1>2, <1>3, <1>5, <1>6
  <2>2. CASE j = Len(queue) + 1
    BY <2>2, <1>1, <1>2, <1>3, <1>5, <1>6
  <2>3. CASE i \in 1 .. Len(queue) /\ j \in 1 .. Len(queue)
    BY <2>3, <1>0, <1>1, <1>2 DEF Once
  <2> QED
    BY <2>1, <2>2, <2>3, <1>1, <1>3
<1>8. \A i \in DOMAIN r : r[i] = job \/ \E k \in DOMAIN queue : r[i] = queue[k]
  BY <1>1, <1>2, <1>3
<1>9. \A d \in Clients : In(d, r) <=> In(d, queue) \/ d = c
  BY <1>1, <1>2, <1>3, <1>5 DEF In
<1> QED
  BY <1>2, <1>4, <1>7, <1>8, <1>9 DEF r, job, Enter

(***************************************************************************)
(* The queue of a step                                                     *)
(***************************************************************************)

(* The step takes the jobs of S out of the queue.                          *)
Gone(S) ==
  /\ queue' \in Seq(Jobs) /\ Once(queue')
  /\ \A i \in DOMAIN queue' : \E k \in DOMAIN queue : queue'[i] = queue[k]
  /\ \A d \in Clients : In(d, queue') <=> In(d, queue) /\ d \notin S

(* The step adds a job of c at the end.                                    *)
Joined(c, o) ==
  /\ queue' \in Seq(Jobs) /\ Once(queue') /\ queue' # <<>>
  /\ \A i \in DOMAIN queue' :
       queue'[i] = [who |-> c, op |-> o] \/ \E k \in DOMAIN queue : queue'[i] = queue[k]
  /\ \A d \in Clients : In(d, queue') <=> In(d, queue) \/ d = c
  /\ queue # <<>> => Head(queue') = Head(queue)

(* The holder of the lock is in the queue, with the operation it is in.    *)
LEMMA HolderIs ==
  ASSUME TypeOK, QueueInv, queue # <<>>
  PROVE  Head(queue) \in Jobs /\ Holder \in Clients /\ In(Holder, queue) /\ Fits(Head(queue))
<1>1. queue \in Seq(Jobs) /\ Once(queue)
  BY DEF TypeOK
<1>2. Head(queue) \in Jobs /\ Head(queue) = queue[1] /\ 1 \in DOMAIN queue
  BY <1>1, Leaving
<1> QED
  BY <1>2 DEF Holder, In, QueueInv, Jobs

LEMMA HolderLeaves ==
  ASSUME TypeOK, queue # <<>>, queue' = Tail(queue)
  PROVE  Gone({Holder})
<1>1. queue \in Seq(Jobs) /\ Once(queue)
  BY DEF TypeOK
<1> QED
  BY <1>1, Leaving DEF Gone, IsWithout, Holder

LEMMA TimerLeavesToo ==
  ASSUME TypeOK, queue # <<>>, queue' = Without(Timer, Tail(queue))
  PROVE  Gone({Holder, Timer})
<1> DEFINE q == Tail(queue)
<1>1. queue \in Seq(Jobs) /\ Once(queue)
  BY DEF TypeOK
<1>2. IsWithout(q, Holder, queue)
  BY <1>1, Leaving DEF Holder
<1> HIDE DEF q
<1>3. IsWithout(queue', Timer, q)
  <2>1. Timer \in Clients /\ queue' = Without(Timer, q)
    BY DEF Clients, q
  <2>2. q \in Seq(Jobs) /\ Once(q)
    BY <1>2 DEF IsWithout
  <2>3. IsWithout(Without(Timer, q), Timer, q)
    BY <2>1, <2>2, Cancelling
  <2> QED
    BY <2>1, <2>3
<1> QED
  BY <1>2, <1>3 DEF Gone, IsWithout

LEMMA Joins ==
  ASSUME TypeOK, NEW c \in Clients, NEW o \in {"get", "on401", "renew"}, ~In(c, queue),
         queue' = Enter(c, o)
  PROVE  Joined(c, o)
BY Joining DEF Joined

(* What is left in the queue still fits when nobody else moved.            *)
LEMMA GoneFits ==
  ASSUME TypeOK, QueueInv, NEW S \in SUBSET Clients, Gone(S), phase' = "start",
         UNCHANGED attempt, \A r \in Requests : r \notin S => rpc'[r] = rpc[r]
  PROVE  QueueInv'
<1> SUFFICES ASSUME NEW i \in DOMAIN queue' PROVE Fits(queue[i])'
  BY DEF QueueInv
<1> DEFINE job == queue'[i]
<1>1. PICK k \in DOMAIN queue : job = queue[k]
  BY DEF Gone
<1>2. Fits(job)
  BY <1>1 DEF QueueInv
<1>3. job.who \in Clients
  BY <1>2 DEF Fits, Clients
<1>4. In(job.who, queue')
  BY DEF In
<1>5. job.who \notin S
  BY <1>3, <1>4 DEF Gone
<1> QED
  BY <1>2, <1>5 DEF Fits

-----------------------------------------------------------------------------
(* The steps                                                               *)

LEMMA InitKeeps == Init => IInv
<1> SUFFICES ASSUME Init PROVE IInv
  OBVIOUS
<1>1. queue \in Seq(Jobs) /\ DOMAIN queue = {}
  BY EmptySeq, LenProperties DEF Init
<1>2. TypeOK
  BY <1>1, AuthAssumption DEF Init, TypeOK, Maybe, Once, In, Tokens
<1>3. QueueInv
  BY <1>1 DEF Init, QueueInv
<1>4. TokenInv
  BY AuthAssumption DEF Init, TokenInv, Tokens, Active
<1>5. DeniedOnlyWhenOvertaken
  BY DEF Init, DeniedOnlyWhenOvertaken
<1> QED
  BY <1>2, <1>3, <1>4, <1>5 DEF IInv

(* A new token, whoever asked for it.                                      *)
LEMMA Issues ==
  ASSUME IInv, Issue
  PROVE  /\ latest' = latest + 1 /\ latest' \in Tokens /\ latest' \in 0 .. MaxTokens
         /\ age' \in [Tokens -> {"unissued", "fresh", "near", "dead"}]
         /\ \A t \in Tokens : age'[t] = IF t = latest' THEN "fresh" ELSE age[t]
         /\ \A t \in Tokens : age'[t] = "unissued" <=> t > latest'
<1> USE DEF Tokens
<1>1. latest \in 0 .. MaxTokens /\ MaxTokens \in Nat /\ latest' = latest + 1 /\ latest < MaxTokens
  BY AuthAssumption DEF IInv, TypeOK, Issue
<1>2. latest' \in Tokens /\ latest' \in 0 .. MaxTokens
  BY <1>1
<1>3. age' = [age EXCEPT ![latest'] = "fresh"] /\ age \in [Tokens -> {"unissued", "fresh", "near", "dead"}]
  BY <1>1 DEF IInv, TypeOK, Issue
<1>4. \A t \in Tokens : age'[t] = IF t = latest' THEN "fresh" ELSE age[t]
  BY <1>2, <1>3
<1>5. \A t \in Tokens : age[t] = "unissued" <=> t > latest
  BY DEF IInv, TokenInv
<1> QED
  BY <1>1, <1>2, <1>3, <1>4, <1>5

(* Nothing but the newest token and the ages change for the requests.      *)
LEMMA IssueKeepsRequests ==
  ASSUME IInv, Issue, UNCHANGED requests
  PROVE  /\ \A r \in Requests : since'[r] <= latest'
         /\ \A r \in Requests, t \in Tokens :
              Active(r)' /\ since'[r] < t /\ t <= latest' => age'[t] = "fresh"
         /\ \A r \in Requests :
              rpc'[r] = "sent" /\ attempt'[r] = 1 => tok'[r] \in since'[r] + 1 .. latest'
         /\ DeniedOnlyWhenOvertaken'
<1>1. /\ latest' = latest + 1 /\ latest \in Nat /\ since \in [Requests -> Nat]
      /\ \A t \in Tokens : age'[t] = IF t = latest' THEN "fresh" ELSE age[t]
  BY Issues DEF IInv, TypeOK
<1>2. rpc' = rpc /\ tok' = tok /\ attempt' = attempt /\ since' = since
  BY DEF requests
<1>3. \A r \in Requests : since'[r] <= latest'
  BY <1>1, <1>2 DEF IInv, TokenInv
<1>4. \A r \in Requests, t \in Tokens :
        Active(r)' /\ since'[r] < t /\ t <= latest' => age'[t] = "fresh"
  BY <1>1, <1>2 DEF IInv, TokenInv, Tokens, Active
<1>5. \A r \in Requests :
        rpc'[r] = "sent" /\ attempt'[r] = 1 => tok'[r] \in since'[r] + 1 .. latest'
  BY <1>1, <1>2 DEF IInv, TokenInv
<1>6. DeniedOnlyWhenOvertaken'
  BY <1>1, <1>2 DEF IInv, DeniedOnlyWhenOvertaken
<1> QED
  BY <1>3, <1>4, <1>5, <1>6

LEMMA AgeKeeps ==
  ASSUME IInv, NEW t \in Tokens, Age(t)
  PROVE  IInv'
<1> DEFINE Kinds == {"unissued", "fresh", "near", "dead"}
<1>0. /\ latest' = latest /\ UNCHANGED <<store, lock, refresh, requests, calls, others, faults, crashes>>
      /\ age \in [Tokens -> Kinds]
  BY DEF Age, IInv, TypeOK
<1>1. /\ age' \in [Tokens -> Kinds] /\ ages' \in 0 .. MaxAges
      /\ \A u \in Tokens \ {t} : age'[u] = age[u]
      /\ age[t] # "unissued" /\ age'[t] # "unissued"
      /\ age[t] = "fresh" => \A r \in Requests : Active(r) => t <= since[r]
  <2>1. ages \in 0 .. MaxAges /\ MaxAges \in Nat
    BY AuthAssumption DEF IInv, TypeOK
  <2>2. CASE /\ age[t] = "fresh" /\ \A r \in Requests : Active(r) => t <= since[r]
             /\ age' = [age EXCEPT ![t] = "near"] /\ ages' = ages + 1
    <3>1. ages < MaxAges
      BY <2>2 DEF Age
    <3> QED
      BY <1>0, <2>1, <2>2, <3>1
  <2>3. CASE age[t] = "near" /\ age' = [age EXCEPT ![t] = "dead"] /\ UNCHANGED ages
    BY <1>0, <2>1, <2>3
  <2> QED
    BY <2>2, <2>3 DEF Age
<1>2. TypeOK'
  BY <1>0, <1>1 DEF IInv, TypeOK, store, lock, refresh, requests, In, Once
<1>3. QueueInv'
  BY <1>0 DEF IInv, QueueInv, Fits, lock, requests
<1>4. TokenInv'
  <2>1. \A u \in Tokens : age'[u] = "unissued" <=> u > latest
    BY <1>1 DEF IInv, TokenInv
  <2>2. ASSUME NEW r \in Requests, NEW u \in Tokens, Active(r), since[r] < u, u <= latest
        PROVE  age'[u] = "fresh"
    <3>1. age[u] = "fresh"
      BY <2>2 DEF IInv, TokenInv
    <3>2. ~(u <= since[r])
      BY <2>2 DEF IInv, TypeOK, Tokens
    <3> QED
      BY <1>1, <2>2, <3>1, <3>2
  <2> QED
    BY <1>0, <2>1, <2>2 DEF IInv, TokenInv, Holder, lock, requests, Active
<1>5. DeniedOnlyWhenOvertaken'
  BY <1>0 DEF IInv, DeniedOnlyWhenOvertaken, requests
<1> QED
  BY <1>2, <1>3, <1>4, <1>5 DEF IInv

LEMMA OtherInstanceKeeps ==
  ASSUME IInv, OtherInstance
  PROVE  IInv'
<1>0. Issue /\ UNCHANGED requests
  BY DEF OtherInstance
<1>1. others' \in 0 .. MaxOthers
  BY AuthAssumption DEF OtherInstance, IInv, TypeOK
<1>2. TypeOK'
  BY <1>0, <1>1, Issues DEF OtherInstance, IInv, TypeOK, lock, refresh, requests, In, Once, Maybe
<1>3. QueueInv'
  BY DEF OtherInstance, IInv, QueueInv, Fits, lock, requests
<1>4. phase' = "answered" => answer' \in 1 .. latest' /\ (Holder' \in Requests => answer' > since'[Holder'])
  BY <1>0, Issues DEF OtherInstance, IInv, TokenInv, TypeOK, Holder, lock, requests
<1> QED
  BY <1>0, <1>2, <1>3, <1>4, Issues, IssueKeepsRequests DEF IInv, TokenInv

(* No new token, and no call begins.                                       *)
LEMMA SameTokens ==
  ASSUME IInv, UNCHANGED <<latest, age, since>>, phase' # "answered",
         \A r \in Requests : Active(r)' => Active(r),
         \A r \in Requests :
           rpc'[r] = "sent" /\ attempt'[r] = 1 => tok'[r] \in since[r] + 1 .. latest
  PROVE  TokenInv'
BY DEF IInv, TokenInv

(* The holder leaves and sends its request with token t.                   *)
LEMMA SendKeeps ==
  ASSUME TypeOK, QueueInv, NEW t \in Tokens, NEW S \in SUBSET Clients, Gone(S),
         Holder \in Requests, In(Holder, queue), S \cap Requests = {Holder}, Send(Holder, t),
         UNCHANGED attempt
  PROVE  /\ rpc' \in [Requests -> {"idle", "waiting", "sent", "refused", "denied"}]
         /\ tok' \in [Requests -> Maybe(Tokens)]
         /\ \A r \in Requests : rpc'[r] \in {"waiting", "refused"} <=> In(r, queue')
         /\ rpc[Holder] \in {"waiting", "refused"} /\ rpc'[Holder] = "sent" /\ tok'[Holder] = t
         /\ \A r \in Requests \ {Holder} : rpc'[r] = rpc[r] /\ tok'[r] = tok[r]
         /\ phase' = "start" => QueueInv'
<1> DEFINE h == Holder
<1>0. /\ rpc \in [Requests -> {"idle", "waiting", "sent", "refused", "denied"}]
      /\ tok \in [Requests -> Maybe(Tokens)]
      /\ \A r \in Requests : rpc[r] \in {"waiting", "refused"} <=> In(r, queue)
      /\ rpc' = [rpc EXCEPT ![h] = "sent"] /\ tok' = [tok EXCEPT ![h] = t]
  BY DEF TypeOK, Send
<1>1. t \in Maybe(Tokens) /\ h \in Requests
  BY DEF Maybe
<1>2. In(h, queue)
  OBVIOUS
<1> HIDE DEF h
<1>3. \A r \in Requests \ {h} : rpc'[r] = rpc[r] /\ tok'[r] = tok[r]
  BY <1>0
<1>4. rpc'[h] = "sent" /\ tok'[h] = t /\ rpc[h] \in {"waiting", "refused"}
  BY <1>0, <1>1, <1>2
<1>5. ASSUME NEW r \in Requests PROVE rpc'[r] \in {"waiting", "refused"} <=> In(r, queue')
  <2>1. In(r, queue') <=> In(r, queue) /\ r \notin S
    BY DEF Gone, Clients
  <2>2. r \in S <=> r = h
    BY DEF h
  <2> QED
    BY <2>1, <2>2, <1>0, <1>3, <1>4
<1>6. phase' = "start" => QueueInv'
  <2>1. \A r \in Requests : r \notin S => rpc'[r] = rpc[r]
    BY <1>3 DEF h
  <2> QED
    BY <2>1, GoneFits
<1> QED
  BY <1>0, <1>1, <1>3, <1>4, <1>5, <1>6 DEF h

LEMMA CallKeeps ==
  ASSUME IInv, NEW r \in Requests, Call(r)
  PROVE  IInv'
<1>0. TypeOK /\ rpc[r] \in {"idle", "denied"} /\ r \in Clients
  BY DEF Call, IInv, Active, Clients
<1>1. ~In(r, queue)
  BY <1>0 DEF TypeOK
<1>2. Joined(r, "get")
  BY <1>0, <1>1, Joins DEF Call
<1>3. /\ rpc' = [rpc EXCEPT ![r] = "waiting"] /\ attempt' = [attempt EXCEPT ![r] = 0]
      /\ since' = [since EXCEPT ![r] = latest]
      /\ UNCHANGED <<server, store, phase, answer, refresh, tok, ages, others, faults, crashes>>
  BY DEF Call
<1>4. TypeOK'
  <2>1. calls' \in 0 .. MaxCalls
    BY <1>0, AuthAssumption DEF Call, TypeOK
  <2>2. In(Timer, queue') <=> In(Timer, queue)
    BY <1>2, AuthAssumption DEF Joined, Clients
  <2>3. \A s \in Requests : rpc'[s] \in {"waiting", "refused"} <=> In(s, queue')
    BY <1>0, <1>2, <1>3 DEF Joined, Clients, TypeOK
  <2> QED
    BY <1>0, <1>2, <1>3, <2>1, <2>2, <2>3 DEF TypeOK, Joined, server, store, refresh
<1>5. QueueInv'
  <2> SUFFICES ASSUME NEW i \in DOMAIN queue' PROVE Fits(queue[i])'
    BY <1>2 DEF QueueInv, Joined
  <2> DEFINE job == queue'[i]
  <2>1. CASE job = [who |-> r, op |-> "get"]
    BY <2>1, <1>0, <1>3 DEF Fits, TypeOK
  <2>2. CASE \E k \in DOMAIN queue : job = queue[k]
    <3>1. Fits(job)
      BY <2>2 DEF IInv, QueueInv
    <3>2. job.who # r
      BY <3>1, <1>0, AuthAssumption DEF Fits
    <3> QED
      BY <3>1, <3>2, <1>3 DEF Fits
  <2> QED
    BY <2>1, <2>2, <1>2 DEF Joined
<1>6. TokenInv'
  <2>1. /\ latest' = latest /\ age' = age /\ phase' = phase /\ answer' = answer /\ tok' = tok
        /\ TokenInv /\ latest \in Nat
    BY <1>0, <1>3 DEF server, IInv, TypeOK
  <2>2. since'[r] = latest /\ rpc'[r] = "waiting" /\ \A s \in Requests \ {r} :
           since'[s] = since[s] /\ rpc'[s] = rpc[s] /\ attempt'[s] = attempt[s]
    BY <1>0, <1>3 DEF TypeOK
  <2>3. phase = "answered" => Holder' = Holder /\ Holder # r
    <3> SUFFICES ASSUME phase = "answered" PROVE Holder' = Holder /\ Holder # r
      OBVIOUS
    <3>1. queue # <<>>
      BY DEF IInv, QueueInv
    <3>2. In(Holder, queue)
      BY <3>1, <1>0, HolderIs DEF IInv
    <3> QED
      BY <3>1, <3>2, <1>1, <1>2 DEF Joined, Holder
  <2>4. \A s \in Requests : since'[s] <= latest
    BY <2>1, <2>2 DEF TokenInv
  <2>5. \A s \in Requests, t \in Tokens :
          Active(s)' /\ since'[s] < t /\ t <= latest => age[t] = "fresh"
    BY <2>1, <2>2 DEF TokenInv, Active, Tokens
  <2>6. \A s \in Requests :
          rpc'[s] = "sent" /\ attempt'[s] = 1 => tok[s] \in since'[s] + 1 .. latest
    BY <2>1, <2>2 DEF TokenInv
  <2>7. phase = "answered" =>
          answer \in 1 .. latest /\ (Holder' \in Requests => answer > since'[Holder'])
    BY <2>1, <2>2, <2>3 DEF TokenInv
  <2> QED
    BY <2>1, <2>4, <2>5, <2>6, <2>7 DEF TokenInv
<1>7. DeniedOnlyWhenOvertaken'
  BY <1>0, <1>3 DEF DeniedOnlyWhenOvertaken, IInv, TypeOK, server
<1> QED
  BY <1>4, <1>5, <1>6, <1>7 DEF IInv

(* The holder of the lock gets its first token.                            *)
LEMMA FirstToken ==
  ASSUME IInv, Holds("get"), phase' = "start", NEW t \in Tokens, Send(Holder, t),
         NEW S \in SUBSET Clients, Gone(S), S \cap Requests = {Holder},
         UNCHANGED <<server, attempt, since>>
  PROVE  /\ rpc' \in [Requests -> {"idle", "waiting", "sent", "refused", "denied"}]
         /\ tok' \in [Requests -> Maybe(Tokens)]
         /\ \A r \in Requests : rpc'[r] \in {"waiting", "refused"} <=> In(r, queue')
         /\ QueueInv' /\ TokenInv' /\ DeniedOnlyWhenOvertaken'
<1>1. queue # <<>> /\ Head(queue).op = "get" /\ TypeOK /\ QueueInv
  BY DEF Holds, IInv
<1>2. In(Holder, queue) /\ Holder \in Requests /\ attempt[Holder] = 0
  BY <1>1, HolderIs DEF Fits, Holder
<1>3. /\ rpc' \in [Requests -> {"idle", "waiting", "sent", "refused", "denied"}]
      /\ tok' \in [Requests -> Maybe(Tokens)]
      /\ \A r \in Requests : rpc'[r] \in {"waiting", "refused"} <=> In(r, queue')
      /\ rpc[Holder] \in {"waiting", "refused"} /\ rpc'[Holder] = "sent" /\ tok'[Holder] = t
      /\ \A r \in Requests \ {Holder} : rpc'[r] = rpc[r] /\ tok'[r] = tok[r]
      /\ QueueInv'
  BY <1>1, <1>2, SendKeeps
<1>4. UNCHANGED <<latest, age, since, attempt>>
  BY DEF server
<1>5. TokenInv'
  <2>1. \A r \in Requests : Active(r)' => Active(r)
    BY <1>3 DEF Active
  <2>2. \A r \in Requests :
          rpc'[r] = "sent" /\ attempt'[r] = 1 => tok'[r] \in since[r] + 1 .. latest
    BY <1>2, <1>3, <1>4 DEF IInv, TokenInv
  <2> QED
    BY <1>4, <2>1, <2>2, SameTokens
<1>6. DeniedOnlyWhenOvertaken'
  BY <1>3, <1>4 DEF IInv, DeniedOnlyWhenOvertaken
<1> QED
  BY <1>3, <1>5, <1>6

LEMMA GetFromMemoryKeeps ==
  ASSUME IInv, GetFromMemory
  PROVE  IInv'
<1>1. TypeOK /\ queue # <<>> /\ Holder \in Requests /\ mem \in Tokens
  <2>1. queue # <<>> /\ Head(queue).op = "get" /\ TypeOK /\ QueueInv /\ mem # NULL
    BY DEF GetFromMemory, Holds, IInv, IsValid
  <2> QED
    BY <2>1, HolderIs DEF Fits, Holder, TypeOK, Maybe
<1>2. Gone({Holder})
  BY <1>1, HolderLeaves DEF GetFromMemory
<1>3. {Holder} \in SUBSET Clients /\ {Holder} \cap Requests = {Holder} /\ Timer # Holder
  BY <1>1, AuthAssumption DEF Clients
<1>4. /\ rpc' \in [Requests -> {"idle", "waiting", "sent", "refused", "denied"}]
      /\ tok' \in [Requests -> Maybe(Tokens)]
      /\ \A r \in Requests : rpc'[r] \in {"waiting", "refused"} <=> In(r, queue')
      /\ QueueInv' /\ TokenInv' /\ DeniedOnlyWhenOvertaken'
  BY <1>1, <1>2, <1>3, FirstToken DEF GetFromMemory
<1>5. In(Timer, queue') <=> In(Timer, queue)
  BY <1>2, <1>3 DEF Gone, Clients
<1>6. TypeOK'
  BY <1>1, <1>2, <1>4, <1>5 DEF GetFromMemory, TypeOK, Gone, server, store, refresh, budget
<1> QED
  BY <1>4, <1>6 DEF IInv

LEMMA GetFromCacheKeeps ==
  ASSUME IInv, GetFromCache
  PROVE  IInv'
<1>1. TypeOK /\ queue # <<>> /\ Holder \in Requests /\ cache \in Tokens
  <2>1. queue # <<>> /\ Head(queue).op = "get" /\ TypeOK /\ QueueInv /\ cache # NULL
    BY DEF GetFromCache, Holds, IInv, IsValid
  <2> QED
    BY <2>1, HolderIs DEF Fits, Holder, TypeOK, Maybe
<1>2. Gone({Holder, Timer}) /\ timer' \in {"off", "armed"} /\ timerTok' = cache
  BY <1>1, TimerLeavesToo DEF GetFromCache, Schedule
<1>3. {Holder, Timer} \in SUBSET Clients /\ {Holder, Timer} \cap Requests = {Holder}
  BY <1>1, AuthAssumption DEF Clients
<1>4. /\ rpc' \in [Requests -> {"idle", "waiting", "sent", "refused", "denied"}]
      /\ tok' \in [Requests -> Maybe(Tokens)]
      /\ \A r \in Requests : rpc'[r] \in {"waiting", "refused"} <=> In(r, queue')
      /\ QueueInv' /\ TokenInv' /\ DeniedOnlyWhenOvertaken'
  BY <1>1, <1>2, <1>3, FirstToken DEF GetFromCache
<1>5. ~In(Timer, queue')
  BY <1>2 DEF Gone, Clients
<1>6. TypeOK'
  BY <1>1, <1>2, <1>4, <1>5 DEF GetFromCache, TypeOK, Gone, server, budget
<1> QED
  BY <1>4, <1>6 DEF IInv

(* The holder asks the token endpoint; nothing moves in the queue.         *)
LEMMA AskingKeeps ==
  ASSUME IInv, queue # <<>>, phase' = "asking", UNCHANGED <<server, queue, answer, refresh, requests>>,
         mem' \in Maybe(Tokens), cache' \in Maybe(Tokens),
         UNCHANGED <<calls, ages, others, crashes>>, faults' \in 0 .. MaxFaults
  PROVE  IInv'
<1>1. TypeOK'
  BY DEF IInv, TypeOK, server, refresh, requests, In, Once
<1>2. QueueInv'
  BY DEF IInv, QueueInv, Fits, requests
<1>3. TokenInv'
  BY DEF IInv, TokenInv, server, requests, Active
<1>4. DeniedOnlyWhenOvertaken'
  BY DEF IInv, DeniedOnlyWhenOvertaken, server, requests
<1> QED
  BY <1>1, <1>2, <1>3, <1>4 DEF IInv

LEMMA GetIssueKeeps ==
  ASSUME IInv, GetIssue \/ Renew
  PROVE  IInv'
BY AskingKeeps DEF GetIssue, Renew, Holds, IInv, TypeOK, store, budget

LEMMA RefreshOn401Keeps ==
  ASSUME IInv, RefreshOn401
  PROVE  IInv'
<1>1. mem' \in Maybe(Tokens) /\ cache' \in Maybe(Tokens)
  BY DEF RefreshOn401, IInv, TypeOK, Maybe
<1>2. UNCHANGED <<calls, ages, others, crashes>> /\ faults' \in 0 .. MaxFaults
  BY AuthAssumption DEF RefreshOn401, Fault, IInv, TypeOK, budget
<1> QED
  BY <1>1, <1>2, AskingKeeps DEF RefreshOn401, Holds

LEMMA TimerFiresKeeps ==
  ASSUME IInv, TimerFires
  PROVE  IInv'
<1>0. TypeOK /\ timer = "armed" /\ Timer \in Clients /\ Timer \notin Requests
  BY AuthAssumption DEF TimerFires, IInv, Clients
<1>1. ~In(Timer, queue)
  BY <1>0 DEF TypeOK
<1>2. Joined(Timer, "renew")
  BY <1>0, <1>1, Joins DEF TimerFires
<1>3. UNCHANGED <<server, store, phase, answer, timerTok, requests, budget>> /\ timer' = "queued"
  BY DEF TimerFires
<1>4. TypeOK'
  <2>1. In(Timer, queue') /\ \A r \in Requests : In(r, queue') <=> In(r, queue)
    BY <1>0, <1>2 DEF Joined, Clients
  <2> QED
    BY <1>0, <1>2, <1>3, <2>1 DEF TypeOK, Joined, server, store, requests, budget
<1>5. QueueInv'
  <2> SUFFICES ASSUME NEW i \in DOMAIN queue' PROVE Fits(queue[i])'
    BY <1>2 DEF QueueInv, Joined
  <2> DEFINE job == queue'[i]
  <2>1. CASE job = [who |-> Timer, op |-> "renew"]
    BY <2>1 DEF Fits
  <2>2. CASE \E k \in DOMAIN queue : job = queue[k]
    BY <2>2, <1>3 DEF IInv, QueueInv, Fits, requests
  <2> QED
    BY <2>1, <2>2, <1>2 DEF Joined
<1>6. TokenInv'
  <2>1. phase = "answered" => Holder' = Holder
    BY <1>2 DEF IInv, QueueInv, Joined, Holder
  <2> QED
    BY <1>3, <2>1 DEF IInv, TokenInv, server, requests, Active
<1>7. DeniedOnlyWhenOvertaken'
  BY <1>3 DEF IInv, DeniedOnlyWhenOvertaken, server, requests
<1> QED
  BY <1>4, <1>5, <1>6, <1>7 DEF IInv

LEMMA TokenIssuedKeeps ==
  ASSUME IInv, TokenIssued
  PROVE  IInv'
<1>0. /\ Issue /\ phase = "asking" /\ answer' = latest' /\ phase' = "answered"
      /\ UNCHANGED <<store, queue, refresh, requests, budget>>
  BY DEF TokenIssued
<1>1. /\ latest' = latest + 1 /\ latest' \in Tokens /\ latest' \in 0 .. MaxTokens
      /\ age' \in [Tokens -> {"unissued", "fresh", "near", "dead"}]
      /\ \A t \in Tokens : age'[t] = "unissued" <=> t > latest'
  BY <1>0, Issues
<1>2. TypeOK'
  BY <1>0, <1>1 DEF IInv, TypeOK, Maybe, store, refresh, requests, budget, In, Once
<1>3. QueueInv'
  BY <1>0 DEF IInv, QueueInv, Fits, requests
<1>4. answer' \in 1 .. latest' /\ (Holder' \in Requests => answer' > since'[Holder'])
  BY <1>0, <1>1 DEF IInv, TypeOK, TokenInv, Tokens, Holder, requests
<1> QED
  BY <1>0, <1>1, <1>2, <1>3, <1>4, IssueKeepsRequests DEF IInv, TokenInv

(* The answer is stored: what that does besides the requests.              *)
LEMMA Stores ==
  ASSUME IInv, TokenStored
  PROVE  /\ answer \in Tokens /\ queue # <<>> /\ TypeOK /\ QueueInv
         /\ phase' = "start" /\ answer' = NULL
         /\ mem' \in Maybe(Tokens) /\ cache' \in Maybe(Tokens)
         /\ calls' = calls /\ ages' = ages /\ others' = others /\ crashes' = crashes
         /\ faults' \in 0 .. MaxFaults
         /\ latest' = latest /\ age' = age /\ attempt' = attempt /\ since' = since
<1>1. answer \in Tokens /\ queue # <<>>
  <2>1. phase = "answered" /\ queue # <<>> /\ answer \in 1 .. latest /\ latest \in 0 .. MaxTokens
    BY DEF TokenStored, IInv, QueueInv, TokenInv, TypeOK
  <2>2. MaxTokens \in Nat
    BY AuthAssumption
  <2> QED
    BY <2>1, <2>2 DEF Tokens
<1>2. cache' \in Maybe(Tokens) /\ faults' \in 0 .. MaxFaults /\ UNCHANGED <<calls, ages, others, crashes>>
  BY <1>1, AuthAssumption DEF TokenStored, SaveCache, Fault, budget, IInv, TypeOK, Maybe
<1> QED
  BY <1>1, <1>2 DEF TokenStored, IInv, Maybe, server

LEMMA TokenStoredKeeps ==
  ASSUME IInv, TokenStored
  PROVE  IInv'
<1>0. /\ answer \in Tokens /\ queue # <<>> /\ TypeOK /\ QueueInv
      /\ phase' = "start" /\ answer' = NULL
      /\ mem' \in Maybe(Tokens) /\ cache' \in Maybe(Tokens)
      /\ calls' = calls /\ ages' = ages /\ others' = others /\ crashes' = crashes
      /\ faults' \in 0 .. MaxFaults
      /\ latest' = latest /\ age' = age /\ attempt' = attempt /\ since' = since
  BY Stores
<1>1. Head(queue) \in Jobs /\ Holder \in Clients /\ In(Holder, queue) /\ Fits(Head(queue))
  BY <1>0, HolderIs
<1>2. Timer \in Clients /\ Timer \notin Requests
  BY AuthAssumption DEF Clients
<1>3. CASE Holds("on401")
  <2>1. /\ Holder \in Requests /\ Holder # Timer /\ queue' = Tail(queue) /\ UNCHANGED refresh
        /\ Send(Holder, answer)
    BY <1>0, <1>1, <1>2, <1>3 DEF TokenStored, Holds, Fits, Holder
  <2>2. Gone({Holder})
    BY <1>0, <2>1, HolderLeaves
  <2>3. {Holder} \in SUBSET Clients /\ {Holder} \cap Requests = {Holder}
    BY <1>1, <2>1
  <2>4. /\ rpc' \in [Requests -> {"idle", "waiting", "sent", "refused", "denied"}]
        /\ tok' \in [Requests -> Maybe(Tokens)]
        /\ \A r \in Requests : rpc'[r] \in {"waiting", "refused"} <=> In(r, queue')
        /\ rpc[Holder] \in {"waiting", "refused"} /\ rpc'[Holder] = "sent" /\ tok'[Holder] = answer
        /\ \A r \in Requests \ {Holder} : rpc'[r] = rpc[r] /\ tok'[r] = tok[r]
        /\ QueueInv'
    BY <1>0, <1>1, <2>1, <2>2, <2>3, SendKeeps
  <2>5. In(Timer, queue') <=> In(Timer, queue)
    BY <1>2, <2>1, <2>2 DEF Gone
  <2>6. TypeOK'
    BY <1>0, <2>1, <2>2, <2>4, <2>5 DEF TypeOK, Gone, refresh, Maybe
  <2>7. TokenInv'
    <3>1. answer \in since[Holder] + 1 .. latest
      BY <1>0, <2>1 DEF IInv, TokenInv, TypeOK, TokenStored
    <3>2. \A r \in Requests : Active(r)' => Active(r)
      BY <2>4 DEF Active
    <3>3. \A r \in Requests :
            rpc'[r] = "sent" /\ attempt'[r] = 1 => tok'[r] \in since[r] + 1 .. latest
      BY <1>0, <2>4, <3>1 DEF IInv, TokenInv
    <3> QED
      BY <1>0, <3>2, <3>3, SameTokens
  <2>8. DeniedOnlyWhenOvertaken'
    BY <1>0, <2>4 DEF IInv, DeniedOnlyWhenOvertaken
  <2> QED
    BY <2>4, <2>6, <2>7, <2>8 DEF IInv
<1>4. CASE ~Holds("on401")
  <2>1. Gone({Holder, Timer}) /\ timer' \in {"off", "armed"} /\ timerTok' = answer
    BY <1>0, <1>4, TimerLeavesToo DEF TokenStored, Schedule
  <2>2. ~In(Timer, queue') /\ queue' \in Seq(Jobs) /\ Once(queue')
    BY <1>2, <2>1 DEF Gone
  <2>3. CASE Holder = Timer
    <3>1. UNCHANGED <<rpc, tok>>
      BY <2>3 DEF TokenStored
    <3>2. \A r \in Requests : In(r, queue') <=> In(r, queue)
      BY <1>2, <2>1, <2>3 DEF Gone, Clients
    <3>3. TypeOK'
      BY <1>0, <2>1, <2>2, <3>1, <3>2 DEF TypeOK, Maybe
    <3>4. QueueInv'
      <4>1. {Holder, Timer} \in SUBSET Clients
        BY <1>1, <1>2
      <4> QED
        BY <1>0, <2>1, <3>1, <4>1, GoneFits
    <3>5. TokenInv'
      <4>1. \A r \in Requests : Active(r)' => Active(r)
        BY <3>1 DEF Active
      <4>2. \A r \in Requests :
              rpc'[r] = "sent" /\ attempt'[r] = 1 => tok'[r] \in since[r] + 1 .. latest
        BY <1>0, <3>1 DEF IInv, TokenInv
      <4> QED
        BY <1>0, <4>1, <4>2, SameTokens
    <3>6. DeniedOnlyWhenOvertaken'
      BY <1>0, <3>1 DEF IInv, DeniedOnlyWhenOvertaken
    <3> QED
      BY <3>3, <3>4, <3>5, <3>6 DEF IInv
  <2>4. CASE Holder # Timer
    <3>1. Holds("get") /\ Holder \in Requests /\ Send(Holder, answer)
      BY <1>0, <1>1, <1>4, <2>4 DEF TokenStored, Holds, Fits, Holder
    <3>2. {Holder, Timer} \in SUBSET Clients /\ {Holder, Timer} \cap Requests = {Holder}
      BY <1>1, <1>2, <3>1
    <3>3. UNCHANGED <<server, attempt, since>>
      BY <1>0 DEF server
    <3>4. /\ rpc' \in [Requests -> {"idle", "waiting", "sent", "refused", "denied"}]
          /\ tok' \in [Requests -> Maybe(Tokens)]
          /\ \A r \in Requests : rpc'[r] \in {"waiting", "refused"} <=> In(r, queue')
          /\ QueueInv' /\ TokenInv' /\ DeniedOnlyWhenOvertaken'
      BY <1>0, <2>1, <3>1, <3>2, <3>3, FirstToken
    <3>5. TypeOK'
      BY <1>0, <2>1, <2>2, <3>4 DEF TypeOK, Maybe
    <3> QED
      BY <3>4, <3>5 DEF IInv
  <2> QED
    BY <2>3, <2>4
<1> QED
  BY <1>3, <1>4

LEMMA IssueFailedKeeps ==
  ASSUME IInv, IssueFailed
  PROVE  IInv'
<1>0. /\ phase' = "start" /\ answer' = NULL /\ queue' = Tail(queue) /\ queue # <<>> /\ TypeOK /\ QueueInv
      /\ UNCHANGED <<server, store, timerTok, tok, attempt, since>>
  BY DEF IssueFailed, IInv, QueueInv, refresh, requests
<1>1. Holder \in Clients /\ In(Holder, queue)
  BY <1>0, HolderIs
<1>2. Timer \in Clients /\ Timer \notin Requests
  BY AuthAssumption DEF Clients
<1>3. faults' \in 0 .. MaxFaults /\ UNCHANGED <<calls, ages, others, crashes>>
  BY AuthAssumption DEF IssueFailed, Fault, IInv, TypeOK
<1>4. Gone({Holder})
  BY <1>0, HolderLeaves
<1>5. /\ rpc' \in [Requests -> {"idle", "waiting", "sent", "refused", "denied"}]
      /\ \A r \in Requests : rpc'[r] = IF r = Holder THEN "idle" ELSE rpc[r]
      /\ timer' = IF Holder = Timer THEN "off" ELSE timer
  <2>1. CASE Holder = Timer
    BY <1>0, <1>2, <2>1 DEF IssueFailed, TypeOK, requests
  <2>2. CASE Holder # Timer
    <3>1. rpc' = [rpc EXCEPT ![Holder] = "idle"] /\ timer' = timer
      BY <2>2 DEF IssueFailed, refresh
    <3>2. rpc \in [Requests -> {"idle", "waiting", "sent", "refused", "denied"}] /\ Holder \in Requests
      BY <1>0, <1>1, <2>2 DEF TypeOK, Clients
    <3> HIDE DEF Holder
    <3> QED
      BY <2>2, <3>1, <3>2
  <2> QED
    BY <2>1, <2>2
<1>6. TypeOK'
  <2>1. In(Timer, queue') <=> timer' = "queued"
    BY <1>0, <1>1, <1>2, <1>4, <1>5 DEF Gone, TypeOK
  <2>2. \A r \in Requests : rpc'[r] \in {"waiting", "refused"} <=> In(r, queue')
    BY <1>0, <1>1, <1>4, <1>5 DEF Gone, TypeOK, Clients
  <2>3. timer' \in {"off", "armed", "queued"}
    BY <1>0, <1>5 DEF TypeOK
  <2> QED
    BY <1>0, <1>3, <1>4, <1>5, <2>1, <2>2, <2>3 DEF TypeOK, Gone, Maybe, server, store
<1>7. QueueInv'
  <2>1. {Holder} \in SUBSET Clients /\ \A r \in Requests : r \notin {Holder} => rpc'[r] = rpc[r]
    BY <1>1, <1>5
  <2> QED
    BY <1>0, <1>4, <2>1, GoneFits
<1>8. TokenInv'
  <2>1. \A r \in Requests : Active(r)' => Active(r)
    BY <1>5 DEF Active
  <2>2. \A r \in Requests :
          rpc'[r] = "sent" /\ attempt'[r] = 1 => tok'[r] \in since[r] + 1 .. latest
    BY <1>0, <1>5 DEF IInv, TokenInv
  <2> QED
    BY <1>0, <2>1, <2>2, SameTokens DEF server
<1>9. DeniedOnlyWhenOvertaken'
  BY <1>0, <1>5 DEF IInv, DeniedOnlyWhenOvertaken, server
<1> QED
  BY <1>6, <1>7, <1>8, <1>9 DEF IInv

(* A request is answered; it leaves the state of the lock alone but for    *)
(* the first 401.                                                          *)
LEMMA ServeKeeps ==
  ASSUME IInv, NEW r \in Requests, Serve(r)
  PROVE  IInv'
<1>0. /\ TypeOK /\ QueueInv /\ TokenInv /\ rpc[r] = "sent" /\ r \in Clients /\ Timer \in Clients /\ Timer # r
      /\ UNCHANGED <<server, store, phase, answer, refresh, tok, since>>
  BY AuthAssumption DEF Serve, IInv, Clients
<1>1. ~In(r, queue)
  BY <1>0 DEF TypeOK
<1>2. ASSUME NEW how \in {"idle", "denied"}, rpc' = [rpc EXCEPT ![r] = how],
             UNCHANGED <<queue, attempt, calls, ages, others, crashes>>, faults' \in 0 .. MaxFaults,
             how = "denied" => latest >= since[r] + 2
      PROVE  IInv'
  <2>1. rpc'[r] = how /\ \A s \in Requests \ {r} : rpc'[s] = rpc[s]
    BY <1>0, <1>2 DEF TypeOK
  <2>2. rpc' \in [Requests -> {"idle", "waiting", "sent", "refused", "denied"}]
    BY <1>0, <1>2 DEF TypeOK
  <2>3. \A s \in Requests : rpc'[s] \in {"waiting", "refused"} <=> In(s, queue)
    BY <1>0, <1>1, <2>1 DEF TypeOK
  <2>4. TypeOK'
    BY <1>0, <1>2, <2>2, <2>3 DEF TypeOK, server, store, refresh
  <2>5. QueueInv'
    <3> SUFFICES ASSUME NEW i \in DOMAIN queue PROVE Fits(queue[i])'
      BY <1>0, <1>2 DEF QueueInv
    <3>1. Fits(queue[i])
      BY <1>0 DEF QueueInv
    <3>2. queue[i].who # r
      BY <1>1 DEF In
    <3> QED
      BY <1>2, <2>1, <3>1, <3>2 DEF Fits
  <2>6. TokenInv'
    BY <1>0, <1>2, <2>1 DEF TokenInv, server, Active, Holder
  <2>7. DeniedOnlyWhenOvertaken'
    BY <1>0, <1>2, <2>1 DEF IInv, DeniedOnlyWhenOvertaken, server
  <2> QED
    BY <2>4, <2>5, <2>6, <2>7 DEF IInv
<1>3. faults \in 0 .. MaxFaults /\ (Fault => faults' \in 0 .. MaxFaults)
  BY <1>0, AuthAssumption DEF TypeOK, Fault
<1>4. CASE Accepts(tok[r]) /\ rpc' = [rpc EXCEPT ![r] = "idle"] /\ UNCHANGED <<queue, attempt, budget>>
  BY <1>2, <1>3, <1>4 DEF budget
<1>5. CASE /\ ~Accepts(tok[r]) /\ attempt[r] = 0
           /\ rpc' = [rpc EXCEPT ![r] = "refused"] /\ queue' = Enter(r, "on401")
           /\ attempt' = [attempt EXCEPT ![r] = 1]
           /\ UNCHANGED budget
  <2>1. Joined(r, "on401")
    BY <1>0, <1>1, <1>5, Joins
  <2>2. /\ rpc'[r] = "refused" /\ attempt'[r] = 1
        /\ \A s \in Requests \ {r} : rpc'[s] = rpc[s] /\ attempt'[s] = attempt[s]
    BY <1>0, <1>5 DEF TypeOK
  <2>3. TypeOK'
    <3>1. /\ rpc' \in [Requests -> {"idle", "waiting", "sent", "refused", "denied"}]
          /\ attempt' \in [Requests -> {0, 1}]
      BY <1>0, <1>5 DEF TypeOK
    <3>2. In(Timer, queue') <=> In(Timer, queue)
      BY <1>0, <2>1 DEF Joined
    <3>3. \A s \in Requests : rpc'[s] \in {"waiting", "refused"} <=> In(s, queue')
      BY <1>0, <2>1, <2>2 DEF Joined, Clients, TypeOK
    <3> QED
      BY <1>0, <1>5, <2>1, <3>1, <3>2, <3>3 DEF TypeOK, Joined, server, store, refresh, budget
  <2>4. QueueInv'
    <3> SUFFICES ASSUME NEW i \in DOMAIN queue' PROVE Fits(queue[i])'
      BY <2>1 DEF QueueInv, Joined
    <3> DEFINE job == queue'[i]
    <3>1. CASE job = [who |-> r, op |-> "on401"]
      BY <3>1, <2>2 DEF Fits
    <3>2. CASE \E k \in DOMAIN queue : job = queue[k]
      <4>1. Fits(job) /\ job.who # r
        BY <3>2, <1>0, <1>1 DEF QueueInv, In
      <4> QED
        BY <4>1, <2>2 DEF Fits
    <3> QED
      BY <3>1, <3>2, <2>1 DEF Joined
  <2>5. TokenInv'
    <3>1. phase = "answered" => Holder' = Holder
      BY <1>0, <2>1 DEF QueueInv, Joined, Holder
    <3> QED
      BY <1>0, <2>2, <3>1 DEF TokenInv, server, Active
  <2>6. DeniedOnlyWhenOvertaken'
    BY <1>0, <2>2 DEF IInv, DeniedOnlyWhenOvertaken, server
  <2> QED
    BY <2>3, <2>4, <2>5, <2>6 DEF IInv
<1>6. CASE /\ ~Accepts(tok[r]) /\ attempt[r] = 1
           /\ rpc' = [rpc EXCEPT ![r] = "denied"] /\ UNCHANGED <<queue, attempt, budget>>
  <2>1. latest \in 0 .. MaxTokens /\ MaxTokens \in Nat /\ since[r] \in Nat
    BY <1>0, AuthAssumption DEF TypeOK
  <2>2. tok[r] \in since[r] + 1 .. latest
    BY <1>0, <1>6 DEF TokenInv
  <2>3. tok[r] \in Tokens /\ Active(r)
    BY <1>0, <2>1, <2>2 DEF Tokens, Active
  <2>4. age[tok[r]] = "fresh"
    BY <1>0, <2>1, <2>2, <2>3 DEF TokenInv
  <2>5. tok[r] # latest
    BY <1>6, <2>4 DEF Accepts
  <2>6. latest >= since[r] + 2
    BY <2>1, <2>2, <2>5
  <2> QED
    BY <1>2, <1>3, <1>6, <2>6 DEF budget
<1>7. CASE Fault /\ rpc' = [rpc EXCEPT ![r] = "idle"] /\ UNCHANGED <<queue, attempt>>
  BY <1>2, <1>3, <1>7 DEF Fault
<1> QED
  BY <1>4, <1>5, <1>6, <1>7 DEF Serve

LEMMA RestartKeeps ==
  ASSUME IInv, Restart
  PROVE  IInv'
<1>0. /\ TypeOK /\ queue' = <<>> /\ mem' = NULL /\ phase' = "start" /\ answer' = NULL
      /\ timer' = "off" /\ timerTok' = NULL /\ rpc' = [r \in Requests |-> "idle"]
      /\ UNCHANGED <<server, cache, tok, attempt, since, calls, ages, others, faults>>
  BY DEF Restart, IInv
<1>1. queue' \in Seq(Jobs) /\ DOMAIN queue' = {}
  BY <1>0, EmptySeq, LenProperties
<1>2. crashes' \in 0 .. MaxCrashes
  BY <1>0, AuthAssumption DEF Restart, TypeOK
<1>3. TypeOK'
  BY <1>0, <1>1, <1>2 DEF TypeOK, Once, In, Maybe, server
<1>4. QueueInv'
  BY <1>0, <1>1 DEF QueueInv
<1>5. TokenInv'
  BY <1>0 DEF IInv, TokenInv, Active, server
<1>6. DeniedOnlyWhenOvertaken'
  BY <1>0 DEF DeniedOnlyWhenOvertaken
<1> QED
  BY <1>3, <1>4, <1>5, <1>6 DEF IInv

LEMMA NextKeeps == IInv /\ [Next]_vars => IInv'
<1> SUFFICES ASSUME IInv, [Next]_vars PROVE IInv'
  OBVIOUS
<1>1. CASE LockStep
  BY <1>1, GetFromMemoryKeeps, GetFromCacheKeeps, GetIssueKeeps, RefreshOn401Keeps,
     TokenIssuedKeeps, TokenStoredKeeps, IssueFailedKeeps DEF LockStep
<1>2. CASE UNCHANGED vars
  BY <1>2 DEF vars, server, store, lock, refresh, requests, budget, IInv, TypeOK, QueueInv,
     TokenInv, DeniedOnlyWhenOvertaken, Fits, Active, Holder, Once, In
<1>3. CASE Next /\ ~LockStep
  BY <1>3, AgeKeeps, OtherInstanceKeeps, CallKeeps, ServeKeeps, TimerFiresKeeps, RestartKeeps DEF Next
<1> QED
  BY <1>1, <1>2, <1>3

(* IInv of TossAuth is an invariant.                                       *)
THEOREM AuthInvariance == Spec => []IInv
  BY InitKeeps, NextKeeps, PTL DEF Spec

(* Types, and a sound queue of the lock: everyone waits once, and a        *)
(* refresh task that was cancelled while it waited does not come back.     *)
THEOREM QueueIsSound == Spec => []TypeOK
<1>1. IInv => TypeOK
  BY DEF IInv
<1> QED
  BY <1>1, AuthInvariance, PTL

(* A 401 fails a request for good only when a token was issued to somebody *)
(* else while the request was under way.                                   *)
THEOREM DeniedOnlyThen == Spec => []DeniedOnlyWhenOvertaken
<1>1. IInv => DeniedOnlyWhenOvertaken
  BY DEF IInv
<1> QED
  BY <1>1, AuthInvariance, PTL

LEMMA NextAgrees == IInv /\ AgreeInv /\ [Next]_vars => AgreeInv'
<1> SUFFICES ASSUME IInv, AgreeInv, [Next]_vars, Undisturbed'
             PROVE  /\ phase' = "start" => mem' = cache' /\ mem' = IF latest' = 0 THEN NULL ELSE latest'
                    /\ phase' = "answered" => answer' = latest'
  BY DEF AgreeInv
<1>0. /\ faults \in Nat /\ crashes \in Nat /\ others \in Nat /\ NULL \notin Tokens
      /\ faults' = 0 /\ crashes' = 0 /\ others' = 0
  BY AuthAssumption DEF IInv, TypeOK, Undisturbed
<1>1. ~Fault /\ crashes' # crashes + 1 /\ others' # others + 1
  BY <1>0 DEF Fault
<1>2. ~Restart /\ ~OtherInstance /\ ~IssueFailed
  BY <1>1 DEF Restart, OtherInstance, IssueFailed
<1> USE DEF AgreeInv, Undisturbed, server, store, lock, requests, refresh, budget
<1>3. CASE GetFromMemory
  BY <1>0, <1>3 DEF GetFromMemory
<1>4. CASE GetFromCache
  BY <1>0, <1>4 DEF GetFromCache
<1>5. CASE GetIssue \/ Renew
  BY <1>0, <1>5 DEF GetIssue, Renew
<1>6. CASE RefreshOn401
  BY <1>0, <1>6 DEF RefreshOn401
<1>7. CASE TokenIssued
  BY <1>0, <1>7 DEF TokenIssued
<1>8. CASE TokenStored
  <2>1. Undisturbed /\ phase = "answered" /\ answer = latest /\ phase' = "start" /\ latest' = latest /\ mem' = latest
    BY <1>0, <1>1, <1>8 DEF TokenStored, SaveCache
  <2>2. cache' = answer
    BY <1>1, <1>8 DEF TokenStored, SaveCache
  <2>3. latest # 0
    BY <1>8, <2>1 DEF IInv, TokenInv
  <2> QED
    BY <2>1, <2>2, <2>3
<1>9. ASSUME NEW r \in Requests, Call(r) \/ Serve(r)
      PROVE  UNCHANGED <<server, store, phase, answer, faults, crashes, others>>
  BY <1>1, <1>9 DEF Call, Serve
<1>10. CASE TimerFires
  BY <1>0, <1>10 DEF TimerFires
<1>11. ASSUME NEW t \in Tokens, Age(t) PROVE UNCHANGED <<latest, store, phase, answer, faults, crashes, others>>
  BY <1>11 DEF Age
<1>12. CASE UNCHANGED vars
  BY <1>0, <1>12 DEF vars
<1> QED
  BY <1>0, <1>2, <1>3, <1>4, <1>5, <1>6, <1>7, <1>8, <1>9, <1>10, <1>11, <1>12 DEF Next, LockStep

(* While no call is under way, memory and cache hold the token the server  *)
(* accepts, unless something the code cannot help came between.            *)
THEOREM OneTokenForAll == Spec => []OneValidToken
<1>1. Init => AgreeInv
  BY DEF Init, AgreeInv
<1>2. IInv /\ AgreeInv => OneValidToken
  <2> SUFFICES ASSUME IInv, AgreeInv, queue = <<>>, mem # NULL, faults + crashes + others = 0
               PROVE  mem = latest /\ cache = latest
    BY DEF OneValidToken
  <2>1. Undisturbed
    BY AuthAssumption DEF IInv, TypeOK, Undisturbed
  <2>2. phase = "start"
    BY DEF IInv, QueueInv
  <2> QED
    BY <2>1, <2>2 DEF AgreeInv
<1> QED
  BY <1>1, <1>2, NextAgrees, AuthInvariance, PTL DEF Spec

=============================================================================
