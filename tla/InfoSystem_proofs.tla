------------------------- MODULE InfoSystem_proofs -------------------------
(***************************************************************************)
(* The safety of the information system, for every number of items,        *)
(* entries, rates, days, faults and restarts.  Messages, items and entries *)
(* are counted: on a list (Copies) and over all jobs (ToDo).               *)
(*   Copies...      how the count changes when a list is put together      *)
(*   Moving         how ToDo changes when one job's list does              *)
(*   Doing          what Do(j, next) changes, in numbers                   *)
(*   ...Keeps       one lemma per action: the step keeps IInv              *)
(***************************************************************************)
EXTENDS InfoSystem, SequenceTheorems, FiniteSetTheorems, TLAPS

(***************************************************************************)
(* Counting on a list                                                      *)
(***************************************************************************)

LEMMA CopiesFinite ==
  ASSUME NEW S, NEW s \in Seq(S), NEW w
  PROVE  IsFiniteSet({i \in DOMAIN s : s[i] = w}) /\ Copies(s, w) \in Nat
<1>1. Len(s) \in Nat /\ DOMAIN s = 1 .. Len(s)
  BY LenProperties
<1>2. IsFiniteSet(1 .. Len(s))
  BY <1>1, FS_Interval
<1>3. IsFiniteSet({i \in DOMAIN s : s[i] = w})
  BY <1>1, <1>2, FS_Subset
<1> QED
  BY <1>3, FS_CardinalityType DEF Copies

LEMMA CopiesOfNone ==
  ASSUME NEW w
  PROVE  Copies(<<>>, w) = 0
<1>1. {i \in DOMAIN <<>> : <<>>[i] = w} = {}
  OBVIOUS
<1> QED
  BY <1>1, FS_EmptySet DEF Copies

LEMMA CopiesOfOne ==
  ASSUME NEW x, NEW w
  PROVE  Copies(<<x>>, w) = IF x = w THEN 1 ELSE 0
<1>1. CASE x = w
  <2>1. {i \in DOMAIN <<x>> : <<x>>[i] = w} = {1}
    BY <1>1
  <2> QED
    BY <1>1, <2>1, FS_Singleton DEF Copies
<1>2. CASE x # w
  <2>1. {i \in DOMAIN <<x>> : <<x>>[i] = w} = {}
    BY <1>2
  <2> QED
    BY <1>2, <2>1, FS_EmptySet DEF Copies
<1> QED
  BY <1>1, <1>2

(* None at all where none is meant.                                        *)
LEMMA CopiesOfOthers ==
  ASSUME NEW S, NEW s \in Seq(S), NEW w, \A i \in 1 .. Len(s) : s[i] # w
  PROVE  Copies(s, w) = 0
<1>1. {i \in DOMAIN s : s[i] = w} = {}
  BY LenProperties
<1> QED
  BY <1>1, FS_EmptySet DEF Copies

LEMMA CopiesOfConcat ==
  ASSUME NEW S, NEW a \in Seq(S), NEW b \in Seq(S), NEW w
  PROVE  Copies(a \o b, w) = Copies(a, w) + Copies(b, w)
<1> DEFINE A == {i \in DOMAIN a : a[i] = w}
           B == {i \in DOMAIN b : b[i] = w}
           C == {i \in DOMAIN (a \o b) : (a \o b)[i] = w}
           Moved2 == C \ A
           shift == [i \in B |-> Len(a) + i]
<1>1. /\ Len(a) \in Nat /\ DOMAIN a = 1 .. Len(a) /\ Len(b) \in Nat /\ DOMAIN b = 1 .. Len(b)
      /\ Len(a \o b) = Len(a) + Len(b) /\ DOMAIN (a \o b) = 1 .. Len(a) + Len(b)
  BY LenProperties, ConcatProperties
<1>2. \A i \in 1 .. Len(a) + Len(b) : (a \o b)[i] = IF i <= Len(a) THEN a[i] ELSE b[i - Len(a)]
  BY ConcatProperties
<1>3. IsFiniteSet(A) /\ IsFiniteSet(B)
  BY CopiesFinite
<1>4. A \subseteq C
  BY <1>1, <1>2
<1>5. \A i \in Moved2 : i - Len(a) \in B /\ i = Len(a) + (i - Len(a))
  BY <1>1, <1>2
<1>6. \A i \in B : Len(a) + i \in Moved2
  BY <1>1, <1>2
<1>7. shift \in Bijection(B, Moved2)
  <2>1. shift \in [B -> Moved2]
    BY <1>6
  <2>2. \A i \in Moved2 : \E k \in B : shift[k] = i
    BY <1>5
  <2>3. \A i, k \in B : shift[i] = shift[k] => i = k
    BY <1>1
  <2> QED
    BY <2>1, <2>2, <2>3 DEF Bijection, Injection, Surjection, IsInjective
<1>8. IsFiniteSet(Moved2) /\ Cardinality(Moved2) = Cardinality(B)
  BY <1>3, <1>7, FS_Bijection DEF ExistsBijection
<1>9. C = A \cup Moved2 /\ A \cap Moved2 = {}
  BY <1>4
<1> HIDE DEF A, B, C, Moved2, shift
<1>10. Cardinality(A \cap Moved2) = 0
  BY <1>9, FS_EmptySet
<1>11. Cardinality(C) = Cardinality(A) + Cardinality(B) - 0
  BY <1>3, <1>8, <1>9, <1>10, FS_Union
<1>12. Copies(a, w) = Cardinality(A) /\ Copies(b, w) = Cardinality(B) /\ Copies(a \o b, w) = Cardinality(C)
  BY DEF Copies, A, B, C
<1>13. Copies(a, w) \in Nat /\ Copies(b, w) \in Nat
  BY CopiesFinite
<1> QED
  BY <1>11, <1>12, <1>13

LEMMA CopiesOfTail ==
  ASSUME NEW S, NEW s \in Seq(S), s # <<>>, NEW w
  PROVE  /\ Tail(s) \in Seq(S) /\ s[1] \in S
         /\ Copies(s, w) = Copies(Tail(s), w) + (IF s[1] = w THEN 1 ELSE 0)
<1>1. Len(s) \in Nat /\ Len(s) >= 1
  BY EmptySeq
<1>2. s[1] \in S /\ Tail(s) \in Seq(S) /\ Tail(s) = SubSeq(s, 2, Len(s))
  BY <1>1, ElementOfSeq, HeadTailProperties, TailIsSubSeq
<1>3. s = <<s[1]>> \o Tail(s)
  <2>1. SubSeq(s, 1, Len(s)) = <<s[1]>> \o SubSeq(s, 1 + 1, Len(s))
    BY <1>1, SubSeqRecursiveFirst
  <2> QED
    BY <1>2, <2>1, SubSeqFull
<1>4. <<s[1]>> \in Seq(S)
  BY <1>2
<1>5. Copies(<<s[1]>> \o Tail(s), w) = Copies(<<s[1]>>, w) + Copies(Tail(s), w)
  BY <1>2, <1>4, CopiesOfConcat, ZenonT(60)
<1>6. Copies(<<s[1]>>, w) = IF s[1] = w THEN 1 ELSE 0
  BY CopiesOfOne
<1>7. Copies(Tail(s), w) \in Nat
  BY <1>2, CopiesFinite
<1>8. Copies(s, w) = Copies(<<s[1]>> \o Tail(s), w)
  BY <1>3
<1> QED
  BY <1>2, <1>5, <1>6, <1>7, <1>8

LEMMA CopiesOfAppend ==
  ASSUME NEW S, NEW s \in Seq(S), NEW x \in S, NEW w
  PROVE  /\ Append(s, x) \in Seq(S) /\ Len(Append(s, x)) = Len(s) + 1
         /\ Copies(Append(s, x), w) = Copies(s, w) + (IF x = w THEN 1 ELSE 0)
<1>1. <<x>> \in Seq(S) /\ Append(s, x) = s \o <<x>>
  BY AppendIsConcat
<1>2. Copies(s \o <<x>>, w) = Copies(s, w) + Copies(<<x>>, w)
  BY <1>1, CopiesOfConcat
<1> QED
  BY <1>1, <1>2, CopiesOfOne, AppendProperties

LEMMA CopiesOfLater ==
  ASSUME NEW S, NEW s \in Seq(S), NEW x \in S, NEW w
  PROVE  /\ Later(s, x) \in Seq(S)
         /\ \A i \in DOMAIN Later(s, x) :
              Later(s, x)[i] = x \/ \E k \in DOMAIN s : Later(s, x)[i] = s[k]
         /\ Copies(Later(s, x), w) = Copies(s, w) + (IF x = w THEN 1 ELSE 0)
<1> DEFINE P == {i \in DOMAIN s : s[i][1] # "brief"}
           n == Cardinality(P)
           a == SubSeq(s, 1, n)
           b == SubSeq(s, n + 1, Len(s))
<1>1. Len(s) \in Nat /\ DOMAIN s = 1 .. Len(s) /\ \A i \in 1 .. Len(s) : s[i] \in S
  BY LenProperties, ElementOfSeq
<1>2. n \in 0 .. Len(s)
  <2>1. IsFiniteSet(1 .. Len(s)) /\ Cardinality(1 .. Len(s)) = IF 1 > Len(s) THEN 0 ELSE Len(s) - 1 + 1
    BY <1>1, FS_Interval
  <2>2. Cardinality(1 .. Len(s)) = Len(s)
    BY <1>1, <2>1
  <2>3. P \subseteq 1 .. Len(s)
    BY <1>1
  <2>4. IsFiniteSet(P) /\ n <= Len(s)
    BY <2>1, <2>2, <2>3, FS_Subset
  <2>5. n \in Nat
    BY <2>4, FS_CardinalityType
  <2> QED
    BY <1>1, <2>4, <2>5
<1>3. Later(s, x) = (a \o <<x>>) \o b
  <2>1. (n + 1) - 1 = n
    BY <1>2
  <2>2. Later(s, x) = InsertAt(s, n + 1, x)
    BY DEF Later
  <2> HIDE DEF n
  <2>3. InsertAt(s, n + 1, x) = (SubSeq(s, 1, (n + 1) - 1) \o <<x>>) \o SubSeq(s, n + 1, Len(s))
    BY DEF InsertAt
  <2> QED
    BY <2>1, <2>2, <2>3
<1> HIDE DEF n
<1>4. a \in Seq(S) /\ b \in Seq(S) /\ <<x>> \in Seq(S)
  <2>1. n \in Int /\ n + 1 \in Int /\ Len(s) \in Int /\ 1 \in Int
    BY <1>1, <1>2
  <2>2. \A i \in 1 .. n : s[i] \in S
    BY <1>1, <1>2
  <2>3. \A i \in n + 1 .. Len(s) : s[i] \in S
    BY <1>1, <1>2
  <2>4. a \in Seq(S)
    BY <2>1, <2>2, SubSeqProperties
  <2>5. b \in Seq(S)
    BY <2>1, <2>3, SubSeqProperties
  <2> QED
    BY <2>4, <2>5
<1>5. s = a \o b
  <2>1. 1 \in 1 .. Len(s) + 1 /\ n \in 1 - 1 .. Len(s) /\ Len(s) \in n .. Len(s)
    BY <1>1, <1>2
  <2>2. SubSeq(s, 1, n) \o SubSeq(s, n + 1, Len(s)) = SubSeq(s, 1, Len(s))
    BY <2>1, ConcatAdjacentSubSeq
  <2> QED
    BY <2>2, SubSeqFull
<1> HIDE DEF a, b
<1>6. a \o <<x>> \in Seq(S) /\ (a \o <<x>>) \o b \in Seq(S)
  BY <1>4, ConcatProperties
<1>7. Copies(s, w) = Copies(a, w) + Copies(b, w)
  BY <1>4, <1>5, CopiesOfConcat
<1>8. Copies((a \o <<x>>) \o b, w) = Copies(a \o <<x>>, w) + Copies(b, w)
  BY <1>4, <1>6, CopiesOfConcat
<1>9. Copies(a \o <<x>>, w) = Copies(a, w) + Copies(<<x>>, w)
  BY <1>4, CopiesOfConcat
<1>10. Copies(<<x>>, w) = IF x = w THEN 1 ELSE 0
  BY CopiesOfOne
<1>11. Copies(a, w) \in Nat /\ Copies(b, w) \in Nat
  BY <1>4, CopiesFinite
<1>12. ASSUME NEW i \in DOMAIN Later(s, x)
       PROVE  Later(s, x)[i] = x \/ \E k \in DOMAIN s : Later(s, x)[i] = s[k]
  <2>a. Range(a \o <<x>>) = Range(a) \cup Range(<<x>>)
    BY <1>4, RangeConcatenation, ZenonT(60)
  <2>b. Range((a \o <<x>>) \o b) = Range(a \o <<x>>) \cup Range(b)
    BY <1>4, <1>6, RangeConcatenation, ZenonT(60)
  <2>1. Range(Later(s, x)) = (Range(a) \cup Range(<<x>>)) \cup Range(b)
    BY <1>3, <2>a, <2>b
  <2>2. Range(s) = Range(a) \cup Range(b)
    BY <1>4, <1>5, RangeConcatenation
  <2>3. Range(<<x>>) = {x}
    BY DEF Range
  <2>4. Later(s, x)[i] \in Range(Later(s, x))
    BY DEF Range
  <2>5. Later(s, x)[i] = x \/ Later(s, x)[i] \in Range(s)
    BY <2>1, <2>2, <2>3, <2>4
  <2> QED
    BY <2>5 DEF Range
<1> QED
  BY <1>3, <1>6, <1>7, <1>8, <1>9, <1>10, <1>11, <1>12

(***************************************************************************)
(* Counting over all jobs                                                  *)
(***************************************************************************)

LEMMA JobsFinite == IsFiniteSet(Jobs)
<1>1. /\ IsFiniteSet({"monthly"}) /\ IsFiniteSet({"brief"}) /\ IsFiniteSet({"earnings"})
      /\ IsFiniteSet({"report"}) /\ IsFiniteSet({"rss"}) /\ IsFiniteSet({"fx"})
      /\ IsFiniteSet({"usnews"}) /\ IsFiniteSet({"notice"}) /\ IsFiniteSet({"dlq"})
  BY FS_Singleton
<1>2. IsFiniteSet({"monthly"} \union {"brief"}) /\ IsFiniteSet({"earnings"} \union {"report"})
  BY <1>1, FS_Union
<1>3. IsFiniteSet(({"monthly"} \union {"brief"}) \union ({"earnings"} \union {"report"}))
  BY <1>2, FS_Union
<1>4. IsFiniteSet({"rss"} \union {"fx"}) /\ IsFiniteSet({"notice"} \union {"dlq"})
  BY <1>1, FS_Union
<1>5. IsFiniteSet(({"rss"} \union {"fx"}) \union {"usnews"})
  BY <1>1, <1>4, FS_Union
<1>6. IsFiniteSet(Cron) /\ IsFiniteSet(Interval)
  <2>1. /\ Cron = ({"monthly"} \union {"brief"}) \union ({"earnings"} \union {"report"})
        /\ Interval = ({"rss"} \union {"fx"}) \union {"usnews"}
    BY DEF Cron, Interval
  <2> QED
    BY <1>3, <1>5, <2>1
<1>7. IsFiniteSet((Cron \union Interval) \union ({"notice"} \union {"dlq"}))
  <2>1. IsFiniteSet(Cron \union Interval)
    BY <1>6, FS_Union
  <2> QED
    BY <1>4, <2>1, FS_Union
<1>8. Jobs = (Cron \union Interval) \union ({"notice"} \union {"dlq"})
  BY DEF Jobs
<1> QED
  BY <1>7, <1>8

(* The places of w in the lists f of the jobs J.                           *)
PlacesIn(f, J, w) == UNION {{k} \X {i \in DOMAIN f[k] : f[k][i] = w} : k \in J}

LEMMA PlacesFinite ==
  ASSUME NEW S, NEW f \in [Jobs -> Seq(S)], NEW J \in SUBSET Jobs, NEW w
  PROVE  IsFiniteSet(PlacesIn(f, J, w)) /\ Cardinality(PlacesIn(f, J, w)) \in Nat
<1> DEFINE At2(k) == {k} \X {i \in DOMAIN f[k] : f[k][i] = w}
           T == {At2(k) : k \in J}
           g == [k \in J |-> At2(k)]
<1>1. IsFiniteSet(J)
  BY JobsFinite, FS_Subset
<1>2. g \in Surjection(J, T)
  BY DEF Surjection
<1>3. IsFiniteSet(T)
  BY <1>1, <1>2, FS_Surjection
<1>4. ASSUME NEW k \in J PROVE IsFiniteSet(At2(k))
  <2>1. f[k] \in Seq(S) /\ IsFiniteSet({k})
    BY FS_Singleton
  <2>2. IsFiniteSet({i \in DOMAIN f[k] : f[k][i] = w})
    BY <2>1, CopiesFinite
  <2> QED
    BY <2>1, <2>2, FS_Product
<1>5. \A t \in T : IsFiniteSet(t)
  BY <1>4
<1> HIDE DEF T
<1>6. IsFiniteSet(UNION T)
  BY <1>3, <1>5, FS_UNION
<1>7. PlacesIn(f, J, w) = UNION T
  BY DEF PlacesIn, T
<1> QED
  BY <1>6, <1>7, FS_CardinalityType

LEMMA PlacesApart ==
  ASSUME NEW S, NEW f \in [Jobs -> Seq(S)], NEW j \in Jobs, NEW w
  PROVE  Cardinality(PlacesIn(f, Jobs, w)) = Cardinality(PlacesIn(f, Jobs \ {j}, w)) + Copies(f[j], w)
<1> DEFINE X == {i \in DOMAIN f[j] : f[j][i] = w}
           A == PlacesIn(f, Jobs \ {j}, w)
           B == {j} \X X
           pair == [i \in X |-> <<j, i>>]
<1>1. f[j] \in Seq(S)
  OBVIOUS
<1>2. IsFiniteSet(X) /\ Cardinality(X) \in Nat /\ Copies(f[j], w) = Cardinality(X)
  BY <1>1, CopiesFinite DEF Copies
<1>3. pair \in Bijection(X, B)
  <2> HIDE DEF X
  <2> QED
    BY DEF Bijection, Injection, Surjection, IsInjective
<1>4. IsFiniteSet(B) /\ Cardinality(B) = Cardinality(X)
  BY <1>2, <1>3, FS_Bijection DEF ExistsBijection
<1>5. IsFiniteSet(A) /\ Cardinality(A) \in Nat
  BY PlacesFinite
<1>6. PlacesIn(f, Jobs, w) = A \cup B /\ A \cap B = {}
  BY DEF PlacesIn
<1> HIDE DEF A, B, X
<1>7. Cardinality(A \cap B) = 0
  BY <1>6, FS_EmptySet
<1>8. Cardinality(A \cup B) = Cardinality(A) + Cardinality(B) - 0
  BY <1>4, <1>5, <1>7, FS_Union
<1> QED
  BY <1>2, <1>4, <1>5, <1>6, <1>8 DEF A

(* How often w is to be done, when one job's list changes.                 *)
LEMMA Moving ==
  ASSUME todo \in [Jobs -> Seq(Works)], NEW j \in Jobs, NEW s \in Seq(Works),
         todo' = [todo EXCEPT ![j] = s], NEW w
  PROVE  /\ ToDo(w) \in Nat /\ ToDo(w)' \in Nat
         /\ Copies(todo[j], w) \in Nat /\ Copies(s, w) \in Nat
         /\ ToDo(w)' + Copies(todo[j], w) = ToDo(w) + Copies(s, w)
<1>1. todo' \in [Jobs -> Seq(Works)] /\ todo'[j] = s /\ \A k \in Jobs \ {j} : todo'[k] = todo[k]
  OBVIOUS
<1>2. ToDo(w) = Cardinality(PlacesIn(todo, Jobs, w)) /\ ToDo(w)' = Cardinality(PlacesIn(todo', Jobs, w))
  BY DEF ToDo, Places, PlacesIn
<1>3. PlacesIn(todo, Jobs \ {j}, w) = PlacesIn(todo', Jobs \ {j}, w)
  BY <1>1 DEF PlacesIn
<1>4. todo[j] \in Seq(Works)
  OBVIOUS
<1>5. Copies(todo[j], w) \in Nat /\ Copies(s, w) \in Nat
  BY <1>4, CopiesFinite
<1>6. /\ Cardinality(PlacesIn(todo, Jobs, w)) = Cardinality(PlacesIn(todo, Jobs \ {j}, w)) + Copies(todo[j], w)
      /\ Cardinality(PlacesIn(todo, Jobs \ {j}, w)) \in Nat
  BY PlacesApart, PlacesFinite
<1>7. Cardinality(PlacesIn(todo', Jobs, w)) = Cardinality(PlacesIn(todo', Jobs \ {j}, w)) + Copies(s, w)
  <2>1. Cardinality(PlacesIn(todo', Jobs, w)) = Cardinality(PlacesIn(todo', Jobs \ {j}, w)) + Copies(todo'[j], w)
    BY <1>1, PlacesApart
  <2> QED
    BY <1>1, <2>1
<1> QED
  BY <1>2, <1>3, <1>5, <1>6, <1>7

(***************************************************************************)
(* The parts of the invariant                                              *)
(***************************************************************************)

Owing == \A m \in Messages : owed[m] = UnderWay(m)
Handled ==
  \A n \in News : seen[n] # 0 =>
    alerted[n] > 0 \/ <<"item", n>> \in astray \/ ToDo(<<"item", n>>) > 0
AddedOnce == \A e \in Events : <<"add", e>> \notin astray => calendar[e] <= 1
Core == TypeOK /\ Owing /\ Handled /\ MarksInv /\ CalendarInv /\ AddedOnce /\ BaseInv

(* What was given up, and why; it holds of each step whatever the lists.   *)
Clean ==
  /\ wiring = "direct" /\ faults = 0 /\ restarts = 0 => gone = {}
  /\ wiring = "queued" => dlq = <<>> /\ "letters full" \notin gone
  /\ faults \in Nat /\ restarts \in Nat /\ (down => faults > 0)

LEMMA Parts ==
  /\ Core <=> TypeOK /\ Owing /\ Handled /\ MarksInv /\ CalendarInv /\ AddedOnce /\ BaseInv
  /\ IInv <=> TypeOK /\ Owing /\ Handled /\ MarksInv /\ CalendarInv /\ AddedOnce /\ BaseInv /\ Clean
BY DEF Core, IInv, MessagesAccounted, MarkedAreHandled, Owing, Handled, AddedOnce, Clean

LEMMA Constants ==
  /\ News \intersect UsNews = {} /\ Rates \subseteq Nat /\ 0 \in Rates
  /\ Retries \in Nat \ {0} /\ DlqMax \in Nat \ {0} /\ QueueMax \in Nat \ {0}
  /\ Wirings \subseteq {"direct", "queued"} /\ Switch \subseteq BOOLEAN
BY InfoAssumption

(* Which work is which.                                                    *)
LEMMA WorkKinds ==
  /\ \A m \in Messages : /\ m \in Works /\ m[1] \notin {"add", "item", "mark", "fetch", "usfetch", "rate", "check"}
                         /\ \A x : m # <<"item", x>>
  /\ \A w \in Works : /\ w[1] = "mark" => w[2] \in News
                      /\ w[1] = "item" => w[2] \in News \union UsNews /\ w = <<"item", w[2]>>
                      /\ w[1] \in {"check", "add"} => w[2] \in Events /\ w = <<w[1], w[2]>>
  /\ \A n \in News : <<"news", n>> \in Messages
BY DEF Messages, Works

LEMMA Working ==
  /\ \A n \in News : <<"mark", n>> \in Works
  /\ \A n \in News \union UsNews : <<"item", n>> \in Works /\ <<"news", n>> \in Works
  /\ \A e \in Events : <<"check", e>> \in Works /\ <<"add", e>> \in Works
  /\ \A r \in Rates : <<"fx", r>> \in Works
  /\ \A k \in {"fetch", "usfetch", "rate", "notice", "brief", "earnings", "report", "escalation"} :
       <<k, 0>> \in Works
BY DEF Messages, Works

(* What is composed is owed, and the alerts among it are counted.          *)
LEMMA Composing ==
  ASSUME TypeOK, NEW next \in Seq(Works), Composed(next)
  PROVE  /\ owed' \in [Messages -> Nat] /\ alerted' \in [News -> Nat]
         /\ \A m \in Messages : owed'[m] = owed[m] + Copies(next, m)
         /\ \A n \in News : alerted'[n] = alerted[n] + Copies(next, <<"news", n>>)
         /\ gone' = gone
<1>1. \A w : Copies(next, w) \in Nat
  BY CopiesFinite
<1> QED
  BY <1>1 DEF Composed, TypeOK

(* What Do(j, next) changes.                                               *)
LEMMA Doing ==
  ASSUME TypeOK, NEW j \in Jobs, todo[j] # <<>>, NEW next \in Seq(Works), Do(j, next)
  PROVE  /\ todo' \in [Jobs -> Seq(Works)] /\ tries' \in [Jobs -> 0 .. Retries - 1]
         /\ owed' \in [Messages -> Nat] /\ alerted' \in [News -> Nat]
         /\ \A w : /\ ToDo(w) \in Nat /\ ToDo(w)' \in Nat /\ Copies(next, w) \in Nat
                   /\ ToDo(w)' + (IF todo[j][1] = w THEN 1 ELSE 0) = ToDo(w) + Copies(next, w)
         /\ \A m \in Messages : owed'[m] = owed[m] + Copies(next, m)
         /\ \A n \in News : alerted'[n] = alerted[n] + Copies(next, <<"news", n>>)
         /\ todo'[j] = next \o Tail(todo[j]) /\ gone' = gone
         /\ \A k \in Jobs : k # j => todo'[k] = todo[k]
         /\ todo[j][1] \in Works /\ Tail(todo[j]) \in Seq(Works)
<1> DEFINE s == next \o Tail(todo[j])
<1>1. todo[j] \in Seq(Works) /\ todo \in [Jobs -> Seq(Works)]
  BY DEF TypeOK
<1>2. /\ Tail(todo[j]) \in Seq(Works) /\ todo[j][1] \in Works
      /\ \A w : Copies(todo[j], w) = Copies(Tail(todo[j]), w) + (IF todo[j][1] = w THEN 1 ELSE 0)
  BY <1>1, CopiesOfTail
<1>3. s \in Seq(Works)
  BY <1>2, ConcatProperties
<1>4. \A w : Copies(s, w) = Copies(next, w) + Copies(Tail(todo[j]), w)
  BY <1>2, CopiesOfConcat
<1>5. todo' = [todo EXCEPT ![j] = s] /\ tries' = [tries EXCEPT ![j] = 0] /\ Composed(next)
  BY DEF Do
<1> HIDE DEF s
<1>6. \A w : /\ ToDo(w) \in Nat /\ ToDo(w)' \in Nat
             /\ ToDo(w)' + Copies(todo[j], w) = ToDo(w) + Copies(s, w)
  BY <1>1, <1>3, <1>5, Moving
<1>7. \A w : Copies(next, w) \in Nat /\ Copies(Tail(todo[j]), w) \in Nat
  BY <1>2, CopiesFinite
<1>8. \A w : ToDo(w)' + (IF todo[j][1] = w THEN 1 ELSE 0) = ToDo(w) + Copies(next, w)
  BY <1>2, <1>4, <1>6, <1>7, SMTT(30)
<1>9. tries' \in [Jobs -> 0 .. Retries - 1]
  BY <1>5, Constants DEF TypeOK
<1>10. todo' \in [Jobs -> Seq(Works)] /\ todo'[j] = s /\ \A k \in Jobs : k # j => todo'[k] = todo[k]
  BY <1>1, <1>3, <1>5
<1>11. /\ owed' \in [Messages -> Nat] /\ alerted' \in [News -> Nat]
       /\ \A m \in Messages : owed'[m] = owed[m] + Copies(next, m)
       /\ \A n \in News : alerted'[n] = alerted[n] + Copies(next, <<"news", n>>)
       /\ gone' = gone
  BY <1>5, Composing
<1> QED
  BY <1>2, <1>6, <1>7, <1>8, <1>9, <1>10, <1>11 DEF s

(* A message that is composed is under way, when what was done was none.   *)
LEMMA DoOwes ==
  ASSUME IInv, NEW j \in Jobs, todo[j] # <<>>, NEW next \in Seq(Works), Do(j, next),
         todo[j][1] \notin Messages, UNCHANGED <<dlq, waiting>>
  PROVE  Owing'
<1>1. TypeOK /\ Owing
  BY Parts
<1>2. /\ \A w : /\ ToDo(w) \in Nat /\ ToDo(w)' \in Nat /\ Copies(next, w) \in Nat
                /\ ToDo(w)' + (IF todo[j][1] = w THEN 1 ELSE 0) = ToDo(w) + Copies(next, w)
      /\ \A m \in Messages : owed'[m] = owed[m] + Copies(next, m)
  BY <1>1, Doing
<1>3. \A m : Copies(dlq, m) \in Nat /\ Copies(waiting, m) \in Nat
  BY <1>1, CopiesFinite DEF TypeOK
<1>4. ASSUME NEW m \in Messages
      PROVE  owed'[m] = Copies(dlq, m) + Copies(waiting, m) + ToDo(m)'
  <2>1. owed[m] = Copies(dlq, m) + Copies(waiting, m) + ToDo(m)
    BY <1>1, <1>4 DEF Owing, UnderWay
  <2>2. ToDo(m)' = ToDo(m) + Copies(next, m)
    BY <1>2
  <2>3. owed'[m] = owed[m] + Copies(next, m)
    BY <1>2
  <2>4. ToDo(m) \in Nat /\ Copies(next, m) \in Nat /\ Copies(dlq, m) \in Nat /\ Copies(waiting, m) \in Nat
    BY <1>2, <1>3
  <2> QED
    BY <2>1, <2>2, <2>3, <2>4
<1>5. \A m : UnderWay(m)' = Copies(dlq, m) + Copies(waiting, m) + ToDo(m)'
  BY DEF UnderWay, Copies
<1> QED
  BY <1>1, <1>4, <1>5 DEF Owing

(* No item is lost or told twice when nothing is done to it, or its alert  *)
(* is composed, or it is given up.                                         *)
LEMMA DoHandles ==
  ASSUME IInv, NEW j \in Jobs, todo[j] # <<>>, NEW next \in Seq(Works), Do(j, next),
         UNCHANGED day, astray \subseteq astray', seen' \in [News -> Nat],
         \A n \in News : seen'[n] = seen[n] \/ (seen'[n] = 0 /\ seen[n] < day),
         \A n \in News : Copies(next, <<"item", n>>) = 0,
         \A n \in News : IF todo[j][1] = <<"item", n>>
                         THEN \/ Copies(next, <<"news", n>>) = 1
                              \/ Copies(next, <<"news", n>>) = 0 /\ <<"item", n>> \in astray'
                         ELSE Copies(next, <<"news", n>>) = 0
  PROVE  Handled' /\ MarksInv'
<1>1. TypeOK /\ Handled /\ MarksInv
  BY Parts
<1> SUFFICES ASSUME NEW n \in News
             PROVE  /\ seen'[n] # 0 =>
                         alerted'[n] > 0 \/ <<"item", n>> \in astray' \/ ToDo(<<"item", n>>)' > 0
                    /\ seen'[n] <= day
                    /\ alerted'[n] + ToDo(<<"item", n>>)' <= IF seen'[n] = day THEN day ELSE day - 1
  BY DEF Handled, MarksInv
<1> DEFINE t == ToDo(<<"item", n>>)
           u == ToDo(<<"item", n>>)'
           c == Copies(next, <<"news", n>>)
<1>2. /\ t \in Nat /\ u \in Nat
      /\ u + (IF todo[j][1] = <<"item", n>> THEN 1 ELSE 0) = t
      /\ alerted'[n] = alerted[n] + c
  <2>0. \A w : /\ ToDo(w) \in Nat /\ ToDo(w)' \in Nat
               /\ ToDo(w)' + (IF todo[j][1] = w THEN 1 ELSE 0) = ToDo(w) + Copies(next, w)
    BY <1>1, Doing
  <2>1. /\ t \in Nat /\ u \in Nat
        /\ u + (IF todo[j][1] = <<"item", n>> THEN 1 ELSE 0) = t + Copies(next, <<"item", n>>)
    BY <2>0
  <2>2. alerted'[n] = alerted[n] + c
    BY <1>1, Doing
  <2> HIDE DEF t, u, c
  <2> QED
    BY <2>1, <2>2
<1>3. alerted[n] \in Nat /\ seen[n] \in Nat /\ seen'[n] \in Nat /\ day \in Nat \ {0}
  BY <1>1 DEF TypeOK
<1>4. /\ seen[n] # 0 => alerted[n] > 0 \/ <<"item", n>> \in astray \/ t > 0
      /\ seen[n] <= day
      /\ alerted[n] + t <= IF seen[n] = day THEN day ELSE day - 1
  BY <1>1 DEF Handled, MarksInv
<1> HIDE DEF t, u, c
<1>5. CASE todo[j][1] = <<"item", n>>
  <2>1. c = 1 \/ (c = 0 /\ <<"item", n>> \in astray')
    BY <1>5 DEF c
  <2> QED
    BY <1>2, <1>3, <1>4, <1>5, <2>1, SMTT(30) DEF t, u
<1>6. CASE todo[j][1] # <<"item", n>>
  <2>1. c = 0
    BY <1>6 DEF c
  <2> QED
    BY <1>2, <1>3, <1>4, <1>6, <2>1 DEF t, u
<1> QED
  BY <1>5, <1>6

(* No entry is about to be added but by CheckEntry.                        *)
LEMMA AddsApart ==
  ASSUME NEW a \in Seq(Works), NEW b \in Seq(Works), NoAdds(a), NoAdds(b)
  PROVE  NoAdds(a \o b)
<1>1. /\ Len(a) \in Nat /\ DOMAIN a = 1 .. Len(a) /\ Len(b) \in Nat /\ DOMAIN b = 1 .. Len(b)
      /\ DOMAIN (a \o b) = 1 .. Len(a) + Len(b)
      /\ \A i \in 1 .. Len(a) + Len(b) : (a \o b)[i] = IF i <= Len(a) THEN a[i] ELSE b[i - Len(a)]
  BY LenProperties, ConcatProperties
<1> QED
  BY <1>1 DEF NoAdds

LEMMA AddsInTail ==
  ASSUME NEW s \in Seq(Works), s # <<>>, NoAdds(s)
  PROVE  NoAdds(Tail(s)) /\ s[1][1] # "add"
<1>1. /\ Len(s) \in Nat \ {0} /\ DOMAIN s = 1 .. Len(s)
      /\ Tail(s) \in Seq(Works) /\ Len(Tail(s)) = Len(s) - 1
      /\ \A i \in 1 .. Len(Tail(s)) : Tail(s)[i] = s[i + 1]
  BY LenProperties, EmptySeq, HeadTailProperties
<1>2. DOMAIN Tail(s) = 1 .. Len(Tail(s))
  BY <1>1, LenProperties
<1> QED
  BY <1>1, <1>2 DEF NoAdds

LEMMA AddsKept ==
  ASSUME IInv, UNCHANGED calendar, astray \subseteq astray',
         \/ todo'["monthly"] = todo["monthly"]
         \/ todo'["monthly"] \in Seq(Works) /\ NoAdds(todo'["monthly"])
  PROVE  CalendarInv' /\ AddedOnce'
<1>1. CalendarInv /\ AddedOnce
  BY Parts
<1>2. AddedOnce'
  BY <1>1 DEF AddedOnce
<1>3. CASE todo'["monthly"] = todo["monthly"]
  BY <1>1, <1>2, <1>3 DEF CalendarInv, NoAdds
<1>4. CASE todo'["monthly"] \in Seq(Works) /\ NoAdds(todo'["monthly"])
  <2> SUFFICES ASSUME todo'["monthly"] # <<>>
               PROVE  /\ NoAdds(Tail(todo'["monthly"]))
                      /\ \A e \in Events : todo'["monthly"][1] # <<"add", e>>
    BY <1>2 DEF CalendarInv, NoAdds
  <2> QED
    BY <1>4, AddsInTail
<1> QED
  BY <1>3, <1>4

LEMMA DoAdds ==
  ASSUME IInv, NEW j \in Jobs, todo[j] # <<>>, NEW next \in Seq(Works), Do(j, next),
         NoAdds(next), UNCHANGED calendar, astray \subseteq astray'
  PROVE  CalendarInv' /\ AddedOnce'
<1>1. TypeOK /\ CalendarInv
  BY Parts
<1>2. /\ todo'[j] = next \o Tail(todo[j]) /\ \A k \in Jobs : k # j => todo'[k] = todo[k]
      /\ todo' \in [Jobs -> Seq(Works)] /\ Tail(todo[j]) \in Seq(Works)
  BY <1>1, Doing
<1>3. CASE j = "monthly"
  <2>1. NoAdds(Tail(todo[j]))
    BY <1>1, <1>3 DEF CalendarInv
  <2>2. NoAdds(todo'["monthly"]) /\ todo'["monthly"] \in Seq(Works)
    BY <1>2, <1>3, <2>1, AddsApart
  <2> QED
    BY <2>2, AddsKept
<1>4. CASE j # "monthly"
  <2>1. todo'["monthly"] = todo["monthly"]
    BY <1>2, <1>4 DEF Jobs, Cron
  <2> QED
    BY <2>1, AddsKept
<1> QED
  BY <1>3, <1>4

(* A set of things, each of the same kind, as a list.                      *)
LEMMA Listing ==
  ASSUME NEW S, IsFiniteSet(S), NEW k
  PROVE  [i \in 1 .. Cardinality(S) |-> <<k, SetToSeq(S)[i]>>] \in Seq({k} \X S)
<1> DEFINE c == Cardinality(S)
           g == SetToSeq(S)
           T == {k} \X S
           s == [i \in 1 .. c |-> <<k, g[i]>>]
<1>1. c \in Nat /\ ExistsBijection(1 .. c, S)
  BY FS_CardinalityType
<1>2. g \in [1 .. c -> S]
  BY <1>1 DEF SetToSeq, ExistsBijection, Bijection, Injection
<1> HIDE DEF c, g
<1>3. \A i \in 1 .. c : g[i] \in S
  BY <1>2
<1>4. \A i \in 1 .. c : <<k, g[i]>> \in T
  BY <1>3
<1> HIDE DEF T
<1>5. s \in [1 .. c -> T]
  BY <1>4
<1>6. s \in Seq(T)
  <2> HIDE DEF s
  <2> QED
    BY <1>1, <1>5, SeqDef
<1> QED
  BY <1>6 DEF c, g, T

(* Its elements.                                                           *)
LEMMA Listed ==
  ASSUME NEW S, NEW k, NEW s \in Seq({k} \X S)
  PROVE  DOMAIN s = 1 .. Len(s) /\ \A i \in 1 .. Len(s) : s[i] \in {k} \X S /\ s[i][1] = k
<1>1. DOMAIN s = 1 .. Len(s) /\ \A i \in 1 .. Len(s) : s[i] \in {k} \X S
  BY LenProperties, ElementOfSeq
<1> QED
  BY <1>1

(* A list of Do that composes nothing and has no items.                    *)
LEMMA Idle ==
  /\ <<>> \in Seq(Works) /\ NoAdds(<<>>) /\ \A w : Copies(<<>>, w) = 0
BY CopiesOfNone DEF NoAdds

LEMMA Single ==
  ASSUME NEW x \in Works
  PROVE  /\ <<x>> \in Seq(Works) /\ (x[1] # "add" => NoAdds(<<x>>))
         /\ \A w : Copies(<<x>>, w) = IF x = w THEN 1 ELSE 0
<1>1. \A w : Copies(<<x>>, w) = IF x = w THEN 1 ELSE 0
  BY CopiesOfOne
<1>2. <<x>> \in Seq(Works) /\ DOMAIN <<x>> = {1} /\ <<x>>[1] = x
  OBVIOUS
<1> QED
  BY <1>1, <1>2 DEF NoAdds

(***************************************************************************)
(* The actions that do the first thing of a list                           *)
(***************************************************************************)

LEMMA BaseKept ==
  ASSUME BaseInv, UNCHANGED <<base, day, open>>
  PROVE  BaseInv'
BY DEF BaseInv

(* What all of them leave alone, and what they do.                         *)
LEMMA DoTypes ==
  ASSUME IInv, NEW j \in Jobs, todo[j] # <<>>, NEW next \in Seq(Works), Do(j, next),
         UNCHANGED <<clock, letters>>, astray' \subseteq Works,
         seen' \in [News -> Nat], base' \in [rate : Rates, of : Nat \union {-1}],
         calendar' \in [Events -> Nat]
  PROVE  TypeOK'
<1>1. TypeOK
  BY Parts
<1>2. /\ todo' \in [Jobs -> Seq(Works)] /\ tries' \in [Jobs -> 0 .. Retries - 1]
      /\ owed' \in [Messages -> Nat] /\ alerted' \in [News -> Nat] /\ gone' = gone
  BY <1>1, Doing
<1> QED
  BY <1>1, <1>2 DEF TypeOK, clock, letters

(* At the head of a list, of one kind.                                     *)
LEMMA Heads ==
  ASSUME TypeOK, NEW j \in Jobs, NEW k, At(j, k)
  PROVE  /\ todo[j] # <<>> /\ todo[j] \in Seq(Works) /\ todo[j][1] \in Works /\ todo[j][1][1] = k
         /\ About(j) = todo[j][1][2]
         /\ k \in {"add", "item", "mark", "fetch", "usfetch", "rate", "check"} => todo[j][1] \notin Messages
<1>1. todo[j] # <<>> /\ todo[j] \in Seq(Works) /\ todo[j][1][1] = k /\ About(j) = todo[j][1][2]
  BY DEF At, TypeOK, About
<1>2. todo[j][1] \in Works
  BY <1>1, CopiesOfTail
<1> QED
  BY <1>1, <1>2, WorkKinds

LEMMA RssFetchKeeps ==
  ASSUME IInv, NEW j \in Jobs, RssFetch(j)
  PROVE  Core'
<1>1. TypeOK /\ BaseInv
  BY Parts
<1>2. todo[j] # <<>> /\ todo[j][1] \notin Messages /\ todo[j][1][1] = "fetch"
  BY <1>1, Heads DEF RssFetch
<1>3. PICK old \in SUBSET {n \in News : seen[n] \in 1 .. day - 1}, items \in SUBSET News :
        /\ seen' = [n \in News |-> IF n \in old THEN 0 ELSE seen[n]]
        /\ Do(j, [i \in 1 .. Cardinality(items) |-> <<"mark", SetToSeq(items)[i]>>])
  BY DEF RssFetch
<1> DEFINE next == [i \in 1 .. Cardinality(items) |-> <<"mark", SetToSeq(items)[i]>>]
<1>4. IsFiniteSet(items)
  BY InfoAssumption, FS_Subset
<1>a. next \in Seq({"mark"} \X items)
  BY <1>4, Listing
<1>6. Do(j, next)
  BY <1>3
<1> HIDE DEF next
<1>5. /\ next \in Seq({"mark"} \X items) /\ DOMAIN next = 1 .. Len(next)
      /\ \A i \in 1 .. Len(next) : next[i][1] = "mark"
  BY <1>a, Listed
<1>7. {"mark"} \X items \subseteq Works
  BY Working
<1>8. next \in Seq(Works)
  BY <1>5, <1>7, SeqMonotonic
<1>9. NoAdds(next)
  BY <1>5 DEF NoAdds
<1>10. \A w : w[1] # "mark" => Copies(next, w) = 0
  BY <1>5, <1>8, CopiesOfOthers
<1>11. UNCHANGED <<clock, letters, base, calendar, astray>>
  BY DEF RssFetch
<1>12. /\ seen' \in [News -> Nat] /\ UNCHANGED <<day, open, wiring, dlq, waiting>>
       /\ \A n \in News : seen'[n] = seen[n] \/ (seen'[n] = 0 /\ seen[n] < day)
  BY <1>1, <1>3, <1>11 DEF TypeOK, clock, letters
<1>13. TypeOK'
  BY <1>1, <1>2, <1>6, <1>8, <1>11, <1>12, DoTypes DEF TypeOK
<1>14. Owing'
  BY <1>2, <1>6, <1>8, <1>11, <1>12, DoOwes
<1>15. \A n \in News : /\ Copies(next, <<"item", n>>) = 0 /\ Copies(next, <<"news", n>>) = 0
                       /\ todo[j][1] # <<"item", n>>
  BY <1>2, <1>10
<1>16. Handled' /\ MarksInv'
  BY <1>2, <1>6, <1>8, <1>11, <1>12, <1>15, DoHandles
<1>17. CalendarInv' /\ AddedOnce'
  BY <1>2, <1>6, <1>8, <1>9, <1>11, DoAdds
<1>18. BaseInv'
  BY <1>1, <1>11, <1>12, BaseKept
<1>19. (TypeOK /\ Owing /\ Handled /\ MarksInv /\ CalendarInv /\ AddedOnce /\ BaseInv)'
  BY <1>13, <1>14, <1>16, <1>17, <1>18
<1> QED
  BY <1>19, Parts, PTL

LEMMA UsFetchKeeps ==
  ASSUME IInv, UsFetch
  PROVE  Core'
<1> DEFINE j == "usnews"
<1>1. TypeOK /\ BaseInv /\ j \in Jobs
  BY Parts DEF Jobs, Interval
<1>2. todo[j] # <<>> /\ todo[j][1] \notin Messages /\ todo[j][1][1] = "usfetch"
  BY <1>1, Heads DEF UsFetch
<1>3. PICK items \in {{}, UsNews} :
        Do(j, [i \in 1 .. Cardinality(items) |-> <<"item", SetToSeq(items)[i]>>])
  BY DEF UsFetch
<1> DEFINE next == [i \in 1 .. Cardinality(items) |-> <<"item", SetToSeq(items)[i]>>]
<1>4. IsFiniteSet(items) /\ items \subseteq UsNews
  BY InfoAssumption, FS_EmptySet
<1>a. next \in Seq({"item"} \X items)
  BY <1>4, Listing
<1>6. Do(j, next)
  BY <1>3
<1> HIDE DEF next
<1>5. /\ next \in Seq({"item"} \X items) /\ DOMAIN next = 1 .. Len(next)
      /\ \A i \in 1 .. Len(next) : next[i] \in {"item"} \X items /\ next[i][1] = "item"
  BY <1>a, Listed
<1>7. {"item"} \X items \subseteq Works
  <2>1. \A u \in items : <<"item", u>> \in Works
    BY <1>4, Working
  <2> QED
    BY <2>1
<1>8. next \in Seq(Works)
  BY <1>5, <1>7, SeqMonotonic
<1>9. NoAdds(next)
  BY <1>5 DEF NoAdds
<1>10. \A w : w \notin {"item"} \X items => Copies(next, w) = 0
  BY <1>5, <1>8, CopiesOfOthers
<1>11. UNCHANGED <<clock, letters, seen, base, calendar, astray>>
  BY DEF UsFetch
<1>12. seen' \in [News -> Nat] /\ UNCHANGED <<day, open, wiring, dlq, waiting>>
  BY <1>1, <1>11 DEF TypeOK, clock, letters
<1>13. TypeOK'
  BY <1>1, <1>2, <1>6, <1>8, <1>11, <1>12, DoTypes DEF TypeOK
<1>14. Owing'
  BY <1>1, <1>2, <1>6, <1>8, <1>11, <1>12, DoOwes
<1>15. \A n \in News : /\ Copies(next, <<"item", n>>) = 0 /\ Copies(next, <<"news", n>>) = 0
                       /\ todo[j][1] # <<"item", n>>
  BY <1>2, <1>4, <1>10, Constants
<1>16. Handled' /\ MarksInv'
  BY <1>1, <1>2, <1>6, <1>8, <1>11, <1>12, <1>15, DoHandles
<1>17. CalendarInv' /\ AddedOnce'
  BY <1>1, <1>2, <1>6, <1>8, <1>9, <1>11, DoAdds
<1>18. BaseInv'
  BY <1>1, <1>11, <1>12, BaseKept
<1>19. (TypeOK /\ Owing /\ Handled /\ MarksInv /\ CalendarInv /\ AddedOnce /\ BaseInv)'
  BY <1>13, <1>14, <1>16, <1>17, <1>18
<1> QED
  BY <1>19, Parts, PTL

(* What is left when one thing is done and at most one takes its place,    *)
(* and neither the marks nor the calendar change.                          *)
LEMMA OneForOne ==
  ASSUME IInv, NEW j \in Jobs, todo[j] # <<>>, NEW next \in Seq(Works), Do(j, next),
         todo[j][1] \notin Messages, NoAdds(next),
         UNCHANGED <<clock, letters, seen, calendar>>,
         astray' \subseteq Works, astray \subseteq astray',
         base' \in [rate : Rates, of : Nat \union {-1}], BaseInv',
         \A n \in News : Copies(next, <<"item", n>>) = 0,
         \A n \in News : IF todo[j][1] = <<"item", n>>
                         THEN \/ Copies(next, <<"news", n>>) = 1
                              \/ Copies(next, <<"news", n>>) = 0 /\ <<"item", n>> \in astray'
                         ELSE Copies(next, <<"news", n>>) = 0
  PROVE  Core'
<1>1. TypeOK
  BY Parts
<1>2. /\ seen' \in [News -> Nat] /\ calendar' \in [Events -> Nat] /\ \A n \in News : seen'[n] = seen[n]
      /\ UNCHANGED <<day, wiring, dlq, waiting>>
  BY <1>1 DEF TypeOK, clock, letters
<1>3. TypeOK'
  BY <1>2, DoTypes
<1>4. Owing'
  BY <1>2, DoOwes
<1>5. Handled' /\ MarksInv'
  BY <1>2, DoHandles
<1>6. CalendarInv' /\ AddedOnce'
  BY DoAdds
<1>7. (TypeOK /\ Owing /\ Handled /\ MarksInv /\ CalendarInv /\ AddedOnce /\ BaseInv)'
  BY <1>3, <1>4, <1>5, <1>6
<1> QED
  BY <1>7, Parts, PTL

LEMMA ClassifyKeeps ==
  ASSUME IInv, NEW j \in Jobs, Classify(j)
  PROVE  Core'
<1>1. TypeOK /\ BaseInv
  BY Parts
<1> DEFINE x == About(j)
<1>2. /\ todo[j] # <<>> /\ todo[j][1] \notin Messages /\ todo[j][1] \in Works
      /\ x \in News \union UsNews /\ todo[j][1] = <<"item", x>>
  BY <1>1, Heads, WorkKinds DEF Classify
<1> HIDE DEF x
<1>3. UNCHANGED <<clock, letters, seen, base, calendar>>
  BY DEF Classify
<1>4. base' \in [rate : Rates, of : Nat \union {-1}] /\ BaseInv'
  BY <1>1, <1>3, BaseKept DEF TypeOK, clock
<1>5. CASE Do(j, <<<<"news", x>>>>) /\ UNCHANGED astray
  <2> DEFINE next == <<<<"news", x>>>>
  <2>1. <<"news", x>> \in Works /\ <<"news", x>>[1] # "add"
    BY <1>2, Working
  <2>2. next \in Seq(Works) /\ NoAdds(next)
    BY <2>1, Single
  <2>3. \A w : Copies(next, w) = IF <<"news", x>> = w THEN 1 ELSE 0
    BY <2>1, Single
  <2> HIDE DEF next
  <2>4. \A n \in News : /\ Copies(next, <<"item", n>>) = 0
                        /\ IF todo[j][1] = <<"item", n>> THEN Copies(next, <<"news", n>>) = 1
                           ELSE Copies(next, <<"news", n>>) = 0
    BY <1>2, <2>3
  <2>5. Do(j, next) /\ astray' \subseteq Works /\ astray \subseteq astray'
    BY <1>1, <1>5 DEF next, TypeOK
  <2> QED
    BY <1>2, <1>3, <1>4, <2>2, <2>4, <2>5, OneForOne
<1>6. CASE Do(j, <<>>) /\ astray' = astray \union {todo[j][1]}
  <2>1. astray' \subseteq Works /\ astray \subseteq astray'
    BY <1>1, <1>2, <1>6 DEF TypeOK
  <2>2. \A n \in News : todo[j][1] = <<"item", n>> => <<"item", n>> \in astray'
    BY <1>6
  <2> QED
    BY <1>2, <1>3, <1>4, <1>6, <2>1, <2>2, Idle, OneForOne
<1> QED
  BY <1>5, <1>6 DEF Classify, x

LEMMA FxCheckKeeps ==
  ASSUME IInv, FxCheck
  PROVE  Core'
<1> DEFINE j == "fx"
<1>1. TypeOK /\ BaseInv /\ j \in Jobs
  BY Parts DEF Jobs, Interval
<1>2. todo[j] # <<>> /\ todo[j][1] \notin Messages /\ todo[j][1][1] = "rate"
  BY <1>1, Heads DEF FxCheck
<1>3. UNCHANGED <<clock, letters, seen, calendar, astray>>
  BY DEF FxCheck
<1>4. PICK rate \in Rates :
        /\ base' \in IF base = NoBase THEN FirstBase(rate) ELSE {base}
        /\ Do(j, IF Moved(rate, base'.rate) THEN <<<<"fx", rate>>>> ELSE <<>>)
  BY DEF FxCheck
<1>5. base' \in [rate : Rates, of : Nat \union {-1}] /\ BaseInv'
  <2>1. base' = base \/ base' \in FirstBase(rate)
    BY <1>4
  <2>2. UNCHANGED <<day, open>> /\ open \in Rates /\ day \in Nat \ {0} /\ 0 \in Rates
    BY <1>1, <1>3, Constants DEF clock, TypeOK
  <2>3. CASE base' = base
    BY <1>1, <2>2, <2>3, BaseKept DEF TypeOK
  <2>4. CASE base' \in FirstBase(rate)
    BY <2>2, <2>4 DEF FirstBase, BaseInv
  <2> QED
    BY <2>1, <2>3, <2>4
<1>6. astray' \subseteq Works /\ astray \subseteq astray'
  BY <1>1, <1>3 DEF TypeOK
<1>7. CASE Moved(rate, base'.rate)
  <2> DEFINE next == <<<<"fx", rate>>>>
  <2>1. <<"fx", rate>> \in Works /\ <<"fx", rate>>[1] # "add"
    BY Working
  <2>2. next \in Seq(Works) /\ NoAdds(next) /\ \A w : Copies(next, w) = IF <<"fx", rate>> = w THEN 1 ELSE 0
    BY <2>1, Single
  <2>3. Do(j, next)
    BY <1>4, <1>7
  <2> HIDE DEF next
  <2>4. \A n \in News : /\ Copies(next, <<"item", n>>) = 0 /\ Copies(next, <<"news", n>>) = 0
                        /\ todo[j][1] # <<"item", n>>
    BY <1>2, <2>2
  <2> QED
    BY <1>1, <1>2, <1>3, <1>5, <1>6, <2>2, <2>3, <2>4, OneForOne
<1>8. CASE ~Moved(rate, base'.rate)
  <2>1. \A n \in News : todo[j][1] # <<"item", n>>
    BY <1>2
  <2>2. Do(j, <<>>)
    BY <1>4, <1>8
  <2> QED
    BY <1>1, <1>2, <1>3, <1>5, <1>6, <2>1, <2>2, Idle, OneForOne
<1> QED
  BY <1>7, <1>8

(* Where no list, no mark and no count changes.                            *)
LEMMA NumbersKept ==
  ASSUME Owing, Handled, MarksInv,
         UNCHANGED <<todo, dlq, waiting, owed, alerted, day>>,
         \A n \in News : seen'[n] = seen[n], astray \subseteq astray'
  PROVE  Owing' /\ Handled' /\ MarksInv'
<1>1. \A w : ToDo(w)' = ToDo(w) /\ UnderWay(w)' = UnderWay(w)
  BY DEF ToDo, Places, UnderWay, Copies
<1>2. Owing'
  BY <1>1 DEF Owing
<1>3. ASSUME NEW n \in News PROVE ToDo(<<"item", n>>)' = ToDo(<<"item", n>>)
  BY <1>1
<1>4. Handled' /\ MarksInv'
  BY <1>3 DEF Handled, MarksInv
<1> QED
  BY <1>2, <1>4

LEMMA ConsFacts ==
  ASSUME NEW S, NEW t \in Seq(S), NEW x \in S
  PROVE  (<<x>> \o t)[1] = x /\ Tail(<<x>> \o t) = t
<1>1. <<x>> \in Seq(S) /\ Len(<<x>>) = 1 /\ Len(t) \in Nat
  BY LenProperties
<1>2. /\ <<x>> \o t \in Seq(S) /\ Len(<<x>> \o t) = 1 + Len(t)
      /\ \A i \in 1 .. 1 + Len(t) : (<<x>> \o t)[i] = IF i <= 1 THEN <<x>>[i] ELSE t[i - 1]
  BY <1>1, ConcatProperties
<1> DEFINE s == <<x>> \o t
<1>3. (<<x>> \o t)[1] = x
  BY <1>1, <1>2
<1>4. s \in Seq(S) /\ Len(s) = 1 + Len(t) /\ s # <<>> /\ \A i \in 2 .. 1 + Len(t) : s[i] = t[i - 1]
  BY <1>1, <1>2
<1> HIDE DEF s
<1>5. Tail(s) \in Seq(S) /\ Len(Tail(s)) = Len(s) - 1 /\ \A i \in 1 .. Len(Tail(s)) : Tail(s)[i] = s[i + 1]
  BY <1>4, HeadTailProperties
<1>6. Len(Tail(s)) = Len(t) /\ \A i \in 1 .. Len(Tail(s)) : Tail(s)[i] = t[i]
  BY <1>1, <1>4, <1>5
<1>7. Tail(s) = t
  BY <1>5, <1>6, SeqEqual
<1> QED
  BY <1>3, <1>7 DEF s

LEMMA CheckEntryKeeps ==
  ASSUME IInv, CheckEntry
  PROVE  Core'
<1> DEFINE j == "monthly"
           e == About(j)
<1>1. TypeOK /\ BaseInv /\ CalendarInv /\ AddedOnce /\ j \in Jobs
  BY Parts DEF Jobs, Cron
<1>2. /\ todo[j] # <<>> /\ todo[j][1] \notin Messages /\ todo[j][1] \in Works
      /\ e \in Events /\ todo[j][1] = <<"check", e>>
  BY <1>1, Heads, WorkKinds DEF CheckEntry
<1>3. \A n \in News : todo[j][1] # <<"item", n>>
  BY <1>2
<1> HIDE DEF e
<1>4. UNCHANGED <<clock, letters, seen, base, calendar>>
  BY DEF CheckEntry
<1>5. /\ base' \in [rate : Rates, of : Nat \union {-1}] /\ BaseInv'
      /\ seen' \in [News -> Nat] /\ calendar' \in [Events -> Nat] /\ \A n \in News : seen'[n] = seen[n]
      /\ UNCHANGED <<day, wiring, dlq, waiting>>
  BY <1>1, <1>4, BaseKept DEF TypeOK, clock, letters
<1>6. \/ Do(j, <<>>) /\ UNCHANGED astray
      \/ /\ Do(j, <<<<"add", e>>>>)
         /\ \/ calendar[e] = 0 /\ UNCHANGED astray
            \/ astray' = astray \union {<<"add", e>>}
  BY <1>1, <1>2 DEF CheckEntry, e, TypeOK
<1>7. astray' \subseteq Works /\ astray \subseteq astray'
  BY <1>1, <1>2, <1>6, Working DEF TypeOK
<1>8. CASE Do(j, <<>>)
  BY <1>1, <1>2, <1>3, <1>4, <1>5, <1>7, <1>8, Idle, OneForOne
<1>9. CASE /\ Do(j, <<<<"add", e>>>>)
           /\ calendar[e] = 0 \/ <<"add", e>> \in astray'
  <2> DEFINE next == <<<<"add", e>>>>
  <2>1. <<"add", e>> \in Works
    BY <1>2, Working
  <2>2. next \in Seq(Works) /\ \A w : Copies(next, w) = IF <<"add", e>> = w THEN 1 ELSE 0
    BY <2>1, Single
  <2>3. Do(j, next)
    BY <1>9
  <2>4. /\ todo'[j] = next \o Tail(todo[j]) /\ Tail(todo[j]) \in Seq(Works)
        /\ \A k \in Jobs : k # j => todo'[k] = todo[k]
    BY <1>1, <1>2, <2>2, <2>3, Doing
  <2>5. todo'[j][1] = <<"add", e>> /\ Tail(todo'[j]) = Tail(todo[j])
    BY <2>1, <2>4, ConsFacts
  <2> HIDE DEF next
  <2>6. \A n \in News : Copies(next, <<"item", n>>) = 0 /\ Copies(next, <<"news", n>>) = 0
    BY <2>2
  <2>7. TypeOK'
    BY <1>1, <1>2, <1>4, <1>5, <1>7, <2>2, <2>3, DoTypes
  <2>8. Owing'
    BY <1>1, <1>2, <1>5, <1>7, <2>2, <2>3, DoOwes
  <2>9. Handled' /\ MarksInv'
    BY <1>1, <1>2, <1>3, <1>5, <1>7, <2>2, <2>3, <2>6, DoHandles
  <2>10. CalendarInv'
    <3>1. NoAdds(Tail(todo[j]))
      BY <1>1, <1>2 DEF CalendarInv
    <3>2. NoAdds(Tail(todo'[j]))
      BY <2>5, <3>1
    <3>3. \A d \in Events : todo'[j][1] = <<"add", d>> => d = e
      BY <2>5
    <3>4. calendar' = calendar
      BY <1>4
    <3> QED
      BY <1>9, <3>2, <3>3, <3>4 DEF CalendarInv, NoAdds
  <2>11. AddedOnce'
    BY <1>1, <1>4, <1>7 DEF AddedOnce
  <2>12. (TypeOK /\ Owing /\ Handled /\ MarksInv /\ CalendarInv /\ AddedOnce /\ BaseInv)'
    BY <1>5, <2>7, <2>8, <2>9, <2>10, <2>11
  <2> QED
    BY <2>12, Parts, PTL
<1> QED
  BY <1>6, <1>8, <1>9

LEMMA AddEntryKeeps ==
  ASSUME IInv, AddEntry
  PROVE  Core'
<1> DEFINE j == "monthly"
           e == About(j)
<1>1. /\ TypeOK /\ Owing /\ Handled /\ MarksInv /\ CalendarInv /\ AddedOnce /\ BaseInv
      /\ j \in Jobs
  BY Parts DEF Jobs, Cron
<1>2. /\ todo[j] # <<>> /\ todo[j][1] \notin Messages /\ todo[j][1] \in Works
      /\ e \in Events /\ todo[j][1] = <<"add", e>>
  BY <1>1, Heads, WorkKinds DEF AddEntry
<1>3. \A n \in News : todo[j][1] # <<"item", n>>
  BY <1>2
<1> HIDE DEF e
<1>4. UNCHANGED <<clock, letters, seen, base>>
  BY DEF AddEntry
<1>5. \/ Do(j, <<>>) /\ calendar' = [calendar EXCEPT ![e] = @ + 1] /\ UNCHANGED astray
      \/ /\ \/ Do(j, <<>>)
            \/ tries["monthly"] + 1 < Retries /\ tries' = [tries EXCEPT !["monthly"] = @ + 1] /\ UNCHANGED <<todo, made>>
         /\ calendar' \in {calendar, [calendar EXCEPT ![e] = @ + 1]}
         /\ astray' = astray \union {<<"add", e>>}
  BY DEF AddEntry, e
<1>6. /\ base' \in [rate : Rates, of : Nat \union {-1}] /\ BaseInv'
      /\ seen' \in [News -> Nat] /\ \A n \in News : seen'[n] = seen[n]
      /\ UNCHANGED <<day, wiring, dlq, waiting>>
  BY <1>1, <1>4, BaseKept DEF TypeOK, clock, letters
<1>7. /\ astray' \subseteq Works /\ astray \subseteq astray' /\ calendar' \in [Events -> Nat]
      /\ \A d \in Events : d # e => calendar'[d] = calendar[d]
      /\ calendar'[e] = calendar[e] + 1 \/ <<"add", e>> \in astray'
  <2>1. calendar \in [Events -> Nat] /\ astray \subseteq Works /\ <<"add", e>> \in Works
    BY <1>1, <1>2, Working DEF TypeOK
  <2>2. calendar' = calendar \/ calendar' = [calendar EXCEPT ![e] = @ + 1]
    BY <1>5
  <2>3. calendar' = [calendar EXCEPT ![e] = @ + 1] \/ <<"add", e>> \in astray'
    BY <1>5
  <2>4. astray' \subseteq Works /\ astray \subseteq astray'
    BY <1>5, <2>1
  <2> QED
    BY <1>2, <2>1, <2>2, <2>3, <2>4
<1>8. AddedOnce'
  <2> SUFFICES ASSUME NEW d \in Events, <<"add", d>> \notin astray' PROVE calendar'[d] <= 1
    BY DEF AddedOnce
  <2>1. CASE d = e
    BY <1>1, <1>2, <1>7, <2>1 DEF CalendarInv
  <2>2. CASE d # e
    BY <1>1, <1>7, <2>2 DEF AddedOnce
  <2> QED
    BY <2>1, <2>2
<1>9. NoAdds(Tail(todo[j]))
  BY <1>1, <1>2 DEF CalendarInv
<1>10. CASE Do(j, <<>>)
  <2>1. /\ todo'[j] = <<>> \o Tail(todo[j]) /\ Tail(todo[j]) \in Seq(Works)
        /\ todo' \in [Jobs -> Seq(Works)]
    BY <1>1, <1>2, <1>10, Idle, Doing
  <2>2. todo'[j] = Tail(todo[j]) /\ NoAdds(todo'[j])
    BY <1>9, <2>1, ConcatEmptySeq
  <2>3. CalendarInv'
    <3> SUFFICES ASSUME todo'[j] # <<>>
                 PROVE  /\ NoAdds(Tail(todo'[j])) /\ \A d \in Events : todo'[j][1] # <<"add", d>>
      BY DEF CalendarInv, NoAdds
    <3>1. todo'[j] \in Seq(Works)
      BY <2>1, <2>2
    <3>2. NoAdds(Tail(todo'[j])) /\ todo'[j][1][1] # "add"
      BY <2>2, <3>1, AddsInTail
    <3> QED
      BY <3>2
  <2>4. TypeOK'
    BY <1>1, <1>2, <1>4, <1>6, <1>7, <1>10, Idle, DoTypes
  <2>5. Owing'
    BY <1>1, <1>2, <1>6, <1>7, <1>10, Idle, DoOwes
  <2>6. Handled' /\ MarksInv'
    <3>1. \A n \in News : /\ Copies(<<>>, <<"item", n>>) = 0 /\ Copies(<<>>, <<"news", n>>) = 0
                          /\ todo[j][1] # <<"item", n>>
      BY <1>3, CopiesOfNone
    <3>2. <<>> \in Seq(Works)
      OBVIOUS
    <3> QED
      BY <1>1, <1>2, <1>6, <1>7, <1>10, <3>1, <3>2, DoHandles
  <2>7. (TypeOK /\ Owing /\ Handled /\ MarksInv /\ CalendarInv /\ AddedOnce /\ BaseInv)'
    BY <1>6, <1>8, <2>3, <2>4, <2>5, <2>6
  <2> QED
    BY <2>7, Parts, PTL
<1>11. CASE /\ tries["monthly"] + 1 < Retries /\ tries' = [tries EXCEPT !["monthly"] = @ + 1]
            /\ UNCHANGED <<todo, made>> /\ <<"add", e>> \in astray'
  <2>1. tries' \in [Jobs -> 0 .. Retries - 1]
    BY <1>1, <1>11, Constants DEF TypeOK
  <2>2. TypeOK'
    BY <1>1, <1>4, <1>6, <1>7, <1>11, <2>1 DEF TypeOK, clock, letters, made
  <2>3. CalendarInv'
    <3>1. \A d \in Events : todo[j][1] = <<"add", d>> => <<"add", d>> \in astray'
      BY <1>2, <1>11
    <3> QED
      BY <1>9, <1>11, <3>1 DEF CalendarInv, NoAdds
  <2>4. Owing' /\ Handled' /\ MarksInv'
    BY <1>1, <1>6, <1>7, <1>11, NumbersKept DEF made
  <2>5. (TypeOK /\ Owing /\ Handled /\ MarksInv /\ CalendarInv /\ AddedOnce /\ BaseInv)'
    BY <1>6, <1>8, <2>2, <2>3, <2>4
  <2> QED
    BY <2>5, Parts, PTL
<1> QED
  BY <1>5, <1>10, <1>11

(***************************************************************************)
(* The actions that change a list in their own way                         *)
(***************************************************************************)

(* The first thing is off a list.                                          *)
LEMMA Taking ==
  ASSUME TypeOK, NEW j \in Jobs, todo[j] # <<>>, todo' = [todo EXCEPT ![j] = Tail(@)]
  PROVE  /\ todo' \in [Jobs -> Seq(Works)] /\ todo[j][1] \in Works
         /\ \A w : /\ ToDo(w) \in Nat /\ ToDo(w)' \in Nat
                   /\ ToDo(w)' + (IF todo[j][1] = w THEN 1 ELSE 0) = ToDo(w)
<1> DEFINE s == Tail(todo[j])
<1>1. todo[j] \in Seq(Works) /\ todo \in [Jobs -> Seq(Works)]
  BY DEF TypeOK
<1>2. /\ s \in Seq(Works) /\ todo[j][1] \in Works
      /\ \A w : Copies(todo[j], w) = Copies(s, w) + (IF todo[j][1] = w THEN 1 ELSE 0)
  BY <1>1, CopiesOfTail
<1>3. todo' = [todo EXCEPT ![j] = s] /\ todo' \in [Jobs -> Seq(Works)]
  BY <1>1, <1>2
<1>a. s \in Seq(Works)
  BY <1>2
<1>b. todo' = [todo EXCEPT ![j] = s]
  BY <1>3
<1> HIDE DEF s
<1>4. \A w : /\ ToDo(w) \in Nat /\ ToDo(w)' \in Nat
             /\ ToDo(w)' + Copies(todo[j], w) = ToDo(w) + Copies(s, w)
  BY <1>1, <1>a, <1>b, Moving, ZenonT(60)
<1>5. \A w : Copies(s, w) \in Nat
  BY <1>2, CopiesFinite
<1>6. \A w : ToDo(w)' + (IF todo[j][1] = w THEN 1 ELSE 0) = ToDo(w)
  BY <1>2, <1>4, <1>5
<1> QED
  BY <1>2, <1>3, <1>4, <1>6

LEMMA TakingAdds ==
  ASSUME IInv, NEW j \in Jobs, todo[j] # <<>>, todo' = [todo EXCEPT ![j] = Tail(@)],
         UNCHANGED calendar, astray \subseteq astray'
  PROVE  CalendarInv' /\ AddedOnce'
<1>1. TypeOK /\ CalendarInv
  BY Parts
<1>2. todo \in [Jobs -> Seq(Works)] /\ todo[j] \in Seq(Works) /\ Tail(todo[j]) \in Seq(Works)
  BY <1>1, CopiesOfTail DEF TypeOK
<1>3. CASE j = "monthly"
  <2>1. todo'["monthly"] = Tail(todo["monthly"])
    BY <1>2, <1>3
  <2>2. NoAdds(Tail(todo["monthly"]))
    BY <1>1, <1>3 DEF CalendarInv
  <2>3. todo'["monthly"] \in Seq(Works) /\ NoAdds(todo'["monthly"])
    BY <1>2, <1>3, <2>1, <2>2
  <2> QED
    BY <2>3, AddsKept
<1>4. CASE j # "monthly"
  <2>1. todo'["monthly"] = todo["monthly"]
    BY <1>2, <1>4 DEF Jobs, Cron
  <2> QED
    BY <2>1, AddsKept
<1> QED
  BY <1>3, <1>4

LEMMA MarkSeenKeeps ==
  ASSUME IInv, NEW j \in Jobs, MarkSeen(j)
  PROVE  Core'
<1> DEFINE n == About(j)
           x == <<"item", n>>
           t == Tail(todo[j])
           s == Later(t, x)
<1>1. TypeOK /\ Owing /\ Handled /\ MarksInv /\ CalendarInv /\ BaseInv
  BY Parts
<1>2. /\ todo[j] # <<>> /\ todo[j] \in Seq(Works) /\ todo[j][1] \in Works
      /\ todo[j][1][1] = "mark" /\ n = todo[j][1][2]
  BY <1>1, Heads DEF MarkSeen
<1>3. n \in News /\ x \in Works
  BY <1>2, WorkKinds, Working
<1>4. /\ UNCHANGED <<clock, tries, letters, made, base, calendar, astray>>
      /\ \/ seen[n] = 0 /\ seen' = [seen EXCEPT ![n] = day] /\ todo' = [todo EXCEPT ![j] = s]
         \/ seen[n] # 0 /\ UNCHANGED seen /\ todo' = [todo EXCEPT ![j] = t]
  BY DEF MarkSeen
<1>5. /\ UNCHANGED <<day, hour, fired, polls, open, polling, wiring, tries, dlq, down, waiting, owed, gone, alerted,
                     base, calendar, astray>>
      /\ day \in Nat \ {0} /\ seen \in [News -> Nat]
  BY <1>1, <1>4 DEF TypeOK, clock, letters, made
<1>6. BaseInv'
  BY <1>1, <1>5, BaseKept
<1> HIDE DEF n, x
<1>7. x = <<"item", n>> /\ todo \in [Jobs -> Seq(Works)]
  BY <1>1 DEF x, TypeOK
<1>8. CASE seen[n] = 0
  <2>1. seen' = [seen EXCEPT ![n] = day] /\ todo' = [todo EXCEPT ![j] = s]
    BY <1>4, <1>8
  <2>2. /\ t \in Seq(Works)
        /\ \A w : Copies(todo[j], w) = Copies(t, w) + (IF todo[j][1] = w THEN 1 ELSE 0)
    BY <1>2, CopiesOfTail
  <2>3. /\ s \in Seq(Works)
        /\ \A i \in DOMAIN s : s[i] = x \/ \E k \in DOMAIN t : s[i] = t[k]
        /\ \A w : Copies(s, w) = Copies(t, w) + (IF x = w THEN 1 ELSE 0)
    <3> HIDE DEF t
    <3>1. \A w : /\ Later(t, x) \in Seq(Works)
                 /\ \A i \in DOMAIN Later(t, x) :
                      Later(t, x)[i] = x \/ \E k \in DOMAIN t : Later(t, x)[i] = t[k]
                 /\ Copies(Later(t, x), w) = Copies(t, w) + (IF x = w THEN 1 ELSE 0)
      BY <1>3, <2>2, CopiesOfLater
    <3> QED
      BY <3>1
  <2> HIDE DEF s, t
  <2>4. \A w : /\ ToDo(w) \in Nat /\ ToDo(w)' \in Nat /\ Copies(t, w) \in Nat
               /\ ToDo(w)' + Copies(todo[j], w) = ToDo(w) + Copies(s, w)
    BY <1>7, <2>1, <2>2, <2>3, Moving, CopiesFinite
  <2>5. \A w : w # todo[j][1] => ToDo(w)' = ToDo(w) + (IF x = w THEN 1 ELSE 0)
    BY <2>2, <2>3, <2>4
  <2>6. todo' \in [Jobs -> Seq(Works)] /\ seen' \in [News -> Nat]
    BY <1>5, <1>7, <2>1, <2>3
  <2>7. TypeOK'
    BY <1>1, <1>5, <2>6 DEF TypeOK
  <2>8. Owing'
    <3>1. \A m \in Messages : m # todo[j][1] /\ m # x
      BY <1>2, <1>7, WorkKinds
    <3>2. \A m \in Messages : ToDo(m)' = ToDo(m)
      BY <2>4, <2>5, <3>1
    <3>3. \A m \in Messages : UnderWay(m)' = UnderWay(m)
      BY <1>5, <3>2 DEF UnderWay, Copies
    <3> QED
      BY <1>1, <1>5, <3>3 DEF Owing
  <2>9. Handled' /\ MarksInv'
    <3> SUFFICES ASSUME NEW p \in News
                 PROVE  /\ seen'[p] # 0 =>
                             alerted'[p] > 0 \/ <<"item", p>> \in astray' \/ ToDo(<<"item", p>>)' > 0
                        /\ seen'[p] <= day
                        /\ alerted'[p] + ToDo(<<"item", p>>)' <= IF seen'[p] = day THEN day ELSE day - 1
      BY <1>5 DEF Handled, MarksInv
    <3> DEFINE u == ToDo(<<"item", p>>)
               v == ToDo(<<"item", p>>)'
    <3>1. <<"item", p>> # todo[j][1]
      BY <1>2
    <3>2. u \in Nat /\ v \in Nat /\ v = u + (IF x = <<"item", p>> THEN 1 ELSE 0)
      BY <2>4, <2>5, <3>1
    <3>3. x = <<"item", p>> <=> p = n
      BY <1>7
    <3>4. /\ seen[p] # 0 => alerted[p] > 0 \/ <<"item", p>> \in astray \/ u > 0
          /\ seen[p] <= day /\ alerted[p] \in Nat
          /\ alerted[p] + u <= IF seen[p] = day THEN day ELSE day - 1
      BY <1>1 DEF Handled, MarksInv, TypeOK
    <3> HIDE DEF u, v
    <3>5. seen'[p] = (IF p = n THEN day ELSE seen[p]) /\ seen[p] \in Nat
      BY <1>3, <1>5, <2>1
    <3>6. CASE p = n
      BY <1>5, <1>8, <3>2, <3>3, <3>4, <3>5, <3>6 DEF u, v
    <3>7. CASE p # n
      BY <1>5, <3>2, <3>3, <3>4, <3>5, <3>7 DEF u, v
    <3> QED
      BY <3>6, <3>7
  <2>10. CalendarInv' /\ AddedOnce'
    <3>1. CASE j = "monthly"
      <4>1. NoAdds(t) /\ x[1] # "add"
        BY <1>1, <1>2, <1>7, <3>1 DEF CalendarInv, t
      <4>2. NoAdds(s)
        BY <2>3, <4>1 DEF NoAdds
      <4>3. todo'["monthly"] = s
        BY <1>7, <2>1, <3>1
      <4> QED
        BY <1>5, <2>3, <4>2, <4>3, AddsKept
    <3>2. CASE j # "monthly"
      <4>1. todo'["monthly"] = todo["monthly"]
        BY <1>7, <2>1, <3>2 DEF Jobs, Cron
      <4> QED
        BY <1>5, <4>1, AddsKept
    <3> QED
      BY <3>1, <3>2
  <2>11. (TypeOK /\ Owing /\ Handled /\ MarksInv /\ CalendarInv /\ AddedOnce /\ BaseInv)'
    BY <1>6, <2>7, <2>8, <2>9, <2>10
  <2> QED
    BY <2>11, Parts, PTL
<1>9. CASE seen[n] # 0
  <2>1. UNCHANGED seen /\ todo' = [todo EXCEPT ![j] = Tail(@)]
    BY <1>4, <1>9
  <2>2. /\ todo' \in [Jobs -> Seq(Works)]
        /\ \A w : /\ ToDo(w) \in Nat /\ ToDo(w)' \in Nat
                  /\ ToDo(w)' + (IF todo[j][1] = w THEN 1 ELSE 0) = ToDo(w)
    BY <1>1, <1>2, <2>1, Taking
  <2>3. \A w : w # todo[j][1] => ToDo(w)' = ToDo(w)
    BY <2>2
  <2>4. TypeOK'
    BY <1>1, <1>5, <2>1, <2>2 DEF TypeOK
  <2>5. Owing'
    <3>1. \A m \in Messages : ToDo(m)' = ToDo(m)
      BY <1>2, <2>3, WorkKinds
    <3>2. \A m \in Messages : UnderWay(m)' = UnderWay(m)
      BY <1>5, <3>1 DEF UnderWay, Copies
    <3> QED
      BY <1>1, <1>5, <3>2 DEF Owing
  <2>6. Handled' /\ MarksInv'
    <3>1. \A p \in News : <<"item", p>> # todo[j][1]
      BY <1>2
    <3>2. \A p \in News : ToDo(<<"item", p>>)' = ToDo(<<"item", p>>)
      BY <2>3, <3>1
    <3> QED
      BY <1>1, <1>5, <2>1, <3>2 DEF Handled, MarksInv
  <2>7. CalendarInv' /\ AddedOnce'
    BY <1>2, <1>5, <2>1, TakingAdds
  <2>8. (TypeOK /\ Owing /\ Handled /\ MarksInv /\ CalendarInv /\ AddedOnce /\ BaseInv)'
    BY <1>6, <2>4, <2>5, <2>6, <2>7
  <2> QED
    BY <2>8, Parts, PTL
<1> QED
  BY <1>8, <1>9

(* No item, no alert and no entry to add among these.                      *)
Harmless(s) == \A i \in 1 .. Len(s) : s[i][1] \notin {"add", "item", "news", "fx"}

LEMMA HarmlessNumbers ==
  ASSUME NEW s \in Seq(Works), Harmless(s)
  PROVE  /\ NoAdds(s)
         /\ \A n \in News : Copies(s, <<"item", n>>) = 0 /\ Copies(s, <<"news", n>>) = 0
<1>1. DOMAIN s = 1 .. Len(s)
  BY LenProperties
<1>2. NoAdds(s)
  BY <1>1 DEF NoAdds, Harmless
<1>3. ASSUME NEW n \in News PROVE Copies(s, <<"item", n>>) = 0 /\ Copies(s, <<"news", n>>) = 0
  <2>1. \A i \in 1 .. Len(s) : s[i] # <<"item", n>> /\ s[i] # <<"news", n>>
    BY DEF Harmless
  <2>2. Copies(s, <<"item", n>>) = 0
    BY <2>1, CopiesOfOthers
  <2>3. Copies(s, <<"news", n>>) = 0
    BY <2>1, CopiesOfOthers
  <2> QED
    BY <2>2, <2>3
<1> QED
  BY <1>2, <1>3

LEMMA Plans ==
  ASSUME NEW j \in Cron \union Interval
  PROVE  Plan(j) \in Seq(Works) /\ Harmless(Plan(j))
<1> DEFINE W(k) == <<k, 0>>
<1>1. /\ W("fetch") \in Works /\ W("brief") \in Works /\ W("usfetch") \in Works /\ W("rate") \in Works
      /\ W("earnings") \in Works /\ W("report") \in Works
  BY Working
<1>2. CASE j = "monthly"
  <2> DEFINE s == [i \in 1 .. Cardinality(Events) |-> <<"check", SetToSeq(Events)[i]>>]
  <2>1. Plan(j) = s
    BY <1>2 DEF Plan
  <2>2. s \in Seq({"check"} \X Events)
    BY InfoAssumption, Listing
  <2> HIDE DEF s
  <2>3. \A i \in 1 .. Len(s) : s[i][1] = "check"
    BY <2>2, Listed
  <2>4. {"check"} \X Events \subseteq Works
    <3>1. \A e \in Events : <<"check", e>> \in Works
      BY Working
    <3> QED
      BY <3>1
  <2>5. s \in Seq(Works)
    BY <2>2, <2>4, SeqMonotonic
  <2> QED
    BY <2>1, <2>3, <2>5 DEF Harmless
<1>3. CASE j = "brief"
  <2>1. CASE polling
    <3>1. Plan(j) = <<W("fetch")>> \o <<W("brief")>>
      BY <1>3, <2>1 DEF Plan
    <3>2. <<W("fetch")>> \in Seq(Works) /\ <<W("brief")>> \in Seq(Works)
      BY <1>1
    <3>3. /\ <<W("fetch")>> \o <<W("brief")>> \in Seq(Works)
          /\ Len(<<W("fetch")>> \o <<W("brief")>>) = Len(<<W("fetch")>>) + Len(<<W("brief")>>)
          /\ \A i \in 1 .. Len(<<W("fetch")>>) + Len(<<W("brief")>>) :
               (<<W("fetch")>> \o <<W("brief")>>)[i] =
                 IF i <= Len(<<W("fetch")>>) THEN <<W("fetch")>>[i] ELSE <<W("brief")>>[i - Len(<<W("fetch")>>)]
      BY <3>2, ConcatProperties
    <3>4. Len(<<W("fetch")>>) = 1 /\ Len(<<W("brief")>>) = 1
      OBVIOUS
    <3>5. /\ Plan(j) \in Seq(Works) /\ Len(Plan(j)) = 2
          /\ Plan(j)[1] = W("fetch") /\ Plan(j)[2] = W("brief")
      BY <3>1, <3>3, <3>4
    <3>6. \A i \in 1 .. 2 : i = 1 \/ i = 2
      OBVIOUS
    <3> QED
      BY <3>5, <3>6 DEF Harmless
  <2>2. CASE ~polling
    <3>1. Plan(j) = <<>> \o <<W("brief")>>
      BY <1>3, <2>2 DEF Plan
    <3>2. Plan(j) = <<W("brief")>>
      BY <3>1
    <3> QED
      BY <1>1, <3>2 DEF Harmless
  <2> QED
    BY <2>1, <2>2
<1>4. CASE j \in {"rss", "usnews", "fx", "earnings", "report"}
  <2>1. Plan(j) \in {<<>>, <<W("fetch")>>, <<W("usfetch")>>, <<W("rate")>>, <<W("earnings")>>,
                    <<W("report"), W("report")>>}
    BY <1>4 DEF Plan
  <2>2. CASE Plan(j) = <<>>
    BY <2>2 DEF Harmless
  <2>3. ASSUME NEW k \in {"fetch", "usfetch", "rate", "earnings"}, Plan(j) = <<W(k)>>
        PROVE  Plan(j) \in Seq(Works) /\ Harmless(Plan(j))
    BY <1>1, <2>3 DEF Harmless
  <2>4. CASE Plan(j) = <<W("report"), W("report")>>
    <3>1. Plan(j) \in Seq(Works)
      BY <1>1, <2>4
    <3>2. Len(Plan(j)) = 2 /\ \A i \in 1 .. 2 : Plan(j)[i] = W("report")
      BY <2>4
    <3> QED
      BY <3>1, <3>2 DEF Harmless
  <2> QED
    BY <2>1, <2>2, <2>3, <2>4
<1> QED
  BY <1>2, <1>3, <1>4 DEF Cron, Interval

LEMMA FireKeeps ==
  ASSUME IInv, NEW j \in Cron \union Interval, Fire(j)
  PROVE  Core'
<1> DEFINE s == Plan(j)
<1>1. /\ TypeOK /\ Owing /\ Handled /\ MarksInv /\ BaseInv
      /\ j \in Jobs /\ todo \in [Jobs -> Seq(Works)]
  BY Parts DEF Jobs, TypeOK
<1>2. /\ todo[j] = <<>> /\ todo' = [todo EXCEPT ![j] = s] /\ Composed(s)
      /\ UNCHANGED <<day, hour, open, polling, wiring, tries, dlq, down, waiting, seen, base, calendar, astray>>
      /\ \/ j \in Cron /\ fired' = fired \union {j} /\ polls' = polls
         \/ polls' = polls + 1 /\ fired' = fired
  BY DEF Fire, letters
<1>3. s \in Seq(Works) /\ Harmless(s)
  BY Plans
<1> HIDE DEF s
<1>4. NoAdds(s) /\ \A n \in News : Copies(s, <<"item", n>>) = 0 /\ Copies(s, <<"news", n>>) = 0
  BY <1>3, HarmlessNumbers
<1>5. \A w : ToDo(w) \in Nat /\ ToDo(w)' \in Nat /\ ToDo(w)' + Copies(todo[j], w) = ToDo(w) + Copies(s, w)
  BY <1>1, <1>2, <1>3, Moving
<1>6. \A w : Copies(s, w) \in Nat
  BY <1>3, CopiesFinite
<1>7. \A w : Copies(todo[j], w) = 0
  BY <1>2, CopiesOfNone
<1>8. \A w : ToDo(w)' = ToDo(w) + Copies(s, w)
  BY <1>5, <1>6, <1>7
<1>9. /\ owed' \in [Messages -> Nat] /\ alerted' \in [News -> Nat]
      /\ \A m \in Messages : owed'[m] = owed[m] + Copies(s, m)
      /\ \A n \in News : alerted'[n] = alerted[n] + Copies(s, <<"news", n>>)
      /\ gone' = gone
  BY <1>1, <1>2, <1>3, Composing
<1>10. TypeOK'
  <2>1. todo' \in [Jobs -> Seq(Works)] /\ fired' \subseteq Cron /\ polls' \in Nat
    BY <1>1, <1>2, <1>3 DEF TypeOK
  <2> QED
    BY <1>1, <1>2, <1>9, <2>1 DEF TypeOK
<1>11. Owing'
  <2>1. \A m : Copies(dlq, m) \in Nat /\ Copies(waiting, m) \in Nat
    BY <1>1, CopiesFinite DEF TypeOK
  <2>2. ASSUME NEW m \in Messages
        PROVE  owed'[m] = Copies(dlq, m) + Copies(waiting, m) + ToDo(m)'
    <3>1. owed[m] = Copies(dlq, m) + Copies(waiting, m) + ToDo(m)
      BY <1>1, <2>2 DEF Owing, UnderWay
    <3>2. ToDo(m)' = ToDo(m) + Copies(s, m) /\ ToDo(m) \in Nat
      BY <1>5, <1>8
    <3> QED
      BY <1>6, <1>9, <2>1, <3>1, <3>2
  <2>3. \A m : UnderWay(m)' = Copies(dlq, m) + Copies(waiting, m) + ToDo(m)'
    BY <1>2 DEF UnderWay, Copies
  <2> QED
    BY <1>1, <1>2, <2>2, <2>3 DEF Owing
<1>12. Handled' /\ MarksInv'
  <2>1. ASSUME NEW n \in News PROVE ToDo(<<"item", n>>)' = ToDo(<<"item", n>>) /\ alerted'[n] = alerted[n]
    <3>1. ToDo(<<"item", n>>)' = ToDo(<<"item", n>>) + Copies(s, <<"item", n>>)
      BY <1>8
    <3>2. ToDo(<<"item", n>>) \in Nat /\ alerted[n] \in Nat
      BY <1>1, <1>5 DEF TypeOK
    <3>3. Copies(s, <<"item", n>>) = 0 /\ Copies(s, <<"news", n>>) = 0
      BY <1>4
    <3>4. ToDo(<<"item", n>>)' = ToDo(<<"item", n>>)
      BY <3>1, <3>2, <3>3
    <3>5. alerted'[n] = alerted[n]
      BY <1>9, <3>2, <3>3
    <3> QED
      BY <3>4, <3>5
  <2> QED
    BY <1>1, <1>2, <2>1 DEF Handled, MarksInv
<1>13. CalendarInv' /\ AddedOnce'
  <2>1. todo'["monthly"] = todo["monthly"] \/ todo'["monthly"] = s
    BY <1>1, <1>2 DEF Jobs, Cron
  <2> QED
    BY <1>2, <1>3, <1>4, <2>1, AddsKept
<1>14. BaseInv'
  BY <1>1, <1>2, BaseKept
<1>15. (TypeOK /\ Owing /\ Handled /\ MarksInv /\ CalendarInv /\ AddedOnce /\ BaseInv)'
  BY <1>10, <1>11, <1>12, <1>13, <1>14
<1> QED
  BY <1>15, Parts, PTL

LEMMA JobFailsKeeps ==
  ASSUME IInv, NEW j \in Jobs, JobFails(j)
  PROVE  Core'
<1> DEFINE s == IF j = "brief" THEN <<<<"escalation", 0>>>> ELSE <<>>
<1>1. /\ TypeOK /\ Owing /\ Handled /\ MarksInv /\ BaseInv
      /\ todo \in [Jobs -> Seq(Works)] /\ todo[j] \in Seq(Works)
  BY Parts DEF TypeOK
<1>2. /\ todo' = [todo EXCEPT ![j] = s] /\ astray' = astray \union ToSet(todo[j])
      /\ owed' = [m \in Messages |-> owed[m] - Copies(todo[j], m) + Copies(s, m)]
      /\ gone' = gone \/ gone' = gone \union {"job"}
      /\ UNCHANGED <<day, hour, fired, polls, open, polling, wiring, tries, dlq, down, waiting, alerted, seen, base, calendar>>
  BY DEF JobFails, clock, letters
<1>3. s \in Seq(Works) /\ Harmless(s)
  <2>1. <<"escalation", 0>> \in Works
    BY Working
  <2> QED
    BY <2>1 DEF Harmless
<1> HIDE DEF s
<1>4. NoAdds(s) /\ \A n \in News : Copies(s, <<"item", n>>) = 0 /\ Copies(s, <<"news", n>>) = 0
  BY <1>3, HarmlessNumbers
<1>5. \A w : ToDo(w) \in Nat /\ ToDo(w)' \in Nat /\ ToDo(w)' + Copies(todo[j], w) = ToDo(w) + Copies(s, w)
  BY <1>1, <1>2, <1>3, Moving
<1>6. \A w : Copies(s, w) \in Nat /\ Copies(todo[j], w) \in Nat
  BY <1>1, <1>3, CopiesFinite
<1>7. \A i \in 1 .. Len(todo[j]) : todo[j][i] \in astray' /\ todo[j][i] \in Works
  BY <1>1, <1>2, LenProperties, ElementOfSeq DEF ToSet
<1>8. astray \subseteq astray' /\ astray' \subseteq Works
  <2>1. ToSet(todo[j]) \subseteq Works
    BY <1>1, <1>7, LenProperties DEF ToSet
  <2> QED
    BY <1>1, <1>2, <2>1 DEF TypeOK
<1>9. \A w : w \notin astray' => Copies(todo[j], w) = 0
  BY <1>1, <1>7, CopiesOfOthers
<1>10. ASSUME NEW m \in Messages
       PROVE  owed'[m] = UnderWay(m)' /\ owed'[m] \in Nat
  <2>1. Copies(dlq, m) \in Nat /\ Copies(waiting, m) \in Nat
    BY <1>1, CopiesFinite DEF TypeOK
  <2>2. owed[m] = Copies(dlq, m) + Copies(waiting, m) + ToDo(m)
    BY <1>1 DEF Owing, UnderWay
  <2>3. UnderWay(m)' = Copies(dlq, m) + Copies(waiting, m) + ToDo(m)'
    BY <1>2 DEF UnderWay, Copies
  <2>4. owed'[m] = owed[m] - Copies(todo[j], m) + Copies(s, m)
    BY <1>2
  <2>5. ToDo(m) \in Nat /\ ToDo(m)' \in Nat /\ ToDo(m)' + Copies(todo[j], m) = ToDo(m) + Copies(s, m)
    BY <1>5
  <2>6. Copies(s, m) \in Nat /\ Copies(todo[j], m) \in Nat
    BY <1>6
  <2>7. owed'[m] = Copies(dlq, m) + Copies(waiting, m) + ToDo(m)'
    BY <2>1, <2>2, <2>4, <2>5, <2>6
  <2> QED
    BY <2>1, <2>3, <2>5, <2>7
<1>11. owed' \in [Messages -> Nat]
  BY <1>2, <1>10
<1>12. TypeOK'
  <2>1. todo' \in [Jobs -> Seq(Works)] /\ gone' \subseteq Ways
    BY <1>1, <1>2, <1>3 DEF TypeOK, Ways
  <2> QED
    BY <1>1, <1>2, <1>8, <1>11, <2>1 DEF TypeOK
<1>13. Owing'
  BY <1>10 DEF Owing
<1>14. Handled' /\ MarksInv'
  <2> SUFFICES ASSUME NEW n \in News
               PROVE  /\ seen'[n] # 0 =>
                           alerted'[n] > 0 \/ <<"item", n>> \in astray' \/ ToDo(<<"item", n>>)' > 0
                      /\ seen'[n] <= day
                      /\ alerted'[n] + ToDo(<<"item", n>>)' <= IF seen'[n] = day THEN day ELSE day - 1
    BY <1>2 DEF Handled, MarksInv
  <2> DEFINE t == ToDo(<<"item", n>>)
             u == ToDo(<<"item", n>>)'
             c == Copies(todo[j], <<"item", n>>)
  <2>1. t \in Nat /\ u \in Nat /\ c \in Nat /\ u + c = t + Copies(s, <<"item", n>>)
    BY <1>5, <1>6
  <2>2. Copies(s, <<"item", n>>) = 0 /\ Copies(s, <<"news", n>>) = 0
    BY <1>4
  <2>3. <<"item", n>> \notin astray' => c = 0
    BY <1>9
  <2>4. alerted'[n] = alerted[n] /\ alerted[n] \in Nat /\ seen[n] \in Nat /\ day \in Nat \ {0}
    BY <1>1, <1>2 DEF TypeOK
  <2>5. /\ seen[n] # 0 => alerted[n] > 0 \/ <<"item", n>> \in astray \/ t > 0
        /\ seen[n] <= day
        /\ alerted[n] + t <= IF seen[n] = day THEN day ELSE day - 1
    BY <1>1 DEF Handled, MarksInv
  <2> HIDE DEF t, u, c
  <2>6. u + c = t
    BY <2>1, <2>2
  <2>7. u <= t
    BY <2>1, <2>6
  <2>8. alerted'[n] + u <= IF seen[n] = day THEN day ELSE day - 1
    BY <2>1, <2>4, <2>5, <2>7
  <2>9. seen[n] # 0 => alerted[n] > 0 \/ <<"item", n>> \in astray' \/ u > 0
    <3>1. CASE <<"item", n>> \in astray'
      BY <3>1
    <3>2. CASE <<"item", n>> \notin astray'
      <4>1. u = t
        BY <2>1, <2>3, <2>6, <3>2
      <4> QED
        BY <1>8, <2>5, <3>2, <4>1
    <3> QED
      BY <3>1, <3>2
  <2> QED
    BY <1>2, <2>4, <2>5, <2>8, <2>9 DEF u
<1>15. CalendarInv' /\ AddedOnce'
  <2>1. todo'["monthly"] = todo["monthly"] \/ todo'["monthly"] = s
    BY <1>1, <1>2 DEF Jobs, Cron
  <2> QED
    BY <1>2, <1>3, <1>4, <1>8, <2>1, AddsKept
<1>16. BaseInv'
  BY <1>1, <1>2, BaseKept
<1>17. (TypeOK /\ Owing /\ Handled /\ MarksInv /\ CalendarInv /\ AddedOnce /\ BaseInv)'
  BY <1>12, <1>13, <1>14, <1>15, <1>16
<1> QED
  BY <1>17, Parts, PTL

LEMMA TickKeeps ==
  ASSUME IInv, Tick
  PROVE  Core'
<1>1. TypeOK /\ Owing /\ Handled /\ MarksInv /\ CalendarInv /\ AddedOnce /\ BaseInv
  BY Parts
<1>2. /\ UNCHANGED <<polling, wiring, todo, tries, dlq, down, waiting, owed, gone, alerted, seen, base, calendar, astray>>
      /\ \/ hour < Len(Hours) /\ hour' = hour + 1 /\ UNCHANGED <<day, fired, polls, open>>
         \/ day' = day + 1 /\ hour' = 1 /\ fired' = {} /\ polls' = 0 /\ open' \in Rates \ {0}
  BY DEF Tick, letters, made
<1>3. Len(Hours) = 6 /\ DOMAIN Hours = 1 .. 6
  BY DEF Hours
<1>4. TypeOK'
  <2>1. CASE hour < Len(Hours) /\ hour' = hour + 1 /\ UNCHANGED <<day, fired, polls, open>>
    <3>1. hour \in 1 .. 6
      BY <1>1, <1>3 DEF TypeOK
    <3>2. hour' \in DOMAIN Hours
      BY <1>3, <2>1, <3>1
    <3> QED
      BY <1>1, <1>2, <2>1, <3>2 DEF TypeOK
  <2>2. CASE day' = day + 1 /\ hour' = 1 /\ fired' = {} /\ polls' = 0 /\ open' \in Rates \ {0}
    <3>1. hour' \in DOMAIN Hours /\ day' \in Nat \ {0}
      BY <1>1, <1>3, <2>2 DEF TypeOK
    <3> QED
      BY <1>1, <1>2, <2>2, <3>1 DEF TypeOK
  <2> QED
    BY <1>2, <2>1, <2>2
<1>5. \A w : ToDo(w)' = ToDo(w) /\ UnderWay(w)' = UnderWay(w)
  BY <1>2 DEF ToDo, Places, UnderWay, Copies
<1>6. Owing'
  BY <1>1, <1>2, <1>5 DEF Owing
<1>7. \A n \in News : ToDo(<<"item", n>>)' = ToDo(<<"item", n>>)
  BY <1>5
<1>8. Handled'
  BY <1>1, <1>2, <1>7 DEF Handled
<1>9. day' \in {day, day + 1} /\ day \in Nat \ {0}
  BY <1>1, <1>2 DEF TypeOK
<1>10. MarksInv'
  <2> SUFFICES ASSUME NEW n \in News
               PROVE  /\ seen[n] <= day'
                      /\ alerted[n] + ToDo(<<"item", n>>) <= IF seen[n] = day' THEN day' ELSE day' - 1
    BY <1>2, <1>7 DEF MarksInv
  <2> DEFINE b == alerted[n] + ToDo(<<"item", n>>)
  <2>1. seen[n] <= day /\ b <= (IF seen[n] = day THEN day ELSE day - 1) /\ seen[n] \in Nat
    BY <1>1 DEF MarksInv, TypeOK
  <2>2. b \in Nat
    <3>1. todo \in [Jobs -> Seq(Works)] /\ alerted[n] \in Nat
      BY <1>1 DEF TypeOK
    <3>2. ToDo(<<"item", n>>) = Cardinality(PlacesIn(todo, Jobs, <<"item", n>>))
      BY DEF ToDo, Places, PlacesIn
    <3>3. ToDo(<<"item", n>>) \in Nat
      BY <3>1, <3>2, PlacesFinite
    <3> QED
      BY <3>1, <3>3
  <2> HIDE DEF b
  <2>3. seen[n] <= day' /\ b <= IF seen[n] = day' THEN day' ELSE day' - 1
    <3>1. CASE day' = day
      BY <2>1, <3>1
    <3>2. CASE day' = day + 1
      <4>1. seen[n] # day' /\ seen[n] <= day' /\ b <= day
        BY <1>9, <2>1, <2>2, <3>2
      <4>2. day' - 1 = day
        BY <1>9, <3>2
      <4> QED
        BY <4>1, <4>2
    <3> QED
      BY <1>9, <3>1, <3>2
  <2> QED
    BY <2>3 DEF b
<1>11. CalendarInv' /\ AddedOnce'
  BY <1>2, AddsKept
<1>12. BaseInv'
  BY <1>1, <1>2 DEF BaseInv, TypeOK
<1>13. (TypeOK /\ Owing /\ Handled /\ MarksInv /\ CalendarInv /\ AddedOnce /\ BaseInv)'
  BY <1>4, <1>6, <1>8, <1>10, <1>11, <1>12
<1> QED
  BY <1>13, Parts, PTL

(* A message is off its list; where it went is the case of each caller.    *)
LEMMA SettledKeeps ==
  ASSUME IInv, NEW j \in Jobs, Sending(j), Settled(j),
         UNCHANGED <<clock, down, seen, base, calendar, astray>>,
         owed' \in [Messages -> Nat], gone' \subseteq Ways,
         dlq' \in Seq(Messages), Len(dlq') <= DlqMax,
         waiting' \in Seq(Messages), Len(waiting') <= QueueMax,
         Owing'
  PROVE  Core'
<1> DEFINE m == todo[j][1]
<1>1. TypeOK /\ Handled /\ MarksInv /\ BaseInv
  BY Parts
<1>2. /\ todo[j] # <<>> /\ m \in Messages
      /\ todo' = [todo EXCEPT ![j] = Tail(@)] /\ tries' = [tries EXCEPT ![j] = 0] /\ alerted' = alerted
  BY DEF Sending, Settled
<1> HIDE DEF m
<1>3. /\ todo' \in [Jobs -> Seq(Works)]
      /\ \A w : /\ ToDo(w) \in Nat /\ ToDo(w)' \in Nat
                /\ ToDo(w)' + (IF todo[j][1] = w THEN 1 ELSE 0) = ToDo(w)
  BY <1>1, <1>2, Taking
<1>4. TypeOK'
  <2>1. tries' \in [Jobs -> 0 .. Retries - 1]
    BY <1>1, <1>2, Constants DEF TypeOK
  <2> QED
    BY <1>1, <1>2, <1>3, <2>1 DEF TypeOK, clock
<1>5. Handled' /\ MarksInv'
  <2>1. \A n \in News : <<"item", n>> # todo[j][1]
    BY <1>2, WorkKinds DEF m
  <2>2. \A w : w # todo[j][1] => ToDo(w)' = ToDo(w)
    BY <1>3
  <2>3. \A n \in News : ToDo(<<"item", n>>)' = ToDo(<<"item", n>>)
    BY <2>1, <2>2
  <2> QED
    BY <1>1, <1>2, <2>3 DEF Handled, MarksInv, clock
<1>6. CalendarInv' /\ AddedOnce'
  BY <1>2, TakingAdds
<1>7. BaseInv'
  BY <1>1, BaseKept DEF clock
<1>8. (TypeOK /\ Owing /\ Handled /\ MarksInv /\ CalendarInv /\ AddedOnce /\ BaseInv)'
  BY <1>4, <1>5, <1>6, <1>7
<1> QED
  BY <1>8, Parts, PTL

LEMMA SendTextKeeps ==
  ASSUME IInv, NEW j \in Jobs, SendText(j)
  PROVE  Core'
<1> DEFINE m == todo[j][1]
<1>1. TypeOK /\ Owing /\ Handled /\ MarksInv /\ CalendarInv /\ AddedOnce /\ BaseInv
  BY Parts
<1>2. /\ Sending(j) /\ todo[j] # <<>> /\ m \in Messages
      /\ UNCHANGED <<clock, down, seen, base, calendar>>
  BY DEF SendText, Sending
<1>3. /\ dlq \in Seq(Messages) /\ waiting \in Seq(Messages) /\ Len(dlq) <= DlqMax /\ Len(waiting) <= QueueMax
      /\ owed \in [Messages -> Nat] /\ gone \subseteq Ways
      /\ DlqMax \in Nat /\ QueueMax \in Nat /\ Len(dlq) \in Nat /\ Len(waiting) \in Nat
  BY <1>1, <1>2, Constants, LenProperties DEF TypeOK
<1>4. /\ UNCHANGED astray
      /\ \/ Settled(j) /\ NoLongerOwed(j) /\ UNCHANGED <<gone, dlq, waiting>>
         \/ Failed(j) /\ UNCHANGED waiting
         \/ Queued(j) /\ UNCHANGED dlq
  BY DEF SendText
<1>5. \A w : Copies(dlq, w) \in Nat /\ Copies(waiting, w) \in Nat
  BY <1>3, CopiesFinite
<1>6. ASSUME Settled(j)
      PROVE  \A w : /\ ToDo(w) \in Nat /\ ToDo(w)' \in Nat
                    /\ ToDo(w)' + (IF m = w THEN 1 ELSE 0) = ToDo(w)
  <2>1. todo' = [todo EXCEPT ![j] = Tail(@)]
    BY <1>6 DEF Settled
  <2> QED
    BY <1>1, <1>2, <2>1, Taking
<1>7. \A w : UnderWay(w)' = Copies(dlq', w) + Copies(waiting', w) + ToDo(w)'
  BY DEF UnderWay, Copies
<1>8. \A p \in Messages : owed[p] = Copies(dlq, p) + Copies(waiting, p) + ToDo(p) /\ owed[p] \in Nat
  BY <1>1, <1>3 DEF Owing, UnderWay
<1>m. m \in Messages /\ m = todo[j][1]
  BY <1>2
<1> HIDE DEF m
(* Delivered, or refused: it is owed no longer.                            *)
<1>9. ASSUME Settled(j), NoLongerOwed(j), UNCHANGED <<dlq, waiting>>
      PROVE  Owing' /\ owed' \in [Messages -> Nat]
  <2>1. owed' = [owed EXCEPT ![m] = @ - 1]
    BY <1>9, <1>m DEF NoLongerOwed
  <2>2. ASSUME NEW p \in Messages
        PROVE  owed'[p] = Copies(dlq, p) + Copies(waiting, p) + ToDo(p)' /\ owed'[p] \in Nat
    <3>1. owed[p] = Copies(dlq, p) + Copies(waiting, p) + ToDo(p) /\ owed[p] \in Nat
      BY <1>8
    <3>2. ToDo(p) \in Nat /\ ToDo(p)' \in Nat /\ ToDo(p)' + (IF m = p THEN 1 ELSE 0) = ToDo(p)
      BY <1>6, <1>9
    <3>3. Copies(dlq, p) \in Nat /\ Copies(waiting, p) \in Nat
      BY <1>5
    <3>4. CASE p = m
      <4>1. ToDo(p)' + 1 = ToDo(p)
        BY <3>2, <3>4
      <4>2. owed'[p] = owed[p] - 1
        BY <1>3, <2>1, <3>4
      <4> QED
        BY <3>1, <3>2, <3>3, <4>1, <4>2
    <3>5. CASE p # m
      <4>1. owed'[p] = owed[p] /\ ToDo(p)' = ToDo(p)
        BY <1>3, <2>1, <3>2, <3>5
      <4> QED
        BY <3>1, <4>1
    <3> QED
      BY <3>4, <3>5
  <2>3. Owing'
    BY <1>7, <1>9, <2>2 DEF Owing
  <2>4. owed' \in [Messages -> Nat]
    BY <1>3, <2>1, <2>2
  <2> QED
    BY <2>3, <2>4
(* Handed on: to the dead letters or to the queue.                         *)
<1>10. ASSUME Settled(j), UNCHANGED owed,
              \A p : Copies(dlq', p) + Copies(waiting', p) =
                       Copies(dlq, p) + Copies(waiting, p) + (IF m = p THEN 1 ELSE 0)
       PROVE  Owing' /\ owed' \in [Messages -> Nat]
  <2>1. ASSUME NEW p \in Messages
        PROVE  owed'[p] = UnderWay(p)'
    <3>1. owed'[p] = Copies(dlq, p) + Copies(waiting, p) + ToDo(p)
      BY <1>8, <1>10
    <3>2. ToDo(p) \in Nat /\ ToDo(p)' \in Nat /\ ToDo(p)' + (IF m = p THEN 1 ELSE 0) = ToDo(p)
      BY <1>6, <1>10
    <3>3. Copies(dlq, p) \in Nat /\ Copies(waiting, p) \in Nat
      BY <1>5
    <3>4. Copies(dlq', p) + Copies(waiting', p) =
            Copies(dlq, p) + Copies(waiting, p) + (IF m = p THEN 1 ELSE 0)
      BY <1>10
    <3>5. UnderWay(p)' = Copies(dlq', p) + Copies(waiting', p) + ToDo(p)'
      BY <1>7
    <3>6. UnderWay(p)' = Copies(dlq, p) + Copies(waiting, p) + (IF m = p THEN 1 ELSE 0) + ToDo(p)'
      BY <3>4, <3>5
    <3> QED
      BY <3>1, <3>2, <3>3, <3>6
  <2> QED
    BY <1>3, <1>10, <2>1 DEF Owing
<1>11. CASE Settled(j) /\ NoLongerOwed(j) /\ UNCHANGED <<gone, dlq, waiting>>
  BY <1>2, <1>3, <1>4, <1>9, <1>11, SettledKeeps
<1>12. CASE Failed(j) /\ UNCHANGED waiting
  <2>1. CASE tries[j] + 1 < Retries
    <3>1. tries' = [tries EXCEPT ![j] = @ + 1] /\ UNCHANGED <<todo, owed, gone, alerted, dlq, astray>>
      BY <1>4, <1>12, <2>1 DEF Failed, made
    <3>2. tries' \in [Jobs -> 0 .. Retries - 1]
      BY <1>1, <2>1, <3>1, Constants DEF TypeOK
    <3>3. UNCHANGED <<day, hour, fired, polls, open, polling, wiring, down, waiting, seen, base, calendar>>
      BY <1>2, <1>12 DEF clock
    <3>4. TypeOK'
      BY <1>1, <3>1, <3>2, <3>3 DEF TypeOK
    <3>5. Owing' /\ Handled' /\ MarksInv'
      BY <1>1, <3>1, <3>3, NumbersKept
    <3>6. CalendarInv' /\ AddedOnce' /\ BaseInv'
      BY <1>1, <3>1, <3>3, AddsKept, BaseKept
    <3>7. (TypeOK /\ Owing /\ Handled /\ MarksInv /\ CalendarInv /\ AddedOnce /\ BaseInv)'
      BY <3>4, <3>5, <3>6
    <3> QED
      BY <3>7, Parts, PTL
  <2>2. CASE ~(tries[j] + 1 < Retries) /\ Len(dlq) < DlqMax
    <3>1. Settled(j) /\ dlq' = Append(dlq, m) /\ UNCHANGED <<owed, gone, waiting>>
      BY <1>12, <1>m, <2>2 DEF Failed
    <3>2. /\ dlq' \in Seq(Messages) /\ Len(dlq') = Len(dlq) + 1
          /\ \A p : Copies(dlq', p) = Copies(dlq, p) + (IF m = p THEN 1 ELSE 0)
      BY <1>3, <1>m, <3>1, CopiesOfAppend
    <3>3. \A p : Copies(dlq', p) + Copies(waiting', p) =
                   Copies(dlq, p) + Copies(waiting, p) + (IF m = p THEN 1 ELSE 0)
      BY <1>5, <3>1, <3>2
    <3>4. Len(dlq') <= DlqMax
      BY <1>3, <2>2, <3>2
    <3> QED
      BY <1>2, <1>3, <1>4, <1>10, <3>1, <3>2, <3>3, <3>4, SettledKeeps
  <2>3. CASE ~(tries[j] + 1 < Retries) /\ ~(Len(dlq) < DlqMax)
    <3>1. /\ Settled(j) /\ NoLongerOwed(j) /\ UNCHANGED <<dlq, waiting>>
          /\ gone' = gone \union {"letters full"}
      BY <1>12, <2>3 DEF Failed
    <3>2. gone' \subseteq Ways
      BY <1>3, <3>1 DEF Ways
    <3> QED
      BY <1>2, <1>3, <1>4, <1>9, <3>1, <3>2, SettledKeeps
  <2> QED
    BY <2>1, <2>2, <2>3
<1>13. CASE Queued(j) /\ UNCHANGED dlq
  <2>1. CASE Len(waiting) < QueueMax
    <3>1. Settled(j) /\ waiting' = Append(waiting, m) /\ UNCHANGED <<owed, gone, dlq>>
      BY <1>13, <1>m, <2>1 DEF Queued
    <3>2. /\ waiting' \in Seq(Messages) /\ Len(waiting') = Len(waiting) + 1
          /\ \A p : Copies(waiting', p) = Copies(waiting, p) + (IF m = p THEN 1 ELSE 0)
      BY <1>3, <1>m, <3>1, CopiesOfAppend
    <3>3. \A p : Copies(dlq', p) + Copies(waiting', p) =
                   Copies(dlq, p) + Copies(waiting, p) + (IF m = p THEN 1 ELSE 0)
      BY <1>5, <3>1, <3>2
    <3>4. Len(waiting') <= QueueMax
      BY <1>3, <2>1, <3>2
    <3> QED
      BY <1>2, <1>3, <1>4, <1>10, <3>1, <3>2, <3>3, <3>4, SettledKeeps
  <2>2. CASE ~(Len(waiting) < QueueMax)
    <3>1. /\ Settled(j) /\ NoLongerOwed(j) /\ UNCHANGED <<dlq, waiting>>
          /\ gone' = gone \union {"queue full"}
      BY <1>13, <2>2 DEF Queued
    <3>2. gone' \subseteq Ways
      BY <1>3, <3>1 DEF Ways
    <3> QED
      BY <1>2, <1>3, <1>4, <1>9, <3>1, <3>2, SettledKeeps
  <2> QED
    BY <2>1, <2>2
<1> QED
  BY <1>4, <1>11, <1>12, <1>13

LEMMA RetryDlqKeeps ==
  ASSUME IInv, RetryDlq
  PROVE  Core'
<1> DEFINE j == "dlq"
<1>1. /\ TypeOK /\ Owing /\ Handled /\ MarksInv /\ CalendarInv /\ BaseInv
      /\ j \in Jobs /\ todo \in [Jobs -> Seq(Works)] /\ dlq \in Seq(Messages)
  BY Parts DEF TypeOK, Jobs
<1>2. /\ todo[j] = <<>> /\ todo' = [todo EXCEPT ![j] = dlq] /\ dlq' = <<>>
      /\ UNCHANGED <<clock, tries, down, waiting, owed, gone, alerted, seen, base, calendar, astray>>
      /\ UNCHANGED <<day, open, wiring>>
  BY DEF RetryDlq, made, clock
<1> HIDE DEF j
<1>3. Messages \subseteq Works /\ dlq \in Seq(Works)
  BY <1>1, WorkKinds, SeqMonotonic
<1>4. \A w : ToDo(w) \in Nat /\ ToDo(w)' \in Nat /\ ToDo(w)' + Copies(todo[j], w) = ToDo(w) + Copies(dlq, w)
  BY <1>1, <1>2, <1>3, Moving
<1>5. \A w : Copies(todo[j], w) = 0 /\ Copies(dlq', w) = 0
  BY <1>2, CopiesOfNone
<1>6. \A w : Copies(dlq, w) \in Nat /\ Copies(waiting, w) \in Nat
  BY <1>1, CopiesFinite DEF TypeOK
<1>7. \A w : ToDo(w)' = ToDo(w) + Copies(dlq, w)
  BY <1>4, <1>5, <1>6
<1>8. \A w : UnderWay(w)' = UnderWay(w)
  <2> SUFFICES ASSUME NEW w PROVE UnderWay(w)' = UnderWay(w)
    OBVIOUS
  <2>1. UnderWay(w) = Copies(dlq, w) + Copies(waiting, w) + ToDo(w)
    BY DEF UnderWay
  <2>2. UnderWay(w)' = Copies(dlq', w) + Copies(waiting, w) + ToDo(w)'
    BY <1>2 DEF UnderWay, Copies
  <2>3. ToDo(w) \in Nat /\ Copies(dlq, w) \in Nat /\ Copies(waiting, w) \in Nat /\ Copies(dlq', w) = 0
    BY <1>4, <1>5, <1>6
  <2>4. ToDo(w)' = ToDo(w) + Copies(dlq, w)
    BY <1>7
  <2> QED
    BY <2>1, <2>2, <2>3, <2>4
<1>9. Owing'
  BY <1>1, <1>2, <1>8 DEF Owing
<1>10. \A n \in News : ToDo(<<"item", n>>)' = ToDo(<<"item", n>>)
  <2> SUFFICES ASSUME NEW n \in News PROVE ToDo(<<"item", n>>)' = ToDo(<<"item", n>>)
    OBVIOUS
  <2>1. \A i \in 1 .. Len(dlq) : dlq[i] # <<"item", n>>
    BY <1>1, WorkKinds, ElementOfSeq
  <2>2. Copies(dlq, <<"item", n>>) = 0
    BY <1>1, <2>1, CopiesOfOthers
  <2>3. ToDo(<<"item", n>>)' = ToDo(<<"item", n>>) + Copies(dlq, <<"item", n>>)
    BY <1>7
  <2>4. ToDo(<<"item", n>>) \in Nat
    BY <1>4
  <2> QED
    BY <2>2, <2>3, <2>4
<1>11. Handled' /\ MarksInv'
  BY <1>1, <1>2, <1>10 DEF Handled, MarksInv
<1>12. CalendarInv' /\ AddedOnce'
  <2>1. todo'["monthly"] = todo["monthly"]
    BY <1>1, <1>2 DEF j, Jobs, Cron
  <2> QED
    BY <1>2, <2>1, AddsKept
<1>13. BaseInv'
  BY <1>1, <1>2, BaseKept
<1>14. TypeOK'
  <2>1. todo' \in [Jobs -> Seq(Works)] /\ dlq' \in Seq(Messages) /\ Len(dlq') <= DlqMax
    BY <1>1, <1>2, <1>3, Constants
  <2> QED
    BY <1>1, <1>2, <2>1 DEF TypeOK, clock
<1>15. (TypeOK /\ Owing /\ Handled /\ MarksInv /\ CalendarInv /\ AddedOnce /\ BaseInv)'
  BY <1>9, <1>11, <1>12, <1>13, <1>14
<1> QED
  BY <1>15, Parts, PTL

(* Telegram goes, comes back, or nothing happens at all.                   *)
LEMMA RestKeeps ==
  ASSUME IInv, Outage \/ Heal \/ UNCHANGED vars
  PROVE  Core'
<1>1. TypeOK /\ Owing /\ Handled /\ MarksInv /\ BaseInv
  BY Parts
<1>2. /\ UNCHANGED <<day, hour, fired, polls, open, polling, wiring, todo, tries, dlq, waiting, owed, gone, alerted,
                     seen, base, calendar, astray>>
      /\ down' \in BOOLEAN
  BY <1>1 DEF Outage, Heal, vars, clock, letters, made, TypeOK
<1>3. TypeOK'
  BY <1>1, <1>2 DEF TypeOK
<1>4. Owing' /\ Handled' /\ MarksInv'
  BY <1>1, <1>2, NumbersKept
<1>5. CalendarInv' /\ AddedOnce' /\ BaseInv'
  BY <1>1, <1>2, AddsKept, BaseKept
<1>6. (TypeOK /\ Owing /\ Handled /\ MarksInv /\ CalendarInv /\ AddedOnce /\ BaseInv)'
  BY <1>3, <1>4, <1>5
<1> QED
  BY <1>6, Parts, PTL

(***************************************************************************)
(* The start of the process                                                *)
(***************************************************************************)

LEMMA Starting ==
  ASSUME NEW on \in BOOLEAN
  PROVE  /\ Started(on) \in [Jobs -> Seq(Works)] /\ Started(on)["monthly"] = <<>>
         /\ OwedAtStart(on) \in [Messages -> Nat]
         /\ \A m \in Messages : OwedAtStart(on)[m] = Cardinality(PlacesIn(Started(on), Jobs, m))
         /\ \A n \in News : Cardinality(PlacesIn(Started(on), Jobs, <<"item", n>>)) = 0
<1> DEFINE f == Started(on)
           j == "notice"
<1>1. Notice(on) \in Seq(Works) /\ Harmless(Notice(on))
  <2>1. <<"notice", 0>> \in Works
    BY Working
  <2>2. Notice(on) = <<>> \/ Notice(on) = <<<<"notice", 0>>>>
    BY DEF Notice
  <2>3. CASE Notice(on) = <<>>
    BY <2>3 DEF Harmless
  <2>4. CASE Notice(on) = <<<<"notice", 0>>>>
    BY <2>1, <2>4 DEF Harmless
  <2> QED
    BY <2>2, <2>3, <2>4
<1>2. j \in Jobs /\ "monthly" \in Jobs
  BY DEF Jobs, Cron
<1>3. f \in [Jobs -> Seq(Works)] /\ f[j] = Notice(on) /\ \A k \in Jobs \ {j} : f[k] = <<>>
  BY <1>1, <1>2 DEF Started
<1> HIDE DEF f, j
<1>4. ASSUME NEW w
      PROVE  Cardinality(PlacesIn(f, Jobs, w)) = Copies(Notice(on), w) /\ Copies(Notice(on), w) \in Nat
  <2>1. Cardinality(PlacesIn(f, Jobs, w)) = Cardinality(PlacesIn(f, Jobs \ {j}, w)) + Copies(f[j], w)
    BY <1>2, <1>3, PlacesApart
  <2>2. PlacesIn(f, Jobs \ {j}, w) = {}
    BY <1>3 DEF PlacesIn
  <2>3. Copies(Notice(on), w) \in Nat
    BY <1>1, CopiesFinite
  <2>4. Cardinality(PlacesIn(f, Jobs \ {j}, w)) = 0 /\ f[j] = Notice(on)
    BY <1>3, <2>2, FS_EmptySet
  <2>5. Cardinality(PlacesIn(f, Jobs, w)) = 0 + Copies(Notice(on), w)
    BY <2>1, <2>4
  <2> QED
    BY <2>3, <2>5
<1>5. \A n \in News : Copies(Notice(on), <<"item", n>>) = 0
  BY <1>1, HarmlessNumbers
<1>6. OwedAtStart(on) \in [Messages -> Nat] /\ \A m \in Messages : OwedAtStart(on)[m] = Copies(Notice(on), m)
  BY <1>4 DEF OwedAtStart
<1>7. f["monthly"] = <<>>
  BY <1>2, <1>3 DEF j
<1> QED
  BY <1>3, <1>4, <1>5, <1>6, <1>7 DEF f

LEMMA InitIInv ==
  Init => IInv
<1> SUFFICES ASSUME Init PROVE IInv
  OBVIOUS
<1>1. /\ todo = Started(polling) /\ owed = OwedAtStart(polling) /\ polling \in BOOLEAN
      /\ dlq = <<>> /\ waiting = <<>>
  BY Constants DEF Init
<1>2. /\ todo \in [Jobs -> Seq(Works)] /\ todo["monthly"] = <<>> /\ owed \in [Messages -> Nat]
      /\ \A m \in Messages : owed[m] = Cardinality(PlacesIn(todo, Jobs, m))
      /\ \A n \in News : Cardinality(PlacesIn(todo, Jobs, <<"item", n>>)) = 0
  BY <1>1, Starting
<1>a. \A w : ToDo(w) = Cardinality(PlacesIn(todo, Jobs, w))
  BY DEF ToDo, Places, PlacesIn
<1>b. \A w : Cardinality(PlacesIn(todo, Jobs, w)) \in Nat
  BY <1>2, PlacesFinite
<1>3. \A w : /\ ToDo(w) = Cardinality(PlacesIn(todo, Jobs, w)) /\ ToDo(w) \in Nat
             /\ Copies(dlq, w) = 0 /\ Copies(waiting, w) = 0
  BY <1>1, <1>a, <1>b, CopiesOfNone
<1>4. TypeOK
  <2>1. 1 \in DOMAIN Hours
    BY DEF Hours
  <2>2. NoBase \in [rate : Rates, of : Nat \union {-1}]
    BY Constants DEF NoBase
  <2>3. tries \in [Jobs -> 0 .. Retries - 1]
    BY Constants DEF Init
  <2>4. /\ dlq \in Seq(Messages) /\ Len(dlq) <= DlqMax
        /\ waiting \in Seq(Messages) /\ Len(waiting) <= QueueMax
    BY <1>1, Constants
  <2>a. day = 1 /\ hour = 1 /\ fired = {} /\ polls = 0 /\ open \in Rates /\ wiring \in Wirings
    BY DEF Init
  <2>b. polling \in BOOLEAN /\ down \in BOOLEAN
    BY <1>1 DEF Init
  <2>5. /\ day \in Nat \ {0} /\ hour \in DOMAIN Hours /\ fired \subseteq Cron /\ polls \in Nat
        /\ open \in Rates /\ polling \in BOOLEAN /\ wiring \in Wirings /\ down \in BOOLEAN
    BY <2>1, <2>a, <2>b
  <2>6. /\ alerted \in [News -> Nat] /\ astray \subseteq Works /\ seen \in [News -> Nat]
        /\ base \in [rate : Rates, of : Nat \union {-1}] /\ calendar \in [Events -> Nat] /\ gone \subseteq Ways
    BY <2>2 DEF Init
  <2> QED
    BY <1>2, <2>3, <2>4, <2>5, <2>6 DEF TypeOK
<1>5. Owing
  BY <1>1, <1>2, <1>3 DEF Owing, UnderWay
<1>6. Handled
  BY DEF Init, Handled
<1>7. MarksInv
  <2>1. \A n \in News : ToDo(<<"item", n>>) = 0
    BY <1>2, <1>3
  <2>2. day = 1 /\ \A n \in News : seen[n] = 0 /\ alerted[n] = 0
    BY DEF Init
  <2>3. ASSUME NEW n \in News
        PROVE  /\ seen[n] <= day
               /\ alerted[n] + ToDo(<<"item", n>>) <= IF seen[n] = day THEN day ELSE day - 1
    <3>1. ToDo(<<"item", n>>) = 0 /\ seen[n] = 0 /\ alerted[n] = 0
      BY <2>1, <2>2
    <3>2. alerted[n] + ToDo(<<"item", n>>) = 0
      BY <3>1
    <3> QED
      BY <2>2, <3>1, <3>2
  <2> QED
    BY <2>3 DEF MarksInv
<1>8. CalendarInv /\ AddedOnce
  BY <1>2 DEF Init, CalendarInv, AddedOnce
<1>9. BaseInv
  BY DEF Init, BaseInv, NoBase
<1>10. Clean
  BY <1>1 DEF Init, Clean
<1> QED
  BY <1>4, <1>5, <1>6, <1>7, <1>8, <1>9, <1>10, Parts

LEMMA RestartKeeps ==
  ASSUME IInv, Restart
  PROVE  Core'
<1> DEFINE lost == {w \in UNION {ToSet(todo[j]) : j \in Jobs} : w[1] \in {"item", "add"}}
<1>1. /\ TypeOK /\ Owing /\ Handled /\ MarksInv /\ polling \in BOOLEAN
      /\ todo \in [Jobs -> Seq(Works)] /\ day \in Nat \ {0}
  BY Parts DEF TypeOK
<1>2. /\ todo' = Started(polling) /\ tries' = [j \in Jobs |-> 0]
      /\ owed' = [m \in Messages |-> owed[m] - UnderWay(m) + OwedAtStart(polling)[m]]
      /\ gone' = gone \/ gone' = gone \union {"stop"}
      /\ dlq' = <<>> /\ waiting' = <<>> /\ base' = NoBase /\ astray' = astray \union lost
      /\ UNCHANGED <<day, hour, fired, polls, open, polling, wiring, alerted, down, seen, calendar>>
  BY DEF Restart, Stopped, clock
<1>d. owed' = OwedAtStart(polling)
  <2>1. owed \in [Messages -> Nat] /\ OwedAtStart(polling) \in [Messages -> Nat]
    BY <1>1, Starting DEF TypeOK
  <2>2. ASSUME NEW m \in Messages PROVE owed[m] - UnderWay(m) + OwedAtStart(polling)[m] = OwedAtStart(polling)[m]
    <3>1. owed[m] = UnderWay(m) /\ owed[m] \in Nat /\ OwedAtStart(polling)[m] \in Nat
      BY <1>1, <2>1 DEF Owing
    <3> QED
      BY <3>1
  <2> QED
    BY <1>2, <2>1, <2>2
<1>3. /\ todo' \in [Jobs -> Seq(Works)] /\ todo'["monthly"] = <<>> /\ owed' \in [Messages -> Nat]
      /\ \A m \in Messages : owed'[m] = Cardinality(PlacesIn(todo', Jobs, m))
      /\ \A n \in News : Cardinality(PlacesIn(todo', Jobs, <<"item", n>>)) = 0
  BY <1>1, <1>2, <1>d, Starting
<1>a. \A w : /\ ToDo(w)' = Cardinality(PlacesIn(todo', Jobs, w))
             /\ ToDo(w) = Cardinality(PlacesIn(todo, Jobs, w))
  BY DEF ToDo, Places, PlacesIn
<1>b. \A w : Cardinality(PlacesIn(todo', Jobs, w)) \in Nat
  BY <1>3, PlacesFinite
<1>c. \A w : Cardinality(PlacesIn(todo, Jobs, w)) \in Nat
  BY <1>1, PlacesFinite
<1>4. \A w : /\ ToDo(w)' = Cardinality(PlacesIn(todo', Jobs, w)) /\ ToDo(w)' \in Nat
             /\ ToDo(w) = Cardinality(PlacesIn(todo, Jobs, w)) /\ ToDo(w) \in Nat
  BY <1>a, <1>b, <1>c
<1>5. ASSUME NEW w \in lost PROVE w \in Works
  <2>1. PICK j \in Jobs : w \in ToSet(todo[j])
    OBVIOUS
  <2>2. todo[j] \in Seq(Works)
    BY <1>1
  <2>3. PICK i \in DOMAIN todo[j] : w = todo[j][i]
    BY <2>1 DEF ToSet
  <2> QED
    BY <2>2, <2>3, LenProperties, ElementOfSeq
<1>6. ASSUME NEW n \in News, ToDo(<<"item", n>>) > 0 PROVE <<"item", n>> \in lost
  <2>1. Places(<<"item", n>>) # {}
    <3>1. CASE Places(<<"item", n>>) = {}
      <4>1. ToDo(<<"item", n>>) = 0
        BY <3>1, FS_EmptySet DEF ToDo
      <4> QED
        BY <1>6, <4>1
    <3> QED
      BY <3>1
  <2>2. PICK j \in Jobs : \E i \in DOMAIN todo[j] : todo[j][i] = <<"item", n>>
    BY <2>1 DEF Places
  <2>3. <<"item", n>> \in ToSet(todo[j])
    BY <2>2 DEF ToSet
  <2> QED
    BY <2>3
<1> HIDE DEF lost
<1>7. astray \subseteq astray' /\ astray' \subseteq Works
  BY <1>1, <1>2, <1>5 DEF TypeOK
<1>8. TypeOK'
  <2>1. tries' \in [Jobs -> 0 .. Retries - 1] /\ base' \in [rate : Rates, of : Nat \union {-1}]
    BY <1>2, Constants DEF NoBase
  <2>3. gone' \subseteq Ways
    BY <1>1, <1>2 DEF TypeOK, Ways
  <2>2. dlq' \in Seq(Messages) /\ Len(dlq') <= DlqMax /\ waiting' \in Seq(Messages) /\ Len(waiting') <= QueueMax
    BY <1>2, Constants
  <2> QED
    BY <1>1, <1>2, <1>3, <1>7, <2>1, <2>2, <2>3 DEF TypeOK
<1>9. Owing'
  <2>1. \A w : Copies(dlq', w) = 0 /\ Copies(waiting', w) = 0
    BY <1>2, CopiesOfNone
  <2>2. \A w : UnderWay(w)' = Copies(dlq', w) + Copies(waiting', w) + ToDo(w)'
    BY DEF UnderWay, Copies
  <2>3. \A w : UnderWay(w)' = ToDo(w)'
    BY <1>4, <2>1, <2>2
  <2>4. \A m \in Messages : owed'[m] = UnderWay(m)'
    BY <1>3, <1>4, <2>3
  <2> QED
    BY <1>2, <2>4 DEF Owing
<1>10. \A n \in News : ToDo(<<"item", n>>)' = 0 /\ ToDo(<<"item", n>>) \in Nat /\ alerted[n] \in Nat
  BY <1>1, <1>3, <1>4 DEF TypeOK
<1>11. Handled'
  <2> SUFFICES ASSUME NEW n \in News, seen'[n] # 0
               PROVE  alerted'[n] > 0 \/ <<"item", n>> \in astray'
    BY DEF Handled
  <2>1. alerted[n] > 0 \/ <<"item", n>> \in astray \/ ToDo(<<"item", n>>) > 0
    BY <1>1, <1>2 DEF Handled
  <2> QED
    BY <1>2, <1>6, <2>1
<1>12. MarksInv'
  <2> SUFFICES ASSUME NEW n \in News
               PROVE  /\ seen'[n] <= day'
                      /\ alerted'[n] + ToDo(<<"item", n>>)' <= IF seen'[n] = day' THEN day' ELSE day' - 1
    BY DEF MarksInv
  <2> DEFINE t == ToDo(<<"item", n>>)
             u == ToDo(<<"item", n>>)'
  <2>1. /\ seen[n] <= day /\ alerted[n] + t <= IF seen[n] = day THEN day ELSE day - 1
        /\ t \in Nat /\ u = 0 /\ alerted[n] \in Nat
    BY <1>1, <1>10 DEF MarksInv
  <2> HIDE DEF t, u
  <2>2. alerted[n] + u <= IF seen[n] = day THEN day ELSE day - 1
    BY <1>1, <2>1
  <2> QED
    BY <1>2, <2>1, <2>2 DEF u
<1>13. CalendarInv' /\ AddedOnce'
  <2>1. todo'["monthly"] \in Seq(Works) /\ NoAdds(todo'["monthly"])
    BY <1>3, Idle
  <2> QED
    BY <1>2, <1>7, <2>1, AddsKept
<1>14. BaseInv'
  BY <1>1, <1>2 DEF BaseInv, NoBase
<1>15. (TypeOK /\ Owing /\ Handled /\ MarksInv /\ CalendarInv /\ AddedOnce /\ BaseInv)'
  BY <1>8, <1>9, <1>11, <1>12, <1>13, <1>14
<1> QED
  BY <1>15, Parts, PTL

(***************************************************************************)
(* The invariant, and what follows from it                                 *)
(***************************************************************************)

(* A message is given up for a reason only, and the wrapped notifier has   *)
(* no dead letters.                                                        *)
LEMMA NothingElseGone ==
  ASSUME IInv, [Next]_vars
  PROVE  Clean'
<1>1. TypeOK /\ Clean
  BY Parts
<1>0. faults \in Nat /\ restarts \in Nat /\ (down => faults > 0)
  BY <1>1 DEF Clean
<1>a. ASSUME faults' \in {faults, faults + 1}, restarts' \in {restarts, restarts + 1}
      PROVE  /\ faults' \in Nat /\ restarts' \in Nat /\ (faults > 0 => faults' > 0)
             /\ (faults' = 0 => faults = 0) /\ (restarts' = 0 => restarts = 0)
  BY <1>0, <1>a
<1>2. ASSUME UNCHANGED <<gone, wiring, dlq, down>>,
             UNCHANGED <<faults, restarts>> \/ (faults' = faults + 1 /\ UNCHANGED restarts)
      PROVE  Clean'
  <2>1. faults' \in {faults, faults + 1} /\ restarts' \in {restarts, restarts + 1}
    BY <1>2
  <2>2. /\ faults' \in Nat /\ restarts' \in Nat /\ (faults > 0 => faults' > 0)
        /\ (faults' = 0 => faults = 0) /\ (restarts' = 0 => restarts = 0)
    BY <1>a, <2>1
  <2> QED
    BY <1>1, <1>2, <2>2, Zenon DEF Clean
<1>3. ASSUME NEW j \in Cron \union Interval, Fire(j) PROVE Clean'
  BY <1>2, <1>3 DEF Fire, Composed, letters
<1>4. ASSUME NEW j \in Jobs, RssFetch(j) \/ MarkSeen(j) \/ Classify(j) PROVE Clean'
  BY <1>2, <1>4 DEF RssFetch, MarkSeen, Classify, Fault, Do, Composed, clock, letters, made
<1>5. ASSUME NEW j \in Jobs, SendText(j) PROVE Clean'
  <2>1. UNCHANGED <<wiring, down, restarts>>
    BY <1>5 DEF SendText, clock
  <2>2. CASE wiring = "direct" /\ ~down /\ UNCHANGED <<gone, dlq, faults>>
    BY <1>2, <2>1, <2>2
  <2>3. CASE wiring = "direct" /\ faults' > 0 /\ faults' \in Nat
    BY <1>1, <2>1, <2>3 DEF Clean
  <2>4. CASE wiring = "queued" /\ Queued(j) /\ UNCHANGED <<dlq, faults>>
    <3>1. gone' = gone \/ gone' = gone \union {"queue full"}
      BY <2>4 DEF Queued
    <3> QED
      BY <1>1, <2>1, <2>4, <3>1 DEF Clean
  <2>5. faults \in Nat /\ (down => faults > 0)
    BY <1>1 DEF Clean
  <2> QED
    BY <1>5, <2>2, <2>3, <2>4, <2>5 DEF SendText, Fault
<1>6. ASSUME NEW j \in Jobs, JobFails(j) PROVE Clean'
  <2>1. UNCHANGED <<wiring, dlq, down, restarts>> /\ faults' = faults + 1
    BY <1>6 DEF JobFails, Fault, clock, letters
  <2>2. gone' = gone \/ gone' = gone \union {"job"}
    BY <1>6 DEF JobFails
  <2>3. faults' \in Nat /\ restarts' \in Nat /\ faults' > 0 /\ faults' # 0
    BY <1>0, <2>1
  <2>4. "letters full" \notin gone => "letters full" \notin gone'
    BY <2>2, "letters full" # "job", Zenon
  <2> QED
    BY <1>1, <2>1, <2>3, <2>4, Zenon DEF Clean
<1>7. CASE Tick \/ UsFetch \/ FxCheck
  BY <1>2, <1>7 DEF Tick, UsFetch, FxCheck, Do, Composed, clock, letters, made
<1>8. CASE CheckEntry
  BY <1>2, <1>8 DEF CheckEntry, Fault, Do, Composed, clock, letters
<1>9. CASE AddEntry
  BY <1>2, <1>9 DEF AddEntry, Fault, Do, Composed, clock, letters, made
<1>10. CASE RetryDlq \/ Outage \/ Heal
  <2>1. /\ UNCHANGED <<wiring, gone, restarts>> /\ dlq' \in {dlq, <<>>}
        /\ \/ faults' = faults /\ (down' => down)
           \/ faults' = faults + 1
    BY <1>10 DEF RetryDlq, Outage, Heal, Fault, clock, made
  <2>2. /\ faults' \in Nat /\ restarts' \in Nat /\ (faults > 0 => faults' > 0)
        /\ (faults' = 0 => faults = 0) /\ (restarts' = 0 => restarts = 0)
    BY <1>a, <2>1
  <2>3. down' => faults' > 0
    <3>1. CASE faults' = faults /\ (down' => down)
      BY <1>0, <2>2, <3>1, Zenon
    <3>2. CASE faults' = faults + 1
      BY <1>0, <3>2
    <3> QED
      BY <2>1, <3>1, <3>2
  <2>4. dlq = <<>> => dlq' = <<>>
    BY <2>1
  <2> QED
    BY <1>1, <2>1, <2>2, <2>3, <2>4, Zenon DEF Clean
<1>11. CASE Restart
  <2>1. /\ UNCHANGED <<wiring, down, faults>> /\ dlq' = <<>> /\ restarts' = restarts + 1
        /\ gone' = gone \/ gone' = gone \union {"stop"}
    BY <1>11 DEF Restart, Stopped, clock
  <2>2. restarts' \in Nat /\ restarts' # 0
    BY <1>0, <2>1
  <2>3. "letters full" \notin gone => "letters full" \notin gone'
    BY <2>1, "letters full" # "stop", Zenon
  <2> QED
    BY <1>0, <1>1, <2>1, <2>2, <2>3, Zenon DEF Clean
<1>12. CASE UNCHANGED vars
  BY <1>2, <1>12 DEF vars, clock, letters, made
<1> QED
  BY <1>3, <1>4, <1>5, <1>6, <1>7, <1>8, <1>9, <1>10, <1>11, <1>12 DEF Next, Step

LEMMA NextKeeps ==
  IInv /\ [Next]_vars => IInv'
<1> SUFFICES ASSUME IInv, [Next]_vars PROVE IInv'
  OBVIOUS
<1>1. ASSUME UNCHANGED vars PROVE Core'
  BY <1>1, RestKeeps
<1>2. ASSUME \E j \in Cron \union Interval : Fire(j) PROVE Core'
  BY <1>2, FireKeeps
<1>3. ASSUME NEW j \in Jobs, Step(j) PROVE Core'
  BY <1>3, RssFetchKeeps, MarkSeenKeeps, ClassifyKeeps, SendTextKeeps DEF Step
<1>4. ASSUME NEW j \in Jobs, JobFails(j) PROVE Core'
  BY <1>4, JobFailsKeeps
<1>5. ASSUME Tick \/ UsFetch \/ FxCheck \/ CheckEntry \/ AddEntry PROVE Core'
  BY <1>5, TickKeeps, UsFetchKeeps, FxCheckKeeps, CheckEntryKeeps, AddEntryKeeps
<1>6. ASSUME RetryDlq \/ Outage \/ Heal \/ Restart PROVE Core'
  BY <1>6, RetryDlqKeeps, RestKeeps, RestartKeeps
<1>7. Core'
  BY <1>1, <1>2, <1>3, <1>4, <1>5, <1>6 DEF Next
<1>8. Clean'
  BY NothingElseGone
<1>9. (Core /\ Clean)'
  BY <1>7, <1>8
<1> QED
  BY <1>9, Parts, PTL

(* The inductive invariant holds through every interleaving of the jobs,   *)
(* outages, lost answers, failed jobs and restarts.                        *)
THEOREM Invariance == Spec => []IInv
<1>1. Init => IInv
  BY InitIInv
<1>2. IInv /\ [Next]_vars => IInv'
  BY NextKeeps
<1> QED
  BY <1>1, <1>2, PTL DEF Spec

(* Every variable keeps its type, and the dead letters and the queue of    *)
(* the wrapped notifier stay within their bounds.                          *)
THEOREM Typing == Spec => []TypeOK
<1>1. IInv => TypeOK
  BY DEF IInv
<1> QED
  BY <1>1, Invariance, PTL

(* The books of the messages, in both wirings and over every restart: what *)
(* was composed is under way until it is delivered or given up, and it is  *)
(* given up by full dead letters, a full queue, a failed job or a stop     *)
(* only, and without a fault and a stop only in the wiring that raises no  *)
(* error; that one never has a dead letter.                                *)
THEOREM BooksBalance == Spec => []MessagesAccounted
<1>1. IInv => MessagesAccounted
  BY DEF IInv
<1> QED
  BY <1>1, Invariance, PTL

(* An item whose mark silences it was alerted, is on its way to Claude, or *)
(* was given up, over every restart.                                       *)
THEOREM NoMarkInVain == Spec => []MarkedAreHandled
<1>1. IInv => MarkedAreHandled
  BY DEF IInv
<1> QED
  BY <1>1, Invariance, PTL

(* An item is alerted once a day at most and an entry added once, over any *)
(* number of polls and restarts: the marks and the calendar remember.      *)
THEOREM NoRepeats == Spec => []NothingTwice
<1>1. IInv => NothingTwice
  <2> SUFFICES ASSUME IInv PROVE NothingTwice
    OBVIOUS
  <2>1. TypeOK /\ MarksInv /\ AddedOnce
    BY Parts
  <2>2. ASSUME NEW n \in News PROVE alerted[n] <= day
    <3> DEFINE t == ToDo(<<"item", n>>)
    <3>1. alerted[n] + t <= (IF seen[n] = day THEN day ELSE day - 1)
      BY <2>1 DEF MarksInv
    <3>2. todo \in [Jobs -> Seq(Works)] /\ alerted[n] \in Nat /\ day \in Nat \ {0}
      BY <2>1 DEF TypeOK
    <3>3. t = Cardinality(PlacesIn(todo, Jobs, <<"item", n>>))
      BY DEF ToDo, Places, PlacesIn
    <3>4. t \in Nat
      BY <3>2, <3>3, PlacesFinite
    <3> HIDE DEF t
    <3> QED
      BY <3>1, <3>2, <3>4
  <2> QED
    BY <2>1, <2>2 DEF NothingTwice, AddedOnce
<1> QED
  BY <1>1, Invariance, PTL

(* What is composed besides alerts of the rate.                            *)
LEMMA NoFxAlert ==
  ASSUME TypeOK, NEW s \in Seq(Works), Composed(s), \A i \in 1 .. Len(s) : s[i][1] # "fx", NEW r \in Rates
  PROVE  owed'[<<"fx", r>>] = owed[<<"fx", r>>]
<1>1. <<"fx", r>> \in Messages
  BY DEF Messages
<1>2. owed'[<<"fx", r>>] = owed[<<"fx", r>>] + Copies(s, <<"fx", r>>) /\ owed[<<"fx", r>>] \in Nat
  BY <1>1, Composing DEF TypeOK
<1>3. \A i \in 1 .. Len(s) : s[i] # <<"fx", r>>
  OBVIOUS
<1>4. Copies(s, <<"fx", r>>) = 0
  BY <1>3, CopiesOfOthers
<1> QED
  BY <1>2, <1>4

LEMMA NoFxListing ==
  ASSUME TypeOK, NEW S, IsFiniteSet(S), NEW k, k # "fx", {k} \X S \subseteq Works, NEW j \in Jobs,
         Do(j, [i \in 1 .. Cardinality(S) |-> <<k, SetToSeq(S)[i]>>]), NEW r \in Rates
  PROVE  owed'[<<"fx", r>>] = owed[<<"fx", r>>]
<1> DEFINE s == [i \in 1 .. Cardinality(S) |-> <<k, SetToSeq(S)[i]>>]
<1>1. s \in Seq({k} \X S) /\ Composed(s)
  BY Listing DEF Do
<1> HIDE DEF s
<1>2. \A i \in 1 .. Len(s) : s[i][1] = k
  BY <1>1, Listed
<1>3. s \in Seq(Works)
  BY <1>1, SeqMonotonic
<1> QED
  BY <1>1, <1>2, <1>3, NoFxAlert

(* An alert of the rate is composed by FxCheck only.                       *)
LEMMA FxAlertsByCheck ==
  ASSUME IInv, [Next]_vars, NEW r \in Rates
  PROVE  FxCheck \/ owed'[<<"fx", r>>] <= owed[<<"fx", r>>]
<1> DEFINE o == owed[<<"fx", r>>]
           p == owed'[<<"fx", r>>]
<1>1. TypeOK /\ <<"fx", r>> \in Messages
  BY Parts DEF Messages
<1>2. o \in Nat
  BY <1>1 DEF TypeOK
<1> SUFFICES ASSUME ~FxCheck PROVE p <= o
  OBVIOUS
<1>3. ASSUME NEW x \in Works, x[1] # "fx", Composed(<<x>>) PROVE p = o
  <2>1. <<x>> \in Seq(Works) /\ \A i \in 1 .. Len(<<x>>) : <<x>>[i] = x
    BY <1>3
  <2> QED
    BY <1>1, <1>3, <2>1, NoFxAlert
<1>4. ASSUME Composed(<<>>) PROVE p = o
  <2>1. <<>> \in Seq(Works) /\ \A i \in 1 .. Len(<<>>) : <<>>[i][1] # "fx"
    OBVIOUS
  <2> QED
    BY <1>1, <1>4, <2>1, NoFxAlert
<1>5. ASSUME UNCHANGED owed PROVE p = o
  BY <1>5
<1>6. ASSUME NEW j \in Cron \union Interval, Fire(j) PROVE p = o
  <2>1. Composed(Plan(j)) /\ Plan(j) \in Seq(Works) /\ \A i \in 1 .. Len(Plan(j)) : Plan(j)[i][1] # "fx"
    BY <1>6, Plans DEF Fire, Harmless
  <2> QED
    BY <1>1, <2>1, NoFxAlert
<1>7. ASSUME NEW j \in Jobs, RssFetch(j) PROVE p = o
  <2>1. PICK items \in SUBSET News : Do(j, [i \in 1 .. Cardinality(items) |-> <<"mark", SetToSeq(items)[i]>>])
    BY <1>7 DEF RssFetch
  <2>2. IsFiniteSet(items)
    BY InfoAssumption, FS_Subset
  <2>3. {"mark"} \X items \subseteq Works
    BY DEF Works
  <2> QED
    BY <1>1, <2>1, <2>2, <2>3, NoFxListing
<1>8. ASSUME UsFetch PROVE p = o
  <2>1. PICK items \in {{}, UsNews} :
          Do("usnews", [i \in 1 .. Cardinality(items) |-> <<"item", SetToSeq(items)[i]>>])
    BY <1>8 DEF UsFetch
  <2>2. IsFiniteSet(items) /\ items \subseteq UsNews
    BY InfoAssumption, FS_EmptySet
  <2>3. {"item"} \X items \subseteq Works /\ "usnews" \in Jobs
    BY <2>2 DEF Works, Jobs, Interval
  <2> QED
    BY <1>1, <2>1, <2>2, <2>3, NoFxListing
<1>9. ASSUME NEW j \in Jobs, MarkSeen(j) PROVE p = o
  BY <1>5, <1>9 DEF MarkSeen, made
<1>10. ASSUME NEW j \in Jobs, Classify(j) PROVE p = o
  <2>1. About(j) \in News \union UsNews
    BY <1>1, <1>10, Heads, WorkKinds DEF Classify
  <2>2. <<"news", About(j)>> \in Works /\ <<"news", About(j)>>[1] # "fx"
    BY <2>1, Working
  <2>3. Composed(<<<<"news", About(j)>>>>) \/ Composed(<<>>)
    BY <1>10 DEF Classify, Do
  <2> QED
    BY <1>3, <1>4, <2>2, <2>3
<1>11. ASSUME NEW j \in Jobs, SendText(j) PROVE p <= o
  <2>1. owed' = owed \/ owed' = [owed EXCEPT ![todo[j][1]] = @ - 1]
    BY <1>11 DEF SendText, Failed, Queued, NoLongerOwed, made
  <2>2. owed \in [Messages -> Nat]
    BY <1>1 DEF TypeOK
  <2>3. CASE owed' = owed
    BY <1>2, <2>3
  <2>4. CASE owed' = [owed EXCEPT ![todo[j][1]] = @ - 1]
    <3>1. p = o \/ p = o - 1
      BY <1>1, <2>2, <2>4
    <3> QED
      BY <1>2, <3>1
  <2> QED
    BY <2>1, <2>3, <2>4
<1>12. ASSUME NEW j \in Jobs, JobFails(j) PROVE p <= o
  <2> DEFINE s == IF j = "brief" THEN <<<<"escalation", 0>>>> ELSE <<>>
             c == Copies(todo[j], <<"fx", r>>)
  <2>1. p = o - c + Copies(s, <<"fx", r>>)
    BY <1>1, <1>12 DEF JobFails
  <2>2. Copies(s, <<"fx", r>>) = 0
    BY CopiesOfNone, CopiesOfOne
  <2>3. c \in Nat
    <3>1. todo[j] \in Seq(Works)
      BY <1>1 DEF TypeOK
    <3> QED
      BY <3>1, CopiesFinite
  <2> HIDE DEF s, c, o, p
  <2> QED
    BY <1>2, <2>1, <2>2, <2>3
<1>13. ASSUME CheckEntry PROVE p = o
  <2>1. "monthly" \in Jobs
    BY DEF Jobs, Cron
  <2>2. About("monthly") \in Events
    BY <1>1, <1>13, <2>1, Heads, WorkKinds DEF CheckEntry
  <2>3. <<"add", About("monthly")>> \in Works /\ <<"add", About("monthly")>>[1] # "fx"
    BY <2>2, Working
  <2>4. Composed(<<<<"add", About("monthly")>>>>) \/ Composed(<<>>)
    BY <1>13 DEF CheckEntry, Do
  <2> QED
    BY <1>3, <1>4, <2>3, <2>4
<1>14. ASSUME AddEntry PROVE p = o
  <2>1. Composed(<<>>) \/ UNCHANGED owed
    BY <1>14 DEF AddEntry, Do, made
  <2> QED
    BY <1>4, <1>5, <2>1
<1>15. ASSUME Restart PROVE p <= o
  <2> DEFINE u == UnderWay(<<"fx", r>>)
  <2>1. polling \in BOOLEAN /\ u = o
    BY <1>1, Parts DEF Owing, TypeOK
  <2>2. p = o - u + OwedAtStart(polling)[<<"fx", r>>]
    BY <1>1, <1>15 DEF Restart, Stopped
  <2>3. Notice(polling) = <<>> \/ Notice(polling) = <<<<"notice", 0>>>>
    BY DEF Notice
  <2>4. OwedAtStart(polling)[<<"fx", r>>] = 0
    BY <1>1, <2>3, CopiesOfNone, CopiesOfOne DEF OwedAtStart
  <2> HIDE DEF u, o, p
  <2> QED
    BY <1>2, <2>1, <2>2, <2>4
<1>16. ASSUME Tick \/ RetryDlq \/ Outage \/ Heal \/ UNCHANGED vars PROVE p = o
  <2>1. UNCHANGED owed
    BY <1>16 DEF Tick, RetryDlq, Outage, Heal, vars, made
  <2> QED
    BY <1>5, <2>1
<1> HIDE DEF o, p
<1>17. p = o => p <= o
  BY <1>2
<1> QED
  BY <1>6, <1>7, <1>8, <1>9, <1>10, <1>11, <1>12, <1>13, <1>14, <1>15, <1>16, <1>17 DEF Next, Step

(* As long as the base is of today, an alert of the rate is about a move   *)
(* since today's opening, whenever the process came up.                    *)
THEOREM AlertsAreOfToday == Spec => FxAlertsAreOfToday
<1> DEFINE Alerts ==
      \A r \in Rates : owed'[<<"fx", r>>] > owed[<<"fx", r>>] /\ base'.of = day => Moved(r, open)
<1>1. IInv /\ [Next]_vars => [Alerts]_vars
  <2> SUFFICES ASSUME IInv, [Next]_vars, NEW r \in Rates,
                      owed'[<<"fx", r>>] > owed[<<"fx", r>>], base'.of = day
               PROVE  Moved(r, open)
    OBVIOUS
  <2>2. TypeOK /\ IInv'
    BY NextKeeps, Parts
  <2>a. TypeOK'
    BY <2>2, Parts, PTL
  <2>b. <<"fx", r>> \in Messages /\ owed[<<"fx", r>>] \in Nat /\ owed'[<<"fx", r>>] \in Nat
    BY <2>2, <2>a DEF Messages, TypeOK
  <2>1. FxCheck
    BY <2>b, FxAlertsByCheck
  <2>3. BaseInv'
    BY <2>2, Parts, PTL
  <2>4. UNCHANGED <<day, open>>
    BY <2>1 DEF FxCheck, clock
  <2>5. base'.rate \in {open, 0}
    BY <2>3, <2>4 DEF BaseInv
  <2>6. PICK rate \in Rates : Do("fx", IF Moved(rate, base'.rate) THEN <<<<"fx", rate>>>> ELSE <<>>)
    BY <2>1 DEF FxCheck
  <2>7. <<"fx", r>> \in Messages /\ owed[<<"fx", r>>] \in Nat
    BY <2>2 DEF Messages, TypeOK
  <2>8. ASSUME NEW s, Do("fx", s) PROVE owed'[<<"fx", r>>] = owed[<<"fx", r>>] + Copies(s, <<"fx", r>>)
    BY <2>7, <2>8 DEF Do, Composed
  <2>9. CASE Moved(rate, base'.rate)
    <3>1. owed'[<<"fx", r>>] = owed[<<"fx", r>>] + Copies(<<<<"fx", rate>>>>, <<"fx", r>>)
      BY <2>6, <2>8, <2>9
    <3>2. Copies(<<<<"fx", rate>>>>, <<"fx", r>>) # 0
      BY <2>7, <3>1
    <3>3. <<"fx", rate>> = <<"fx", r>>
      BY <3>2, CopiesOfOne
    <3>4. Moved(r, base'.rate)
      BY <2>9, <3>3
    <3> QED
      BY <2>5, <3>4 DEF Moved
  <2>10. CASE ~Moved(rate, base'.rate)
    <3>1. owed'[<<"fx", r>>] = owed[<<"fx", r>>] + Copies(<<>>, <<"fx", r>>)
      BY <2>6, <2>8, <2>10
    <3> QED
      BY <2>7, <3>1, CopiesOfNone
  <2> QED
    BY <2>9, <2>10
<1> QED
  BY <1>1, Invariance, PTL DEF Spec, FxAlertsAreOfToday

=============================================================================
