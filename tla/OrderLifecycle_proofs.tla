------------------------ MODULE OrderLifecycle_proofs ------------------------
(***************************************************************************)
(* The safety of the order table, for every number of orders, callers,     *)
(* faults and restarts.  IInv of OrderLifecycle is inductive.              *)
(*   Forward            what no step takes back: issued orders, their      *)
(*                      client ids and final statuses, rows and their      *)
(*                      broker ids                                         *)
(*   ...Kept            a part of IInv survives a step that goes Forward   *)
(*                      and leaves the part's own variables alone          *)
(*   ...Keeps           one lemma per action: the step keeps IInv          *)
(*   EchoInv            what holds besides when every listing carries the  *)
(*                      client ids                                         *)
(*   PastInv,           what the backfill of the CLOSED history has        *)
(*   BackfillInv        reached, page by page (stated in OrderLifecycle)   *)
(***************************************************************************)
EXTENDS OrderLifecycle, FiniteSetTheorems, TLAPS

USE DEF RowKeys, Native

(* The sets of statuses are what they are named for.                       *)
LEMMA Statuses ==
  /\ OpenGroup \subseteq TossStatuses /\ Final \subseteq TossStatuses
  /\ OpenGroup \cap Final = {} /\ "absent" \notin TossStatuses
  /\ "PENDING" \in OpenGroup /\ "FILLED" \in Final
  /\ PendingStatuses \subseteq LocalStatuses /\ "absent" \notin LocalStatuses
BY DEF OpenGroup, Final, ClosedGroup, Leftovers, TossStatuses, PendingStatuses, LocalStatuses

(* Both status maps give a local status, "filled" for FILLED alone.        *)
LEMMA StatusMaps ==
  /\ \A s \in Final : /\ ClosedStatusMap(s) \in LocalStatuses
                      /\ ClosedStatusMap(s) = "filled" <=> s = "FILLED"
  /\ \A s \in TossStatuses : /\ TossStatusMap(s) \in LocalStatuses
                             /\ TossStatusMap(s) = "filled" <=> s = "FILLED"
BY DEF ClosedStatusMap, TossStatusMap, OpenGroup, Final, ClosedGroup, Leftovers,
       TossStatuses, PendingStatuses, LocalStatuses

LEMMA InitTyping == Init => TypeOK
<1> SUFFICES ASSUME Init PROVE TypeOK
  OBVIOUS
<1> USE ConstantsAssumption DEF Init, TypeOK, Maybe
<1>1. issued \in 0 .. MaxOrders /\ cid \in [BrokerIds -> Maybe(ClientIds)]
  BY DEF BrokerIds
<1>2. bstatus \in [BrokerIds -> TossStatuses \cup {"absent"}]
  BY Statuses
<1>3. hsCursor \in 1 .. MaxOrders + 1 /\ hsPages \in 0 .. MaxPages
  BY DEF BrokerIds
<1>4. faults \in 0 .. MaxFaults /\ crashes \in 0 .. MaxCrashes
  OBVIOUS
<1> QED
  BY <1>1, <1>2, <1>3, <1>4

-----------------------------------------------------------------------------
(* Typing                                                                  *)

(* What a new order at the broker changes.                                 *)
LEMMA Issuing ==
  ASSUME TypeOK, BrokerInv, NEW s \in TossStatuses, NEW c \in Maybe(ClientIds), Issue(s, c)
  PROVE  /\ issued' = issued + 1 /\ issued' \in BrokerIds
         /\ bstatus' \in [BrokerIds -> TossStatuses \cup {"absent"}]
         /\ cid' \in [BrokerIds -> Maybe(ClientIds)]
         /\ cid[issued'] = NULL /\ cid'[issued'] = c
         /\ bstatus[issued'] = "absent" /\ bstatus'[issued'] = s
         /\ \A b \in BrokerIds : b # issued' => cid'[b] = cid[b] /\ bstatus'[b] = bstatus[b]
         /\ BrokerInv'
<1>1. issued' = issued + 1 /\ issued' \in BrokerIds
  BY ConstantsAssumption DEF TypeOK, Issue, BrokerIds
<1>2. bstatus' = [bstatus EXCEPT ![issued'] = s] /\ cid' = [cid EXCEPT ![issued'] = c]
  BY <1>1 DEF Issue
<1>3. /\ bstatus' \in [BrokerIds -> TossStatuses \cup {"absent"}]
      /\ cid' \in [BrokerIds -> Maybe(ClientIds)]
      /\ cid'[issued'] = c /\ bstatus'[issued'] = s
      /\ \A b \in BrokerIds : b # issued' => cid'[b] = cid[b] /\ bstatus'[b] = bstatus[b]
  BY <1>1, <1>2 DEF TypeOK
<1>4. issued \in Int /\ \A b \in BrokerIds : b \in Int
  BY ConstantsAssumption DEF TypeOK, BrokerIds
<1>5. ~(issued' <= issued)
  BY <1>1, <1>4
<1>6. cid[issued'] = NULL /\ bstatus[issued'] = "absent"
  BY <1>1, <1>4, <1>5 DEF BrokerInv
<1>7. BrokerInv'
  <2> SUFFICES ASSUME NEW b \in BrokerIds
               PROVE  (bstatus'[b] = "absent" <=> b > issued') /\ (cid'[b] # NULL => b <= issued')
    BY DEF BrokerInv
  <2>1. CASE b = issued'
    BY <2>1, <1>1, <1>3, <1>4, Statuses
  <2>2. CASE b # issued'
    BY <2>2, <1>1, <1>3, <1>4 DEF BrokerInv
  <2> QED
    BY <2>1, <2>2
<1> QED
  BY <1>1, <1>3, <1>6, <1>7

(* What a step of the broker or of the modify route may do: it leaves the  *)
(* rest of the system alone, and of its own state it adds orders that are  *)
(* not the bot's and moves open ones.                                      *)
BrokerMoves ==
  /\ issued' \in 0 .. MaxOrders /\ issued <= issued'
  /\ bstatus' \in [BrokerIds -> TossStatuses \cup {"absent"}]
  /\ cid' \in [BrokerIds -> Maybe(ClientIds)]
  /\ \A b \in BrokerIds : cid'[b] = cid[b]
  /\ \A b \in BrokerIds : bstatus[b] \in Final => bstatus'[b] = bstatus[b]
  /\ BrokerInv'
  /\ Untouched

LEMMA BrokerStepMoves ==
  ASSUME TypeOK, BrokerInv,
         BrokerStep \/ (\E b \in BrokerIds : ModifyRequest(b))
  PROVE  BrokerMoves
<1> USE Statuses
<1>a. /\ issued \in 0 .. MaxOrders /\ issued \in Int /\ MaxOrders \in Nat
      /\ \A b \in BrokerIds : b \in Int
  BY ConstantsAssumption DEF TypeOK, BrokerIds
<1>1. ASSUME NEW b \in BrokerIds, NEW from, NEW to, from \subseteq OpenGroup, Progress(b, from, to)
      PROVE  BrokerMoves
  <2>1. /\ issued' = issued /\ cid' = cid /\ to \in TossStatuses
        /\ bstatus' = [bstatus EXCEPT ![b] = to] /\ bstatus[b] \in OpenGroup
    BY <1>1, ConstantsAssumption DEF Progress
  <2>2. /\ bstatus' \in [BrokerIds -> TossStatuses \cup {"absent"}]
        /\ \A d \in BrokerIds : bstatus[d] \in Final => bstatus'[d] = bstatus[d]
        /\ \A d \in BrokerIds : bstatus'[d] = "absent" <=> bstatus[d] = "absent"
    BY <2>1 DEF TypeOK
  <2>3. BrokerInv'
    BY <2>1, <2>2 DEF BrokerInv
  <2> QED
    BY <2>1, <2>2, <2>3, <1>1, <1>a DEF BrokerMoves, Progress, TypeOK
(* An open order b moves to s1 and the broker adds order issued+1.         *)
<1>2. ASSUME NEW b \in BrokerIds, NEW s1 \in TossStatuses, NEW s2 \in TossStatuses,
             bstatus[b] \in OpenGroup, b <= issued, issued < MaxOrders, issued' = issued + 1,
             bstatus' = [bstatus EXCEPT ![b] = s1, ![issued + 1] = s2], UNCHANGED cid, Untouched
      PROVE  BrokerMoves
  <2>1. issued' \in 0 .. MaxOrders /\ issued + 1 \in BrokerIds /\ issued <= issued' /\ b # issued + 1
    BY <1>2, <1>a DEF BrokerIds
  <2>2. bstatus[issued + 1] = "absent"
    BY <2>1, <1>a DEF BrokerInv
  <2>3. /\ bstatus' \in [BrokerIds -> TossStatuses \cup {"absent"}]
        /\ \A d \in BrokerIds : bstatus[d] \in Final => bstatus'[d] = bstatus[d]
        /\ \A d \in BrokerIds : d # issued + 1 => (bstatus'[d] = "absent" <=> bstatus[d] = "absent")
        /\ bstatus'[issued + 1] # "absent"
    BY <1>2, <2>1, <2>2 DEF TypeOK
  <2>4. BrokerInv'
    <3> SUFFICES ASSUME NEW d \in BrokerIds
                 PROVE  (bstatus'[d] = "absent" <=> d > issued') /\ (cid'[d] # NULL => d <= issued')
      BY DEF BrokerInv
    <3>1. d \in Int /\ (d > issued' <=> d > issued /\ d # issued + 1) /\ (d <= issued => d <= issued')
      BY <1>2, <1>a
    <3>2. (bstatus[d] = "absent" <=> d > issued) /\ (cid[d] # NULL => d <= issued)
      BY DEF BrokerInv
    <3> QED
      BY <1>2, <2>3, <3>1, <3>2
  <2> QED
    BY <1>2, <2>1, <2>3, <2>4 DEF BrokerMoves, TypeOK
<1>3. ASSUME NEW b \in BrokerIds, ReplaceDone(b) PROVE BrokerMoves
  <2>1. {"REPLACED", "PENDING"} \subseteq TossStatuses /\ bstatus[b] \in OpenGroup
    BY <1>3 DEF ReplaceDone, OpenGroup, Final, ClosedGroup, TossStatuses
  <2> QED
    BY <1>3, <2>1, <1>2 DEF ReplaceDone
<1>4. ASSUME NEW b \in BrokerIds, RequestRefused(b) PROVE BrokerMoves
  <2>1. PICK p \in {<<"PENDING_CANCEL", "CANCEL_REJECTED">>, <<"PENDING_REPLACE", "REPLACE_REJECTED">>},
             s \in {"PENDING", "PARTIAL_FILLED"} :
               /\ b <= issued /\ bstatus[b] = p[1] /\ issued < MaxOrders /\ issued' = issued + 1
               /\ bstatus' = [bstatus EXCEPT ![b] = s, ![issued + 1] = p[2]]
               /\ UNCHANGED cid /\ Untouched
    BY <1>4 DEF RequestRefused
  <2>2. s \in TossStatuses /\ p[1] \in OpenGroup /\ p[2] \in TossStatuses
    BY DEF OpenGroup, Leftovers, ClosedGroup, TossStatuses
  <2> QED
    BY <2>1, <2>2, <1>2
<1>5. ASSUME ForeignOrder PROVE BrokerMoves
  <2>1. Issue("PENDING", NULL) /\ Untouched /\ "PENDING" \in TossStatuses /\ NULL \in Maybe(ClientIds)
    BY <1>5 DEF ForeignOrder, Maybe
  <2>2. /\ issued' = issued + 1 /\ issued' \in BrokerIds
        /\ bstatus' \in [BrokerIds -> TossStatuses \cup {"absent"}]
        /\ cid' \in [BrokerIds -> Maybe(ClientIds)]
        /\ cid[issued'] = NULL /\ cid'[issued'] = NULL
        /\ bstatus[issued'] = "absent"
        /\ \A b \in BrokerIds : b # issued' => cid'[b] = cid[b] /\ bstatus'[b] = bstatus[b]
        /\ BrokerInv'
    BY <2>1, Issuing
  <2>3. issued' \in 0 .. MaxOrders /\ issued <= issued'
    BY <2>2, <1>a DEF BrokerIds
  <2>4. "absent" \notin Final
    BY DEF Final
  <2> QED
    BY <2>1, <2>2, <2>3, <2>4 DEF BrokerMoves
<1> QED
  BY <1>1, <1>3, <1>4, <1>5
  DEF BrokerStep, PartialFill, Fill, Reject, CancelDone, Expire, ModifyRequest, OpenGroup

-----------------------------------------------------------------------------
(* What no step takes back                                                 *)

(* Issued orders stay, with their client ids and their final statuses; and *)
(* so do rows, and the broker id of a row.                                 *)
Forward ==
  /\ issued' \in Int /\ issued <= issued'
  /\ \A b \in BrokerIds : cid[b] # NULL => cid'[b] = cid[b]
  /\ \A b \in BrokerIds : bstatus[b] \in Final => bstatus'[b] = bstatus[b]
  /\ \A k \in RowKeys : Exists(k) => Exists(k)'
  /\ \A k \in RowKeys : bid[k] # NULL => bid'[k] = bid[k]

(* The invariant of the broker's orders and of the table.                  *)
DataInv ==
  /\ BrokerInv /\ OneOrderPerClientId /\ WrittenAhead
  /\ RowsInv /\ RowTracksItsOrder
  /\ FilledIsReal

LEMMA Parts == IInv <=> TypeOK /\ DataInv /\ CallsInv /\ OrderSyncInv /\ HistoryInv
BY DEF IInv, DataInv

(* Few facts about the bounds and the kinds of key.                        *)
LEMMA Keys ==
  /\ MaxOrders \in Nat /\ MaxPages \in Nat /\ MaxFaults \in Nat /\ MaxCrashes \in Nat
  /\ \A b \in BrokerIds : b \in Int /\ b # NULL /\ b \notin ClientIds
  /\ \A k \in RowKeys : k # NULL
  /\ \A c \in ClientIds : c # NULL /\ c \notin BrokerIds
BY ConstantsAssumption DEF BrokerIds

(* A step that leaves the data alone keeps its invariant.                  *)
LEMMA DataKept ==
  ASSUME TypeOK, DataInv, UNCHANGED <<broker, table, announced>>
  PROVE  DataInv' /\ Forward
<1> USE Keys DEF broker, table, Exists
<1>1. DataInv'
  BY DEF DataInv, BrokerInv, OneOrderPerClientId, WrittenAhead, RowsInv, RowTracksItsOrder,
         FilledIsReal
<1>2. Forward
  BY DEF Forward, TypeOK
<1> QED
  BY <1>1, <1>2

(* Whatever goes forward keeps what the order feed remembers ...           *)
LEMMA OrderSyncKept ==
  ASSUME TypeOK, OrderSyncInv, Forward, UNCHANGED osync
  PROVE  OrderSyncInv'
<1> USE Keys
<1>1. osTodo' = osTodo /\ osHold' = osHold
  BY DEF osync
<1>2. ASSUME NEW r \in osTodo PROVE bid'[r[1]] = r[2]
  <2>1. r[1] \in RowKeys /\ r[2] \in BrokerIds
    BY DEF TypeOK
  <2> QED
    BY <2>1 DEF OrderSyncInv, Forward
<1>3. ASSUME osHold # NULL
      PROVE  bid'[osHold.key] = osHold.bid /\ bstatus'[osHold.bid] = osHold.st
  <2>1. osHold.key \in RowKeys /\ osHold.bid \in BrokerIds /\ osHold.st \in Final
    BY <1>3 DEF TypeOK, Maybe
  <2> QED
    BY <1>3, <2>1 DEF OrderSyncInv, Forward
<1> QED
  BY <1>1, <1>2, <1>3 DEF OrderSyncInv

(* ... the truth of a listing ...                                          *)
LEMMA TruthKept ==
  ASSUME TypeOK, Forward, NEW e \in Listing, Truthful(e)
  PROVE  Truthful(e)'
<1>1. e.bid \in BrokerIds /\ e.bid \in Int /\ issued \in Int
  BY Keys DEF Listing, TypeOK
<1> QED
  BY <1>1 DEF Truthful, Forward

(* ... what the history feed remembers ...                                 *)
LEMMA HistoryKept ==
  ASSUME TypeOK, HistoryInv, Forward, UNCHANGED hsync
  PROVE  HistoryInv'
<1>1. hsOpen' = hsOpen /\ hsClosed' = hsClosed /\ hsHold' = hsHold
  BY DEF hsync
<1>2. \A e \in hsOpen \cup hsClosed : Truthful(e)'
  BY TruthKept DEF TypeOK, HistoryInv
<1>3. ASSUME hsHold # NULL
      PROVE  /\ Truthful(hsHold.e)'
             /\ hsHold.row # NULL =>
                  /\ Exists(hsHold.row)'
                  /\ hsHold.row = EffectiveId(hsHold.e) \/ bid'[hsHold.row] = hsHold.e.bid
  <2>1. hsHold.e \in Listing /\ hsHold.row \in Maybe(RowKeys) /\ hsHold.e.bid \in BrokerIds
    BY <1>3 DEF TypeOK, Maybe, Listing
  <2>2. Truthful(hsHold.e)'
    BY <1>1, <1>3, <2>1, TruthKept DEF HistoryInv
  <2>3. ASSUME hsHold.row # NULL
        PROVE  /\ Exists(hsHold.row)'
               /\ hsHold.row = EffectiveId(hsHold.e) \/ bid'[hsHold.row] = hsHold.e.bid
    <3>1. hsHold.row \in RowKeys
      BY <2>1, <2>3 DEF Maybe
    <3>2. /\ Exists(hsHold.row)
          /\ hsHold.row = EffectiveId(hsHold.e) \/ bid[hsHold.row] = hsHold.e.bid
      BY <1>3, <2>3 DEF HistoryInv
    <3>3. Exists(hsHold.row)'
      BY <1>1, <3>1, <3>2 DEF Forward, Exists
    <3>4. hsHold.e.bid # NULL
      BY <2>1, Keys
    <3>5. bid[hsHold.row] = hsHold.e.bid => bid'[hsHold.row] = hsHold.e.bid
      BY <3>1, <3>4 DEF Forward
    <3> QED
      BY <3>2, <3>3, <3>5
  <2> QED
    BY <2>2, <2>3
<1> QED
  BY <1>1, <1>2, <1>3 DEF HistoryInv, Exists, Truthful, EffectiveId

(* ... and, while no order is placed, what the calls of submit rely on.    *)
LEMMA CallsKept ==
  ASSUME TypeOK, CallsInv, Forward, UNCHANGED submits, \A b \in BrokerIds : cid'[b] = cid[b]
  PROVE  CallsInv'
BY DEF CallsInv, Forward, submits, Inserted, Exists

-----------------------------------------------------------------------------
(* The broker and the modify route                                         *)

LEMMA BrokerKeeps ==
  ASSUME IInv, BrokerMoves
  PROVE  IInv'
<1> USE Keys, Statuses
<1>1. TypeOK /\ DataInv /\ CallsInv /\ OrderSyncInv /\ HistoryInv
  BY Parts
<1>2. /\ status' = status /\ bid' = bid /\ announced' = announced
      /\ UNCHANGED <<submits, osync, hsync, apiHold, budget>>
  BY DEF BrokerMoves, Untouched, table
<1>3. TypeOK'
  BY <1>1, <1>2 DEF TypeOK, BrokerMoves, submits, osync, hsync, budget
<1>4. Forward
  BY <1>1, <1>2 DEF Forward, BrokerMoves, Exists
<1>5. DataInv'
  <2>1. OneOrderPerClientId' /\ WrittenAhead'
    BY <1>1, <1>2 DEF DataInv, BrokerMoves, OneOrderPerClientId, WrittenAhead, Exists
  <2>2. ASSUME NEW k \in RowKeys, bid[k] # NULL
        PROVE  bid[k] <= issued' /\ (k = Native(bid[k]) \/ cid'[bid[k]] = k)
    <3>1. bid[k] \in BrokerIds /\ issued \in Int /\ issued' \in Int /\ issued <= issued'
      BY <1>1, <2>2 DEF TypeOK, Maybe, BrokerMoves
    <3> QED
      BY <1>1, <2>2, <3>1 DEF DataInv, RowsInv, RowTracksItsOrder, BrokerMoves
  <2>3. RowsInv' /\ RowTracksItsOrder'
    BY <1>1, <1>2, <2>2 DEF DataInv, RowsInv, RowTracksItsOrder, Exists
  <2>4. FilledIsReal'
    BY <1>1, <1>2 DEF DataInv, FilledIsReal, BrokerMoves, TypeOK, Maybe
  <2> QED
    BY <2>1, <2>3, <2>4 DEF DataInv, BrokerMoves
<1>6. CallsInv' /\ OrderSyncInv' /\ HistoryInv'
  BY <1>1, <1>2, <1>4, CallsKept, OrderSyncKept, HistoryKept DEF BrokerMoves
<1> QED
  BY <1>3, <1>5, <1>6, Parts DEF IInv, DataInv

-----------------------------------------------------------------------------
(* OrderExecutor.submit                                                    *)

(* A call that returns takes nothing from the others.                      *)
LEMMA Returning ==
  ASSUME TypeOK, CallsInv, Forward, NEW t \in Tasks, Return(t),
         \A b \in BrokerIds : cid'[b] = cid[b]
  PROVE  CallsInv'
BY DEF TypeOK, CallsInv, Forward, Return, Inserted, Exists

LEMMA SubmitCheckKeeps ==
  ASSUME IInv, NEW t \in Tasks, NEW c \in ClientIds, SubmitCheck(t, c)
  PROVE  IInv'
<1>1. TypeOK /\ DataInv /\ CallsInv /\ OrderSyncInv /\ HistoryInv
  BY Parts
<1>2. TypeOK'
  BY <1>1 DEF TypeOK, SubmitCheck, Maybe, broker, table, osync, hsync, budget
<1>3. DataInv' /\ Forward
  BY <1>1, DataKept DEF SubmitCheck
<1>4. CallsInv'
  BY <1>1, <1>3 DEF TypeOK, CallsInv, SubmitCheck, Inserted, Exists, broker, table
<1>5. OrderSyncInv' /\ HistoryInv'
  BY <1>1, <1>3, OrderSyncKept, HistoryKept DEF SubmitCheck
<1> QED
  BY <1>2, <1>3, <1>4, <1>5 DEF IInv, DataInv

LEMMA SubmitInsertKeeps ==
  ASSUME IInv, NEW t \in Tasks, SubmitInsert(t)
  PROVE  IInv'
<1> USE Keys
<1>1. TypeOK /\ DataInv /\ CallsInv /\ OrderSyncInv /\ HistoryInv
  BY Parts
<1>2. arg[t] \in ClientIds /\ arg[t] \in RowKeys
  BY <1>1 DEF CallsInv, SubmitInsert
<1>3. UNCHANGED <<broker, bid, announced, osync, hsync, apiHold>>
  BY DEF SubmitInsert, Return, table
<1>4. CASE /\ ~Exists(arg[t]) /\ UNCHANGED <<arg, ack, budget>>
           /\ status' = [status EXCEPT ![arg[t]] = "pending"]
           /\ pc' = [pc EXCEPT ![t] = "sending"]
  <2>1. TypeOK'
    BY <1>1, <1>3, <1>4 DEF TypeOK, broker, osync, hsync, budget, LocalStatuses, PendingStatuses
  <2>2. Forward
    BY <1>1, <1>3, <1>4 DEF Forward, TypeOK, Exists, broker
  <2>3. \A b \in BrokerIds : cid[b] # arg[t]
    BY <1>1, <1>2, <1>4 DEF DataInv, WrittenAhead
  <2>4. bid[arg[t]] = NULL
    BY <1>1, <1>2, <1>4 DEF DataInv, RowsInv
  <2>5. DataInv'
    BY <1>1, <1>2, <1>3, <1>4, <2>2, <2>4
    DEF TypeOK, Maybe, DataInv, BrokerInv, OneOrderPerClientId, WrittenAhead, RowsInv, RowTracksItsOrder,
        FilledIsReal, Exists, broker, Forward
  <2>6. \A u \in Tasks : Inserted(u) => arg[u] # arg[t]
    BY <1>1, <1>4 DEF CallsInv
  <2>7. CallsInv'
    BY <1>1, <1>2, <1>3, <1>4, <2>3, <2>6 DEF TypeOK, CallsInv, Inserted, Exists, broker
  <2>8. OrderSyncInv' /\ HistoryInv'
    BY <1>1, <1>3, <2>2, OrderSyncKept, HistoryKept
  <2> QED
    BY <2>1, <2>5, <2>7, <2>8 DEF IInv, DataInv
<1>5. CASE Return(t) /\ UNCHANGED table /\ (UNCHANGED budget \/ Fault)
  <2>1. TypeOK'
    BY <1>1, <1>3, <1>5 DEF TypeOK, Return, Fault, Maybe, broker, table, osync, hsync, budget
  <2>2. DataInv' /\ Forward
    BY <1>1, <1>3, <1>5, DataKept
  <2>3. CallsInv'
    BY <1>1, <1>3, <1>5, <2>2, Returning DEF broker
  <2>4. OrderSyncInv' /\ HistoryInv'
    BY <1>1, <1>3, <2>2, OrderSyncKept, HistoryKept
  <2> QED
    BY <2>1, <2>2, <2>3, <2>4 DEF IInv, DataInv
<1> QED
  BY <1>4, <1>5 DEF SubmitInsert

LEMMA SubmitPlaceKeeps ==
  ASSUME IInv, NEW t \in Tasks, SubmitPlace(t)
  PROVE  IInv'
<1> USE Keys, Statuses
<1>1. TypeOK /\ DataInv /\ CallsInv /\ OrderSyncInv /\ HistoryInv
  BY Parts
<1>2. /\ arg[t] \in ClientIds /\ arg[t] \in RowKeys /\ Exists(arg[t])
      /\ \A b \in BrokerIds : cid[b] # arg[t]
      /\ \A u \in Tasks : Inserted(u) /\ arg[u] = arg[t] => u = t
  BY <1>1 DEF CallsInv, SubmitPlace, Inserted
<1>3. UNCHANGED <<arg, table, osync, hsync, apiHold, announced, budget>>
  BY DEF SubmitPlace
(* The broker takes the order, whether or not its answer arrives.          *)
<1>4. ASSUME Issue("PENDING", arg[t]),
             \/ pc' = [pc EXCEPT ![t] = "acked"] /\ ack' = [ack EXCEPT ![t] = issued + 1]
             \/ pc' = [pc EXCEPT ![t] = "failed"] /\ ack' = ack
      PROVE  IInv'
  <2>1. "PENDING" \in TossStatuses /\ arg[t] \in Maybe(ClientIds) /\ BrokerInv
    BY <1>1, <1>2 DEF Maybe, DataInv
  <2>2. /\ issued' = issued + 1 /\ issued' \in BrokerIds
        /\ bstatus' \in [BrokerIds -> TossStatuses \cup {"absent"}]
        /\ cid' \in [BrokerIds -> Maybe(ClientIds)]
        /\ cid[issued'] = NULL /\ cid'[issued'] = arg[t]
        /\ bstatus[issued'] = "absent"
        /\ \A b \in BrokerIds : b # issued' => cid'[b] = cid[b] /\ bstatus'[b] = bstatus[b]
        /\ BrokerInv'
    BY <1>1, <1>4, <2>1, Issuing
  <2>3. issued \in Int /\ issued' \in 0 .. MaxOrders /\ issued <= issued' /\ ~(issued' <= issued)
    BY <1>1, <2>2 DEF TypeOK, BrokerIds
  <2>4. TypeOK'
    BY <1>1, <1>3, <1>4, <2>2, <2>3 DEF TypeOK, Maybe, table, osync, hsync, budget
  <2>5. "absent" \notin Final /\ "absent" # "FILLED"
    BY DEF Final
  <2>6. Forward
    BY <1>1, <1>3, <2>2, <2>3, <2>5 DEF Forward, TypeOK, Exists, table
  <2>7. OneOrderPerClientId' /\ WrittenAhead'
    BY <1>1, <1>2, <1>3, <2>2 DEF DataInv, OneOrderPerClientId, WrittenAhead, Exists, table
  <2>8. ASSUME NEW k \in RowKeys, bid[k] # NULL
        PROVE  /\ bid[k] <= issued' /\ (k = Native(bid[k]) \/ cid'[bid[k]] = k)
               /\ bstatus'[bid[k]] = bstatus[bid[k]]
    <3>1. bid[k] \in BrokerIds /\ bid[k] \in Int /\ bid[k] <= issued
      BY <1>1, <2>8 DEF TypeOK, Maybe, DataInv, RowsInv
    <3> QED
      BY <1>1, <2>2, <2>3, <2>8, <3>1 DEF DataInv, RowTracksItsOrder
  <2>9. RowsInv' /\ RowTracksItsOrder' /\ FilledIsReal'
    BY <1>1, <1>3, <2>8 DEF DataInv, RowsInv, RowTracksItsOrder, FilledIsReal, Exists, table
  <2>10. \A u \in Tasks : u # t => /\ pc'[u] = pc[u] /\ arg'[u] = arg[u] /\ ack'[u] = ack[u]
                                   /\ Inserted(u)' <=> Inserted(u)
    BY <1>1, <1>3, <1>4 DEF TypeOK, Inserted
  <2>11. /\ arg'[t] = arg[t] /\ pc'[t] \in {"acked", "failed"}
         /\ pc'[t] = "acked" => ack'[t] = issued'
    BY <1>1, <1>3, <1>4, <2>2 DEF TypeOK
  <2>12. CallsInv'
    <3> SUFFICES ASSUME NEW u \in Tasks
                 PROVE  /\ pc'[u] = "checked" => arg'[u] \in ClientIds
                        /\ Inserted(u)' => /\ arg'[u] \in ClientIds /\ status'[arg'[u]] # "absent"
                                           /\ \A w \in Tasks : Inserted(w)' /\ arg'[w] = arg'[u] => w = u
                        /\ pc'[u] = "sending" => \A b \in BrokerIds : cid'[b] # arg'[u]
                        /\ pc'[u] = "acked" => ack'[u] \in BrokerIds /\ cid'[ack'[u]] = arg'[u]
      BY <1>3 DEF CallsInv, Exists
    <3>1. CASE u = t
      BY <3>1, <1>2, <1>3, <2>2, <2>10, <2>11 DEF Inserted, Exists, table
    <3>2. CASE u # t
      <4>1. Inserted(t) /\ Inserted(t)'
        BY <2>11 DEF Inserted, SubmitPlace
      <4>2. Inserted(u) => arg[u] # arg[t]
        BY <3>2, <1>2
      <4>3. /\ pc'[u] = "checked" => arg'[u] \in ClientIds
            /\ Inserted(u)' => arg'[u] \in ClientIds /\ status'[arg'[u]] # "absent"
        BY <3>2, <1>1, <1>3, <2>10 DEF CallsInv, Exists, table
      <4>4. Inserted(u)' => \A w \in Tasks : Inserted(w)' /\ arg'[w] = arg'[u] => w = u
        BY <3>2, <1>1, <2>10, <2>11, <4>1, <4>2 DEF CallsInv
      <4>5. pc'[u] = "sending" => \A b \in BrokerIds : cid'[b] # arg'[u]
        <5>1. pc[u] = "sending" => arg[u] # arg[t] /\ \A b \in BrokerIds : cid[b] # arg[u]
          BY <1>1, <4>2 DEF CallsInv, Inserted
        <5> QED
          BY <3>2, <5>1, <2>2, <2>10
      <4>6. pc'[u] = "acked" => ack'[u] \in BrokerIds /\ cid'[ack'[u]] = arg'[u]
        <5>1. pc[u] = "acked" => ack[u] \in BrokerIds /\ cid[ack[u]] = arg[u] /\ arg[u] # NULL
          BY <1>1 DEF CallsInv, Inserted
        <5> QED
          BY <3>2, <5>1, <2>2, <2>10, ZenonT(60)
      <4> QED
        BY <4>3, <4>4, <4>5, <4>6
    <3> QED
      BY <3>1, <3>2
  <2>13. OrderSyncInv' /\ HistoryInv'
    BY <1>1, <1>3, <2>6, OrderSyncKept, HistoryKept
  <2> QED
    BY <2>2, <2>4, <2>7, <2>9, <2>12, <2>13 DEF IInv
<1>5. ASSUME pc' = [pc EXCEPT ![t] = "failed"], UNCHANGED <<broker, ack>>
      PROVE  IInv'
  <2>1. TypeOK'
    BY <1>1, <1>3, <1>5 DEF TypeOK, broker, table, osync, hsync, budget
  <2>2. DataInv' /\ Forward
    BY <1>1, <1>3, <1>5, DataKept
  <2>3. \A u \in Tasks : Inserted(u)' <=> Inserted(u)
    BY <1>1, <1>5 DEF TypeOK, Inserted, SubmitPlace
  <2>4. CallsInv'
    BY <1>1, <1>2, <1>3, <1>5, <2>3 DEF TypeOK, CallsInv, Exists, broker, table
  <2>5. OrderSyncInv' /\ HistoryInv'
    BY <1>1, <1>3, <2>2, OrderSyncKept, HistoryKept
  <2> QED
    BY <2>1, <2>2, <2>4, <2>5 DEF IInv, DataInv
<1> QED
  BY <1>4, <1>5 DEF SubmitPlace

LEMMA SubmitStoreKeeps ==
  ASSUME IInv, NEW t \in Tasks, SubmitStore(t)
  PROVE  IInv'
<1> USE Keys
<1>1. TypeOK /\ DataInv /\ CallsInv /\ OrderSyncInv /\ HistoryInv
  BY Parts
<1>2. /\ arg[t] \in ClientIds /\ arg[t] \in RowKeys /\ Exists(arg[t])
      /\ ack[t] \in BrokerIds /\ cid[ack[t]] = arg[t]
  BY <1>1 DEF CallsInv, SubmitStore, Inserted
<1>3. Return(t) /\ UNCHANGED <<broker, osync, hsync, apiHold, announced>>
  BY DEF SubmitStore
<1>4. CASE /\ status' = [status EXCEPT ![arg[t]] = "submitted"]
           /\ bid' = [bid EXCEPT ![arg[t]] = ack[t]] /\ UNCHANGED budget
  <2>1. TypeOK'
    BY <1>1, <1>2, <1>3, <1>4
    DEF TypeOK, Return, Maybe, broker, osync, hsync, budget, LocalStatuses, PendingStatuses
(* Whatever found the order first gave the row the same broker id.         *)
  <2>2. bid[arg[t]] # NULL => bid[arg[t]] = ack[t]
    <3>1. ASSUME bid[arg[t]] # NULL PROVE bid[arg[t]] = ack[t]
      <4>1. bid[arg[t]] \in BrokerIds
        BY <1>1, <1>2, <3>1 DEF TypeOK, Maybe
      <4>2. cid[bid[arg[t]]] = arg[t]
        BY <1>1, <1>2, <3>1, <4>1 DEF DataInv, RowTracksItsOrder
      <4> QED
        BY <1>1, <1>2, <4>1, <4>2 DEF DataInv, OneOrderPerClientId
    <3> QED
      BY <3>1
  <2>3. Forward
    BY <1>1, <1>2, <1>3, <1>4, <2>2 DEF Forward, TypeOK, Exists, broker
  <2>4. BrokerInv' /\ OneOrderPerClientId' /\ WrittenAhead'
    BY <1>1, <1>3, <2>3 DEF TypeOK, Maybe, DataInv, BrokerInv, OneOrderPerClientId, WrittenAhead, broker, Exists, Forward
  <2>5. ack[t] <= issued
    BY <1>1, <1>2 DEF DataInv, BrokerInv
  <2>6. RowsInv' /\ RowTracksItsOrder'
    BY <1>1, <1>2, <1>3, <1>4, <2>5 DEF TypeOK, DataInv, RowsInv, RowTracksItsOrder, broker, Exists
  <2>7. FilledIsReal'
    BY <1>1, <1>2, <1>3, <1>4, <2>3 DEF TypeOK, DataInv, FilledIsReal, broker, Forward
  <2>8. CallsInv' /\ OrderSyncInv' /\ HistoryInv'
    BY <1>1, <1>3, <2>3, Returning, OrderSyncKept, HistoryKept DEF broker
  <2> QED
    BY <2>1, <2>4, <2>6, <2>7, <2>8 DEF IInv
<1>5. CASE Fault /\ UNCHANGED table
  <2>1. TypeOK'
    BY <1>1, <1>3, <1>5 DEF TypeOK, Return, Fault, Maybe, broker, table, osync, hsync, budget
  <2>2. DataInv' /\ Forward
    BY <1>1, <1>3, <1>5, DataKept
  <2>3. CallsInv' /\ OrderSyncInv' /\ HistoryInv'
    BY <1>1, <1>3, <2>2, Returning, OrderSyncKept, HistoryKept DEF broker
  <2> QED
    BY <2>1, <2>2, <2>3 DEF IInv, DataInv
<1> QED
  BY <1>4, <1>5 DEF SubmitStore

(* Writing a status keeps the data sound if no row goes away and "filled"  *)
(* is only said of filled orders.                                          *)
LEMMA StatusWritten ==
  ASSUME TypeOK, DataInv, UNCHANGED <<broker, bid>>,
         \A k \in RowKeys : Exists(k) => status'[k] # "absent",
         \A k \in RowKeys : status'[k] = "filled" \/ k \in announced' =>
           bid[k] # NULL /\ bstatus[bid[k]] = "FILLED"
  PROVE  DataInv' /\ Forward
<1> USE Keys DEF broker, Exists
<1>1. BrokerInv' /\ OneOrderPerClientId'
  BY DEF DataInv, BrokerInv, OneOrderPerClientId
<1>2. WrittenAhead' /\ RowsInv' /\ RowTracksItsOrder' /\ FilledIsReal'
  BY DEF TypeOK, Maybe, DataInv, WrittenAhead, RowsInv, RowTracksItsOrder, FilledIsReal
<1>3. Forward
  BY DEF Forward, TypeOK
<1> QED
  BY <1>1, <1>2, <1>3 DEF DataInv

LEMMA SubmitFailedKeeps ==
  ASSUME IInv, NEW t \in Tasks, SubmitFailed(t)
  PROVE  IInv'
<1> USE Keys
<1>1. TypeOK /\ DataInv /\ CallsInv /\ OrderSyncInv /\ HistoryInv
  BY Parts
<1>2. arg[t] \in ClientIds /\ arg[t] \in RowKeys
  BY <1>1 DEF CallsInv, SubmitFailed, Inserted
<1>3. Return(t) /\ UNCHANGED <<broker, bid, osync, hsync, apiHold, announced>>
  BY DEF SubmitFailed, table
<1>4. \/ status' = [status EXCEPT ![arg[t]] = "rejected"] /\ UNCHANGED budget
      \/ status' = status /\ Fault
  BY DEF SubmitFailed, table
<1>5. TypeOK'
  BY <1>1, <1>2, <1>3, <1>4 DEF TypeOK, Return, Fault, Maybe, broker, osync, hsync, budget, LocalStatuses
<1>6. DataInv' /\ Forward
  <2>1. \A k \in RowKeys : Exists(k) => status'[k] # "absent"
    BY <1>1, <1>4 DEF TypeOK, Exists
  <2>2. \A k \in RowKeys : status'[k] = "filled" => status[k] = "filled"
    BY <1>1, <1>4 DEF TypeOK
  <2> QED
    BY <1>1, <1>3, <2>1, <2>2, StatusWritten DEF DataInv, FilledIsReal
<1>7. CallsInv' /\ OrderSyncInv' /\ HistoryInv'
  BY <1>1, <1>3, <1>6, Returning, OrderSyncKept, HistoryKept DEF broker
<1> QED
  BY <1>5, <1>6, <1>7 DEF IInv, DataInv

-----------------------------------------------------------------------------
(* OrderSyncFeed                                                           *)

LEMMA OrderSyncSnapshotKeeps ==
  ASSUME IInv, OrderSyncSnapshot
  PROVE  IInv'
<1>1. TypeOK /\ DataInv /\ CallsInv /\ OrderSyncInv /\ HistoryInv
  BY Parts
<1>2. UNCHANGED <<osHold, broker, table, submits, hsync, apiHold, announced, budget>>
  BY DEF OrderSyncSnapshot
<1>3. \A r \in osTodo' : r \in RowKeys \X BrokerIds /\ bid[r[1]] = r[2]
  BY <1>1 DEF OrderSyncSnapshot, TypeOK, Maybe
<1>4. TypeOK'
  BY <1>1, <1>2, <1>3 DEF TypeOK, broker, table, submits, hsync, budget
<1>5. DataInv' /\ Forward
  BY <1>1, <1>2, DataKept
<1>6. OrderSyncInv'
  BY <1>1, <1>2, <1>3 DEF OrderSyncInv, OrderSyncSnapshot, broker, table
<1>7. CallsInv' /\ HistoryInv'
  BY <1>1, <1>2, <1>5, CallsKept, HistoryKept DEF broker
<1> QED
  BY <1>4, <1>5, <1>6, <1>7 DEF IInv, DataInv

LEMMA OrderSyncFetchKeeps ==
  ASSUME IInv, OrderSyncFetch
  PROVE  IInv'
<1>1. TypeOK /\ DataInv /\ CallsInv /\ OrderSyncInv /\ HistoryInv
  BY Parts
<1>2. UNCHANGED <<broker, table, submits, hsync, apiHold, announced>>
  BY DEF OrderSyncFetch
<1>3. PICK r \in osTodo :
        /\ osTodo' = osTodo \ {r}
        /\ \/ /\ bstatus[r[2]] \in Final
              /\ osHold' = [key |-> r[1], bid |-> r[2], st |-> bstatus[r[2]]]
              /\ UNCHANGED budget
           \/ osHold' = osHold /\ (UNCHANGED budget \/ Fault)
  BY DEF OrderSyncFetch
<1>4. r[1] \in RowKeys /\ r[2] \in BrokerIds /\ bid[r[1]] = r[2]
  BY <1>1 DEF TypeOK, OrderSyncInv
<1>5. TypeOK'
  BY <1>1, <1>2, <1>3, <1>4, Keys DEF TypeOK, Maybe, Fault, broker, table, submits, hsync, budget
<1>6. DataInv' /\ Forward
  BY <1>1, <1>2, DataKept
<1>7. OrderSyncInv'
  BY <1>1, <1>2, <1>3, <1>4 DEF OrderSyncInv, broker, table
<1>8. CallsInv' /\ HistoryInv'
  BY <1>1, <1>2, <1>6, CallsKept, HistoryKept DEF broker
<1> QED
  BY <1>5, <1>6, <1>7, <1>8 DEF IInv, DataInv

LEMMA OrderSyncStoreKeeps ==
  ASSUME IInv, OrderSyncStore
  PROVE  IInv'
<1> USE Keys
<1>1. TypeOK /\ DataInv /\ CallsInv /\ OrderSyncInv /\ HistoryInv
  BY Parts
<1>2. UNCHANGED <<osTodo, broker, bid, submits, hsync, apiHold>> /\ osHold' = NULL
  BY DEF OrderSyncStore, table
<1>3. /\ osHold.key \in RowKeys /\ osHold.bid \in BrokerIds /\ osHold.st \in Final
      /\ bid[osHold.key] = osHold.bid /\ bstatus[osHold.bid] = osHold.st
  BY <1>1 DEF TypeOK, Maybe, OrderSyncInv, OrderSyncStore
<1> DEFINE new == ClosedStatusMap(osHold.st)
<1>4. new \in LocalStatuses /\ (new = "filled" <=> osHold.st = "FILLED")
  BY <1>3, StatusMaps
<1> HIDE DEF new
<1>5. \/ /\ status' = [status EXCEPT ![osHold.key] = new]
         /\ announced' = IF new = "filled" THEN announced \cup {osHold.key} ELSE announced
         /\ UNCHANGED budget
      \/ UNCHANGED <<table, announced>> /\ Fault
  BY DEF OrderSyncStore, new
<1>6. TypeOK'
  BY <1>1, <1>2, <1>3, <1>4, <1>5 DEF TypeOK, Maybe, Fault, broker, table, submits, hsync, budget
<1>7. DataInv' /\ Forward
  <2>1. \A k \in RowKeys : Exists(k) => status'[k] # "absent"
    BY <1>1, <1>4, <1>5, Statuses DEF TypeOK, Exists, table
  <2>2. ASSUME NEW k \in RowKeys, status'[k] = "filled" \/ k \in announced'
        PROVE  bid[k] # NULL /\ bstatus[bid[k]] = "FILLED"
    <3>1. CASE k = osHold.key /\ new = "filled"
      BY <3>1, <1>3, <1>4
    <3>2. CASE ~(k = osHold.key /\ new = "filled")
      <4>1. status[k] = "filled" \/ k \in announced
        BY <1>1, <1>5, <2>2, <3>2 DEF TypeOK, table
      <4> QED
        BY <4>1, <1>1 DEF DataInv, FilledIsReal
    <3> QED
      BY <3>1, <3>2
  <2> QED
    BY <1>1, <1>2, <2>1, <2>2, StatusWritten
<1>8. OrderSyncInv'
  BY <1>1, <1>2 DEF OrderSyncInv, broker
<1>9. CallsInv' /\ HistoryInv'
  BY <1>1, <1>2, <1>7, CallsKept, HistoryKept DEF broker
<1> QED
  BY <1>6, <1>7, <1>8, <1>9 DEF IInv, DataInv

-----------------------------------------------------------------------------
(* OrderHistorySyncFeed                                                    *)

(* The broker lists what it holds.                                         *)
LEMMA ListingsAreTrue ==
  ASSUME TypeOK, BrokerInv, NEW S \in SUBSET (1 .. issued), NEW echo \in BOOLEAN,
         \A b \in S : bstatus[b] \in TossStatuses
  PROVE  \A e \in Listings(S, echo) : e \in Listing /\ Truthful(e)
<1> SUFFICES ASSUME NEW b \in S
             PROVE  LET e == [bid |-> b, st |-> bstatus[b], cid |-> IF echo THEN cid[b] ELSE NULL]
                    IN  e \in Listing /\ Truthful(e)
  BY DEF Listings
<1>1. b \in BrokerIds /\ b <= issued
  <2>1. b \in 1 .. issued /\ issued \in 0 .. MaxOrders /\ MaxOrders \in Nat
    BY Keys DEF TypeOK
  <2> QED
    BY <2>1 DEF BrokerIds
<1> QED
  BY <1>1 DEF TypeOK, Maybe, Listing, Truthful

LEMMA HistoryListOpenKeeps ==
  ASSUME IInv, HistoryListOpen
  PROVE  IInv'
<1>1. TypeOK /\ DataInv /\ CallsInv /\ OrderSyncInv /\ HistoryInv /\ BrokerInv
  BY Parts DEF DataInv
<1>2. UNCHANGED <<broker, table, submits, osync, apiHold, announced, backfilled>>
  BY DEF HistoryListOpen
<1>3. \/ /\ \A e \in hsOpen' : e \in Listing /\ Truthful(e)
         /\ hsPc' = "closed" /\ UNCHANGED <<hsClosed, hsHold, hsCursor, hsPages, budget>>
      \/ Fault /\ HistoryAbort
  <2>1. ASSUME NEW echo \in Echo,
               hsOpen' = Listings({b \in 1 .. issued : bstatus[b] \in OpenGroup}, echo)
        PROVE  \A e \in hsOpen' : e \in Listing /\ Truthful(e)
    BY <1>1, <2>1, ListingsAreTrue, Statuses, ConstantsAssumption
  <2> QED
    BY <2>1 DEF HistoryListOpen
<1>4. TypeOK'
  BY <1>1, <1>2, <1>3, Keys
  DEF TypeOK, Maybe, Fault, HistoryAbort, broker, table, submits, osync, budget
<1>5. DataInv' /\ Forward
  BY <1>1, <1>2, DataKept
<1>6. HistoryInv'
  BY <1>1, <1>2, <1>3 DEF HistoryInv, HistoryAbort, HistoryListOpen, HistoryIdle, Truthful, broker
<1>7. CallsInv' /\ OrderSyncInv'
  BY <1>1, <1>2, <1>5, CallsKept, OrderSyncKept DEF broker
<1> QED
  BY <1>4, <1>5, <1>6, <1>7 DEF IInv, DataInv

LEMMA HistoryListClosedKeeps ==
  ASSUME IInv, HistoryListClosed
  PROVE  IInv'
<1>1. TypeOK /\ DataInv /\ CallsInv /\ OrderSyncInv /\ HistoryInv /\ BrokerInv
  BY Parts DEF DataInv
<1>2. UNCHANGED <<broker, table, submits, osync, apiHold, announced>>
  BY DEF HistoryListClosed
<1>3. Page(hsCursor) \subseteq 1 .. issued /\ \A b \in Page(hsCursor) : bstatus[b] \in TossStatuses
  BY DEF Page, Older, Closed, TossStatuses
<1>4. \/ /\ \A e \in hsClosed' : e \in hsClosed \/ (e \in Listing /\ Truthful(e))
         /\ UNCHANGED <<hsOpen, hsHold, budget>>
         /\ \/ hsCursor' \in Page(hsCursor) /\ hsPages + 1 < MaxPages /\ hsPages' = hsPages + 1
               /\ UNCHANGED <<hsPc, backfilled>>
            \/ hsPc' = "apply" /\ backfilled' \in BOOLEAN /\ hsCursor' = MaxOrders + 1 /\ hsPages' = 0
      \/ Fault /\ HistoryAbort /\ UNCHANGED backfilled
  <2>1. ASSUME NEW echo \in Echo, hsClosed' = hsClosed \cup Listings(Page(hsCursor), echo)
        PROVE  \A e \in hsClosed' : e \in hsClosed \/ (e \in Listing /\ Truthful(e))
    BY <1>1, <1>3, <2>1, ListingsAreTrue, ConstantsAssumption
  <2> QED
    BY <1>1, <2>1 DEF HistoryListClosed, TypeOK
<1>5. TypeOK'
  <2>1. issued <= MaxOrders /\ issued \in Int
    BY <1>1, Keys DEF TypeOK
  <2>2. hsCursor' \in 1 .. MaxOrders + 1 /\ hsPages' \in 0 .. MaxPages
    BY <1>1, <1>3, <1>4, <2>1, Keys DEF TypeOK, HistoryAbort
  <2> QED
    BY <1>1, <1>2, <1>4, <2>2, Keys
    DEF TypeOK, Maybe, Fault, HistoryAbort, broker, table, submits, osync, budget
<1>6. DataInv' /\ Forward
  BY <1>1, <1>2, DataKept
<1>7. HistoryInv'
  BY <1>1, <1>2, <1>4 DEF HistoryInv, HistoryAbort, Truthful, broker, table, Exists
<1>8. CallsInv' /\ OrderSyncInv'
  BY <1>1, <1>2, <1>6, CallsKept, OrderSyncKept DEF broker
<1> QED
  BY <1>5, <1>6, <1>7, <1>8 DEF IInv, DataInv

LEMMA HistorySelectKeeps ==
  ASSUME IInv, HistorySelect
  PROVE  IInv'
<1>1. TypeOK /\ DataInv /\ CallsInv /\ OrderSyncInv /\ HistoryInv
  BY Parts
<1>2. /\ UNCHANGED <<hsPc, hsCursor, hsPages, backfilled>>
      /\ UNCHANGED <<broker, table, submits, osync, apiHold, announced, budget>>
  BY DEF HistorySelect
<1>3. PICK e \in hsOpen \cup hsClosed, k \in Maybe(RowKeys) :
        /\ hsOpen' \subseteq hsOpen /\ hsClosed' \subseteq hsClosed
        /\ hsHold' = [e |-> e, row |-> k]
        /\ k # NULL => k \in Matches(e)
  BY DEF HistorySelect, Matches, Maybe
<1>4. e \in Listing /\ Truthful(e)
  BY <1>1, <1>3 DEF TypeOK, HistoryInv
<1>5. TypeOK'
  BY <1>1, <1>2, <1>3, <1>4 DEF TypeOK, Maybe, broker, table, submits, osync, budget
<1>6. DataInv' /\ Forward
  BY <1>1, <1>2, DataKept
<1>7. HistoryInv'
  <2>1. hsHold'.e = e /\ hsHold'.row = k
    BY <1>3
  <2>2. k # NULL => Exists(k) /\ (k = EffectiveId(e) \/ bid[k] = e.bid)
    BY <1>3 DEF Matches
  <2>3. \A x \in hsOpen' \cup hsClosed' : Truthful(x)
    BY <1>1, <1>3 DEF HistoryInv
  <2> QED
    BY <1>2, <1>4, <2>1, <2>2, <2>3 DEF HistoryInv, Truthful, Exists, EffectiveId, broker, table
<1>8. CallsInv' /\ OrderSyncInv'
  BY <1>1, <1>2, <1>6, CallsKept, OrderSyncKept DEF broker
<1> QED
  BY <1>5, <1>6, <1>7, <1>8 DEF IInv, DataInv

LEMMA HistoryWriteKeeps ==
  ASSUME IInv, HistoryWrite
  PROVE  IInv'
<1> USE Keys
<1> DEFINE e == hsHold.e
           key == IF hsHold.row = NULL THEN EffectiveId(e) ELSE hsHold.row
           new == TossStatusMap(e.st)
<1>1. TypeOK /\ DataInv /\ CallsInv /\ OrderSyncInv /\ HistoryInv
  BY Parts
<1>2. /\ hsHold # NULL /\ hsHold' = NULL
      /\ UNCHANGED <<hsPc, hsOpen, hsClosed, hsCursor, hsPages, backfilled>>
      /\ UNCHANGED <<broker, submits, osync, apiHold, announced>>
  BY DEF HistoryWrite
<1>3. e \in Listing /\ hsHold.row \in Maybe(RowKeys) /\ Truthful(e)
  BY <1>1, <1>2 DEF TypeOK, Maybe, HistoryInv
<1>4. /\ e.bid \in BrokerIds /\ e.st \in TossStatuses /\ e.cid \in Maybe(ClientIds)
      /\ EffectiveId(e) \in RowKeys /\ key \in RowKeys
  BY <1>3 DEF Listing, Maybe, EffectiveId
<1>5. new \in LocalStatuses /\ (new = "filled" <=> e.st = "FILLED") /\ new # "absent"
  BY <1>4, StatusMaps, Statuses
<1>6. hsHold.row # NULL => Exists(key) /\ (key = EffectiveId(e) \/ bid[key] = e.bid)
  BY <1>1, <1>2 DEF HistoryInv
<1>7. hsHold.row = NULL => key = EffectiveId(e)
  OBVIOUS
<1>8. \/ /\ hsHold.row # NULL \/ ~Exists(key)
         /\ status' = [status EXCEPT ![key] = new]
         /\ bid' = [bid EXCEPT ![key] = e.bid]
         /\ UNCHANGED budget
      \/ UNCHANGED table /\ (UNCHANGED budget \/ Fault)
  BY DEF HistoryWrite
<1> HIDE DEF key, new, e
<1>9. TypeOK'
  BY <1>1, <1>2, <1>4, <1>5, <1>8 DEF TypeOK, Maybe, Fault, broker, table, submits, osync, budget
(* The row that is written is the row of the listed order.                 *)
<1>10. /\ key = Native(e.bid) \/ cid[e.bid] = key
       /\ bid[key] # NULL => bid[key] = e.bid
       /\ hsHold.row = NULL /\ ~Exists(key) => bid[key] = NULL
  <2>1. EffectiveId(e) = Native(e.bid) \/ (EffectiveId(e) \in ClientIds /\ cid[e.bid] = EffectiveId(e))
    BY <1>3, <1>4 DEF EffectiveId, Truthful, Maybe
  <2>2. ~Exists(key) => bid[key] = NULL
    BY <1>1, <1>4 DEF DataInv, RowsInv
  <2>3. bid[key] # NULL => bid[key] \in BrokerIds /\ (key = Native(bid[key]) \/ cid[bid[key]] = key)
    BY <1>1, <1>4 DEF TypeOK, Maybe, DataInv, RowTracksItsOrder
  <2>4. CASE key = EffectiveId(e)
    <3>1. ASSUME bid[key] # NULL PROVE bid[key] = e.bid
      <4>1. CASE key = Native(e.bid)
        BY <1>1, <1>4, <2>3, <3>1, <4>1 DEF TypeOK, Maybe
      <4>2. CASE key \in ClientIds /\ cid[e.bid] = key
        BY <1>1, <1>4, <2>3, <3>1, <4>2 DEF DataInv, OneOrderPerClientId
      <4> QED
        BY <2>1, <2>4, <4>1, <4>2
    <3> QED
      BY <2>1, <2>2, <2>4, <3>1
  <2>5. CASE bid[key] = e.bid
    BY <1>4, <2>2, <2>3, <2>5
  <2> QED
    BY <1>6, <1>7, <2>4, <2>5
<1>11. ASSUME status' = [status EXCEPT ![key] = new], bid' = [bid EXCEPT ![key] = e.bid]
       PROVE  DataInv' /\ Forward
  <2>1. Forward
    BY <1>1, <1>2, <1>4, <1>5, <1>10, <1>11 DEF Forward, TypeOK, Exists, broker
  <2>2. BrokerInv' /\ OneOrderPerClientId' /\ WrittenAhead'
    BY <1>1, <1>2, <2>1
    DEF TypeOK, Maybe, DataInv, BrokerInv, OneOrderPerClientId, WrittenAhead, broker, Exists, Forward
  <2>3. RowsInv' /\ RowTracksItsOrder'
    BY <1>1, <1>2, <1>3, <1>4, <1>5, <1>10, <1>11
    DEF TypeOK, DataInv, RowsInv, RowTracksItsOrder, Truthful, broker, Exists
  <2>4. new = "filled" => bstatus[e.bid] = "FILLED"
    BY <1>3, <1>5, Statuses DEF Truthful
  <2>5. FilledIsReal'
    BY <1>1, <1>2, <1>4, <1>10, <1>11, <2>4 DEF TypeOK, DataInv, FilledIsReal, broker
  <2> QED
    BY <2>1, <2>2, <2>3, <2>5 DEF DataInv
<1>12. ASSUME UNCHANGED table
       PROVE  DataInv' /\ Forward
  BY <1>1, <1>2, <1>12, DataKept
<1>13. DataInv' /\ Forward
  BY <1>8, <1>11, <1>12
<1>14. HistoryInv'
  <2>1. \A x \in hsOpen \cup hsClosed : Truthful(x)
    BY <1>1 DEF HistoryInv
  <2> QED
    BY <1>2, <2>1 DEF HistoryInv, Truthful, broker
<1>15. CallsInv' /\ OrderSyncInv'
  BY <1>1, <1>2, <1>13, CallsKept, OrderSyncKept DEF broker
<1> QED
  BY <1>9, <1>13, <1>14, <1>15 DEF IInv, DataInv

-----------------------------------------------------------------------------
(* The cancel route and the restart                                        *)

LEMMA CancelRequestKeeps ==
  ASSUME IInv, NEW b \in BrokerIds, CancelRequest(b)
  PROVE  IInv'
<1> USE Keys, Statuses
<1>1. TypeOK /\ DataInv /\ CallsInv /\ OrderSyncInv /\ HistoryInv
  BY Parts
<1>2. /\ UNCHANGED <<issued, cid, table, submits, osync, hsync, announced>> /\ apiHold' \in {b, apiHold}
      /\ UNCHANGED budget \/ Fault
  BY DEF CancelRequest, broker
<1>3. \/ bstatus[b] \in OpenGroup /\ bstatus' = [bstatus EXCEPT ![b] = "PENDING_CANCEL"]
      \/ bstatus' = bstatus
  BY DEF CancelRequest, broker, OpenGroup
<1>4. "PENDING_CANCEL" \in TossStatuses
  BY DEF OpenGroup, TossStatuses
<1>5. /\ bstatus' \in [BrokerIds -> TossStatuses \cup {"absent"}]
      /\ \A d \in BrokerIds : bstatus[d] \in Final => bstatus'[d] = bstatus[d]
      /\ \A d \in BrokerIds : bstatus'[d] = "absent" <=> bstatus[d] = "absent"
  BY <1>1, <1>3, <1>4 DEF TypeOK
<1>6. TypeOK'
  <2>1. faults' \in 0 .. MaxFaults /\ crashes' \in 0 .. MaxCrashes
    BY <1>1, <1>2 DEF TypeOK, Fault, budget
  <2>2. apiHold' \in Maybe(BrokerIds)
    BY <1>1, <1>2 DEF TypeOK, Maybe
  <2> QED
    BY <1>1, <1>2, <1>5, <2>1, <2>2 DEF TypeOK, Maybe, table, submits, osync, hsync
<1>7. Forward
  BY <1>1, <1>2, <1>5 DEF Forward, TypeOK, Exists, table
<1>8. DataInv'
  <2>1. BrokerInv' /\ OneOrderPerClientId' /\ WrittenAhead' /\ RowsInv' /\ RowTracksItsOrder'
    BY <1>1, <1>2, <1>5
    DEF DataInv, BrokerInv, OneOrderPerClientId, WrittenAhead, RowsInv, RowTracksItsOrder, Exists, table
  <2>2. FilledIsReal'
    BY <1>1, <1>2, <1>5 DEF TypeOK, Maybe, DataInv, FilledIsReal, table
  <2> QED
    BY <2>1, <2>2 DEF DataInv
<1>9. CallsInv' /\ OrderSyncInv' /\ HistoryInv'
  BY <1>1, <1>2, <1>7, CallsKept, OrderSyncKept, HistoryKept
<1> QED
  BY <1>6, <1>8, <1>9 DEF IInv, DataInv

LEMMA CancelStoreKeeps ==
  ASSUME IInv, CancelStore
  PROVE  IInv'
<1>1. TypeOK /\ DataInv /\ CallsInv /\ OrderSyncInv /\ HistoryInv
  BY Parts
<1>2. UNCHANGED <<broker, bid, submits, osync, hsync, announced>> /\ apiHold' = NULL
  BY DEF CancelStore, table
<1>3. \/ /\ status' = [k \in RowKeys |->
                       IF Exists(k) /\ bid[k] = apiHold THEN "cancelled" ELSE status[k]]
         /\ UNCHANGED budget
      \/ status' = status /\ Fault
  BY DEF CancelStore, table
<1>4. TypeOK'
  <2>1. status' \in [RowKeys -> LocalStatuses \cup {"absent"}]
    BY <1>1, <1>3 DEF TypeOK, LocalStatuses
  <2>2. faults' \in 0 .. MaxFaults /\ crashes' \in 0 .. MaxCrashes
    BY <1>1, <1>3, Keys DEF TypeOK, Fault, budget
  <2> QED
    BY <1>1, <1>2, <2>1, <2>2 DEF TypeOK, Maybe, broker, submits, osync, hsync
<1>5. DataInv' /\ Forward
  <2>1. /\ \A k \in RowKeys : Exists(k) => status'[k] # "absent"
        /\ \A k \in RowKeys : status'[k] = "filled" => status[k] = "filled"
    BY <1>3 DEF Exists
  <2> QED
    BY <1>1, <1>2, <2>1, StatusWritten DEF DataInv, FilledIsReal
<1>6. CallsInv' /\ OrderSyncInv' /\ HistoryInv'
  BY <1>1, <1>2, <1>5, CallsKept, OrderSyncKept, HistoryKept DEF broker
<1> QED
  BY <1>4, <1>5, <1>6 DEF IInv, DataInv

LEMMA RestartKeeps ==
  ASSUME IInv, Restart
  PROVE  IInv'
<1>1. TypeOK /\ DataInv /\ CallsInv /\ OrderSyncInv /\ HistoryInv
  BY Parts
<1>2. TypeOK'
  <2>1. /\ pc' \in [Tasks -> {"idle", "checked", "sending", "acked", "failed"}]
        /\ arg' \in [Tasks -> Maybe(ClientIds)] /\ ack' \in [Tasks -> Maybe(BrokerIds)]
    BY DEF Restart, Maybe
  <2>2. faults' \in 0 .. MaxFaults /\ crashes' \in 0 .. MaxCrashes
    BY <1>1, Keys DEF TypeOK, Restart
  <2>3. hsCursor' \in 1 .. MaxOrders + 1 /\ hsPages' \in 0 .. MaxPages
    BY Keys DEF Restart, HistoryAbort
  <2> QED
    BY <1>1, <2>1, <2>2, <2>3 DEF TypeOK, Maybe, Restart, HistoryAbort, broker, table
<1>3. DataInv'
  BY <1>1, DataKept DEF Restart
<1>4. CallsInv' /\ OrderSyncInv' /\ HistoryInv'
  BY DEF Restart, HistoryAbort, CallsInv, Inserted, OrderSyncInv, HistoryInv
<1> QED
  BY <1>2, <1>3, <1>4 DEF IInv, DataInv

-----------------------------------------------------------------------------
LEMMA InitIInv == Init => IInv
<1> SUFFICES ASSUME Init PROVE IInv
  OBVIOUS
<1>1. TypeOK
  BY InitTyping
<1>2. BrokerInv
  <2> SUFFICES ASSUME NEW b \in BrokerIds
               PROVE  (bstatus[b] = "absent" <=> b > issued) /\ (cid[b] # NULL => b <= issued)
    BY DEF BrokerInv
  <2>1. b \in Int /\ PastOrders \in Int
    BY ConstantsAssumption DEF BrokerIds
  <2> QED
    BY <2>1 DEF Init
<1>3. OneOrderPerClientId /\ WrittenAhead /\ RowsInv /\ RowTracksItsOrder /\ FilledIsReal
  BY DEF Init, OneOrderPerClientId, WrittenAhead, RowsInv, RowTracksItsOrder, FilledIsReal
<1>4. CallsInv /\ OrderSyncInv /\ HistoryInv
  BY DEF Init, CallsInv, Inserted, OrderSyncInv, HistoryInv
<1> QED
  BY <1>1, <1>2, <1>3, <1>4 DEF IInv

(* A step of the system, action by action.                                 *)
LEMMA NextKeeps ==
  ASSUME IInv, [Next]_vars
  PROVE  IInv'
<1>1. CASE BrokerStep
  BY <1>1, BrokerStepMoves, BrokerKeeps DEF IInv
<1>2. CASE SubmitStep
  BY <1>2, SubmitCheckKeeps, SubmitInsertKeeps, SubmitPlaceKeeps, SubmitStoreKeeps, SubmitFailedKeeps
  DEF SubmitStep, SubmitFinish
<1>3. CASE OrderSyncStep
  BY <1>3, OrderSyncSnapshotKeeps, OrderSyncFetchKeeps, OrderSyncStoreKeeps DEF OrderSyncStep
<1>4. CASE HistoryStep
  BY <1>4, HistoryListOpenKeeps, HistoryListClosedKeeps, HistorySelectKeeps, HistoryWriteKeeps
  DEF HistoryStep
<1>5. CASE ApiStep
  <2>1. ASSUME NEW b \in BrokerIds, CancelRequest(b) PROVE IInv'
    BY <2>1, CancelRequestKeeps
  <2>2. ASSUME NEW b \in BrokerIds, ModifyRequest(b) PROVE IInv'
    BY <2>2, BrokerStepMoves, BrokerKeeps DEF IInv
  <2> QED
    BY <1>5, <2>1, <2>2, CancelStoreKeeps DEF ApiStep
<1>6. CASE Restart
  BY <1>6, RestartKeeps
<1>7. CASE UNCHANGED vars
  <2>1. UNCHANGED <<broker, table, submits, osync, hsync, apiHold, announced, budget>>
    BY <1>7 DEF vars
  <2>2. TypeOK /\ DataInv /\ CallsInv /\ OrderSyncInv /\ HistoryInv
    BY Parts
  <2>3. TypeOK'
    BY <2>1, <2>2 DEF TypeOK, broker, table, submits, osync, hsync, budget
  <2>4. DataInv' /\ Forward
    BY <2>1, <2>2, DataKept
  <2>5. CallsInv' /\ OrderSyncInv' /\ HistoryInv'
    BY <2>1, <2>2, <2>4, CallsKept, OrderSyncKept, HistoryKept DEF broker
  <2> QED
    BY <2>3, <2>4, <2>5 DEF IInv, DataInv
<1> QED
  BY <1>1, <1>2, <1>3, <1>4, <1>5, <1>6, <1>7 DEF Next

(* The strengthened invariant holds in every behaviour of the system: any  *)
(* interleaving of submits, feeds, cancels, faults and restarts.           *)
THEOREM Invariance == Spec => []IInv
<1>1. Init => IInv
  BY InitIInv
<1>2. IInv /\ [Next]_vars => IInv'
  BY NextKeeps
<1> QED
  BY <1>1, <1>2, PTL DEF Spec

(* Every variable keeps its type, a row only ever has a status of the enum *)
(* that schema.py lists, and the feeds hold well-formed listings.          *)
THEOREM Typing == Spec => []TypeOK
<1>1. IInv => TypeOK
  BY DEF IInv
<1> QED
  BY <1>1, Invariance, PTL

(* Idempotent submission: the broker never holds two orders with one       *)
(* client_order_id.                                                        *)
THEOREM Idempotence == Spec => []OneOrderPerClientId
<1>1. IInv => OneOrderPerClientId
  BY DEF IInv
<1> QED
  BY <1>1, Invariance, PTL

(* Every order of the bot at the broker has its row in the table.          *)
THEOREM RowBeforeOrder == Spec => []WrittenAhead
<1>1. IInv => WrittenAhead
  BY DEF IInv
<1> QED
  BY <1>1, Invariance, PTL

(* No writer of the table ever gives a row another order's broker id.      *)
THEOREM RowsNeverCross == Spec => []RowTracksItsOrder
<1>1. IInv => RowTracksItsOrder
  BY DEF IInv
<1> QED
  BY <1>1, Invariance, PTL

(* "filled" in the table and ORDER_FILLED on the bus are true of the       *)
(* broker's order, whatever stale answers the feeds still hold.            *)
THEOREM NoInventedFill == Spec => []FilledIsReal
<1>1. IInv => FilledIsReal
  BY DEF IInv
<1> QED
  BY <1>1, Invariance, PTL

-----------------------------------------------------------------------------
(* When every listing carries its client ids                               *)

(* A "toss-native" row stands for an order that was placed without client  *)
(* id, and the history feed knows the client id of what it holds.          *)
EchoInv ==
  /\ \A b \in BrokerIds : Exists(Native(b)) => b <= issued /\ cid[b] = NULL
  /\ \A e \in hsOpen \cup hsClosed : e.cid = cid[e.bid]
  /\ hsHold # NULL => hsHold.e.cid = cid[hsHold.e.bid]

(* Steps that neither list, nor add a native row, nor touch issued orders. *)
LEMMA EchoKept ==
  ASSUME IInv, EchoInv, UNCHANGED hsync, issued' \in Int, issued <= issued',
         \A b \in BrokerIds : b <= issued => cid'[b] = cid[b],
         \A b \in BrokerIds : Exists(Native(b))' => Exists(Native(b))
  PROVE  EchoInv'
<1> USE Keys
<1>1. issued \in Int /\ hsOpen' = hsOpen /\ hsClosed' = hsClosed /\ hsHold' = hsHold
  BY DEF IInv, TypeOK, hsync
<1>2. \A b \in BrokerIds : Exists(Native(b))' => b <= issued' /\ cid'[b] = NULL
  BY <1>1 DEF EchoInv
<1>3. ASSUME NEW e \in Listing, Truthful(e), e.cid = cid[e.bid] PROVE e.cid = cid'[e.bid]
  BY <1>3 DEF Listing, Truthful
<1>4. \A e \in hsOpen \cup hsClosed : e.cid = cid'[e.bid]
  BY <1>3 DEF IInv, TypeOK, HistoryInv, EchoInv
<1>5. hsHold # NULL => hsHold.e.cid = cid'[hsHold.e.bid]
  BY <1>3 DEF IInv, TypeOK, Maybe, HistoryInv, EchoInv
<1> QED
  BY <1>1, <1>2, <1>4, <1>5 DEF EchoInv

LEMMA EchoStep ==
  ASSUME Echo = {TRUE}, IInv, EchoInv, [Next]_vars
  PROVE  EchoInv'
<1> USE Keys
<1>1. TypeOK /\ DataInv /\ CallsInv /\ OrderSyncInv /\ HistoryInv
  BY Parts
<1>2. issued \in Int /\ issued <= issued
  BY <1>1 DEF TypeOK
<1>3. ASSUME UNCHANGED <<broker, hsync>>,
             \A b \in BrokerIds : Exists(Native(b))' => Exists(Native(b))
      PROVE  EchoInv'
  BY <1>2, <1>3, EchoKept DEF broker
<1>4. CASE BrokerStep \/ \E b \in BrokerIds : ModifyRequest(b)
  <2>1. BrokerMoves
    BY <1>4, BrokerStepMoves DEF IInv
  <2> QED
    BY <2>1, EchoKept DEF BrokerMoves, Untouched, table, Exists
<1>5. ASSUME NEW t \in Tasks, SubmitFinish(t) \/ \E c \in ClientIds : SubmitCheck(t, c)
      PROVE  EchoInv'
  <2>1. CASE \E c \in ClientIds : SubmitCheck(t, c)
    BY <1>3, <2>1 DEF SubmitCheck, table, Exists
  <2>2. pc[t] \in {"checked", "sending", "acked", "failed"} => arg[t] \in ClientIds
    BY <1>1 DEF CallsInv, Inserted
  <2>3. CASE SubmitInsert(t)
    BY <1>1, <1>3, <2>2, <2>3 DEF SubmitInsert, TypeOK, table, Exists
  <2>4. CASE SubmitPlace(t)
    <3>1. UNCHANGED <<table, hsync>> /\ arg[t] \in Maybe(ClientIds) /\ "PENDING" \in TossStatuses
      BY <1>1, <2>4, Statuses DEF SubmitPlace, TypeOK
    <3>2. CASE Issue("PENDING", arg[t])
      <4>1. /\ issued' = issued + 1 /\ issued' \in BrokerIds
            /\ \A b \in BrokerIds : b # issued' => cid'[b] = cid[b]
        BY <1>1, <3>1, <3>2, Issuing DEF DataInv
      <4>2. issued <= issued' /\ issued' \in Int /\ ~(issued' <= issued)
        BY <1>2, <4>1
      <4> QED
        BY <3>1, <4>1, <4>2, EchoKept DEF table, Exists
    <3>3. CASE UNCHANGED broker
      BY <1>3, <3>1, <3>3 DEF table, Exists
    <3> QED
      BY <2>4, <3>2, <3>3 DEF SubmitPlace
  <2>5. CASE SubmitStore(t)
    BY <1>1, <1>3, <2>2, <2>5 DEF SubmitStore, TypeOK, table, Exists
  <2>6. CASE SubmitFailed(t)
    BY <1>1, <1>3, <2>2, <2>6 DEF SubmitFailed, TypeOK, table, Exists
  <2> QED
    BY <1>5, <2>1, <2>3, <2>4, <2>5, <2>6 DEF SubmitFinish
<1>6. CASE OrderSyncStep
  <2>1. CASE OrderSyncSnapshot \/ OrderSyncFetch
    BY <1>3, <2>1 DEF OrderSyncSnapshot, OrderSyncFetch, table, Exists
  <2>2. CASE OrderSyncStore
    <3>1. osHold.key \in RowKeys /\ Exists(osHold.key)
      BY <1>1, <2>2 DEF OrderSyncStore, TypeOK, Maybe, OrderSyncInv, DataInv, RowsInv
    <3> QED
      BY <1>1, <1>3, <2>2, <3>1 DEF OrderSyncStore, TypeOK, table, Exists
  <2> QED
    BY <1>6, <2>1, <2>2 DEF OrderSyncStep
<1>7. CASE HistoryListOpen \/ HistoryListClosed
  <2>1. ASSUME NEW S, NEW echo \in Echo
        PROVE  \A e \in Listings(S, echo) : e.cid = cid[e.bid]
    BY Echo = {TRUE} DEF Listings
  <2>2. /\ \A e \in hsOpen' \cup hsClosed' : e.cid = cid[e.bid]
        /\ hsHold' = NULL \/ hsHold' = hsHold
    BY <1>7, <2>1 DEF HistoryListOpen, HistoryListClosed, HistoryAbort, EchoInv
  <2>3. UNCHANGED <<broker, table>>
    BY <1>7 DEF HistoryListOpen, HistoryListClosed
  <2> QED
    BY <2>2, <2>3 DEF EchoInv, Exists, broker, table
<1>8. CASE HistorySelect
  <2>1. PICK e \in hsOpen \cup hsClosed, k \in Maybe(RowKeys) :
          /\ hsOpen' \subseteq hsOpen /\ hsClosed' \subseteq hsClosed
          /\ hsHold' = [e |-> e, row |-> k]
    BY <1>8 DEF HistorySelect, Matches, Maybe
  <2>2. UNCHANGED <<broker, table>>
    BY <1>8 DEF HistorySelect
  <2> QED
    BY <2>1, <2>2 DEF EchoInv, Exists, broker, table
<1>9. CASE HistoryWrite
  <2>1. UNCHANGED <<hsOpen, hsClosed, broker>> /\ hsHold # NULL /\ hsHold' = NULL
    BY <1>9 DEF HistoryWrite
  <2>2. hsHold.e.bid \in BrokerIds /\ hsHold.e.bid <= issued /\ hsHold.e.cid = cid[hsHold.e.bid]
    BY <1>1, <2>1 DEF TypeOK, Maybe, Listing, HistoryInv, Truthful, EchoInv
  <2>3. hsHold.e.cid \in Maybe(ClientIds)
    BY <1>1, <2>1 DEF TypeOK, Maybe, Listing
  <2>4. ASSUME NEW b \in BrokerIds, status'[b] # "absent", status[b] = "absent"
        PROVE  b <= issued /\ cid[b] = NULL
    <3>1. hsHold.row # NULL => hsHold.row \in RowKeys /\ status[hsHold.row] # "absent"
      BY <1>1, <2>1 DEF HistoryInv, Exists, TypeOK, Maybe
    <3>2. hsHold.row = NULL /\ b = EffectiveId(hsHold.e)
      BY <1>1, <1>9, <2>4, <3>1 DEF HistoryWrite, TypeOK, table
    <3> QED
      BY <2>2, <2>3, <3>2 DEF EffectiveId, Maybe
  <2> QED
    BY <2>1, <2>4 DEF EchoInv, Exists, broker
<1>10. CASE \E b \in BrokerIds : CancelRequest(b)
  <2>1. UNCHANGED <<issued, cid, table, hsync>>
    BY <1>10 DEF CancelRequest, broker
  <2> QED
    BY <1>2, <2>1, EchoKept DEF table, Exists
<1>11. CASE CancelStore
  BY <1>3, <1>11 DEF CancelStore, table, Exists
<1>12. CASE Restart
  BY <1>12 DEF Restart, HistoryAbort, EchoInv, Exists, broker, table
<1>13. CASE UNCHANGED vars
  BY <1>3, <1>13 DEF vars, table, Exists
<1> QED
  BY <1>4, <1>5, <1>6, <1>7, <1>8, <1>9, <1>10, <1>11, <1>12, <1>13
  DEF Next, SubmitStep, HistoryStep, ApiStep

(* If every listing carries the clientOrderId, an order has one row, and   *)
(* "toss-native" rows are of orders the bot did not make.  When a listing  *)
(* leaves it out, a second row of the bot's own order may appear.          *)
THEOREM OneRowWithEcho ==
  ASSUME Echo = {TRUE}
  PROVE  Spec => []OneRowPerOrder /\ []NativeRowsAreForeign
<1>1. Init => IInv /\ EchoInv
  <2>1. Init => EchoInv
    BY DEF Init, EchoInv, Exists
  <2> QED
    BY <2>1, InitIInv
<1>2. IInv /\ EchoInv /\ [Next]_vars => (IInv /\ EchoInv)'
  BY NextKeeps, EchoStep, Echo = {TRUE}
<1>3. IInv /\ EchoInv => OneRowPerOrder /\ NativeRowsAreForeign
  <2> SUFFICES ASSUME IInv, EchoInv PROVE OneRowPerOrder /\ NativeRowsAreForeign
    OBVIOUS
  <2>1. NativeRowsAreForeign
    BY DEF EchoInv, NativeRowsAreForeign
  <2>2. ASSUME NEW k \in RowKeys, NEW m \in RowKeys, bid[k] # NULL, bid[k] = bid[m]
        PROVE  k = m
    <3>1. bid[k] \in BrokerIds
      BY <2>2 DEF IInv, TypeOK, Maybe
    <3>2. (k = bid[k] \/ cid[bid[k]] = k) /\ (m = bid[k] \/ cid[bid[k]] = m)
      BY <2>2 DEF IInv, RowTracksItsOrder
    <3>3. k = bid[k] \/ m = bid[k] => Exists(bid[k])
      BY <2>2 DEF IInv, RowsInv
    <3> QED
      BY <2>1, <3>1, <3>2, <3>3, Keys DEF NativeRowsAreForeign
  <2> QED
    BY <2>1, <2>2 DEF OneRowPerOrder
<1> QED
  BY <1>1, <1>2, <1>3, PTL DEF Spec

-----------------------------------------------------------------------------
(* The backfill of the CLOSED history                                      *)

(* Orders of before the first boot are orders of the account.              *)
LEMMA PastOrder ==
  ASSUME IInv, PastInv, NEW b \in 1 .. PastOrders
  PROVE  /\ b \in BrokerIds /\ b \in Int /\ b <= issued /\ b \in 1 .. issued
         /\ bstatus[b] = "FILLED" /\ cid[b] = NULL
<1>1. b \in BrokerIds /\ b \in Int /\ b >= 1 /\ issued \in Int
  BY ConstantsAssumption DEF BrokerIds, IInv, TypeOK
<1>2. bstatus[b] = "FILLED" /\ cid[b] = NULL
  BY DEF PastInv
<1>3. ~(b > issued)
  BY <1>1, <1>2 DEF IInv, BrokerInv
<1> QED
  BY <1>1, <1>2, <1>3

(* Steps that neither read pages nor touch a native row.                   *)
LEMMA PastKept ==
  ASSUME IInv, PastInv, BackfillInv, UNCHANGED hsync, faults' = 0 => faults = 0,
         \A b \in BrokerIds : bstatus[b] \in Final => bstatus'[b] = bstatus[b],
         \A b \in BrokerIds : b <= issued => cid'[b] = cid[b],
         \A b \in BrokerIds : bid'[b] = bid[b] /\ (status'[b] # "absent" => status[b] # "absent")
  PROVE  PastInv' /\ BackfillInv'
<1>1. PastInv'
  <2>1. \A b \in 1 .. PastOrders : bstatus'[b] = "FILLED" /\ cid'[b] = NULL
    BY PastOrder, Statuses
  <2>2. \A b \in BrokerIds : Exists(b)' => bid'[b] = b
    BY DEF PastInv, Exists
  <2> QED
    BY <2>1, <2>2 DEF PastInv
<1>2. ASSUME NEW b \in 1 .. PastOrders, Fetched(b) PROVE Fetched(b)'
  BY <1>2, PastOrder DEF Fetched, hsync
<1>3. BackfillInv'
  BY <1>2 DEF BackfillInv, hsync
<1> QED
  BY <1>1, <1>3

(* A page that is read without a fault.                                    *)
LEMMA PageRead ==
  ASSUME IInv, PastInv, BackfillInv, HistoryListClosed, UNCHANGED budget
  PROVE  BackfillInv'
<1> DEFINE page == Page(hsCursor)
           more == Older(hsCursor) # page
<1> USE Keys
<1>1. PICK echo \in Echo : hsClosed' = hsClosed \cup Listings(page, echo)
  <2>1. faults \in Int
    BY DEF IInv, TypeOK
  <2> QED
    BY <2>1 DEF HistoryListClosed, Fault, budget
<1>2. /\ hsPc = "closed" /\ UNCHANGED <<broker, table, hsHold, faults>>
      /\ \/ /\ ~backfilled /\ ~backfilled' /\ hsPc' = hsPc
            /\ hsCursor' \in page /\ \A d \in page : hsCursor' <= d
         \/ /\ hsPc' = "apply" /\ hsCursor' = MaxOrders + 1
            /\ backfilled' => backfilled \/ ~more
  <2>1. faults \in Int /\ backfilled \in BOOLEAN
    BY DEF IInv, TypeOK
  <2>2. /\ hsPc = "closed" /\ UNCHANGED <<broker, table, hsHold, faults>>
        /\ IF ~backfilled /\ more /\ hsPages + 1 < MaxPages
           THEN /\ \E b \in page : (\A d \in page : b <= d) /\ hsCursor' = b
                /\ UNCHANGED <<hsPc, backfilled>>
           ELSE /\ hsPc' = "apply" /\ backfilled' = (backfilled \/ ~more)
                /\ hsCursor' = MaxOrders + 1
    BY <2>1 DEF HistoryListClosed, Fault, budget
  <2> HIDE DEF page, more
  <2>3. CASE ~backfilled /\ more /\ hsPages + 1 < MaxPages
    BY <2>2, <2>3
  <2>4. CASE ~(~backfilled /\ more /\ hsPages + 1 < MaxPages)
    BY <2>2, <2>4
  <2> QED
    BY <2>3, <2>4
<1>3. ASSUME NEW b \in page PROVE \E e \in hsClosed' : e.bid = b
  <2>1. [bid |-> b, st |-> bstatus[b], cid |-> IF echo THEN cid[b] ELSE NULL] \in Listings(page, echo)
    BY DEF Listings
  <2> QED
    BY <1>1, <2>1
<1>4. ASSUME NEW b \in 1 .. PastOrders, Fetched(b) PROVE Fetched(b)'
  BY <1>1, <1>2, <1>4 DEF Fetched, table
<1>5. ASSUME NEW b \in 1 .. PastOrders, b \in page PROVE Fetched(b)'
  BY <1>3, <1>5 DEF Fetched
<1>6. ASSUME NEW b \in 1 .. PastOrders, ~(b >= hsCursor) PROVE b \in Older(hsCursor)
  <2>1. hsCursor \in Int
    BY DEF IInv, TypeOK
  <2> QED
    BY <1>6, <2>1, PastOrder DEF Older, Closed, ClosedGroup, Final
(* The orders of a page are the newest ones.                               *)
<1>7. ASSUME NEW b \in Older(hsCursor), NEW d \in page, b >= d PROVE b \in page
  <2> DEFINE A == {x \in Older(hsCursor) : x > d}
             B == {x \in Older(hsCursor) : x > b}
  <2>1. issued \in Int /\ b \in Int /\ d \in Int /\ Older(hsCursor) \subseteq 1 .. issued
    BY DEF IInv, TypeOK, Page, Older
  <2>2. IsFiniteSet(1 .. issued)
    BY <2>1, FS_Interval
  <2>3. IsFiniteSet(A)
    BY <2>1, <2>2, FS_Subset
  <2>4. B \subseteq A
    BY <1>7, <2>1
  <2>5. IsFiniteSet(B) /\ Cardinality(B) <= Cardinality(A)
    BY <2>3, <2>4, FS_Subset
  <2>6. Cardinality(A) \in Nat /\ Cardinality(B) \in Nat
    BY <2>3, <2>5, FS_CardinalityType
  <2>7. Cardinality(A) < PageLimit
    BY DEF Page
  <2>8. Cardinality(B) < PageLimit
    BY <2>5, <2>6, <2>7, ConstantsAssumption
  <2> QED
    BY <2>8 DEF Page
<1>8. faults = 0 => \A b \in 1 .. PastOrders : backfilled \/ b >= hsCursor => Fetched(b)
  BY <1>2 DEF BackfillInv
<1>9. CASE ~backfilled' /\ hsCursor' \in page
  <2>1. ASSUME faults = 0, NEW b \in 1 .. PastOrders, b >= hsCursor' PROVE Fetched(b)'
    BY <1>4, <1>5, <1>6, <1>7, <1>8, <1>9, <2>1
  <2> QED
    BY <1>2, <1>9, <2>1 DEF BackfillInv
<1>10. CASE /\ hsPc' = "apply" /\ hsCursor' = MaxOrders + 1
            /\ backfilled' => backfilled \/ ~more
  <2>1. ASSUME faults = 0, backfilled', NEW b \in 1 .. PastOrders PROVE Fetched(b)'
    BY <1>4, <1>5, <1>6, <1>8, <1>10, <2>1
  <2> QED
    BY <1>2, <1>10, <2>1 DEF BackfillInv
<1> QED
  BY <1>2, <1>9, <1>10

(* The row that is written for an order of before the first boot is its    *)
(* own.                                                                    *)
LEMMA PastWritten ==
  ASSUME IInv, PastInv, HistoryWrite, UNCHANGED budget,
         NEW b \in 1 .. PastOrders, hsHold.e.bid = b
  PROVE  bid'[b] = b
<1> USE Keys
<1>1. /\ hsHold # NULL /\ b \in BrokerIds /\ b \in RowKeys /\ b # NULL /\ cid[b] = NULL
      /\ bid \in [RowKeys -> Maybe(BrokerIds)]
      /\ hsHold.row \in Maybe(RowKeys)
  BY PastOrder DEF HistoryWrite, IInv, TypeOK, Maybe
<1>2. hsHold.e.cid = NULL
  BY <1>1 DEF IInv, HistoryInv, Truthful
<1>3. EffectiveId(hsHold.e) = b
  BY <1>2 DEF EffectiveId
<1>4. hsHold.row # NULL => hsHold.row = b
  BY <1>1, <1>3 DEF IInv, HistoryInv, RowTracksItsOrder, Maybe
<1>5. \/ bid' = [bid EXCEPT ![b] = b]
      \/ Exists(b) /\ bid' = bid
  <2>1. faults \in Int
    BY DEF IInv, TypeOK
  <2> QED
    BY <1>3, <1>4, <2>1 DEF HistoryWrite, table, Fault, budget
<1> QED
  BY <1>1, <1>5 DEF PastInv

LEMMA PastStep ==
  ASSUME IInv, PastInv, BackfillInv, [Next]_vars
  PROVE  PastInv' /\ BackfillInv'
<1> USE Keys
<1>1. TypeOK /\ DataInv /\ CallsInv /\ OrderSyncInv /\ HistoryInv
  BY Parts
<1>2. issued \in Int /\ faults \in Nat
  BY <1>1 DEF TypeOK
<1>3. Fault => faults' # 0
  BY <1>2 DEF Fault
<1>4. ASSUME UNCHANGED <<broker, hsync, bid>>, Fault \/ UNCHANGED budget,
             \A b \in BrokerIds : status'[b] # "absent" => status[b] # "absent"
      PROVE  PastInv' /\ BackfillInv'
  BY <1>3, <1>4, PastKept DEF broker, budget
<1>5. CASE BrokerStep \/ \E b \in BrokerIds : ModifyRequest(b)
  <2>1. BrokerMoves
    BY <1>5, BrokerStepMoves DEF IInv
  <2> QED
    BY <2>1, PastKept DEF BrokerMoves, Untouched, table, budget
<1>6. ASSUME NEW t \in Tasks, SubmitFinish(t) \/ \E c \in ClientIds : SubmitCheck(t, c)
      PROVE  PastInv' /\ BackfillInv'
  <2>1. CASE \E c \in ClientIds : SubmitCheck(t, c)
    BY <1>4, <2>1 DEF SubmitCheck, table
  <2>2. pc[t] \in {"checked", "sending", "acked", "failed"} => arg[t] \in ClientIds
    BY <1>1 DEF CallsInv, Inserted
  <2>3. CASE SubmitInsert(t)
    BY <1>1, <1>4, <2>2, <2>3 DEF SubmitInsert, TypeOK, table
  <2>4. CASE SubmitPlace(t)
    <3>1. UNCHANGED <<table, hsync, budget>> /\ arg[t] \in Maybe(ClientIds) /\ "PENDING" \in TossStatuses
      BY <1>1, <2>4, Statuses DEF SubmitPlace, TypeOK
    <3>2. CASE Issue("PENDING", arg[t])
      <4>1. /\ issued' = issued + 1 /\ issued' \in BrokerIds /\ bstatus[issued'] = "absent"
            /\ \A b \in BrokerIds : b # issued' => cid'[b] = cid[b] /\ bstatus'[b] = bstatus[b]
        BY <1>1, <3>1, <3>2, Issuing DEF DataInv
      <4>2. ~(issued' <= issued) /\ "absent" \notin Final
        BY <1>2, <4>1 DEF Final
      <4> QED
        BY <3>1, <4>1, <4>2, PastKept DEF table, budget
    <3>3. CASE UNCHANGED broker
      BY <1>4, <3>1, <3>3 DEF table
    <3> QED
      BY <2>4, <3>2, <3>3 DEF SubmitPlace
  <2>5. CASE SubmitStore(t)
    <3>1. /\ \A b \in BrokerIds : bid'[b] = bid[b] /\ status'[b] = status[b]
          /\ faults' = 0 => faults = 0
      BY <1>1, <1>3, <2>2, <2>5 DEF SubmitStore, TypeOK, table, budget
    <3> QED
      BY <2>5, <3>1, PastKept DEF SubmitStore, broker
  <2>6. CASE SubmitFailed(t)
    BY <1>1, <1>4, <2>2, <2>6 DEF SubmitFailed, TypeOK, table
  <2> QED
    BY <1>6, <2>1, <2>3, <2>4, <2>5, <2>6 DEF SubmitFinish
<1>7. CASE OrderSyncStep
  <2>1. CASE OrderSyncSnapshot \/ OrderSyncFetch
    BY <1>4, <2>1 DEF OrderSyncSnapshot, OrderSyncFetch, table
  <2>2. CASE OrderSyncStore
    <3>1. osHold.key \in RowKeys /\ Exists(osHold.key)
      BY <1>1, <2>2 DEF OrderSyncStore, TypeOK, Maybe, OrderSyncInv, DataInv, RowsInv
    <3> QED
      BY <1>1, <1>4, <2>2, <3>1 DEF OrderSyncStore, TypeOK, table, Exists
  <2> QED
    BY <1>7, <2>1, <2>2 DEF OrderSyncStep
<1>8. ASSUME UNCHANGED <<broker, table>> PROVE PastInv'
  BY <1>8 DEF PastInv, Exists, broker, table
<1>9. CASE HistoryListOpen
  <2>1. /\ UNCHANGED <<broker, table, backfilled>> /\ hsPc = "apply"
        /\ \/ UNCHANGED <<hsClosed, hsHold, hsCursor, budget>> /\ hsPc' = "closed"
           \/ Fault /\ hsPc' = "apply" /\ hsCursor' = MaxOrders + 1
    BY <1>9 DEF HistoryListOpen, HistoryIdle, HistoryAbort
  <2>2. CASE UNCHANGED <<hsClosed, hsHold, hsCursor, budget>> /\ hsPc' = "closed"
    <3>1. \A b \in 1 .. PastOrders : Fetched(b) => Fetched(b)'
      BY <2>1, <2>2 DEF Fetched, table
    <3>2. hsCursor = MaxOrders + 1 /\ \A b \in 1 .. PastOrders : ~(b >= hsCursor)
      BY <2>1, ConstantsAssumption DEF BackfillInv
    <3> QED
      BY <1>8, <2>1, <2>2, <3>1, <3>2 DEF BackfillInv, budget
  <2>3. CASE Fault /\ hsPc' = "apply" /\ hsCursor' = MaxOrders + 1
    BY <1>3, <1>8, <2>1, <2>3 DEF BackfillInv
  <2> QED
    BY <2>1, <2>2, <2>3
<1>10. CASE HistoryListClosed
  <2>1. UNCHANGED <<broker, table>>
    BY <1>10 DEF HistoryListClosed
  <2>2. CASE UNCHANGED budget
    BY <1>8, <1>10, <2>1, <2>2, PageRead
  <2>3. CASE Fault /\ HistoryAbort
    BY <1>3, <1>8, <2>1, <2>3 DEF BackfillInv, HistoryAbort
  <2> QED
    BY <1>10, <2>2, <2>3 DEF HistoryListClosed
<1>11. CASE HistorySelect
  <2>1. PICK e \in hsOpen \cup hsClosed, k \in Maybe(RowKeys) :
          /\ hsHold' = [e |-> e, row |-> k]
          /\ \A x \in hsClosed : x \in hsClosed' \/ x = e
    BY <1>11 DEF HistorySelect, Matches, Maybe
  <2>2. /\ UNCHANGED <<broker, table, hsPc, hsCursor, backfilled, budget>>
        /\ hsPc = "apply" /\ hsHold = NULL
    BY <1>11 DEF HistorySelect
  <2>3. hsHold'.e = e /\ hsHold' # NULL
    <3>1. e \in Listing
      BY <1>1 DEF TypeOK
    <3>2. [e |-> e, row |-> k] \in [e : Listing, row : RowKeys \cup {NULL}]
      BY <3>1 DEF Maybe
    <3> QED
      BY <2>1, <3>2, ConstantsAssumption
  <2>4. \A b \in 1 .. PastOrders : Fetched(b) => Fetched(b)'
    BY <2>1, <2>2, <2>3 DEF Fetched, table
  <2> QED
    BY <1>8, <2>2, <2>4 DEF BackfillInv, budget
<1>12. CASE HistoryWrite
  <2>1. /\ UNCHANGED <<broker, hsPc, hsClosed, hsCursor, backfilled>>
        /\ hsHold # NULL /\ hsHold' = NULL
        /\ Fault \/ UNCHANGED budget
    BY <1>12 DEF HistoryWrite
  <2>2. hsHold.e.bid \in BrokerIds
    BY <1>1, <2>1 DEF TypeOK, Maybe, Listing
  <2>3. /\ TypeOK' /\ RowTracksItsOrder'
        /\ \A b \in BrokerIds : Exists(b)' => bid'[b] # NULL
    <3>1. \A b \in BrokerIds : bid[b] # NULL => bid'[b] # NULL
      BY <1>1, <1>12, <2>2 DEF HistoryWrite, TypeOK, table
    <3>2. ASSUME NEW b \in BrokerIds, status'[b] # "absent", status[b] = "absent"
          PROVE  bid'[b] # NULL
      BY <1>1, <1>12, <2>2, <3>2 DEF HistoryWrite, TypeOK, table
    <3>3. IInv'
      BY NextKeeps
    <3> QED
      BY <3>1, <3>2, <3>3 DEF IInv, PastInv, Exists
  <2>4. ASSUME NEW b \in BrokerIds, Exists(b)' PROVE bid'[b] = b
    <3>1. bid'[b] \in BrokerIds /\ (b = bid'[b] \/ cid'[bid'[b]] = b)
      BY <2>3, <2>4 DEF TypeOK, Maybe, RowTracksItsOrder
    <3>2. cid'[bid'[b]] \in Maybe(ClientIds)
      BY <2>3, <3>1 DEF TypeOK
    <3> QED
      BY <3>1, <3>2 DEF Maybe
  <2>5. PastInv'
    BY <2>1, <2>4 DEF PastInv, broker
  <2>6. ASSUME UNCHANGED budget, NEW b \in 1 .. PastOrders, Fetched(b) PROVE Fetched(b)'
    <3>1. b \in BrokerIds /\ b # NULL
      BY PastOrder
    <3>2. bid[b] = b => bid'[b] = b
      <4>1. bid[b] = b => Exists(b)
        BY <1>1, <3>1 DEF DataInv, RowsInv
      <4>2. Exists(b) => Exists(b)'
        <5>1. hsHold.e.st \in TossStatuses
          BY <1>1, <2>1 DEF TypeOK, Maybe, Listing
        <5>2. TossStatusMap(hsHold.e.st) # "absent"
          BY <5>1, StatusMaps, Statuses
        <5> QED
          BY <1>1, <1>12, <3>1, <5>2 DEF HistoryWrite, TypeOK, table, Exists
      <4> QED
        BY <2>4, <3>1, <4>1, <4>2
    <3>3. hsHold.e.bid = b => bid'[b] = b
      BY <1>12, <2>6, PastWritten
    <3> QED
      BY <2>1, <2>6, <3>2, <3>3 DEF Fetched
  <2>7. CASE UNCHANGED budget
    BY <2>1, <2>5, <2>6, <2>7 DEF BackfillInv, budget
  <2>8. CASE Fault
    BY <1>3, <2>1, <2>5, <2>8 DEF BackfillInv
  <2> QED
    BY <2>1, <2>7, <2>8
<1>13. CASE \E b \in BrokerIds : CancelRequest(b)
  <2>1. PICK b \in BrokerIds : CancelRequest(b)
    BY <1>13
  <2>2. UNCHANGED <<issued, cid, table, hsync>> /\ (UNCHANGED budget \/ Fault)
    BY <2>1 DEF CancelRequest, broker
  <2>3. \A d \in BrokerIds : bstatus[d] \in Final => bstatus'[d] = bstatus[d]
    BY <1>1, <2>1 DEF CancelRequest, broker, Final, TypeOK
  <2> QED
    BY <1>3, <2>2, <2>3, PastKept DEF table, budget
<1>14. CASE CancelStore
  <2>1. /\ UNCHANGED <<broker, hsync, bid>> /\ (Fault \/ UNCHANGED budget)
        /\ \A b \in BrokerIds : status'[b] # "absent" => status[b] # "absent"
    BY <1>14 DEF CancelStore, table, Exists
  <2> QED
    BY <1>4, <2>1
<1>15. CASE Restart
  BY <1>8, <1>15 DEF Restart, HistoryAbort, BackfillInv
<1>16. CASE UNCHANGED vars
  BY <1>4, <1>16 DEF vars, table
<1> QED
  BY <1>5, <1>6, <1>7, <1>9, <1>10, <1>11, <1>12, <1>13, <1>14, <1>15, <1>16
  DEF Next, SubmitStep, HistoryStep, ApiStep

(* Once the CLOSED history counts as backfilled, every order of before the *)
(* first boot has its row: however many pages there are, wherever MaxPages *)
(* cuts the reading, and whatever orders are closed while it goes on, as   *)
(* long as no read or write has failed.                                    *)
THEOREM PastIsCovered == Spec => []BackfillCoversPast
<1>1. Init => IInv /\ PastInv /\ BackfillInv
  <2>1. Init => PastInv /\ BackfillInv
    BY ConstantsAssumption DEF Init, PastInv, BackfillInv, Exists, BrokerIds
  <2> QED
    BY <2>1, InitIInv
<1>2. IInv /\ PastInv /\ BackfillInv /\ [Next]_vars => (IInv /\ PastInv /\ BackfillInv)'
  BY NextKeeps, PastStep
<1>3. IInv /\ PastInv /\ BackfillInv => BackfillCoversPast
  <2> SUFFICES ASSUME IInv, PastInv, BackfillInv, backfilled, HistoryIdle, faults = 0,
                      NEW b \in 1 .. PastOrders
               PROVE  \E k \in RowKeys : bid[k] = b
    BY DEF BackfillCoversPast
  <2>1. Fetched(b) /\ b \in BrokerIds
    BY PastOrder DEF BackfillInv
  <2>2. bid[b] = b
    BY <2>1 DEF Fetched, HistoryIdle
  <2> QED
    BY <2>1, <2>2
<1> QED
  BY <1>1, <1>2, <1>3, PTL DEF Spec

-----------------------------------------------------------------------------
(* ClientOrder, the promise to the caller of submit                        *)

Seen == <<Written, OrdersOf, WordOn, PointerOf, SaidFilled, announced \cap ClientIds>>
SeenStep == Promise!Next \/ UNCHANGED Seen

(* An order of the bot is all there is of its client order.                *)
LEMMA TheOrder ==
  ASSUME IInv, NEW c \in ClientIds, NEW b \in BrokerIds, cid[b] = c
  PROVE  OrdersOf[c] = {b} /\ WordOn[c] = {bstatus[b]} \cap Final
<1>1. \A d \in BrokerIds : cid[d] = c <=> d = b
  BY Keys DEF IInv, OneOrderPerClientId
<1>2. OrdersOf[c] = {b}
  BY <1>1 DEF OrdersOf
<1> QED
  BY <1>2 DEF WordOn

LEMMA InitPromised == Init => Promise!Init
<1> SUFFICES ASSUME Init PROVE Promise!Init
  OBVIOUS
<1> USE Keys DEF Init
<1>1. Written = {} /\ SaidFilled = {} /\ announced \cap ClientIds = {}
  BY DEF Written, SaidFilled, Exists
<1>2. OrdersOf = [c \in ClientIds |-> {}]
  <2>1. \A c \in ClientIds : {b \in BrokerIds : cid[b] = c} = {}
    OBVIOUS
  <2> QED
    BY <2>1 DEF OrdersOf
<1>3. WordOn = [c \in ClientIds |-> {}]
  <2>1. \A c \in ClientIds : OrdersOf[c] = {}
    BY <1>2
  <2>2. \A c \in ClientIds : {bstatus[b] : b \in OrdersOf[c]} \cap Final = {}
    BY <2>1
  <2> QED
    BY <2>2 DEF WordOn
<1>4. PointerOf = [c \in ClientIds |-> {}]
  BY DEF PointerOf
<1> QED
  BY <1>1, <1>2, <1>3, <1>4 DEF Promise!Init, Promise!Nothing

(* A step that changes the row of at most one client order k, which is     *)
(* there before and after: a stutter, or the row records its order.  What  *)
(* the invariant says of the row after the step makes it a legal record.   *)
LEMMA RowStep ==
  ASSUME IInv, IInv', UNCHANGED broker, NEW k,
         k \in ClientIds => Exists(k) /\ status'[k] # "absent" /\ (bid[k] # NULL => bid'[k] # NULL),
         \A m \in ClientIds : m # k => status'[m] = status[m] /\ bid'[m] = bid[m],
         announced \subseteq announced', announced' \subseteq announced \cup {k}
  PROVE  SeenStep
<1> USE Keys
<1>1. UNCHANGED <<issued, bstatus, cid>>
  BY DEF broker
<1>2. OrdersOf' = OrdersOf
  BY <1>1 DEF OrdersOf
<1>3. WordOn' = WordOn
  BY <1>1, <1>2 DEF WordOn
<1>4. Written' = Written
  <2>1. ASSUME NEW m \in ClientIds PROVE status'[m] # "absent" <=> status[m] # "absent"
    <3>1. CASE m = k
      BY <2>1, <3>1 DEF Exists
    <3> QED
      BY <2>1, <3>1
  <2> QED
    BY <2>1 DEF Written, Exists
<1>5. CASE k \notin ClientIds
  <2>1. \A m \in ClientIds : status'[m] = status[m] /\ bid'[m] = bid[m]
    BY <1>5
  <2>2. PointerOf' = PointerOf
    BY <2>1 DEF PointerOf
  <2>3. SaidFilled' = SaidFilled
    BY <2>1 DEF SaidFilled
  <2>4. announced' \cap ClientIds = announced \cap ClientIds
    BY <1>5
  <2> QED
    BY <1>2, <1>3, <1>4, <2>2, <2>3, <2>4 DEF SeenStep, Seen
<1>6. CASE k \in ClientIds /\ bid'[k] = NULL
  <2>1. bid[k] = NULL
    BY <1>6
  <2>2. \A m \in ClientIds : bid'[m] = bid[m]
    BY <1>6, <2>1
  <2>3. PointerOf' = PointerOf
    BY <2>2 DEF PointerOf
  <2>4. status[k] # "filled" /\ status'[k] # "filled" /\ k \notin announced'
    BY <1>6, <2>1 DEF IInv, FilledIsReal
  <2>5. SaidFilled' = SaidFilled
    BY <2>4 DEF SaidFilled
  <2>6. announced' \cap ClientIds = announced \cap ClientIds
    BY <2>4
  <2> QED
    BY <1>2, <1>3, <1>4, <2>3, <2>5, <2>6 DEF SeenStep, Seen
<1>7. CASE k \in ClientIds /\ bid'[k] # NULL
  <2>1. bid'[k] \in BrokerIds /\ cid[bid'[k]] = k
    BY <1>1, <1>7 DEF IInv, TypeOK, Maybe, RowTracksItsOrder
  <2>2. OrdersOf[k] = {bid'[k]} /\ WordOn[k] = {bstatus[bid'[k]]} \cap Final
    BY <1>7, <2>1, TheOrder
  <2>3. PointerOf' = [PointerOf EXCEPT ![k] = OrdersOf[k]]
    <3>1. \A m \in ClientIds : {bid'[m]} \ {NULL} = IF m = k THEN OrdersOf[k] ELSE {bid[m]} \ {NULL}
      BY <1>7, <2>2
    <3> QED
      BY <3>1 DEF PointerOf
  <2>4. SaidFilled' \in {SaidFilled \ {k}, SaidFilled \cup {k}}
    <3>1. CASE status'[k] = "filled"
      <4>1. SaidFilled' = SaidFilled \cup {k}
        BY <1>7, <3>1 DEF SaidFilled
      <4> QED
        BY <4>1
    <3>2. CASE status'[k] # "filled"
      <4>1. SaidFilled' = SaidFilled \ {k}
        BY <1>7, <3>2 DEF SaidFilled
      <4> QED
        BY <4>1
    <3> QED
      BY <3>1, <3>2
  <2>5. announced' \cap ClientIds \in {announced \cap ClientIds, (announced \cap ClientIds) \cup {k}}
    <3>1. CASE k \in announced'
      <4>1. announced' \cap ClientIds = (announced \cap ClientIds) \cup {k}
        BY <1>7, <3>1
      <4> QED
        BY <4>1
    <3>2. CASE k \notin announced'
      <4>1. announced' \cap ClientIds = announced \cap ClientIds
        BY <3>2
      <4> QED
        BY <4>1
    <3> QED
      BY <3>1, <3>2
  <2>6. ASSUME k \in SaidFilled' \/ announced' \cap ClientIds # announced \cap ClientIds
        PROVE  WordOn[k] = {"FILLED"}
    <3>1. status'[k] = "filled" \/ k \in announced'
      BY <2>6 DEF SaidFilled
    <3>2. bstatus[bid'[k]] = "FILLED"
      BY <1>1, <1>7, <3>1 DEF IInv, FilledIsReal
    <3> QED
      BY <2>2, <3>2, Statuses
  <2>7. OrdersOf[k] # {}
    BY <2>2
  <2>8. Promise!Record(k)
    BY <1>2, <1>3, <1>4, <2>3, <2>4, <2>5, <2>6, <2>7 DEF Promise!Record
  <2> QED
    BY <1>7, <2>8 DEF SeenStep, Promise!Next
<1> QED
  BY <1>5, <1>6, <1>7

(* A step of the broker that decides of at most one order of the bot, b.   *)
LEMMA OrderStep ==
  ASSUME IInv, UNCHANGED <<table, announced>>, NEW b \in BrokerIds,
         \A d \in BrokerIds : cid'[d] = cid[d],
         \A d \in BrokerIds : d # b /\ cid[d] # NULL => bstatus'[d] = bstatus[d],
         bstatus[b] \in Final => bstatus'[b] = bstatus[b]
  PROVE  SeenStep
<1> USE Keys
<1>1. Written' = Written /\ PointerOf' = PointerOf /\ SaidFilled' = SaidFilled
  BY DEF table, Written, PointerOf, SaidFilled, Exists
<1>2. OrdersOf' = OrdersOf
  BY DEF OrdersOf
<1>3. ASSUME NEW c \in ClientIds, c # cid[b]
      PROVE  {bstatus'[d] : d \in OrdersOf[c]} \cap Final = {bstatus[d] : d \in OrdersOf[c]} \cap Final
  <2>1. \A d \in OrdersOf[c] : bstatus'[d] = bstatus[d]
    BY <1>3 DEF OrdersOf
  <2> QED
    BY <2>1
<1>4. CASE cid[b] \notin ClientIds
  <2>1. WordOn' = WordOn
    BY <1>2, <1>3, <1>4 DEF WordOn
  <2> QED
    BY <1>1, <1>2, <2>1 DEF SeenStep, Seen
<1>5. CASE cid[b] \in ClientIds
  <2> DEFINE c == cid[b]
  <2>1. OrdersOf[c] = {b} /\ WordOn[c] = {bstatus[b]} \cap Final
    BY <1>5, TheOrder
  <2>2. {bstatus'[d] : d \in OrdersOf[c]} \cap Final = {bstatus'[b]} \cap Final
    BY <2>1
  <2>3. WordOn' = [WordOn EXCEPT ![c] = {bstatus'[b]} \cap Final]
    BY <1>2, <1>3, <2>2 DEF WordOn
  <2>4. CASE bstatus'[b] \in Final /\ bstatus[b] \notin Final
    <3>1. WordOn[c] = {} /\ OrdersOf[c] # {}
      BY <2>1, <2>4
    <3>2. {bstatus'[b]} \cap Final = {bstatus'[b]}
      BY <2>4
    <3>3. WordOn' = [WordOn EXCEPT ![c] = {bstatus'[b]}]
      BY <2>3, <3>2
    <3>4. Promise!Decide(c)
      BY <1>1, <1>2, <2>4, <3>1, <3>3 DEF Promise!Decide
    <3> QED
      BY <1>5, <3>4 DEF SeenStep, Promise!Next
  <2>5. CASE ~(bstatus'[b] \in Final /\ bstatus[b] \notin Final)
    <3>1. {bstatus'[b]} \cap Final = {bstatus[b]} \cap Final
      BY <2>5
    <3>2. WordOn' = WordOn
      BY <2>1, <2>3, <3>1 DEF WordOn
    <3> QED
      BY <1>1, <1>2, <3>2 DEF SeenStep, Seen
  <2> QED
    BY <2>4, <2>5
<1> QED
  BY <1>4, <1>5

LEMMA SeenStutter ==
  ASSUME UNCHANGED <<broker, table, announced>>
  PROVE  SeenStep
<1>1. OrdersOf' = OrdersOf
  BY DEF broker, OrdersOf
<1>2. WordOn' = WordOn
  BY <1>1 DEF broker, WordOn
<1>3. Written' = Written /\ PointerOf' = PointerOf /\ SaidFilled' = SaidFilled
  BY DEF table, Written, PointerOf, SaidFilled, Exists
<1> QED
  BY <1>1, <1>2, <1>3 DEF SeenStep, Seen

(* An order is written once, and sent while it is written.                 *)
LEMMA SubmitSeen ==
  ASSUME IInv, IInv', NEW t \in Tasks, SubmitFinish(t)
  PROVE  SeenStep
<1> USE Keys
<1>1. TypeOK /\ DataInv /\ CallsInv
  BY Parts
<1>2. pc[t] \in {"checked", "sending", "acked", "failed"} => arg[t] \in ClientIds
  BY <1>1 DEF CallsInv, Inserted
<1>3. CASE SubmitInsert(t)
  <2> DEFINE c == arg[t]
  <2>1. c \in ClientIds /\ UNCHANGED <<broker, announced>>
    BY <1>2, <1>3 DEF SubmitInsert
  <2>2. CASE UNCHANGED table
    BY <2>1, <2>2, SeenStutter
  <2>3. CASE ~Exists(c) /\ status' = [status EXCEPT ![c] = "pending"] /\ bid' = bid
    <3>1. \A m \in ClientIds : status'[m] = IF m = c THEN "pending" ELSE status[m]
      BY <1>1, <2>3 DEF TypeOK
    <3>2. Written' = Written \cup {c} /\ c \notin Written
      BY <2>1, <2>3, <3>1 DEF Written, Exists
    <3>3. SaidFilled' = SaidFilled
      BY <2>3, <3>1 DEF SaidFilled, Exists
    <3>4. OrdersOf' = OrdersOf
      BY <2>1 DEF broker, OrdersOf
    <3>5. WordOn' = WordOn
      BY <2>1, <3>4 DEF broker, WordOn
    <3>6. PointerOf' = PointerOf
      BY <2>3 DEF PointerOf
    <3>7. Promise!Write(c)
      BY <2>1, <3>2, <3>3, <3>4, <3>5, <3>6 DEF Promise!Write
    <3> QED
      BY <2>1, <3>7 DEF SeenStep, Promise!Next
  <2> QED
    BY <1>3, <2>2, <2>3 DEF SubmitInsert
<1>4. CASE SubmitPlace(t)
  <2> DEFINE c == arg[t]
  <2>1. c \in ClientIds /\ UNCHANGED <<table, announced>> /\ pc[t] = "sending"
    BY <1>2, <1>4 DEF SubmitPlace
  <2>2. CASE UNCHANGED broker
    BY <2>1, <2>2, SeenStutter
  <2>3. CASE Issue("PENDING", c)
    <3>1. c \in Maybe(ClientIds) /\ "PENDING" \in TossStatuses /\ "PENDING" \notin Final
      BY <2>1, Statuses DEF Maybe
    <3>2. PICK b \in BrokerIds :
            /\ cid[b] = NULL /\ cid'[b] = c /\ bstatus'[b] = "PENDING"
            /\ \A d \in BrokerIds : d # b => cid'[d] = cid[d] /\ bstatus'[d] = bstatus[d]
      BY <1>1, <2>3, <3>1, Issuing DEF DataInv
    <3>3. c \in Written /\ \A d \in BrokerIds : cid[d] # c
      BY <1>1, <2>1 DEF CallsInv, Inserted, Written
    <3>4. OrdersOf[c] = {} /\ \A d \in ClientIds : b \notin OrdersOf[d]
      BY <2>1, <3>2, <3>3 DEF OrdersOf
    <3>5. \A d \in ClientIds : {e \in BrokerIds : cid'[e] = d} = IF d = c THEN {b} ELSE OrdersOf[d]
      BY <2>1, <3>2, <3>3 DEF OrdersOf
    <3>6. OrdersOf' = [OrdersOf EXCEPT ![c] = {b}]
      BY <2>1, <3>5 DEF OrdersOf
    <3>7. ASSUME NEW d \in ClientIds
          PROVE  {bstatus'[e] : e \in OrdersOf'[d]} \cap Final = {bstatus[e] : e \in OrdersOf[d]} \cap Final
      <4>1. CASE d = c
        <5>1. OrdersOf'[d] = {b} /\ OrdersOf[d] = {}
          BY <3>4, <3>6, <4>1 DEF OrdersOf
        <5> QED
          BY <3>1, <3>2, <5>1
      <4>2. CASE d # c
        <5>1. OrdersOf'[d] = OrdersOf[d] /\ \A e \in OrdersOf[d] : e \in BrokerIds /\ e # b
          BY <3>4, <3>6, <4>2 DEF OrdersOf
        <5>2. \A e \in OrdersOf[d] : bstatus'[e] = bstatus[e]
          BY <3>2, <5>1
        <5> QED
          BY <5>1, <5>2
      <4> QED
        BY <4>1, <4>2
    <3>8. WordOn' = WordOn
      BY <3>7 DEF WordOn
    <3>9. Written' = Written /\ PointerOf' = PointerOf /\ SaidFilled' = SaidFilled
      BY <2>1 DEF table, Written, PointerOf, SaidFilled, Exists
    <3>10. Promise!Send(c)
      BY <2>1, <3>3, <3>4, <3>6, <3>8, <3>9 DEF Promise!Send
    <3> QED
      BY <2>1, <3>10 DEF SeenStep, Promise!Next
  <2> QED
    BY <1>4, <2>2, <2>3 DEF SubmitPlace
<1>5. CASE SubmitStore(t) \/ SubmitFailed(t)
  <2>c. PICK c : c = arg[t]
    OBVIOUS
  <2>1. c \in ClientIds /\ Exists(c) /\ UNCHANGED <<broker, announced>>
    BY <1>1, <1>5, <2>c DEF SubmitStore, SubmitFailed, CallsInv, Inserted
  <2>2. CASE UNCHANGED table
    BY <2>1, <2>2, SeenStutter
  <2>3. CASE ~UNCHANGED table
    <3>1. PICK new \in {"submitted", "rejected"} :
            /\ status' = [status EXCEPT ![c] = new]
            /\ bid' = [bid EXCEPT ![c] = ack[t]] \/ bid' = bid
      BY <1>5, <2>c, <2>3 DEF SubmitStore, SubmitFailed
    <3>2. \A m \in ClientIds : m # c => status'[m] = status[m] /\ bid'[m] = bid[m]
      BY <1>1, <3>1 DEF TypeOK
    <3>3. status'[c] # "absent"
      BY <1>1, <2>1, <3>1 DEF TypeOK
    <3>4. bid[c] # NULL => bid'[c] # NULL
      <4>1. CASE SubmitStore(t)
        <5>1. ack[t] # NULL /\ bid' = [bid EXCEPT ![c] = ack[t]]
          BY <1>1, <2>c, <2>3, <4>1, Keys DEF SubmitStore, CallsInv
        <5> QED
          BY <1>1, <2>1, <5>1 DEF TypeOK
      <4>2. CASE SubmitFailed(t)
        BY <4>2 DEF SubmitFailed, table
      <4> QED
        BY <1>5, <4>1, <4>2
    <3> QED
      BY <2>1, <3>2, <3>3, <3>4, RowStep
  <2> QED
    BY <2>2, <2>3
<1> QED
  BY <1>3, <1>4, <1>5 DEF SubmitFinish

(* The feeds and the cancel route only record, in one row of the bot each. *)
LEMMA RecordsSeen ==
  ASSUME IInv, IInv', OrderSyncStore \/ HistoryWrite \/ CancelStore
  PROVE  SeenStep
<1> USE Keys
<1>1. TypeOK /\ DataInv /\ OrderSyncInv /\ HistoryInv
  BY Parts
<1>2. CASE OrderSyncStore
  <2>k. PICK k : k = osHold.key
    OBVIOUS
  <2>1. k \in RowKeys /\ Exists(k) /\ osHold # NULL /\ osHold.st \in Final
    BY <1>1, <1>2, <2>k DEF OrderSyncStore, TypeOK, Maybe, OrderSyncInv, DataInv, RowsInv
  <2>2. UNCHANGED broker
    BY <1>2 DEF OrderSyncStore
  <2>3. CASE UNCHANGED <<table, announced>>
    BY <2>2, <2>3, SeenStutter
  <2>4. CASE /\ status' = [status EXCEPT ![k] = ClosedStatusMap(osHold.st)] /\ bid' = bid
             /\ announced' = announced \/ announced' = announced \cup {k}
    <3>1. ClosedStatusMap(osHold.st) # "absent"
      BY <2>1, StatusMaps, Statuses
    <3>2. status'[k] # "absent" /\ \A m \in ClientIds : m # k => status'[m] = status[m] /\ bid'[m] = bid[m]
      BY <1>1, <2>1, <2>4, <3>1 DEF TypeOK
    <3>3. announced \subseteq announced' /\ announced' \subseteq announced \cup {k}
      BY <2>4
    <3>4. bid'[k] = bid[k]
      BY <2>4
    <3> QED
      BY <2>1, <2>2, <3>2, <3>3, <3>4, RowStep
  <2> QED
    BY <1>2, <2>k, <2>3, <2>4 DEF OrderSyncStore
<1>3. CASE HistoryWrite
  <2>e. PICK e : e = hsHold.e
    OBVIOUS
  <2>k. PICK k : k = IF hsHold.row = NULL THEN EffectiveId(e) ELSE hsHold.row
    OBVIOUS
  <2>1. UNCHANGED <<broker, announced>> /\ hsHold # NULL
    BY <1>3 DEF HistoryWrite
  <2>2. e \in Listing /\ Truthful(e) /\ hsHold.row \in Maybe(RowKeys)
    BY <1>1, <2>e, <2>1 DEF TypeOK, Maybe, HistoryInv
  <2>3. e.bid \in BrokerIds /\ e.st \in TossStatuses /\ e.cid \in Maybe(ClientIds)
    BY <2>2 DEF Listing, Maybe
  <2>4. k \in RowKeys
    BY <2>k, <2>2, <2>3 DEF EffectiveId, Maybe
  <2>5. k \in ClientIds => Exists(k)
    <3>1. CASE hsHold.row # NULL
      BY <1>1, <2>k, <2>1, <3>1 DEF HistoryInv
    <3>2. CASE hsHold.row = NULL /\ k \in ClientIds
      <4>1. k = e.cid /\ e.cid = cid[e.bid]
        BY <2>k, <2>2, <2>3, <3>2, Keys DEF EffectiveId, Truthful, Maybe
      <4> QED
        BY <1>1, <2>3, <3>2, <4>1 DEF DataInv, WrittenAhead
    <3> QED
      BY <3>1, <3>2
  <2>6. CASE UNCHANGED table
    BY <2>1, <2>6, SeenStutter
  <2>7. CASE status' = [status EXCEPT ![k] = TossStatusMap(e.st)] /\ bid' = [bid EXCEPT ![k] = e.bid]
    <3>1. TossStatusMap(e.st) # "absent"
      BY <2>3, StatusMaps, Statuses
    <3>2. status'[k] # "absent" /\ \A m \in ClientIds : m # k => status'[m] = status[m] /\ bid'[m] = bid[m]
      BY <1>1, <2>4, <2>7, <3>1 DEF TypeOK
    <3>3. bid'[k] # NULL
      BY <1>1, <2>3, <2>4, <2>7 DEF TypeOK
    <3>4. announced \subseteq announced' /\ announced' \subseteq announced \cup {k}
      BY <2>1
    <3> QED
      BY <2>1, <2>5, <3>2, <3>3, <3>4, RowStep
  <2> QED
    BY <1>3, <2>e, <2>k, <2>6, <2>7 DEF HistoryWrite
<1>4. CASE CancelStore
  <2>1. UNCHANGED <<broker, bid, announced>> /\ apiHold \in BrokerIds
    BY <1>1, <1>4 DEF CancelStore, TypeOK, Maybe, table
  <2>2. CASE UNCHANGED table
    BY <2>1, <2>2, SeenStutter
  <2>3. CASE status' = [k \in RowKeys |->
                         IF Exists(k) /\ bid[k] = apiHold THEN "cancelled" ELSE status[k]]
    <3>k. PICK k : k = cid[apiHold]
      OBVIOUS
    <3>1. \A m \in ClientIds : m # k => status'[m] = status[m] /\ bid'[m] = bid[m]
      BY <1>1, <3>k, <2>1, <2>3 DEF DataInv, RowTracksItsOrder
    <3>2. k \in ClientIds => Exists(k)
      BY <1>1, <3>k, <2>1 DEF DataInv, WrittenAhead
    <3>3. k \in ClientIds => status'[k] # "absent"
      BY <2>3, <3>2 DEF Exists
    <3>4. bid'[k] = bid[k]
      BY <2>1
    <3>5. announced' = announced
      BY <2>1
    <3> QED
      BY <2>1, <3>1, <3>2, <3>3, <3>4, <3>5, RowStep
  <2> QED
    BY <1>4, <2>2, <2>3 DEF CancelStore
<1> QED
  BY <1>2, <1>3, <1>4

(* The broker decides of one order at a time; what it adds is not the      *)
(* bot's.                                                                  *)
LEMMA BrokerSeen ==
  ASSUME IInv, BrokerStep \/ (\E b \in BrokerIds : ModifyRequest(b) \/ CancelRequest(b))
  PROVE  SeenStep
<1> USE Keys
<1>1. TypeOK /\ DataInv
  BY Parts
<1>2. issued \in Int /\ \A d \in BrokerIds : d > issued => cid[d] = NULL
  BY <1>1 DEF TypeOK, DataInv, BrokerInv
<1>3. ASSUME NEW b \in BrokerIds, NEW from, NEW to, from \subseteq OpenGroup, Progress(b, from, to)
      PROVE  SeenStep
  <2>1. UNCHANGED <<table, announced, cid>> /\ bstatus' = [bstatus EXCEPT ![b] = to] /\ bstatus[b] \notin Final
    BY <1>3, Statuses DEF Progress, Untouched
  <2>2. \A d \in BrokerIds : d # b => bstatus'[d] = bstatus[d]
    BY <1>1, <2>1 DEF TypeOK
  <2> QED
    BY <2>1, <2>2, OrderStep
(* An open order b moves to s1 and the broker adds order issued+1.         *)
<1>4. ASSUME NEW b \in BrokerIds, NEW s1, NEW s2, bstatus[b] \in OpenGroup, issued < MaxOrders,
             bstatus' = [bstatus EXCEPT ![b] = s1, ![issued + 1] = s2], UNCHANGED cid, Untouched
      PROVE  SeenStep
  <2>1. issued + 1 \in BrokerIds /\ issued + 1 > issued
    BY <1>1, <1>2, <1>4 DEF BrokerIds, TypeOK
  <2>2. cid[issued + 1] = NULL
    BY <1>2, <2>1
  <2>3. \A d \in BrokerIds : d # b /\ cid[d] # NULL => bstatus'[d] = bstatus[d]
    BY <1>1, <1>4, <2>2 DEF TypeOK
  <2>4. UNCHANGED <<table, announced>> /\ bstatus[b] \notin Final
    BY <1>4, Statuses DEF Untouched
  <2> QED
    BY <1>4, <2>3, <2>4, OrderStep
<1>5. ASSUME NEW b \in BrokerIds, ReplaceDone(b) PROVE SeenStep
  <2>1. bstatus[b] \in OpenGroup
    BY <1>5 DEF ReplaceDone, OpenGroup
  <2> QED
    BY <1>4, <1>5, <2>1 DEF ReplaceDone
<1>6. ASSUME NEW b \in BrokerIds, RequestRefused(b) PROVE SeenStep
  <2>1. PICK p \in {<<"PENDING_CANCEL", "CANCEL_REJECTED">>, <<"PENDING_REPLACE", "REPLACE_REJECTED">>},
             s \in {"PENDING", "PARTIAL_FILLED"} :
               /\ bstatus[b] = p[1] /\ issued < MaxOrders
               /\ bstatus' = [bstatus EXCEPT ![b] = s, ![issued + 1] = p[2]]
               /\ UNCHANGED cid /\ Untouched
    BY <1>6 DEF RequestRefused
  <2>2. bstatus[b] \in OpenGroup
    BY <2>1 DEF OpenGroup
  <2> QED
    BY <1>4, <2>1, <2>2
<1>7. ASSUME ForeignOrder PROVE SeenStep
  <2>1. Issue("PENDING", NULL) /\ "PENDING" \in TossStatuses /\ NULL \in Maybe(ClientIds)
        /\ UNCHANGED <<table, announced>>
    BY <1>7, Statuses DEF ForeignOrder, Maybe, Untouched
  <2>2. PICK b \in BrokerIds :
          /\ cid[b] = NULL /\ cid'[b] = NULL /\ bstatus[b] = "absent"
          /\ \A d \in BrokerIds : d # b => cid'[d] = cid[d] /\ bstatus'[d] = bstatus[d]
    BY <1>1, <2>1, Issuing DEF DataInv
  <2>3. bstatus[b] \notin Final
    BY <2>2 DEF Final
  <2> QED
    BY <2>1, <2>2, <2>3, OrderStep
<1>8. ASSUME NEW b \in BrokerIds, CancelRequest(b) PROVE SeenStep
  <2>1. UNCHANGED <<issued, cid, table, announced>>
    BY <1>8 DEF CancelRequest, broker
  <2>2. \/ bstatus[b] \notin Final /\ bstatus' = [bstatus EXCEPT ![b] = "PENDING_CANCEL"]
        \/ bstatus' = bstatus
    BY <1>8 DEF CancelRequest, broker, Final
  <2>3. \A d \in BrokerIds : d # b => bstatus'[d] = bstatus[d]
    BY <1>1, <2>2 DEF TypeOK
  <2>4. bstatus[b] \in Final => bstatus'[b] = bstatus[b]
    BY <2>2
  <2> QED
    BY <2>1, <2>3, <2>4, OrderStep
<1> QED
  BY <1>3, <1>5, <1>6, <1>7, <1>8
  DEF BrokerStep, PartialFill, Fill, Reject, CancelDone, Expire, ModifyRequest, OpenGroup

LEMMA NextPromised ==
  ASSUME IInv, [Next]_vars
  PROVE  SeenStep
<1>1. IInv'
  BY NextKeeps
<1>2. CASE UNCHANGED <<broker, table, announced>>
  BY <1>2, SeenStutter
<1>3. CASE SubmitStep
  <2>1. ASSUME NEW t \in Tasks, NEW c \in ClientIds, SubmitCheck(t, c) PROVE SeenStep
    BY <1>2, <2>1 DEF SubmitCheck
  <2> QED
    BY <1>1, <1>3, <2>1, SubmitSeen DEF SubmitStep
<1>4. CASE OrderSyncStep
  BY <1>1, <1>2, <1>4, RecordsSeen DEF OrderSyncStep, OrderSyncSnapshot, OrderSyncFetch
<1>5. CASE HistoryStep
  BY <1>1, <1>2, <1>5, RecordsSeen DEF HistoryStep, HistoryListOpen, HistoryListClosed, HistorySelect
<1>6. CASE BrokerStep \/ ApiStep
  BY <1>1, <1>6, BrokerSeen, RecordsSeen DEF ApiStep
<1>7. CASE Restart
  BY <1>2, <1>7 DEF Restart
<1>8. CASE UNCHANGED vars
  BY <1>2, <1>8 DEF vars
<1> QED
  BY <1>3, <1>4, <1>5, <1>6, <1>7, <1>8 DEF Next

(* The order table, the broker and all tasks between them implement        *)
(* ClientOrder for each order given to submit.                             *)
THEOREM KeepsItsPromise == Spec => OrderPromise
<1>1. Init => IInv /\ Promise!Init
  BY InitIInv, InitPromised
<1>2. IInv /\ [Next]_vars => IInv' /\ [Promise!Next]_Promise!vars
  BY NextKeeps, NextPromised DEF SeenStep, Seen, Promise!vars
<1> QED
  BY <1>1, <1>2, PTL DEF Spec, OrderPromise, Promise!Spec

=============================================================================
