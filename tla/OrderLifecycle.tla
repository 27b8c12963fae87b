--------------------------- MODULE OrderLifecycle ---------------------------
(***************************************************************************)
(* The life of an order in quanteo-core: the rows of the `orders` table,   *)
(* the orders the Toss broker really holds, and the tasks of the one event *)
(* loop that read one and write the other:                                 *)
(*                                                                         *)
(*   OrderExecutor.submit      inserts a row, places the order, stores the *)
(*                             answer                                      *)
(*   OrderSyncFeed             polls get_order for the pending rows        *)
(*   OrderHistorySyncFeed      mirrors the broker's OPEN and CLOSED lists  *)
(*   POST /orders/{id}/cancel  cancels at the broker, then in the table    *)
(*   POST /orders/{id}/modify  replaces the order at the broker            *)
(*                                                                         *)
(* Every await is a point where the other tasks may run, so an operation   *)
(* is one action per stretch of code between two awaits that touch the     *)
(* broker or read the table for a later write.  An execute() and the       *)
(* commit() that follows it are one step: a crash either keeps or loses    *)
(* the write.  Quantities, prices, symbols and timestamps are left out.    *)
(***************************************************************************)
EXTENDS Integers, FiniteSets

CONSTANTS
  ClientIds,        \* client order ids the bot may submit
  Tasks,            \* concurrent callers of OrderExecutor.submit
  NULL,             \* SQL NULL / Python None
  MaxOrders,        \* bound: orders the account ever holds (ids 1..MaxOrders)
  PastOrders,       \* orders already filled on the account before the first boot
  Echo,             \* may a listed order carry its clientOrderId? subset of BOOLEAN
  Outcomes,         \* statuses the broker gives to orders, besides PENDING
  PageLimit,        \* orders per CLOSED page (50 in the code)
  MaxPages,         \* CLOSED pages read by one backfill (100 in the code)
  MaxFaults,        \* bound: failed broker reads and failed database writes
  MaxCrashes        \* bound: crashes of the process

BrokerIds == 1 .. MaxOrders

(* A row is keyed by its client_order_id: one of ClientIds, or the broker  *)
(* id b itself, which stands for the key "toss-native-b".                  *)
Native(b) == b
RowKeys == ClientIds \cup BrokerIds

OpenGroup == {"PENDING", "PARTIAL_FILLED", "PENDING_CANCEL", "PENDING_REPLACE"}
Final     == {"FILLED", "CANCELED", "REJECTED", "REPLACED"}
Leftovers == {"CANCEL_REJECTED", "REPLACE_REJECTED", "PARTIAL_EXPIRED"}
ClosedGroup == Final \cup Leftovers
TossStatuses == OpenGroup \cup ClosedGroup

Listing == [bid : BrokerIds, st : TossStatuses, cid : ClientIds \cup {NULL}]

ASSUME ConstantsAssumption ==
  /\ MaxOrders \in Nat
  /\ PastOrders \in 0 .. MaxOrders
  /\ ClientIds \cap BrokerIds = {}
  /\ NULL \notin RowKeys
  /\ NULL \notin Listing /\ NULL \notin [e : Listing, row : RowKeys \cup {NULL}]
  /\ Echo \subseteq BOOLEAN
  /\ Outcomes \subseteq TossStatuses
  /\ PageLimit \in Nat \ {0}
  /\ MaxPages \in Nat \ {0}
  /\ MaxFaults \in Nat
  /\ MaxCrashes \in Nat

(* order_sync._CLOSED_STATUS_MAP, defined on Final; other statuses are     *)
(* skipped.                                                                *)
ClosedStatusMap(s) ==
  IF s = "FILLED" THEN "filled"
  ELSE IF s = "REJECTED" THEN "rejected"
  ELSE "cancelled"   \* CANCELED, REPLACED

(* Mutant: the broker's own word is stored.                                *)
TossStatusMap_Raw(s) == s

(* Mutant: a refused cancel is taken to mean that the order was filled.    *)
TossStatusMap_LateCancelIsFill(s) ==
  IF s \in {"FILLED", "CANCEL_REJECTED"} THEN "filled"
  ELSE IF s \in Final THEN ClosedStatusMap(s)
  ELSE "pending"

(* order_history_sync._TOSS_STATUS_MAP.  A partial fill that expired is    *)
(* listed as PARTIAL_FILLED in the CLOSED group.                           *)
TossStatusMap(s) ==
  IF s \in {"PARTIAL_FILLED", "PARTIAL_EXPIRED"} THEN "partial"
  ELSE IF s \in Final THEN ClosedStatusMap(s)
  ELSE "pending"

PendingStatuses == {"pending", "submitted", "partial"}
LocalStatuses == PendingStatuses \cup {"filled", "cancelled", "rejected"}

VARIABLES
  issued,      \* orders the broker has created so far: ids 1..issued
  bstatus,     \* the broker's status of each order
  cid,         \* the clientOrderId the broker received with the order
  status,      \* orders.status, "absent" when there is no such row
  bid,         \* orders.broker_order_id
  pc, arg, ack,               \* the submit() calls in progress
  osTodo, osHold,             \* OrderSyncFeed: snapshot left, answer in hand
  hsPc, hsOpen, hsClosed,     \* OrderHistorySyncFeed: phase and lists
  hsCursor, hsPages, hsHold,  \*   CLOSED cursor, pages read, row in hand
  backfilled,                 \* _closed_history_backfilled
  apiHold,     \* order whose cancel the API still has to write to the table
  announced,   \* rows for which ORDER_FILLED was published on the bus
  faults, crashes

broker  == <<issued, bstatus, cid>>
table   == <<status, bid>>
submits == <<pc, arg, ack>>
osync   == <<osTodo, osHold>>
hsync   == <<hsPc, hsOpen, hsClosed, hsCursor, hsPages, hsHold, backfilled>>
budget  == <<faults, crashes>>
vars    == <<broker, table, submits, osync, hsync, apiHold, announced, budget>>

Exists(k) == status[k] # "absent"
Closed(b) == b <= issued /\ bstatus[b] \in ClosedGroup

Init ==
  /\ issued = PastOrders
  /\ bstatus = [b \in BrokerIds |-> IF b <= PastOrders THEN "FILLED" ELSE "absent"]
  /\ cid = [b \in BrokerIds |-> NULL]
  /\ status = [k \in RowKeys |-> "absent"]
  /\ bid = [k \in RowKeys |-> NULL]
  /\ pc = [t \in Tasks |-> "idle"]
  /\ arg = [t \in Tasks |-> NULL]
  /\ ack = [t \in Tasks |-> NULL]
  /\ osTodo = {} /\ osHold = NULL
  /\ hsPc = "apply" /\ hsOpen = {} /\ hsClosed = {}
  /\ hsCursor = MaxOrders + 1 /\ hsPages = 0 /\ hsHold = NULL
  /\ backfilled = FALSE
  /\ apiHold = NULL
  /\ announced = {}
  /\ faults = 0 /\ crashes = 0

(* A failing broker read or database write; MaxFaults bounds them.         *)
Fault == faults < MaxFaults /\ faults' = faults + 1 /\ UNCHANGED crashes

-----------------------------------------------------------------------------
(* The broker (external: modelled from the calls the code makes)           *)

(* The broker creates order issued+1.                                      *)
Issue(s, c) ==
  /\ issued < MaxOrders
  /\ issued' = issued + 1
  /\ bstatus' = [bstatus EXCEPT ![issued + 1] = s]
  /\ cid' = [cid EXCEPT ![issued + 1] = c]

Untouched == UNCHANGED <<table, submits, osync, hsync, apiHold, announced, budget>>

(* Someone uses the Toss app to place an order of their own.               *)
ForeignOrder == Issue("PENDING", NULL) /\ Untouched

Progress(b, from, to) ==
  /\ to \in Outcomes /\ b <= issued /\ bstatus[b] \in from
  /\ bstatus' = [bstatus EXCEPT ![b] = to]
  /\ UNCHANGED <<issued, cid>>
  /\ Untouched

PartialFill(b) == Progress(b, {"PENDING"}, "PARTIAL_FILLED")
Fill(b) == Progress(b, OpenGroup, "FILLED")
Reject(b) == Progress(b, {"PENDING"}, "REJECTED")
CancelDone(b) == Progress(b, {"PENDING_CANCEL"}, "CANCELED")
Expire(b) ==
  \/ Progress(b, {"PENDING"}, "CANCELED")
  \/ Progress(b, {"PARTIAL_FILLED"}, "PARTIAL_EXPIRED")

(* A modify is granted: a new order takes the place of the old one.        *)
ReplaceDone(b) ==
  /\ b <= issued /\ bstatus[b] = "PENDING_REPLACE" /\ issued < MaxOrders
  /\ issued' = issued + 1
  /\ bstatus' = [bstatus EXCEPT ![b] = "REPLACED", ![issued + 1] = "PENDING"]
  /\ UNCHANGED cid
  /\ Untouched

(* A cancel or modify is refused: the order goes back to where it was and  *)
(* the refusal is a closed order record of its own.                        *)
RequestRefused(b) ==
  \E p \in {<<"PENDING_CANCEL", "CANCEL_REJECTED">>, <<"PENDING_REPLACE", "REPLACE_REJECTED">>} :
    /\ b <= issued /\ bstatus[b] = p[1] /\ p[2] \in Outcomes /\ issued < MaxOrders
    /\ issued' = issued + 1
    /\ \E s \in {"PENDING", "PARTIAL_FILLED"} :
         /\ s \in Outcomes \cup {"PENDING"}
         /\ bstatus' = [bstatus EXCEPT ![b] = s, ![issued + 1] = p[2]]
    /\ UNCHANGED cid
    /\ Untouched

BrokerStep ==
  \/ ForeignOrder
  \/ \E b \in BrokerIds :
       \/ PartialFill(b) \/ Fill(b) \/ Reject(b) \/ CancelDone(b) \/ Expire(b)
       \/ ReplaceDone(b) \/ RequestRefused(b)

-----------------------------------------------------------------------------
(* OrderExecutor.submit                                                    *)

(* _fetch_existing finds no row.  When it finds one the call raises or     *)
(* returns the stored answer and changes nothing.                          *)
SubmitCheck(t, c) ==
  /\ pc[t] = "idle" /\ ~Exists(c)
  /\ pc' = [pc EXCEPT ![t] = "checked"]
  /\ arg' = [arg EXCEPT ![t] = c]
  /\ UNCHANGED <<ack, broker, table, osync, hsync, apiHold, announced, budget>>

Return(t) ==
  /\ pc' = [pc EXCEPT ![t] = "idle"]
  /\ arg' = [arg EXCEPT ![t] = NULL] /\ ack' = [ack EXCEPT ![t] = NULL]

(* Mutant: INSERT OR REPLACE, so a second INSERT does not raise.           *)
SubmitInsert_OrReplace(t) ==
  /\ pc[t] = "checked"
  /\ status' = [status EXCEPT ![arg[t]] = "pending"]
  /\ pc' = [pc EXCEPT ![t] = "sending"]
  /\ UNCHANGED <<arg, ack, bid, budget, broker, osync, hsync, apiHold, announced>>

(* Mutant: the order is sent first and its row left to the answer.         *)
SubmitInsert_SendFirst(t) ==
  /\ pc[t] = "checked" /\ ~Exists(arg[t])
  /\ pc' = [pc EXCEPT ![t] = "sending"]
  /\ UNCHANGED <<arg, ack, table, budget, broker, osync, hsync, apiHold, announced>>

(* INSERT ... 'pending'.  client_order_id is UNIQUE: a second INSERT       *)
(* raises, and so does one the database refuses.                           *)
SubmitInsert(t) ==
  /\ pc[t] = "checked"
  /\ \/ /\ ~Exists(arg[t])
        /\ status' = [status EXCEPT ![arg[t]] = "pending"]
        /\ pc' = [pc EXCEPT ![t] = "sending"]
        /\ UNCHANGED <<arg, ack, bid, budget>>
     \/ Exists(arg[t]) /\ Return(t) /\ UNCHANGED <<table, budget>>
     \/ Fault /\ Return(t) /\ UNCHANGED table
  /\ UNCHANGED <<broker, osync, hsync, apiHold, announced>>

(* place_order: the broker takes the order and answers; or takes it and    *)
(* the answer is lost; or there is no order and the call raises.           *)
SubmitPlace(t) ==
  /\ pc[t] = "sending"
  /\ \/ /\ Issue("PENDING", arg[t])
        /\ \/ /\ pc' = [pc EXCEPT ![t] = "acked"]
              /\ ack' = [ack EXCEPT ![t] = issued + 1]
           \/ /\ pc' = [pc EXCEPT ![t] = "failed"]
              /\ UNCHANGED ack
     \/ /\ pc' = [pc EXCEPT ![t] = "failed"]
        /\ UNCHANGED <<broker, ack>>
  /\ UNCHANGED <<arg, table, osync, hsync, apiHold, announced, budget>>

(* Mutant: the id is taken from the last answer of the client, which may   *)
(* be the answer to another call.                                          *)
SubmitStore_LastAnswer(t) ==
  /\ pc[t] = "acked"
  /\ Return(t)
  /\ status' = [status EXCEPT ![arg[t]] = "submitted"]
  /\ bid' = [bid EXCEPT ![arg[t]] = issued]
  /\ UNCHANGED <<budget, broker, osync, hsync, apiHold, announced>>

(* update_order_status(..., "submitted", broker_order_id), whatever the    *)
(* row has become meanwhile.                                               *)
SubmitStore(t) ==
  /\ pc[t] = "acked"
  /\ Return(t)
  /\ \/ /\ status' = [status EXCEPT ![arg[t]] = "submitted"]
        /\ bid' = [bid EXCEPT ![arg[t]] = ack[t]]
        /\ UNCHANGED budget
     \/ Fault /\ UNCHANGED table
  /\ UNCHANGED <<broker, osync, hsync, apiHold, announced>>

(* except Exception: update_order_status(..., "rejected"), then raise.     *)
SubmitFailed(t) ==
  /\ pc[t] = "failed"
  /\ Return(t)
  /\ \/ /\ status' = [status EXCEPT ![arg[t]] = "rejected"]
        /\ UNCHANGED <<bid, budget>>
     \/ Fault /\ UNCHANGED table
  /\ UNCHANGED <<broker, osync, hsync, apiHold, announced>>

SubmitFinish(t) ==
  SubmitInsert(t) \/ SubmitPlace(t) \/ SubmitStore(t) \/ SubmitFailed(t)

SubmitStep == \E t \in Tasks : SubmitFinish(t) \/ \E c \in ClientIds : SubmitCheck(t, c)

-----------------------------------------------------------------------------
(* OrderSyncFeed.sync_once                                                 *)

(* get_pending_orders; rows without a broker_order_id are skipped.  The    *)
(* rows come in created_at order, which says nothing about their keys.     *)
OrderSyncSnapshot ==
  /\ osTodo = {} /\ osHold = NULL
  /\ osTodo' = {<<k, bid[k]>> : k \in {r \in RowKeys : status[r] \in PendingStatuses
                                                       /\ bid[r] # NULL}}
  /\ UNCHANGED <<osHold, broker, table, submits, hsync, apiHold, announced, budget>>

(* get_order for the next row: a closed status is kept for the update, any *)
(* other status and a failed call leave the row for the next cycle.        *)
OrderSyncFetch ==
  /\ osHold = NULL
  /\ \E r \in osTodo :
       /\ osTodo' = osTodo \ {r}
       /\ \/ /\ bstatus[r[2]] \in Final
             /\ osHold' = [key |-> r[1], bid |-> r[2], st |-> bstatus[r[2]]]
             /\ UNCHANGED budget
          \/ bstatus[r[2]] \notin Final /\ UNCHANGED <<osHold, budget>>
          \/ Fault /\ UNCHANGED osHold
  /\ UNCHANGED <<broker, table, submits, hsync, apiHold, announced>>

(* update_order_status by client_order_id, then the event.                 *)
OrderSyncStore ==
  /\ osHold # NULL
  /\ osHold' = NULL
  /\ \/ LET new == ClosedStatusMap(osHold.st) IN
          /\ status' = [status EXCEPT ![osHold.key] = new]
          /\ announced' = IF new = "filled" THEN announced \cup {osHold.key} ELSE announced
          /\ UNCHANGED <<bid, budget>>
     \/ Fault /\ UNCHANGED <<table, announced>>
  /\ UNCHANGED <<osTodo, broker, submits, hsync, apiHold>>

OrderSyncStep == OrderSyncSnapshot \/ OrderSyncFetch \/ OrderSyncStore

-----------------------------------------------------------------------------
(* OrderHistorySyncFeed.sync_once                                          *)

(* What list_orders returns for the orders S; Toss either echoes their     *)
(* clientOrderIds or leaves them out.                                      *)
Listings(S, echo) ==
  {[bid |-> b, st |-> bstatus[b], cid |-> IF echo THEN cid[b] ELSE NULL] : b \in S}

(* Between two cycles: nothing left to apply.                              *)
HistoryIdle == hsPc = "apply" /\ hsOpen = {} /\ hsClosed = {} /\ hsHold = NULL

(* A failing list_orders ends the cycle; so does a crash.                  *)
HistoryAbort ==
  /\ hsPc' = "apply" /\ hsOpen' = {} /\ hsClosed' = {} /\ hsHold' = NULL
  /\ hsCursor' = MaxOrders + 1 /\ hsPages' = 0

(* list_orders(OPEN) returns every open order.                             *)
HistoryListOpen ==
  /\ HistoryIdle
  /\ \/ /\ \E echo \in Echo :
             hsOpen' = Listings({b \in 1 .. issued : bstatus[b] \in OpenGroup}, echo)
        /\ hsPc' = "closed"
        /\ UNCHANGED <<hsClosed, hsHold, hsCursor, hsPages, backfilled, budget>>
     \/ Fault /\ HistoryAbort /\ UNCHANGED backfilled
  /\ UNCHANGED <<broker, table, submits, osync, apiHold, announced>>

(* A page of list_orders(CLOSED): the newest PageLimit closed orders below *)
(* the cursor.                                                             *)
Older(cursor) == {b \in 1 .. issued : Closed(b) /\ b < cursor}
Page(cursor) ==
  {b \in Older(cursor) : Cardinality({d \in Older(cursor) : d > b}) < PageLimit}

(* Mutant: the backfill counts as complete when the page limit cuts it.    *)
HistoryListClosed_CutIsComplete ==
  /\ hsPc = "closed"
  /\ LET page == Page(hsCursor)
     IN /\ \E echo \in Echo : hsClosed' = hsClosed \cup Listings(page, echo)
        /\ IF ~backfilled /\ Older(hsCursor) # page /\ hsPages + 1 < MaxPages
           THEN /\ \E b \in page : (\A d \in page : b <= d) /\ hsCursor' = b
                /\ hsPages' = hsPages + 1
                /\ UNCHANGED <<hsPc, backfilled>>
           ELSE /\ hsPc' = "apply" /\ backfilled' = TRUE
                /\ hsCursor' = MaxOrders + 1 /\ hsPages' = 0
  /\ UNCHANGED <<hsOpen, hsHold, broker, table, submits, osync, apiHold, announced, budget>>

(* Before the backfill is complete every page is read until the cursor     *)
(* ends or MaxPages are read; afterwards only the newest page is.          *)
HistoryListClosed ==
  /\ hsPc = "closed"
  /\ \/ LET page == Page(hsCursor)
            more == Older(hsCursor) # page
        IN /\ \E echo \in Echo : hsClosed' = hsClosed \cup Listings(page, echo)
           /\ IF ~backfilled /\ more /\ hsPages + 1 < MaxPages
              THEN /\ \E b \in page : (\A d \in page : b <= d) /\ hsCursor' = b
                   /\ hsPages' = hsPages + 1
                   /\ UNCHANGED <<hsPc, backfilled>>
              ELSE /\ hsPc' = "apply"
                   /\ backfilled' = (backfilled \/ ~more)
                   /\ hsCursor' = MaxOrders + 1 /\ hsPages' = 0
           /\ UNCHANGED <<hsOpen, hsHold, budget>>
     \/ Fault /\ HistoryAbort /\ UNCHANGED backfilled
  /\ UNCHANGED <<broker, table, submits, osync, apiHold, announced>>

(* Mutant: the client id of the listing is ignored.                        *)
EffectiveId_AlwaysNative(e) == Native(e.bid)

(* StateStore.upsert_broker_order, for the open listings first.  Its       *)
(* SELECT finds a row by client_order_id or by broker_order_id; when two   *)
(* rows match, fetchone returns either.                                    *)
EffectiveId(e) == IF e.cid = NULL THEN Native(e.bid) ELSE e.cid

(* Mutant: the SELECT looks for the broker_order_id alone.                 *)
Matches_BrokerIdOnly(e) == {k \in RowKeys : Exists(k) /\ bid[k] = e.bid}

(* The rows the SELECT finds.                                              *)
Matches(e) == {k \in RowKeys : Exists(k) /\ (k = EffectiveId(e) \/ bid[k] = e.bid)}

HistorySelect ==
  /\ hsPc = "apply" /\ hsHold = NULL
  /\ \E e \in IF hsOpen # {} THEN hsOpen ELSE hsClosed :
       /\ hsOpen' = hsOpen \ {e}
       /\ hsClosed' = IF hsOpen # {} THEN hsClosed ELSE hsClosed \ {e}
       /\ \E k \in IF Matches(e) = {} THEN {NULL} ELSE Matches(e) :
            hsHold' = [e |-> e, row |-> k]
  /\ UNCHANGED <<hsPc, hsCursor, hsPages, backfilled>>
  /\ UNCHANGED <<broker, table, submits, osync, apiHold, announced, budget>>

(* The UPDATE of the row found, or the INSERT, which fails when a row took *)
(* the key after the SELECT.  A write that fails skips only this order.    *)
(* Nothing is published.                                                   *)
HistoryWrite ==
  /\ hsHold # NULL
  /\ hsHold' = NULL
  /\ LET e == hsHold.e
         key == IF hsHold.row = NULL THEN EffectiveId(e) ELSE hsHold.row
     IN \/ /\ hsHold.row # NULL \/ ~Exists(key)
           /\ status' = [status EXCEPT ![key] = TossStatusMap(e.st)]
           /\ bid' = [bid EXCEPT ![key] = e.bid]
           /\ UNCHANGED budget
        \/ hsHold.row = NULL /\ Exists(key) /\ UNCHANGED <<table, budget>>
        \/ Fault /\ UNCHANGED table
  /\ UNCHANGED <<hsPc, hsOpen, hsClosed, hsCursor, hsPages, backfilled>>
  /\ UNCHANGED <<broker, submits, osync, apiHold, announced>>

HistoryStep ==
  HistoryListOpen \/ HistoryListClosed \/ HistorySelect \/ HistoryWrite

-----------------------------------------------------------------------------
(* Control API: the order routes                                           *)

(* broker.cancel_order.  An open order becomes PENDING_CANCEL; if the      *)
(* answer is lost, the route stores nothing.  On a 409, which Toss answers *)
(* for an order that is already filled, cancelled, rejected, replaced or   *)
(* being processed, the adapter reads the order again and returns without  *)
(* looking at its status.  Any other answer is a 400 for the client and    *)
(* changes nothing.                                                        *)
CancelRequest(b) ==
  /\ "PENDING_CANCEL" \in Outcomes /\ apiHold = NULL /\ b <= issued
  /\ \/ /\ bstatus[b] \in {"PENDING", "PARTIAL_FILLED"}
        /\ bstatus' = [bstatus EXCEPT ![b] = "PENDING_CANCEL"]
        /\ UNCHANGED <<issued, cid>>
        /\ \/ apiHold' = b /\ UNCHANGED budget
           \/ Fault /\ UNCHANGED apiHold
     \/ /\ bstatus[b] \in {"PENDING_CANCEL", "PENDING_REPLACE"} \cup Final
        /\ apiHold' = b /\ UNCHANGED <<broker, budget>>
  /\ UNCHANGED <<table, submits, osync, hsync, announced>>

CancelStore ==
  /\ apiHold # NULL
  /\ apiHold' = NULL
  /\ \/ /\ status' = [k \in RowKeys |->
                        IF Exists(k) /\ bid[k] = apiHold THEN "cancelled" ELSE status[k]]
        /\ UNCHANGED <<bid, budget>>
     \/ Fault /\ UNCHANGED table
  /\ UNCHANGED <<broker, submits, osync, hsync, announced>>

(* modify_order: the broker is asked to replace the order.  The route then *)
(* rewrites qty and price of the old row and leaves its status alone.      *)
ModifyRequest(b) ==
  Progress(b, {"PENDING", "PARTIAL_FILLED"}, "PENDING_REPLACE")

ApiStep ==
  \/ \E b \in BrokerIds : CancelRequest(b) \/ ModifyRequest(b)
  \/ CancelStore

-----------------------------------------------------------------------------
(* The process dies and starts again: the table and the broker stay, every *)
(* task begins anew and nothing is resubmitted (recover_state only logs).  *)
Restart ==
  /\ crashes < MaxCrashes
  /\ crashes' = crashes + 1
  /\ pc' = [t \in Tasks |-> "idle"]
  /\ arg' = [t \in Tasks |-> NULL] /\ ack' = [t \in Tasks |-> NULL]
  /\ osTodo' = {} /\ osHold' = NULL
  /\ HistoryAbort /\ backfilled' = FALSE
  /\ apiHold' = NULL
  /\ UNCHANGED <<broker, table, announced, faults>>

Next == BrokerStep \/ SubmitStep \/ OrderSyncStep \/ HistoryStep \/ ApiStep \/ Restart

(* The event loop runs every task that can run: a submit() under way, the  *)
(* two feeds and the cancel route go on.  Nobody makes the market, the     *)
(* user or the caller of submit() act.                                     *)
Fairness ==
  /\ \A t \in Tasks : WF_vars(SubmitFinish(t))
  /\ WF_vars(OrderSyncStep)
  /\ WF_vars(HistoryStep)
  /\ WF_vars(CancelStore)

Spec == Init /\ [][Next]_vars
FairSpec == Spec /\ Fairness

-----------------------------------------------------------------------------
(* Properties                                                              *)

Maybe(S) == S \cup {NULL}

(* Every variable has its type: of the table (schema.py orders), of the    *)
(* feeds' volatile state and of the calls in progress.                     *)
TypeOK ==
  /\ issued \in 0 .. MaxOrders
  /\ bstatus \in [BrokerIds -> TossStatuses \cup {"absent"}]
  /\ cid \in [BrokerIds -> Maybe(ClientIds)]
  /\ status \in [RowKeys -> LocalStatuses \cup {"absent"}]
  /\ bid \in [RowKeys -> Maybe(BrokerIds)]
  /\ pc \in [Tasks -> {"idle", "checked", "sending", "acked", "failed"}]
  /\ arg \in [Tasks -> Maybe(ClientIds)]
  /\ ack \in [Tasks -> Maybe(BrokerIds)]
  /\ osTodo \subseteq RowKeys \X BrokerIds
  /\ osHold \in Maybe([key : RowKeys, bid : BrokerIds, st : Final])
  /\ hsPc \in {"closed", "apply"}
  /\ hsOpen \subseteq Listing /\ hsClosed \subseteq Listing
  /\ hsHold \in Maybe([e : Listing, row : Maybe(RowKeys)])
  /\ hsCursor \in 1 .. MaxOrders + 1 /\ hsPages \in 0 .. MaxPages
  /\ backfilled \in BOOLEAN
  /\ apiHold \in Maybe(BrokerIds)
  /\ announced \subseteq RowKeys
  /\ faults \in 0 .. MaxFaults /\ crashes \in 0 .. MaxCrashes

(* "However often the same client_order_id is submitted, the order is sent *)
(* once" (executor.py): the broker never holds two orders with one client  *)
(* id, whatever calls of submit() overlap and wherever a crash falls.      *)
OneOrderPerClientId ==
  \A b, d \in BrokerIds : cid[b] # NULL /\ cid[b] = cid[d] => b = d

(* The row is written ahead: no order of the bot is ever at the broker     *)
(* without its row in the table, so a restart can know of it.              *)
WrittenAhead == \A b \in BrokerIds : cid[b] # NULL => Exists(cid[b])

(* A row points at its own broker order: the one placed with its client id *)
(* or, for a "toss-native" row, the one it is named after.  submit, the    *)
(* two matches of upsert_broker_order and stale snapshots never cross.     *)
RowTracksItsOrder ==
  \A k \in RowKeys : bid[k] # NULL => k = Native(bid[k]) \/ cid[bid[k]] = k

(* The table says "filled", or the bus announced a fill, only for an order *)
(* the broker has filled: no stale answer of either feed invents a fill.   *)
FilledIsReal ==
  \A k \in RowKeys : status[k] = "filled" \/ k \in announced =>
    bid[k] # NULL /\ bstatus[bid[k]] = "FILLED"

(* One broker order has one row.  It needs Echo = {TRUE}: an order listed  *)
(* without its clientOrderId while submit() waits for the answer gets a    *)
(* second row (upsert_broker_order cannot match it).                       *)
OneRowPerOrder ==
  \A k, m \in RowKeys : bid[k] # NULL /\ bid[k] = bid[m] => k = m

(* "toss-native-..." tells that the bot did not make the order (the        *)
(* docstring of upsert_broker_order).                                      *)
NativeRowsAreForeign == \A b \in BrokerIds : Exists(Native(b)) => cid[b] = NULL

(* Once the CLOSED history counts as backfilled, every order that was on   *)
(* the account before the first boot has a row (order_history_sync.py says *)
(* that otherwise the older history could never be fetched again), as long *)
(* as no read or write has failed.                                         *)
BackfillCoversPast ==
  backfilled /\ HistoryIdle /\ faults = 0 =>
    \A b \in 1 .. PastOrders : \E k \in RowKeys : bid[k] = b

(* A client order as its caller sees it: row, orders at the broker, what   *)
(* was decided of them, and which one the row points at.                   *)
Written == {c \in ClientIds : Exists(c)}
OrdersOf == [c \in ClientIds |-> {b \in BrokerIds : cid[b] = c}]
WordOn == [c \in ClientIds |-> {bstatus[b] : b \in OrdersOf[c]} \cap Final]
PointerOf == [c \in ClientIds |-> {bid[c]} \ {NULL}]
SaidFilled == {c \in ClientIds : status[c] = "filled"}

Promise == INSTANCE ClientOrder WITH
  written <- Written, orders <- OrdersOf, word <- WordOn, pointer <- PointerOf,
  filled <- SaidFilled, announced <- announced \cap ClientIds

(* However calls, feeds, requests, faults and restarts overlap, each order *)
(* given to submit (executor.py) goes the way of ClientOrder: written,     *)
(* sent once, decided once, its row tied to it for good, and no fill told  *)
(* before it happened.                                                     *)
OrderPromise == Promise!Spec

Agrees(b) ==
  /\ \E k \in RowKeys : bid[k] = b
  /\ \A k \in RowKeys : bid[k] = b => status[k] = TossStatusMap(bstatus[b])

(* The broker is the source of truth: once it has closed an order, the     *)
(* rows of that order come to say so, after any overlap of submit(), the   *)
(* two feeds and the cancel route, lost answers, failed writes and crashes *)
(* - as long as listings echo the client id (Echo = {TRUE}), by which      *)
(* history finds a row whose answer was lost, and the order is on the      *)
(* newest CLOSED page.                                                     *)
FinalStatusReachesTable ==
  \A b \in BrokerIds : (bstatus[b] \in Final) ~> Agrees(b)

(* The cancel route rewrites the table "after the cancel succeeded": it    *)
(* goes on to the UPDATE of an order's row only if the broker has taken or *)
(* completed the cancel.                                                   *)
OnlyGrantedCancelsAreStored ==
  [][\A b \in BrokerIds, k \in RowKeys :
       apiHold # b /\ apiHold' = b /\ bid[k] = b /\ status[k] # "cancelled" =>
         bstatus'[b] \in {"PENDING_CANCEL", "CANCELED"}]_vars

-----------------------------------------------------------------------------
(* The inductive invariant behind the safety properties                    *)

(* Only issued orders have a status and a client id.                       *)
BrokerInv ==
  \A b \in BrokerIds :
    /\ bstatus[b] = "absent" <=> b > issued
    /\ cid[b] # NULL => b <= issued

(* A call that has inserted its row owns the client id: nobody else is     *)
(* past the INSERT with it, and before the broker is asked there is no     *)
(* order for it.                                                           *)
Inserted(t) == pc[t] \in {"sending", "acked", "failed"}
CallsInv ==
  \A t \in Tasks :
    /\ pc[t] = "checked" => arg[t] \in ClientIds
    /\ Inserted(t) => /\ arg[t] \in ClientIds /\ Exists(arg[t])
                      /\ \A u \in Tasks : Inserted(u) /\ arg[u] = arg[t] => u = t
    /\ pc[t] = "sending" => \A b \in BrokerIds : cid[b] # arg[t]
    /\ pc[t] = "acked" => ack[t] \in BrokerIds /\ cid[ack[t]] = arg[t]

RowsInv == \A k \in RowKeys : bid[k] # NULL => bid[k] <= issued /\ Exists(k)

(* What the order feed remembers of a row still holds when it writes: the  *)
(* broker id of a row never changes and a final status is final.           *)
OrderSyncInv ==
  /\ \A r \in osTodo : bid[r[1]] = r[2]
  /\ osHold # NULL => bid[osHold.key] = osHold.bid /\ bstatus[osHold.bid] = osHold.st

(* A listing tells the truth about final statuses and client ids.          *)
Truthful(e) ==
  /\ e.bid <= issued
  /\ e.st \in Final => bstatus[e.bid] = e.st
  /\ e.cid # NULL => e.cid = cid[e.bid]
HistoryInv ==
  /\ \A e \in hsOpen \cup hsClosed : Truthful(e)
  /\ hsHold # NULL =>
       /\ Truthful(hsHold.e)
       /\ hsHold.row # NULL =>
            /\ Exists(hsHold.row)
            /\ hsHold.row = EffectiveId(hsHold.e) \/ bid[hsHold.row] = hsHold.e.bid

IInv ==
  /\ TypeOK
  /\ BrokerInv /\ OneOrderPerClientId /\ WrittenAhead
  /\ CallsInv
  /\ RowsInv /\ RowTracksItsOrder
  /\ OrderSyncInv /\ HistoryInv
  /\ FilledIsReal

(* What BackfillCoversPast rests on.  An order of before the first boot    *)
(* has a row of its own name, and that row nothing but its own order.      *)
PastInv ==
  /\ \A b \in 1 .. PastOrders : bstatus[b] = "FILLED" /\ cid[b] = NULL
  /\ \A b \in BrokerIds : Exists(Native(b)) => bid[Native(b)] = b

(* The feed has it on a page it read, in its hand or in the table.         *)
Fetched(b) ==
  \/ \E e \in hsClosed : e.bid = b
  \/ hsHold # NULL /\ hsHold.e.bid = b
  \/ bid[Native(b)] = b

(* While pages are read, what lies at the cursor or above it is fetched;   *)
(* after the backfill, everything is.                                      *)
BackfillInv ==
  /\ hsPc = "apply" => hsCursor = MaxOrders + 1
  /\ faults = 0 /\ (backfilled \/ hsPc = "closed") =>
       \A b \in 1 .. PastOrders : backfilled \/ b >= hsCursor => Fetched(b)

=============================================================================
