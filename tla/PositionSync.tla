---------------------------- MODULE PositionSync ----------------------------
(***************************************************************************)
(* PositionSyncFeed: the positions table as a mirror of the account, and   *)
(* the POSITION_UPDATED events that tell the dashboard what changed.       *)
(*                                                                         *)
(* A sync writes its rows one execute() at a time on the connection that   *)
(* all tasks of the process share, and commits once at the end.  So the    *)
(* table is two values: what the connection sees, and what is committed.   *)
(* A holding (quantity and average price) is a number, 0 for no holding.   *)
(***************************************************************************)
EXTENDS Integers

CONSTANTS
  Symbols,
  NoRow,           \* the table has no row for the symbol
  MaxHolding,      \* bound: holdings are 0..MaxHolding
  MaxTrades,       \* bound: trades in the account
  MaxReadFaults,   \* bound: failed get_balance calls
  MaxWriteFaults,  \* bound: failed statements and commits
  MaxCrashes       \* bound: restarts of the process

Holdings == 0 .. MaxHolding

ASSUME PositionAssumption ==
  /\ NoRow \notin Holdings /\ MaxHolding \in Nat
  /\ MaxTrades \in Nat /\ MaxReadFaults \in Nat /\ MaxWriteFaults \in Nat /\ MaxCrashes \in Nat

VARIABLES
  account,      \* what the broker holds
  work, db,     \* positions: as the connection sees it, and committed
  pc,           \* the sync: "idle", "writing", "committed"
  balance,      \* the answer of get_balance
  before,       \* the rows read before the first write
  live, stale,  \* symbols still to be upserted, and to be set to 0
  changes,      \* the PositionUpdates gathered
  told,         \* what a dashboard knows that follows the events
  failures,     \* _consecutive_failures, up to the threshold
  trades, readFaults, writeFaults, crashes

sync   == <<pc, balance, before, live, stale, changes>>
budget == <<trades, readFaults, writeFaults, crashes>>
vars   == <<account, work, db, sync, told, failures, budget>>

None == [s \in Symbols |-> 0]
Held(rows) == [s \in Symbols |-> IF rows[s] = NoRow THEN 0 ELSE rows[s]]

(* _CONSECUTIVE_FAILURE_ALERT_THRESHOLD                                    *)
Threshold == 3

Init ==
  /\ account \in [Symbols -> Holdings]
  /\ work = [s \in Symbols |-> NoRow] /\ db = work
  /\ pc = "idle" /\ balance = None /\ before = work
  /\ live = {} /\ stale = {} /\ changes = {}
  /\ told = None /\ failures = 0
  /\ trades = 0 /\ readFaults = 0 /\ writeFaults = 0 /\ crashes = 0

(* The user or the bot trades.                                             *)
Trade(s) ==
  /\ trades < MaxTrades /\ trades' = trades + 1
  /\ \E h \in Holdings \ {account[s]} : account' = [account EXCEPT ![s] = h]
  /\ UNCHANGED <<work, db, sync, told, failures, readFaults, writeFaults, crashes>>

(* Some other task commits on the shared connection.                       *)
OtherCommit ==
  /\ work # db /\ db' = work
  /\ UNCHANGED <<account, work, sync, told, failures, budget>>

(* run() catches what sync_once raises: nothing is rolled back.            *)
Abandon ==
  /\ pc' = "idle" /\ live' = {} /\ stale' = {} /\ changes' = {}
  /\ failures' = IF failures < Threshold THEN failures + 1 ELSE failures
  /\ UNCHANGED <<balance, before>>

WriteFault ==
  /\ writeFaults < MaxWriteFaults /\ writeFaults' = writeFaults + 1
  /\ Abandon
  /\ UNCHANGED <<account, work, db, told, trades, readFaults, crashes>>

(* get_balance answers and the rows are read, or it fails.                 *)
Fetch ==
  /\ pc = "idle"
  /\ \/ /\ balance' = account /\ before' = work
        /\ live' = {s \in Symbols : account[s] > 0}
        /\ stale' = {s \in Symbols : work[s] # NoRow /\ work[s] # 0 /\ account[s] = 0}
        /\ pc' = "writing"
        /\ UNCHANGED <<changes, failures, budget>>
     \/ /\ readFaults < MaxReadFaults /\ readFaults' = readFaults + 1
        /\ Abandon
        /\ UNCHANGED <<trades, writeFaults, crashes>>
  /\ UNCHANGED <<account, work, db, told>>

(* Mutant: the event carries what the table held before.                   *)
Change_OldHolding(s, kind) == [symbol |-> s, holding |-> before[s], kind |-> kind]

(* A PositionUpdate.                                                       *)
Change(s, kind) == [symbol |-> s, holding |-> balance[s], kind |-> kind]

(* Mutant: a change is told against the broker, not against the table.     *)
Upsert_NewOnly(s) ==
  /\ pc = "writing" /\ s \in live
  /\ work' = [work EXCEPT ![s] = balance[s]]
  /\ live' = live \ {s}
  /\ changes' = IF before[s] = NoRow THEN changes \cup {Change(s, "opened")} ELSE changes
  /\ UNCHANGED <<account, db, pc, balance, before, stale, told, failures, budget>>

(* INSERT ... ON CONFLICT DO UPDATE for a symbol the broker holds, and the *)
(* event if the row is new or differs.                                     *)
Upsert(s) ==
  /\ pc = "writing" /\ s \in live
  /\ work' = [work EXCEPT ![s] = balance[s]]
  /\ live' = live \ {s}
  /\ changes' = CASE before[s] = NoRow -> changes \cup {Change(s, "opened")}
                  [] before[s] # NoRow /\ before[s] # balance[s] -> changes \cup {Change(s, "updated")}
                  [] OTHER -> changes
  /\ UNCHANGED <<account, db, pc, balance, before, stale, told, failures, budget>>

(* Mutant: positions that are gone are left as they are.                   *)
Liquidate_Skipped(s) ==
  /\ pc = "writing" /\ live = {} /\ s \in stale
  /\ stale' = stale \ {s}
  /\ UNCHANGED <<account, work, changes, db, pc, balance, before, live, told, failures, budget>>

(* UPDATE ... SET qty = 0 for a row whose symbol the broker holds no more. *)
Liquidate(s) ==
  /\ pc = "writing" /\ live = {} /\ s \in stale
  /\ work' = [work EXCEPT ![s] = 0]
  /\ stale' = stale \ {s}
  /\ changes' = changes \cup {Change(s, "closed")}
  /\ UNCHANGED <<account, db, pc, balance, before, live, told, failures, budget>>

Commit ==
  /\ pc = "writing" /\ live = {} /\ stale = {}
  /\ db' = work
  /\ pc' = "committed"
  /\ UNCHANGED <<account, work, balance, before, live, stale, changes, told, failures, budget>>

(* A statement or the commit fails: what was executed so far stays in the  *)
(* connection's open transaction.                                          *)
WriteFails == pc = "writing" /\ WriteFault

(* The changes are published in one go.                                    *)
Publish ==
  /\ pc = "committed"
  /\ told' = [s \in Symbols |->
                IF \E c \in changes : c.symbol = s THEN balance[s] ELSE told[s]]
  /\ changes' = {} /\ pc' = "idle" /\ failures' = 0
  /\ UNCHANGED <<account, work, db, balance, before, live, stale, budget>>

(* The process starts again on the committed table; the dashboard connects *)
(* anew and loads GET /positions.                                          *)
Restart ==
  /\ crashes < MaxCrashes /\ crashes' = crashes + 1
  /\ work' = db /\ told' = Held(db)
  /\ pc' = "idle" /\ live' = {} /\ stale' = {} /\ changes' = {} /\ failures' = 0
  /\ UNCHANGED <<account, db, balance, before, trades, readFaults, writeFaults>>

SyncStep ==
  \/ Fetch
  \/ \E s \in Symbols : Upsert(s) \/ Liquidate(s)
  \/ Commit \/ WriteFails \/ Publish

Next == SyncStep \/ (\E s \in Symbols : Trade(s)) \/ OtherCommit \/ Restart

(* run() polls as long as it is not stopped.                               *)
Spec == Init /\ [][Next]_vars
FairSpec == Spec /\ WF_vars(SyncStep)

-----------------------------------------------------------------------------
(* Properties                                                              *)

Rows == [Symbols -> Holdings \cup {NoRow}]

(* Every variable has its type.                                            *)
TypeOK ==
  /\ account \in [Symbols -> Holdings] /\ balance \in [Symbols -> Holdings]
  /\ told \in [Symbols -> Holdings]
  /\ work \in Rows /\ db \in Rows /\ before \in Rows
  /\ pc \in {"idle", "writing", "committed"}
  /\ live \subseteq Symbols /\ stale \subseteq Symbols
  /\ changes \subseteq [symbol : Symbols, holding : Holdings,
                        kind : {"opened", "updated", "closed"}]
  /\ failures \in 0 .. Threshold
  /\ trades \in 0 .. MaxTrades /\ readFaults \in 0 .. MaxReadFaults
  /\ writeFaults \in 0 .. MaxWriteFaults /\ crashes \in 0 .. MaxCrashes

(* The POSITION_UPDATED events tell every change of the table (module      *)
(* docstring of position_sync.py): between two syncs a dashboard that only *)
(* follows the events knows the committed positions.  This holds as long   *)
(* as no statement has failed: failed reads, restarts and the commits of   *)
(* other tasks between two statements hide nothing.  Publish ends at the   *)
(* bus: what a full bus or a full queue of the dashboard drops afterwards  *)
(* (bus.py:78, stream.py) is told by Messaging.                            *)
EventsTellTableUnlessTorn == writeFaults = 0 /\ pc = "idle" => told = Held(db)

(* The inductive invariant, as long as no statement has failed.  Between   *)
(* two syncs nothing is uncommitted and the events have told the table.    *)
(* During one the dashboard knows the rows read before the first write; a  *)
(* symbol still to be written has its old row and no event, one that is    *)
(* done has the broker's holding and an event, or is what it was.          *)
Told(s) == \E c \in changes : c.symbol = s
Pending(s) == work[s] = before[s] /\ ~Told(s)
Done(s) == Held(work)[s] = IF Told(s) THEN balance[s] ELSE Held(before)[s]

SyncInv ==
  /\ pc = "idle" => changes = {}
  /\ pc # "writing" => live = {} /\ stale = {}
  /\ writeFaults = 0 =>
       IF pc = "idle" THEN work = db /\ told = Held(db)
       ELSE /\ told = Held(before)
            /\ \A s \in live : balance[s] > 0 /\ Pending(s)
            /\ \A s \in stale : before[s] # NoRow /\ balance[s] = 0 /\ Pending(s)
            /\ \A s \in Symbols \ (live \cup stale) : Done(s)
            /\ pc = "committed" => work = db

IInv == TypeOK /\ SyncInv

(* The broker is the source of truth: whatever the account holds comes to  *)
(* be what the table says, unless it changes again, after any failed read, *)
(* torn sync or restart.                                                   *)
TableFollowsAccount ==
  \A h \in [Symbols -> Holdings] : (account = h) ~> (Held(db) = h \/ account # h)

=============================================================================
