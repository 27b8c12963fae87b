------------------------- MODULE PositionSync_proofs -------------------------
(***************************************************************************)
(* The events of PositionSyncFeed tell every change of the table, for any  *)
(* symbols and holdings, and any number of trades, failed reads, foreign   *)
(* commits and restarts, as long as no statement fails.                    *)
(***************************************************************************)
EXTENDS PositionSync, TLAPS

USE DEF Holdings

(* A holding is a number, and no row is none.                              *)
LEMMA HeldIsHolding ==
  ASSUME NEW rows \in Rows
  PROVE  /\ Held(rows) \in [Symbols -> Holdings]
         /\ \A s \in Symbols : Held(rows)[s] = IF rows[s] = NoRow THEN 0 ELSE rows[s]
  BY PositionAssumption DEF Rows, Held

(***************************************************************************)
(* Types                                                                   *)
(***************************************************************************)
LEMMA InitTyped == Init => TypeOK
  BY PositionAssumption DEF Init, TypeOK, Rows, None, Threshold

LEMMA AbandonTyped ==
  ASSUME TypeOK, Abandon
  PROVE  /\ pc' \in {"idle", "writing", "committed"} /\ balance' \in [Symbols -> Holdings]
         /\ before' \in Rows /\ live' \subseteq Symbols /\ stale' \subseteq Symbols
         /\ changes' = {} /\ failures' \in 0 .. Threshold
  BY DEF TypeOK, Abandon, Threshold

LEMMA ChangeTyped ==
  ASSUME TypeOK, NEW s \in Symbols, NEW kind \in {"opened", "updated", "closed"}
  PROVE  Change(s, kind) \in [symbol : Symbols, holding : Holdings, kind : {"opened", "updated", "closed"}]
  BY DEF Change, TypeOK

LEMMA NextTyped == TypeOK /\ [Next]_vars => TypeOK'
<1> SUFFICES ASSUME TypeOK, [Next]_vars PROVE TypeOK'
  OBVIOUS
<1>1. CASE Fetch
  <2>1. CASE balance' = account /\ before' = work /\ UNCHANGED <<changes, failures, budget>>
             /\ live' = {s \in Symbols : account[s] > 0} /\ pc' = "writing"
             /\ stale' = {s \in Symbols : work[s] # NoRow /\ work[s] # 0 /\ account[s] = 0}
    BY <1>1, <2>1 DEF Fetch, TypeOK, budget
  <2>2. CASE readFaults < MaxReadFaults /\ readFaults' = readFaults + 1 /\ Abandon
             /\ UNCHANGED <<trades, writeFaults, crashes>>
    <3>1. readFaults' \in 0 .. MaxReadFaults
      BY <2>2, PositionAssumption DEF TypeOK
    <3> QED
      BY <1>1, <2>2, <3>1, AbandonTyped DEF Fetch, TypeOK
  <2> QED
    BY <1>1, <2>1, <2>2 DEF Fetch
<1>2. ASSUME NEW s \in Symbols, Upsert(s) PROVE TypeOK'
  <2>1. work' \in Rows
    BY <1>2 DEF Upsert, TypeOK, Rows
  <2>2. changes' \subseteq changes \cup {Change(s, "opened"), Change(s, "updated")}
    BY <1>2 DEF Upsert
  <2> QED
    BY <1>2, <2>1, <2>2, ChangeTyped DEF Upsert, TypeOK, budget
<1>3. ASSUME NEW s \in Symbols, Liquidate(s) PROVE TypeOK'
  <2>1. work' \in Rows
    BY <1>3, PositionAssumption DEF Liquidate, TypeOK, Rows
  <2> QED
    BY <1>3, <2>1, ChangeTyped DEF Liquidate, TypeOK, budget
<1>4. CASE Commit
  BY <1>4 DEF Commit, TypeOK, budget
<1>5. CASE WriteFails
  <2>1. writeFaults' \in 0 .. MaxWriteFaults
    BY <1>5, PositionAssumption DEF TypeOK, WriteFails, WriteFault
  <2> QED
    BY <1>5, <2>1, AbandonTyped DEF WriteFails, WriteFault, TypeOK
<1>6. CASE Publish
  <2>1. told' \in [Symbols -> Holdings]
    BY <1>6 DEF Publish, TypeOK
  <2> QED
    BY <1>6, <2>1 DEF Publish, TypeOK, budget, Threshold
<1>7. ASSUME NEW s \in Symbols, Trade(s) PROVE TypeOK'
  <2>1. account' \in [Symbols -> Holdings] /\ trades' \in 0 .. MaxTrades
    BY <1>7, PositionAssumption DEF Trade, TypeOK
  <2> QED
    BY <1>7, <2>1 DEF Trade, TypeOK, sync
<1>8. CASE OtherCommit
  BY <1>8 DEF OtherCommit, TypeOK, sync, budget
<1>9. CASE Restart
  <2>1. told' \in [Symbols -> Holdings]
    BY <1>9, HeldIsHolding DEF Restart, TypeOK
  <2>2. crashes' \in 0 .. MaxCrashes
    BY <1>9, PositionAssumption DEF Restart, TypeOK
  <2> QED
    BY <1>9, <2>1, <2>2 DEF Restart, TypeOK, Threshold
<1>10. CASE UNCHANGED vars
  BY <1>10 DEF vars, sync, budget, TypeOK
<1> QED
  BY <1>1, <1>2, <1>3, <1>4, <1>5, <1>6, <1>7, <1>8, <1>9, <1>10 DEF Next, SyncStep

(* The table, the feed and the dashboard's knowledge keep their types.     *)
THEOREM SyncTyping == Spec => []TypeOK
  BY InitTyped, NextTyped, PTL DEF Spec

(***************************************************************************)
(* The events                                                              *)
(***************************************************************************)
LEMMA InitTells == Init => SyncInv
<1> SUFFICES ASSUME Init PROVE SyncInv
  OBVIOUS
<1>1. told = Held(db)
  BY DEF Init, None, Held
<1> QED
  BY <1>1 DEF Init, SyncInv

\* Writing s, with an event or none.
Writes(s) ==
  /\ pc = "writing" /\ pc' = "writing" /\ UNCHANGED <<balance, before, told, writeFaults>>
  /\ s \in live \cup stale
  /\ live' = live \ {s} /\ stale' = stale \ {s}
  /\ work' = [work EXCEPT ![s] = balance[s]]
  /\ \/ \E kind \in {"opened", "updated", "closed"} : changes' = changes \cup {Change(s, kind)}
     \/ changes' = changes /\ before[s] = balance[s]

(* An upsert and a liquidation are such writes: the first has a holding    *)
(* above zero, the second of zero.                                         *)
LEMMA StatementWrites ==
  ASSUME IInv, writeFaults = 0, NEW s \in Symbols, Upsert(s) \/ Liquidate(s)
  PROVE  Writes(s)
<1>1. \A t \in Symbols : balance[t] \in Nat
  BY DEF IInv, TypeOK
<1>2. CASE Upsert(s)
  <2>1. s \notin stale
    BY <1>1, <1>2 DEF IInv, SyncInv, Upsert
  <2> QED
    BY <1>2, <2>1 DEF Upsert, Writes, budget
<1>3. CASE Liquidate(s)
  <2>1. balance[s] = 0
    BY <1>3 DEF IInv, SyncInv, Liquidate
  <2> QED
    BY <1>3, <2>1 DEF Liquidate, Writes, budget
<1> QED
  BY <1>2, <1>3

LEMMA WriteTells ==
  ASSUME IInv, writeFaults = 0, NEW s \in Symbols, Writes(s)
  PROVE  SyncInv'
<1> USE DEF Writes
<1>1. /\ work \in Rows /\ before \in Rows /\ balance \in [Symbols -> Holdings]
      /\ live \subseteq Symbols /\ stale \subseteq Symbols
  BY DEF IInv, TypeOK
<1>2. work' \in Rows
  BY <1>1 DEF Rows
<1>3. \A t \in Symbols \ {s} : work'[t] = work[t] /\ (Told(t)' <=> Told(t))
  <2>1. \A kind : Change(s, kind).symbol = s
    BY DEF Change
  <2>2. \A t \in Symbols \ {s} : work'[t] = work[t]
    BY <1>1 DEF Rows
  <2>3. \A t \in Symbols \ {s} : Told(t)' <=> Told(t)
    <3>1. CASE changes' = changes
      BY <3>1 DEF Told
    <3>2. ASSUME NEW kind \in {"opened", "updated", "closed"}, changes' = changes \cup {Change(s, kind)}
          PROVE  \A t \in Symbols \ {s} : Told(t)' <=> Told(t)
      BY <2>1, <3>2 DEF Told
    <3> QED
      BY <3>1, <3>2
  <2> QED
    BY <2>2, <2>3
<1>4. Done(s)'
  <2>1. work'[s] = balance[s] /\ balance[s] # NoRow
    BY <1>1, PositionAssumption DEF Rows
  <2>4. Held(work')[s] = balance[s]
    BY <2>1 DEF Held
  <2>2. CASE \E kind \in {"opened", "updated", "closed"} : changes' = changes \cup {Change(s, kind)}
    <3>2. PICK kind \in {"opened", "updated", "closed"} : changes' = changes \cup {Change(s, kind)}
      BY <2>2
    <3>3. Change(s, kind) \in changes' /\ Change(s, kind).symbol = s
      BY <3>2 DEF Change
    <3>1. Told(s)'
      BY <3>3 DEF Told
    <3> QED
      BY <2>4, <3>1 DEF Done
  <2>3. CASE changes' = changes /\ before[s] = balance[s]
    <3>1. Held(before)[s] = balance[s]
      BY <1>1, <2>3, HeldIsHolding, PositionAssumption
    <3> QED
      BY <2>4, <3>1 DEF Done
  <2> QED
    BY <2>2, <2>3
<1>5. \A t \in Symbols \ (live' \cup stale') : Done(t)'
  <2>1. ASSUME NEW t \in Symbols \ (live' \cup stale'), t # s PROVE Done(t)'
    <3>1. Done(t)
      BY <2>1 DEF IInv, SyncInv
    <3>2. Held(work')[t] = Held(work)[t]
      <4>1. work'[t] = work[t] /\ t \in Symbols
        BY <1>3, <2>1
      <4>2. Held(work')[t] = IF work'[t] = NoRow THEN 0 ELSE work'[t]
        BY <1>2, <4>1, HeldIsHolding
      <4>3. Held(work)[t] = IF work[t] = NoRow THEN 0 ELSE work[t]
        BY <1>1, <4>1, HeldIsHolding
      <4> QED
        BY <4>1, <4>2, <4>3
    <3> QED
      BY <1>3, <2>1, <3>1, <3>2 DEF Done
  <2> QED
    BY <1>4, <2>1
<1>6. (\A t \in live' : balance'[t] > 0 /\ Pending(t)')
      /\ (\A t \in stale' : before'[t] # NoRow /\ balance'[t] = 0 /\ Pending(t)')
  BY <1>1, <1>3 DEF IInv, SyncInv, Pending
<1> QED
  BY <1>5, <1>6 DEF IInv, SyncInv

(* The dashboard knows the old rows; with the events it knows the new.     *)
LEMMA PublishTells ==
  ASSUME IInv, writeFaults = 0, Publish
  PROVE  SyncInv'
<1>1. /\ told = Held(before) /\ live = {} /\ stale = {} /\ work = db
      /\ \A s \in Symbols : Done(s)
  BY DEF IInv, SyncInv, Publish
<1>2. told' = [s \in Symbols |-> IF Told(s) THEN balance[s] ELSE told[s]]
  BY DEF Publish, Told
<1>3. \A s \in Symbols : told'[s] = Held(work)[s]
  BY <1>1, <1>2 DEF Done
<1>4. told' = Held(db)
  BY <1>1, <1>2, <1>3 DEF Held
<1> QED
  BY <1>1, <1>4 DEF Publish, SyncInv, budget, Held

LEMMA FetchTells ==
  ASSUME IInv, writeFaults = 0, Fetch
  PROVE  SyncInv'
<1>1. live = {} /\ stale = {} /\ changes = {} /\ work = db /\ told = Held(db)
  BY DEF IInv, SyncInv, Fetch
<1>2. CASE Abandon
  BY <1>1, <1>2 DEF Abandon, Fetch, SyncInv, Held
<1>3. CASE /\ balance' = account /\ before' = work
           /\ live' = {s \in Symbols : account[s] > 0}
           /\ stale' = {s \in Symbols : work[s] # NoRow /\ work[s] # 0 /\ account[s] = 0}
           /\ pc' = "writing" /\ UNCHANGED <<changes, failures, budget>>
  <2>1. UNCHANGED <<account, work, db, told>>
    BY DEF Fetch
  <2>2. \A s \in Symbols : ~Told(s)'
    BY <1>1, <1>3 DEF Told
  <2>3. \A s \in Symbols : Done(s)'
    BY <1>3, <2>1, <2>2 DEF Done, Held
  <2>4. told' = Held(before')
    BY <1>1, <1>3, <2>1
  <2> QED
    BY <1>3, <2>1, <2>2, <2>3, <2>4 DEF SyncInv, Pending, Held
<1> QED
  BY <1>2, <1>3 DEF Fetch

LEMMA NextTells == IInv /\ [Next]_vars => SyncInv'
<1> SUFFICES ASSUME IInv, [Next]_vars PROVE SyncInv'
  OBVIOUS
<1> USE DEF IInv
<1>1. CASE Fetch
  <2>1. CASE writeFaults = 0
    BY <1>1, <2>1, FetchTells
  <2>2. CASE writeFaults # 0
    BY <1>1, <2>2 DEF Fetch, Abandon, SyncInv, budget
  <2> QED
    BY <2>1, <2>2
<1>2. ASSUME NEW s \in Symbols, Upsert(s) \/ Liquidate(s) PROVE SyncInv'
  <2>1. CASE writeFaults = 0
    BY <1>2, <2>1, StatementWrites, WriteTells
  <2>2. CASE writeFaults # 0
    BY <1>2, <2>2 DEF Upsert, Liquidate, SyncInv, budget
  <2> QED
    BY <2>1, <2>2
<1>3. CASE Commit
  <2>1. \A s \in Symbols : Done(s)' <=> Done(s)
    BY <1>3 DEF Commit, Done, Told, Held
  <2> QED
    BY <1>3, <2>1 DEF Commit, SyncInv, budget, Pending, Held
<1>4. CASE WriteFails
  BY <1>4 DEF WriteFails, WriteFault, Abandon, SyncInv, TypeOK
<1>5. CASE Publish
  <2>1. CASE writeFaults = 0
    BY <1>5, <2>1, PublishTells
  <2>2. CASE writeFaults # 0
    BY <1>5, <2>2 DEF Publish, SyncInv, budget
  <2> QED
    BY <2>1, <2>2
<1>6. CASE OtherCommit
  <2>1. \A s \in Symbols : (Done(s)' <=> Done(s)) /\ (Pending(s)' <=> Pending(s))
    BY <1>6 DEF OtherCommit, sync, Done, Pending, Told, Held
  <2> QED
    BY <1>6, <2>1 DEF OtherCommit, sync, budget, SyncInv, Held, TypeOK
<1>7. CASE Restart
  BY <1>7 DEF Restart, SyncInv, Held
<1>8. CASE (\E s \in Symbols : Trade(s)) \/ UNCHANGED vars
  <2>1. UNCHANGED <<work, db, pc, balance, before, live, stale, changes, told, writeFaults>>
    BY <1>8 DEF Trade, vars, sync, budget
  <2>2. \A s \in Symbols : (Done(s)' <=> Done(s)) /\ (Pending(s)' <=> Pending(s))
    BY <2>1 DEF Done, Pending, Told, Held
  <2> QED
    BY <2>1, <2>2 DEF SyncInv, Held, TypeOK
<1> QED
  BY <1>1, <1>2, <1>3, <1>4, <1>5, <1>6, <1>7, <1>8 DEF Next, SyncStep

(* Between two syncs a dashboard that follows the events knows the         *)
(* committed positions, as long as no statement has failed: whatever       *)
(* trades, failed reads, commits of other tasks and restarts come between. *)
THEOREM EventsTell == Spec => []EventsTellTableUnlessTorn
<1>1. Init => IInv
  BY InitTyped, InitTells DEF IInv
<1>2. IInv /\ [Next]_vars => IInv'
  BY NextTyped, NextTells DEF IInv
<1>3. IInv => EventsTellTableUnlessTorn
  BY DEF IInv, SyncInv, EventsTellTableUnlessTorn
<1> QED
  BY <1>1, <1>2, <1>3, PTL DEF Spec

=============================================================================
