--------------------- MODULE TransactionTracking_proofs ---------------------
(***************************************************************************)
(* Proofs about the module TransactionTracking: the types, and that every  *)
(* entry of the polls table belongs to a running poll.                     *)
(***************************************************************************)
EXTENDS TransactionTracking, TLAPS

\* The inductive invariant: with the types, EntriesOwned is inductive as it is.
Inv == TypeOK /\ EntriesOwned

Counters == {"sends", "syncs", "stops", "faults"}
PollSteps == {"sleep", "gateway", "lookup", "delete", "rename", "write", "post", "load", "stop"}

\* A poll that is at one of its steps is a running poll, not a gone one.
LEMMA AtRunning ==
    ASSUME TypeOK, NEW p \in Polls, poll[p].at \in PollSteps
    PROVE  poll[p] \in Running /\ poll[p] # Gone
<1>1. Gone.at = "gone"
  BY DEF Gone
<1>2. poll[p] # Gone
  BY <1>1 DEF PollSteps
<1> QED
  BY <1>2 DEF TypeOK

\* No running poll looks like a gone one.
LEMMA RunningNotGone == \A r \in Running : r # Gone
<1>1. Gone.at = "gone"
  BY DEF Gone
<1> QED
  BY <1>1 DEF Running

\* What a poll knows of its transaction is well typed between two updates.
LEMMA SleepingTyped ==
    ASSUME NEW x, x.w \in Wallets, x.id \in Ids, x.st \in TransactionState
    PROVE  /\ Sleeping(x) \in Running
           /\ \A step \in PollSteps, to \in Ids : [Sleeping(x) EXCEPT !.at = step, !.to = to] \in Running
           /\ \A step \in PollSteps : [Sleeping(x) EXCEPT !.at = step] \in Running
BY Zenon DEF Sleeping, Running, PollSteps

\* A poll that goes on keeps its entries.
LEMMA BecomeRunning ==
    ASSUME Inv, NEW p \in Polls, NEW r \in Running, Become(p, r), UNCHANGED owner
    PROVE  poll' \in [Polls -> Running \union {Gone}] /\ EntriesOwned'
<1>1. poll' = [poll EXCEPT ![p] = r] /\ poll \in [Polls -> Running \union {Gone}]
  BY DEF Become, Inv, TypeOK
<1>2. poll' \in [Polls -> Running \union {Gone}] /\ poll'[p] # Gone
  BY <1>1, RunningNotGone
<1>3. \A q \in Polls : poll[q] # Gone => poll'[q] # Gone
  BY <1>1, <1>2
<1>4. ASSUME NEW i \in Ids, owner'[i] # None PROVE poll'[owner'[i]] # Gone
  <2>1. owner[i] \in Polls /\ poll[owner[i]] # Gone /\ owner'[i] = owner[i]
    BY <1>4 DEF Inv, EntriesOwned, TypeOK
  <2> QED
    BY <1>3, <2>1
<1> QED
  BY <1>2, <1>4 DEF EntriesOwned

\* TrackedTransactions::drop removes every entry of the poll, so the poll may go.
LEMMA Released ==
    ASSUME Inv, NEW p \in Polls, release(p)
    PROVE  /\ poll' \in [Polls -> Running \union {Gone}]
           /\ owner' \in [Ids -> Polls \union {None}]
           /\ EntriesOwned'
<1>1. /\ poll \in [Polls -> Running \union {Gone}] /\ owner \in [Ids -> Polls \union {None}]
      /\ owner' = [i \in Ids |-> IF owner[i] = p THEN None ELSE owner[i]]
      /\ poll' = [poll EXCEPT ![p] = Gone]
  BY DEF release, Inv, TypeOK
<1>2. ASSUME NEW i \in Ids, owner'[i] # None PROVE poll'[owner'[i]] # Gone
  <2>1. owner[i] # p /\ owner[i] # None /\ owner'[i] = owner[i] /\ owner[i] \in Polls
    BY <1>1, <1>2
  <2>2. poll[owner[i]] # Gone
    BY <2>1 DEF Inv, EntriesOwned
  <2> QED
    BY <1>1, <2>1, <2>2
<1> QED
  BY <1>1, <1>2 DEF EntriesOwned

\* The counters stay numbers.
LEMMA BumpTyped ==
    ASSUME TypeOK, NEW what \in Counters, NEW max, Bump(what, max)
    PROVE  count' \in [Counters -> Nat]
BY DEF TypeOK, Bump, Counters

\* Storing a state keeps the table of rows well typed.
LEMMA StoreTyped ==
    ASSUME TypeOK, NEW w \in Wallets, NEW i \in Ids, NEW s \in TransactionState \union {NoRow}, Store(w, i, s)
    PROVE  rows' \in [Wallets -> [Ids -> TransactionState \union {NoRow}]]
BY DEF TypeOK, Store

\* A step that leaves the polls and their table alone keeps EntriesOwned.
LEMMA OwnedFrame ==
    ASSUME Inv, UNCHANGED <<poll, owner>>
    PROVE  EntriesOwned'
BY DEF Inv, EntriesOwned

-----------------------------------------------------------------------------
(* The steps of a poll.                                                    *)

\* The fields of a poll at one of its steps.
LEMMA Fields ==
    ASSUME TypeOK, NEW p \in Polls, poll[p].at \in PollSteps
    PROVE  /\ poll[p].w \in Wallets /\ poll[p].id \in Ids /\ poll[p].to \in Ids
           /\ poll[p].st \in TransactionState /\ poll[p].cur \in TransactionState
           /\ \A step \in PollSteps : [poll[p] EXCEPT !.at = step] \in Running
           /\ Sleeping(poll[p]) \in Running
<1>1. poll[p] \in Running
  BY AtRunning
<1>2. /\ poll[p].w \in Wallets /\ poll[p].id \in Ids /\ poll[p].to \in Ids
      /\ poll[p].st \in TransactionState /\ poll[p].cur \in TransactionState
  BY <1>1 DEF Running
<1>3. \A step \in PollSteps : [poll[p] EXCEPT !.at = step] \in Running
  BY <1>1 DEF Running, PollSteps
<1> QED
  BY <1>2, <1>3, SleepingTyped, Zenon

\* poll: after its sleep the poll asks the node, or ends when it was cancelled.
LEMMA WakeStep == ASSUME Inv, NEW p \in Polls, Wake(p) PROVE Inv'
<1>1. poll[p].at \in PollSteps
  BY DEF Wake, At, PollSteps
<1>2. TypeOK
  BY DEF Inv
<1>3. CASE is_tracking(p)
  <2>1. Become(p, [poll[p] EXCEPT !.at = "gateway"]) /\ UNCHANGED owner
    BY <1>3 DEF Wake, Goto
  <2>2. [poll[p] EXCEPT !.at = "gateway"] \in Running
    BY <1>1, <1>2, Fields, Zenon DEF PollSteps
  <2> QED
    BY <2>1, <2>2, BecomeRunning DEF Inv, TypeOK, Wake
<1>4. CASE ~is_tracking(p)
  BY <1>4, Released DEF Inv, TypeOK, Wake
<1> QED
  BY <1>3, <1>4

\* apply after a failed request: a failed state is written when the timeout
\* passed, and otherwise the poll sleeps again.
LEMMA GatewayErrorStep == ASSUME Inv, NEW p \in Polls, GatewayError(p) PROVE Inv'
<1>1. poll[p].at \in PollSteps /\ TypeOK
  BY DEF GatewayError, At, PollSteps, Inv
<1>2. poll[p] \in Running /\ Sleeping(poll[p]) \in Running
  BY <1>1, AtRunning, Fields
<1>3. [poll[p] EXCEPT !.at = "write", !.late = TRUE] \in Running
  BY <1>2, Zenon DEF Running
<1>4. \E r \in Running : Become(p, r)
  BY <1>2, <1>3 DEF GatewayError, Sleep
<1> QED
  BY <1>4, BecomeRunning DEF Inv, TypeOK, GatewayError

\* The node's answer: the poll looks up a replaced hash, or writes at once.
LEMMA GatewayUpdateStep == ASSUME Inv, NEW p \in Polls, NEW hash \in Ids, GatewayUpdate(p, hash) PROVE Inv'
<1>1. poll[p].at \in PollSteps /\ TypeOK
  BY DEF GatewayUpdate, At, PollSteps, Inv
<1>2. poll[p] \in Running
  BY <1>1, AtRunning
<1>3. \A step \in PollSteps, late \in BOOLEAN : [poll[p] EXCEPT !.at = step, !.to = hash, !.late = late] \in Running
  BY <1>2, Zenon DEF Running, PollSteps
<1>4. has_timed_out(poll[p].id, poll[p].st) \in BOOLEAN
  BY DEF has_timed_out
<1>5. \E step \in PollSteps, late \in BOOLEAN : Become(p, [poll[p] EXCEPT !.at = step, !.to = hash, !.late = late])
  <2>1. "write" \in PollSteps /\ "lookup" \in PollSteps
    BY DEF PollSteps
  <2> QED
    BY <1>4, <2>1, Zenon DEF GatewayUpdate
<1>6. \E r \in Running : Become(p, r)
  BY <1>3, <1>5, Zenon
<1> QED
  BY <1>6, BecomeRunning DEF Inv, TypeOK, GatewayUpdate

\* rename reads the row of the new hash.
LEMMA GetStateStep == ASSUME Inv, NEW p \in Polls, GetState(p) PROVE Inv'
<1>1. poll[p].at \in PollSteps /\ TypeOK
  BY DEF GetState, At, PollSteps, Inv
<1>2. poll[p] \in Running /\ poll[p].w \in Wallets /\ poll[p].to \in Ids
  BY <1>1, AtRunning, Fields
<1>3. DEFINE existing == rows[poll[p].w][poll[p].to]
<1>4. existing \in TransactionState \union {NoRow}
  BY <1>1, <1>2 DEF TypeOK
<1>5. [poll[p] EXCEPT !.at = "rename"] \in Running
  BY <1>2 DEF Running
<1>6. existing # NoRow => [poll[p] EXCEPT !.at = "delete", !.cur = existing] \in Running
  BY <1>2, <1>4, Zenon DEF Running
<1>7. \E r \in Running : Become(p, r)
  BY <1>5, <1>6 DEF GetState
<1> QED
  BY <1>7, BecomeRunning DEF Inv, TypeOK, GetState

\* rename deletes the old row when one with the new hash exists.
LEMMA DeleteTransactionStep == ASSUME Inv, NEW p \in Polls, DeleteTransaction(p) PROVE Inv'
<1>1. poll[p].at \in PollSteps /\ TypeOK
  BY DEF DeleteTransaction, At, PollSteps, Inv
<1>2. poll[p].w \in Wallets /\ poll[p].id \in Ids
  BY <1>1, Fields
<1>3. [poll[p] EXCEPT !.at = "write"] \in Running
  BY <1>1, Fields, Zenon DEF PollSteps
<1>4. rows' \in [Wallets -> [Ids -> TransactionState \union {NoRow}]]
  BY <1>1, <1>2, StoreTyped DEF DeleteTransaction
<1>5. poll' \in [Polls -> Running \union {Gone}] /\ EntriesOwned'
  BY <1>3, BecomeRunning DEF DeleteTransaction, Goto
<1> QED
  BY <1>4, <1>5 DEF Inv, TypeOK, DeleteTransaction

\* rename_transaction moves the row to the new hash, and the age with it.
LEMMA RenameTransactionStep == ASSUME Inv, NEW p \in Polls, RenameTransaction(p) PROVE Inv'
<1>1. poll[p].at \in PollSteps /\ TypeOK
  BY DEF RenameTransaction, At, PollSteps, Inv
<1>2. poll[p].w \in Wallets /\ poll[p].id \in Ids /\ poll[p].to \in Ids /\ Sleeping(poll[p]) \in Running
  BY <1>1, Fields
<1>3. [poll[p] EXCEPT !.at = "write"] \in Running
  BY <1>1, Fields, Zenon DEF PollSteps
<1>4. DEFINE x == poll[p]
             old == rows[x.w][x.id]
<1>5. old \in TransactionState \union {NoRow}
  BY <1>1, <1>2 DEF TypeOK
<1>6. CASE old # NoRow /\ rows[x.w][x.to] # NoRow
  <2>1. Become(p, Sleeping(poll[p])) /\ UNCHANGED <<rows, expired>>
    BY <1>6 DEF RenameTransaction, Sleep
  <2> QED
    BY <1>2, <2>1, BecomeRunning DEF Inv, TypeOK, RenameTransaction
<1>7. CASE ~(old # NoRow /\ rows[x.w][x.to] # NoRow)
  <2>1. /\ rows' = IF old = NoRow THEN rows
                   ELSE [rows EXCEPT ![x.w] = Moved(rows[x.w], x.id, x.to)]
        /\ expired' = expired \union {<<x.to, s>> : s \in {s \in TransactionState : <<x.id, s>> \in expired}}
        /\ Become(p, [poll[p] EXCEPT !.at = "write"])
    BY <1>7, Zenon DEF RenameTransaction, Goto
  <2>2. rows' \in [Wallets -> [Ids -> TransactionState \union {NoRow}]]
    <3>1. rows[x.w] \in [Ids -> TransactionState \union {NoRow}]
      BY <1>1, <1>2 DEF TypeOK
    <3>2. Moved(rows[x.w], x.id, x.to) \in [Ids -> TransactionState \union {NoRow}]
      BY <1>2, <3>1 DEF Moved
    <3> QED
      BY <1>1, <2>1, <3>2, Zenon DEF TypeOK
  <2>3. expired' \subseteq Ids \X TransactionState
    <3>1. SUFFICES ASSUME NEW e \in expired' PROVE e \in Ids \X TransactionState
      OBVIOUS
    <3>2. e \in expired \/ \E s \in TransactionState : e = <<x.to, s>>
      BY <2>1, Zenon
    <3> QED
      BY <1>1, <1>2, <3>2 DEF TypeOK
  <2>4. poll' \in [Polls -> Running \union {Gone}] /\ EntriesOwned'
    BY <1>3, <2>1, BecomeRunning DEF RenameTransaction
  <2> QED
    BY <2>2, <2>3, <2>4 DEF Inv, TypeOK, RenameTransaction
<1> QED
  BY <1>6, <1>7

\* The state that apply writes is one of the states.
LEMMA NextStateTyped ==
    ASSUME NEW x, x.cur \in TransactionState, NEW update \in TransactionState
    PROVE  next_state(x, update) \in TransactionState
BY DEF next_state, merged_with, TransactionState

\* The end of apply: the row is written, or is gone.
LEMMA WriteStateStep ==
    ASSUME Inv, NEW p \in Polls, NEW update \in Answers, NEW fields \in BOOLEAN, WriteState(p, update, fields)
    PROVE  Inv'
<1>1. poll[p].at \in PollSteps /\ TypeOK /\ "stop" \in PollSteps /\ "post" \in PollSteps
  BY DEF WriteState, At, PollSteps, Inv
<1>2. /\ poll[p].w \in Wallets /\ poll[p].id \in Ids /\ poll[p].to \in Ids
      /\ poll[p].cur \in TransactionState /\ poll[p].st \in TransactionState
  BY <1>1, Fields
<1>3. update \in TransactionState
  BY TrackingAssumption DEF TransactionState
<1>4. next_state(poll[p], update) \in TransactionState
  BY <1>2, <1>3, NextStateTyped
<1>5. PICK step \in PollSteps : Become(p, [Sleeping(poll[p]) EXCEPT !.at = step, !.to = poll[p].to])
  BY <1>1, Zenon DEF WriteState, Applied
<1>6. [Sleeping(poll[p]) EXCEPT !.at = step, !.to = poll[p].to] \in Running
  BY <1>2, SleepingTyped, Zenon
<1>7. poll' \in [Polls -> Running \union {Gone}] /\ EntriesOwned'
  BY <1>5, <1>6, BecomeRunning DEF WriteState
<1>8. rows' \in [Wallets -> [Ids -> TransactionState \union {NoRow}]]
  <2>1. rows' = rows \/ Store(poll[p].w, poll[p].to, next_state(poll[p], update))
    BY DEF WriteState
  <2> QED
    BY <1>1, <1>2, <1>4, <2>1, StoreTyped DEF TypeOK
<1> QED
  BY <1>7, <1>8 DEF Inv, TypeOK, WriteState

\* follow: the poll that takes over the entry of the new hash is running.
LEMMA FollowStep == ASSUME Inv, NEW p \in Polls, Follow(p) PROVE Inv'
<1>1. poll[p].at \in PollSteps /\ TypeOK
  BY DEF Follow, At, PollSteps, Inv
<1>2. poll[p].to \in Ids /\ [poll[p] EXCEPT !.at = "load"] \in Running
  BY <1>1, Fields, Zenon DEF PollSteps
<1>3. /\ poll' = [poll EXCEPT ![p] = [poll[p] EXCEPT !.at = "load"]]
      /\ owner' = IF poll[p].to = poll[p].id THEN owner ELSE [owner EXCEPT ![poll[p].to] = p]
  BY DEF Follow, Goto, Become
<1>4. poll' \in [Polls -> Running \union {Gone}] /\ owner' \in [Ids -> Polls \union {None}]
  BY <1>1, <1>2, <1>3 DEF TypeOK
<1>5. poll'[p] # Gone
  BY <1>1, <1>2, <1>3, RunningNotGone DEF TypeOK
<1>6. ASSUME NEW i \in Ids, owner'[i] # None PROVE poll'[owner'[i]] # Gone
  <2>1. owner'[i] = p \/ owner'[i] = owner[i]
    BY <1>1, <1>2, <1>3 DEF TypeOK
  <2>2. ASSUME owner'[i] = owner[i], owner[i] # p PROVE poll'[owner'[i]] # Gone
    <3>1. owner[i] \in Polls /\ poll[owner[i]] # Gone
      BY <1>1, <1>6, <2>2 DEF Inv, EntriesOwned, TypeOK
    <3> QED
      BY <1>1, <1>3, <2>2, <3>1 DEF TypeOK
  <2> QED
    BY <1>5, <2>1, <2>2
<1> QED
  BY <1>4, <1>6 DEF Inv, TypeOK, EntriesOwned, Follow

\* The poll reads the row again: it goes on, or ends with the row.
LEMMA GetTransactionStep == ASSUME Inv, NEW p \in Polls, GetTransaction(p) PROVE Inv'
<1>1. poll[p].at \in PollSteps /\ TypeOK /\ "stop" \in PollSteps /\ "sleep" \in PollSteps
  BY DEF GetTransaction, At, PollSteps, Inv
<1>2. /\ poll[p].w \in Wallets /\ poll[p].to \in Ids
      /\ [poll[p] EXCEPT !.at = "stop"] \in Running
  BY <1>1, Fields
<1>3. DEFINE s == rows[poll[p].w][poll[p].to]
<1>4. s \in TransactionState \union {NoRow}
  BY <1>1, <1>2 DEF TypeOK
<1>5. s # NoRow => \A step \in PollSteps : [Sleeping(Row(poll[p].w, poll[p].to, s)) EXCEPT !.at = step] \in Running
  <2>1. LET x == Row(poll[p].w, poll[p].to, s) IN x.w = poll[p].w /\ x.id = poll[p].to /\ x.st = s
    BY DEF Row
  <2> QED
    BY <1>2, <1>4, <2>1, SleepingTyped, Zenon
<1>6. \E r \in Running : Become(p, r)
  BY <1>1, <1>2, <1>5 DEF GetTransaction, Goto
<1> QED
  BY <1>6, BecomeRunning DEF Inv, TypeOK, GetTransaction

\* The poll ends.
LEMMA BreakStep == ASSUME Inv, NEW p \in Polls, Break(p) PROVE Inv'
BY Released DEF Break, Inv, TypeOK

-----------------------------------------------------------------------------
(* The rest of the app.                                                    *)

\* start: the new poll owns the entry of its id, which nobody owned.
LEMMA TrackTransactionStep ==
    ASSUME Inv, NEW p \in Polls, NEW x \in queue, track_transaction(p, x)
    PROVE  Inv'
<1>1. x \in Transaction /\ x.id \in Ids /\ TypeOK
  BY DEF Inv, TypeOK, Transaction
<1>2. Sleeping(x) \in Running
  BY <1>1, SleepingTyped, Zenon DEF Transaction
<1>3. owner' = [owner EXCEPT ![x.id] = p] /\ poll' = [poll EXCEPT ![p] = Sleeping(x)]
  BY DEF track_transaction, start, Become
<1>4. poll' \in [Polls -> Running \union {Gone}] /\ owner' \in [Ids -> Polls \union {None}]
  BY <1>1, <1>2, <1>3 DEF TypeOK
<1>5. \A q \in Polls : poll[q] # Gone \/ q = p => poll'[q] # Gone
  BY <1>1, <1>2, <1>3, RunningNotGone DEF TypeOK
<1>6. ASSUME NEW i \in Ids, owner'[i] # None PROVE poll'[owner'[i]] # Gone
  <2>1. owner'[i] = p \/ (owner'[i] = owner[i] /\ owner[i] \in Polls)
    BY <1>1, <1>3, <1>6 DEF TypeOK
  <2> QED
    BY <1>5, <1>6, <2>1 DEF Inv, EntriesOwned
<1>7. queue' \subseteq Transaction
  BY <1>1 DEF track_transaction, start, TypeOK
<1> QED
  BY <1>4, <1>6, <1>7 DEF Inv, TypeOK, EntriesOwned, track_transaction

\* track_pending hands every pending row to track.
LEMMA TrackPendingStep == ASSUME Inv, track_pending PROVE Inv'
<1>1. queue' \subseteq Transaction
  <2>1. SUFFICES ASSUME NEW t \in queue' PROVE t \in Transaction
    OBVIOUS
  <2>2. t \in queue \/ \E w \in Wallets, i \in Ids : Pending(w, i) /\ t = Row(w, i, rows[w][i])
    BY DEF track_pending
  <2>3. ASSUME NEW w \in Wallets, NEW i \in Ids, Pending(w, i) PROVE Row(w, i, rows[w][i]) \in Transaction
    BY <2>3 DEF Pending, Row, Transaction, TransactionState
  <2> QED
    BY <2>2, <2>3 DEF Inv, TypeOK
<1> QED
  BY <1>1, OwnedFrame DEF Inv, TypeOK, track_pending

\* A transaction that is polled already, or whose track fails, leaves the queue.
LEMMA QueueStep ==
    ASSUME Inv, NEW x \in queue, AlreadyTracked(x) \/ TrackError(x)
    PROVE  Inv'
<1>1. queue' \subseteq Transaction /\ EntriesOwned'
  BY OwnedFrame DEF Inv, TypeOK, AlreadyTracked, TrackError
<1>2. count' \in [Counters -> Nat]
  BY BumpTyped DEF Inv, TypeOK, AlreadyTracked, TrackError, Counters
<1> QED
  BY <1>1, <1>2 DEF Inv, TypeOK, AlreadyTracked, TrackError, Counters

\* stop_tracking empties the table: no entry is left to be owned.
LEMMA StopTrackingStep == ASSUME Inv, stop_tracking PROVE Inv'
<1>1. count' \in [Counters -> Nat]
  BY BumpTyped DEF Inv, stop_tracking, Counters
<1>2. owner' \in [Ids -> Polls \union {None}] /\ EntriesOwned'
  BY DEF Inv, TypeOK, stop_tracking, EntriesOwned
<1> QED
  BY <1>1, <1>2 DEF Inv, TypeOK, stop_tracking, Counters

\* confirm send records a pending transaction and hands it to track.
LEMMA StorePendingStep ==
    ASSUME Inv, NEW w \in Wallets, NEW i \in Ids, store_pending(w, i)
    PROVE  Inv'
<1>1. count' \in [Counters -> Nat]
  BY BumpTyped DEF Inv, store_pending, Counters
<1>2. rows' \in [Wallets -> [Ids -> TransactionState \union {NoRow}]]
  BY StoreTyped DEF Inv, store_pending, TransactionState
<1>3. queue' \subseteq Transaction
  BY DEF Inv, TypeOK, store_pending, Row, Transaction, TransactionState
<1> QED
  BY <1>1, <1>2, <1>3, OwnedFrame DEF Inv, TypeOK, store_pending, Counters

\* sync_wallet receives a response.
LEMMA SyncResponseStep ==
    ASSUME Inv, NEW w \in Wallets, NEW xs \in Responses(w), SyncResponse(w, xs)
    PROVE  Inv'
<1>1. count' \in [Counters -> Nat]
  BY BumpTyped DEF Inv, SyncResponse, Counters
<1>2. xs \subseteq Transaction
  BY DEF Responses, Row, Transaction
<1>3. synced' \in [Wallets -> SUBSET Transaction]
  BY <1>2 DEF Inv, TypeOK, SyncResponse
<1> QED
  BY <1>1, <1>3, OwnedFrame DEF Inv, TypeOK, SyncResponse, Counters

\* sync_wallet writes the rows of its response and hands the pending ones to track.
LEMMA SaveTransactionsStep ==
    ASSUME Inv, NEW w \in Wallets, SaveTransactions(w)
    PROVE  Inv'
<1>1. DEFINE table == [i \in Ids |-> IF \E x \in synced[w] : x.id = i
                                     THEN (CHOOSE x \in synced[w] : x.id = i).st ELSE rows[w][i]]
<1>2. synced[w] \subseteq Transaction /\ rows[w] \in [Ids -> TransactionState \union {NoRow}]
  BY DEF Inv, TypeOK
<1>3. \A i \in Ids : (\E x \in synced[w] : x.id = i) => (CHOOSE x \in synced[w] : x.id = i).st \in TransactionState
  BY <1>2 DEF Transaction
<1>4. table \in [Ids -> TransactionState \union {NoRow}]
  BY <1>2, <1>3
<1>5. rows' = [rows EXCEPT ![w] = table]
  BY DEF SaveTransactions
<1>6. rows' \in [Wallets -> [Ids -> TransactionState \union {NoRow}]]
  BY <1>4, <1>5 DEF Inv, TypeOK
<1>7. queue' \subseteq Transaction /\ synced' \in [Wallets -> SUBSET Transaction]
  BY <1>2 DEF Inv, TypeOK, SaveTransactions
<1> QED
  BY <1>6, <1>7, OwnedFrame DEF Inv, TypeOK, SaveTransactions

\* The timeout of a transaction passes.
LEMMA ExpireStep ==
    ASSUME Inv, NEW i \in Ids, NEW s \in {"pending", "inTransit"}, Expire(i, s)
    PROVE  Inv'
<1>1. <<i, s>> \in Ids \X TransactionState
  BY DEF TransactionState
<1>2. expired' \subseteq Ids \X TransactionState
  BY <1>1 DEF Inv, TypeOK, Expire
<1> QED
  BY <1>2, OwnedFrame DEF Inv, TypeOK, Expire

\* A store call of the poll fails: it sleeps again, or ends.
LEMMA StoreErrorStep == ASSUME Inv, NEW p \in Polls, StoreError(p) PROVE Inv'
<1>1. poll[p].at \in PollSteps /\ TypeOK /\ "stop" \in PollSteps
  BY DEF StoreError, PollSteps, Inv
<1>2. [poll[p] EXCEPT !.at = "stop"] \in Running /\ Sleeping(poll[p]) \in Running
  BY <1>1, Fields
<1>3. \E r \in Running : Become(p, r)
  BY <1>2 DEF StoreError, Goto, Sleep
<1>4. count' \in [Counters -> Nat]
  BY <1>1, BumpTyped DEF StoreError, Counters
<1> QED
  BY <1>3, <1>4, BecomeRunning DEF Inv, TypeOK, StoreError, Counters

\* A dropped future releases its entries, wherever it was dropped.
LEMMA DroppedStep == ASSUME Inv, NEW p \in Polls, Dropped(p) PROVE Inv'
<1>1. count' \in [Counters -> Nat]
  BY BumpTyped DEF Dropped, Counters, Inv
<1> QED
  BY <1>1, Released DEF Inv, TypeOK, Dropped, Counters

\* After a restart nothing is polled.
LEMMA RestartStep == ASSUME Inv, Restart PROVE Inv'
<1>1. count' \in [Counters -> Nat]
  BY BumpTyped DEF Restart, Counters, Inv
<1>2. EntriesOwned' /\ owner' \in [Ids -> Polls \union {None}] /\ poll' \in [Polls -> Running \union {Gone}]
  BY DEF Restart, EntriesOwned
<1>3. queue' = {} /\ synced' \in [Wallets -> SUBSET Transaction]
  BY DEF Restart
<1> QED
  BY <1>1, <1>2, <1>3 DEF Inv, TypeOK, Restart, Counters

-----------------------------------------------------------------------------
(* The theorems.                                                           *)

\* Every step of the system keeps the inductive invariant.
LEMMA NextInv == ASSUME Inv, [Next]_vars PROVE Inv'
<1>1. ASSUME NEW p \in Polls, Step(p) \/ StoreError(p) \/ Dropped(p) PROVE Inv'
  <2>1. ASSUME NEW hash \in Ids, GatewayUpdate(p, hash) PROVE Inv'
    BY <2>1, GatewayUpdateStep
  <2>2. ASSUME NEW update \in Answers, NEW fields \in BOOLEAN, WriteState(p, update, fields) PROVE Inv'
    BY <2>2, WriteStateStep
  <2> QED
    BY <1>1, <2>1, <2>2, WakeStep, GatewayErrorStep, GetStateStep, DeleteTransactionStep, RenameTransactionStep,
       FollowStep, GetTransactionStep, BreakStep, StoreErrorStep, DroppedStep, Zenon DEF Step
<1>2. ASSUME NEW x \in queue, Start(x) \/ TrackError(x) PROVE Inv'
  BY <1>2, QueueStep, TrackTransactionStep, Zenon DEF Start
<1>3. CASE track_pending \/ stop_tracking \/ Restart
  BY <1>3, TrackPendingStep, StopTrackingStep, RestartStep, Zenon
<1>4. ASSUME NEW w \in Wallets, NEW i \in Ids, store_pending(w, i) PROVE Inv'
  BY <1>4, StorePendingStep
<1>5. ASSUME NEW w \in Wallets, SaveTransactions(w) \/ \E xs \in Responses(w) : SyncResponse(w, xs) PROVE Inv'
  BY <1>5, SaveTransactionsStep, SyncResponseStep, Zenon
<1>6. ASSUME NEW i \in Ids, NEW s \in {"pending", "inTransit"}, Expire(i, s) PROVE Inv'
  BY <1>6, ExpireStep, Zenon
<1>7. CASE UNCHANGED vars
  BY <1>7, OwnedFrame DEF Inv, TypeOK, vars
<1> QED
  BY <1>1, <1>2, <1>3, <1>4, <1>5, <1>6, <1>7, Zenon DEF Next

\* When the app starts nothing is polled.
LEMMA InitInv == Init => Inv
<1>1. SUFFICES ASSUME Init PROVE Inv
  OBVIOUS
<1>2. rows \in [Wallets -> [Ids -> TransactionState \union {NoRow}]]
  BY <1>1 DEF Init, TransactionState
<1>3. owner \in [Ids -> Polls \union {None}] /\ poll \in [Polls -> Running \union {Gone}] /\ EntriesOwned
  BY <1>1 DEF Init, EntriesOwned
<1>4. count \in [{"sends", "syncs", "stops", "faults"} -> Nat]
  BY <1>1 DEF Init
<1>5. expired = {} /\ queue = {} /\ synced \in [Wallets -> SUBSET Transaction]
  BY <1>1 DEF Init
<1> QED
  BY <1>2, <1>3, <1>4, <1>5 DEF Inv, TypeOK

\* The types and EntriesOwned hold in every state of the service.
THEOREM Tracked == Spec => []Inv
<1> QED
  BY InitInv, NextInv, PTL DEF Spec

\* Every variable of the tracking service keeps its type, whatever the number of
\* wallets, ids and polls: no poll reads a row that is gone.
THEOREM TypeCorrect == Spec => []TypeOK
<1>1. Inv => TypeOK
  BY DEF Inv
<1> QED
  BY <1>1, Tracked, PTL

\* Every entry of Tracking.polls belongs to a running poll, so a transaction is
\* never locked out of tracking by a poll that ended, was dropped or was stopped.
THEOREM Owned == Spec => []EntriesOwned
<1>1. Inv => EntriesOwned
  BY DEF Inv
<1> QED
  BY <1>1, Tracked, PTL
=============================================================================
