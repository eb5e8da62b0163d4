------------------------- MODULE TransactionTracking -------------------------
(***************************************************************************)
(* GemTransactionStateService (gemstone/src/services/transaction_state):   *)
(* the polls that follow a pending transaction until it is completed, the  *)
(* table of who polls what, and the transaction rows they share with       *)
(* sync_wallet and with the send flow.                                     *)
(*                                                                         *)
(* A poll is a future that the app drives.  It can be overtaken by other   *)
(* polls and by the app at every await, which is where its steps are cut,  *)
(* and it can be dropped there.  The node's answer to a poll is any state, *)
(* with or without a replaced hash and changed fields.                     *)
(***************************************************************************)
EXTENDS Naturals, FiniteSets

CONSTANTS
    Wallets,        \* wallets of the app
    Ids,            \* transaction ids
    Polls,          \* poll numbers: last_poll only makes them distinct
    None,           \* no poll
    Answers,        \* the states a node may report
    Replacement,    \* [Ids -> Ids]: the hash a node reports instead of an id
    MaxSends,       \* bound on the transactions sent
    MaxSyncs,       \* bound on the calls of sync_wallet
    MaxStops,       \* bound on the calls of stop_tracking
    MaxFaults,      \* bound on store errors, dropped futures and restarts
    MaxExpired      \* bound on the timeouts that pass

ASSUME TrackingAssumption ==
    /\ None \notin Polls
    /\ Replacement \in [Ids -> Ids]
    /\ Answers \subseteq {"pending", "inTransit", "confirmed", "failed"}
    /\ {MaxSends, MaxSyncs, MaxStops, MaxFaults, MaxExpired} \subseteq Nat

\* Reverted and refunded end a transaction as confirmed does.
TransactionState == {"pending", "inTransit", "confirmed", "failed"}
is_completed(s) == s \in {"confirmed", "failed"}
NoRow == "none"

merged_with(s, updated) == IF s = "pending" \/ is_completed(updated) THEN updated ELSE s

VARIABLES
    rows,       \* [Wallets -> [Ids -> state or NoRow]]: the transactions table
    expired,    \* <<id, state>>: older than the timeout of a transaction in that state
    owner,      \* [Ids -> Polls or None]: Tracking.polls
    poll,       \* [Polls -> a running poll or Gone]
    queue,      \* transactions handed to track and not started yet
    synced,     \* [Wallets -> a sync_wallet response not yet saved, or {}]
    count       \* sends, syncs, stops and faults so far

vars == <<rows, expired, owner, poll, queue, synced, count>>

Gone == [at |-> "gone"]
Transaction == [w : Wallets, id : Ids, st : TransactionState]
Row(w, i, s) == [w |-> w, id |-> i, st |-> s]

has_timed_out(i, s) == ~is_completed(s) /\ <<i, s>> \in expired
is_tracking(p) == \E i \in Ids : owner[i] = p
Pending(w, i) == rows[w][i] \in {"pending", "inTransit"}

Bump(what, max) == count[what] < max /\ count' = [count EXCEPT ![what] = @ + 1]
Store(w, i, s) == rows' = [rows EXCEPT ![w][i] = s]
Become(p, r) == poll' = [poll EXCEPT ![p] = r]
At(p, step) == poll[p].at = step

\* A poll between two updates: what it knows of the transaction.
Sleeping(x) == [w |-> x.w, id |-> x.id, st |-> x.st, at |-> "sleep",
                to |-> x.id, cur |-> x.st, late |-> FALSE]
Sleep(p) == Become(p, Sleeping(poll[p]))
Goto(p, step) == Become(p, [poll[p] EXCEPT !.at = step])
\* The update is applied: only the ids still matter.
Applied(p, step) == Become(p, [Sleeping(poll[p]) EXCEPT !.at = step, !.to = poll[p].to])

-----------------------------------------------------------------------------
(* Tracking: start, cancel and the release of a poll's entries.            *)

start(p, x) ==
    /\ poll[p] = Gone /\ ~is_tracking(p)
    /\ owner[x.id] = None
    /\ owner' = [owner EXCEPT ![x.id] = p]
    /\ Become(p, Sleeping(x))

\* Mutant of release: only the entry of the current id is removed.
ReleaseCurrent(p) ==
    /\ owner' = [owner EXCEPT ![poll[p].id] = IF @ = p THEN None ELSE @]
    /\ poll' = [poll EXCEPT ![p] = Gone]

\* Mutant of release: a poll that ends leaves its entries behind.
ReleaseNothing(p) == poll' = [poll EXCEPT ![p] = Gone] /\ UNCHANGED owner

\* TrackedTransactions::drop, on every way out of poll().
release(p) ==
    /\ owner' = [i \in Ids |-> IF owner[i] = p THEN None ELSE owner[i]]
    /\ poll' = [poll EXCEPT ![p] = Gone]

track_pending ==
    /\ queue' = queue \union {Row(x[1], x[2], rows[x[1]][x[2]]) : x \in {x \in Wallets \X Ids : Pending(x[1], x[2])}}
    /\ UNCHANGED <<rows, expired, owner, poll, synced, count>>

\* One transaction of track or track_pending: a poll starts unless its id is
\* polled already.
track_transaction(p, x) ==
    /\ x \in queue
    /\ queue' = queue \ {x}
    /\ start(p, x)
    /\ UNCHANGED <<rows, expired, synced, count>>

AlreadyTracked(x) ==
    /\ x \in queue
    /\ owner[x.id] # None
    /\ queue' = queue \ {x}
    /\ UNCHANGED <<rows, expired, owner, poll, synced, count>>

stop_tracking ==
    /\ Bump("stops", MaxStops)
    /\ owner' = [i \in Ids |-> None]
    /\ UNCHANGED <<rows, expired, poll, queue, synced>>

-----------------------------------------------------------------------------
(* poll(): one round.                                                      *)

Wake(p) ==
    /\ At(p, "sleep")
    /\ IF is_tracking(p)
       THEN Goto(p, "gateway") /\ UNCHANGED owner
       ELSE release(p)
    /\ UNCHANGED <<rows, expired, queue, synced, count>>

\* get_transaction_update fails: the poll goes on, unless the timeout of the
\* transaction has passed, which writes a failed state.
GatewayError(p) ==
    /\ At(p, "gateway")
    /\ LET x == poll[p]
       IN  IF has_timed_out(x.id, x.st)
           THEN Become(p, [x EXCEPT !.at = "write", !.late = TRUE])
           ELSE Sleep(p)
    /\ UNCHANGED <<rows, expired, owner, queue, synced, count>>

\* The node answers, with the transaction's own hash or the one that replaced
\* it.  The state it reports is any of Answers; WriteState draws it.
GatewayUpdate(p, hash) ==
    /\ At(p, "gateway")
    /\ hash \in {poll[p].id, Replacement[poll[p].id]}
    /\ LET x == poll[p]
       IN  Become(p, [x EXCEPT !.at = IF hash = x.id THEN "write" ELSE "lookup", !.to = hash,
                               !.late = has_timed_out(x.id, x.st)])
    /\ UNCHANGED <<rows, expired, owner, queue, synced, count>>

\* Mutant of GetState: an absent row is taken for an existing one.
GetStateUnchecked(p) ==
    /\ At(p, "lookup")
    /\ Become(p, [poll[p] EXCEPT !.at = "delete", !.cur = rows[poll[p].w][poll[p].to]])
    /\ UNCHANGED <<rows, expired, owner, queue, synced, count>>

\* rename: get_state of the new hash ...
GetState(p) ==
    /\ At(p, "lookup")
    /\ LET x == poll[p]
           existing == rows[x.w][x.to]
       IN  Become(p, IF existing = NoRow
                     THEN [x EXCEPT !.at = "rename"]
                     ELSE [x EXCEPT !.at = "delete", !.cur = existing])
    /\ UNCHANGED <<rows, expired, owner, queue, synced, count>>

\* ... then delete_transaction of the old one, merging into the existing row ...
DeleteTransaction(p) ==
    /\ At(p, "delete")
    /\ Store(poll[p].w, poll[p].id, NoRow)
    /\ Goto(p, "write")
    /\ UNCHANGED <<expired, owner, queue, synced, count>>

\* The rows of a wallet with the row of i under the id j.
Moved(table, i, j) == [k \in Ids |-> IF k = j THEN table[i] ELSE IF k = i THEN NoRow ELSE table[k]]

\* ... or rename_transaction, an error when a row with the new hash appeared.
RenameTransaction(p) ==
    /\ At(p, "rename")
    /\ LET x == poll[p]
           old == rows[x.w][x.id]
       IN  IF old # NoRow /\ rows[x.w][x.to] # NoRow
           THEN Sleep(p) /\ UNCHANGED <<rows, expired>>
           ELSE /\ rows' = IF old = NoRow THEN rows
                           ELSE [rows EXCEPT ![x.w] = Moved(@, x.id, x.to)]
                /\ expired' = expired \union {<<x.to, s>> : s \in {s \in TransactionState : <<x.id, s>> \in expired}}
                /\ Goto(p, "write")
    /\ UNCHANGED <<owner, queue, synced, count>>

\* Mutant of next_state: the timeout of a transaction is not applied.
NextWithoutTimeout(x, update) == merged_with(x.cur, update)

next_state(x, update) ==
    LET merged == merged_with(x.cur, update)
    IN  IF x.late /\ ~is_completed(merged) THEN "failed" ELSE merged

\* The end of apply: the row is read when nothing changed and written when its
\* state or another field did; a row that is gone ends the poll.
WriteState(p, update, fields) ==
    /\ At(p, "write")
    /\ LET x == poll[p]
           next == next_state(x, update)
       IN  /\ Applied(p, IF rows[x.w][x.to] = NoRow THEN "stop" ELSE "post")
           /\ IF (next = x.cur /\ ~fields) \/ rows[x.w][x.to] = NoRow
              THEN UNCHANGED rows
              ELSE Store(x.w, x.to, next)
    /\ UNCHANGED <<expired, owner, queue, synced, count>>

\* post_process has refreshed balances, stakes and NFTs (not modelled); then
\* the poll takes over the new hash, whoever owns it.
Follow(p) ==
    /\ At(p, "post")
    /\ owner' = IF poll[p].to = poll[p].id THEN owner ELSE [owner EXCEPT ![poll[p].to] = p]
    /\ Goto(p, "load")
    /\ UNCHANGED <<rows, expired, queue, synced, count>>

GetTransaction(p) ==
    /\ At(p, "load")
    /\ LET x == poll[p]
           s == rows[x.w][x.to]
       IN  IF s = NoRow
           THEN Goto(p, "stop")
           ELSE Become(p, [Sleeping(Row(x.w, x.to, s)) EXCEPT !.at = IF is_completed(s) THEN "stop" ELSE "sleep"])
    /\ UNCHANGED <<rows, expired, owner, queue, synced, count>>

Break(p) ==
    /\ At(p, "stop")
    /\ release(p)
    /\ UNCHANGED <<rows, expired, queue, synced, count>>

-----------------------------------------------------------------------------
(* The rest of the app.                                                    *)

\* confirm send: the broadcast transaction is recorded, then handed to track.
store_pending(w, i) ==
    /\ Bump("sends", MaxSends)
    /\ Store(w, i, "pending")
    /\ queue' = queue \union {Row(w, i, "pending")}
    /\ UNCHANGED <<expired, owner, poll, synced>>

\* sync_wallet: the response ...
SyncResponse(w, xs) ==
    /\ synced[w] = {}
    /\ Bump("syncs", MaxSyncs)
    /\ synced' = [synced EXCEPT ![w] = xs]
    /\ UNCHANGED <<rows, expired, owner, poll, queue>>

\* ... is saved later, and what is not completed is handed to track.
SaveTransactions(w) ==
    /\ synced[w] # {}
    /\ rows' = [rows EXCEPT ![w] = [i \in Ids |->
                   IF \E x \in synced[w] : x.id = i THEN (CHOOSE x \in synced[w] : x.id = i).st ELSE @[i]]]
    /\ queue' = queue \union {x \in synced[w] : ~is_completed(x.st)}
    /\ synced' = [synced EXCEPT ![w] = {}]
    /\ UNCHANGED <<expired, owner, poll, count>>

Expire(i, s) ==
    /\ <<i, s>> \notin expired /\ Cardinality(expired) < MaxExpired
    /\ expired' = expired \union {<<i, s>>}
    /\ UNCHANGED <<rows, owner, poll, queue, synced, count>>

\* A store call of the poll fails: apply's error is retried, get_transaction's
\* ends the poll.
StoreError(p) ==
    /\ poll[p].at \in {"lookup", "delete", "rename", "write", "load"}
    /\ Bump("faults", MaxFaults)
    /\ IF At(p, "load") THEN Goto(p, "stop") ELSE Sleep(p)
    /\ UNCHANGED <<rows, expired, owner, queue, synced>>

\* enable_transaction_assets fails: track returns without starting a poll.
TrackError(x) ==
    /\ x \in queue
    /\ Bump("faults", MaxFaults)
    /\ queue' = queue \ {x}
    /\ UNCHANGED <<rows, expired, owner, poll, synced>>

\* The app drops the future of a poll at one of its awaits.
Dropped(p) ==
    /\ poll[p].at \in {"sleep", "gateway", "lookup", "delete", "rename", "write", "post", "load"}
    /\ Bump("faults", MaxFaults)
    /\ release(p)
    /\ UNCHANGED <<rows, expired, queue, synced>>

\* The app is killed and launched again: only the rows are kept.
Restart ==
    /\ Bump("faults", MaxFaults)
    /\ owner' = [i \in Ids |-> None]
    /\ poll' = [p \in Polls |-> Gone]
    /\ queue' = {}
    /\ synced' = [w \in Wallets |-> {}]
    /\ UNCHANGED <<rows, expired>>

-----------------------------------------------------------------------------
Init ==
    /\ rows \in [Wallets -> [Ids -> {NoRow, "pending", "inTransit"}]]
    /\ expired = {}
    /\ owner = [i \in Ids |-> None]
    /\ poll = [p \in Polls |-> Gone]
    /\ queue = {}
    /\ synced = [w \in Wallets |-> {}]
    /\ count = [sends |-> 0, syncs |-> 0, stops |-> 0, faults |-> 0]

\* A response holds at most one version of a transaction.
Responses(w) ==
    {xs \in SUBSET {Row(w, i, s) : i \in Ids, s \in TransactionState} :
        xs # {} /\ \A x, y \in xs : x.id = y.id => x = y}

Step(p) ==
    \/ Wake(p) \/ GatewayError(p) \/ GetState(p) \/ DeleteTransaction(p) \/ RenameTransaction(p)
    \/ \E hash \in Ids : GatewayUpdate(p, hash)
    \/ \E update \in Answers, fields \in BOOLEAN : WriteState(p, update, fields)
    \/ Follow(p) \/ GetTransaction(p) \/ Break(p)

Start(x) == AlreadyTracked(x) \/ \E p \in Polls : track_transaction(p, x)

Next ==
    \/ \E p \in Polls : Step(p) \/ StoreError(p) \/ Dropped(p)
    \/ \E x \in queue : Start(x) \/ TrackError(x)
    \/ track_pending \/ stop_tracking \/ Restart
    \/ \E w \in Wallets, i \in Ids : store_pending(w, i)
    \/ \E w \in Wallets : SaveTransactions(w) \/ \E xs \in Responses(w) : SyncResponse(w, xs)
    \/ \E i \in Ids, s \in {"pending", "inTransit"} : Expire(i, s)

Spec == Init /\ [][Next]_vars

\* Fairness: the app drives its futures, the clock runs, and the app comes to
\* the foreground (track_pending) again and again.
FairSpec ==
    /\ Spec
    /\ \A p \in Polls : WF_vars(Step(p))
    /\ \A x \in Transaction : WF_vars(Start(x))
    /\ WF_vars(track_pending)
    /\ \A w \in Wallets : WF_vars(SaveTransactions(w))
    /\ \A i \in Ids, s \in {"pending", "inTransit"} : WF_vars(Expire(i, s))

-----------------------------------------------------------------------------
(* Properties.                                                             *)

Running == [w : Wallets, id : Ids, st : TransactionState, to : Ids, cur : TransactionState,
            late : BOOLEAN,
            at : {"sleep", "gateway", "lookup", "delete", "rename", "write", "post", "load", "stop"}]

\* Every variable keeps its type.
TypeOK ==
    /\ rows \in [Wallets -> [Ids -> TransactionState \union {NoRow}]]
    /\ expired \subseteq Ids \X TransactionState
    /\ owner \in [Ids -> Polls \union {None}]
    /\ poll \in [Polls -> Running \union {Gone}]
    /\ queue \subseteq Transaction
    /\ synced \in [Wallets -> SUBSET Transaction]
    /\ count \in [{"sends", "syncs", "stops", "faults"} -> Nat]

\* "a poll dropped at its first sleep must free the transaction, or it is never
\* tracked again": every entry of Tracking.polls belongs to a running poll,
\* whatever hashes it followed and however polls were stopped or dropped.
EntriesOwned == \A i \in Ids : owner[i] # None => poll[owner[i]] # Gone

\* Once sends, syncs and faults are over, every transaction row of every wallet
\* is settled for good: none stays pending behind a poll that gave it up.
PendingSettles == <>[](\A w \in Wallets, i \in Ids : ~Pending(w, i))

\* apply never takes a completed transaction back to a pending state.
NoDowngrade ==
    [][\A p \in Polls, w \in Wallets, i \in Ids :
          At(p, "write") /\ poll'[p] # poll[p] /\ is_completed(rows[w][i]) => ~Pending(w, i)']_vars
=============================================================================
