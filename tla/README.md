# Verification of the Gem Wallet core

TLA+ models of the stateful parts of the Gem Wallet repository (the Rust core in
`src/core`, and the places in `src/ios` and `src/android` that drive it), their
TLC configurations, and proofs that TLAPS checks.

## 1. The system

The repository holds two mobile apps over one Rust library, and the backend that
serves them.

| Part | State | Operations | What is hard |
|---|---|---|---|
| **Wallet secret files** (`crates/gem_keystore`, `gemstone/src/keystore`, `gemstone/src/services/wallet`) | one sealed v4 file per wallet, older v3 files, temporary files, the app's password store, the wallet rows | import, delete, v3 to v4 migration, change to one app-wide password, chain set-up | kills and power losses between write, rename and directory sync; start-up maintenance next to the user interface; removing the last copy of a secret |
| **Transaction tracking** (`gemstone/src/services/transaction_state`, `transactions`, `confirm`) | transaction rows, the table of polled ids, the polls | track, poll, apply, rename, stop, sync, send | every await can be overtaken; futures are dropped; a node replaces hashes; timeouts race answers |
| **Block parser and queues** (`apps/daemon/src/parser`, `crates/streamer`, the `fetch_blocks` and `store_transactions` consumers) | `parser_state`, two bounded queues, messages being processed, stored transactions | plan, publish, advance, deliver, process, ack | crashes between publishing and advancing, ignored errors, redelivery, full queues, lagging nodes |
| **Redemption of reward points** (`apps/api`, `crates/storage`, `crates/streamer`, the redemption consumer of `apps/daemon`) | points, stock, redemption rows, the queue, payments | redeem, publish, deliver, mark, transfer, record the outcome | checks before the transaction, redelivery, lost answers to a transfer, crashes between a payment and its record |
| **Dynode monitoring and request forwarding** (`apps/dynode`) | the active URL, failure windows, the signal, the monitor task, requests | request, retry, report, check, observe, select, switch | outcomes of a URL that was replaced, a flag and a wake-up in two steps, nodes that change during a check |
| Dynode cache, egress gateway | response cache, endpoint cooldowns | forward, fail over | all endpoints in cooldown |
| Request coalescing (`gemstone/src/alien`) | in-flight requests | share a response | the leader is dropped |
| Streams of a device (`gemstone/src/services/stream`) | desired and sent subscriptions | subscribe, reconnect | a change during a reconnect |
| Job runner (`crates/job_runner`) | last run of a job | run, reschedule | two processes with the same job |
| Referrals, authentication, prices, fiat, swaps, WalletConnect | database rows, caches | queries and single writes | mostly one step each |
| Chain crates and signers | none | encode, decode, sign | pure functions over bytes |
| User interfaces | view state | | not core logic |

The parts meet in few places. Transactions reach an app's rows from three sides:
the send flow and the polls of the tracking service write them, and the wallet
sync writes what the backend stored from the block pipeline. The wallet service
owns the rows that the key store's start-up maintenance walks through. The
redemption and the block pipeline use the same broker and consumer loop. Dynode
stands between the callers and the nodes of a chain and shares no state with the
other parts.

`PROJECT.json` lists every part, modelled or not, and the hazards of the modelled
ones at the line where each bites.

## 2. Modules

| Module | Models | Run by |
|---|---|---|
| `Keystore` | the secret files and the wallet operations on them | `Keystore*.cfg` |
| `KeystoreSteps_proofs`, `KeystoreFiles_proofs`, `Keystore_proofs` | the proofs that secrets are recoverable, that a deletion leaves no file and who may replace one, in three layers | TLAPS |
| `TransactionTracking`, `MCTransactionTracking` | the polls of pending transactions; small instances | `Tracking*.cfg` |
| `TransactionTracking_proofs` | the proofs of the types and that no table entry outlives its poll | TLAPS |
| `BlockPipeline` | from the chain to the stored transactions, for one chain | `BlockPipeline.cfg` |
| `BlockPipeline_proofs` | the proofs that no block is left out, taken too early, notified twice or taken back | TLAPS |
| `RedemptionLedger` | what a redemption promises: points and stock for one payment | refined by `RewardsRedemption` |
| `RewardsRedemption`, `MCRewardsRedemption` | the API server, the database, the broker and the consumers of redemptions | `RewardsRedemption.cfg` |
| `RewardsRedemption_proofs` | the proofs of the payments, of the limit and of the refinement | TLAPS |
| `FailureTracker` | the buckets of request outcomes (operators only) | by the next two |
| `FailureWindow` | the tracker against a log of all requests | `FailureWindow.cfg` |
| `FailureWindow_proofs` | the proofs of the rolling window, its memory and its decisions | TLAPS |
| `DynodeMonitor` | requests, signal and monitor of one chain | `DynodeMonitor.cfg` |
| `DynodeMonitor_proofs` | the proofs of the types, the signal, the choice and the wake-up | TLAPS |

Each definition that models code keeps the name of the function it comes from
where TLA+ allows it; `PROJECT.json` maps it to the lines. Definitions marked
*Mutant of* are wrong variants of the definition below them: each property is
violated when the variant takes its place, which shows that the property depends
on that piece of code.

### Keystore

A directory entry is reduced to what decides recovery: is there a file, does it
parse, which password opens it, which wallet id does its secret derive. Ciphers,
key derivation and file headers are not modelled further. The legacy password of
wallet `w` is written `w`, and so is the secret that derives the id `w`.

* `dir` is the directory that the processes see; `pending[f]` is the set of
  versions of entry `f` that a power loss may leave. A rename or a removal adds a
  version, and `sync_directory` makes the visible one certain.
* `shared` and `legacy` are the password store, `wallets` the rows of the app's
  database, `tmp` the temporary files.
* `task[t]` is the operation of a thread: `"startup"` runs the maintenance of a
  launch (`migrate_v3`, then `migrate_to_shared_password`, then `setup_chains`)
  and `"ui"` imports and deletes wallets. An operation is cut where it takes or
  releases the process-wide queue lock (`lock`) and, inside a write, at the
  temporary file, the rename and the directory sync, because the app can be
  killed there.
* `owned`, `deleted` and `raced` are history: the wallets the user has (an import
  adds one, also a second time), what `delete_wallet` has deleted, and the wallets
  that were deleted while the maintenance handled them. `Kept` is `owned` without
  `raced`: `SecretRecoverable` and `EventuallyShared` speak of these wallets, and
  `keystore_reimport` shows why the others are left out.

Faults are `IoError` (a write, a removal or a read of a file fails), `AppKilled`,
`PowerLoss` and `Damage` (a v4 file turns unreadable while its v3 original exists).
A failed read matters as much as a failed write: `migrate_v3` deletes the v4 file
that it cannot read back, and `opens_with` takes an unreadable file for one with
another password. `Android` selects per-wallet legacy passwords or the iOS scheme,
`Concurrent` whether the two threads overlap, and `LateFlush` whether an entry that
an operation left unsynced can still be lost by a later power loss. With
`LateFlush = FALSE` such an entry is durable at once: when the app is killed between
a rename or a removal and `sync_directory`, and also when `sync_directory` itself
fails. That is stronger than what a file system promises, and it is an assumption of
the proofs.

### TransactionTracking

`rows[w][i]` is the state of transaction `i` in the rows of wallet `w`,
`owner[i]` the entry of `Tracking.polls`, and `poll[p]` a running poll with the
copy of the transaction it works with: `st` as the poll read it, `cur` as `apply`
merges it, `to` the hash the node reported, and `late` whether the timeout had
passed when the node answered. A poll is cut at every await: the sleep, the
request, and each call of the store. `queue` holds what was handed to `track` and
has not started, `synced` a response of `sync_wallet` that is not saved yet.
`expired` grows as timeouts pass; a rename carries the age of the row along.

Store errors, dropped futures and restarts of the app are faults. `PendingSettles`
counts a failed row as settled like a confirmed one and is checked without replaced
hashes; which of the two a late answer gives is in no property. The follow-up
work of `post_process` (balances, stakes, NFTs) touches none of these variables
and is a step of its own without effect, so that others can overtake it.

### BlockPipeline

`row` is `parser_state`; `pc`, `seen` and `plan` are the local state of the
parser; `queue` holds the two queues with messages as sets of block numbers;
`job` what each consumer has taken and not acked. `lost` collects the blocks of
messages that the broker refused, dropped from a full queue, or that a consumer
skipped after an error, and `base` the block where the parser began. Results that
the code ignores (`let _ = set_current_block(..)`, an unconfirmed publish) are
parameters `ok` of the actions: with `FALSE` the write does not happen and the
code goes on as if it had.

`stored` are the blocks whose transactions went through the upsert of the store
consumer. What the consumer drops of a block before (transactions of no subscriber,
with a missing or disabled asset, or of too small an amount) is acked with the block
and counts as stored with it: `NoGap` and `CatchesUp` say that no block is left out,
not that every transaction has a row. The upsert writes in chunks, so that an error
or a crash may leave any part of a message's blocks stored (`UpsertPart`).

### RewardsRedemption

`points`, `stock`, `status` and `txid` are the rows of the database, `request[r]`
a request of the API server (which also names the redemption it adds), `queue` the
copies of each message, `job[w]` what a consumer works on, and `transfers` the
broadcasts that reached the network. A request is cut between its checks and the
transaction, a consumer at each statement and at the transfer. Faults are failing
transactions and queries, messages that are lost, doubled or dropped from a full
queue, broken connections, crashes, and a transfer whose answer is lost. The
history `contended` holds the redemptions that two consumers found pending at the
same time, `crowded` the users with two requests in the checks, and `hit` the
redemptions that a fault left without a way to an outcome. The code lets each of
these happen, and the properties leave them out: nothing is shown of the payments and
the outcome of a contended redemption, of the limit of a crowded user, or that a
redemption in `hit` ever settles. What they do show is that there are no *other*
exceptions.

`RedemptionLedger` is the abstract specification: it knows points, stock, an
outcome and the number of payments, and nothing of requests, messages or
consumers. The refinement mapping reads the outcome off the status.

### FailureTracker, FailureWindow and DynodeMonitor

The tracker's instants are replaced by ages, because the code compares nothing but
`now - instant` with the window and the width of a bucket. `FailureWindow` drives
it next to a log of every request and states what the buckets must stand for.
`latest` is history as well: the latest outcomes since the samples were cleared,
whatever their age, because the code counts failures in a row with a counter that
the window does not touch. `Justified` compares the trigger with `latest` for the
failures in a row and with the log of the window for the rate.

In `DynodeMonitor` URLs are numbers in the order of the configuration, `condition`
is how each node is at the moment and changes at any time, `active` is the shared
URL, `signal` and `permit` are the state of `RequestFailureSignal` and of its
`Notify`, and `monitor` is the task: where it is, the URL the check began with, the
URLs it has seen, those it found usable (`good`) and those left to probe. A check is
cut at every observation, a request at every attempt and between the flag and the
notification, and `wait` between the look at the flag and the await. A future of
`wait` that the timer cancels leaves its permit to the next.

## 3. Runs

| Run | Checks | Bounds | Shows |
|---|---|---|---|
| `keystore_android` | `TypeOK`, `SecretRecoverable`, `DeletedLeavesNoFile`, `UnboundIsStaged`, `OnlyKeyholderReplaces`, `EventuallyShared` | 2 wallets, 1 fault, 0.71 M states | no interruption or failed read loses a kept secret; deletion leaves nothing; a wrong password replaces nothing; every kept wallet reaches the app-wide password |
| `keystore_ios` | `SecretRecoverable`, `DeletedLeavesNoFile`, `UnboundIsStaged`, `SafetyInv`, `FilesInv` | 2 wallets (one legacy Solana), 2 faults, 0.85 M states | the iOS scheme; the inductive invariant of the proofs |
| `tracking_owned` | `TypeOK`, `EntriesOwned` | 2 ids, one replaced by the other, 2 polls, 1 stop, 1 fault | the table never names a poll that ended |
| `tracking_settles` | `PendingSettles` | 2 wallets with the same id, 1 sync, 1 fault | both rows settle for good although one poll runs at a time and a sync opens a row again |
| `pipeline` | `TypeOK`, `NoGap`, `Deep`, `NotifiedOnce`, `Forward`, `CatchesUp` | 5 blocks, queue of 1, 2 faults, skipped errors in the fetch consumer | no block is left out, taken too early or notified twice; the parser reaches the head of the chain and the rest is stored |
| `redemption` | `TypeOK`, `PaidOnce`, `CompletedIsPaid`, `LimitKept`, `ImplementsLedger`, `Settles` | 1 user, 2 requests, 2 options, 2 consumers, 1 fault, 1 retry, 0.35 M states | points and stock are taken together for at most one payment; a completed redemption was paid; of redemptions that are not contended only those in `hit` stay open |
| `failure_window` | `TypeOK`, `Rolling`, `Bounded`, `Justified` | window of 7 with buckets of 2, 6 requests in a window | the buckets are a rolling window in bounded memory; a check is triggered exactly when it should be |
| `dynode_monitor` | `TypeOK`, `SignalFollows`, `OnlyOwnOutcomes`, `BestSeen`, `NoLostWakeup`, `Recovers` | 3 URLs, 1 request at a time with 2 attempts, window of 2 with 2 requests, 0.45 M states | the signal follows the active URL and counts only the outcomes of its own, a check chooses the best URL it saw, the monitor is woken, and the preferred usable URL becomes active |

Violations are disagreements between the code and a document, a comment or a test
of the repository; `PROJECT.json` quotes the lines under `findings`.

| Run | Property | What happens |
|---|---|---|
| `keystore_late_flush` | `SecretRecoverable` | with `LateFlush`, a retry trusts a v4 file whose rename was never synced and removes the v3 file |
| `keystore_reimport` | `OwnedRecoverable` | a migration that cannot verify deletes the v4 file of the same wallet that was deleted and imported again meanwhile |
| `keystore_delete_race` | `DeletedIsGone` | a migration between the two removals of `delete_wallet` stages the secret again |
| `tracking_downgrade` | `NoDowngrade` | a poll with a stale copy writes `inTransit` over the completed state that the merge of a replaced hash had given the row |

Five more disagreements were met while modelling and have no run: a write that is
killed before its rename leaves a temporary file that `delete_wallet` does not
remove (`docs/KEYSTORE_V4.md:240`); the start-up migration creates the app-wide
password although only an import may (`docs/KEYSTORE_V4.md:125`); a second
wallet's copy of a polled transaction is not followed until the next foreground
cycle, because `Tracking.polls` is keyed by the id alone (`tracker.rs:38`); a
stopped poll that was waiting for the node tracks again when the answer replaces
the hash (`tracker.rs:58`); and a threshold that the active URL reaches during a
check starts no cycle, because `check_completed` clears the flag while the cooldown
has begun (`request_failure.rs:77`), although "Dynode also starts a monitoring cycle
when the active URL reaches either configured threshold"
(`docs/DYNODE_MONITORING.md`).

**Why the bounds are enough.** Two wallets are what the maintenance loops need to
have one wallet done, one in progress and the user interface on either; two
faults (`keystore_ios`, `keystore_late_flush`) allow an interruption and a second one
during the retry; the Android run has one because it also checks liveness. In the tracking runs two ids with a
replacement give a poll two entries to own and another poll an entry to lose. In
the pipeline five blocks give plans of two blocks with some left over, both kinds
of plans and a reload, and a queue of one message overflows at once. Two requests
for the last piece and two consumers are what the races of the redemption need, and
one fault puts two copies of a message into play. A window of seven units with
buckets of two is no multiple of the width, so that the oldest bucket reaches over
the edge of the window. Three URLs give a check one before and one after the active
URL, and one request suffices to report for a URL that was replaced meanwhile; the
proofs cover any number of requests at a time. The passing runs take each disjunct
of the next-state relations.

**Fairness.** `Keystore`: a thread that runs an operation goes on (`SF`, because
the queue lock is a mutex that several threads take in turn), and the maintenance
of a launch is started; the apps call it at each launch. Imports and deletions are
never forced. `TransactionTracking`: the app drives the futures it was given, the
clock runs, and `track_pending` is called at each return to the foreground.
`BlockPipeline`: parser and consumers run in loops that restart after errors, the
chain grows, and an operator who switches a parser off switches it on again.
`RewardsRedemption`: a request and a consumer that began go on, and the broker
delivers the messages it holds. `DynodeMonitor`: the timer of the scheduled check
fires and the task of the monitor runs; nothing is assumed of requests. No
fairness is assumed of faults, answers or the order of messages.

## 4. Proofs

`Keystore_proofs` shows, for every finite set of wallets, both platforms,
sequential or concurrent threads and any number of faults, but for `~LateFlush`:

* `Invariance`: `Spec => [](SafetyInv /\ FilesInv)`;
* `TypeCorrect`: `Spec => []TypeOK`, which includes that the queue lock is held
  exactly during a write or a removal;
* `Recoverable`: `Spec => []SecretRecoverable`;
* `DeletedForGood` and `OnlyStagedUnbound`: `Spec => []DeletedLeavesNoFile`,
  `Spec => []UnboundIsStaged`;
* `KeyholderReplaces`: `Spec => OnlyKeyholderReplaces`, an action property.

`SecretRecoverable` speaks of the visible directory only, which no step of the
model preserves by itself: a power loss may replace the directory by any
combination of pending versions. The inductive invariant therefore says (`OwnedInv`)
that for an owned wallet *all* pending versions of its v4 entry, or all of its v3
entry, recover it. To keep that through `RemoveV3` one must know that the v4 entry
is synced when the migration reaches its clean-up, hence `MigrateInv`; for that,
which entries can be unsynced at all (`DiskInv`), hence who holds the lock
(`TypeOK`). `Kept` wallets are meant throughout: one that was deleted under the
maintenance and imported again is in `raced`. `ShareInv` says that the legacy password is forgotten only when every
version of the file opens with the shared one, `PasswordInv` that files sealed with
the shared password exist only after it, `ImportInv` and `DeleteInv` what the user
interface knows of its files, and `RaceInv` that the two threads meet on a wallet
only if it is in `raced`. The assumption `~LateFlush` is needed: with it negated
`keystore_late_flush` is a counterexample.

`SafetyInv` says nothing of files whose wallet is gone or whose secret derives
another id, so the other three need a second invariant, `FilesInv`. The two are
inductive only together: a migration whose verification fails, because the file is
wrong or because the read failed, removes the v4 file, and it is `SourceInv` that
says that the v3 file is still there to recover from. `StageInv` is `UnboundIsStaged` for every version that a
power loss may leave; a rename keeps it only if the file about to be renamed has it
already, hence `ReplaceInv`, which also says that such a file replaces no readable
file or re-encrypts it. `BoundInv` says that `migrate_v3` verifies and undoes only
what it can open, and removes a v3 file only when every version of the v4 file
derives the id; `SourceInv` that the v3 files on its list are still there. `GoneInv`
carries the deletion: an unsynced removal of a v4 file comes with a v3 file, and the
removal of that one syncs the directory.

`KeystoreSteps_proofs` has the facts on tasks and files, the frames of the
invariants (what stays true when a step leaves the directory, or one wallet, alone)
and the steps that preserve `SafetyInv` without changing an entry: the begin of
operations, the launches, rows, passwords and the start of a write.
`KeystoreFiles_proofs` has the steps that preserve `FilesInv`, and `Keystore_proofs`
renames and removals, the v3 import, the directory sync, I/O errors and the
theorems.

`TransactionTracking_proofs` shows, for every set of wallets, ids and polls and
every replacement of hashes:

* `TypeCorrect`: `Spec => []TypeOK`;
* `Owned`: `Spec => []EntriesOwned`.

With the types `EntriesOwned` is inductive as it is. The argument is that `release`
removes every entry that names the poll, not only that of its current id, so that
following a replaced hash never leaves one behind.

`BlockPipeline_proofs` shows, for a chain of any length, any settings of the parser
and of the queues and any number of faults:

* `TypeCorrect`: `Spec => []TypeOK`; a queue exceeds its limit by at most the one
  message that comes back to it;
* `NothingSkipped`, `ConfirmedBlocksOnly` and `NotifiedAtMostOnce`:
  `Spec => []NoGap`, `Spec => []Deep`, `Spec => []NotifiedOnce`;
* `NeverBack`: `Spec => Forward`, an action property.

`NoGap` compares `parser_state` with what was handed on, but the parser publishes a
whole plan before it advances the row. `PlanInv` closes that gap: the plan follows on
the row, keeps its distance from the head, and what it has published is covered, so
the blocks that the row passes at the end are. `RowInv` says that the block the parser
read is still that of the row when the node answers (only the parser writes
`current_block`), so that a first start is the only time the row jumps to the node's.
`DeepInv` is `Deep` for all blocks anywhere between the parser and the store,
`StoreInv` says that what counts as inserted was not notified before, and `QueueInv`
counts the message that a consumer may give back.

`RewardsRedemption_proofs` shows, for any number of users, options, requests,
consumers, retries and faults:

* `TypeCorrect`: `Spec => []TypeOK`, so that points and stock stay natural numbers;
* `PaysOnce` and `CompletesPaid`: `Spec => []PaidOnce`, `Spec => []CompletedIsPaid`;
* `WithinLimit`: `Spec => []LimitKept`;
* `Refinement`: `Spec => ImplementsLedger`.

`PaidOnce` alone is not inductive: a consumer about to transfer must know that the
redemption is unpaid. `StageInv` says what each stage of a consumer implies for the
row and the payments of its redemption, `AloneInv` that two consumers between the
check and the outcome of one redemption make it contended, and `RowInv` ties the
rows to the requests, the messages and the payments. `AloneInv` carries the
argument: the mark takes a redemption out of `Pending`, so a consumer that passes
the check later must have met the other one before its mark. The refinement uses
the same invariant: each step is a step of the ledger or leaves its variables alone. `LimitInv` says for
`LimitKept` that a user who is not crowded has one request in the checks, and that
the count it found below the limit is below it until its row is added.

`DynodeMonitor_proofs` shows, for any number of URLs and of requests at a time, any
thresholds, windows and conditions:

* `TypeCorrect`: `Spec => []TypeOK`; the order of a request's URLs is a permutation;
* `Follows`: `Spec => []SignalFollows`;
* `CountsOwn`: `Spec => OnlyOwnOutcomes`, an action property;
* `ChoosesBest`: `Spec => []BestSeen`;
* `Wakes`: `Spec => []NoLostWakeup`.

The invariant `MonitorInv` adds to the properties that the active URL is the one the
check began with until the check selects (`Tracked`), and what a check has seen so
far (`Cycle`): every URL in its scope is seen or left to probe, and none but the
current one was usable until the last. The scope (the URLs before a usable current
one, else all) is what `observe_nodes` and `select_node` compute each in its own
way; that they agree is the heart of `ChoosesBest`. `NoLostWakeup` is inductive with
the types. `RequestInv` adds the types of the requests; that `get_ordered_urls` loses
no URL is the lemma `OrderedUrlsPermute`.

`FailureWindow_proofs` shows, for any thresholds, any window, any number of buckets
(so also when the window is no multiple of their width) and any load:

* `TypeCorrect`: `Spec => []TypeOK`; the running totals are the sums over the
  buckets, so that the unsigned subtractions of `prune` never underflow;
* `RollingWindow` and `BoundedMemory`: `Spec => []Rolling`, `Spec => []Bounded`;
* `TriggersRightly`: `Spec => Justified`, an action property.

`Rolling` compares two numbers with the log and says nothing of the buckets, and is
far from inductive. The invariant `WindowInv` says how the buckets *fit* the log
(`Fits`): there are running totals `R` and `G` such that the last `R[i]` entries of
the log are the requests of the buckets after the `i`-th (`Sums`, `Counts`), an entry
is at most as old as its bucket and younger by less than a width (`Ages`), and two
buckets are apart by the widths between them (`Spaced`), which bounds their number.
For `Justified` it also says that the counter of failures in a row is the length of
the run of failures that `latest` begins with (`InARow`).
Carrying the running totals as functions also replaces the induction over sequences:
`Total`, the sum in the model, is shown equal to a given running total by looking at
the least place where they would differ. `WindowInv` quantifies over functions to the
natural numbers, which TLC cannot enumerate, so that the run checks its consequences
only.

The assumptions are those of the modules (`WalletsAssumption`,
`TrackingAssumption`, `PipelineAssumption`, `RedemptionAssumption`,
`TrackerAssumption`, `LoadAssumption`, `MonitorAssumption`), which TLC evaluates on
the runs of these modules, and `~LateFlush` for the keystore.

**Only model-checked:** the liveness properties `EventuallyShared`,
`PendingSettles`, `CatchesUp`, `Settles` and `Recovers`: liveness under fairness is
out of the reach of the prover. Every invariant and action property of the passing
runs has a theorem.

## 5. Not modelled, and the plan

Not modelled inside the modelled parts: ciphers, key derivation and signing; file
permissions; errors of the password store and of the wallet database, and a look for
a file that fails and counts as its absence; the intervals between polls and rounds; the filters of the store
consumer (asset type, price, size); several processes of the same parser; a
password store that creates the shared password twice at the same time.

Of the redemption: the checks that only refuse a request (status, username, age,
cooldown), the separate windows of the limits, and the balance and nonce of the
operator's wallet. Of Dynode: telemetry, the building of upstream requests, the
response cache beyond the fact that an answer came from it, and chains with a single
URL, which are never monitored.

Parts without a module, in the order in which they are planned:

1. `RequestCoalescing` and `StreamSubscription`: shared responses when the leader
   is dropped; desired against sent subscriptions over reconnects.
2. `Egress`: cooldown and availability of endpoints. `JobRunner`: two runners of
   the same job.
3. Refinement: `TransactionTracking` against an abstract row that a poll settles;
   `BlockPipeline` against an abstract set of blocks that is handed on once.

Chain crates, signers, formatters, localization and the user interfaces stay out:
they are pure functions over bytes and text, or views.
