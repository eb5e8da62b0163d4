-------------------------- MODULE RewardsRedemption --------------------------
(***************************************************************************)
(* Redeeming reward points: RewardsRedemptionClient of the API server, the *)
(* SQL of crates/storage, the queue rewards_redemptions and                *)
(* RewardsRedemptionConsumer of the daemon, which pays from a wallet of    *)
(* the operator.                                                           *)
(*                                                                         *)
(* Requests run side by side, in one API server or several; so do the      *)
(* consumers.  A request that passes its checks adds one row, so the       *)
(* request also names the redemption.  The checks that only look (status,  *)
(* username, age of the account, referral cooldown) refuse a request       *)
(* without a trace and are left out.                                       *)
(***************************************************************************)
EXTENDS Naturals, FiniteSets

CONSTANTS
    Users, Options, Requests, Workers,
    Cost,           \* [Options -> points]
    Limited,        \* the options whose remaining is not NULL
    Stock,          \* [Limited -> remaining at the start]
    Balance,        \* [Users -> points at the start]
    Awards,         \* RewardEventType::points
    Limit,          \* RedemptionPerUserLimit, all requests in one window
    MaxRetries,     \* RedemptionRetryMaxRetries
    SkipOnError,    \* consumer.error.skip
    MaxEvents,      \* bound on reward events
    MaxFaults       \* bound on faults

ASSUME RedemptionAssumption ==
    /\ Cost \in [Options -> Nat] /\ Limited \subseteq Options
    /\ Stock \in [Limited -> Nat] /\ Balance \in [Users -> Nat]
    /\ Awards \subseteq Nat /\ SkipOnError \in BOOLEAN
    /\ {Limit, MaxRetries, MaxEvents, MaxFaults} \subseteq Nat

VARIABLES
    points,     \* rewards.points
    stock,      \* rewards_redemption_options.remaining
    request,    \* the requests of the API server
    status,     \* rewards_redemptions.status, or "none"
    txid,       \* redemptions with a transaction_id
    queue,      \* [Requests -> copies of its message]
    job,        \* what each consumer works on, or Idle
    transfers,  \* [Requests -> broadcasts that reached the network]
    announced,  \* redemptions with an in-app notification
    contended,  \* history: redemptions that two consumers found pending at once
    crowded,    \* history: users with two requests in the checks at once
    hit,        \* history: redemptions that a fault may leave unsettled
    count       \* events and faults so far

vars == <<points, stock, request, status, txid, queue, job, transfers,
          announced, contended, crowded, hit, count>>
accounts == <<points, stock>>
rows == <<status, txid>>
history == <<contended, crowded, hit>>

Idle == [at |-> "idle"]
JobOf == [at : {"check", "begin", "load", "transfer", "txid", "complete", "announce", "fail", "ack"},
          id : Requests, connected : BOOLEAN, attempt : 0 .. MaxRetries]
RequestOf == [at : {"new"}] \union
             [at : {"limits", "validate", "store", "publish", "done"}, user : Users, option : Options]

Fault == count.faults < MaxFaults /\ count' = [count EXCEPT !.faults = @ + 1]
\* ok, or a fault
Maybe(ok) == IF ok THEN UNCHANGED count ELSE Fault

Go(w, stage) == job' = [job EXCEPT ![w].at = stage]
At(w, stage) == job[w].at = stage

-----------------------------------------------------------------------------
(* The API server.                                                         *)

\* add_event: other parts of the program reward a user.
AddEvent(u, n) ==
    /\ count.events < MaxEvents /\ count' = [count EXCEPT !.events = @ + 1]
    /\ points' = [points EXCEPT ![u] = @ + n]
    /\ UNCHANGED <<stock, request, rows, queue, job, transfers, announced, history>>

Checking(u) == {r \in Requests : request[r].at \in {"limits", "validate", "store"} /\ request[r].user = u}
Redemptions(u) == {r \in Requests : status[r] # "none" /\ request[r].user = u}

Redeem(r, u, o) ==
    /\ request[r].at = "new"
    /\ request' = [request EXCEPT ![r] = [at |-> "limits", user |-> u, option |-> o]]
    /\ crowded' = IF Checking(u) = {} THEN crowded ELSE crowded \union {u}
    /\ UNCHANGED <<accounts, rows, queue, job, transfers, announced, contended, hit, count>>

\* Mutant of CheckRedemptionLimits: the limit is compared with >.
CheckLimitsOffByOne(r) ==
    /\ request[r].at = "limits"
    /\ request' = [request EXCEPT ![r].at =
           IF Cardinality(Redemptions(request[r].user)) > Limit THEN "done" ELSE "validate"]
    /\ UNCHANGED <<accounts, rows, queue, job, transfers, announced, history, count>>

CheckRedemptionLimits(r) ==
    /\ request[r].at = "limits"
    /\ request' = [request EXCEPT ![r].at =
           IF Cardinality(Redemptions(request[r].user)) >= Limit THEN "done" ELSE "validate"]
    /\ UNCHANGED <<accounts, rows, queue, job, transfers, announced, history, count>>

Affordable(u, o) == points[u] >= Cost[o]
Available(o) == o \in Limited => stock[o] > 0

\* add_redemption of the repository: the option and the points are read.
Validate(r) ==
    /\ request[r].at = "validate"
    /\ request' = [request EXCEPT ![r].at =
           IF Affordable(request[r].user, request[r].option) /\ Available(request[r].option)
           THEN "store" ELSE "done"]
    /\ UNCHANGED <<accounts, rows, queue, job, transfers, announced, history, count>>

\* Mutant of Granted: the update of the option has no condition on remaining.
GrantedUnguarded(r) == Affordable(request[r].user, request[r].option)

\* the conditions of the two updates
Granted(r) == Affordable(request[r].user, request[r].option) /\ Available(request[r].option)

\* add_redemption of the database: one transaction, or nothing.
Store(r, ok) ==
    LET u == request[r].user
        o == request[r].option
    IN  /\ request[r].at = "store" /\ Maybe(ok)
        /\ IF ok /\ Granted(r)
           THEN /\ points' = [points EXCEPT ![u] = @ - Cost[o]]
                /\ stock' = IF o \in Limited THEN [stock EXCEPT ![o] = @ - 1] ELSE stock
                /\ status' = [status EXCEPT ![r] = "Pending"]
                /\ request' = [request EXCEPT ![r].at = "publish"]
           ELSE /\ request' = [request EXCEPT ![r].at = "done"]
                /\ UNCHANGED <<accounts, status>>
        /\ UNCHANGED <<txid, queue, job, transfers, announced, history>>

\* publish_rewards_redemption: the producer publishes again after an error, so
\* the broker may take the message twice; or it refuses the message, the
\* producer gives up or the process ends, and the message is lost.
PublishRedemption(r, copies) ==
    /\ request[r].at = "publish" /\ Maybe(copies = 1)
    /\ request' = [request EXCEPT ![r].at = "done"]
    /\ queue' = [queue EXCEPT ![r] = @ + copies]
    /\ hit' = IF copies = 0 THEN hit \union {r} ELSE hit
    /\ UNCHANGED <<accounts, rows, job, transfers, announced, contended, crowded>>

-----------------------------------------------------------------------------
(* The broker and the consumers.                                           *)

Deliver(w, r) ==
    /\ At(w, "idle") /\ queue[r] > 0
    /\ queue' = [queue EXCEPT ![r] = @ - 1]
    /\ job' = [job EXCEPT ![w] = [at |-> "check", id |-> r, connected |-> TRUE, attempt |-> 0]]
    /\ UNCHANGED <<accounts, request, rows, transfers, announced, history, count>>

\* Another consumer found the redemption pending and has not marked it yet.
Contended(w) == \E v \in Workers \ {w} : At(v, "begin") /\ job[v].id = job[w].id

should_process(r) == status[r] = "Pending"

ShouldProcess(w) ==
    /\ At(w, "check")
    /\ Go(w, IF should_process(job[w].id) THEN "begin" ELSE "ack")
    /\ contended' = IF should_process(job[w].id) /\ Contended(w) THEN contended \union {job[w].id} ELSE contended
    /\ UNCHANGED <<accounts, request, rows, queue, transfers, announced, crowded, hit, count>>

MarkProcessing(w) ==
    /\ At(w, "begin")
    /\ status' = [status EXCEPT ![job[w].id] = "Processing"]
    /\ Go(w, "load")
    /\ UNCHANGED <<accounts, request, txid, queue, transfers, announced, history, count>>

\* The address of the user and the option are read.
Load(w) ==
    /\ At(w, "load")
    /\ Go(w, "transfer")
    /\ UNCHANGED <<accounts, request, rows, queue, transfers, announced, history, count>>

Answers == {"paid", "rejected", "retryable", "lost"}

\* Mutant of is_retryable: a transfer without an answer is tried again.
RetryLost(answer) == answer \in {"retryable", "lost"}

\* RedemptionRetryErrors holds what a node says of a transaction it rejects.
is_retryable(answer) == answer = "retryable"

\* One attempt of process_with_retry: execute_transfer signs and broadcasts.
\* A broadcast whose answer is lost has reached the network all the same.
Transfer(w, answer) ==
    /\ At(w, "transfer") /\ Maybe(answer # "lost")
    /\ transfers' = [transfers EXCEPT ![job[w].id] = @ + (IF answer \in {"paid", "lost"} THEN 1 ELSE 0)]
    /\ job' = [job EXCEPT ![w] =
           IF answer = "paid" THEN [job[w] EXCEPT !.at = "txid"]
           ELSE IF is_retryable(answer) /\ job[w].attempt < MaxRetries
           THEN [job[w] EXCEPT !.attempt = job[w].attempt + 1]
           ELSE [job[w] EXCEPT !.at = "fail"]]
    /\ UNCHANGED <<accounts, request, rows, queue, announced, history>>

\* Mutant of WriteTransactionId: update_redemption is given the status first.
WriteStatusFirst(w) ==
    /\ At(w, "txid")
    /\ status' = [status EXCEPT ![job[w].id] = "Completed"]
    /\ Go(w, "complete")
    /\ UNCHANGED <<accounts, request, txid, queue, transfers, announced, history, count>>

\* update_redemption writes one field after the other.
WriteTransactionId(w) ==
    /\ At(w, "txid")
    /\ txid' = txid \union {job[w].id}
    /\ Go(w, "complete")
    /\ UNCHANGED <<accounts, request, status, queue, transfers, announced, history, count>>

WriteCompleted(w) ==
    /\ At(w, "complete")
    /\ status' = [status EXCEPT ![job[w].id] = "Completed"]
    /\ Go(w, "announce")
    /\ UNCHANGED <<accounts, request, txid, queue, transfers, announced, history, count>>

\* The errors of StorePendingTransactions are ignored; so is a notification
\* that the broker refuses.
Announce(w, ok) ==
    /\ At(w, "announce") /\ Maybe(ok)
    /\ announced' = IF ok THEN announced \union {job[w].id} ELSE announced
    /\ Go(w, "ack")
    /\ UNCHANGED <<accounts, request, rows, queue, transfers, history>>

\* Mutant of WriteFailed: a failed redemption gives the points back.
RefundFailed(w) ==
    LET r == request[job[w].id]
    IN  /\ At(w, "fail")
        /\ status' = [status EXCEPT ![job[w].id] = "Failed"]
        /\ points' = [points EXCEPT ![r.user] = @ + Cost[r.option]]
        /\ Go(w, "ack")
        /\ UNCHANGED <<stock, request, txid, queue, transfers, announced, history, count>>

WriteFailed(w) ==
    /\ At(w, "fail")
    /\ status' = [status EXCEPT ![job[w].id] = "Failed"]
    /\ Go(w, "ack")
    /\ UNCHANGED <<accounts, request, txid, queue, transfers, announced, history, count>>

\* Mutant of Finish: a nack does not ask for the message to be queued again.
FinishDropped(w, requeue) == UNCHANGED queue /\ job' = [job EXCEPT ![w] = Idle]

\* The consumer ends its work on a message: an ack takes it off the broker, a
\* nack puts it back.  Without a connection neither arrives.
Finish(w, requeue) ==
    /\ queue' = IF requeue /\ job[w].connected THEN [queue EXCEPT ![job[w].id] = @ + 1] ELSE queue
    /\ job' = [job EXCEPT ![w] = Idle]

Ack(w) ==
    /\ At(w, "ack")
    /\ Finish(w, FALSE)
    /\ UNCHANGED <<accounts, request, rows, transfers, announced, history, count>>

\* Between the mark and its outcome a redemption is not taken up again.
Stranded(w) == IF job[w].at \in {"check", "begin", "announce", "ack"} THEN {} ELSE {job[w].id}

\* A query, an update or a publication fails and process returns the error.
ProcessError(w) ==
    /\ job[w].at \in {"check", "begin", "load", "txid", "complete", "announce", "fail"} /\ Fault
    /\ Finish(w, ~SkipOnError)
    /\ hit' = hit \union (IF SkipOnError THEN {job[w].id} ELSE Stranded(w))
    /\ UNCHANGED <<accounts, request, rows, transfers, announced, contended, crowded>>

\* The consumer's process ends; the broker delivers the message again.
Crash(w) ==
    /\ ~At(w, "idle") /\ Fault
    /\ Finish(w, TRUE)
    /\ hit' = hit \union Stranded(w)
    /\ UNCHANGED <<accounts, request, rows, transfers, announced, contended, crowded>>

\* The connection breaks while the consumer works on: the broker delivers the
\* message again, to any consumer that is free.
Disconnect(w) ==
    /\ ~At(w, "idle") /\ job[w].connected /\ Fault
    /\ job' = [job EXCEPT ![w].connected = FALSE]
    /\ queue' = [queue EXCEPT ![job[w].id] = @ + 1]
    /\ UNCHANGED <<accounts, request, rows, transfers, announced, history>>

\* A full queue drops its oldest message.
Drop(r) ==
    /\ queue[r] > 0 /\ Fault
    /\ queue' = [queue EXCEPT ![r] = @ - 1]
    /\ hit' = hit \union {r}
    /\ UNCHANGED <<accounts, request, rows, job, transfers, announced, contended, crowded>>

-----------------------------------------------------------------------------
Init ==
    /\ points = Balance /\ stock = Stock
    /\ request = [r \in Requests |-> [at |-> "new"]]
    /\ status = [r \in Requests |-> "none"] /\ txid = {}
    /\ queue = [r \in Requests |-> 0] /\ job = [w \in Workers |-> Idle]
    /\ transfers = [r \in Requests |-> 0] /\ announced = {}
    /\ contended = {} /\ crowded = {} /\ hit = {}
    /\ count = [events |-> 0, faults |-> 0]

RequestStep(r) ==
    \/ CheckRedemptionLimits(r)
    \/ Validate(r)
    \/ \E ok \in BOOLEAN : Store(r, ok)
    \/ \E copies \in 0 .. 2 : PublishRedemption(r, copies)

WorkerStep(w) ==
    \/ ShouldProcess(w)
    \/ MarkProcessing(w)
    \/ Load(w)
    \/ \E answer \in Answers : Transfer(w, answer)
    \/ WriteTransactionId(w)
    \/ WriteCompleted(w)
    \/ \E ok \in BOOLEAN : Announce(w, ok)
    \/ WriteFailed(w)
    \/ Ack(w)

WorkerFault(w) == ProcessError(w) \/ Crash(w) \/ Disconnect(w)

Next ==
    \/ \E u \in Users, n \in Awards : AddEvent(u, n)
    \/ \E r \in Requests, u \in Users, o \in Options : Redeem(r, u, o)
    \/ \E r \in Requests : RequestStep(r) \/ Drop(r)
    \/ \E w \in Workers, r \in Requests : Deliver(w, r)
    \/ \E w \in Workers : WorkerStep(w) \/ WorkerFault(w)

Spec == Init /\ [][Next]_vars

\* Requests and consumers that began go on, and the broker delivers what it holds.
FairSpec ==
    /\ Spec
    /\ \A r \in Requests : WF_vars(RequestStep(r)) /\ WF_vars(\E w \in Workers : Deliver(w, r))
    /\ \A w \in Workers : WF_vars(WorkerStep(w))

-----------------------------------------------------------------------------
(* Properties.                                                             *)

\* The types.  Points and remaining pieces never become negative, however the
\* requests interleave: the conditions of the two SQL updates of add_redemption
\* hold when they are applied, not only when they were read before.
TypeOK ==
    /\ points \in [Users -> Nat] /\ stock \in [Limited -> Nat]
    /\ request \in [Requests -> RequestOf]
    /\ status \in [Requests -> {"none", "Pending", "Processing", "Completed", "Failed"}]
    /\ queue \in [Requests -> Nat] /\ job \in [Workers -> {Idle} \union JobOf]
    /\ transfers \in [Requests -> Nat]
    /\ txid \subseteq Requests /\ announced \subseteq Requests
    /\ contended \subseteq Requests /\ crowded \subseteq Users /\ hit \subseteq Requests
    /\ count \in [events : 0 .. MaxEvents, faults : 0 .. MaxFaults]

\* A redemption is paid at most once although its message is published twice,
\* delivered again after a crash, an error or a broken connection, and a transfer
\* is retried (RewardsRedemptionConsumer), unless two consumers found it pending
\* at the same time.
PaidOnce == \A r \in Requests \ contended : transfers[r] <= 1

\* A redemption that counts as completed was paid and names its transaction,
\* and only such a redemption is announced to the user: update_redemption writes
\* the transaction id before the status.  Redemptions that two consumers found
\* pending at the same time are excepted: the one may complete and announce what
\* the other then marks, pays again or fails.
CompletedIsPaid ==
    \A r \in Requests \ contended :
        /\ status[r] = "Completed" => r \in txid /\ transfers[r] = 1
        /\ r \in announced => status[r] = "Completed"

\* No user goes past RedemptionPerUserLimit unless two of their requests were in
\* the checks of redeem_by_wallet_id at the same time.
LimitKept == \A u \in Users \ crowded : Cardinality(Redemptions(u)) <= Limit

Outcome(s) ==
    CASE s = "none" -> "none"
      [] s \in {"Pending", "Processing"} -> "open"
      [] s = "Completed" -> "completed"
      [] s = "Failed" -> "failed"

Ledger == INSTANCE RedemptionLedger WITH outcome <- [r \in Requests |-> Outcome(status[r])]

\* The API server, the database and the consumers together implement the ledger:
\* points and stock are taken together with adding the redemption and by nothing
\* else, a payment and an outcome follow once, and an outcome is final.
ImplementsLedger == Ledger!Spec

\* A redemption whose points were taken is completed or failed in the end.  A
\* message that comes back before the redemption is marked is processed again;
\* only a lost message or a fault after the mark leaves a redemption open.  A
\* contended one is excepted as well.
Settles ==
    \A r \in Requests :
        status[r] = "Pending" ~> (status[r] \in {"Completed", "Failed"} \/ r \in hit \union contended)
=============================================================================
