----------------------- MODULE RewardsRedemption_proofs -----------------------
(***************************************************************************)
(* Redeeming reward points, for any number of users, options, requests,    *)
(* consumers and faults: the types, PaidOnce, CompletedIsPaid, LimitKept,  *)
(* and that RewardsRedemption implements RedemptionLedger.                 *)
(*                                                                         *)
(* The invariant says what a consumer knows of its redemption at each      *)
(* stage (StageInv), that only one consumer is between the check and the   *)
(* outcome (AloneInv), and what the rows hold (RowInv).  LimitInv adds     *)
(* what the requests between the limit check and the insert may still add. *)
(***************************************************************************)
EXTENDS RewardsRedemption, FiniteSetTheorems, TLAPS

\* Most leaves are first-order; those that need arithmetic or records name SMT.
USE Zenon

\* The consumer is between finding a redemption pending and its outcome.
Active(w) == job[w].at \in {"begin", "load", "transfer", "txid", "complete", "fail"}

StageInv ==
    \A w \in Workers : ~At(w, "idle") =>
        /\ status[job[w].id] # "none"
        /\ job[w].id \notin contended =>
             /\ At(w, "begin") => status[job[w].id] = "Pending"
             /\ Active(w) /\ ~At(w, "begin") => status[job[w].id] = "Processing"
             /\ job[w].at \in {"load", "transfer"} => transfers[job[w].id] = 0
             /\ job[w].at \in {"txid", "complete"} => transfers[job[w].id] = 1
             /\ At(w, "complete") => job[w].id \in txid
             /\ At(w, "announce") => status[job[w].id] = "Completed"

AloneInv ==
    \A v, w \in Workers :
        v # w /\ Active(v) /\ Active(w) /\ job[v].id = job[w].id => job[w].id \in contended

RowInv ==
    \A r \in Requests :
        /\ request[r].at \in {"new", "limits", "validate", "store"} => status[r] = "none"
        /\ request[r].at = "publish" => status[r] # "none"
        /\ status[r] = "none" => queue[r] = 0 /\ transfers[r] = 0 /\ r \notin contended /\ r \notin announced
        /\ r \notin contended =>
             /\ transfers[r] <= 1
             /\ status[r] = "Pending" => transfers[r] = 0
             /\ status[r] = "Completed" => r \in txid /\ transfers[r] = 1
             /\ r \in announced => status[r] = "Completed"

SafetyInv == TypeOK /\ StageInv /\ AloneInv /\ RowInv

Stages == {"check", "begin", "load", "transfer", "txid", "complete", "announce", "fail", "ack"}

-----------------------------------------------------------------------------
(* Jobs and requests as records.                                           *)

\* A consumer that is not idle has a job with all fields.
LEMMA JobFields ==
  ASSUME TypeOK, NEW w \in Workers, ~At(w, "idle")
  PROVE  /\ job[w] \in JobOf
         /\ job[w].id \in Requests /\ job[w].at \in Stages
         /\ job[w].connected \in BOOLEAN /\ job[w].attempt \in 0 .. MaxRetries
<1>1. job[w] \in {Idle} \union JobOf
  BY DEF TypeOK
<1>2. job[w] # Idle
  BY SMT DEF At, Idle
<1> QED
  BY <1>1, <1>2 DEF JobOf, Stages

\* Moving a consumer to another stage keeps its job and those of the others.
LEMMA GoFacts ==
  ASSUME TypeOK, NEW w \in Workers, ~At(w, "idle"), NEW s \in Stages, Go(w, s)
  PROVE  /\ job' \in [Workers -> {Idle} \union JobOf]
         /\ job'[w].at = s /\ job'[w].id = job[w].id
         /\ \A v \in Workers : v # w => job'[v] = job[v]
<1>1. job[w] \in JobOf
  BY JobFields
<1>2. job' = [job EXCEPT ![w] = [job[w] EXCEPT !.at = s]] /\ job \in [Workers -> {Idle} \union JobOf]
  BY DEF Go, TypeOK
<1>3. [job[w] EXCEPT !.at = s] \in JobOf /\ [job[w] EXCEPT !.at = s].at = s /\ [job[w] EXCEPT !.at = s].id = job[w].id
  BY <1>1 DEF JobOf, Stages
<1> QED
  BY <1>2, <1>3

\* A request that has begun has a user and an option, and a change of its stage
\* keeps them.
LEMMA RequestFields ==
  ASSUME TypeOK, NEW r \in Requests, request[r].at # "new"
  PROVE  /\ request[r] \in [at : {"limits", "validate", "store", "publish", "done"}, user : Users, option : Options]
         /\ request[r].user \in Users /\ request[r].option \in Options
BY DEF TypeOK, RequestOf

\* The stage of one request changes.
LEMMA RequestMoves ==
  ASSUME TypeOK, NEW r \in Requests, request[r].at # "new",
         NEW s \in {"limits", "validate", "store", "publish", "done"},
         request' = [request EXCEPT ![r].at = s]
  PROVE  /\ request' \in [Requests -> RequestOf]
         /\ request'[r].at = s
         /\ \A q \in Requests : q # r => request'[q] = request[q]
<1>1. request[r] \in [at : {"limits", "validate", "store", "publish", "done"}, user : Users, option : Options]
  BY RequestFields
<1>2. request' = [request EXCEPT ![r] = [request[r] EXCEPT !.at = s]] /\ request \in [Requests -> RequestOf]
  BY DEF TypeOK
<1>3. [request[r] EXCEPT !.at = s] \in RequestOf /\ [request[r] EXCEPT !.at = s].at = s
  BY <1>1 DEF RequestOf
<1> QED
  BY <1>2, <1>3

\* The count of events and faults stays within its bounds.
LEMMA CountStays ==
  ASSUME TypeOK, UNCHANGED count \/ Fault
  PROVE  count' \in [events : 0 .. MaxEvents, faults : 0 .. MaxFaults]
BY SMT, RedemptionAssumption DEF TypeOK, Fault

\* What the frames below leave alone.
Untouched == UNCHANGED <<points, stock, request, status, txid, transfers, announced, contended>>

\* A step that only moves messages, and ends or begins a check, keeps the invariant.
LEMMA QuietStep ==
  ASSUME SafetyInv, Untouched,
         queue' \in [Requests -> Nat], job' \in [Workers -> {Idle} \union JobOf],
         crowded' \subseteq Users, hit' \subseteq Requests,
         count' \in [events : 0 .. MaxEvents, faults : 0 .. MaxFaults],
         \A r \in Requests : status[r] = "none" => queue'[r] = 0,
         \A w \in Workers :
             \/ job'[w].at = job[w].at /\ job'[w].id = job[w].id
             \/ job'[w].at = "idle"
             \/ job'[w].at \in {"check", "ack"} /\ status[job'[w].id] # "none"
             \/ job'[w].at = "transfer" /\ job[w].at = "load" /\ job'[w].id = job[w].id
  PROVE  SafetyInv'
<1>1. TypeOK'
  BY DEF SafetyInv, TypeOK, Untouched
<1>2. StageInv'
  BY ZenonT(60) DEF SafetyInv, StageInv, Untouched, At, Active
<1>3. AloneInv'
  BY SMT DEF SafetyInv, AloneInv, Untouched, Active
<1>4. RowInv'
  BY DEF SafetyInv, RowInv, Untouched
<1> QED
  BY <1>1, <1>2, <1>3, <1>4 DEF SafetyInv

-----------------------------------------------------------------------------
(* The API server.                                                         *)

\* A reward event adds points.
LEMMA AddEventStep ==
  ASSUME SafetyInv, NEW u \in Users, NEW n \in Awards, AddEvent(u, n)
  PROVE  SafetyInv'
<1>1. points' \in [Users -> Nat]
  BY SMT, RedemptionAssumption DEF AddEvent, SafetyInv, TypeOK
<1>2. count' \in [events : 0 .. MaxEvents, faults : 0 .. MaxFaults]
  BY SMT, RedemptionAssumption DEF AddEvent, SafetyInv, TypeOK
<1>3. TypeOK'
  BY <1>1, <1>2 DEF AddEvent, SafetyInv, TypeOK, rows, history
<1>4. StageInv' /\ AloneInv' /\ RowInv'
  BY DEF AddEvent, SafetyInv, StageInv, AloneInv, RowInv, At, Active, rows, history
<1> QED
  BY <1>3, <1>4 DEF SafetyInv

\* A request that only moves on within its checks keeps the invariant.
LEMMA CheckingStep ==
  ASSUME SafetyInv, NEW r \in Requests, request[r].at \in {"new", "limits", "validate", "store"},
         request' \in [Requests -> RequestOf], request'[r].at # "publish",
         \A q \in Requests : q # r => request'[q] = request[q],
         crowded' \subseteq Users, UNCHANGED count \/ Fault,
         UNCHANGED <<points, stock, status, txid, queue, job, transfers, announced, contended, hit>>
  PROVE  SafetyInv'
<1>1. TypeOK'
  BY CountStays DEF SafetyInv, TypeOK
<1>2. StageInv' /\ AloneInv'
  BY DEF SafetyInv, StageInv, AloneInv, At, Active
<1>3. RowInv'
  BY DEF SafetyInv, RowInv
<1> QED
  BY <1>1, <1>2, <1>3 DEF SafetyInv

\* A request begins.
LEMMA RedeemStep ==
  ASSUME SafetyInv, NEW r \in Requests, NEW u \in Users, NEW o \in Options, Redeem(r, u, o)
  PROVE  SafetyInv'
<1>1. [at |-> "limits", user |-> u, option |-> o] \in RequestOf
  BY DEF RequestOf
<1>2. /\ request' \in [Requests -> RequestOf] /\ request'[r].at = "limits"
      /\ \A q \in Requests : q # r => request'[q] = request[q]
  BY <1>1 DEF Redeem, SafetyInv, TypeOK
<1>3. crowded' \subseteq Users
  BY DEF Redeem, SafetyInv, TypeOK
<1> QED
  BY <1>2, <1>3, CheckingStep DEF Redeem, accounts, rows

\* The two checks that look at the database.
LEMMA LookStep ==
  ASSUME SafetyInv, NEW r \in Requests, CheckRedemptionLimits(r) \/ Validate(r)
  PROVE  SafetyInv'
<1>1. request[r].at \in {"limits", "validate"}
      /\ \E s \in {"limits", "validate", "store", "done"} : request' = [request EXCEPT ![r].at = s]
  BY DEF CheckRedemptionLimits, Validate
<1>2. /\ request' \in [Requests -> RequestOf] /\ request'[r].at # "publish"
      /\ \A q \in Requests : q # r => request'[q] = request[q]
  BY <1>1, RequestMoves DEF SafetyInv
<1>3. crowded' \subseteq Users
  BY DEF CheckRedemptionLimits, Validate, history, SafetyInv, TypeOK
<1>4. UNCHANGED <<points, stock, status, txid, queue, job, transfers, announced, contended, hit, count>>
  BY DEF CheckRedemptionLimits, Validate, accounts, rows, history
<1> QED
  BY <1>1, <1>2, <1>3, <1>4, CheckingStep

\* The transaction that takes the points and adds the row.
LEMMA StoreStep ==
  ASSUME SafetyInv, NEW r \in Requests, NEW ok \in BOOLEAN, Store(r, ok)
  PROVE  SafetyInv'
<1> DEFINE u == request[r].user
           o == request[r].option
<1>1. request[r].at = "store" /\ u \in Users /\ o \in Options
  BY RequestFields DEF Store, SafetyInv
<1>2. UNCHANGED count \/ Fault
  BY DEF Store, Maybe
<1>3. UNCHANGED <<txid, queue, job, transfers, announced, contended, crowded, hit>>
  BY DEF Store, history
<1>4. CASE ok /\ Granted(r)
  <2>1. /\ points' = [points EXCEPT ![u] = @ - Cost[o]]
        /\ stock' = IF o \in Limited THEN [stock EXCEPT ![o] = @ - 1] ELSE stock
        /\ status' = [status EXCEPT ![r] = "Pending"]
        /\ request' = [request EXCEPT ![r].at = "publish"]
    BY <1>4 DEF Store
  <2>2. /\ request' \in [Requests -> RequestOf] /\ request'[r].at = "publish"
        /\ \A q \in Requests : q # r => request'[q] = request[q]
    BY <1>1, <2>1, RequestMoves DEF SafetyInv
  <2>3. points' \in [Users -> Nat]
    BY SMT, <1>1, <1>4, <2>1, RedemptionAssumption DEF Granted, Affordable, SafetyInv, TypeOK
  <2>4. stock' \in [Limited -> Nat]
    BY SMT, <1>1, <1>4, <2>1, RedemptionAssumption DEF Granted, Available, SafetyInv, TypeOK
  <2>5. status[r] = "none"
    BY <1>1 DEF SafetyInv, RowInv
  <2>6. TypeOK'
    BY <1>2, <1>3, <2>1, <2>2, <2>3, <2>4, CountStays DEF SafetyInv, TypeOK
  <2>7. \A w \in Workers : ~At(w, "idle") => job[w].id \in Requests /\ job[w].id # r
    BY <2>5, JobFields DEF SafetyInv, StageInv
  <2>8. StageInv'
    BY <1>3, <2>1, <2>7 DEF SafetyInv, TypeOK, StageInv, At, Active
  <2>9. AloneInv'
    BY <1>3 DEF SafetyInv, AloneInv, Active
  <2>10. RowInv'
    BY <1>3, <2>1, <2>2, <2>5 DEF SafetyInv, TypeOK, RowInv
  <2> QED
    BY <2>6, <2>8, <2>9, <2>10 DEF SafetyInv
<1>5. CASE ~(ok /\ Granted(r))
  <2>1. request' = [request EXCEPT ![r].at = "done"] /\ UNCHANGED <<points, stock, status>>
    BY <1>5 DEF Store, accounts
  <2>2. /\ request' \in [Requests -> RequestOf] /\ request'[r].at = "done"
        /\ \A q \in Requests : q # r => request'[q] = request[q]
    BY <1>1, <2>1, RequestMoves DEF SafetyInv
  <2>3. crowded' \subseteq Users
    BY <1>3 DEF SafetyInv, TypeOK
  <2> QED
    BY <1>1, <1>2, <1>3, <2>1, <2>2, <2>3, CheckingStep
<1> QED
  BY <1>4, <1>5

\* The message of a stored redemption reaches the broker, or not.
LEMMA PublishStep ==
  ASSUME SafetyInv, NEW r \in Requests, NEW copies \in 0 .. 2, PublishRedemption(r, copies)
  PROVE  SafetyInv'
<1>1. request[r].at = "publish" /\ request' = [request EXCEPT ![r].at = "done"]
      /\ queue' = [queue EXCEPT ![r] = @ + copies]
  BY DEF PublishRedemption
<1>2. /\ request' \in [Requests -> RequestOf] /\ request'[r].at = "done"
      /\ \A q \in Requests : q # r => request'[q] = request[q]
  BY <1>1, RequestMoves DEF SafetyInv
<1>3. hit' \subseteq Requests /\ (UNCHANGED count \/ Fault)
  BY DEF PublishRedemption, Maybe, SafetyInv, TypeOK
<1>4. UNCHANGED <<points, stock, status, txid, job, transfers, announced, contended, crowded>>
  BY DEF PublishRedemption, accounts, rows
<1>5. TypeOK'
  BY SMT, <1>1, <1>2, <1>3, <1>4, CountStays DEF SafetyInv, TypeOK
<1>6. StageInv' /\ AloneInv'
  BY <1>4 DEF SafetyInv, StageInv, AloneInv, At, Active
<1>7. RowInv'
  BY <1>1, <1>2, <1>4 DEF SafetyInv, TypeOK, RowInv
<1> QED
  BY <1>5, <1>6, <1>7 DEF SafetyInv

-----------------------------------------------------------------------------
(* The broker and the consumers.                                           *)

\* A consumer ends its work on a message.
LEMMA FinishFacts ==
  ASSUME TypeOK, StageInv, RowInv, NEW w \in Workers, ~At(w, "idle"), NEW b \in BOOLEAN, Finish(w, b)
  PROVE  /\ queue' \in [Requests -> Nat] /\ job' \in [Workers -> {Idle} \union JobOf]
         /\ \A r \in Requests : status[r] = "none" => queue'[r] = 0
         /\ job'[w].at = "idle" /\ \A v \in Workers : v # w => job'[v] = job[v]
<1>1. job[w].id \in Requests /\ status[job[w].id] # "none"
  BY JobFields DEF StageInv
<1>2. queue' \in [Requests -> Nat] /\ \A r \in Requests : r # job[w].id => queue'[r] = queue[r]
  BY SMT, <1>1 DEF Finish, TypeOK
<1>3. job' = [job EXCEPT ![w] = Idle]
  BY DEF Finish
<1>4. job' \in [Workers -> {Idle} \union JobOf] /\ job'[w] = Idle /\ \A v \in Workers : v # w => job'[v] = job[v]
  BY <1>3 DEF TypeOK
<1> QED
  BY SMT, <1>1, <1>2, <1>4 DEF RowInv, Idle

\* The broker hands a message to a consumer.
LEMMA DeliverStep ==
  ASSUME SafetyInv, NEW w \in Workers, NEW r \in Requests, Deliver(w, r)
  PROVE  SafetyInv'
<1>1. [at |-> "check", id |-> r, connected |-> TRUE, attempt |-> 0] \in JobOf
  BY SMT, RedemptionAssumption DEF JobOf
<1>2. /\ job' \in [Workers -> {Idle} \union JobOf] /\ job'[w].at = "check" /\ job'[w].id = r
      /\ \A v \in Workers : v # w => job'[v] = job[v]
  BY <1>1 DEF Deliver, SafetyInv, TypeOK
<1>3. queue[r] > 0 /\ queue' = [queue EXCEPT ![r] = @ - 1] /\ queue \in [Requests -> Nat]
  BY DEF Deliver, SafetyInv, TypeOK
<1>4. queue' \in [Requests -> Nat] /\ \A q \in Requests : queue'[q] <= queue[q]
  BY SMT, <1>3
<1>5. status[r] # "none" /\ \A q \in Requests : status[q] = "none" => queue'[q] = 0
  BY SMT, <1>3, <1>4 DEF SafetyInv, RowInv
<1>6. Untouched /\ crowded' \subseteq Users /\ hit' \subseteq Requests /\ UNCHANGED count
  BY DEF Deliver, Untouched, accounts, rows, history, SafetyInv, TypeOK
<1>7. count' \in [events : 0 .. MaxEvents, faults : 0 .. MaxFaults]
  BY <1>6, CountStays DEF SafetyInv
<1> QED
  BY <1>2, <1>4, <1>5, <1>6, <1>7, QuietStep

\* The steps that end the work on a message: an ack, an error, a crash.
LEMMA EndStep ==
  ASSUME SafetyInv, NEW w \in Workers, Ack(w) \/ ProcessError(w) \/ Crash(w)
  PROVE  SafetyInv'
<1>1. ~At(w, "idle") /\ \E b \in BOOLEAN : Finish(w, b)
  BY RedemptionAssumption DEF Ack, ProcessError, Crash, At
<1>2. /\ queue' \in [Requests -> Nat] /\ job' \in [Workers -> {Idle} \union JobOf]
      /\ \A r \in Requests : status[r] = "none" => queue'[r] = 0
      /\ job'[w].at = "idle" /\ \A v \in Workers : v # w => job'[v] = job[v]
  BY <1>1, FinishFacts DEF SafetyInv
<1>3. Untouched /\ crowded' \subseteq Users /\ (UNCHANGED count \/ Fault)
  BY DEF Ack, ProcessError, Crash, Untouched, accounts, rows, history, SafetyInv, TypeOK
<1>4. hit' \subseteq Requests
  <2>1. job[w].id \in Requests /\ hit \subseteq Requests
    BY <1>1, JobFields DEF SafetyInv, TypeOK
  <2>2. hit' \subseteq hit \union {job[w].id}
    BY DEF Ack, ProcessError, Crash, Stranded, history
  <2> QED
    BY <2>1, <2>2
<1>5. count' \in [events : 0 .. MaxEvents, faults : 0 .. MaxFaults]
  BY <1>3, CountStays DEF SafetyInv
<1> QED
  BY <1>2, <1>3, <1>4, <1>5, QuietStep

\* A connection breaks and the message comes back to the queue.
LEMMA DisconnectStep ==
  ASSUME SafetyInv, NEW w \in Workers, Disconnect(w)
  PROVE  SafetyInv'
<1>1. ~At(w, "idle") /\ job[w] \in JobOf /\ job[w].id \in Requests /\ status[job[w].id] # "none"
  BY JobFields DEF Disconnect, SafetyInv, StageInv
<1>2. job' = [job EXCEPT ![w] = [job[w] EXCEPT !.connected = FALSE]]
  BY DEF Disconnect, SafetyInv, TypeOK
<1>3. /\ [job[w] EXCEPT !.connected = FALSE] \in JobOf
      /\ [job[w] EXCEPT !.connected = FALSE].at = job[w].at /\ [job[w] EXCEPT !.connected = FALSE].id = job[w].id
  BY <1>1 DEF JobOf
<1>4. /\ job' \in [Workers -> {Idle} \union JobOf]
      /\ \A v \in Workers : job'[v].at = job[v].at /\ job'[v].id = job[v].id
  BY <1>2, <1>3 DEF SafetyInv, TypeOK
<1>5. queue' \in [Requests -> Nat] /\ \A r \in Requests : r # job[w].id => queue'[r] = queue[r]
  BY SMT, <1>1 DEF Disconnect, SafetyInv, TypeOK
<1>6. \A r \in Requests : status[r] = "none" => queue'[r] = 0
  BY <1>1, <1>5 DEF SafetyInv, RowInv
<1>7. Untouched /\ crowded' \subseteq Users /\ hit' \subseteq Requests /\ (UNCHANGED count \/ Fault)
  BY DEF Disconnect, Untouched, accounts, rows, history, SafetyInv, TypeOK
<1>8. count' \in [events : 0 .. MaxEvents, faults : 0 .. MaxFaults]
  BY <1>7, CountStays DEF SafetyInv
<1> QED
  BY <1>4, <1>5, <1>6, <1>7, <1>8, QuietStep

\* A full queue drops a message.
LEMMA DropStep ==
  ASSUME SafetyInv, NEW r \in Requests, Drop(r)
  PROVE  SafetyInv'
<1>1. queue[r] > 0 /\ queue' = [queue EXCEPT ![r] = @ - 1] /\ queue \in [Requests -> Nat]
  BY DEF Drop, SafetyInv, TypeOK
<1>2. queue' \in [Requests -> Nat] /\ \A q \in Requests : queue'[q] <= queue[q]
  BY SMT, <1>1
<1>3. \A q \in Requests : status[q] = "none" => queue'[q] = 0
  BY SMT, <1>2 DEF SafetyInv, RowInv
<1>4. Untouched /\ UNCHANGED job /\ crowded' \subseteq Users /\ hit' \subseteq Requests /\ (UNCHANGED count \/ Fault)
  BY DEF Drop, Untouched, accounts, rows, SafetyInv, TypeOK
<1>5. count' \in [events : 0 .. MaxEvents, faults : 0 .. MaxFaults] /\ job' \in [Workers -> {Idle} \union JobOf]
  BY <1>4, CountStays DEF SafetyInv, TypeOK
<1> QED
  BY <1>2, <1>3, <1>4, <1>5, QuietStep

\* The address and the option are read.
LEMMA LoadStep ==
  ASSUME SafetyInv, NEW w \in Workers, Load(w)
  PROVE  SafetyInv'
<1>1. At(w, "load") /\ ~At(w, "idle") /\ Go(w, "transfer")
  BY DEF Load, At
<1>2. /\ job' \in [Workers -> {Idle} \union JobOf] /\ job'[w].at = "transfer" /\ job'[w].id = job[w].id
      /\ \A v \in Workers : v # w => job'[v] = job[v]
  BY <1>1, GoFacts DEF SafetyInv, Stages
<1>3. Untouched /\ UNCHANGED <<queue, crowded, hit, count>>
  BY DEF Load, Untouched, accounts, rows, history
<1>4. /\ queue' \in [Requests -> Nat] /\ \A r \in Requests : status[r] = "none" => queue'[r] = 0
      /\ crowded' \subseteq Users /\ hit' \subseteq Requests
      /\ count' \in [events : 0 .. MaxEvents, faults : 0 .. MaxFaults]
  BY <1>3 DEF SafetyInv, TypeOK, RowInv
<1> QED
  BY <1>1, <1>2, <1>3, <1>4, QuietStep DEF At

\* What a step of consumer w knows of the redemption it works on.
LEMMA Working ==
  ASSUME SafetyInv, NEW w \in Workers, ~At(w, "idle")
  PROVE  job[w].id \in Requests /\ status[job[w].id] # "none"
BY JobFields DEF SafetyInv, StageInv

\* Consumer w changes the row of its redemption.  The others do not work on it,
\* or it is contended.
LEMMA RowStep ==
  ASSUME SafetyInv, NEW w \in Workers, Active(w), NEW s \in Stages \ {"begin"}, Go(w, s),
         status' \in [Requests -> {"none", "Pending", "Processing", "Completed", "Failed"}],
         transfers' \in [Requests -> Nat], txid' \subseteq Requests, txid \subseteq txid',
         \A r \in Requests : r # job[w].id =>
             status'[r] = status[r] /\ transfers'[r] = transfers[r] /\ (r \in txid' <=> r \in txid),
         status'[job[w].id] # "none",
         UNCHANGED <<points, stock, request, queue, announced, contended, crowded, hit>>,
         UNCHANGED count \/ Fault,
         job[w].id \notin contended =>
             /\ job[w].id \notin announced
             /\ transfers'[job[w].id] <= 1
             /\ status'[job[w].id] # "Pending"
             /\ status'[job[w].id] = "Completed" => job[w].id \in txid' /\ transfers'[job[w].id] = 1
             /\ s \in {"load", "transfer", "txid", "complete", "fail"} => status'[job[w].id] = "Processing"
             /\ s \in {"load", "transfer"} => transfers'[job[w].id] = 0
             /\ s \in {"txid", "complete"} => transfers'[job[w].id] = 1
             /\ s = "complete" => job[w].id \in txid'
             /\ s = "announce" => status'[job[w].id] = "Completed"
  PROVE  SafetyInv'
<1>1. ~At(w, "idle")
  BY DEF Active, At
<1>2. /\ job' \in [Workers -> {Idle} \union JobOf] /\ job'[w].at = s /\ job'[w].id = job[w].id
      /\ \A v \in Workers : v # w => job'[v] = job[v]
  BY <1>1, GoFacts DEF SafetyInv
<1>3. job[w].id \in Requests /\ status[job[w].id] # "none"
  BY <1>1, Working
<1>4. TypeOK'
  BY <1>2, CountStays DEF SafetyInv, TypeOK
<1>5. RowInv'
  BY SMT, <1>3 DEF SafetyInv, RowInv
<1>6. AloneInv'
  BY SMT, <1>2 DEF SafetyInv, AloneInv, Active
<1>7. StageInv'
  <2> SUFFICES ASSUME NEW v \in Workers, (~At(v, "idle"))'
               PROVE  /\ (status[job[v].id] # "none")'
                      /\ (job[v].id \notin contended)' =>
                           /\ (At(v, "begin") => status[job[v].id] = "Pending")'
                           /\ (Active(v) /\ ~At(v, "begin") => status[job[v].id] = "Processing")'
                           /\ (job[v].at \in {"load", "transfer"} => transfers[job[v].id] = 0)'
                           /\ (job[v].at \in {"txid", "complete"} => transfers[job[v].id] = 1)'
                           /\ (At(v, "complete") => job[v].id \in txid)'
                           /\ (At(v, "announce") => status[job[v].id] = "Completed")'
    BY DEF StageInv
  <2>1. CASE v = w
    BY <1>2, <1>3, <2>1 DEF At, Active, Stages
  <2>2. CASE v # w
    <3>1. job'[v] = job[v] /\ ~At(v, "idle")
      BY <1>2, <2>2 DEF At
    <3>2. job[v].id \in Requests /\ status[job[v].id] # "none"
      BY <3>1, Working
    <3>3. CASE job[v].id # job[w].id
      BY SMT, <3>1, <3>2, <3>3 DEF SafetyInv, StageInv, At, Active
    <3>4. CASE job[v].id = job[w].id
      <4>1. job[w].id \notin contended => ~Active(v) /\ ~At(v, "announce")
        BY <1>1, <2>2, <3>1, <3>4 DEF SafetyInv, AloneInv, StageInv, Active, At
      <4> QED
        BY <3>1, <3>4, <4>1 DEF At, Active
    <3> QED
      BY <3>3, <3>4
  <2> QED
    BY <2>1, <2>2
<1> QED
  BY <1>4, <1>5, <1>6, <1>7 DEF SafetyInv

\* A consumer looks at the status: a pending redemption is taken up.
LEMMA ShouldProcessStep ==
  ASSUME SafetyInv, NEW w \in Workers, ShouldProcess(w)
  PROVE  SafetyInv'
<1>1. ~At(w, "idle") /\ At(w, "check")
  BY DEF ShouldProcess, At
<1>2. job[w].id \in Requests /\ status[job[w].id] # "none"
  BY <1>1, Working
<1>3. UNCHANGED <<points, stock, request, status, txid, queue, transfers, announced, crowded, hit, count>>
  BY DEF ShouldProcess, accounts, rows
<1>4. CASE ~should_process(job[w].id)
  <2>1. Go(w, "ack") /\ UNCHANGED contended
    BY <1>4 DEF ShouldProcess
  <2>2. /\ job' \in [Workers -> {Idle} \union JobOf] /\ job'[w].at = "ack" /\ job'[w].id = job[w].id
        /\ \A v \in Workers : v # w => job'[v] = job[v]
    BY <1>1, <2>1, GoFacts DEF SafetyInv, Stages
  <2>3. /\ queue' \in [Requests -> Nat] /\ \A r \in Requests : status[r] = "none" => queue'[r] = 0
        /\ crowded' \subseteq Users /\ hit' \subseteq Requests
        /\ count' \in [events : 0 .. MaxEvents, faults : 0 .. MaxFaults]
    BY <1>3 DEF SafetyInv, TypeOK, RowInv
  <2>4. Untouched
    BY <1>3, <2>1 DEF Untouched
  <2> QED
    BY <1>2, <2>2, <2>3, <2>4, QuietStep
<1>5. CASE should_process(job[w].id)
  <2>1. Go(w, "begin") /\ contended' = IF Contended(w) THEN contended \union {job[w].id} ELSE contended
    BY <1>5 DEF ShouldProcess
  <2>2. /\ job' \in [Workers -> {Idle} \union JobOf] /\ job'[w].at = "begin" /\ job'[w].id = job[w].id
        /\ \A v \in Workers : v # w => job'[v] = job[v]
    BY <1>1, <2>1, GoFacts DEF SafetyInv, Stages
  <2>3. contended' \subseteq Requests /\ contended \subseteq contended'
    BY <1>2, <2>1 DEF SafetyInv, TypeOK
  <2>4. status[job[w].id] = "Pending"
    BY <1>5 DEF should_process
  <2>5. TypeOK'
    BY <1>3, <2>2, <2>3 DEF SafetyInv, TypeOK
  <2>6. StageInv'
    BY <1>3, <2>2, <2>3, <2>4, ZenonT(60) DEF SafetyInv, StageInv, At, Active
  <2>7. RowInv'
    BY <1>3, <2>1, <2>3, <2>4 DEF SafetyInv, RowInv
  <2>8. \A v \in Workers : v # w /\ Active(v) /\ job[v].id = job[w].id => job[w].id \in contended'
    <3> SUFFICES ASSUME NEW v \in Workers, v # w, Active(v), job[v].id = job[w].id
                 PROVE  job[w].id \in contended'
      OBVIOUS
    <3>1. CASE At(v, "begin")
      BY <2>1, <3>1 DEF Contended
    <3>2. CASE ~At(v, "begin")
      BY <2>3, <2>4, <3>2 DEF SafetyInv, StageInv, Active, At
    <3> QED
      BY <3>1, <3>2
  <2>9. AloneInv'
    BY <2>2, <2>3, <2>8 DEF SafetyInv, AloneInv, Active
  <2> QED
    BY <2>5, <2>6, <2>7, <2>9 DEF SafetyInv
<1> QED
  BY <1>4, <1>5

\* What the invariant says of the redemption of an active consumer.
LEMMA ActiveFacts ==
  ASSUME SafetyInv, NEW w \in Workers, Active(w)
  PROVE  /\ job[w].id \in Requests
         /\ job[w].id \notin contended =>
              /\ job[w].id \notin announced
              /\ At(w, "begin") => transfers[job[w].id] = 0
              /\ ~At(w, "begin") => status[job[w].id] = "Processing"
              /\ job[w].at \in {"load", "transfer"} => transfers[job[w].id] = 0
              /\ job[w].at \in {"txid", "complete"} => transfers[job[w].id] = 1
              /\ At(w, "complete") => job[w].id \in txid
              /\ transfers[job[w].id] <= 1
<1>1. ~At(w, "idle")
  BY DEF Active, At
<1>2. job[w].id \in Requests
  BY <1>1, Working
<1> QED
  BY <1>1, <1>2 DEF SafetyInv, StageInv, RowInv

\* A consumer marks the redemption.
LEMMA MarkProcessingStep ==
  ASSUME SafetyInv, NEW w \in Workers, MarkProcessing(w)
  PROVE  SafetyInv'
<1>1. Active(w) /\ At(w, "begin") /\ Go(w, "load") /\ status' = [status EXCEPT ![job[w].id] = "Processing"]
  BY DEF MarkProcessing, Active, At
<1>2. UNCHANGED <<points, stock, request, queue, announced, contended, crowded, hit, txid, transfers, count>>
  BY SMTT(40) DEF MarkProcessing, accounts, history
<1>3. /\ status' \in [Requests -> {"none", "Pending", "Processing", "Completed", "Failed"}]
      /\ transfers' \in [Requests -> Nat] /\ txid' \subseteq Requests
      /\ status'[job[w].id] = "Processing" /\ \A r \in Requests : r # job[w].id => status'[r] = status[r]
  BY <1>1, <1>2, ActiveFacts DEF SafetyInv, TypeOK
<1> QED
  BY <1>1, <1>2, <1>3, ActiveFacts, RowStep DEF Stages

\* A consumer writes the transaction id.
LEMMA WriteTransactionIdStep ==
  ASSUME SafetyInv, NEW w \in Workers, WriteTransactionId(w)
  PROVE  SafetyInv'
<1>1. Active(w) /\ job[w].at = "txid" /\ Go(w, "complete") /\ txid' = txid \union {job[w].id}
  BY DEF WriteTransactionId, Active, At
<1>2. UNCHANGED <<points, stock, request, queue, announced, contended, crowded, hit, status, transfers, count>>
  BY SMTT(40) DEF WriteTransactionId, accounts, history
<1>3. /\ status' \in [Requests -> {"none", "Pending", "Processing", "Completed", "Failed"}]
      /\ transfers' \in [Requests -> Nat] /\ txid' \subseteq Requests
  BY <1>1, <1>2, ActiveFacts DEF SafetyInv, TypeOK
<1>4. status[job[w].id] # "none"
  BY <1>1, Working DEF At
<1> QED
  BY <1>1, <1>2, <1>3, <1>4, ActiveFacts, RowStep DEF Stages, At

\* A consumer writes an outcome.
LEMMA OutcomeStep ==
  ASSUME SafetyInv, NEW w \in Workers, WriteCompleted(w) \/ WriteFailed(w)
  PROVE  SafetyInv'
<1>1. Active(w) /\ UNCHANGED <<points, stock, request, queue, announced, contended, crowded, hit, txid, transfers, count>>
  BY SMTT(40) DEF WriteCompleted, WriteFailed, Active, At, accounts, history
<1>2. CASE WriteCompleted(w)
  <2>1. job[w].at = "complete" /\ Go(w, "announce") /\ status' = [status EXCEPT ![job[w].id] = "Completed"]
    BY <1>2 DEF WriteCompleted, At
  <2>2. /\ status' \in [Requests -> {"none", "Pending", "Processing", "Completed", "Failed"}]
        /\ transfers' \in [Requests -> Nat] /\ txid' \subseteq Requests
        /\ status'[job[w].id] = "Completed" /\ \A r \in Requests : r # job[w].id => status'[r] = status[r]
    BY <1>1, <2>1, ActiveFacts DEF SafetyInv, TypeOK
  <2> QED
    BY <1>1, <2>1, <2>2, ActiveFacts, RowStep DEF Stages, At
<1>3. CASE WriteFailed(w)
  <2>1. job[w].at = "fail" /\ Go(w, "ack") /\ status' = [status EXCEPT ![job[w].id] = "Failed"]
    BY <1>3 DEF WriteFailed, At
  <2>2. /\ status' \in [Requests -> {"none", "Pending", "Processing", "Completed", "Failed"}]
        /\ transfers' \in [Requests -> Nat] /\ txid' \subseteq Requests
        /\ status'[job[w].id] = "Failed" /\ \A r \in Requests : r # job[w].id => status'[r] = status[r]
    BY <1>1, <2>1, ActiveFacts DEF SafetyInv, TypeOK
  <2> QED
    BY <1>1, <2>1, <2>2, ActiveFacts, RowStep DEF Stages, At
<1> QED
  BY <1>2, <1>3

\* What one attempt to pay does: the redemption is paid, fails, or is tried again.
LEMMA TransferFacts ==
  ASSUME SafetyInv, NEW w \in Workers, NEW answer \in Answers, Transfer(w, answer)
  PROVE  /\ Active(w) /\ At(w, "transfer") /\ job[w].id \in Requests
         /\ UNCHANGED <<points, stock, request, status, txid, queue, announced, contended, crowded, hit>>
         /\ UNCHANGED count \/ Fault
         /\ \/ Go(w, "txid") /\ transfers' = [transfers EXCEPT ![job[w].id] = @ + 1]
            \/ Go(w, "fail") /\ transfers' = [transfers EXCEPT ![job[w].id] = @ + 1]
            \/ Go(w, "fail") /\ UNCHANGED transfers
            \/ /\ job' = [job EXCEPT ![w] = [job[w] EXCEPT !.attempt = job[w].attempt + 1]] /\ UNCHANGED transfers
               /\ job[w].attempt < MaxRetries
<1>1. Active(w) /\ At(w, "transfer") /\ (UNCHANGED count \/ Fault)
  BY DEF Transfer, Active, At, Maybe
<1>2. job[w].id \in Requests /\ transfers \in [Requests -> Nat]
  BY <1>1, ActiveFacts DEF SafetyInv, TypeOK
<1>3. UNCHANGED <<points, stock, request, status, txid, queue, announced, contended, crowded, hit>>
  BY DEF Transfer, accounts, rows, history
<1>4. CASE answer \in {"paid", "lost"}
  <2>1. transfers' = [transfers EXCEPT ![job[w].id] = @ + 1]
    BY <1>4 DEF Transfer
  <2>2. Go(w, "txid") \/ Go(w, "fail")
    BY <1>4 DEF Transfer, is_retryable, Go
  <2> QED
    BY <1>1, <1>2, <1>3, <2>1, <2>2
<1>5. CASE answer \in {"rejected", "retryable"}
  <2>1. UNCHANGED transfers
    BY SMT, <1>2, <1>5 DEF Transfer
  <2>2. \/ Go(w, "fail")
        \/ job' = [job EXCEPT ![w] = [job[w] EXCEPT !.attempt = job[w].attempt + 1]] /\ job[w].attempt < MaxRetries
    <3>1. CASE is_retryable(answer) /\ job[w].attempt < MaxRetries
      BY <1>5, <3>1 DEF Transfer
    <3>2. CASE ~(is_retryable(answer) /\ job[w].attempt < MaxRetries)
      BY <1>5, <3>2 DEF Transfer, Go
    <3> QED
      BY <3>1, <3>2
  <2> QED
    BY <1>1, <1>2, <1>3, <2>1, <2>2
<1> QED
  BY <1>4, <1>5 DEF Answers

\* One attempt to pay.
LEMMA TransferStep ==
  ASSUME SafetyInv, NEW w \in Workers, NEW answer \in Answers, Transfer(w, answer)
  PROVE  SafetyInv'
<1>1. /\ Active(w) /\ At(w, "transfer") /\ job[w].id \in Requests
      /\ UNCHANGED <<points, stock, request, status, txid, queue, announced, contended, crowded, hit>>
      /\ UNCHANGED count \/ Fault
  BY TransferFacts
<1>2. status[job[w].id] # "none" /\ ~At(w, "idle")
  BY <1>1, Working DEF At
<1>3. status' \in [Requests -> {"none", "Pending", "Processing", "Completed", "Failed"}] /\ txid' \subseteq Requests
  BY <1>1 DEF SafetyInv, TypeOK
<1>4. ASSUME NEW s \in {"txid", "fail"}, Go(w, s), transfers' = [transfers EXCEPT ![job[w].id] = @ + 1]
      PROVE  SafetyInv'
  <2>1. /\ transfers' \in [Requests -> Nat] /\ transfers'[job[w].id] = transfers[job[w].id] + 1
        /\ \A r \in Requests : r # job[w].id => transfers'[r] = transfers[r]
    BY SMT, <1>1, <1>4 DEF SafetyInv, TypeOK
  <2>2. job[w].id \notin contended => status[job[w].id] = "Processing" /\ job[w].id \notin announced /\ transfers[job[w].id] = 0
    BY <1>1, ActiveFacts DEF At
  <2>3. job[w].id \notin contended => transfers'[job[w].id] = 1 /\ transfers'[job[w].id] <= 1
    BY SMT, <2>1, <2>2
  <2>4. s \in Stages \ {"begin"} /\ s # "complete" /\ s \notin {"load", "transfer"} /\ s # "check" /\ s # "announce" /\ s # "ack"
    BY <1>4 DEF Stages
  <2> QED
    BY <1>1, <1>2, <1>3, <1>4, <2>1, <2>2, <2>3, <2>4, RowStep
<1>5. ASSUME Go(w, "fail"), UNCHANGED transfers
      PROVE  SafetyInv'
  <2>1. transfers' \in [Requests -> Nat]
    BY <1>5 DEF SafetyInv, TypeOK
  <2> QED
    BY <1>1, <1>2, <1>3, <1>5, <2>1, ActiveFacts, RowStep DEF Stages, At
<1>6. ASSUME job' = [job EXCEPT ![w] = [job[w] EXCEPT !.attempt = job[w].attempt + 1]], job[w].attempt < MaxRetries,
             UNCHANGED transfers
      PROVE  SafetyInv'
  <2>1. job[w] \in JobOf /\ job[w].attempt \in 0 .. MaxRetries /\ MaxRetries \in Nat
    BY <1>2, JobFields, RedemptionAssumption DEF SafetyInv
  <2>2. /\ [job[w] EXCEPT !.attempt = job[w].attempt + 1] \in JobOf
        /\ [job[w] EXCEPT !.attempt = job[w].attempt + 1].at = job[w].at /\ [job[w] EXCEPT !.attempt = job[w].attempt + 1].id = job[w].id
    BY SMT, <1>6, <2>1 DEF JobOf
  <2>3. /\ job' \in [Workers -> {Idle} \union JobOf]
        /\ \A v \in Workers : job'[v].at = job[v].at /\ job'[v].id = job[v].id
    BY <1>6, <2>2 DEF SafetyInv, TypeOK
  <2>4. /\ queue' \in [Requests -> Nat] /\ \A r \in Requests : status[r] = "none" => queue'[r] = 0
        /\ crowded' \subseteq Users /\ hit' \subseteq Requests
    BY <1>1 DEF SafetyInv, TypeOK, RowInv
  <2>5. count' \in [events : 0 .. MaxEvents, faults : 0 .. MaxFaults]
    BY <1>1, CountStays DEF SafetyInv
  <2>6. Untouched
    BY <1>1, <1>6 DEF Untouched
  <2> QED
    BY <2>3, <2>4, <2>5, <2>6, QuietStep
<1> QED
  BY <1>4, <1>5, <1>6, TransferFacts

\* A completed redemption is announced.
LEMMA AnnounceStep ==
  ASSUME SafetyInv, NEW w \in Workers, NEW ok \in BOOLEAN, Announce(w, ok)
  PROVE  SafetyInv'
<1>1. At(w, "announce") /\ ~At(w, "idle") /\ Go(w, "ack") /\ (UNCHANGED count \/ Fault)
  BY SMTT(40) DEF Announce, Maybe, At
<1>2. /\ job' \in [Workers -> {Idle} \union JobOf] /\ job'[w].at = "ack" /\ job'[w].id = job[w].id
      /\ \A v \in Workers : v # w => job'[v] = job[v]
  BY <1>1, GoFacts DEF SafetyInv, Stages
<1>3. job[w].id \in Requests /\ status[job[w].id] # "none"
  BY <1>1, Working
<1>4. announced' \subseteq announced \union {job[w].id}
      /\ UNCHANGED <<points, stock, request, status, txid, queue, transfers, contended, crowded, hit>>
  BY SMTT(40) DEF Announce, accounts, rows, history
<1>5. TypeOK'
  BY <1>1, <1>2, <1>3, <1>4, CountStays DEF SafetyInv, TypeOK
<1>6. StageInv'
  BY SMT, <1>2, <1>3, <1>4 DEF SafetyInv, StageInv, At, Active
<1>7. AloneInv'
  BY <1>2, <1>4 DEF SafetyInv, AloneInv, Active
<1>8. job[w].id \in contended \/ status[job[w].id] = "Completed"
  BY <1>1 DEF SafetyInv, StageInv
<1>9. RowInv'
  BY <1>3, <1>4, <1>8 DEF SafetyInv, RowInv
<1> QED
  BY <1>5, <1>6, <1>7, <1>9 DEF SafetyInv

-----------------------------------------------------------------------------
(* The theorems on invariants.                                             *)

\* The initial states satisfy the invariant.
LEMMA InitSafe == Init => SafetyInv
<1> SUFFICES ASSUME Init PROVE SafetyInv
  OBVIOUS
<1>1. \A w \in Workers : job[w] = Idle /\ job[w].at = "idle"
  BY DEF Init, Idle
<1>2. \A r \in Requests : request[r] = [at |-> "new"] /\ request[r].at = "new"
  BY SMTT(40) DEF Init
<1>3. TypeOK
  BY SMT, <1>1, <1>2, RedemptionAssumption DEF Init, TypeOK, RequestOf
<1>4. StageInv /\ AloneInv
  BY <1>1 DEF StageInv, AloneInv, At, Active
<1>5. RowInv
  BY SMT, <1>2 DEF Init, RowInv
<1> QED
  BY <1>3, <1>4, <1>5 DEF SafetyInv

\* Every step preserves the invariant.
LEMMA NextSafe == SafetyInv /\ [Next]_vars => SafetyInv'
<1> SUFFICES ASSUME SafetyInv, [Next]_vars PROVE SafetyInv'
  OBVIOUS
<1>1. ASSUME NEW r \in Requests, RequestStep(r) PROVE SafetyInv'
  BY <1>1, LookStep, StoreStep, PublishStep DEF RequestStep
<1>2. ASSUME NEW w \in Workers, WorkerStep(w) PROVE SafetyInv'
  BY <1>2, ShouldProcessStep, MarkProcessingStep, LoadStep, TransferStep, WriteTransactionIdStep,
     OutcomeStep, AnnounceStep, EndStep DEF WorkerStep
<1>3. ASSUME NEW w \in Workers, WorkerFault(w) PROVE SafetyInv'
  BY <1>3, EndStep, DisconnectStep DEF WorkerFault
<1>4. CASE UNCHANGED vars
  <2>1. UNCHANGED <<points, stock, request, status, txid, queue, job, transfers, announced, contended, crowded, hit, count>>
    BY <1>4 DEF vars
  <2>2. TypeOK'
    BY <2>1 DEF SafetyInv, TypeOK
  <2>3. StageInv' /\ AloneInv' /\ RowInv'
    BY <2>1 DEF SafetyInv, StageInv, AloneInv, RowInv, At, Active
  <2> QED
    BY <2>2, <2>3 DEF SafetyInv
<1> QED
  BY <1>1, <1>2, <1>3, <1>4, AddEventStep, RedeemStep, DropStep, DeliverStep DEF Next

\* The inductive invariant of redeeming points holds in every reachable state.
THEOREM Invariance == Spec => []SafetyInv
BY InitSafe, NextSafe, PTL DEF Spec

\* Points, remaining pieces and all other state keep their types, for any number of
\* users, options, requests and consumers: no interleaving of add_redemption takes
\* points or pieces that are not there.
THEOREM TypeCorrect == Spec => []TypeOK
<1>1. SafetyInv => TypeOK
  BY DEF SafetyInv
<1> QED
  BY <1>1, Invariance, PTL

\* A redemption is paid at most once, whatever is delivered again, retried or
\* interrupted, unless two consumers found it pending at the same time.
THEOREM PaysOnce == Spec => []PaidOnce
<1>1. SafetyInv => PaidOnce
  BY DEF SafetyInv, RowInv, PaidOnce
<1> QED
  BY <1>1, Invariance, PTL

\* A completed redemption was paid and names its transaction, and only a completed
\* one is announced, unless two consumers found the redemption pending at once
\* (RewardsRedemptionConsumer::should_process).
THEOREM CompletesPaid == Spec => []CompletedIsPaid
<1>1. SafetyInv => CompletedIsPaid
  BY DEF SafetyInv, RowInv, CompletedIsPaid
<1> QED
  BY <1>1, Invariance, PTL

-----------------------------------------------------------------------------
(* The refinement.                                                         *)

outcomes == [r \in Requests |-> Outcome(status[r])]

\* A change of one status changes one outcome.
LEMMA OutcomeMoves ==
  ASSUME TypeOK, NEW r \in Requests, NEW s \in {"Pending", "Processing", "Completed", "Failed"},
         status' = [status EXCEPT ![r] = s]
  PROVE  outcomes' = [outcomes EXCEPT ![r] = Outcome(s)]
<1>1. \A q \in Requests : status'[q] = IF q = r THEN s ELSE status[q]
  BY DEF TypeOK
<1>2. \A q \in Requests : Outcome(status'[q]) = IF q = r THEN Outcome(s) ELSE Outcome(status[q])
  BY SMT, <1>1
<1>3. outcomes' = [q \in Requests |-> Outcome(status'[q])] /\ outcomes = [q \in Requests |-> Outcome(status[q])]
  BY DEF outcomes, Outcome
<1> HIDE DEF Outcome
<1> QED
  BY <1>2, <1>3

\* A step that leaves accounts, statuses, payments and contention alone stutters.
LEMMA Stutter ==
  ASSUME UNCHANGED <<points, stock, status, transfers, contended>>
  PROVE  UNCHANGED Ledger!vars
BY DEF Ledger!vars

\* The transaction of add_redemption is a grant.
LEMMA StoreGrants ==
  ASSUME SafetyInv, NEW r \in Requests, NEW ok \in BOOLEAN, Store(r, ok)
  PROVE  [Ledger!Next]_(Ledger!vars)
<1> DEFINE u == request[r].user
           o == request[r].option
<1>1. request[r].at = "store" /\ u \in Users /\ o \in Options
  BY RequestFields DEF Store, SafetyInv
<1>2. CASE ok /\ Granted(r)
  <2>1. /\ points' = [points EXCEPT ![u] = @ - Cost[o]]
        /\ stock' = IF o \in Limited THEN [stock EXCEPT ![o] = @ - 1] ELSE stock
        /\ status' = [status EXCEPT ![r] = "Pending"]
        /\ UNCHANGED <<transfers, contended>>
    BY <1>2 DEF Store, history
  <2>2. status[r] = "none"
    BY <1>1 DEF SafetyInv, RowInv
  <2>3. outcomes' = [outcomes EXCEPT ![r] = "open"] /\ outcomes[r] = "none"
    BY <2>1, <2>2, OutcomeMoves DEF SafetyInv, Outcome, outcomes
  <2>4. points[u] >= Cost[o] /\ (o \in Limited => stock[o] > 0)
    BY <1>2 DEF Granted, Affordable, Available
  <2>5. Ledger!Grant(r, u, o)
    BY <2>1, <2>3, <2>4 DEF Ledger!Grant, outcomes
  <2> QED
    BY <1>1, <2>5 DEF Ledger!Next
<1>3. CASE ~(ok /\ Granted(r))
  BY <1>3, Stutter DEF Store, accounts, history
<1> QED
  BY <1>2, <1>3

\* Finding a redemption pending is a contention or nothing.
LEMMA CheckContends ==
  ASSUME SafetyInv, NEW w \in Workers, ShouldProcess(w)
  PROVE  [Ledger!Next]_(Ledger!vars)
<1>1. job[w].id \in Requests
  BY Working DEF ShouldProcess, At
<1>2. UNCHANGED <<points, stock, status, transfers>>
  BY DEF ShouldProcess, accounts, rows
<1>3. CASE should_process(job[w].id) /\ Contended(w)
  <2>1. contended' = contended \union {job[w].id} /\ status[job[w].id] = "Pending"
    BY <1>3 DEF ShouldProcess, should_process
  <2>2. outcomes[job[w].id] = "open" /\ UNCHANGED outcomes
    BY SMT, <1>1, <1>2, <2>1 DEF outcomes, Outcome
  <2>3. Ledger!Contend(job[w].id)
    BY <1>2, <2>1, <2>2 DEF Ledger!Contend, Ledger!accounts, outcomes
  <2> QED
    BY <1>1, <2>3 DEF Ledger!Next
<1>4. CASE ~(should_process(job[w].id) /\ Contended(w))
  BY <1>2, <1>4, Stutter DEF ShouldProcess
<1> QED
  BY <1>3, <1>4

\* A write of the status by a consumer is a step of the outcome.
LEMMA StatusMoves ==
  ASSUME SafetyInv, NEW w \in Workers, Active(w),
         NEW s \in {"Processing", "Completed", "Failed"}, status' = [status EXCEPT ![job[w].id] = s],
         s = "Processing" <=> At(w, "begin"), s = "Completed" => At(w, "complete"),
         UNCHANGED <<points, stock, transfers, contended>>
  PROVE  [Ledger!Next]_(Ledger!vars)
<1>0. job[w].id \in Requests /\ ~At(w, "idle")
  BY ActiveFacts DEF Active, At
<1>1. PICK r \in Requests : r = job[w].id
  BY <1>0
<1>2. outcomes' = [outcomes EXCEPT ![r] = Outcome(s)]
  <2>1. TypeOK /\ status' = [status EXCEPT ![r] = s] /\ s \in {"Pending", "Processing", "Completed", "Failed"}
    BY <1>1 DEF SafetyInv
  <2> QED
    BY <2>1, OutcomeMoves
<1>3. CASE r \in contended
  <2>1. Outcome(s) \in {"open", "completed", "failed"}
    BY DEF Outcome
  <2>2. Ledger!Unpromised(r)
    BY <1>2, <1>3, <2>1 DEF Ledger!Unpromised, Ledger!accounts, outcomes
  <2> QED
    BY <1>1, <2>2 DEF Ledger!Next
<1>4. CASE r \notin contended /\ s = "Processing"
  <2>1. status[r] = "Pending"
    BY <1>0, <1>1, <1>4 DEF SafetyInv, StageInv
  <2>2. outcomes[r] = "open" /\ Outcome(s) = "open"
    BY <1>1, <1>4, <2>1 DEF outcomes, Outcome
  <2>3. UNCHANGED outcomes
    BY <1>2, <2>2 DEF outcomes
  <2> QED
    BY <2>3 DEF outcomes, Ledger!vars
<1>5. CASE r \notin contended /\ s # "Processing"
  <2>1. status[r] = "Processing" /\ (s = "Completed" => transfers[r] = 1)
    BY <1>1, <1>5, ActiveFacts DEF At
  <2>2. outcomes[r] = "open"
    BY <1>1, <2>1 DEF outcomes, Outcome
  <2>3. CASE s = "Completed"
    <3>1. Ledger!Complete(r)
      BY <1>2, <2>1, <2>2, <2>3 DEF Ledger!Complete, Ledger!accounts, outcomes, Outcome
    <3> QED
      BY <1>1, <3>1 DEF Ledger!Next
  <2>4. CASE s = "Failed"
    <3>1. Ledger!Fail(r)
      BY <1>2, <2>2, <2>4 DEF Ledger!Fail, Ledger!accounts, outcomes, Outcome
    <3> QED
      BY <1>1, <3>1 DEF Ledger!Next
  <2> QED
    BY <1>5, <2>3, <2>4
<1> QED
  BY <1>3, <1>4, <1>5

\* An attempt to pay is a payment or nothing.
LEMMA TransferPays ==
  ASSUME SafetyInv, NEW w \in Workers, NEW answer \in Answers, Transfer(w, answer)
  PROVE  [Ledger!Next]_(Ledger!vars)
<1> DEFINE r == job[w].id
<1>1. /\ Active(w) /\ At(w, "transfer") /\ r \in Requests /\ UNCHANGED <<points, stock, status, contended>>
      /\ \/ UNCHANGED transfers
         \/ transfers' = [transfers EXCEPT ![r] = @ + 1]
  BY TransferFacts
<1>2. CASE UNCHANGED transfers
  BY <1>1, <1>2, Stutter
<1>3. CASE transfers' = [transfers EXCEPT ![r] = @ + 1] /\ r \in contended
  <2>1. Ledger!Unpromised(r)
    BY <1>1, <1>3 DEF Ledger!Unpromised, Ledger!accounts
  <2> QED
    BY <1>1, <2>1 DEF Ledger!Next
<1>4. CASE transfers' = [transfers EXCEPT ![r] = @ + 1] /\ r \notin contended
  <2>1. status[r] = "Processing" /\ transfers[r] = 0
    BY <1>1, <1>4, ActiveFacts DEF At
  <2>2. outcomes[r] = "open" /\ transfers' = [transfers EXCEPT ![r] = 1]
    BY SMT, <1>1, <1>4, <2>1 DEF outcomes, Outcome
  <2>3. Ledger!Pay(r)
    BY <1>1, <2>1, <2>2 DEF Ledger!Pay, Ledger!accounts, outcomes
  <2> QED
    BY <1>1, <2>3 DEF Ledger!Next
<1> QED
  BY <1>1, <1>2, <1>3, <1>4

\* Every step of the program is a step of the ledger or changes nothing in it.
LEMMA NextRefines == SafetyInv /\ [Next]_vars => [Ledger!Next]_(Ledger!vars)
<1> SUFFICES ASSUME SafetyInv, [Next]_vars PROVE [Ledger!Next]_(Ledger!vars)
  OBVIOUS
<1>1. ASSUME NEW u \in Users, NEW n \in Awards, AddEvent(u, n) PROVE [Ledger!Next]_(Ledger!vars)
  <2>1. points' = [points EXCEPT ![u] = @ + n] /\ UNCHANGED <<stock, status, transfers, contended>>
    BY <1>1 DEF AddEvent, rows, history
  <2>2. Ledger!Earn(u, n)
    BY <2>1 DEF Ledger!Earn
  <2> QED
    BY <2>2 DEF Ledger!Next
<1>2. ASSUME NEW r \in Requests, RequestStep(r) \/ Drop(r) PROVE [Ledger!Next]_(Ledger!vars)
  <2>1. ASSUME CheckRedemptionLimits(r) \/ Validate(r) \/ (\E c \in 0 .. 2 : PublishRedemption(r, c)) \/ Drop(r)
        PROVE  UNCHANGED <<points, stock, status, transfers, contended>>
    BY <2>1 DEF CheckRedemptionLimits, Validate, PublishRedemption, Drop, accounts, rows, history
  <2> QED
    BY <1>2, <2>1, StoreGrants, Stutter DEF RequestStep
<1>3. ASSUME NEW w \in Workers, WorkerStep(w) PROVE [Ledger!Next]_(Ledger!vars)
  <2>1. ASSUME Load(w) \/ WriteTransactionId(w) \/ (\E ok \in BOOLEAN : Announce(w, ok)) \/ Ack(w)
        PROVE  UNCHANGED <<points, stock, status, transfers, contended>>
    BY <2>1 DEF Load, WriteTransactionId, Announce, Ack, accounts, rows, history
  <2>2. ASSUME MarkProcessing(w) PROVE [Ledger!Next]_(Ledger!vars)
    <3>1. /\ Active(w) /\ At(w, "begin") /\ status' = [status EXCEPT ![job[w].id] = "Processing"]
          /\ UNCHANGED <<points, stock, transfers, contended>>
      BY <2>2 DEF MarkProcessing, Active, At, accounts, history
    <3> QED
      BY <3>1, StatusMoves
  <2>3. ASSUME WriteCompleted(w) PROVE [Ledger!Next]_(Ledger!vars)
    <3>1. /\ Active(w) /\ At(w, "complete") /\ ~At(w, "begin")
          /\ status' = [status EXCEPT ![job[w].id] = "Completed"]
          /\ UNCHANGED <<points, stock, transfers, contended>>
      BY <2>3 DEF WriteCompleted, Active, At, accounts, history
    <3> QED
      BY <3>1, StatusMoves
  <2>4. ASSUME WriteFailed(w) PROVE [Ledger!Next]_(Ledger!vars)
    <3>1. /\ Active(w) /\ ~At(w, "begin") /\ status' = [status EXCEPT ![job[w].id] = "Failed"]
          /\ UNCHANGED <<points, stock, transfers, contended>>
      BY <2>4 DEF WriteFailed, Active, At, accounts, history
    <3> QED
      BY <3>1, StatusMoves
  <2> QED
    BY <1>3, <2>1, <2>2, <2>3, <2>4, CheckContends, TransferPays, Stutter DEF WorkerStep
<1>4. ASSUME NEW w \in Workers, WorkerFault(w) PROVE UNCHANGED <<points, stock, status, transfers, contended>>
  BY <1>4 DEF WorkerFault, ProcessError, Crash, Disconnect, accounts, rows, history
<1>5. ASSUME NEW r \in Requests, NEW u \in Users, NEW o \in Options, Redeem(r, u, o)
      PROVE  UNCHANGED <<points, stock, status, transfers, contended>>
  BY <1>5 DEF Redeem, accounts, rows
<1>6. ASSUME NEW w \in Workers, NEW r \in Requests, Deliver(w, r)
      PROVE  UNCHANGED <<points, stock, status, transfers, contended>>
  BY <1>6 DEF Deliver, accounts, rows, history
<1>7. CASE UNCHANGED vars
  BY <1>7, Stutter DEF vars
<1> QED
  BY <1>1, <1>2, <1>3, <1>4, <1>5, <1>6, <1>7, Stutter DEF Next

\* The API server, the database, the broker and any number of consumers implement
\* RedemptionLedger, for any number of faults.
THEOREM Refinement == Spec => ImplementsLedger
<1>1. Init => Ledger!Init
  BY DEF Init, Ledger!Init, Outcome
<1> QED
  BY <1>1, NextRefines, Invariance, PTL DEF Spec, ImplementsLedger, Ledger!Spec

-----------------------------------------------------------------------------
(* The limit of redemptions per user.                                      *)

\* A user who is not crowded has one request in the checks, and one that has
\* passed the limit finds the count below it until its row is added.
LimitInv ==
    \A u \in Users :
        /\ IsFiniteSet(Redemptions(u))
        /\ u \notin crowded =>
             /\ Cardinality(Redemptions(u)) <= Limit
             /\ \A q, r \in Checking(u) : q = r
             /\ \A r \in Checking(u) : request[r].at # "limits" => Cardinality(Redemptions(u)) < Limit

\* A change of stage keeps the user of every request.
LEMMA SameUsers ==
  ASSUME TypeOK, NEW r \in Requests, request[r].at # "new",
         NEW s \in {"limits", "validate", "store", "publish", "done"},
         request' = [request EXCEPT ![r].at = s]
  PROVE  /\ request'[r].at = s
         /\ \A q \in Requests : request'[q].user = request[q].user /\ (q # r => request'[q] = request[q])
<1>1. request[r] \in [at : {"limits", "validate", "store", "publish", "done"}, user : Users, option : Options]
  BY RequestFields
<1>2. request' = [request EXCEPT ![r] = [request[r] EXCEPT !.at = s]] /\ request \in [Requests -> RequestOf]
  BY DEF TypeOK
<1>3. [request[r] EXCEPT !.at = s].at = s /\ [request[r] EXCEPT !.at = s].user = request[r].user
  BY <1>1
<1> QED
  BY <1>2, <1>3

\* No row is added and no request enters the checks.
LEMMA LimitFrame ==
  ASSUME SafetyInv, LimitInv, UNCHANGED crowded,
         \A r \in Requests : status'[r] = "none" <=> status[r] = "none",
         \A r \in Requests : request'[r].user = request[r].user,
         \A r \in Requests :
             request'[r].at \in {"limits", "validate", "store"} =>
                 /\ request[r].at \in {"limits", "validate", "store"}
                 /\ request'[r].at # "limits" =>
                       request[r].at # "limits" \/ Cardinality(Redemptions(request[r].user)) < Limit
  PROVE  LimitInv'
<1> SUFFICES ASSUME NEW u \in Users
             PROVE  /\ IsFiniteSet(Redemptions(u))'
                    /\ u \notin crowded =>
                         /\ Cardinality(Redemptions(u))' <= Limit
                         /\ \A q, r \in Checking(u)' : q = r
                         /\ \A r \in Checking(u)' : request'[r].at # "limits" => Cardinality(Redemptions(u))' < Limit
  BY SMTT(40) DEF LimitInv
<1>1. Redemptions(u)' = Redemptions(u)
  BY DEF Redemptions
<1>2. Checking(u)' \subseteq Checking(u)
  BY DEF Checking
<1>3. \A r \in Checking(u)' : /\ r \in Requests /\ request[r].user = u
                              /\ request'[r].at \in {"limits", "validate", "store"}
  BY DEF Checking
<1>4. \A r \in Checking(u)' : request'[r].at # "limits" =>
          request[r].at # "limits" \/ Cardinality(Redemptions(u)) < Limit
  BY <1>3
<1> QED
  BY <1>1, <1>2, <1>4 DEF LimitInv

\* A request enters the checks: alone, or its user is crowded.
LEMMA RedeemLimit ==
  ASSUME SafetyInv, LimitInv, NEW r \in Requests, NEW v \in Users, NEW o \in Options, Redeem(r, v, o)
  PROVE  LimitInv'
<1>1. /\ request[r].at = "new" /\ request' = [request EXCEPT ![r] = [at |-> "limits", user |-> v, option |-> o]]
      /\ crowded' = (IF Checking(v) = {} THEN crowded ELSE crowded \union {v}) /\ UNCHANGED status
  BY DEF Redeem, rows
<1>2. /\ request'[r].at = "limits" /\ request'[r].user = v
      /\ \A q \in Requests : q # r => request'[q] = request[q]
  BY <1>1 DEF SafetyInv, TypeOK
<1>3. status[r] = "none"
  BY <1>1 DEF SafetyInv, RowInv
<1> SUFFICES ASSUME NEW u \in Users
             PROVE  /\ IsFiniteSet(Redemptions(u))'
                    /\ u \notin crowded' =>
                         /\ Cardinality(Redemptions(u))' <= Limit
                         /\ \A p, q \in Checking(u)' : p = q
                         /\ \A q \in Checking(u)' : request'[q].at # "limits" => Cardinality(Redemptions(u))' < Limit
  BY DEF LimitInv
<1>4. Redemptions(u)' = Redemptions(u)
  BY <1>1, <1>2, <1>3 DEF Redemptions
<1>5. u = v \/ Checking(u)' = Checking(u)
  BY <1>1, <1>2 DEF Checking
<1>6. \A q \in Checking(u)' : q = r \/ (q \in Checking(u) /\ request'[q] = request[q])
  BY <1>2 DEF Checking
<1>7. \A q \in Checking(u) : q # r
  BY <1>1 DEF Checking
<1>8. ASSUME u \notin crowded'
      PROVE  /\ u \notin crowded
             /\ \A p, q \in Checking(u)' : p = q
             /\ \A q \in Checking(u)' : request'[q].at # "limits" => Cardinality(Redemptions(u)) < Limit
  <2>1. u \notin crowded /\ (u = v => Checking(u) = {})
    BY <1>1, <1>8
  <2> QED
    BY <1>2, <1>5, <1>6, <1>7, <2>1 DEF LimitInv
<1> QED
  BY <1>4, <1>8 DEF LimitInv

\* The insert of the row that the limit check made room for.
LEMMA StoreLimit ==
  ASSUME SafetyInv, LimitInv, NEW r \in Requests, NEW ok \in BOOLEAN, Store(r, ok)
  PROVE  LimitInv'
<1>1. request[r].at = "store" /\ UNCHANGED crowded
  BY SMTT(40) DEF Store, history
<1>2. CASE ok /\ Granted(r)
  <2>1. status' = [status EXCEPT ![r] = "Pending"] /\ request' = [request EXCEPT ![r].at = "publish"]
    BY <1>2 DEF Store
  <2>2. /\ request'[r].at = "publish"
        /\ \A q \in Requests : request'[q].user = request[q].user /\ (q # r => request'[q] = request[q])
    BY <1>1, <2>1, SameUsers DEF SafetyInv
  <2>3. status'[r] # "none" /\ status[r] = "none" /\ \A q \in Requests : q # r => status'[q] = status[q]
    BY <1>1, <2>1 DEF SafetyInv, TypeOK, RowInv
  <2> SUFFICES ASSUME NEW u \in Users
               PROVE  /\ IsFiniteSet(Redemptions(u))'
                      /\ u \notin crowded =>
                           /\ Cardinality(Redemptions(u))' <= Limit
                           /\ \A p, q \in Checking(u)' : p = q
                           /\ \A q \in Checking(u)' : request'[q].at # "limits" => Cardinality(Redemptions(u))' < Limit
    BY <1>1 DEF LimitInv
  <2>4. Checking(u)' \subseteq Checking(u) /\ r \notin Checking(u)' /\ \A q \in Checking(u)' : request'[q] = request[q]
    BY <2>2 DEF Checking
  <2>5. CASE request[r].user = u
    <3>1. PICK S : S = Redemptions(u) /\ IsFiniteSet(S) /\ r \notin S
      BY <2>3 DEF LimitInv, Redemptions
    <3>2. Redemptions(u)' = S \union {r}
      BY <2>2, <2>3, <2>5, <3>1 DEF Redemptions
    <3>3. IsFiniteSet(S \union {r}) /\ Cardinality(S \union {r}) = Cardinality(S) + 1 /\ Cardinality(S) \in Nat
      BY <3>1, FS_AddElement, FS_CardinalityType
    <3>4. ASSUME u \notin crowded PROVE Cardinality(S) + 1 <= Limit /\ Checking(u)' = {}
      <4>1. r \in Checking(u)
        BY <1>1, <2>5 DEF Checking
      <4>2. Cardinality(S) < Limit /\ \A q \in Checking(u) : q = r
        BY <1>1, <3>1, <3>4, <4>1 DEF LimitInv
      <4> QED
        BY SMT, <2>4, <3>3, <4>2, RedemptionAssumption
    <3> QED
      BY <3>2, <3>3, <3>4
  <2>6. CASE request[r].user # u
    <3>1. Redemptions(u)' = Redemptions(u)
      BY <2>2, <2>3, <2>6 DEF Redemptions
    <3> QED
      BY <2>4, <3>1 DEF LimitInv
  <2> QED
    BY <2>5, <2>6
<1>3. CASE ~(ok /\ Granted(r))
  <2>1. request' = [request EXCEPT ![r].at = "done"] /\ UNCHANGED status
    BY <1>3 DEF Store, accounts
  <2>2. /\ request'[r].at = "done"
        /\ \A q \in Requests : request'[q].user = request[q].user /\ (q # r => request'[q] = request[q])
    BY <1>1, <2>1, SameUsers DEF SafetyInv
  <2> QED
    BY <1>1, <2>1, <2>2, LimitFrame
<1> QED
  BY <1>2, <1>3

\* The other steps of a request.
LEMMA RequestLimit ==
  ASSUME SafetyInv, LimitInv, NEW r \in Requests,
         CheckRedemptionLimits(r) \/ Validate(r) \/ \E copies \in 0 .. 2 : PublishRedemption(r, copies)
  PROVE  LimitInv'
<1> DEFINE full == Cardinality(Redemptions(request[r].user)) >= Limit
<1>1. UNCHANGED <<crowded, status>> /\ request[r].at # "new"
  BY DEF CheckRedemptionLimits, Validate, PublishRedemption, rows, history
<1>2. \E s \in {"validate", "store", "done"} :
        /\ request' = [request EXCEPT ![r].at = s]
        /\ s # "done" => /\ request[r].at \in {"limits", "validate", "store"}
                         /\ request[r].at # "limits" \/ ~full
  BY DEF CheckRedemptionLimits, Validate, PublishRedemption
<1>3. PICK s \in {"validate", "store", "done"} :
        /\ request' = [request EXCEPT ![r].at = s]
        /\ s # "done" => /\ request[r].at \in {"limits", "validate", "store"}
                         /\ request[r].at # "limits" \/ ~full
  BY <1>2
<1>4. /\ request'[r].at = s
      /\ \A q \in Requests : request'[q].user = request[q].user /\ (q # r => request'[q] = request[q])
  BY <1>1, <1>3, SameUsers DEF SafetyInv
<1>5. Limit \in Nat /\ \A u \in Users : Cardinality(Redemptions(u)) \in Nat
  BY RedemptionAssumption, FS_CardinalityType DEF LimitInv
<1>6. ~full => Cardinality(Redemptions(request[r].user)) < Limit
  <2>1. request[r].user \in Users
    BY <1>1, RequestFields DEF SafetyInv
  <2> QED
    BY SMT, <1>5, <2>1
<1> HIDE DEF full
<1> QED
  BY <1>1, <1>3, <1>4, <1>6, LimitFrame

\* A step of a consumer or of the broker adds no row.
LEMMA OtherLimit ==
  ASSUME SafetyInv, LimitInv, UNCHANGED <<request, crowded>>,
         UNCHANGED status \/ \E w \in Workers, s \in {"Processing", "Completed", "Failed"} :
                                ~At(w, "idle") /\ status' = [status EXCEPT ![job[w].id] = s]
  PROVE  LimitInv'
<1>1. \A r \in Requests : status'[r] = "none" <=> status[r] = "none"
  <2>1. ASSUME NEW w \in Workers, NEW s \in {"Processing", "Completed", "Failed"}, ~At(w, "idle"),
               status' = [status EXCEPT ![job[w].id] = s]
        PROVE  \A r \in Requests : status'[r] = "none" <=> status[r] = "none"
    <3>1. job[w].id \in Requests /\ status[job[w].id] # "none"
      BY <2>1, JobFields DEF SafetyInv, StageInv
    <3> QED
      BY <2>1, <3>1 DEF SafetyInv, TypeOK
  <2> QED
    BY <2>1
<1> QED
  BY <1>1, LimitFrame

\* Nobody has redeemed anything at the start.
LEMMA InitLimit == Init => LimitInv
<1> SUFFICES ASSUME Init, NEW u \in Users
             PROVE  /\ IsFiniteSet(Redemptions(u)) /\ Cardinality(Redemptions(u)) <= Limit /\ Checking(u) = {}
  BY DEF LimitInv
<1>1. Redemptions(u) = {} /\ Checking(u) = {}
  BY DEF Init, Redemptions, Checking
<1> QED
  BY SMT, <1>1, FS_EmptySet, RedemptionAssumption

\* LimitInv is inductive on top of SafetyInv.
LEMMA NextLimit == SafetyInv /\ LimitInv /\ [Next]_vars => LimitInv'
<1> SUFFICES ASSUME SafetyInv, LimitInv, [Next]_vars PROVE LimitInv'
  OBVIOUS
<1>1. ASSUME NEW r \in Requests, RequestStep(r) PROVE LimitInv'
  BY <1>1, StoreLimit, RequestLimit DEF RequestStep
<1>2. ASSUME NEW r \in Requests, NEW u \in Users, NEW o \in Options, Redeem(r, u, o) PROVE LimitInv'
  BY <1>2, RedeemLimit
<1>3. ASSUME NEW w \in Workers, WorkerStep(w) PROVE LimitInv'
  <2>1. ASSUME MarkProcessing(w) \/ WriteCompleted(w) \/ WriteFailed(w)
        PROVE  /\ UNCHANGED <<request, crowded>> /\ ~At(w, "idle")
               /\ \E s \in {"Processing", "Completed", "Failed"} : status' = [status EXCEPT ![job[w].id] = s]
    BY <2>1 DEF MarkProcessing, WriteCompleted, WriteFailed, At, history
  <2>2. ASSUME \/ ShouldProcess(w) \/ Load(w) \/ (\E answer \in Answers : Transfer(w, answer))
               \/ WriteTransactionId(w) \/ (\E ok \in BOOLEAN : Announce(w, ok)) \/ Ack(w)
        PROVE  UNCHANGED <<request, crowded, status>>
    BY <2>2 DEF ShouldProcess, Load, Transfer, WriteTransactionId, Announce, Ack, rows, history
  <2> QED
    BY <1>3, <2>1, <2>2, OtherLimit DEF WorkerStep
<1>4. ASSUME NEW w \in Workers, WorkerFault(w) PROVE UNCHANGED <<request, crowded, status>>
  BY <1>4 DEF WorkerFault, ProcessError, Crash, Disconnect, rows, history
<1>5. ASSUME NEW r \in Requests, NEW w \in Workers, Deliver(w, r) \/ Drop(r)
      PROVE  UNCHANGED <<request, crowded, status>>
  BY <1>5 DEF Deliver, Drop, rows, history
<1>6. ASSUME NEW r \in Requests, Drop(r) PROVE UNCHANGED <<request, crowded, status>>
  BY <1>6 DEF Drop, rows, history
<1>7. ASSUME NEW u \in Users, NEW n \in Awards, AddEvent(u, n) PROVE UNCHANGED <<request, crowded, status>>
  BY <1>7 DEF AddEvent, rows, history
<1>8. ASSUME UNCHANGED vars PROVE UNCHANGED <<request, crowded, status>>
  BY <1>8 DEF vars
<1> QED
  BY <1>1, <1>2, <1>3, <1>4, <1>5, <1>6, <1>7, <1>8, OtherLimit DEF Next

\* Counting before adding keeps every user within RedemptionPerUserLimit whose
\* requests were never in the checks at the same time, whatever the requests of
\* the others, the consumers and the faults do.
THEOREM WithinLimit == Spec => []LimitKept
<1>1. LimitInv => LimitKept
  BY DEF LimitInv, LimitKept
<1> QED
  BY <1>1, InitLimit, NextLimit, Invariance, PTL DEF Spec
=============================================================================
