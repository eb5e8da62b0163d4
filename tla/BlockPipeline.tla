---------------------------- MODULE BlockPipeline ----------------------------
(***************************************************************************)
(* From the chain to the stored transactions (apps/daemon, crates/streamer)*)
(* for one chain: the parser that walks the blocks and remembers how far   *)
(* it came in the row parser_state, the queues fetch_blocks and            *)
(* store_transactions, and their consumers.                                *)
(*                                                                         *)
(* A message holds block numbers; the transactions of a block are stored   *)
(* and notified together.  Everything that can fail is a fault, and a      *)
(* process can be ended between any two steps.                             *)
(***************************************************************************)
EXTENDS Integers, Sequences, FiniteSets

CONSTANTS
    MaxBlock,       \* bound on the length of the chain
    TxBlocks,       \* blocks that hold transactions
    Lag,            \* how far behind a node may answer
    AwaitBlocks, ParallelBlocks,   \* parser_state.await_blocks, parallel_blocks
    QueueBehind,    \* parser_state.queue_behind_blocks, NULL as -1
    CatchupReload,  \* ParserCatchupReloadInterval
    SkipOnError,    \* queues whose consumer runs with consumer.error.skip
    QueueLimit,     \* messages within MAX_QUEUE_BYTES
    MaxFaults,      \* bound on faults
    MaxToggles      \* bound on changes of parser_state.is_enabled

Blocks == 1 .. MaxBlock
Queues == {"fetch", "store"}

ASSUME PipelineAssumption ==
    /\ {MaxBlock, Lag, AwaitBlocks, CatchupReload, MaxFaults, MaxToggles} \subseteq Nat
    /\ {ParallelBlocks, QueueLimit} \subseteq Nat \ {0}
    /\ QueueBehind \in Nat \union {-1}
    /\ TxBlocks \subseteq Blocks
    /\ SkipOnError \subseteq Queues

VARIABLES
    head,       \* the last block of the chain
    row,        \* parser_state: current_block, latest_block, is_enabled
    pc,         \* where the parser is
    seen,       \* current_block as start() read it
    plan,       \* the plan that is executed, and the next block to publish
    queue,      \* the two queues: sequences of sets of blocks
    job,        \* what each consumer has taken from its queue, or Nothing
    stored,     \* blocks whose transactions went through the upsert; what process drops of
                \* them (no subscriber, an asset missing or disabled, an amount too small) goes along
    notified,   \* [Blocks -> how often the transactions were notified]
    base,       \* history: the block at which the parser began to follow
    lost,       \* history: blocks whose message was dropped or skipped
    count       \* faults and toggles so far

vars == <<head, row, pc, seen, plan, queue, job, stored, notified, base, lost, count>>
parser == <<row, pc, seen, plan, base>>
database == <<stored, notified>>

NoPlan == [kind |-> "none", first |-> 0, last |-> 0, next |-> 0, remaining |-> 0]
Nothing == [blocks |-> {}, at |-> "idle", inserted |-> {}]

Fault == count.faults < MaxFaults /\ count' = [count EXCEPT !.faults = @ + 1]
\* ok, or a fault that the code lets pass
Maybe(ok) == IF ok THEN UNCHANGED count ELSE Fault

-----------------------------------------------------------------------------
(* The broker.                                                             *)

\* Mutant of Publish: the queues are declared without a limit.
PublishUnlimited(q, blocks, ok) ==
    /\ queue' = [queue EXCEPT ![q] = IF ok THEN Append(@, blocks) ELSE @]
    /\ lost' = lost \union (IF ok THEN {} ELSE blocks)

\* publish: a full queue drops its oldest message.  A message that the broker
\* refuses, or that is written to a connection that breaks, is lost although
\* publish_message returns Ok: its callers ignore the confirmation.
Publish(q, blocks, ok) ==
    LET full == Len(queue[q]) >= QueueLimit
    IN  /\ queue' = [queue EXCEPT ![q] = IF ~ok THEN @ ELSE Append(IF full THEN Tail(@) ELSE @, blocks)]
        /\ lost' = lost \union (IF ~ok THEN blocks ELSE IF full THEN Head(queue[q]) ELSE {})

\* Mutant of publish_transactions: what a payload without transactions in its
\* first block holds is not published.
PublishFirstOnly(blocks, ok) ==
    IF TxBlocks \intersect {b \in blocks : \A c \in blocks : b <= c} = {}
    THEN ok /\ UNCHANGED <<queue, lost>>
    ELSE Publish("store", blocks \intersect TxBlocks, ok)

\* A payload without transactions is not published.
publish_transactions(blocks, ok) ==
    IF blocks \intersect TxBlocks = {}
    THEN ok /\ UNCHANGED <<queue, lost>>
    ELSE Publish("store", blocks \intersect TxBlocks, ok)

-----------------------------------------------------------------------------
(* The parser.                                                             *)

should_reload_catchup(remaining) == CatchupReload > 0 /\ remaining % CatchupReload = 0

MinOf(a, b) == IF a < b THEN a ELSE b

\* Mutant of plan_next_block: the await_blocks last blocks are taken too.
PlanShallow(state) ==
    LET start == state.current + 1
        end == MinOf(start + ParallelBlocks - 1, state.latest)
    IN  IF ~state.enabled \/ end < start THEN NoPlan
        ELSE [kind |-> "parse", first |-> start, last |-> end, next |-> start, remaining |-> state.latest - end]

\* Mutant of plan_next_block: a plan of one block is left for later.
PlanTwoBlocks(state) ==
    LET start == state.current + 1
        end == MinOf(start + ParallelBlocks - 1, state.latest - AwaitBlocks)
        remaining == state.latest - end - AwaitBlocks
    IN  IF ~state.enabled \/ end <= start THEN NoPlan
        ELSE [kind |-> IF QueueBehind >= 0 /\ remaining > QueueBehind THEN "enqueue" ELSE "parse",
              first |-> start, last |-> end, next |-> start, remaining |-> remaining]

plan_next_block(state) ==
    LET start == state.current + 1
        end == MinOf(start + ParallelBlocks - 1, state.latest - AwaitBlocks)
        remaining == state.latest - end - AwaitBlocks
    IN  IF ~state.enabled \/ end < start THEN NoPlan
        ELSE [kind |-> IF QueueBehind >= 0 /\ remaining > QueueBehind THEN "enqueue" ELSE "parse",
              first |-> start, last |-> end, next |-> start, remaining |-> remaining]

ReadState ==
    /\ pc = "top" /\ row.enabled
    /\ pc' = "latest" /\ seen' = row.current
    /\ UNCHANGED <<head, row, plan, queue, job, database, base, lost, count>>

\* start: the parser is ahead of the block from which on await_blocks are left.
Ahead(n) == seen + AwaitBlocks >= n

\* Mutant of GetLatestBlock: the parser follows a node that answers with an old
\* block back to it.
FollowBack(n, okLatest, okCurrent) ==
    /\ pc = "latest" /\ n \in head - Lag .. head /\ n >= 0 /\ okLatest /\ okCurrent
    /\ row' = [row EXCEPT !.latest = n, !.current = IF seen = 0 \/ seen > n THEN n ELSE @]
    /\ base' = IF seen = 0 THEN n ELSE base
    /\ pc' = IF Ahead(n) THEN "top" ELSE "process"
    /\ UNCHANGED <<head, seen, plan, queue, job, database, lost, count>>

\* get_latest_block, and the check for a parser that is ahead.  Both writes
\* may fail unseen.  A row that was never used starts at the latest block.
GetLatestBlock(n, okLatest, okCurrent) ==
    /\ pc = "latest"
    /\ n \in head - Lag .. head /\ n >= 0
    /\ Maybe(okLatest /\ okCurrent)
    /\ row' = [latest |-> IF okLatest THEN n ELSE row.latest, enabled |-> row.enabled,
               current |-> IF seen = 0 /\ okCurrent THEN n ELSE row.current]
    /\ base' = IF seen = 0 /\ okCurrent THEN n ELSE base
    /\ pc' = IF Ahead(n) THEN "top" ELSE "process"
    /\ UNCHANGED <<head, seen, plan, queue, job, database, lost>>

LatestError ==
    /\ pc = "latest" /\ Fault
    /\ pc' = "top"
    /\ UNCHANGED <<head, row, seen, plan, queue, job, database, base, lost>>

\* One round of process_blocks: the state is read again.
PlanNext ==
    /\ pc = "process"
    /\ plan' = plan_next_block(row)
    /\ pc' = CASE plan'.kind = "none" -> "top"
               [] plan'.kind = "enqueue" -> "enqueue"
               [] OTHER -> "parse"
    /\ UNCHANGED <<head, row, seen, queue, job, database, base, lost, count>>

\* publish_blocks: one message per block.
PublishBlock(ok) ==
    /\ pc = "enqueue" /\ Maybe(ok)
    /\ Publish("fetch", {plan.next}, ok)
    /\ plan' = [plan EXCEPT !.next = @ + 1]
    /\ pc' = IF plan.next = plan.last THEN "advance" ELSE "enqueue"
    /\ UNCHANGED <<head, row, seen, job, database, base>>

ParseBlocks(ok) ==
    /\ pc = "parse" /\ Maybe(ok)
    /\ publish_transactions(plan.first .. plan.last, ok)
    /\ pc' = "advance"
    /\ UNCHANGED <<head, row, seen, plan, job, database, base>>

\* get_transactions_in_blocks fails: process_blocks ends.
ParseError ==
    /\ pc = "parse" /\ Fault
    /\ pc' = "top" /\ plan' = NoPlan
    /\ UNCHANGED <<head, row, seen, queue, job, database, base, lost>>

\* Mutant of SetCurrentBlock: the row moves past the block after the plan.
AdvanceTooFar(ok) ==
    /\ pc = "advance" /\ Maybe(ok)
    /\ row' = IF ok THEN [row EXCEPT !.current = plan.last + 1] ELSE row
    /\ pc' = IF plan.kind = "parse" /\ should_reload_catchup(plan.remaining) THEN "top" ELSE "process"
    /\ plan' = NoPlan
    /\ UNCHANGED <<head, seen, queue, job, database, base, lost>>

\* The end of execute_plan; a failed write passes unseen.
SetCurrentBlock(ok) ==
    /\ pc = "advance" /\ Maybe(ok)
    /\ row' = IF ok THEN [row EXCEPT !.current = plan.last] ELSE row
    /\ pc' = IF plan.kind = "parse" /\ should_reload_catchup(plan.remaining) THEN "top" ELSE "process"
    /\ plan' = NoPlan
    /\ UNCHANGED <<head, seen, queue, job, database, base, lost>>

\* The parser's process ends, or start() returns an error and run_parser calls
\* it again.
ParserRestart ==
    /\ pc # "top" /\ Fault
    /\ pc' = "top" /\ seen' = 0 /\ plan' = NoPlan
    /\ UNCHANGED <<head, row, queue, job, database, base, lost>>

-----------------------------------------------------------------------------
(* The consumers: deliver, process, ack.                                   *)

Deliver(q) ==
    /\ job[q] = Nothing /\ queue[q] # <<>>
    /\ job' = [job EXCEPT ![q] = [blocks |-> Head(queue[q]), at |-> "process", inserted |-> {}]]
    /\ queue' = [queue EXCEPT ![q] = Tail(@)]
    /\ UNCHANGED <<head, parser, database, lost, count>>

ProcessFetch(ok) ==
    /\ job["fetch"].at = "process" /\ Maybe(ok)
    /\ publish_transactions(job["fetch"].blocks, ok)
    /\ job' = [job EXCEPT !["fetch"].at = "ack"]
    /\ UNCHANGED <<head, parser, database>>

\* Mutant of UpsertTransactions: every upserted transaction counts as new.
UpsertAllNew ==
    /\ job["store"].at = "process"
    /\ stored' = stored \union job["store"].blocks
    /\ job' = [job EXCEPT !["store"].at = "notify", !["store"].inserted = job["store"].blocks]
    /\ UNCHANGED <<head, parser, queue, notified, lost, count>>

UpsertTransactions ==
    /\ job["store"].at = "process"
    /\ stored' = stored \union job["store"].blocks
    /\ job' = [job EXCEPT !["store"] = [blocks |-> @.blocks, at |-> "notify", inserted |-> @.blocks \ stored]]
    /\ UNCHANGED <<head, parser, queue, notified, lost, count>>

\* add_assets_addresses, then the notifications of what was inserted.
PublishNotifications ==
    /\ job["store"].at = "notify"
    /\ notified' = [b \in Blocks |-> IF b \in job["store"].inserted THEN notified[b] + 1 ELSE notified[b]]
    /\ job' = [job EXCEPT !["store"].at = "ack"]
    /\ UNCHANGED <<head, parser, queue, stored, lost, count>>

Requeue(q) == queue' = [queue EXCEPT ![q] = <<job[q].blocks>> \o @]

\* upsert_transactions works in chunks: some of the blocks may be stored when it
\* fails or is interrupted.
UpsertPart(q) ==
    \E part \in IF q = "store" /\ job[q].at = "process" THEN SUBSET job[q].blocks ELSE {{}} :
        stored' = stored \union part

\* process returns an error: the message is acked all the same when
\* skip_on_error is set, and goes back to the queue otherwise.
ProcessError(q) ==
    /\ job[q].at \in {"process", "notify"} /\ Fault
    /\ IF q \in SkipOnError
       THEN /\ job' = [job EXCEPT ![q].at = "ack"]
            /\ lost' = lost \union job[q].blocks
            /\ UNCHANGED queue
       ELSE /\ job' = [job EXCEPT ![q] = Nothing]
            /\ Requeue(q)
            /\ UNCHANGED lost
    /\ UpsertPart(q)
    /\ UNCHANGED <<head, parser, notified>>

Ack(q) ==
    /\ job[q].at = "ack"
    /\ job' = [job EXCEPT ![q] = Nothing]
    /\ UNCHANGED <<head, parser, queue, database, lost, count>>

\* The consumer or its connection ends before the ack: the broker delivers the
\* message again.
ConsumerRestart(q) ==
    /\ job[q] # Nothing /\ Fault
    /\ job' = [job EXCEPT ![q] = Nothing]
    /\ Requeue(q) /\ UpsertPart(q)
    /\ UNCHANGED <<head, parser, notified, lost>>

-----------------------------------------------------------------------------
NewBlock ==
    /\ head < MaxBlock
    /\ head' = head + 1
    /\ UNCHANGED <<parser, queue, job, database, lost, count>>

\* An operator switches the parser off or on.
Toggle ==
    /\ row.enabled => count.toggles < MaxToggles
    /\ row' = [row EXCEPT !.enabled = ~@]
    /\ count' = IF row.enabled THEN [count EXCEPT !.toggles = @ + 1] ELSE count
    /\ UNCHANGED <<head, pc, seen, plan, queue, job, database, base, lost>>

Init ==
    /\ head \in 0 .. MaxBlock
    /\ row = [current |-> 0, latest |-> 0, enabled |-> TRUE]
    /\ pc = "top" /\ seen = 0 /\ plan = NoPlan
    /\ queue = [q \in Queues |-> <<>>]
    /\ job = [q \in Queues |-> Nothing]
    /\ stored = {} /\ notified = [b \in Blocks |-> 0]
    /\ base = 0 /\ lost = {}
    /\ count = [faults |-> 0, toggles |-> 0]

ParserStep ==
    \/ ReadState \/ PlanNext \/ PublishBlock(TRUE) \/ ParseBlocks(TRUE) \/ SetCurrentBlock(TRUE)
    \/ \E n \in 0 .. head : GetLatestBlock(n, TRUE, TRUE)

ParserFault ==
    \/ LatestError \/ ParseError \/ ParserRestart
    \/ PublishBlock(FALSE) \/ ParseBlocks(FALSE) \/ SetCurrentBlock(FALSE)
    \/ \E n \in 0 .. head, okLatest, okCurrent \in BOOLEAN :
          ~(okLatest /\ okCurrent) /\ GetLatestBlock(n, okLatest, okCurrent)

ConsumerStep ==
    \/ \E q \in Queues : Deliver(q) \/ Ack(q)
    \/ ProcessFetch(TRUE) \/ UpsertTransactions \/ PublishNotifications

ConsumerFault ==
    \/ \E q \in Queues : ProcessError(q) \/ ConsumerRestart(q)
    \/ ProcessFetch(FALSE)

Next == ParserStep \/ ParserFault \/ ConsumerStep \/ ConsumerFault \/ NewBlock \/ Toggle

Spec == Init /\ [][Next]_vars

\* Fairness: the processes run, the chain grows, and a parser that was switched
\* off is switched on again.
FairSpec ==
    /\ Spec
    /\ WF_vars(ParserStep) /\ WF_vars(NewBlock) /\ WF_vars(~row.enabled /\ Toggle)
    /\ \A q \in Queues : WF_vars(Deliver(q)) /\ WF_vars(Ack(q))
    /\ WF_vars(ProcessFetch(TRUE)) /\ WF_vars(UpsertTransactions) /\ WF_vars(PublishNotifications)

-----------------------------------------------------------------------------
(* Properties.                                                             *)

\* Every variable keeps its type, and the queues stay within their limit (a
\* message that comes back may exceed it by one).
TypeOK ==
    /\ head \in 0 .. MaxBlock /\ base \in 0 .. MaxBlock /\ seen \in 0 .. MaxBlock
    /\ row \in [current : 0 .. MaxBlock, latest : 0 .. MaxBlock, enabled : BOOLEAN]
    /\ pc \in {"top", "latest", "process", "enqueue", "parse", "advance"}
    /\ plan \in [kind : {"none", "enqueue", "parse"}, first : 0 .. MaxBlock, last : 0 .. MaxBlock,
                 next : 0 .. MaxBlock + 1, remaining : 0 .. MaxBlock]
    /\ queue \in [Queues -> Seq(SUBSET Blocks)] /\ \A q \in Queues : Len(queue[q]) <= QueueLimit + 1
    /\ job \in [Queues -> [blocks : SUBSET Blocks, inserted : SUBSET Blocks,
                           at : {"idle", "process", "notify", "ack"}]]
    /\ stored \subseteq Blocks /\ lost \subseteq Blocks
    /\ notified \in [Blocks -> Nat]
    /\ count \in [faults : 0 .. MaxFaults, toggles : 0 .. MaxToggles]

\* The blocks that a queue or a consumer still holds for processing.
In(messages) == UNION {messages[i] : i \in DOMAIN messages}
Waiting(q) == In(queue[q]) \union (IF job[q].at \in {"process", "notify"} THEN job[q].blocks ELSE {})

\* parser_state never runs ahead of the work it stands for: the transactions of
\* every block from the first followed one up to current_block are stored or on
\* their way, unless the broker or a skipped error lost the message.  Crashes
\* between publishing and set_current_block, half published plans and failed
\* writes of the row repeat blocks and never leave one out.
NoGap == \A b \in TxBlocks : b \in base + 1 .. row.current =>
             b \in stored \union lost \union Waiting("fetch") \union Waiting("store")

\* No block is handed on before await_blocks blocks follow it.
Deep == \A b \in stored \union lost \union Waiting("fetch") \union Waiting("store") :
            b + AwaitBlocks <= head

\* The transactions of a block are notified at most once, however often the
\* block is parsed or its messages are delivered.
NotifiedOnce == \A b \in Blocks : notified[b] <= 1

\* current_block never goes back, even when a node answers with an old block.
Forward == [][row'.current >= row.current]_vars

\* The parser follows the chain to the end, and what it followed is stored.
CatchesUp ==
    /\ <>[](row.current >= MaxBlock - Lag - AwaitBlocks)
    /\ <>[](\A b \in TxBlocks : b \in base + 1 .. row.current => b \in stored \union lost)
=============================================================================
