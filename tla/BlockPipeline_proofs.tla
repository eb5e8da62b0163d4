------------------------ MODULE BlockPipeline_proofs ------------------------
(***************************************************************************)
(* Proofs about BlockPipeline, for a chain of any length, any settings of  *)
(* the parser and the queues and any number of faults: the types and the   *)
(* limit of the queues, NoGap, Deep, NotifiedOnce and Forward.             *)
(***************************************************************************)
EXTENDS BlockPipeline, TLAPS

Covered == stored \union lost \union Waiting("fetch") \union Waiting("store")

\* Everything that was handed on, messages that wait for their ack included.
Handed == stored \union lost \union In(queue["fetch"]) \union In(queue["store"])
              \union job["fetch"].blocks \union job["store"].blocks

Messages == Seq(SUBSET Blocks)
Jobs == [blocks : SUBSET Blocks, inserted : SUBSET Blocks, at : {"idle", "process", "notify", "ack"}]

\* The types of the parser and of the rest; with QueueInv they are TypeOK.
ParserTypes ==
    /\ head \in 0 .. MaxBlock /\ base \in 0 .. MaxBlock /\ seen \in 0 .. MaxBlock
    /\ row \in [current : 0 .. MaxBlock, latest : 0 .. MaxBlock, enabled : BOOLEAN]
    /\ pc \in {"top", "latest", "process", "enqueue", "parse", "advance"}
    /\ plan \in [kind : {"none", "enqueue", "parse"}, first : 0 .. MaxBlock, last : 0 .. MaxBlock,
                 next : 0 .. MaxBlock + 1, remaining : 0 .. MaxBlock]
    /\ count \in [faults : 0 .. MaxFaults, toggles : 0 .. MaxToggles]

DataTypes ==
    /\ queue \in [Queues -> Messages] /\ job \in [Queues -> Jobs]
    /\ stored \subseteq Blocks /\ lost \subseteq Blocks /\ notified \in [Blocks -> Nat]

\* A message that comes back finds room for one more, because its consumer had
\* taken it.
QueueInv == \A q \in Queues : Len(queue[q]) <= QueueLimit + (IF job[q] = Nothing THEN 1 ELSE 0)

\* The row does not change between start() and the end of a plan but by the parser.
RowInv == row.latest <= head /\ (pc = "latest" => seen = row.current)

\* A plan follows on the row, keeps its distance from the head, and what it has
\* published is covered.
PlanInv ==
    pc \in {"enqueue", "parse", "advance"} =>
        /\ plan.first = row.current + 1 /\ plan.first <= plan.last
        /\ plan.last + AwaitBlocks <= head
        /\ pc = "enqueue" =>
              plan.next \in plan.first .. plan.last /\ TxBlocks \intersect (plan.first .. plan.next - 1) \subseteq Covered
        /\ pc = "advance" => TxBlocks \intersect (plan.first .. plan.last) \subseteq Covered

DeepInv == \A b \in Handed : b + AwaitBlocks <= head

\* What counts as inserted was not notified before.
StoreInv ==
    /\ \A b \in Blocks : notified[b] <= 1 /\ (notified[b] = 1 => b \in stored)
    /\ job["store"].at = "notify" =>
          job["store"].blocks \subseteq stored /\ \A b \in job["store"].inserted : b \in stored /\ notified[b] = 0

PipelineInv == ParserTypes /\ DataTypes /\ QueueInv /\ RowInv /\ PlanInv /\ NoGap /\ DeepInv /\ StoreInv

-----------------------------------------------------------------------------
(* Messages.                                                               *)

\* A publish adds the blocks of its message to those of the queue.
LEMMA InAppend ==
  ASSUME NEW s \in Messages, NEW x \in SUBSET Blocks
  PROVE  /\ Append(s, x) \in Messages /\ Len(Append(s, x)) = Len(s) + 1
         /\ In(Append(s, x)) = In(s) \union x
<1>1. Append(s, x) \in Messages /\ Len(Append(s, x)) = Len(s) + 1
  BY DEF Messages
<1>2. DOMAIN s = 1 .. Len(s) /\ DOMAIN Append(s, x) = 1 .. Len(s) + 1 /\ Len(s) \in Nat
  BY DEF Messages
<1>3. /\ \A i \in 1 .. Len(s) : Append(s, x)[i] = s[i]
      /\ Append(s, x)[Len(s) + 1] = x
  BY DEF Messages
<1>4. \A b : b \in In(Append(s, x)) <=> b \in In(s) \/ b \in x
  <2>1. \A b : b \in In(Append(s, x)) <=> \E i \in 1 .. Len(s) + 1 : b \in Append(s, x)[i]
    BY <1>2 DEF In
  <2>2. \A b : b \in In(s) <=> \E i \in 1 .. Len(s) : b \in s[i]
    BY <1>2 DEF In
  <2> QED
    BY <1>2, <1>3, <2>1, <2>2
<1> QED
  BY <1>1, <1>4

\* A delivery takes the blocks of the first message off those of the queue.
LEMMA InTail ==
  ASSUME NEW s \in Messages, s # <<>>
  PROVE  /\ Tail(s) \in Messages /\ Head(s) \in SUBSET Blocks
         /\ Len(Tail(s)) = Len(s) - 1 /\ Len(s) >= 1
         /\ In(s) = Head(s) \union In(Tail(s))
<1>1. /\ Tail(s) \in Messages /\ Head(s) \in SUBSET Blocks
      /\ Len(Tail(s)) = Len(s) - 1 /\ Len(s) \in Nat /\ Len(s) >= 1
  BY DEF Messages
<1>2. DOMAIN s = 1 .. Len(s) /\ DOMAIN Tail(s) = 1 .. Len(s) - 1
  BY <1>1 DEF Messages
<1>3. Head(s) = s[1] /\ \A i \in 1 .. Len(s) - 1 : Tail(s)[i] = s[i + 1]
  BY DEF Messages
<1>4. \A b : b \in In(s) <=> b \in Head(s) \/ b \in In(Tail(s))
  <2>1. \A b : b \in In(Tail(s)) <=> \E i \in 1 .. Len(s) - 1 : b \in s[i + 1]
    BY <1>2, <1>3, Zenon DEF In
  <2>2. \A b : b \in In(s) <=> \E i \in 1 .. Len(s) : b \in s[i]
    BY <1>2 DEF In
  <2>3. \A i \in 1 .. Len(s) : i = 1 \/ (i - 1 \in 1 .. Len(s) - 1 /\ (i - 1) + 1 = i)
    BY <1>1
  <2>4. \A i \in 1 .. Len(s) - 1 : i + 1 \in 1 .. Len(s)
    BY <1>1
  <2>5. 1 \in 1 .. Len(s)
    BY <1>1
  <2>6. ASSUME NEW b, b \in In(s) PROVE b \in Head(s) \/ b \in In(Tail(s))
    BY <1>3, <2>1, <2>2, <2>3, <2>6, Zenon
  <2>7. ASSUME NEW b, b \in Head(s) \/ b \in In(Tail(s)) PROVE b \in In(s)
    BY <1>3, <2>1, <2>2, <2>4, <2>5, <2>7
  <2> QED
    BY <2>6, <2>7
<1> QED
  BY <1>1, <1>4

\* A requeue puts the blocks of its message back.
LEMMA InCons ==
  ASSUME NEW s \in Messages, NEW x \in SUBSET Blocks
  PROVE  /\ <<x>> \o s \in Messages /\ Len(<<x>> \o s) = Len(s) + 1
         /\ In(<<x>> \o s) = x \union In(s)
<1>1. <<x>> \o s \in Messages /\ Len(<<x>> \o s) = Len(s) + 1 /\ Len(s) \in Nat
  BY DEF Messages
<1>2. <<x>> \o s # <<>>
  BY <1>1 DEF Messages
<1>3. Head(<<x>> \o s) = x /\ Tail(<<x>> \o s) = s
  BY DEF Messages
<1> QED
  BY <1>1, <1>2, <1>3, InTail, Zenon

-----------------------------------------------------------------------------
(* Frames.                                                                 *)

\* A fault is counted within its bound.
LEMMA CountType == ASSUME ParserTypes, Fault \/ UNCHANGED count
  PROVE count' \in [faults : 0 .. MaxFaults, toggles : 0 .. MaxToggles]
<1>1. \/ count.faults < MaxFaults /\ count' = [count EXCEPT !.faults = count.faults + 1]
      \/ count' = count
  BY DEF Fault
<1> QED
  BY <1>1, PipelineAssumption DEF ParserTypes

\* What was handed on is made of blocks, and contains what is stored, lost or waiting.
LEMMA Handling == ASSUME DataTypes PROVE Handed \subseteq Blocks /\ Covered \subseteq Handed
<1>1. \A q \in Queues : job[q].blocks \subseteq Blocks /\ In(queue[q]) \subseteq Blocks
  <2> TAKE q \in Queues
  <2>1. queue[q] \in Messages /\ job[q] \in Jobs
    BY DEF DataTypes
  <2>2. \A i \in DOMAIN queue[q] : queue[q][i] \subseteq Blocks
    BY <2>1 DEF Messages
  <2> QED
    BY <2>1, <2>2 DEF Jobs, In
<1> QED
  BY <1>1 DEF Handed, Covered, Waiting, DataTypes, Queues

\* A step of the parser that leaves the queues and the database alone.
LEMMA Quiet ==
  ASSUME PipelineInv, UNCHANGED <<queue, job, stored, notified, lost>>, head' \in 0 .. MaxBlock, head' >= head
  PROVE  DataTypes' /\ QueueInv' /\ DeepInv' /\ StoreInv' /\ Covered' = Covered
<1>1. Covered' = Covered /\ Handed' = Handed
  BY DEF Covered, Handed, Waiting
<1>2. DataTypes' /\ QueueInv' /\ StoreInv'
  BY DEF PipelineInv, DataTypes, QueueInv, StoreInv
<1>3. DeepInv'
  <2> SUFFICES ASSUME NEW b \in Handed PROVE b + AwaitBlocks <= head'
    BY <1>1 DEF DeepInv
  <2>1. b \in Blocks /\ b + AwaitBlocks <= head
    BY Handling DEF PipelineInv, DeepInv
  <2> QED
    BY <2>1, PipelineAssumption DEF PipelineInv, ParserTypes, Blocks
<1> QED
  BY <1>1, <1>2, <1>3

\* A step that leaves the parser alone and covers what was covered.
LEMMA ParserKeeps ==
  ASSUME PipelineInv, UNCHANGED parser, head' \in 0 .. MaxBlock, head' >= head,
         TxBlocks \intersect Covered \subseteq Covered'
  PROVE  RowInv' /\ PlanInv' /\ NoGap'
<1>1. RowInv'
  BY DEF PipelineInv, RowInv, parser, ParserTypes
<1>2. PlanInv'
  <2> SUFFICES ASSUME pc \in {"enqueue", "parse", "advance"} PROVE PlanInv'
    BY DEF PlanInv, parser
  <2>1. plan.last \in Int /\ plan.last + AwaitBlocks <= head /\ head \in Int /\ head' \in Int
    BY DEF PipelineInv, PlanInv, ParserTypes
  <2>2. plan.last + AwaitBlocks <= head'
    BY <2>1, PipelineAssumption
  <2> QED
    BY <2>2 DEF PipelineInv, PlanInv, parser
<1>3. NoGap'
  BY DEF PipelineInv, NoGap, Covered, parser
<1> QED
  BY <1>1, <1>2, <1>3

\* Nothing new is handed on.
LEMMA DeepKeeps ==
  ASSUME PipelineInv, head' = head, Handed' \subseteq Handed
  PROVE  DeepInv'
BY DEF PipelineInv, DeepInv

-----------------------------------------------------------------------------
(* The parser.                                                             *)

\* The parser reads its row again, and is not yet at work.
LEMMA ReadStateInv == ASSUME PipelineInv, ReadState PROVE PipelineInv'
<1>1. /\ UNCHANGED <<head, queue, job, stored, notified, lost>> /\ head \in 0 .. MaxBlock
      /\ head >= head
  BY DEF ReadState, database, PipelineInv, ParserTypes
<1>2. DataTypes' /\ QueueInv' /\ DeepInv' /\ StoreInv' /\ Covered' = Covered
  BY <1>1, Quiet
<1>3. ParserTypes'
  BY DEF PipelineInv, ParserTypes, ReadState
<1>4. RowInv' /\ PlanInv'
  BY DEF PipelineInv, RowInv, PlanInv, ReadState
<1>5. NoGap'
  BY <1>2 DEF PipelineInv, NoGap, Covered, ReadState
<1> QED
  BY <1>2, <1>3, <1>4, <1>5 DEF PipelineInv

\* The parser stores the latest block, and skips ahead where the row is new.
LEMMA GetLatestBlockInv ==
  ASSUME PipelineInv, NEW n \in 0 .. head, NEW okLatest \in BOOLEAN, NEW okCurrent \in BOOLEAN,
         GetLatestBlock(n, okLatest, okCurrent)
  PROVE  PipelineInv' /\ row'.current >= row.current
<1>1. /\ UNCHANGED <<head, seen, plan, queue, job, stored, notified, lost>> /\ head \in 0 .. MaxBlock
      /\ head >= head /\ pc = "latest" /\ pc' \in {"top", "process"}
  BY DEF GetLatestBlock, database, PipelineInv, ParserTypes
<1>2. DataTypes' /\ QueueInv' /\ DeepInv' /\ StoreInv' /\ Covered' = Covered
  BY <1>1, Quiet
<1>3. n \in 0 .. MaxBlock
  BY <1>1, PipelineAssumption
<1>4. count' \in [faults : 0 .. MaxFaults, toggles : 0 .. MaxToggles]
  BY CountType DEF GetLatestBlock, Maybe, PipelineInv
<1>5. /\ row'.latest = (IF okLatest THEN n ELSE row.latest)
      /\ row'.current = (IF seen = 0 /\ okCurrent THEN n ELSE row.current)
      /\ row' \in [current : 0 .. MaxBlock, latest : 0 .. MaxBlock, enabled : BOOLEAN]
      /\ base' = (IF seen = 0 /\ okCurrent THEN n ELSE base)
  BY <1>3 DEF GetLatestBlock, PipelineInv, ParserTypes
<1>6. ParserTypes'
  BY <1>1, <1>3, <1>4, <1>5 DEF PipelineInv, ParserTypes
<1>7. RowInv' /\ PlanInv'
  BY <1>1, <1>5 DEF PipelineInv, RowInv, PlanInv
<1>8. NoGap' /\ row'.current >= row.current
  <2>1. CASE seen = 0 /\ okCurrent
    <3>1. row.current = 0 /\ row'.current = n /\ base' = n
      BY <1>1, <1>5, <2>1 DEF PipelineInv, RowInv
    <3> QED
      BY <1>3, <3>1 DEF NoGap
  <2>2. CASE ~(seen = 0 /\ okCurrent)
    <3>1. row'.current = row.current /\ base' = base
      BY <1>5, <2>2
    <3> QED
      BY <1>2, <3>1 DEF PipelineInv, NoGap, Covered, ParserTypes
  <2> QED
    BY <2>1, <2>2
<1> QED
  BY <1>2, <1>6, <1>7, <1>8 DEF PipelineInv

\* Steps of the parser that end a round.
LEMMA GiveUpInv ==
  ASSUME PipelineInv, LatestError \/ ParseError \/ ParserRestart
  PROVE  PipelineInv' /\ UNCHANGED row
<1>1. /\ UNCHANGED <<head, row, queue, job, stored, notified, lost, base>> /\ head \in 0 .. MaxBlock
      /\ head >= head /\ pc' = "top" /\ seen' \in {0, seen} /\ plan' \in {plan, NoPlan}
  BY DEF LatestError, ParseError, ParserRestart, database, PipelineInv, ParserTypes
<1>2. DataTypes' /\ QueueInv' /\ DeepInv' /\ StoreInv' /\ Covered' = Covered
  BY <1>1, Quiet
<1>3. count' \in [faults : 0 .. MaxFaults, toggles : 0 .. MaxToggles]
  BY CountType DEF LatestError, ParseError, ParserRestart, PipelineInv
<1>4. ParserTypes'
  BY <1>1, <1>3, PipelineAssumption DEF PipelineInv, ParserTypes, NoPlan
<1>5. RowInv' /\ PlanInv'
  BY <1>1 DEF PipelineInv, RowInv, PlanInv
<1>6. NoGap'
  BY <1>1, <1>2 DEF PipelineInv, NoGap, Covered
<1> QED
  BY <1>1, <1>2, <1>4, <1>5, <1>6 DEF PipelineInv

\* A plan starts after the row and ends await_blocks before the latest block known.
LEMMA PlanFacts ==
  ASSUME ParserTypes, RowInv, NEW p, p = plan_next_block(row)
  PROVE  /\ p \in [kind : {"none", "enqueue", "parse"}, first : 0 .. MaxBlock, last : 0 .. MaxBlock,
                   next : 0 .. MaxBlock + 1, remaining : 0 .. MaxBlock]
         /\ p.kind # "none" => /\ p.first = row.current + 1 /\ p.next = p.first
                               /\ p.first <= p.last /\ p.last + AwaitBlocks <= head
<1> DEFINE start == row.current + 1
           end == MinOf(start + ParallelBlocks - 1, row.latest - AwaitBlocks)
           remaining == row.latest - end - AwaitBlocks
           made == [kind |-> IF QueueBehind >= 0 /\ remaining > QueueBehind THEN "enqueue" ELSE "parse",
                    first |-> start, last |-> end, next |-> start, remaining |-> remaining]
<1>1. /\ row.current \in 0 .. MaxBlock /\ row.latest \in 0 .. MaxBlock /\ row.latest <= head
      /\ head \in 0 .. MaxBlock /\ AwaitBlocks \in Nat /\ ParallelBlocks \in Nat \ {0} /\ MaxBlock \in Nat
  BY PipelineAssumption DEF ParserTypes, RowInv
<1>2. /\ end <= row.latest - AwaitBlocks /\ end \in Int
  BY <1>1 DEF MinOf
<1>3. p = IF ~row.enabled \/ end < start THEN NoPlan ELSE made
  BY DEF plan_next_block
<1>4. CASE p = NoPlan
  BY <1>1, <1>4 DEF NoPlan
<1>5. CASE p = made /\ ~(end < start)
  <2> HIDE DEF end
  <2>1. start \in 0 .. MaxBlock /\ end \in 0 .. MaxBlock /\ remaining \in 0 .. MaxBlock /\ start <= end
        /\ end + AwaitBlocks <= head
    BY <1>1, <1>2, <1>5
  <2>2. p.kind \in {"enqueue", "parse"} /\ p.first = start /\ p.last = end /\ p.next = start
    BY <1>5
  <2> HIDE DEF remaining, start
  <2>3. start \in 0 .. MaxBlock + 1
    BY <1>1, <2>1
  <2>4. p \in [kind : {"none", "enqueue", "parse"}, first : 0 .. MaxBlock, last : 0 .. MaxBlock,
               next : 0 .. MaxBlock + 1, remaining : 0 .. MaxBlock]
    BY <1>5, <2>1, <2>3
  <2> QED
    BY <2>1, <2>2, <2>4 DEF start
<1> QED
  BY <1>3, <1>4, <1>5

\* The parser plans the next blocks, after the current one and behind the latest.
LEMMA PlanNextInv == ASSUME PipelineInv, PlanNext PROVE PipelineInv' /\ UNCHANGED row
<1>1. /\ UNCHANGED <<head, row, seen, queue, job, stored, notified, lost, base, count>> /\ head \in 0 .. MaxBlock
      /\ head >= head
  BY DEF PlanNext, database, PipelineInv, ParserTypes
<1>2. DataTypes' /\ QueueInv' /\ DeepInv' /\ StoreInv' /\ Covered' = Covered
  BY <1>1, Quiet
<1>3. /\ plan' \in [kind : {"none", "enqueue", "parse"}, first : 0 .. MaxBlock, last : 0 .. MaxBlock,
                    next : 0 .. MaxBlock + 1, remaining : 0 .. MaxBlock]
      /\ plan'.kind # "none" => /\ plan'.first = row.current + 1 /\ plan'.next = plan'.first
                                /\ plan'.first <= plan'.last /\ plan'.last + AwaitBlocks <= head
  <2>1. PICK p : p = plan_next_block(row) /\ plan' = p
    BY DEF PlanNext
  <2> QED
    BY <2>1, PlanFacts DEF PipelineInv
<1>4. /\ plan'.kind = "none" => pc' = "top"
      /\ plan'.kind = "enqueue" => pc' = "enqueue"
      /\ plan'.kind = "parse" => pc' = "parse"
  BY <1>3 DEF PlanNext
<1>5. pc' \in {"top", "enqueue", "parse"} /\ (pc' = "enqueue" \/ pc' = "parse" => plan'.kind # "none")
  BY <1>3, <1>4
<1>6. ParserTypes'
  BY <1>1, <1>3, <1>5 DEF PipelineInv, ParserTypes
<1>7. RowInv'
  BY <1>1, <1>5 DEF PipelineInv, RowInv
<1>8. PlanInv'
  BY <1>1, <1>3, <1>5, PipelineAssumption DEF PlanInv
<1>9. NoGap'
  BY <1>1, <1>2 DEF PipelineInv, NoGap, Covered
<1> QED
  BY <1>1, <1>2, <1>6, <1>7, <1>8, <1>9 DEF PipelineInv

-----------------------------------------------------------------------------
(* Publishing.                                                             *)

\* What publishing does to the queues, whether or not the broker takes the
\* message or makes room for it: the blocks are in the queue or lost, and what
\* was in the queue stays or is lost.
Enters(q, blocks) ==
    /\ queue' \in [Queues -> Messages] /\ lost' \subseteq Blocks /\ lost \subseteq lost'
    /\ \A p \in Queues \ {q} : queue'[p] = queue[p]
    /\ In(queue'[q]) \union lost' = In(queue[q]) \union lost \union blocks
    /\ Len(queue'[q]) <= QueueLimit \/ Len(queue'[q]) <= Len(queue[q])

\* A publish queues its blocks or loses them, as a full queue loses its oldest.
LEMMA PublishEnters ==
  ASSUME DataTypes, NEW q \in Queues, NEW blocks \in SUBSET Blocks, NEW ok \in BOOLEAN, Publish(q, blocks, ok)
  PROVE  Enters(q, blocks)
<1>1. PICK s \in Messages : s = queue[q]
  BY DEF DataTypes
<1>2. QueueLimit \in Nat \ {0} /\ Len(s) \in Nat
  BY PipelineAssumption DEF Messages
<1>3. CASE ~ok
  <2>1. queue'[q] = s /\ lost' = lost \union blocks
    BY <1>1, <1>3 DEF Publish, DataTypes
  <2>2. queue' \in [Queues -> Messages] /\ \A p \in Queues \ {q} : queue'[p] = queue[p]
    BY <1>1, <1>3 DEF Publish, DataTypes
  <2> QED
    BY <1>1, <1>2, <2>1, <2>2 DEF Enters, DataTypes
<1>4. CASE ok /\ ~(Len(s) >= QueueLimit)
  <2>1. queue' = [queue EXCEPT ![q] = Append(s, blocks)] /\ lost' = lost
    BY <1>1, <1>4, Zenon DEF Publish
  <2>2. Append(s, blocks) \in Messages /\ Len(Append(s, blocks)) = Len(s) + 1
        /\ In(Append(s, blocks)) = In(s) \union blocks
    BY InAppend
  <2>3. /\ queue'[q] = Append(s, blocks) /\ queue' \in [Queues -> Messages]
        /\ \A p \in Queues \ {q} : queue'[p] = queue[p]
    BY <2>1, <2>2 DEF DataTypes
  <2>4. Len(queue'[q]) <= QueueLimit
    BY <1>2, <1>4, <2>2, <2>3
  <2> QED
    BY <1>1, <2>1, <2>2, <2>3, <2>4 DEF Enters, DataTypes
<1>5. CASE ok /\ Len(s) >= QueueLimit
  <2>1. queue' = [queue EXCEPT ![q] = Append(Tail(s), blocks)] /\ lost' = lost \union Head(s)
    BY <1>1, <1>5, Zenon DEF Publish
  <2>2. s # <<>>
    BY <1>2, <1>5
  <2>3. PICK t \in Messages : t = Tail(s) /\ Head(s) \in SUBSET Blocks /\ Len(t) = Len(s) - 1
                              /\ In(s) = Head(s) \union In(t)
    BY <2>2, InTail, Zenon
  <2>4. Append(t, blocks) \in Messages /\ Len(Append(t, blocks)) = Len(t) + 1
        /\ In(Append(t, blocks)) = In(t) \union blocks
    BY InAppend
  <2>5. /\ queue'[q] = Append(t, blocks) /\ queue' \in [Queues -> Messages]
        /\ \A p \in Queues \ {q} : queue'[p] = queue[p]
    BY <2>1, <2>3, <2>4 DEF DataTypes
  <2>6. Len(queue'[q]) <= Len(s)
    <3>1. Len(queue'[q]) = (Len(s) - 1) + 1
      BY <2>3, <2>4, <2>5, Zenon
    <3> QED
      BY <1>2, <3>1
  <2> QED
    BY <1>1, <2>1, <2>3, <2>4, <2>5, <2>6 DEF Enters, DataTypes
<1> QED
  BY <1>3, <1>4, <1>5

\* publish_transactions hands on the blocks that have transactions.
LEMMA TransactionsEnter ==
  ASSUME DataTypes, NEW blocks \in SUBSET Blocks, NEW ok \in BOOLEAN, publish_transactions(blocks, ok)
  PROVE  Enters("store", blocks \intersect TxBlocks)
<1>1. PICK tx \in SUBSET Blocks : tx = blocks \intersect TxBlocks
  BY PipelineAssumption, Zenon
<1>2. CASE tx = {}
  <2>1. UNCHANGED <<queue, lost>>
    BY <1>1, <1>2 DEF publish_transactions
  <2>2. Len(queue["store"]) \in Nat
    BY DEF DataTypes, Messages, Queues
  <2> QED
    BY <1>1, <1>2, <2>1, <2>2 DEF Enters, DataTypes
<1>3. CASE tx # {}
  <2>1. Publish("store", tx, ok)
    BY <1>1, <1>3 DEF publish_transactions
  <2> QED
    BY <1>1, <2>1, PublishEnters DEF Queues
<1> QED
  BY <1>2, <1>3

\* The parser publishes.
LEMMA ParserPublishes ==
  ASSUME PipelineInv, NEW q \in Queues, NEW blocks \in SUBSET Blocks, Enters(q, blocks),
         UNCHANGED <<head, job, stored, notified>>, \A b \in blocks : b + AwaitBlocks <= head
  PROVE  DataTypes' /\ QueueInv' /\ DeepInv' /\ StoreInv' /\ Covered' = Covered \union blocks
<1>1. DataTypes'
  BY DEF Enters, PipelineInv, DataTypes
<1>2. StoreInv'
  BY DEF PipelineInv, StoreInv
<1>3. QueueInv'
  <2> SUFFICES ASSUME NEW p \in Queues
               PROVE  Len(queue'[p]) <= QueueLimit + (IF job[p] = Nothing THEN 1 ELSE 0)
    BY DEF QueueInv
  <2>1. /\ Len(queue[p]) \in Nat /\ Len(queue'[p]) \in Nat /\ QueueLimit \in Nat
        /\ Len(queue[p]) <= QueueLimit + (IF job[p] = Nothing THEN 1 ELSE 0)
    BY <1>1, PipelineAssumption DEF PipelineInv, DataTypes, QueueInv, Messages
  <2>2. queue'[p] = queue[p] \/ Len(queue'[p]) <= QueueLimit \/ Len(queue'[p]) <= Len(queue[p])
    BY DEF Enters
  <2> QED
    BY <2>1, <2>2
<1>4. In(queue'["fetch"]) \union In(queue'["store"]) \union lost'
         = In(queue["fetch"]) \union In(queue["store"]) \union lost \union blocks
  <2>1. CASE q = "fetch"
    <3>1. queue'["store"] = queue["store"]
      BY <2>1 DEF Enters, Queues
    <3> QED
      BY <2>1, <3>1 DEF Enters
  <2>2. CASE q = "store"
    <3>1. queue'["fetch"] = queue["fetch"]
      BY <2>2 DEF Enters, Queues
    <3> QED
      BY <2>2, <3>1 DEF Enters
  <2> QED
    BY <2>1, <2>2 DEF Queues
<1>5. Covered' = Covered \union blocks
  BY <1>4 DEF Covered, Waiting
<1>6. Handed' = Handed \union blocks
  BY <1>4 DEF Handed
<1>7. DeepInv'
  BY <1>6 DEF PipelineInv, DeepInv
<1> QED
  BY <1>1, <1>2, <1>3, <1>5, <1>7

\* The parser hands one planned block to the fetch queue.
LEMMA PublishBlockInv ==
  ASSUME PipelineInv, NEW ok \in BOOLEAN, PublishBlock(ok)
  PROVE  PipelineInv' /\ UNCHANGED row
<1>1. /\ pc = "enqueue" /\ pc' = (IF plan.next = plan.last THEN "advance" ELSE "enqueue")
      /\ UNCHANGED <<head, row, seen, job, stored, notified, base>>
  BY DEF PublishBlock, database
<1>2. PICK n : n = plan.next
  OBVIOUS
<1>3. /\ head \in 0 .. MaxBlock /\ plan.first \in 0 .. MaxBlock /\ plan.last \in 0 .. MaxBlock
      /\ row.current \in 0 .. MaxBlock /\ MaxBlock \in Nat /\ AwaitBlocks \in Nat
      /\ plan.first = row.current + 1 /\ n \in plan.first .. plan.last
      /\ plan.last + AwaitBlocks <= head
      /\ TxBlocks \intersect (plan.first .. n - 1) \subseteq Covered
  BY <1>1, <1>2, PipelineAssumption DEF PipelineInv, ParserTypes, PlanInv
<1>4. n \in Blocks /\ n + AwaitBlocks <= head
  BY <1>3 DEF Blocks
<1>5. Enters("fetch", {n})
  <2>1. Publish("fetch", {n}, ok)
    BY <1>2 DEF PublishBlock
  <2> QED
    BY <1>4, <2>1, PublishEnters DEF PipelineInv, Queues
<1>6. DataTypes' /\ QueueInv' /\ DeepInv' /\ StoreInv' /\ Covered' = Covered \union {n}
  BY <1>1, <1>4, <1>5, ParserPublishes DEF Queues
<1>7. count' \in [faults : 0 .. MaxFaults, toggles : 0 .. MaxToggles]
  BY CountType DEF PublishBlock, Maybe, PipelineInv
<1>8. /\ plan' = [plan EXCEPT !.next = n + 1]
      /\ plan'.first = plan.first /\ plan'.last = plan.last /\ plan'.next = n + 1
  BY <1>2 DEF PublishBlock, PipelineInv, ParserTypes
<1>9. ParserTypes'
  <2>1. n + 1 \in 0 .. MaxBlock + 1
    BY <1>3
  <2>2. plan' \in [kind : {"none", "enqueue", "parse"}, first : 0 .. MaxBlock, last : 0 .. MaxBlock,
                   next : 0 .. MaxBlock + 1, remaining : 0 .. MaxBlock]
    BY <1>8, <2>1 DEF PipelineInv, ParserTypes
  <2> QED
    BY <1>1, <1>7, <2>2 DEF PipelineInv, ParserTypes
<1>10. RowInv'
  BY <1>1 DEF PipelineInv, RowInv
<1>11. TxBlocks \intersect (plan.first .. n) \subseteq Covered'
  <2>1. \A b \in plan.first .. n : b = n \/ b \in plan.first .. n - 1
    BY <1>3
  <2> QED
    BY <1>3, <1>6, <2>1
<1>12. PlanInv'
  <2>1. n # plan.last => n + 1 \in plan.first .. plan.last
    BY <1>3
  <2>2. (n + 1) - 1 = n
    BY <1>3
  <2>3. plan.first <= plan.last
    BY <1>3
  <2> QED
    BY <1>1, <1>2, <1>3, <1>8, <1>11, <2>1, <2>2, <2>3 DEF PlanInv
<1>13. NoGap'
  BY <1>1, <1>6 DEF PipelineInv, NoGap, Covered
<1> QED
  BY <1>1, <1>6, <1>9, <1>10, <1>12, <1>13 DEF PipelineInv

\* The parser fetches the planned blocks and hands on their transactions.
LEMMA ParseBlocksInv ==
  ASSUME PipelineInv, NEW ok \in BOOLEAN, ParseBlocks(ok)
  PROVE  PipelineInv' /\ UNCHANGED row
<1>1. /\ pc = "parse" /\ pc' = "advance" /\ UNCHANGED <<head, row, seen, plan, job, stored, notified, base>>
  BY DEF ParseBlocks, database
<1>2. PICK range : range = plan.first .. plan.last
  OBVIOUS
<1>3. /\ head \in 0 .. MaxBlock /\ plan.first \in 0 .. MaxBlock /\ plan.last \in 0 .. MaxBlock
      /\ row.current \in 0 .. MaxBlock /\ MaxBlock \in Nat /\ AwaitBlocks \in Nat
      /\ plan.first = row.current + 1 /\ plan.last + AwaitBlocks <= head
  BY <1>1, PipelineAssumption DEF PipelineInv, ParserTypes, PlanInv
<1>4. range \in SUBSET Blocks /\ \A b \in range : b + AwaitBlocks <= head
  BY <1>2, <1>3 DEF Blocks
<1>5. Enters("store", range \intersect TxBlocks)
  <2>1. publish_transactions(range, ok)
    BY <1>2 DEF ParseBlocks
  <2> QED
    BY <1>4, <2>1, TransactionsEnter DEF PipelineInv
<1>6. DataTypes' /\ QueueInv' /\ DeepInv' /\ StoreInv' /\ Covered' = Covered \union (range \intersect TxBlocks)
  BY <1>1, <1>4, <1>5, ParserPublishes DEF Queues
<1>7. count' \in [faults : 0 .. MaxFaults, toggles : 0 .. MaxToggles]
  BY CountType DEF ParseBlocks, Maybe, PipelineInv
<1>8. ParserTypes'
  BY <1>1, <1>7 DEF PipelineInv, ParserTypes
<1>9. RowInv'
  BY <1>1 DEF PipelineInv, RowInv
<1>10. PlanInv'
  BY <1>1, <1>2, <1>6 DEF PipelineInv, PlanInv
<1>11. NoGap'
  BY <1>1, <1>6 DEF PipelineInv, NoGap, Covered
<1> QED
  BY <1>1, <1>6, <1>8, <1>9, <1>10, <1>11 DEF PipelineInv

\* The parser moves its row to the last block of the plan.
LEMMA SetCurrentBlockInv ==
  ASSUME PipelineInv, NEW ok \in BOOLEAN, SetCurrentBlock(ok)
  PROVE  PipelineInv' /\ row'.current >= row.current
<1>1. /\ UNCHANGED <<head, seen, queue, job, stored, notified, lost, base>> /\ head \in 0 .. MaxBlock
      /\ head >= head /\ pc = "advance" /\ pc' \in {"top", "process"} /\ plan' = NoPlan
  BY DEF SetCurrentBlock, database, PipelineInv, ParserTypes
<1>2. DataTypes' /\ QueueInv' /\ DeepInv' /\ StoreInv' /\ Covered' = Covered
  BY <1>1, Quiet
<1>3. count' \in [faults : 0 .. MaxFaults, toggles : 0 .. MaxToggles]
  BY CountType DEF SetCurrentBlock, Maybe, PipelineInv
<1>4. /\ row'.latest = row.latest /\ row'.current \in {row.current, plan.last}
      /\ row' \in [current : 0 .. MaxBlock, latest : 0 .. MaxBlock, enabled : BOOLEAN]
  BY DEF SetCurrentBlock, PipelineInv, ParserTypes
<1>5. ParserTypes'
  BY <1>1, <1>3, <1>4, PipelineAssumption DEF PipelineInv, ParserTypes, NoPlan
<1>6. RowInv' /\ PlanInv'
  BY <1>1, <1>4 DEF PipelineInv, RowInv, PlanInv
<1>7. /\ row.current \in Nat /\ plan.last \in Nat /\ base \in Nat
      /\ plan.first = row.current + 1 /\ plan.first <= plan.last
      /\ TxBlocks \intersect (plan.first .. plan.last) \subseteq Covered
  BY <1>1, PipelineAssumption DEF PipelineInv, ParserTypes, PlanInv
<1>8. NoGap'
  <2> SUFFICES ASSUME NEW b \in TxBlocks, b \in base + 1 .. row'.current PROVE b \in Covered
    BY <1>1, <1>2 DEF NoGap, Covered
  <2>1. b \in base + 1 .. row.current \/ b \in plan.first .. plan.last
    BY <1>4, <1>7
  <2> QED
    BY <1>7, <2>1 DEF PipelineInv, NoGap, Covered
<1>9. row'.current >= row.current
  BY <1>4, <1>7
<1> QED
  BY <1>2, <1>5, <1>6, <1>8, <1>9 DEF PipelineInv

-----------------------------------------------------------------------------
(* The consumers.                                                          *)

\* A step of a consumer leaves the parser alone: it is enough that no block with
\* transactions leaves the cover and none is handed on anew.
LEMMA ConsumerKeeps ==
  ASSUME PipelineInv, UNCHANGED <<head, parser>>, Fault \/ UNCHANGED count,
         DataTypes', QueueInv', StoreInv',
         TxBlocks \intersect Covered \subseteq Covered', Handed' \subseteq Handed
  PROVE  PipelineInv' /\ UNCHANGED row
<1>1. head' \in 0 .. MaxBlock /\ head' >= head /\ head' = head
  BY DEF PipelineInv, ParserTypes
<1>2. RowInv' /\ PlanInv' /\ NoGap'
  BY <1>1, ParserKeeps
<1>3. DeepInv'
  BY <1>1, DeepKeeps
<1>4. ParserTypes'
  <2>1. count' \in [faults : 0 .. MaxFaults, toggles : 0 .. MaxToggles]
    BY CountType DEF PipelineInv
  <2> QED
    BY <2>1 DEF PipelineInv, ParserTypes, parser
<1> QED
  BY <1>2, <1>3, <1>4 DEF PipelineInv, parser

\* A step of one consumer: what waited for it still waits, is stored or is lost,
\* and it holds nothing that was not handed on before.
LEMMA OneConsumer ==
  ASSUME PipelineInv, NEW q \in Queues, UNCHANGED <<head, parser>>, Fault \/ UNCHANGED count,
         DataTypes', StoreInv',
         \A p \in Queues \ {q} : queue'[p] = queue[p] /\ job'[p] = job[p],
         stored \subseteq stored', lost \subseteq lost', Waiting(q) \subseteq Covered',
         stored' \union lost' \union In(queue'[q]) \union job'[q].blocks \subseteq Handed,
         Len(queue'[q]) <= QueueLimit + (IF job'[q] = Nothing THEN 1 ELSE 0)
  PROVE  PipelineInv' /\ UNCHANGED row
<1>1. QueueInv'
  BY DEF PipelineInv, QueueInv
<1>2. Covered \subseteq Covered' /\ Handed' \subseteq Handed
  <2>1. CASE q = "fetch"
    <3>1. queue'["store"] = queue["store"] /\ job'["store"] = job["store"]
      BY <2>1 DEF Queues
    <3> QED
      BY <2>1, <3>1 DEF Covered, Handed, Waiting
  <2>2. CASE q = "store"
    <3>1. queue'["fetch"] = queue["fetch"] /\ job'["fetch"] = job["fetch"]
      BY <2>2 DEF Queues
    <3> QED
      BY <2>2, <3>1 DEF Covered, Handed, Waiting
  <2> QED
    BY <2>1, <2>2 DEF Queues
<1> QED
  BY <1>1, <1>2, ConsumerKeeps

\* The consumer goes on to another stage with the message it holds.
LEMMA JobAt ==
  ASSUME DataTypes, NEW q \in Queues, NEW at \in {"idle", "process", "notify", "ack"},
         job' = [job EXCEPT ![q].at = at]
  PROVE  /\ job' \in [Queues -> Jobs] /\ \A p \in Queues \ {q} : job'[p] = job[p]
         /\ job'[q].at = at /\ job'[q].blocks = job[q].blocks /\ job'[q].inserted = job[q].inserted
BY DEF DataTypes, Jobs

\* The blocks of a queue and of its consumer.
LEMMA QueueTypes ==
  ASSUME PipelineInv, NEW q \in Queues
  PROVE  /\ queue[q] \in Messages /\ Len(queue[q]) \in Nat /\ QueueLimit \in Nat \ {0}
         /\ job[q] \in Jobs /\ job[q].blocks \in SUBSET Blocks /\ job[q].inserted \in SUBSET Blocks
         /\ In(queue[q]) \subseteq Handed /\ job[q].blocks \subseteq Handed
         /\ stored \union lost \subseteq Handed
         /\ Len(queue[q]) <= QueueLimit + (IF job[q] = Nothing THEN 1 ELSE 0)
<1>1. queue[q] \in Messages /\ job[q] \in Jobs /\ Len(queue[q]) <= QueueLimit + (IF job[q] = Nothing THEN 1 ELSE 0)
  BY DEF PipelineInv, DataTypes, QueueInv
<1>2. Len(queue[q]) \in Nat /\ job[q].blocks \in SUBSET Blocks /\ job[q].inserted \in SUBSET Blocks
  BY <1>1 DEF Messages, Jobs
<1>3. In(queue[q]) \subseteq Handed /\ job[q].blocks \subseteq Handed /\ stored \union lost \subseteq Handed
  BY DEF Handed, Queues
<1> QED
  BY <1>1, <1>2, <1>3, PipelineAssumption

\* The broker delivers the first message to the consumer.
LEMMA DeliverInv == ASSUME PipelineInv, NEW q \in Queues, Deliver(q) PROVE PipelineInv' /\ UNCHANGED row
<1>1. PICK s \in Messages : s = queue[q] /\ s # <<>> /\ job[q] = Nothing /\ Len(s) <= QueueLimit + 1
  BY QueueTypes DEF Deliver
<1>2. PICK t \in Messages, h \in SUBSET Blocks :
        t = Tail(s) /\ h = Head(s) /\ Len(t) = Len(s) - 1 /\ Len(s) >= 1 /\ In(s) = h \union In(t)
  BY <1>1, InTail, Zenon
<1>3. /\ job' = [job EXCEPT ![q] = [blocks |-> h, at |-> "process", inserted |-> {}]]
      /\ queue' = [queue EXCEPT ![q] = t]
      /\ UNCHANGED <<head, parser, stored, notified, lost, count>>
  BY <1>1, <1>2 DEF Deliver, database
<1>4. [blocks |-> h, at |-> "process", inserted |-> {}] \in Jobs
  BY DEF Jobs
<1>5. /\ queue'[q] = t /\ job'[q] = [blocks |-> h, at |-> "process", inserted |-> {}]
      /\ job'[q].blocks = h /\ job'[q].at = "process"
      /\ \A p \in Queues \ {q} : queue'[p] = queue[p] /\ job'[p] = job[p]
  BY <1>3 DEF PipelineInv, DataTypes
<1>6. DataTypes'
  BY <1>3, <1>4 DEF PipelineInv, DataTypes
<1>7. StoreInv'
  <2>1. job'["store"].at = "notify" => job'["store"] = job["store"]
    BY <1>5 DEF Queues
  <2> QED
    BY <1>3, <2>1 DEF PipelineInv, StoreInv
<1>8. Waiting(q) = In(s) /\ Waiting(q)' = In(s) /\ Waiting(q)' \subseteq Covered'
  <2>1. Waiting(q) = In(s)
    BY <1>1 DEF Waiting, Nothing
  <2>2. Waiting(q)' = In(s)
    BY <1>2, <1>5 DEF Waiting
  <2>3. Waiting(q)' \subseteq Covered'
    BY DEF Covered, Queues
  <2> QED
    BY <2>1, <2>2, <2>3
<1>9. stored' \union lost' \union In(queue'[q]) \union job'[q].blocks \subseteq Handed
  BY <1>1, <1>2, <1>3, <1>5, QueueTypes
<1>10. Len(queue'[q]) <= QueueLimit + (IF job'[q] = Nothing THEN 1 ELSE 0)
  <2>1. Len(t) <= QueueLimit /\ QueueLimit \in Nat /\ Len(t) \in Nat
    BY <1>1, <1>2, QueueTypes DEF Messages
  <2> QED
    BY <1>5, <2>1
<1> QED
  BY <1>3, <1>5, <1>6, <1>7, <1>8, <1>9, <1>10, OneConsumer

\* The consumer acknowledges its message.
LEMMA AckInv == ASSUME PipelineInv, NEW q \in Queues, Ack(q) PROVE PipelineInv' /\ UNCHANGED row
<1>1. /\ job[q].at = "ack" /\ job' = [job EXCEPT ![q] = Nothing]
      /\ UNCHANGED <<head, parser, queue, stored, notified, lost, count>>
  BY DEF Ack, database
<1>2. job'[q] = Nothing /\ \A p \in Queues \ {q} : queue'[p] = queue[p] /\ job'[p] = job[p]
  BY <1>1 DEF PipelineInv, DataTypes
<1>3. DataTypes'
  BY <1>1 DEF PipelineInv, DataTypes, Jobs, Nothing
<1>4. StoreInv'
  <2>1. job'["store"].at = "notify" => job'["store"] = job["store"]
    BY <1>2 DEF Queues, Nothing
  <2> QED
    BY <1>1, <2>1 DEF PipelineInv, StoreInv
<1>5. Waiting(q) \subseteq Covered'
  BY <1>1 DEF Waiting, Covered, Queues
<1>6. stored' \union lost' \union In(queue'[q]) \union job'[q].blocks \subseteq Handed
  BY <1>1, <1>2, QueueTypes DEF Nothing
<1>7. Len(queue'[q]) <= QueueLimit + (IF job'[q] = Nothing THEN 1 ELSE 0)
  BY <1>1, <1>2, QueueTypes
<1> QED
  BY <1>1, <1>2, <1>3, <1>4, <1>5, <1>6, <1>7, OneConsumer

\* An interrupted upsert stores some blocks of its message.
LEMMA PartStored ==
  ASSUME NEW q \in Queues, UpsertPart(q)
  PROVE  stored \subseteq stored' /\ stored' \subseteq stored \union job[q].blocks
BY DEF UpsertPart

\* A message goes back to its queue.
LEMMA RequeueInv ==
  ASSUME PipelineInv, NEW q \in Queues, job[q] # Nothing, Requeue(q), job' = [job EXCEPT ![q] = Nothing],
         UpsertPart(q), UNCHANGED <<head, parser, notified, lost>>, Fault
  PROVE  PipelineInv' /\ UNCHANGED row
<1>1. PICK s \in Messages, x \in SUBSET Blocks : s = queue[q] /\ x = job[q].blocks
  BY QueueTypes
<1>2. PICK r \in Messages : r = <<x>> \o s /\ Len(r) = Len(s) + 1 /\ In(r) = x \union In(s)
  BY InCons, Zenon
<1>3. /\ UNCHANGED notified /\ queue' = [queue EXCEPT ![q] = r]
      /\ stored \subseteq stored' /\ stored' \subseteq stored \union x
  BY <1>1, <1>2, PartStored DEF Requeue
<1>4. /\ queue'[q] = r /\ job'[q] = Nothing
      /\ \A p \in Queues \ {q} : queue'[p] = queue[p] /\ job'[p] = job[p]
  BY <1>3 DEF PipelineInv, DataTypes
<1>5. DataTypes'
  BY <1>3 DEF PipelineInv, DataTypes, Jobs, Nothing
<1>6. StoreInv'
  <2>1. job'["store"].at = "notify" => job'["store"] = job["store"]
    BY <1>4 DEF Queues, Nothing
  <2> QED
    BY <1>3, <2>1 DEF PipelineInv, StoreInv
<1>7. Waiting(q) \subseteq Covered'
  <2>1. In(queue'[q]) \subseteq Covered'
    BY DEF Waiting, Covered, Queues
  <2> QED
    BY <1>1, <1>2, <1>4, <2>1 DEF Waiting
<1>8. stored' \union lost' \union In(queue'[q]) \union job'[q].blocks \subseteq Handed
  BY <1>1, <1>2, <1>3, <1>4, QueueTypes DEF Nothing
<1>9. Len(queue'[q]) <= QueueLimit + (IF job'[q] = Nothing THEN 1 ELSE 0)
  <2>1. Len(s) <= QueueLimit /\ QueueLimit \in Nat /\ Len(s) \in Nat
    BY <1>1, QueueTypes
  <2> QED
    BY <1>2, <1>4, <2>1
<1> QED
  BY <1>3, <1>4, <1>5, <1>6, <1>7, <1>8, <1>9, OneConsumer

\* The consumer restarts, and its message is delivered again.
LEMMA ConsumerRestartInv ==
  ASSUME PipelineInv, NEW q \in Queues, ConsumerRestart(q) PROVE PipelineInv' /\ UNCHANGED row
BY RequeueInv, Zenon DEF ConsumerRestart

\* The consumer fails, and its message is requeued or acknowledged.
LEMMA ProcessErrorInv ==
  ASSUME PipelineInv, NEW q \in Queues, ProcessError(q) PROVE PipelineInv' /\ UNCHANGED row
<1>1. job[q].at \in {"process", "notify"} /\ job[q] # Nothing
  BY DEF ProcessError, Nothing
<1>2. CASE q \in SkipOnError
  <2>1. /\ job' = [job EXCEPT ![q].at = "ack"] /\ lost' = lost \union job[q].blocks
        /\ stored \subseteq stored' /\ stored' \subseteq stored \union job[q].blocks
        /\ UNCHANGED <<head, parser, queue, notified>> /\ Fault
    BY <1>2, PartStored DEF ProcessError
  <2>2. /\ job' \in [Queues -> Jobs] /\ \A p \in Queues \ {q} : job'[p] = job[p]
        /\ job'[q].at = "ack" /\ job'[q].blocks = job[q].blocks
    BY <2>1, JobAt, Zenon DEF PipelineInv
  <2>3. DataTypes'
    BY <2>1, <2>2, QueueTypes DEF PipelineInv, DataTypes
  <2>4. StoreInv'
    <3>1. job'["store"].at = "notify" => job'["store"] = job["store"]
      BY <2>2 DEF Queues
    <3> QED
      BY <2>1, <3>1 DEF PipelineInv, StoreInv
  <2>5. Waiting(q) \subseteq Covered'
    BY <2>1 DEF Waiting, Covered, Queues
  <2>6. stored' \union lost' \union In(queue'[q]) \union job'[q].blocks \subseteq Handed
    BY <2>1, <2>2, QueueTypes
  <2>7. Len(queue'[q]) <= QueueLimit + (IF job'[q] = Nothing THEN 1 ELSE 0)
    <3>1. job'[q] # Nothing
      BY <2>2 DEF Nothing
    <3> QED
      BY <1>1, <2>1, <3>1, QueueTypes
  <2> QED
    BY <2>1, <2>2, <2>3, <2>4, <2>5, <2>6, <2>7, OneConsumer
<1>3. CASE q \notin SkipOnError
  BY <1>1, <1>3, RequeueInv DEF ProcessError
<1> QED
  BY <1>2, <1>3

\* The store consumer inserts the rows that are new, and remembers which.
LEMMA UpsertTransactionsInv == ASSUME PipelineInv, UpsertTransactions PROVE PipelineInv' /\ UNCHANGED row
<1> DEFINE q == "store"
<1>1. PICK x \in SUBSET Blocks : x = job[q].blocks
  BY QueueTypes DEF Queues
<1>2. /\ job[q].at = "process" /\ stored' = stored \union x
      /\ job' = [job EXCEPT ![q] = [blocks |-> x, at |-> "notify", inserted |-> x \ stored]]
      /\ UNCHANGED <<head, parser, queue, notified, lost, count>>
  BY <1>1 DEF UpsertTransactions
<1>3. q \in Queues /\ job[q] # Nothing
  BY <1>2 DEF Queues, Nothing
<1>4. /\ job'[q] = [blocks |-> x, at |-> "notify", inserted |-> x \ stored]
      /\ \A p \in Queues \ {q} : queue'[p] = queue[p] /\ job'[p] = job[p]
  BY <1>2, <1>3 DEF PipelineInv, DataTypes
<1>5. job'[q].at = "notify" /\ job'[q].blocks = x /\ job'[q].inserted = x \ stored /\ job'[q] # Nothing
  BY <1>4 DEF Nothing
<1>6. DataTypes'
  <2>1. [blocks |-> x, at |-> "notify", inserted |-> x \ stored] \in Jobs
    BY DEF Jobs
  <2> QED
    BY <1>2, <2>1, Zenon DEF PipelineInv, DataTypes
<1>7. StoreInv'
  <2>1. \A b \in Blocks : notified[b] <= 1 /\ (notified[b] = 1 => b \in stored) /\ notified[b] \in Nat
    BY DEF PipelineInv, StoreInv, DataTypes
  <2>2. \A b \in x \ stored : notified[b] = 0
    BY <2>1
  <2> QED
    BY <1>2, <1>5, <2>1, <2>2 DEF StoreInv
<1>8. Waiting(q) \subseteq Covered'
  BY <1>1, <1>2 DEF Waiting, Covered
<1>9. stored' \union lost' \union In(queue'[q]) \union job'[q].blocks \subseteq Handed
  BY <1>1, <1>2, <1>3, <1>5, QueueTypes
<1>10. Len(queue'[q]) <= QueueLimit + (IF job'[q] = Nothing THEN 1 ELSE 0)
  BY <1>2, <1>3, <1>5, QueueTypes
<1> HIDE DEF q
<1> QED
  BY <1>2, <1>3, <1>4, <1>6, <1>7, <1>8, <1>9, <1>10, OneConsumer

\* The store consumer notifies of the rows it inserted.
LEMMA PublishNotificationsInv == ASSUME PipelineInv, PublishNotifications PROVE PipelineInv' /\ UNCHANGED row
<1> DEFINE q == "store"
<1>1. /\ job[q].at = "notify" /\ job' = [job EXCEPT ![q].at = "ack"]
      /\ notified' = [b \in Blocks |-> IF b \in job[q].inserted THEN notified[b] + 1 ELSE notified[b]]
      /\ UNCHANGED <<head, parser, queue, stored, lost, count>>
  BY DEF PublishNotifications
<1>2. q \in Queues /\ job[q] # Nothing
  BY <1>1 DEF Queues, Nothing
<1>3. /\ job' \in [Queues -> Jobs] /\ \A p \in Queues \ {q} : queue'[p] = queue[p] /\ job'[p] = job[p]
      /\ job'[q].at = "ack" /\ job'[q].blocks = job[q].blocks
  BY <1>1, <1>2, JobAt, Zenon DEF PipelineInv
<1>4. /\ notified \in [Blocks -> Nat] /\ job[q].blocks \subseteq stored
      /\ \A b \in job[q].inserted : b \in stored /\ notified[b] = 0
      /\ \A b \in Blocks : notified[b] <= 1 /\ (notified[b] = 1 => b \in stored)
  BY <1>1 DEF PipelineInv, DataTypes, StoreInv
<1>5. DataTypes'
  BY <1>1, <1>3, <1>4 DEF PipelineInv, DataTypes
<1>6. StoreInv'
  BY <1>1, <1>3, <1>4 DEF StoreInv
<1>7. Waiting(q) \subseteq Covered'
  BY <1>1, <1>4 DEF Waiting, Covered
<1>8. stored' \union lost' \union In(queue'[q]) \union job'[q].blocks \subseteq Handed
  BY <1>1, <1>2, <1>3, QueueTypes
<1>9. Len(queue'[q]) <= QueueLimit + (IF job'[q] = Nothing THEN 1 ELSE 0)
  <2>1. job'[q] # Nothing
    BY <1>3 DEF Nothing
  <2> QED
    BY <1>1, <1>2, <2>1, QueueTypes
<1> HIDE DEF q
<1> QED
  BY <1>1, <1>2, <1>3, <1>5, <1>6, <1>7, <1>8, <1>9, OneConsumer

\* The consumer of fetch_blocks publishes what it fetched to the other queue.
LEMMA ProcessFetchInv ==
  ASSUME PipelineInv, NEW ok \in BOOLEAN, ProcessFetch(ok) PROVE PipelineInv' /\ UNCHANGED row
<1>1. PICK x \in SUBSET Blocks : x = job["fetch"].blocks
  BY QueueTypes DEF Queues
<1>2. /\ job["fetch"].at = "process" /\ publish_transactions(x, ok) /\ Maybe(ok)
      /\ job' = [job EXCEPT !["fetch"].at = "ack"] /\ UNCHANGED <<head, parser, stored, notified>>
  BY <1>1 DEF ProcessFetch, database
<1>3. Enters("store", x \intersect TxBlocks)
  BY <1>2, TransactionsEnter DEF PipelineInv
<1>4. /\ job' \in [Queues -> Jobs] /\ job'["store"] = job["store"]
      /\ job'["fetch"].at = "ack" /\ job'["fetch"].blocks = x
  BY <1>1, <1>2, JobAt DEF PipelineInv, Queues
<1>5. /\ queue' \in [Queues -> Messages] /\ lost' \subseteq Blocks /\ lost \subseteq lost'
      /\ queue'["fetch"] = queue["fetch"]
      /\ In(queue'["store"]) \union lost' = In(queue["store"]) \union lost \union (x \intersect TxBlocks)
      /\ Len(queue'["store"]) <= QueueLimit \/ Len(queue'["store"]) <= Len(queue["store"])
  BY <1>3 DEF Enters, Queues
<1>6. DataTypes'
  BY <1>2, <1>4, <1>5 DEF PipelineInv, DataTypes
<1>7. StoreInv'
  BY <1>2, <1>4 DEF PipelineInv, StoreInv
<1>8. QueueInv'
  <2>1. job["fetch"] # Nothing /\ job'["fetch"] # Nothing
    BY <1>2, <1>4 DEF Nothing
  <2>2. Len(queue'["fetch"]) <= QueueLimit + (IF job'["fetch"] = Nothing THEN 1 ELSE 0)
    BY <1>5, <2>1, QueueTypes DEF Queues
  <2>3. Len(queue'["store"]) \in Nat
    BY <1>6 DEF DataTypes, Messages, Queues
  <2>4. Len(queue'["store"]) <= QueueLimit + (IF job'["store"] = Nothing THEN 1 ELSE 0)
    BY <1>4, <1>5, <2>3, QueueTypes DEF Queues
  <2> QED
    BY <2>2, <2>4 DEF QueueInv, Queues
<1>9. TxBlocks \intersect Covered \subseteq Covered'
  BY <1>1, <1>2, <1>4, <1>5 DEF Covered, Waiting
<1>10. Handed' \subseteq Handed
  BY <1>1, <1>2, <1>4, <1>5 DEF Handed
<1>11. Fault \/ UNCHANGED count
  BY <1>2 DEF Maybe
<1> QED
  BY <1>2, <1>6, <1>7, <1>8, <1>9, <1>10, <1>11, ConsumerKeeps

-----------------------------------------------------------------------------
(* The chain and the operator, and the theorems.                           *)

\* The chain grows.
LEMMA NewBlockInv == ASSUME PipelineInv, NewBlock PROVE PipelineInv' /\ UNCHANGED row
<1>1. /\ UNCHANGED <<queue, job, stored, notified, lost>> /\ head' \in 0 .. MaxBlock /\ head' >= head
      /\ UNCHANGED <<parser, count>>
  BY PipelineAssumption DEF NewBlock, database, PipelineInv, ParserTypes
<1>2. DataTypes' /\ QueueInv' /\ DeepInv' /\ StoreInv' /\ Covered' = Covered
  BY <1>1, Quiet
<1>3. RowInv' /\ PlanInv' /\ NoGap'
  BY <1>1, <1>2, ParserKeeps
<1>4. ParserTypes'
  BY <1>1 DEF PipelineInv, ParserTypes, parser
<1> QED
  BY <1>1, <1>2, <1>3, <1>4 DEF PipelineInv, parser

\* The parser is switched on or off; its position stays.
LEMMA ToggleInv == ASSUME PipelineInv, Toggle PROVE PipelineInv' /\ row'.current = row.current
<1>1. /\ UNCHANGED <<head, pc, seen, plan, queue, job, stored, notified, base, lost>> /\ head \in 0 .. MaxBlock
      /\ head >= head
  BY DEF Toggle, database, PipelineInv, ParserTypes
<1>2. DataTypes' /\ QueueInv' /\ DeepInv' /\ StoreInv' /\ Covered' = Covered
  BY <1>1, Quiet
<1>3. /\ row' \in [current : 0 .. MaxBlock, latest : 0 .. MaxBlock, enabled : BOOLEAN]
      /\ row'.current = row.current /\ row'.latest = row.latest
  BY Zenon DEF Toggle, PipelineInv, ParserTypes
<1>4. count' \in [faults : 0 .. MaxFaults, toggles : 0 .. MaxToggles]
  BY PipelineAssumption DEF Toggle, PipelineInv, ParserTypes
<1>5. ParserTypes'
  BY <1>1, <1>3, <1>4 DEF PipelineInv, ParserTypes
<1>6. RowInv'
  BY <1>1, <1>3 DEF PipelineInv, RowInv
<1>7. PlanInv'
  BY <1>1, <1>2, <1>3 DEF PipelineInv, PlanInv
<1>8. NoGap'
  BY <1>1, <1>2, <1>3 DEF PipelineInv, NoGap, Covered
<1> QED
  BY <1>2, <1>3, <1>5, <1>6, <1>7, <1>8 DEF PipelineInv

\* PipelineInv holds when the daemon starts.
LEMMA PipelineInit == ASSUME Init PROVE PipelineInv
<1>1. \A q \in Queues : queue[q] = <<>> /\ job[q] = Nothing /\ In(queue[q]) = {}
  BY DEF Init, In
<1>2. Handed = {} /\ Covered = {}
  BY <1>1 DEF Init, Handed, Covered, Waiting, Queues, Nothing
<1>3. ParserTypes
  BY PipelineAssumption DEF Init, ParserTypes, NoPlan
<1>4. DataTypes
  BY DEF Init, DataTypes, Messages, Jobs, Nothing
<1>5. QueueInv
  BY <1>1, PipelineAssumption DEF QueueInv
<1>6. RowInv /\ PlanInv /\ NoGap /\ DeepInv
  BY <1>2, <1>3 DEF Init, RowInv, PlanInv, NoGap, DeepInv, ParserTypes
<1>7. StoreInv
  BY <1>1 DEF Init, StoreInv, Queues, Nothing
<1> QED
  BY <1>3, <1>4, <1>5, <1>6, <1>7 DEF PipelineInv

\* Every step keeps the invariant, and none takes current_block back.
LEMMA PipelineStep ==
  ASSUME PipelineInv, [Next]_vars
  PROVE  PipelineInv' /\ row'.current >= row.current
<1>1. row.current \in Nat
  BY PipelineAssumption DEF PipelineInv, ParserTypes
<1> SUFFICES PipelineInv' /\ (UNCHANGED row \/ row'.current = row.current \/ row'.current >= row.current)
  BY <1>1
<1>2. CASE ParserStep
  BY <1>2, ReadStateInv, PlanNextInv, PublishBlockInv, ParseBlocksInv, SetCurrentBlockInv, GetLatestBlockInv, Zenon DEF ParserStep, ReadState
<1>3. CASE ParserFault
  BY <1>3, GiveUpInv, PublishBlockInv, ParseBlocksInv, SetCurrentBlockInv, GetLatestBlockInv, Zenon DEF ParserFault
<1>4. CASE ConsumerStep
  BY <1>4, DeliverInv, AckInv, ProcessFetchInv, UpsertTransactionsInv, PublishNotificationsInv, Zenon DEF ConsumerStep
<1>5. CASE ConsumerFault
  BY <1>5, ProcessErrorInv, ConsumerRestartInv, ProcessFetchInv, Zenon DEF ConsumerFault
<1>6. CASE NewBlock
  BY <1>6, NewBlockInv
<1>7. CASE Toggle
  BY <1>7, ToggleInv
<1>8. CASE UNCHANGED vars
  <2>1. UNCHANGED <<head, row, pc, seen, plan, queue, job, stored, notified, base, lost, count>>
    BY <1>8 DEF vars
  <2>2. Covered' = Covered /\ Handed' = Handed
    BY <2>1 DEF Covered, Handed, Waiting
  <2>3. ParserTypes' /\ DataTypes' /\ QueueInv' /\ RowInv'
    BY <2>1 DEF PipelineInv, ParserTypes, DataTypes, QueueInv, RowInv
  <2>4. PlanInv' /\ DeepInv' /\ StoreInv'
    BY <2>1, <2>2 DEF PipelineInv, PlanInv, DeepInv, StoreInv
  <2>5. NoGap'
    BY <2>1, <2>2 DEF PipelineInv, NoGap, Covered
  <2> QED
    BY <2>1, <2>3, <2>4, <2>5 DEF PipelineInv
<1> QED
  BY <1>2, <1>3, <1>4, <1>5, <1>6, <1>7, <1>8 DEF Next

\* PipelineInv holds in every reachable state.
LEMMA PipelineSafe == Spec => []PipelineInv
<1>1. PipelineInv /\ [Next]_vars => PipelineInv'
  BY PipelineStep
<1> QED
  BY <1>1, PipelineInit, PTL DEF Spec

\* The parser, the broker's queues and the consumers keep their types, and a
\* queue holds at most one message more than its limit.
THEOREM TypeCorrect == Spec => []TypeOK
<1>1. PipelineInv => TypeOK
  <2> SUFFICES ASSUME PipelineInv PROVE TypeOK
    OBVIOUS
  <2>1. \A q \in Queues : Len(queue[q]) <= QueueLimit + 1
    BY QueueTypes
  <2> QED
    BY <2>1 DEF PipelineInv, ParserTypes, DataTypes, Messages, Jobs, TypeOK
<1> QED
  BY <1>1, PipelineSafe, PTL

\* current_block never passes a block whose transactions were not handed on:
\* each is stored, waits in a queue or a consumer, or was lost by the broker or
\* a skipped error.
THEOREM NothingSkipped == Spec => []NoGap
<1>1. PipelineInv => NoGap
  BY DEF PipelineInv
<1> QED
  BY <1>1, PipelineSafe, PTL

\* No block is published, stored or given up before await_blocks follow it.
THEOREM ConfirmedBlocksOnly == Spec => []Deep
<1>1. PipelineInv => Deep
  <2> SUFFICES ASSUME PipelineInv PROVE Deep
    OBVIOUS
  <2>1. Covered \subseteq Handed
    BY Handling DEF PipelineInv
  <2> QED
    BY <2>1 DEF PipelineInv, DeepInv, Deep, Covered
<1> QED
  BY <1>1, PipelineSafe, PTL

\* The upsert makes notifications idempotent: a block parsed or delivered again
\* is not notified again.
THEOREM NotifiedAtMostOnce == Spec => []NotifiedOnce
<1>1. PipelineInv => NotifiedOnce
  BY DEF PipelineInv, StoreInv, NotifiedOnce
<1> QED
  BY <1>1, PipelineSafe, PTL

\* No step of the parser, its restarts and a node that lags included, takes
\* current_block back.
THEOREM NeverBack == Spec => Forward
<1>1. PipelineInv /\ [Next]_vars => [row'.current >= row.current]_vars
  BY PipelineStep
<1> QED
  BY <1>1, PipelineSafe, PTL DEF Spec, Forward
=============================================================================
