----------------------- MODULE KeystoreSteps_proofs -------------------------
(***************************************************************************)
(* Lemmas on the module Keystore: tasks and files, the frames of SafetyInv,*)
(* the starts of operations, launches and faults, and that the steps of    *)
(* the operations preserve SafetyInv.                                      *)
(***************************************************************************)
EXTENDS Keystore, TLAPS

\* Most leaves are first-order; those that need arithmetic or records name SMT.
\* Kept is expanded throughout.
USE Zenon
USE DEF Kept

-----------------------------------------------------------------------------
(* The lemmas speak of the invariants through these names, so that a proof  *)
(* that opens one of them leaves the lemmas it cites as they are.           *)

Safe == SafetyInv

\* What thread t, at its step, relies on.
Claims(t) ==
    /\ t = "ui" => ImportInv /\ DeleteInv
    /\ t = "startup" => MigrateInv /\ ShareInv

\* The conjuncts of SafetyInv, shown one by one.
LEMMA SafeAgain ==
    ASSUME TypeOK', RaceInv', PasswordInv', DiskInv', OwnedInv',
           MigrateInv', ShareInv', ImportInv', DeleteInv'
    PROVE  Safe'
BY DEF Safe, SafetyInv

-----------------------------------------------------------------------------
(* Helpers on tasks.                                                       *)

\* The fields of a task that a step inside one operation does not change.
Same(tk, tl) ==
    /\ tl.op = tk.op /\ tl.w = tk.w /\ tl.todo = tk.todo

\* Only the task of thread t changes.
OnlyTask(t) ==
    /\ DOMAIN task' = Threads
    /\ \A u \in Threads \ {t} : task'[u] = task[u]

\* The fields of an operation in flight have their types.
LEMMA TaskFields ==
    ASSUME NEW t \in Threads, NEW tk, TaskOf(t, tk)
    PROVE  /\ tk # Idle
           /\ tk.op \in Ops /\ tk.at \in Steps /\ tk.w \in Wallets /\ tk.pw \in Passwords
           /\ tk.file \in File /\ tk.then \in Steps /\ tk.todo \subseteq Wallets
           /\ tk.create \in BOOLEAN
BY SMT DEF TaskOf, Tasks, Idle, Ops, StepsOf

\* A thread at a step is not idle, and its operation is well formed.
LEMMA Working ==
    ASSUME Safe, NEW t \in Threads, NEW step, At(t, step)
    PROVE  task[t] # Idle /\ TaskOf(t, task[t]) /\ task[t].at = step
BY SMT DEF Safe, SafetyInv, TypeOK, At, Idle

\* The steps of every operation are steps.
LEMMA StepsTyped == \A op \in Ops : StepsOf[op] \subseteq Steps
<1> SUFFICES ASSUME NEW op \in Ops
             PROVE  StepsOf[op] \subseteq Steps
  OBVIOUS
<1>1. CASE op = "migrate_v3"
  BY <1>1 DEF Steps, StepsOf, Writing
<1>2. CASE op = "import"
  BY <1>2 DEF Steps, StepsOf, Writing
<1>3. CASE op = "delete"
  BY <1>3 DEF Steps, StepsOf, Writing
<1>4. CASE op = "share"
  BY <1>4 DEF Steps, StepsOf, Writing
<1>5. CASE op = "setup"
  BY <1>5 DEF Steps, StepsOf, Writing
<1> QED
  BY <1>1, <1>2, <1>3, <1>4, <1>5 DEF Ops

\* Become replaces the operation of one thread.
LEMMA BecomeTask ==
    ASSUME Safe, NEW t \in Threads, NEW tk, Become(t, tk)
    PROVE  OnlyTask(t) /\ task'[t] = tk
BY DEF Safe, SafetyInv, TypeOK, OnlyTask, Become

\* Goto(t, step) moves the task of t and changes nothing else of it.
LEMMA GotoTask ==
    ASSUME Safe, NEW t \in Threads, TaskOf(t, task[t]),
           NEW step, step \in StepsOf[task[t].op], Goto(t, step)
    PROVE  /\ OnlyTask(t)
           /\ TaskOf(t, task'[t])
           /\ Same(task[t], task'[t])
           /\ task'[t].at = step /\ task'[t].pw = task[t].pw
           /\ task'[t].file = task[t].file /\ task'[t].then = task[t].then
<1>. DEFINE tk == task[t]
            tl == [tk EXCEPT !.at = step]
<1>1. OnlyTask(t) /\ task'[t] = tl
  BY BecomeTask DEF Goto
<1>2. tk \in Tasks /\ tk.op \in Ops /\ step \in Steps
  BY StepsTyped DEF TaskOf, Tasks
<1>3. /\ tl \in Tasks /\ tl.op = tk.op /\ tl.w = tk.w /\ tl.todo = tk.todo /\ tl.at = step
      /\ tl.pw = tk.pw /\ tl.file = tk.file /\ tl.then = tk.then
  BY <1>2 DEF Tasks
<1>. HIDE DEF tl
<1>4. TaskOf(t, tl)
  BY <1>3 DEF TaskOf
<1> QED
  BY <1>1, <1>3, <1>4 DEF Same

\* StartWrite and Remove set where the operation goes on.
LEMMA WriteTask ==
    ASSUME Safe, NEW t \in Threads, TaskOf(t, task[t]),
           NEW f \in File, NEW then, then \in StepsOf[task[t].op], "temp" \in StepsOf[task[t].op],
           StartWrite(t, f, then)
    PROVE  /\ OnlyTask(t)
           /\ TaskOf(t, task'[t])
           /\ Same(task[t], task'[t])
           /\ task'[t].at = "temp" /\ task'[t].pw = task[t].pw
           /\ task'[t].file = f /\ task'[t].then = then
<1>. DEFINE tk == task[t]
            tl == [tk EXCEPT !.at = "temp", !.file = f, !.then = then]
<1>1. OnlyTask(t) /\ task'[t] = tl
  BY BecomeTask DEF StartWrite
<1>2. tk \in Tasks /\ tk.op \in Ops /\ then \in Steps /\ "temp" \in Steps
  BY StepsTyped DEF TaskOf, Tasks
<1>3. /\ tl \in Tasks /\ tl.op = tk.op /\ tl.w = tk.w /\ tl.todo = tk.todo /\ tl.at = "temp"
      /\ tl.pw = tk.pw /\ tl.file = f /\ tl.then = then
  BY <1>2 DEF Tasks
<1>. HIDE DEF tl
<1>4. TaskOf(t, tl)
  BY <1>3 DEF TaskOf
<1> QED
  BY <1>1, <1>3, <1>4 DEF Same

\* An operation that goes to the directory sync stays well formed and keeps its
\* wallets and its file.
LEMMA SyncTask ==
    ASSUME Safe, NEW t \in Threads, TaskOf(t, task[t]),
           NEW then, then \in StepsOf[task[t].op] \union {"done"}, "sync" \in StepsOf[task[t].op],
           Become(t, [task[t] EXCEPT !.at = "sync", !.then = then])
    PROVE  /\ OnlyTask(t)
           /\ TaskOf(t, task'[t])
           /\ Same(task[t], task'[t])
           /\ task'[t].at = "sync" /\ task'[t].pw = task[t].pw /\ task'[t].then = then
<1>. DEFINE tk == task[t]
            tl == [tk EXCEPT !.at = "sync", !.then = then]
<1>1. OnlyTask(t) /\ task'[t] = tl
  BY BecomeTask
<1>2. tk \in Tasks /\ tk.op \in Ops /\ then \in Steps /\ "sync" \in Steps
  <2>1. tk \in Tasks /\ tk.op \in Ops /\ "done" \in Steps
    BY DEF TaskOf, Tasks, Steps
  <2> QED
    BY <2>1, StepsTyped
<1>3. /\ tl \in Tasks /\ tl.op = tk.op /\ tl.w = tk.w /\ tl.todo = tk.todo /\ tl.at = "sync"
      /\ tl.pw = tk.pw /\ tl.then = then
  BY <1>2 DEF Tasks
<1>. HIDE DEF tl
<1>4. TaskOf(t, tl)
  BY <1>3 DEF TaskOf
<1> QED
  BY <1>1, <1>3, <1>4 DEF Same

\* After Finish(t) thread t is idle or its loop is at the first step of another
\* of its wallets.
Ended(t) ==
    \/ task'[t] = Idle
    \/ /\ TaskOf(t, task'[t])
       /\ task'[t].op = task[t].op
       /\ t = "startup"
       /\ task'[t].at = FirstStep[task[t].op]
       /\ task'[t].todo \subseteq task[t].todo \ {task[t].w}

\* Finish ends an operation, or starts the same one on the next wallet.
LEMMA FinishTask ==
    ASSUME Safe, NEW t \in Threads, TaskOf(t, task[t]), Finish(t)
    PROVE  OnlyTask(t) /\ Ended(t)
<1>. DEFINE tk0 == task[t]
<1>1. PICK tk \in NextTasks(tk0) : Become(t, tk)
  BY DEF Finish
<1>2. OnlyTask(t) /\ task'[t] = tk
  BY <1>1, BecomeTask
<1>3. CASE tk0.todo = {tk0.w}
  BY <1>1, <1>2, <1>3 DEF NextTasks, Ended
<1>4. CASE tk0.todo # {tk0.w}
  <2>1. PICK w \in tk0.todo \ {tk0.w} :
            tk = [tk0 EXCEPT !.todo = @ \ {tk0.w}, !.w = w, !.at = FirstStep[tk0.op]]
    BY <1>1, <1>4 DEF NextTasks
  <2>2. t = "startup" /\ tk0.op \in {"migrate_v3", "share", "setup"} /\ tk0.op \in Ops
    BY <1>4 DEF TaskOf, Tasks, Threads
  <2>3. FirstStep[tk0.op] \in StepsOf[tk0.op]
    BY SMT, <2>2 DEF FirstStep, StepsOf
  <2>4. tk0 \in Tasks /\ w \in Wallets /\ FirstStep[tk0.op] \in Steps
    BY <2>2, <2>3, StepsTyped DEF TaskOf, Tasks
  <2>5. /\ tk \in Tasks /\ tk.op = tk0.op /\ tk.w = w /\ tk.then = tk0.then
        /\ tk.todo = tk0.todo \ {tk0.w} /\ tk.at = FirstStep[tk0.op]
    BY <2>1, <2>4 DEF Tasks
  <2>6. TaskOf(t, tk)
    BY <2>1, <2>2, <2>3, <2>5 DEF TaskOf
  <2> QED
    BY <1>2, <2>2, <2>5, <2>6 DEF Ended
<1> QED
  BY <1>2, <1>3, <1>4

-----------------------------------------------------------------------------
(* Helpers on files and entries.                                           *)

\* What a file is: absent, unreadable, or a secret sealed under a password.
LEMMA FileFacts ==
    /\ NoFile \in File /\ CorruptFile \in File
    /\ NoFile.kind # "ok" /\ CorruptFile.kind # "ok"
    /\ \A f \in File : f.kind # "ok" => f \in {NoFile, CorruptFile}
    /\ \A f \in File : f.kind = "ok" => f.pw \in Passwords /\ f.secret \in Secrets
    /\ \A pw \in Passwords, s \in Secrets :
          /\ Sealed(pw, s) \in File
          /\ Sealed(pw, s).kind = "ok" /\ Sealed(pw, s).pw = pw /\ Sealed(pw, s).secret = s
    /\ \A f \in File : f.kind = "ok" => f = Sealed(f.pw, f.secret)
BY SMT DEF File, NoFile, CorruptFile, Sealed

\* The v3 and v4 names of the wallets are different directory entries.
LEMMA EntryFacts ==
    /\ \A w \in Wallets : V4(w) \in Entries /\ V3(w) \in Entries
    /\ \A w, x \in Wallets : V4(w) # V3(x)
    /\ \A w, x \in Wallets : w # x => V4(w) # V4(x) /\ V3(w) # V3(x)
    /\ \A f \in Entries : \E w \in Wallets : f = V4(w) \/ f = V3(w)
BY SMT DEF Entries, V4, V3

\* Put changes one entry and adds its new version to those that may be found.
PutEffect(f, file) ==
    /\ dir' \in [Entries -> File] /\ pending' \in [Entries -> SUBSET File]
    /\ dir'[f] = file /\ pending'[f] = pending[f] \union {file}
    /\ \A g \in Entries \ {f} : dir'[g] = dir[g] /\ pending'[g] = pending[g]

\* Put changes one entry, and adds the new value to those it may settle to.
LEMMA PutEntry ==
    ASSUME Safe, NEW f \in Entries, NEW file \in File, Put(f, file)
    PROVE  PutEffect(f, file)
BY DEF Safe, SafetyInv, TypeOK, Put, PutEffect

\* A change of an entry of one wallet leaves the entries of the others alone.
LEMMA PutOther ==
    ASSUME NEW w \in Wallets, NEW f \in {V4(w), V3(w)}, NEW file, PutEffect(f, file)
    PROVE  /\ \A x \in Wallets \ {w} : /\ dir'[V4(x)] = dir[V4(x)] /\ pending'[V4(x)] = pending[V4(x)]
                                       /\ dir'[V3(x)] = dir[V3(x)] /\ pending'[V3(x)] = pending[V3(x)]
           /\ f = V4(w) => /\ pending'[V3(w)] = pending[V3(w)] /\ dir'[V3(w)] = dir[V3(w)]
                           /\ pending'[V4(w)] = pending[V4(w)] \union {file} /\ dir'[V4(w)] = file
           /\ f = V3(w) => dir'[V4(w)] = dir[V4(w)] /\ pending'[V4(w)] = pending[V4(w)]
           /\ V4(w) # V3(w)
BY EntryFacts DEF PutEffect

\* A new maintenance loop is well formed, ...
LEMMA NewTask ==
    ASSUME NEW t \in Threads, NEW op \in Ops, NEW step \in Steps, NEW w \in Wallets, NEW todo, todo \subseteq Wallets,
           op \in IF t = "ui" THEN {"import", "delete"} ELSE {"migrate_v3", "share", "setup"},
           step \in StepsOf[op], w \in todo, t = "ui" => todo = {w}
    PROVE  LET tk == [Task(op, step, w) EXCEPT !.todo = todo]
           IN  /\ TaskOf(t, tk) /\ tk.op = op /\ tk.at = step /\ tk.w = w /\ tk.todo = todo
<1>. DEFINE tk == [Task(op, step, w) EXCEPT !.todo = todo]
<1>1. NoFile \in File /\ Shared \in Passwords /\ "done" \in Steps
  BY FileFacts DEF Passwords, Steps
<1>2. /\ tk \in Tasks /\ tk.op = op /\ tk.at = step /\ tk.w = w /\ tk.todo = todo /\ tk.then = "done"
  BY <1>1 DEF Task, Tasks
<1>. HIDE DEF tk
<1>3. TaskOf(t, tk)
  BY <1>2 DEF TaskOf
<1> QED
  BY <1>2, <1>3 DEF tk

\* ... and so is an operation the user starts.
LEMMA NewUiTask ==
    ASSUME NEW op \in {"import", "delete"}, NEW step, NEW w \in Wallets,
           step = IF op = "import" THEN "has_stored" ELSE "delete_v4"
    PROVE  LET tk == Task(op, step, w)
           IN  TaskOf("ui", tk) /\ tk.op = op /\ tk.at = step /\ tk.w = w /\ tk.todo = {w}
<1>. DEFINE tk == Task(op, step, w)
<1>1. /\ NoFile \in File /\ Shared \in Passwords /\ "done" \in Steps /\ {w} \in SUBSET Wallets
      /\ step \in Steps /\ step \in StepsOf[op] /\ op \in Ops
  BY SMT, FileFacts DEF Passwords, Steps, StepsOf, Ops
<1>2. tk \in Tasks /\ tk.op = op /\ tk.at = step /\ tk.w = w /\ tk.todo = {w} /\ tk.then = "done"
  BY <1>1 DEF Task, Tasks
<1>. HIDE DEF tk
<1>3. TaskOf("ui", tk)
  BY <1>1, <1>2 DEF TaskOf
<1> QED
  BY <1>2, <1>3 DEF tk

-----------------------------------------------------------------------------
(* Frames.                                                                 *)

\* Thread t goes on with its operation, with its loop, or ends.
Goes(t) ==
    \/ task'[t] = Idle
    \/ /\ TaskOf(t, task'[t])
       /\ task'[t].op = task[t].op /\ task'[t].todo \subseteq task[t].todo

\* An operation that moves on and one that ends both leave the other wallets
\* of the loop as they were.
LEMMA Going ==
    ASSUME NEW t \in Threads, (TaskOf(t, task'[t]) /\ Same(task[t], task'[t])) \/ Ended(t)
    PROVE  Goes(t)
BY DEF Goes, Ended, Same

\* A thread that is not syncing leaves the syncs of the other one alone.
LEMMA SyncFrame ==
    ASSUME NEW t \in Threads, OnlyTask(t), task[t].at # "sync"
    PROVE  /\ \A w \in Wallets : SyncingOn(w) => SyncingOn(w)'
           /\ Syncing => Syncing'
BY DEF OnlyTask, SyncingOn, Syncing

\* Each step belongs to one operation, and so to one thread.
LEMMA StepOps ==
    ASSUME NEW t \in Threads, NEW tk, TaskOf(t, tk)
    PROVE  /\ tk.at \in {"needs", "import_v3", "verify", "undo", "cleanup"}
                => t = "startup" /\ tk.op = "migrate_v3"
           /\ tk.at \in {"has_stored", "password", "create"} => t = "ui" /\ tk.op = "import"
           /\ tk.at \in {"delete_v4", "delete_v3", "delete_row"} => t = "ui" /\ tk.op = "delete"
           /\ tk.at \in {"exists", "opens", "change", "confirm", "forget"}
                => t = "startup" /\ tk.op = "share"
           /\ tk.at = "derive" => t = "startup" /\ tk.op = "setup"
           /\ tk.at = "store" => tk.op \in {"import", "setup"}
           /\ tk.op \in {"import", "delete"} <=> t = "ui"
           /\ tk.op \in {"migrate_v3", "share", "setup"} <=> t = "startup"
           /\ tk.at # "done"
BY SMT DEF TaskOf, Tasks, Ops, StepsOf, Writing, Threads

\* A thread at a step: its operation, its wallet, and the rest of its task.
LEMMA Doing ==
    ASSUME Safe, NEW t \in Threads, NEW step, At(t, step)
    PROVE  /\ task[t] # Idle /\ TaskOf(t, task[t]) /\ task[t] \in Tasks /\ task[t].at = step
           /\ task[t].w \in Wallets /\ task[t].w \in task[t].todo /\ task[t].todo \subseteq Wallets
           /\ task[t].pw \in Passwords /\ task[t].file \in File
           /\ step \in {"needs", "import_v3", "verify", "undo", "cleanup"}
                => t = "startup" /\ task[t].op = "migrate_v3"
           /\ step \in {"has_stored", "password", "create"} => t = "ui" /\ task[t].op = "import"
           /\ step \in {"delete_v4", "delete_v3", "delete_row"} => t = "ui" /\ task[t].op = "delete"
           /\ step \in {"exists", "opens", "change", "confirm", "forget"}
                => t = "startup" /\ task[t].op = "share"
           /\ step = "derive" => t = "startup" /\ task[t].op = "setup"
           /\ step = "store" => task[t].op \in {"import", "setup"}
           /\ step \in {"temp", "rename"} => lock = t /\ task[t].op \in {"migrate_v3", "import", "share"}
<1>. SafetyInv
  BY DEF Safe
<1>1. task[t] # Idle /\ TaskOf(t, task[t]) /\ task[t].at = step
  BY Working DEF SafetyInv
<1>2. step \in {"temp", "rename"} => lock = t /\ task[t].op \in {"migrate_v3", "import", "share"}
  BY SMT, <1>1 DEF SafetyInv, TypeOK, TaskOf, Tasks, Ops, StepsOf, Writing
<1> QED
  BY <1>1, <1>2, TaskFields, StepOps DEF TaskOf

\* With the lock free no entry is waiting for its sync.
LEMMA Settled ==
    ASSUME Safe, lock = Nobody
    PROVE  /\ ~Syncing
           /\ \A w \in Wallets : dir[V4(w)].kind = "ok" => pending[V4(w)] = {dir[V4(w)]}
           /\ \A w \in Wallets : dir[V4(w)].kind # "ok" => pending[V4(w)] \subseteq {NoFile, CorruptFile}
<1>. SafetyInv
  BY DEF Safe
<1>1. \A t \in Threads : task[t] # Idle => task[t].at \notin Writing
  BY DEF SafetyInv, TypeOK, Threads, Nobody
<1>2. \A t \in Threads : ~(task[t] # Idle /\ task[t].at = "sync")
  BY <1>1 DEF Writing
<1>3. \A w \in Wallets : \/ dir[V4(w)].kind = "ok" /\ pending[V4(w)] = {dir[V4(w)]}
                        \/ pending[V4(w)] \subseteq {NoFile, CorruptFile}
  BY <1>2 DEF SafetyInv, DiskInv, SyncingOn
<1>4. \A w \in Wallets : dir[V4(w)] \in pending[V4(w)]
  BY EntryFacts DEF SafetyInv, TypeOK
<1> QED
  BY SMT, <1>2, <1>3, <1>4, FileFacts DEF Syncing

-----------------------------------------------------------------------------
(* The first launch.                                                       *)

\* The files of a wallet: at most one of the two, under one of its passwords.
InitialPair(w) ==
    /\ dir[V4(w)].kind \in {"none", "ok"} /\ dir[V3(w)].kind \in {"none", "ok"}
    /\ dir[V4(w)].kind = "none" => dir[V4(w)] = NoFile
    /\ dir[V3(w)].kind = "none" => dir[V3(w)] = NoFile
    /\ dir[V4(w)] = NoFile \/ dir[V3(w)] = NoFile
    /\ dir[V4(w)].kind = "ok" => dir[V4(w)].secret = w /\ dir[V4(w)].pw \in {w, Shared}
    /\ dir[V3(w)].kind = "ok" => dir[V3(w)].pw = Own(w)

\* The initial states: nothing at work, and everything on disk synced.
LEMMA InitialDisk ==
    ASSUME Init
    PROVE  /\ TypeOK /\ task["ui"] = Idle /\ task["startup"] = Idle
           /\ \A f \in Entries : pending[f] = {dir[f]}
           /\ \A w \in Wallets : InitialPair(w)
<1>1. PICK start : /\ \A w \in Wallets : start[w] \in InitialFiles(w)
                   /\ dir = [f \in Entries |-> start[f[2]][IF f[1] = "v4" THEN 1 ELSE 2]]
  BY DEF Init
<1>2. ASSUME NEW w \in Wallets
      PROVE  /\ <<dir[V4(w)], dir[V3(w)]>> \in InitialFiles(w)
             /\ dir[V4(w)] \in File /\ dir[V3(w)] \in File
  <2>1. V4(w) \in Entries /\ V3(w) \in Entries
    BY DEF V4, V3, Entries
  <2>2. start[w] = <<start[w][1], start[w][2]>>
    BY SMT, <1>1 DEF InitialFiles
  <2>3. dir[V4(w)] = start[w][1] /\ dir[V3(w)] = start[w][2]
    BY <1>1, <2>1 DEF V4, V3
  <2>4. <<dir[V4(w)], dir[V3(w)]>> \in InitialFiles(w)
    BY <1>1, <2>2, <2>3
  <2>5. NoFile \in File /\ \A pw \in Passwords, s \in Secrets : Sealed(pw, s) \in File
    BY FileFacts
  <2>6. Own(w) \in Passwords /\ Shared \in Passwords /\ w \in Secrets /\ Foreign \in Secrets
    BY DEF Passwords, Secrets, Own
  <2>7. dir[V4(w)] \in File /\ dir[V3(w)] \in File
    BY <2>4, <2>5, <2>6 DEF InitialFiles
  <2> QED
    BY <2>4, <2>7
<1>3. \A f \in Entries : \E w \in Wallets : f = V4(w) \/ f = V3(w)
  BY SMT DEF Entries, V4, V3
<1>4. dir \in [Entries -> File]
  <2>1. \A f \in Entries : dir[f] \in File
    BY <1>2, <1>3
  <2>2. DOMAIN dir = Entries /\ dir = [f \in Entries |-> dir[f]]
    BY <1>1
  <2> QED
    BY <2>1, <2>2
<1>5. pending \in [Entries -> SUBSET File] /\ \A f \in Entries : pending[f] = {dir[f]}
  BY SMT, <1>4 DEF Init, Flushed
<1>6. task["ui"] = Idle /\ task["startup"] = Idle /\ \A t \in Threads : task[t] = Idle
  BY DEF Init, Threads
<1>7. TypeOK
  <2>1. shared \in BOOLEAN /\ lock = Nobody /\ stage = "migrate" /\ faults = 0 /\ 0 \in 0 .. MaxFaults
    BY SMT, WalletsAssumption DEF Init
  <2>2. {tmp, legacy, wallets, owned, deleted, raced} \subseteq SUBSET Wallets
    BY DEF Init
  <2>3. DOMAIN task = Threads
    BY DEF Init
  <2>4. \A t \in Threads : lock # t
    BY DEF Init, Threads, Nobody
  <2> QED
    BY <1>4, <1>5, <1>6, <2>1, <2>2, <2>3, <2>4 DEF TypeOK
<1>8. ASSUME NEW w \in Wallets
      PROVE  InitialPair(w)
  <2>1. PICK v4pw \in {Own(w), Shared} :
           \/ dir[V4(w)] = NoFile /\ dir[V3(w)] = NoFile
           \/ dir[V4(w)] = Sealed(v4pw, w) /\ dir[V3(w)] = NoFile
           \/ dir[V4(w)] = NoFile /\ dir[V3(w)] = Sealed(Own(w), w)
           \/ dir[V4(w)] = NoFile /\ dir[V3(w)] = Sealed(Own(w), Foreign)
    BY <1>2 DEF InitialFiles
  <2>2. NoFile.kind = "none" /\ NoFile.kind # "ok"
    BY DEF NoFile
  <2>3. /\ Sealed(v4pw, w).kind = "ok" /\ Sealed(v4pw, w).secret = w
        /\ Sealed(v4pw, w).pw = v4pw /\ v4pw \in {w, Shared}
    BY DEF Sealed, Own
  <2>4. \A s : Sealed(Own(w), s).kind = "ok" /\ Sealed(Own(w), s).pw = Own(w)
    BY DEF Sealed
  <2>5. CASE dir[V4(w)] = NoFile
    <3>1. dir[V3(w)] = NoFile \/ (dir[V3(w)].kind = "ok" /\ dir[V3(w)].pw = Own(w))
      BY <2>1, <2>2, <2>3, <2>4, <2>5
    <3> QED
      BY <2>2, <2>5, <3>1 DEF InitialPair
  <2>6. CASE dir[V4(w)] = Sealed(v4pw, w) /\ dir[V3(w)] = NoFile
    <3>1. dir[V4(w)].kind = "ok" /\ dir[V4(w)].secret = w /\ dir[V4(w)].pw \in {w, Shared}
      BY <2>3, <2>6
    <3> QED
      BY <2>2, <2>6, <3>1 DEF InitialPair
  <2> QED
    BY <2>1, <2>5, <2>6
<1> QED
  BY <1>5, <1>6, <1>7, <1>8

-----------------------------------------------------------------------------
(* The steps that begin an operation.                                      *)

\* What a begun operation leaves alone; its own claims and RaceInv are left.
LEMMA BeginFrame ==
    ASSUME Safe, NEW t \in Threads, task[t] = Idle, NEW tk, TaskOf(t, tk), tk.at \notin Writing,
           Become(t, tk), raced \subseteq raced', raced' \subseteq Wallets,
           UNCHANGED <<disk, legacy, wallets, lock, faults>>, shared => shared', shared' \in BOOLEAN,
           stage' \in {"migrate", "share", "setup"}, owned' \subseteq owned, deleted' \subseteq Wallets
    PROVE  /\ TypeOK' /\ PasswordInv' /\ DiskInv' /\ OwnedInv'
           /\ OnlyTask(t) /\ task'[t] = tk /\ tk # Idle
           /\ t = "ui" => Claims("startup")'
           /\ t = "startup" => Claims("ui")'
<1>. SafetyInv
  BY DEF Safe
<1>1. OnlyTask(t) /\ task'[t] = tk /\ tk # Idle
  BY BecomeTask, TaskFields
<1>2. dir' = dir /\ pending' = pending /\ tmp' = tmp /\ legacy' = legacy /\ wallets' = wallets
      /\ lock' = lock /\ faults' = faults
  BY DEF disk
<1>3. TypeOK'
  <2>1. \A u \in Threads : task'[u] # Idle => TaskOf(u, task'[u])
    BY SMT, <1>1 DEF SafetyInv, TypeOK, OnlyTask
  <2>2. \A u \in Threads : lock' = u <=> (task'[u] # Idle /\ task'[u].at \in Writing)
    BY <1>1, <1>2 DEF SafetyInv, TypeOK, OnlyTask
  <2> QED
    BY <1>1, <1>2, <2>1, <2>2 DEF SafetyInv, TypeOK, OnlyTask
<1>4. PasswordInv'
  BY <1>2 DEF SafetyInv, PasswordInv
<1>5. DiskInv'
  <2>1. (\A w \in Wallets : SyncingOn(w) => SyncingOn(w)') /\ (Syncing => Syncing')
    BY <1>1 DEF OnlyTask, SyncingOn, Syncing
  <2> QED
    BY <1>2, <2>1 DEF SafetyInv, DiskInv
<1>6. OwnedInv'
  BY <1>2 DEF SafetyInv, OwnedInv, OnDisk, AllRecover, Recovers, Held
<1>7. t = "ui" => MigrateInv' /\ ShareInv'
  BY <1>1, <1>2 DEF SafetyInv, MigrateInv, ShareInv, Startup, OnlyTask, Threads, AllRecover, Recovers, Held
<1>8. t = "startup" => ImportInv' /\ DeleteInv'
  BY <1>1, <1>2 DEF SafetyInv, ImportInv, DeleteInv, Ui, OnlyTask, Threads
<1> QED
  BY <1>1, <1>3, <1>4, <1>5, <1>6, <1>7, <1>8 DEF Claims

\* A maintenance loop starts on its wallets.
LEMMA BeginLoopStep ==
    ASSUME Safe, NEW op \in {"migrate_v3", "share", "setup"}, NEW todo, todo \subseteq wallets,
           BeginLoop("startup", op, todo),
           UNCHANGED <<disk, legacy, wallets, lock, faults, owned, deleted>>,
           shared => shared', shared' \in BOOLEAN, stage' \in {"migrate", "share", "setup"},
           op = "share" /\ todo # {} => shared'
    PROVE  Safe'
<1>. SafetyInv
  BY DEF Safe
<1>1. wallets \subseteq Wallets /\ raced \subseteq Wallets /\ deleted \subseteq Wallets
  BY DEF SafetyInv, TypeOK
<1>2. task["startup"] = Idle
  BY DEF BeginLoop, Begin, CanBegin, Threads
<1>3. CASE todo = {}
  <2>1. task' = task /\ raced' = raced
    BY <1>3 DEF BeginLoop
  <2>2. TypeOK' /\ RaceInv' /\ PasswordInv' /\ OwnedInv'
    BY ZenonT(30), <2>1 DEF SafetyInv, TypeOK, RaceInv, PasswordInv, OwnedInv, Ui, Startup,
                OnDisk, AllRecover, Recovers, Held, disk
  <2>3. DiskInv'
    BY <2>1 DEF SafetyInv, DiskInv, SyncingOn, Syncing, disk
  <2>4. MigrateInv' /\ ShareInv'
    BY <1>2, <2>1 DEF MigrateInv, ShareInv, Startup
  <2>5. ImportInv' /\ DeleteInv'
    BY <2>1 DEF SafetyInv, ImportInv, DeleteInv, Ui, disk
  <2> QED
    BY <2>2, <2>3, <2>4, <2>5, SafeAgain
<1>4. CASE todo # {}
  <2>. DEFINE tk(w) == [Task(op, FirstStep[op], w) EXCEPT !.todo = todo]
  <2>1. PICK w \in todo : Begin("startup", tk(w))
    BY <1>4 DEF BeginLoop
  <2>2. FirstStep[op] \in StepsOf[op] /\ FirstStep[op] \in Steps /\ op \in Ops /\ FirstStep[op] \notin Writing
        /\ "startup" \in Threads
    BY SMT DEF FirstStep, StepsOf, Steps, Ops, Writing, Threads
  <2>3. /\ TaskOf("startup", tk(w)) /\ tk(w).op = op /\ tk(w).at = FirstStep[op]
        /\ tk(w).w = w /\ tk(w).todo = todo
    BY SMT, <1>1, <2>2, NewTask
  <2>. HIDE DEF tk
  <2>4. Become("startup", tk(w)) /\ raced' = raced \union Races("startup", tk(w))
    BY <2>1 DEF Begin
  <2>5. Races("startup", tk(w)) = {x \in todo : task["ui"] # Idle /\ x \in task["ui"].todo
                                             /\ "delete" \in {op, task["ui"].op}}
    BY <2>3 DEF Races, Threads
  <2>6. raced \subseteq raced' /\ raced' \subseteq Wallets
    BY <1>1, <2>4, <2>5
  <2>7. /\ TypeOK' /\ PasswordInv' /\ DiskInv' /\ OwnedInv'
        /\ OnlyTask("startup") /\ task'["startup"] = tk(w) /\ tk(w) # Idle
        /\ ImportInv' /\ DeleteInv'
    BY <1>1, <1>2, <2>2, <2>3, <2>4, <2>6, BeginFrame DEF Claims
  <2>8. MigrateInv' /\ ShareInv'
    BY SMT, <1>4, <2>3, <2>7 DEF MigrateInv, ShareInv, Startup, FirstStep, Writing
  <2>9. RaceInv'
    <3>1. task'["ui"] = task["ui"] /\ (task["ui"] # Idle => task["ui"].w \in task["ui"].todo)
      BY <2>7 DEF OnlyTask, Threads, SafetyInv, TypeOK, TaskOf
    <3>2. task["ui"] # Idle /\ task["ui"].op = "delete" /\ task["ui"].w \in todo => task["ui"].w \in raced'
      BY <2>4, <2>5, <3>1
    <3> QED
      BY <2>3, <2>6, <2>7, <3>1, <3>2 DEF SafetyInv, RaceInv, Ui, Startup
  <2> QED
    BY <2>7, <2>8, <2>9, SafeAgain
<1> QED
  BY <1>3, <1>4

\* The three maintenance loops start in the order of the launch.
LEMMA StartLoopsStep ==
    ASSUME Safe, NEW t \in Threads, StartMigrateV3(t) \/ StartShare(t) \/ StartSetup(t)
    PROVE  Safe'
<1>. SafetyInv
  BY DEF Safe
<1>1. CASE StartMigrateV3(t)
  <2>. DEFINE todo == IF Android THEN wallets ELSE {w \in wallets : dir[V3(w)] # NoFile}
  <2>1. todo \subseteq wallets /\ BeginLoop("startup", "migrate_v3", todo)
    BY <1>1 DEF StartMigrateV3
  <2>. HIDE DEF todo
  <2> QED
    BY <1>1, <2>1, BeginLoopStep DEF StartMigrateV3, kept, SafetyInv, TypeOK
<1>2. CASE StartShare(t)
  <2>1. BeginLoop("startup", "share", wallets \intersect legacy)
    BY <1>2 DEF StartShare
  <2>2. /\ shared => shared'
        /\ shared' \in BOOLEAN
        /\ wallets \intersect legacy # {} => shared'
    BY <1>2 DEF StartShare
  <2> QED
    BY <1>2, <2>1, <2>2, BeginLoopStep DEF StartShare
<1>3. CASE StartSetup(t)
  <2>1. PICK todo : todo \subseteq wallets /\ BeginLoop("startup", "setup", todo)
    BY <1>3 DEF StartSetup
  <2> QED
    BY <1>3, <2>1, BeginLoopStep DEF StartSetup, kept, SafetyInv, TypeOK
<1> QED
  BY <1>1, <1>2, <1>3

\* An import or a deletion starts; one that meets the maintenance on a wallet is
\* recorded.
LEMMA BeginUiStep ==
    ASSUME Safe, NEW op \in {"import", "delete"}, NEW step, NEW w \in Wallets,
           step = (IF op = "import" THEN "has_stored" ELSE "delete_v4"), Begin("ui", Task(op, step, w)),
           UNCHANGED <<disk, shared, legacy, wallets, lock, stage, faults>>,
           owned' = IF op = "delete" THEN owned \ {w} ELSE owned, deleted' \subseteq Wallets,
           op = "import" => w \notin wallets
    PROVE  Safe'
<1>. SafetyInv
  BY DEF Safe
<1>. DEFINE tk == Task(op, step, w)
<1>2. step \in Steps /\ step \in StepsOf[op] /\ op \in Ops /\ step \notin Writing /\ "ui" \in Threads
  BY SMT DEF StepsOf, Steps, Ops, Writing, Threads
<1>3. TaskOf("ui", tk) /\ tk.op = op /\ tk.at = step /\ tk.w = w /\ tk.todo = {w}
  BY SMT, NewUiTask
<1>4. Begin("ui", tk)
  OBVIOUS
<1>. HIDE DEF tk
<1>5. Become("ui", tk) /\ raced' = raced \union Races("ui", tk) /\ task["ui"] = Idle
  BY <1>4 DEF Begin, CanBegin, Threads
<1>6. Races("ui", tk) \subseteq {w} /\ (op = "delete" /\ task["startup"] # Idle /\ w \in task["startup"].todo
                                            => w \in Races("ui", tk))
  BY <1>3 DEF Races, Threads
<1>7. raced \subseteq raced' /\ raced' \subseteq Wallets
  BY <1>5, <1>6 DEF SafetyInv, TypeOK
<1>8. owned' \subseteq owned /\ shared' \in BOOLEAN /\ (shared => shared') /\ stage' \in {"migrate", "share", "setup"}
  BY DEF SafetyInv, TypeOK
<1>9. /\ TypeOK' /\ PasswordInv' /\ DiskInv' /\ OwnedInv'
      /\ OnlyTask("ui") /\ task'["ui"] = tk /\ tk # Idle
      /\ MigrateInv' /\ ShareInv'
  BY SMT, <1>2, <1>3, <1>5, <1>7, <1>8, BeginFrame DEF Claims
<1>10. ImportInv' /\ DeleteInv'
  BY <1>3, <1>9 DEF ImportInv, DeleteInv, Ui, Writing
<1>11. RaceInv'
  <2>1. task'["startup"] = task["startup"]
    BY <1>9 DEF OnlyTask, Threads
  <2>2. w \notin Kept' /\ Kept' \subseteq wallets
    <3>1. Kept \subseteq wallets /\ Kept' \subseteq Kept
      BY <1>7, <1>8 DEF SafetyInv, RaceInv
    <3>2. CASE op = "import"
      BY <3>1, <3>2
    <3>3. CASE op = "delete"
      BY <3>1, <3>3
    <3> QED
      BY <3>1, <3>2, <3>3
  <2>3. task["startup"] # Idle => task["startup"].todo \ raced \subseteq wallets
    BY DEF SafetyInv, RaceInv, Startup
  <2>5. op = "delete" /\ task["startup"] # Idle /\ w \in task["startup"].todo => w \in raced'
    BY <1>5, <1>6
  <2> QED
    BY <1>3, <1>7, <1>9, <2>1, <2>2, <2>3, <2>5 DEF RaceInv, Ui, Startup
<1> QED
  BY <1>9, <1>10, <1>11, SafeAgain

\* The two operations the user starts.
LEMMA StartUiStep ==
    ASSUME Safe, NEW t \in Threads, NEW w \in Wallets, StartImport(t, w) \/ StartDelete(t, w)
    PROVE  Safe'
<1>. SafetyInv
  BY DEF Safe
<1>1. deleted \subseteq Wallets
  BY DEF SafetyInv, TypeOK
<1>2. CASE StartImport(t, w)
  BY <1>1, <1>2, BeginUiStep DEF StartImport, kept
<1>3. CASE StartDelete(t, w)
  BY <1>1, <1>3, BeginUiStep DEF StartDelete, kept
<1> QED
  BY <1>2, <1>3

\* A step that changes nothing preserves the invariant.
LEMMA StutterStep ==
    ASSUME Safe, UNCHANGED vars
    PROVE  Safe'
<1>. SafetyInv
  BY DEF Safe
<1>1. TypeOK' /\ RaceInv' /\ PasswordInv' /\ OwnedInv'
  <2>1. TypeOK' /\ RaceInv'
    BY DEF SafetyInv, TypeOK, RaceInv, Ui, Startup, vars
  <2>2. PasswordInv' /\ OwnedInv'
    BY ZenonT(30) DEF SafetyInv, PasswordInv, OwnedInv, OnDisk, AllRecover, Recovers, Held, vars
  <2> QED
    BY <2>1, <2>2
<1>2. DiskInv'
  BY DEF SafetyInv, DiskInv, SyncingOn, Syncing, vars
<1>3. MigrateInv' /\ ShareInv'
  BY DEF SafetyInv, MigrateInv, ShareInv, Startup, AllRecover, Recovers, Held, vars
<1>4. ImportInv' /\ DeleteInv'
  BY DEF SafetyInv, ImportInv, DeleteInv, Ui, vars
<1> QED
  BY <1>1, <1>2, <1>3, <1>4, SafeAgain

-----------------------------------------------------------------------------
(* The launches.                                                           *)

\* The invariant holds on the first launch, whatever files older versions left.
LEMMA InitSafety ==
    ASSUME Init
    PROVE  Safe
<1>1. /\ TypeOK /\ task["ui"] = Idle /\ task["startup"] = Idle
      /\ \A f \in Entries : pending[f] = {dir[f]}
      /\ \A w \in Wallets : /\ InitialPair(w) /\ V4(w) \in Entries /\ V3(w) \in Entries
                            /\ pending[V4(w)] = {dir[V4(w)]} /\ pending[V3(w)] = {dir[V3(w)]}
  BY InitialDisk, EntryFacts
<1>2. RaceInv /\ MigrateInv /\ ShareInv /\ ImportInv /\ DeleteInv
  <2>1. Kept \subseteq wallets
    <3>1. SUFFICES ASSUME NEW w \in Kept PROVE w \in wallets
      OBVIOUS
    <3>2. w \in Wallets /\ (dir[V4(w)].kind = "ok" \/ dir[V3(w)].kind = "ok")
      BY DEF Init
    <3>3. dir[V4(w)] # NoFile \/ dir[V3(w)] # NoFile
      BY SMT, <3>2 DEF NoFile
    <3> QED
      BY <3>2, <3>3 DEF Init
  <2> QED
    BY <1>1, <2>1 DEF RaceInv, MigrateInv, ShareInv, ImportInv, DeleteInv, Ui, Startup
<1>3. PasswordInv
  BY SMT, <1>1 DEF PasswordInv, Init
<1>4. DiskInv
  <2>1. ASSUME NEW w \in Wallets
        PROVE  /\ \/ dir[V4(w)].kind = "ok" /\ pending[V4(w)] = {dir[V4(w)]}
                  \/ pending[V4(w)] = {NoFile}
               /\ pending[V3(w)] = {dir[V3(w)]}
               /\ w \notin wallets => dir[V4(w)] = NoFile /\ dir[V3(w)] = NoFile
               /\ dir[V3(w)] = NoFile \/ (dir[V3(w)].kind = "ok" /\ dir[V3(w)].pw = Own(w))
    <3>1. w \notin wallets => dir[V4(w)] = NoFile /\ dir[V3(w)] = NoFile
      BY DEF Init
    <3> QED
      BY <1>1, <3>1 DEF InitialPair
  <2>2. \A w \in Wallets \ wallets : pending[V4(w)] = {NoFile}
    BY <1>1, <2>1
  <2> QED
    BY SMT, <2>1, <2>2 DEF DiskInv
<1>5. OwnedInv
  <2>1. ASSUME NEW w \in Kept
        PROVE  /\ \A g \in OnDisk(w) : g.kind = "ok" => Accepts(w, g.secret) /\ g.pw \in {w, Shared}
               /\ AllRecover(w, V4(w)) \/ AllRecover(w, V3(w))
    <3>1. w \in Wallets /\ \E f \in {V4(w), V3(w)} : dir[f].kind = "ok" /\ Accepts(w, dir[f].secret)
      BY DEF Init
    <3>2. pending[V4(w)] = {dir[V4(w)]} /\ pending[V3(w)] = {dir[V3(w)]}
      BY <1>1, <3>1
    <3>3. NoFile.kind = "none"
      BY DEF NoFile
    <3>4. /\ dir[V4(w)].kind = "ok" => Accepts(w, dir[V4(w)].secret) /\ dir[V4(w)].pw \in {w, Shared}
          /\ dir[V3(w)].kind = "ok" => Accepts(w, dir[V3(w)].secret) /\ dir[V3(w)].pw \in {w, Shared}
      BY <1>1, <3>1, <3>3 DEF InitialPair, Own
    <3>5. ASSUME NEW f \in {V4(w), V3(w)}, dir[f].kind = "ok"
          PROVE  Held(dir[f].pw)
      <4>1. dir[f].pw \in {w, Shared} /\ f \in Entries /\ w # Shared
        BY <1>1, <3>1, <3>4, <3>5, WalletsAssumption
      <4>2. CASE dir[f].pw = Shared
        BY <3>5, <4>1, <4>2 DEF Held, Init, Opens
      <4>3. CASE dir[f].pw = w
        BY <3>1, <3>5, <4>1, <4>3 DEF Held, Init, Opens
      <4> QED
        BY <4>1, <4>2, <4>3
    <3>6. AllRecover(w, V4(w)) \/ AllRecover(w, V3(w))
      BY <3>1, <3>2, <3>5 DEF AllRecover, Recovers
    <3> QED
      BY <3>2, <3>4, <3>6 DEF OnDisk
  <2> QED
    BY <2>1 DEF OwnedInv
<1> QED
  BY <1>1, <1>2, <1>3, <1>4, <1>5 DEF Safe, SafetyInv

\* What the disk promises when every entry settles to one of the values it may
\* hold: a synced directory, or the directory found after a power loss.
LEMMA SettleFrame ==
    ASSUME Safe, dir' \in [Entries -> File], pending' = [f \in Entries |-> {dir'[f]}],
           \A f \in Entries : dir'[f] \in pending[f],
           UNCHANGED <<kept, owned, raced>>
    PROVE  /\ pending' \in [Entries -> SUBSET File] /\ \A f \in Entries : dir'[f] \in pending'[f]
           /\ PasswordInv' /\ DiskInv' /\ OwnedInv'
<1>. SafetyInv
  BY DEF Safe
<1>1. pending' \in [Entries -> SUBSET File] /\ \A f \in Entries : pending'[f] = {dir'[f]}
  OBVIOUS
<1>2. shared' = shared /\ legacy' = legacy /\ wallets' = wallets /\ owned' = owned /\ raced' = raced
  BY DEF kept
<1>3. PasswordInv'
  BY <1>1, <1>2 DEF SafetyInv, PasswordInv
<1>4. DiskInv'
  <2>1. ASSUME NEW w \in Wallets
        PROVE  /\ V4(w) \in Entries /\ V3(w) \in Entries
               /\ pending'[V4(w)] = {dir'[V4(w)]} /\ pending'[V3(w)] = {dir'[V3(w)]}
               /\ dir'[V4(w)].kind = "ok" \/ dir'[V4(w)] \in {NoFile, CorruptFile}
               /\ dir'[V4(w)] \in pending[V4(w)] /\ dir'[V3(w)] \in pending[V3(w)]
    BY <1>1, EntryFacts, FileFacts
  <2>2. \A w \in Wallets \ (wallets \union raced) :
          /\ pending'[V3(w)] = {NoFile}
          /\ pending'[V4(w)] \subseteq {NoFile, CorruptFile, Sealed(Shared, w)}
    BY <2>1 DEF SafetyInv, DiskInv
  <2>3. \A w \in Wallets : \A g \in pending'[V3(w)] : g = NoFile \/ (g.kind = "ok" /\ g.pw = Own(w))
    BY <2>1 DEF SafetyInv, DiskInv
  <2>4. \A w \in Wallets :
          /\ \/ SyncingOn(w)'
             \/ dir'[V4(w)].kind = "ok" /\ pending'[V4(w)] = {dir'[V4(w)]}
             \/ pending'[V4(w)] \subseteq {NoFile, CorruptFile}
          /\ dir'[V3(w)] # NoFile => pending'[V3(w)] = {dir'[V3(w)]}
          /\ dir'[V3(w)] = NoFile => pending'[V3(w)] = {NoFile}
    BY <2>1
  <2> QED
    BY <1>2, <2>2, <2>3, <2>4 DEF DiskInv
<1>5. OwnedInv'
  <2>1. ASSUME NEW w \in Kept
        PROVE  /\ pending'[V4(w)] \subseteq pending[V4(w)] /\ pending'[V3(w)] \subseteq pending[V3(w)]
    <3>1. w \in Wallets
      BY DEF SafetyInv, TypeOK
    <3>2. V4(w) \in Entries /\ V3(w) \in Entries
      BY <3>1, EntryFacts
    <3> QED
      BY <1>1, <3>2
  <2>2. ASSUME NEW w \in Kept
        PROVE  /\ \A g \in OnDisk(w)' : g.kind = "ok" => Accepts(w, g.secret) /\ g.pw \in {w, Shared}
               /\ AllRecover(w, V4(w))' \/ AllRecover(w, V3(w))'
    BY <1>2, <2>1 DEF SafetyInv, OwnedInv, OnDisk, AllRecover, Recovers, Held
  <2> QED
    BY <1>2, <2>2 DEF OwnedInv
<1> QED
  BY <1>1, <1>3, <1>4, <1>5

\* A launch after a kill or a power loss: no operation is in flight.
LEMMA RestartFrame ==
    ASSUME Safe, task' = [t \in Threads |-> Idle], lock' = Nobody, stage' = "migrate",
           dir' \in [Entries -> File], pending' = [f \in Entries |-> {dir'[f]}],
           \A f \in Entries : dir'[f] \in pending[f],
           faults' \in 0 .. MaxFaults, UNCHANGED <<tmp, kept, history>>
    PROVE  Safe'
<1>. SafetyInv
  BY DEF Safe
<1>1. task'["ui"] = Idle /\ task'["startup"] = Idle /\ DOMAIN task' = Threads
  BY DEF Threads
<1>2. /\ pending' \in [Entries -> SUBSET File] /\ \A f \in Entries : dir'[f] \in pending'[f]
      /\ PasswordInv' /\ DiskInv' /\ OwnedInv'
  BY SettleFrame DEF history
<1>3. TypeOK'
  BY <1>1, <1>2 DEF SafetyInv, TypeOK, kept, history, Threads, Nobody
<1>4. RaceInv'
  BY <1>1 DEF SafetyInv, RaceInv, Ui, Startup, kept, history
<1>5. MigrateInv' /\ ShareInv' /\ ImportInv' /\ DeleteInv'
  BY <1>1, ZenonT(30) DEF MigrateInv, ShareInv, ImportInv, DeleteInv, Ui, Startup
<1> QED
  BY <1>2, <1>3, <1>4, <1>5, SafeAgain

\* The system kills the app: operations and locks are gone, the disk is as the
\* kernel has it.
LEMMA AppKilledStep ==
    ASSUME Safe, ~LateFlush, AppKilled
    PROVE  Safe'
<1>. SafetyInv
  BY DEF Safe
<1>1. pending' = Flushed /\ dir' = dir
  BY DEF AppKilled, LeftUnsynced
<1>2. faults' \in 0 .. MaxFaults
  BY SMT, WalletsAssumption DEF AppKilled, Fault, SafetyInv, TypeOK
<1>3. /\ dir' \in [Entries -> File] /\ \A f \in Entries : dir'[f] \in pending[f]
      /\ pending' = [f \in Entries |-> {dir'[f]}]
  BY <1>1 DEF SafetyInv, TypeOK, Flushed
<1> QED
  BY <1>2, <1>3, RestartFrame DEF AppKilled

\* A power loss: every entry that was not synced settles to one of its values.
LEMMA PowerLossStep ==
    ASSUME Safe, PowerLoss
    PROVE  Safe'
<1>. SafetyInv
  BY DEF Safe
<1>1. faults' \in 0 .. MaxFaults
  BY SMT, WalletsAssumption DEF PowerLoss, Fault, SafetyInv, TypeOK
<1>2. /\ dir' \in [Entries -> UNION {pending[f] : f \in Entries}]
      /\ \A f \in Entries : dir'[f] \in pending[f]
  BY DEF PowerLoss
<1>3. dir' \in [Entries -> File]
  BY <1>2 DEF SafetyInv, TypeOK
<1> QED
  BY <1>1, <1>2, <1>3, RestartFrame DEF PowerLoss

\* A v4 file becomes unreadable while the v3 file it was made from is still
\* there under the same password: the v3 file recovers the secret.
LEMMA DamageStep ==
    ASSUME Safe, NEW w \in Wallets, Damage(w)
    PROVE  Safe'
<1>. SafetyInv
  BY DEF Safe
<1>1. /\ V4(w) \in Entries /\ V3(w) \in Entries /\ CorruptFile \in File
      /\ CorruptFile.kind # "ok" /\ CorruptFile # NoFile
  BY EntryFacts, FileFacts DEF CorruptFile, NoFile
<1>2. /\ dir' \in [Entries -> File] /\ pending' \in [Entries -> SUBSET File]
      /\ dir'[V4(w)] = CorruptFile /\ pending'[V4(w)] = {CorruptFile}
      /\ \A f \in Entries \ {V4(w)} : dir'[f] = dir[f] /\ pending'[f] = pending[f]
  BY <1>1 DEF Damage, SafetyInv, TypeOK
<1>3. faults' \in 0 .. MaxFaults
  BY SMT, WalletsAssumption DEF Damage, Fault, SafetyInv, TypeOK
<1>4. /\ task' = task /\ shared' = shared /\ legacy' = legacy /\ wallets' = wallets /\ owned' = owned
      /\ raced' = raced /\ tmp' = tmp /\ deleted' = deleted /\ lock' = lock /\ stage' = stage
  BY DEF Damage, kept, history
<1>5. task["ui"] = Idle /\ task["startup"] = Idle /\ \A t \in Threads : task[t] = Idle
  BY DEF Damage, Threads
<1>6. TypeOK'
  BY <1>2, <1>3, <1>4 DEF SafetyInv, TypeOK
<1>7. RaceInv'
  BY <1>4 DEF SafetyInv, RaceInv, Ui, Startup
<1>8. PasswordInv'
  <2>1. \A f \in Entries : \A g \in pending'[f] : g \in pending[f] \/ g = CorruptFile
    BY <1>2
  <2> QED
    BY <1>1, <1>4, <2>1 DEF SafetyInv, PasswordInv, Opens
<1>9. /\ \A x \in Wallets : dir'[V3(x)] = dir[V3(x)] /\ pending'[V3(x)] = pending[V3(x)]
      /\ \A x \in Wallets \ {w} : dir'[V4(x)] = dir[V4(x)] /\ pending'[V4(x)] = pending[V4(x)]
  BY <1>2, EntryFacts
<1>10. /\ dir[V3(w)].kind = "ok" /\ dir[V3(w)].pw = dir[V4(w)].pw /\ dir[V4(w)].kind = "ok"
       /\ pending[V3(w)] = {dir[V3(w)]} /\ pending[V4(w)] = {dir[V4(w)]}
  BY Settled DEF Damage
<1>11. DiskInv'
  <2>1. ~Syncing /\ \A x \in Wallets : ~SyncingOn(x)
    BY <1>5 DEF Syncing, SyncingOn
  <2>2. dir[V3(w)] # NoFile
    BY <1>10, FileFacts
  <2>3. ASSUME NEW x \in Wallets \ {w}
        PROVE  \/ dir'[V4(x)].kind = "ok" /\ pending'[V4(x)] = {dir'[V4(x)]}
               \/ pending'[V4(x)] \subseteq {NoFile, CorruptFile}
    BY <1>9, <2>1, <2>3 DEF SafetyInv, DiskInv
  <2>4. pending'[V4(w)] \subseteq {NoFile, CorruptFile}
    BY <1>2, <1>10, EntryFacts
  <2>5. \A x \in Wallets :
          /\ dir'[V3(x)] # NoFile => pending'[V3(x)] = {dir'[V3(x)]}
          /\ \A g \in pending'[V3(x)] : g = NoFile \/ (g.kind = "ok" /\ g.pw = Own(x))
    BY <1>9 DEF SafetyInv, DiskInv
  <2>6. \A x \in Wallets \ raced' :
          dir'[V3(x)] = NoFile => pending'[V3(x)] = {NoFile} \/ dir'[V4(x)].kind = "ok"
    BY ZenonT(30), <1>4, <1>9, <2>1, <2>2 DEF SafetyInv, DiskInv
  <2>7. \A x \in Wallets \ (wallets' \union raced') :
          /\ pending'[V3(x)] = {NoFile}
          /\ pending'[V4(x)] \subseteq {NoFile, CorruptFile, Sealed(Shared, x)}
    BY <1>4, <1>9, <2>4 DEF SafetyInv, DiskInv
  <2> QED
    BY <2>3, <2>4, <2>5, <2>6, <2>7 DEF DiskInv
<1>12. MigrateInv' /\ ShareInv' /\ ImportInv' /\ DeleteInv'
  BY <1>4, <1>5 DEF MigrateInv, ShareInv, ImportInv, DeleteInv, Ui, Startup
<1>13. OwnedInv'
  <2>1. ASSUME w \in Kept PROVE Recovers(w, dir[V3(w)])
    <3>1. /\ Accepts(w, dir[V3(w)].secret)
          /\ Recovers(w, dir[V4(w)]) \/ Recovers(w, dir[V3(w)])
      BY <1>10, <2>1 DEF SafetyInv, OwnedInv, OnDisk, AllRecover
    <3> QED
      BY <1>10, <3>1 DEF Recovers
  <2>2. ASSUME NEW x \in Kept
        PROVE  /\ \A g \in OnDisk(x)' : g.kind = "ok" => Accepts(x, g.secret) /\ g.pw \in {x, Shared}
               /\ AllRecover(x, V4(x))' \/ AllRecover(x, V3(x))'
    <3>1. x \in Wallets
      BY DEF SafetyInv, TypeOK
    <3>2. CASE x = w
      <4>1. \A g \in OnDisk(x)' : g = CorruptFile \/ g \in OnDisk(x)
        BY <1>2, <1>9, <3>1, <3>2 DEF OnDisk
      <4>2. AllRecover(x, V3(x))'
        BY <1>4, <1>9, <1>10, <2>1, <3>2 DEF AllRecover, Recovers, Held
      <4> QED
        BY <1>1, <4>1, <4>2 DEF SafetyInv, OwnedInv
    <3>3. CASE x # w
      BY <1>4, <1>9, <3>1, <3>3 DEF SafetyInv, OwnedInv, OnDisk, AllRecover, Recovers, Held
    <3> QED
      BY <3>2, <3>3
  <2> QED
    BY <1>4, <2>2 DEF OwnedInv
<1> QED
  BY <1>6, <1>7, <1>8, <1>11, <1>12, <1>13, SafeAgain


-----------------------------------------------------------------------------
(* Frames.                                                                 *)

\* How a step of thread t may treat the lock: it takes it with a write or a
\* removal, keeps it meanwhile, and gives it back with the sync.
LockStep(t) ==
    \/ task[t].at \notin Writing /\ lock' = lock /\ (task'[t] # Idle => task'[t].at \notin Writing)
    \/ lock = Nobody /\ lock' = t /\ task'[t] # Idle /\ task'[t].at \in Writing
    \/ lock = t /\ lock' = t /\ task'[t] # Idle /\ task'[t].at \in Writing
    \/ lock = t /\ lock' = Nobody /\ (task'[t] # Idle => task'[t].at \notin Writing)

\* Such a step preserves the types.
LEMMA TypeFrame ==
    ASSUME Safe, NEW t \in Threads, task[t] # Idle, OnlyTask(t), Goes(t), LockStep(t),
           dir' \in [Entries -> File], pending' \in [Entries -> SUBSET File],
           \A f \in Entries : dir'[f] \in pending'[f],
           shared' \in BOOLEAN, faults' \in 0 .. MaxFaults, stage' = stage,
           {tmp', legacy', wallets', owned', deleted', raced'} \subseteq SUBSET Wallets
    PROVE  TypeOK'
<1>. TypeOK
  BY DEF Safe, SafetyInv
<1>1. \A u \in Threads : task'[u] # Idle => TaskOf(u, task'[u])
  BY DEF TypeOK, OnlyTask, Goes
<1>2. \A u \in Threads : lock' = u <=> (task'[u] # Idle /\ task'[u].at \in Writing)
  BY DEF TypeOK, OnlyTask, Threads, Nobody, LockStep
<1>3. lock' \in Threads \union {Nobody}
  BY DEF TypeOK, LockStep
<1> QED
  BY <1>1, <1>2, <1>3 DEF TypeOK, OnlyTask, TaskOf, Tasks

\* A step inside an operation does not make two operations meet on a wallet.
LEMMA RaceFrame ==
    ASSUME Safe, NEW t \in Threads, task[t] # Idle, OnlyTask(t), Goes(t),
           wallets' = wallets, owned' = owned, raced' = raced
    PROVE  RaceInv'
<1>. TypeOK /\ RaceInv
  BY DEF Safe, SafetyInv
<1>1. CASE t = "ui"
  BY <1>1 DEF RaceInv, Ui, Startup, OnlyTask, Goes, TypeOK, TaskOf, Threads
<1>2. CASE t = "startup"
  BY <1>2 DEF RaceInv, Ui, Startup, OnlyTask, Goes, TypeOK, TaskOf, Threads
<1> QED
  BY <1>1, <1>2 DEF Threads

\* A thread at the first step of its loop has no claim on a file yet.
LEMMA EndedFrame ==
    ASSUME Safe, NEW t \in Threads, task[t] # Idle, Ended(t), shared => shared'
    PROVE  Claims(t)'
<1>. SafetyInv
  BY DEF Safe
<1>1. CASE task'[t] = Idle
  BY <1>1 DEF Claims, ImportInv, DeleteInv, MigrateInv, ShareInv, Ui, Startup
<1>2. CASE task'[t] # Idle
  <2>1. t = "startup" /\ task'[t].op = task[t].op /\ task'[t].at = FirstStep[task[t].op]
    BY <1>2 DEF Ended
  <2> QED
    BY SMT, <2>1 DEF Claims, SafetyInv, MigrateInv, ShareInv, Startup, FirstStep, Writing
<1> QED
  BY <1>1, <1>2

\* A step that touches no file, no row and no record keeps what is claimed of
\* them and of the other thread: what is left to show is what thread t claims.
LEMMA QuietStep ==
    ASSUME Safe, NEW t \in Threads, task[t] # Idle, OnlyTask(t), Goes(t), LockStep(t),
           UNCHANGED <<dir, pending, legacy, wallets, stage, history>>,
           tmp' \subseteq Wallets, faults' \in 0 .. MaxFaults, shared => shared', shared' \in BOOLEAN,
           task[t].at # "sync", task'[t] # Idle => task'[t].at # "sync",
           Claims(t)'
    PROVE  Safe'
<1>. SafetyInv
  BY DEF Safe
<1>1. TypeOK'
  BY TypeFrame DEF SafetyInv, TypeOK, history
<1>2. RaceInv'
  BY RaceFrame DEF history
<1>3. DiskInv' /\ PasswordInv'
  BY SyncFrame DEF SafetyInv, DiskInv, PasswordInv, history
<1>4. OwnedInv'
  BY DEF SafetyInv, OwnedInv, AllRecover, Recovers, Held, OnDisk, history
<1>5. t = "ui" => MigrateInv' /\ ShareInv'
  <2>. SUFFICES ASSUME t = "ui" PROVE MigrateInv' /\ ShareInv'
    OBVIOUS
  <2>1. task'["startup"] = task["startup"]
    BY DEF OnlyTask, Threads
  <2>2. MigrateInv'
    BY <2>1 DEF SafetyInv, MigrateInv, AllRecover, Recovers, Held, Startup, history
  <2>3. ShareInv'
    BY <2>1 DEF SafetyInv, ShareInv, AllRecover, Recovers, Held, Startup, history
  <2> QED
    BY <2>2, <2>3
<1>6. t = "startup" => ImportInv' /\ DeleteInv'
  BY DEF SafetyInv, ImportInv, DeleteInv, OnlyTask, Ui, Threads, history
<1> QED
  BY <1>1, <1>2, <1>3, <1>4, <1>5, <1>6, SafeAgain DEF Claims, Threads

-----------------------------------------------------------------------------
(* The steps that touch no file.                                           *)

\* write_atomic writes and syncs the temporary file.
LEMMA WriteTempStep ==
    ASSUME Safe, NEW t \in Threads, WriteTemp(t)
    PROVE  Safe'
<1>. SafetyInv
  BY DEF Safe
<1>1. /\ task[t] # Idle /\ TaskOf(t, task[t]) /\ task[t].at = "temp" /\ lock = t /\ tmp' \subseteq Wallets
      /\ "rename" \in StepsOf[task[t].op] /\ task[t].op \in {"migrate_v3", "import", "share"}
      /\ UNCHANGED <<dir, pending, kept, lock, stage, faults, history>>
  BY SMT, Doing DEF SafetyInv, TypeOK, WriteTemp, StepsOf, Writing
<1>2. /\ OnlyTask(t) /\ Goes(t) /\ task'[t] # Idle /\ Same(task[t], task'[t])
      /\ task'[t].at = "rename" /\ task'[t].pw = task[t].pw
      /\ task'[t].file = task[t].file /\ task'[t].then = task[t].then
  BY <1>1, GotoTask, Going, TaskFields DEF WriteTemp
<1>3. t = "ui" => ImportInv' /\ DeleteInv'
  BY <1>1, <1>2 DEF SafetyInv, ImportInv, DeleteInv, Ui, Writing, Same, kept, history
<1>4. t = "startup" => MigrateInv' /\ ShareInv'
  BY <1>1, <1>2, ZenonT(30) DEF SafetyInv, MigrateInv, ShareInv, Startup, Writing, Same, kept, history,
                    AllRecover, Recovers, Held
<1> QED
  BY <1>1, <1>2, <1>3, <1>4, QuietStep DEF LockStep, Writing, SafetyInv, TypeOK, kept, Claims

\* A thread that has not a file in hand moves without touching one, after a
\* read that failed or not: what is left to show is what it claims then.
LEMMA ReadMove ==
    ASSUME Safe, NEW t \in Threads, task[t] # Idle, task[t].at \notin Writing, OnlyTask(t), Goes(t),
           task'[t] # Idle => task'[t].at \notin Writing,
           UNCHANGED <<disk, legacy, wallets, lock, stage, history>>, faults' \in 0 .. MaxFaults,
           shared => shared', shared' \in BOOLEAN,
           Claims(t)'
    PROVE  Safe'
<1>. SafetyInv
  BY DEF Safe
<1>1. /\ LockStep(t) /\ tmp' \subseteq Wallets
      /\ task[t].at # "sync" /\ (task'[t] # Idle => task'[t].at # "sync")
  BY DEF LockStep, SafetyInv, TypeOK, disk, Writing
<1> QED
  BY <1>1, QuietStep DEF disk, Claims

\* An operation ends without having touched a file in this step, because a read
\* or a removal failed.
LEMMA FailedStep ==
    ASSUME Safe, NEW t \in Threads, task[t] # Idle, task[t].at \notin Writing, Finish(t),
           faults' \in 0 .. MaxFaults, UNCHANGED <<disk, kept, lock, stage, history>>
    PROVE  Safe'
<1>. SafetyInv
  BY DEF Safe
<1>1. TaskOf(t, task[t]) /\ OnlyTask(t) /\ Ended(t) /\ Goes(t)
  BY FinishTask, Going DEF SafetyInv, TypeOK
<1>2. task'[t] # Idle => task'[t].at \notin Writing
  BY SMT, <1>1, StepOps DEF Ended, FirstStep, Writing
<1> QED
  BY <1>1, <1>2, EndedFrame, ReadMove DEF kept, SafetyInv, TypeOK

\* A quiet step outside the write path.
LEMMA QuietMove ==
    ASSUME Safe, NEW t \in Threads, task[t] # Idle, task[t].at \notin Writing, OnlyTask(t), Goes(t),
           task'[t] # Idle => task'[t].at \notin Writing,
           UNCHANGED <<disk, legacy, wallets, lock, stage, faults, history>>,
           shared => shared', shared' \in BOOLEAN,
           Claims(t)'
    PROVE  Safe'
<1>. SafetyInv
  BY DEF Safe
<1>1. faults' \in 0 .. MaxFaults
  BY DEF SafetyInv, TypeOK
<1> QED
  BY <1>1, ReadMove DEF Claims

\* An operation that ends, or a loop that turns to its next wallet, without
\* having touched a file in this step.
LEMMA QuietFinish ==
    ASSUME Safe, NEW t \in Threads, task[t] # Idle, task[t].at \notin Writing,
           Finish(t), UNCHANGED <<disk, kept, lock, stage, faults, history>>
    PROVE  Safe'
<1>1. faults' \in 0 .. MaxFaults
  BY DEF Safe, SafetyInv, TypeOK
<1> QED
  BY <1>1, FailedStep

\* A move to another step without touching a file: what is left to show is what
\* the operation claims at its new step.
LEMMA QuietGoto ==
    ASSUME Safe, NEW t \in Threads, task[t] # Idle, task[t].at \notin Writing,
           NEW step, Goto(t, step), step \in StepsOf[task[t].op], step \notin Writing,
           UNCHANGED <<disk, legacy, wallets, lock, stage, faults, history>>,
           shared => shared', shared' \in BOOLEAN,
           Claims(t)'
    PROVE  Safe'
<1>. SafetyInv
  BY DEF Safe
<1>1. OnlyTask(t) /\ Goes(t) /\ task'[t].at = step
  BY GotoTask, Going DEF SafetyInv, TypeOK
<1> QED
  BY <1>1, QuietMove DEF Claims

\* needs_migration decides whether the loop imports, verifies or skips a wallet.
LEMMA NeedsMigrationStep ==
    ASSUME Safe, NEW t \in Threads, NeedsMigration(t)
    PROVE  Safe'
<1>. SafetyInv
  BY DEF Safe
<1>1. PICK pw \in Passwords :
         /\ pw = Own(task[t].w)
         /\ task[t] # Idle /\ TaskOf(t, task[t]) /\ task[t] \in Tasks /\ task[t].at = "needs"
         /\ t = "startup" /\ task[t].op = "migrate_v3" /\ task[t].at \notin Writing
         /\ UNCHANGED <<disk, kept, lock, stage, faults, history>>
  BY ZenonT(60), Doing DEF NeedsMigration, Passwords, Own, Writing
<1>2. CASE Finish(t)
  BY <1>1, <1>2, QuietFinish
<1>3. CASE Become(t, [task[t] EXCEPT !.at = "import_v3", !.pw = pw]) /\ Held(pw)
  <2>1. OnlyTask(t) /\ task'[t] = [task[t] EXCEPT !.at = "import_v3", !.pw = pw] /\ "import_v3" \in Steps
    BY <1>3, BecomeTask DEF Steps
  <2>2. /\ task'[t] \in Tasks /\ Same(task[t], task'[t]) /\ task'[t].at = "import_v3"
        /\ task'[t].pw = pw /\ task'[t].then = task[t].then
    BY <1>1, <2>1 DEF Tasks, Same
  <2>3. Goes(t) /\ task'[t].at \notin Writing
    BY SMT, <1>1, <2>2, Going DEF TaskOf, StepsOf, Same, Writing
  <2>4. MigrateInv' /\ ShareInv'
    BY <1>1, <1>3, <2>2 DEF MigrateInv, ShareInv, Startup, Same, Held, kept
  <2> QED
    BY <1>1, <2>1, <2>3, <2>4, QuietMove DEF SafetyInv, TypeOK, kept, Claims
<1>4. Finish(t) \/ (Become(t, [task[t] EXCEPT !.at = "import_v3", !.pw = pw]) /\ Held(pw))
  BY SMT, <1>1, Doing, WalletsAssumption DEF NeedsMigration, Held, Own
<1> QED
  BY <1>2, <1>3, <1>4

\* From the verification migrate_wallet goes on to the removal of the v3 file,
\* with a v4 file that recovers the wallet, or to that of the v4 file.
LEMMA VerifiedStep ==
    ASSUME Safe, NEW t \in Threads, task[t] # Idle, task[t].at = "verify",
           NEW step \in {"cleanup", "undo"}, Goto(t, step),
           step = "cleanup" => AllRecover(task[t].w, V4(task[t].w)) /\ dir[V4(task[t].w)].kind = "ok",
           faults' \in 0 .. MaxFaults, UNCHANGED <<disk, kept, lock, stage, history>>
    PROVE  Safe'
<1>. SafetyInv
  BY DEF Safe
<1>1. /\ TaskOf(t, task[t]) /\ t = "startup" /\ task[t].op = "migrate_v3" /\ task[t].w \in Wallets
      /\ task[t].at \notin Writing /\ step \in StepsOf[task[t].op] /\ step \notin Writing
  BY SMT, TaskFields, StepOps DEF SafetyInv, TypeOK, StepsOf, Writing
<1>2. Held(task[t].pw) /\ task[t].pw = Own(task[t].w)
  BY <1>1 DEF SafetyInv, MigrateInv, Startup
<1>3. Same(task[t], task'[t]) /\ task'[t].at = step /\ task'[t].pw = task[t].pw
  BY <1>1, GotoTask
<1>4. MigrateInv' /\ ShareInv'
  BY <1>1, <1>2, <1>3 DEF MigrateInv, ShareInv, Startup, Same, disk, kept, history, AllRecover, Recovers, Held
<1>5. OnlyTask(t) /\ Goes(t) /\ task'[t].at = step
  BY <1>1, GotoTask, Going
<1> QED
  BY <1>1, <1>4, <1>5, ReadMove DEF kept, SafetyInv, TypeOK, Claims

\* The migrated file is opened again and compared with the wallet before the v3
\* file may go.
LEMMA VerifyMigratedSecretStep ==
    ASSUME Safe, NEW t \in Threads, VerifyMigratedSecret(t)
    PROVE  Safe'
<1>. SafetyInv
  BY DEF Safe
<1>1. PICK w \in Wallets, pw \in Passwords :
         /\ w = task[t].w /\ pw = task[t].pw /\ task[t] # Idle
         /\ task[t].at = "verify" /\ lock = Nobody /\ t = "startup" /\ task[t].op = "migrate_v3"
         /\ faults' \in 0 .. MaxFaults /\ UNCHANGED <<disk, kept, lock, stage, history>>
  BY SMT, Doing DEF VerifyMigratedSecret, Free, SafetyInv, TypeOK
<1>. DEFINE v4 == dir[V4(w)]
<1>2. Held(pw)
  BY <1>1 DEF SafetyInv, MigrateInv, Startup
<1>3. v4 \in pending[V4(w)] /\ (v4.kind = "ok" => pending[V4(w)] = {v4})
  BY <1>1, Settled, EntryFacts DEF SafetyInv, TypeOK
<1>4. CASE Opens(v4, pw) /\ Accepts(w, v4.secret)
  <2>1. AllRecover(w, V4(w)) /\ v4.kind = "ok" /\ Goto(t, "cleanup")
    BY <1>1, <1>2, <1>3, <1>4 DEF VerifyMigratedSecret, AllRecover, Recovers, Opens
  <2> QED
    BY <1>1, <2>1, VerifiedStep
<1>5. CASE ~(Opens(v4, pw) /\ Accepts(w, v4.secret))
  <2>1. Goto(t, "undo")
    BY <1>1, <1>5 DEF VerifyMigratedSecret
  <2> QED
    BY <1>1, <2>1, VerifiedStep
<1> QED
  BY <1>4, <1>5

\* import_wallet asks whether wallets are stored, which decides how it gets the
\* password.
LEMMA HasStoredWalletsStep ==
    ASSUME Safe, NEW t \in Threads, HasStoredWallets(t)
    PROVE  Safe'
<1>. SafetyInv
  BY DEF Safe
<1>0. PICK create \in BOOLEAN : Become(t, [task[t] EXCEPT !.at = "password", !.create = create])
  BY DEF HasStoredWallets
<1>1. /\ task[t] # Idle /\ TaskOf(t, task[t]) /\ task[t] \in Tasks /\ task[t].at = "has_stored"
      /\ t = "ui" /\ task[t].op = "import" /\ task[t].at \notin Writing
      /\ UNCHANGED <<disk, kept, lock, stage, faults, history>>
  BY SMT, Doing DEF HasStoredWallets, Free, Writing
<1>2. OnlyTask(t) /\ task'[t] = [task[t] EXCEPT !.at = "password", !.create = create] /\ "password" \in Steps
  BY <1>0, BecomeTask DEF Steps
<1>3. /\ task'[t] \in Tasks /\ Same(task[t], task'[t]) /\ task'[t].at = "password" /\ task'[t].then = task[t].then
  BY <1>1, <1>2 DEF Tasks, Same
<1>4. Goes(t) /\ task'[t].at \notin Writing
  BY SMT, <1>1, <1>3, Going DEF TaskOf, StepsOf, Same, Writing
<1>5. ImportInv' /\ DeleteInv'
  BY <1>1, <1>3 DEF ImportInv, DeleteInv, Ui, Writing, Same
<1> QED
  BY <1>1, <1>2, <1>4, <1>5, QuietMove DEF SafetyInv, TypeOK, kept, Claims

\* import_wallet reads the shared password, or creates it for the first wallet.
LEMMA GetPasswordStep ==
    ASSUME Safe, NEW t \in Threads, GetPassword(t)
    PROVE  Safe'
<1>1. /\ task[t] # Idle /\ TaskOf(t, task[t]) /\ task[t].at = "password" /\ task[t].at \notin Writing
      /\ t = "ui" /\ task[t].op = "import" /\ "create" \in StepsOf[task[t].op] /\ "create" \notin Writing
  BY SMT, Doing DEF GetPassword, Writing, StepsOf
<1>2. CASE shared' = TRUE /\ Goto(t, "create")
  <2>1. Same(task[t], task'[t]) /\ task'[t].at = "create"
    BY <1>1, <1>2, GotoTask
  <2>2. ImportInv' /\ DeleteInv'
    BY <1>1, <1>2, <2>1 DEF ImportInv, DeleteInv, Ui, Same, Writing
  <2> QED
    BY <1>1, <1>2, <2>2, QuietGoto DEF GetPassword, Claims
<1>3. CASE ~(shared \/ task[t].create)
  BY <1>1, <1>3, QuietFinish DEF GetPassword, kept
<1> QED
  BY <1>2, <1>3 DEF GetPassword

\* The steps of the password migration that only read: the next step claims
\* nothing of the file, or is "forget" and the synced file opens with the
\* app-wide password.
LEMMA ShareSteps ==
    ASSUME Safe, NEW t \in Threads, Exists(t) \/ OpensWithShared(t) \/ ConfirmShared(t)
    PROVE  Safe'
<1>. SafetyInv
  BY DEF Safe
<1>1. PICK w \in Wallets :
         /\ w = task[t].w /\ task[t] # Idle /\ TaskOf(t, task[t]) /\ lock = Nobody /\ task[t].at \notin Writing
         /\ t = "startup" /\ task[t].op = "share" /\ UNCHANGED <<disk, kept, lock, stage, faults, history>>
         /\ {"opens", "change", "forget"} \subseteq StepsOf[task[t].op] \ Writing
  BY SMT, Doing DEF Exists, OpensWithShared, ConfirmShared, Free, StepsOf, Writing
<1>2. CASE Finish(t)
  BY <1>1, <1>2, QuietFinish
<1>3. ASSUME NEW step \in {"opens", "change", "forget"}, Goto(t, step),
             step = "forget" => Opens(dir[V4(w)], Shared)
      PROVE  Safe'
  <2>1. Same(task[t], task'[t]) /\ task'[t].at = step
    BY <1>1, <1>3, GotoTask
  <2>2. step = "forget" => \A g \in pending[V4(w)] : Opens(g, Shared)
    BY <1>1, <1>3, Settled DEF Opens
  <2>3. MigrateInv' /\ ShareInv'
    BY <1>1, <2>1, <2>2 DEF SafetyInv, MigrateInv, ShareInv, Startup, Same, Writing, disk, kept
  <2> QED
    BY <1>1, <1>3, <2>3, QuietGoto DEF SafetyInv, TypeOK, kept, Claims
<1> QED
  BY <1>1, <1>2, <1>3 DEF Exists, OpensWithShared, ConfirmShared

\* opens_with takes a v4 file that cannot be read for one that the app-wide
\* password does not open.
LEMMA UnreadableStep ==
    ASSUME Safe, NEW t \in Threads, task[t] # Idle, task[t].at = "opens", Goto(t, "change"),
           faults' \in 0 .. MaxFaults, UNCHANGED <<disk, kept, lock, stage, history>>
    PROVE  Safe'
<1>. SafetyInv
  BY DEF Safe
<1>1. /\ TaskOf(t, task[t]) /\ t = "startup" /\ task[t].op = "share" /\ task[t].at \notin Writing
      /\ "change" \in StepsOf[task[t].op] /\ "change" \notin Writing
  BY SMT, StepOps DEF SafetyInv, TypeOK, StepsOf, Writing
<1>2. OnlyTask(t) /\ Goes(t) /\ Same(task[t], task'[t]) /\ task'[t].at = "change"
  BY <1>1, GotoTask, Going
<1>3. MigrateInv' /\ ShareInv'
  BY <1>1, <1>2 DEF SafetyInv, MigrateInv, ShareInv, Startup, Same, Writing, kept
<1> QED
  BY <1>1, <1>2, <1>3, ReadMove DEF SafetyInv, TypeOK, kept, Claims

\* The setup loop derives the accounts of a wallet: nothing on the disk changes.
LEMMA AddAccountsStep ==
    ASSUME Safe, NEW t \in Threads, AddAccounts(t)
    PROVE  Safe'
<1>. SafetyInv
  BY DEF Safe
<1>1. /\ task[t] # Idle /\ TaskOf(t, task[t]) /\ task[t].at \notin Writing /\ t = "startup" /\ task[t].op = "setup"
      /\ "store" \in StepsOf[task[t].op] /\ "store" \notin Writing
      /\ UNCHANGED <<disk, kept, lock, stage, faults, history>>
  BY SMT, Doing DEF AddAccounts, Free, StepsOf, Writing
<1>2. CASE Goto(t, "store")
  <2>1. MigrateInv' /\ ShareInv'
    BY <1>1, <1>2, GotoTask DEF SafetyInv, MigrateInv, ShareInv, Startup, Same
  <2> QED
    BY <1>1, <1>2, <2>1, QuietGoto DEF SafetyInv, TypeOK, kept, Claims
<1>3. CASE Finish(t)
  BY <1>1, <1>3, QuietFinish
<1> QED
  BY <1>2, <1>3 DEF AddAccounts

-----------------------------------------------------------------------------
(* The steps that change the database, the passwords or the history.       *)

\* The row of the wallet is stored: an imported wallet is owned from here on, and
\* its file recovers the secret whatever the disk settles to.
LEMMA StoreWalletStep ==
    ASSUME Safe, NEW t \in Threads, StoreWallet(t)
    PROVE  Safe'
<1>. SafetyInv
  BY DEF Safe
<1>0. PICK w : w = task[t].w
  OBVIOUS
<1>1. /\ w \in Wallets /\ w \in task[t].todo /\ task[t] # Idle /\ TaskOf(t, task[t]) /\ task[t].at = "store"
      /\ task[t].op \in {"import", "setup"} /\ wallets' = wallets \union {w}
      /\ owned' = IF task[t].op = "import" THEN owned \union {w} ELSE owned
      /\ dir' = dir /\ pending' = pending /\ tmp' = tmp /\ shared' = shared /\ legacy' = legacy
      /\ lock' = lock /\ stage' = stage /\ faults' = faults /\ deleted' = deleted /\ raced' = raced
  BY SMT, <1>0, Doing DEF StoreWallet, disk
<1>2. OnlyTask(t) /\ Ended(t) /\ Goes(t)
  BY <1>1, FinishTask, Going DEF StoreWallet
<1>3. TypeOK' /\ DiskInv' /\ PasswordInv'
  <2>1. LockStep(t)
    BY SMT, <1>1, <1>2, StepOps DEF LockStep, Ended, FirstStep, Writing
  <2>2. TypeOK'
    BY <1>1, <1>2, <2>1, TypeFrame DEF SafetyInv, TypeOK
  <2> QED
    BY <1>1, <1>2, <2>2, SyncFrame DEF SafetyInv, DiskInv, PasswordInv
<1>4. CASE task[t].op = "setup"
  <2>1. t = "startup" /\ owned' = owned
    BY <1>1, <1>4, StepOps
  <2>2. RaceInv'
    BY <1>0, <1>1, <1>2, <2>1 DEF SafetyInv, RaceInv, Ui, Startup, OnlyTask, Goes, TypeOK, Threads
  <2>3. task'["ui"] = task["ui"]
    BY <1>2, <2>1 DEF OnlyTask, Threads
  <2>4. ImportInv'
    BY <1>1, <2>3 DEF SafetyInv, ImportInv, Ui
  <2>5. DeleteInv'
    BY <1>1, <2>3 DEF SafetyInv, DeleteInv, Ui
  <2>6. OwnedInv'
    BY <1>1, <2>1 DEF SafetyInv, OwnedInv, OnDisk, AllRecover, Recovers, Held
  <2> QED
    BY <1>1, <1>2, <1>3, <2>1, <2>2, <2>4, <2>5, <2>6, EndedFrame, SafeAgain DEF Claims
<1>5. CASE task[t].op = "import"
  <2>1. t = "ui" /\ task'[t] = Idle /\ task'["startup"] = task["startup"]
    BY <1>1, <1>2, <1>5, StepOps DEF Ended, OnlyTask, Threads
  <2>2. w \notin raced => /\ w \notin wallets /\ (Startup # Idle => w \notin Startup.todo)
                          /\ shared /\ pending[V4(w)] = {Sealed(Shared, w)} /\ pending[V3(w)] = {NoFile}
    BY <1>0, <1>1, <1>5, <2>1 DEF SafetyInv, RaceInv, ImportInv, DiskInv, Ui
  <2>3. RaceInv'
    BY <1>0, <1>1, <1>5, <2>1, <2>2 DEF SafetyInv, RaceInv, Ui, Startup, TypeOK
  <2>4. MigrateInv' /\ ShareInv'
    <3>1. Startup # Idle => (Startup.w \in Kept' <=> Startup.w \in Kept)
      BY <1>1, <1>5, <2>2 DEF SafetyInv, TypeOK, TaskOf, Startup, Threads
    <3>2. MigrateInv'
      BY <1>1, <2>1, <3>1 DEF SafetyInv, MigrateInv, Startup, AllRecover, Recovers, Held
    <3>3. ShareInv'
      BY <1>1, <2>1, <3>1 DEF SafetyInv, ShareInv, Startup, AllRecover, Recovers, Held
    <3> QED
      BY <3>2, <3>3
  <2>5. OwnedInv'
    <3>1. ASSUME w \notin raced
          PROVE  /\ \A g \in OnDisk(w) : g.kind = "ok" => Accepts(w, g.secret) /\ g.pw \in {w, Shared}
                 /\ AllRecover(w, V4(w))
      BY SMT, <1>1, <2>2, <3>1, FileFacts DEF OnDisk, Accepts, AllRecover, Recovers, Held, Passwords, Secrets
    <3> QED
      BY SMT, <1>1, <1>5, <3>1 DEF SafetyInv, OwnedInv, OnDisk, AllRecover, Recovers, Held
  <2>6. ImportInv' /\ DeleteInv'
    BY <2>1 DEF ImportInv, DeleteInv, Ui
  <2> QED
    BY <1>3, <2>3, <2>4, <2>5, <2>6, SafeAgain
<1> QED
  BY <1>1, <1>4, <1>5

\* The row of a deleted wallet goes.
LEMMA DeleteRowStep ==
    ASSUME Safe, NEW t \in Threads, DeleteRow(t)
    PROVE  Safe'
<1>. SafetyInv
  BY DEF Safe
<1>1. PICK w \in Wallets :
         /\ w = task[t].w /\ task[t] # Idle /\ TaskOf(t, task[t]) /\ task[t].at = "delete_row"
         /\ t = "ui" /\ task[t].op = "delete"
         /\ wallets' = wallets \ {w} /\ owned' = owned /\ deleted' = deleted \union {w}
         /\ dir' = dir /\ pending' = pending /\ tmp' = tmp /\ shared' = shared /\ legacy' = legacy
         /\ lock' = lock /\ stage' = stage /\ faults' = faults /\ raced' = raced
  BY SMT, Doing DEF DeleteRow, disk
<1>2. OnlyTask(t) /\ Goes(t) /\ task'[t] = Idle /\ task'["startup"] = task["startup"]
  BY <1>1, FinishTask, Going DEF DeleteRow, Ended, OnlyTask, Threads
<1>3. TypeOK'
  BY <1>1, <1>2, TypeFrame DEF SafetyInv, TypeOK, LockStep, Writing
<1>4. RaceInv'
  BY <1>1, <1>2 DEF SafetyInv, RaceInv, Ui, Startup
<1>5. DiskInv'
  <2>1. w \notin raced => pending[V3(w)] = {NoFile} /\ pending[V4(w)] \subseteq {NoFile, CorruptFile}
    BY <1>1 DEF SafetyInv, DeleteInv, Ui
  <2> QED
    BY <1>1, <1>2, <2>1, SyncFrame DEF SafetyInv, DiskInv
<1>6. MigrateInv' /\ ShareInv' /\ ImportInv' /\ DeleteInv'
  <2>1. Startup' = Startup /\ Ui' = Idle
    BY <1>1, <1>2 DEF Startup, Ui
  <2>2. MigrateInv'
    BY <1>1, <2>1 DEF SafetyInv, MigrateInv, AllRecover, Recovers, Held
  <2>3. ShareInv'
    BY <1>1, <2>1 DEF SafetyInv, ShareInv
  <2>4. ImportInv' /\ DeleteInv'
    BY <2>1 DEF ImportInv, DeleteInv
  <2> QED
    BY <2>2, <2>3, <2>4
<1>7. OwnedInv' /\ PasswordInv'
  BY <1>1 DEF SafetyInv, OwnedInv, PasswordInv, OnDisk, AllRecover, Recovers, Held
<1> QED
  BY <1>3, <1>4, <1>5, <1>6, <1>7, SafeAgain

\* A wallet's own password is forgotten: no file that must be recovered needs it.
LEMMA DeleteWalletPasswordStep ==
    ASSUME Safe, NEW t \in Threads, DeleteWalletPassword(t)
    PROVE  Safe'
<1>. SafetyInv
  BY DEF Safe
<1>1. PICK w \in Wallets :
         /\ w = task[t].w /\ task[t] # Idle /\ TaskOf(t, task[t]) /\ task[t].at = "forget"
         /\ t = "startup" /\ task[t].op = "share"
         /\ legacy' = legacy \ {w} /\ shared' = shared /\ wallets' = wallets
         /\ dir' = dir /\ pending' = pending /\ tmp' = tmp
         /\ lock' = lock /\ stage' = stage /\ faults' = faults
         /\ owned' = owned /\ deleted' = deleted /\ raced' = raced
  BY SMT, Doing DEF DeleteWalletPassword, disk, history
<1>2. OnlyTask(t) /\ Ended(t) /\ Goes(t)
  BY <1>1, FinishTask, Going DEF DeleteWalletPassword
<1>3. TypeOK'
  <2>1. LockStep(t)
    BY SMT, <1>1, <1>2 DEF LockStep, Ended, FirstStep, Writing
  <2> QED
    BY <1>1, <1>2, <2>1, TypeFrame DEF SafetyInv, TypeOK
<1>4. RaceInv'
  BY <1>1, <1>2, RaceFrame
<1>5. DiskInv' /\ PasswordInv' /\ ImportInv' /\ DeleteInv'
  <2>1. task'["ui"] = task["ui"]
    BY <1>1, <1>2 DEF OnlyTask, Threads
  <2>2. DiskInv' /\ PasswordInv'
    BY <1>1, <1>2, SyncFrame DEF SafetyInv, DiskInv, PasswordInv
  <2>3. ImportInv' /\ DeleteInv'
    BY <1>1, <2>1 DEF SafetyInv, ImportInv, DeleteInv, Ui
  <2> QED
    BY <2>2, <2>3
<1>6. OwnedInv'
  <2>1. shared /\ (w \in Kept => \A g \in pending[V4(w)] : Opens(g, Shared))
    BY <1>1 DEF SafetyInv, ShareInv, Startup
  <2>2. ASSUME NEW x \in Kept, x # w, NEW g \in OnDisk(x), Recovers(x, g)
        PROVE  Recovers(x, g)'
    BY <1>1, <2>1, <2>2 DEF SafetyInv, OwnedInv, Recovers, Held
  <2>3. w \in Kept => AllRecover(w, V4(w))'
    BY <1>1, <2>1 DEF SafetyInv, OwnedInv, OnDisk, AllRecover, Recovers, Held, Opens
  <2>4. ASSUME NEW x \in Kept, x # w, NEW f \in {V4(x), V3(x)}, AllRecover(x, f)
        PROVE  AllRecover(x, f)'
    <3>1. \A g \in pending[f] : g \in OnDisk(x) /\ Recovers(x, g)
      BY <2>4 DEF AllRecover, OnDisk
    <3>2. \A g \in pending[f] : Recovers(x, g)'
      BY <2>2, <2>4, <3>1
    <3> QED
      BY <1>1, <3>2 DEF AllRecover
  <2> QED
    BY <1>1, <2>3, <2>4 DEF SafetyInv, OwnedInv, OnDisk
<1> QED
  BY <1>1, <1>2, <1>3, <1>4, <1>5, <1>6, EndedFrame, SafeAgain DEF Claims

-----------------------------------------------------------------------------
(* The steps that start a write.                                           *)

\* An operation takes the lock and hands a file to write_atomic.
LEMMA WriteStep ==
    ASSUME Safe, NEW t \in Threads, task[t] # Idle, lock = Nobody,
           NEW f \in File, NEW then, then \in StepsOf[task[t].op], "temp" \in StepsOf[task[t].op],
           StartWrite(t, f, then), UNCHANGED <<disk, kept, stage, faults, history>>,
           Claims(t)'
    PROVE  Safe'
<1>. SafetyInv
  BY DEF Safe
<1>1. OnlyTask(t) /\ Goes(t) /\ task'[t] # Idle /\ task'[t].at = "temp"
  BY SMT, WriteTask, Going, TaskFields DEF SafetyInv, TypeOK
<1>2. /\ LockStep(t) /\ task[t].at # "sync" /\ task'[t].at # "sync"
      /\ tmp' \subseteq Wallets /\ shared' \in BOOLEAN /\ faults' \in 0 .. MaxFaults
  BY <1>1, Settled DEF Syncing, LockStep, StartWrite, Writing, SafetyInv, TypeOK, disk, kept
<1> QED
  BY <1>1, <1>2, QuietStep DEF disk, kept, Claims

\* import_wallet starts the write of a new wallet's file.
LEMMA CreateStoreStep ==
    ASSUME Safe, NEW t \in Threads, CreateStore(t)
    PROVE  Safe'
<1>. SafetyInv
  BY DEF Safe
<1>1. PICK w \in Wallets :
         /\ w = task[t].w /\ task[t] # Idle /\ TaskOf(t, task[t]) /\ task[t].at = "create" /\ lock = Nobody
         /\ t = "ui" /\ task[t].op = "import" /\ task[t].at \notin Writing
         /\ {"store", "temp"} \subseteq StepsOf[task[t].op] /\ "store" \notin Writing
         /\ UNCHANGED <<disk, kept, stage, faults, history>>
  BY SMT, Doing DEF CreateStore, Free, StepsOf, Writing
<1>2. shared
  BY <1>1 DEF SafetyInv, ImportInv, Ui
<1>3. CASE dir[V4(w)] = NoFile
  <2>1. Sealed(Shared, w) \in File /\ StartWrite(t, Sealed(Shared, w), "store")
    BY <1>1, <1>3, FileFacts DEF CreateStore, Passwords, Secrets
  <2>2. /\ Same(task[t], task'[t]) /\ task'[t].at = "temp" /\ task'[t].then = "store"
        /\ task'[t].file = Sealed(Shared, w)
    BY SMT, <1>1, <2>1, WriteTask
  <2>3. ImportInv' /\ DeleteInv'
    BY <1>1, <1>2, <2>2 DEF ImportInv, DeleteInv, Ui, Same, kept
  <2> QED
    BY <1>1, <2>1, <2>3, WriteStep DEF Claims
<1>4. CASE Opens(dir[V4(w)], Shared) /\ Goto(t, "store") /\ UNCHANGED lock
  <2>1. Same(task[t], task'[t]) /\ task'[t].at = "store"
    BY <1>1, <1>4, GotoTask
  <2>2. w \notin raced => pending[V4(w)] = {Sealed(Shared, w)}
    <3>1. w \notin raced => pending[V4(w)] \subseteq {NoFile, CorruptFile, Sealed(Shared, w)}
      BY <1>1 DEF SafetyInv, RaceInv, DiskInv, Ui
    <3>2. pending[V4(w)] = {dir[V4(w)]} /\ dir[V4(w)].kind = "ok"
      BY <1>1, <1>4, Settled DEF Opens
    <3> QED
      BY <3>1, <3>2, FileFacts
  <2>3. ImportInv' /\ DeleteInv'
    BY <1>1, <1>2, <2>1, <2>2 DEF ImportInv, DeleteInv, Ui, Same, kept, disk, history, Writing
  <2> QED
    BY <1>1, <1>4, <2>3, QuietGoto DEF SafetyInv, TypeOK, kept, Claims
<1>5. CASE Finish(t) /\ UNCHANGED lock
  BY <1>1, <1>5, QuietFinish
<1> QED
  BY <1>1, <1>3, <1>4, <1>5 DEF CreateStore

\* The sharing loop starts to write the file again under the shared password.
LEMMA ChangePasswordStep ==
    ASSUME Safe, NEW t \in Threads, ChangePassword(t)
    PROVE  Safe'
<1>. SafetyInv
  BY DEF Safe
<1>1. PICK w \in Wallets :
         /\ w = task[t].w /\ task[t] # Idle /\ TaskOf(t, task[t]) /\ task[t].at = "change" /\ lock = Nobody
         /\ t = "startup" /\ task[t].op = "share" /\ task[t].at \notin Writing
         /\ {"confirm", "temp"} \subseteq StepsOf[task[t].op]
         /\ UNCHANGED <<disk, kept, stage, faults, history>>
  BY SMT, Doing DEF ChangePassword, Free, StepsOf, Writing
<1>2. CASE Opens(dir[V4(w)], w)
  <2>1. dir[V4(w)] \in File /\ dir[V4(w)] \in pending[V4(w)] /\ dir[V4(w)].kind = "ok"
    BY <1>1, <1>2, EntryFacts DEF SafetyInv, TypeOK, Opens
  <2>2. PICK file \in File : /\ file.secret = dir[V4(w)].secret /\ Opens(file, Shared)
                             /\ StartWrite(t, file, "confirm")
    BY SMT, <1>1, <1>2, <2>1, FileFacts DEF ChangePassword, Passwords, Opens
  <2>3. shared /\ (w \in Kept => Accepts(w, file.secret))
    BY <1>1, <2>1, <2>2 DEF SafetyInv, OwnedInv, OnDisk, ShareInv, Startup
  <2>4. Same(task[t], task'[t]) /\ task'[t].at = "temp" /\ task'[t].then = "confirm" /\ task'[t].file = file
    BY SMT, <1>1, <2>2, WriteTask
  <2>5. MigrateInv' /\ ShareInv'
    BY <1>1, <2>2, <2>3, <2>4 DEF MigrateInv, ShareInv, Startup, Same, kept, history
  <2> QED
    BY <1>1, <2>2, <2>5, WriteStep DEF Claims
<1>3. CASE Finish(t) /\ UNCHANGED lock
  BY <1>1, <1>3, QuietFinish
<1> QED
  BY <1>1, <1>2, <1>3 DEF ChangePassword
=============================================================================
