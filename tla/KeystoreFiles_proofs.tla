------------------------ MODULE KeystoreFiles_proofs ------------------------
(***************************************************************************)
(* The steps of the module Keystore preserve FilesInv, given SafetyInv.    *)
(***************************************************************************)
EXTENDS KeystoreSteps_proofs

\* Most leaves are first-order; those that need arithmetic or records name SMT.
\* Kept is expanded throughout.
USE Zenon
USE DEF Kept

-----------------------------------------------------------------------------
(* Frames.                                                                 *)

\* Two threads at work on the same wallet: it is raced.
LEMMA Meeting ==
    ASSUME Safe, NEW t \in Threads, NEW u \in Threads, t # u, task[t] # Idle, task[u] # Idle,
           task[t].w \in task[u].todo
    PROVE  task[t].w \in raced
<1>. SafetyInv
  BY DEF Safe
<1>1. /\ TaskOf(t, task[t]) /\ TaskOf(u, task[u])
      /\ Ui # Idle /\ Startup # Idle /\ Ui.w \in Startup.todo
  BY DEF SafetyInv, TypeOK, TaskOf, Threads, Ui, Startup
<1>2. Ui.op \in {"import", "delete"} /\ task[t].w = Ui.w
  BY <1>1 DEF TaskOf, Threads, Ui, Startup
<1> QED
  BY <1>1, <1>2 DEF SafetyInv, RaceInv

\* The wallet of an operation has no deletion behind it.
LEMMA NotGone ==
    ASSUME Safe, FilesInv, NEW t \in Threads, task[t] # Idle
    PROVE  task[t].w \notin deleted \ raced
<1>. SafetyInv
  BY DEF Safe
<1>1. task[t].w \in task[t].todo
  BY DEF SafetyInv, TypeOK, TaskOf
<1>2. CASE t = "ui"
  BY <1>2 DEF FilesInv, GoneInv, Ui
<1>3. CASE t = "startup"
  BY <1>1, <1>3 DEF SafetyInv, RaceInv, FilesInv, GoneInv, Startup
<1> QED
  BY <1>2, <1>3 DEF Threads

\* Fewer versions of the entries leave a staged file staged.
LEMMA StageKept ==
    ASSUME StageInv, raced \subseteq raced', \A f \in Entries : pending'[f] \subseteq pending[f]
    PROVE  /\ StageInv'
           /\ \A w \in Wallets : \A g : Staged(w, g) => Staged(w, g)'
<1>1. \A w \in Wallets : pending'[V3(w)] \subseteq pending[V3(w)] /\ pending'[V4(w)] \subseteq pending[V4(w)]
  BY EntryFacts
<1>2. \A w \in Wallets : \A g : Staged(w, g) => Staged(w, g)'
  BY <1>1 DEF Staged
<1> QED
  BY <1>1, <1>2 DEF StageInv

\* The user's operation moves on, with its wallet, or ends.
LEMMA UiGoes ==
    ASSUME Safe, NEW t \in Threads, task[t] # Idle, OnlyTask(t), Goes(t)
    PROVE  Ui' # Idle => Ui # Idle /\ Ui'.w = Ui.w
<1>. TypeOK
  BY DEF Safe, SafetyInv
<1>1. CASE t = "ui"
  BY SMT, <1>1 DEF TypeOK, Goes, TaskOf, Ui
<1>2. CASE t = "startup"
  BY <1>2 DEF OnlyTask, Ui, Threads
<1> QED
  BY <1>1, <1>2 DEF Threads

\* The other thread's claim on the file it is about to rename stands, when the
\* entry is left alone and no version is added to the v3 entry.
LEMMA ReplaceKept ==
    ASSUME Safe, FilesInv, NEW t \in Threads, OnlyTask(t), dir' = dir, raced \subseteq raced',
           \A w \in Wallets : \A g : Staged(w, g) => Staged(w, g)'
    PROVE  \A u \in Threads \ {t} : ReplaceInv(u)'
<1>. SafetyInv
  BY DEF Safe
<1>1. ASSUME NEW u \in Threads \ {t} PROVE ReplaceInv(u)'
  <2>1. task'[u] = task[u] /\ (task[u] # Idle => task[u].w \in Wallets)
    BY TaskFields DEF OnlyTask, SafetyInv, TypeOK
  <2> QED
    BY <2>1 DEF FilesInv, ReplaceInv
<1> QED
  BY <1>1

\* A step that moves one thread and touches no file, or only syncs the
\* directory: what the files owe, and what the other thread knows, is kept.
LEMMA QuietFiles ==
    ASSUME Safe, FilesInv, NEW t \in Threads, task[t] # Idle, OnlyTask(t), Goes(t),
           dir' = dir, (pending' = pending /\ task[t].at # "sync") \/ pending' = Flushed,
           deleted' = deleted, raced' = raced, wallets' \subseteq wallets \union {task[t].w}
    PROVE  /\ StageInv' /\ GoneInv' /\ (t = "ui" => BoundInv' /\ SourceInv')
           /\ \A u \in Threads \ {t} : ReplaceInv(u)'
           /\ \A w \in Wallets : \A g : Staged(w, g) => Staged(w, g)'
<1>. SafetyInv
  BY DEF Safe
<1>1. \A f \in Entries : dir[f] \in pending'[f] /\ pending'[f] \subseteq pending[f]
  BY SMT DEF SafetyInv, TypeOK, Flushed
<1>2. StageInv' /\ \A w \in Wallets : \A g : Staged(w, g) => Staged(w, g)'
  BY <1>1, StageKept DEF FilesInv
<1>3. \A w \in Wallets \ raced : dir[V4(w)] = NoFile =>
          pending'[V4(w)] = {NoFile} \/ dir[V3(w)] # NoFile \/ SyncingOn(w)'
  <2>1. CASE pending' = pending /\ task[t].at # "sync"
    BY <2>1, SyncFrame DEF FilesInv, GoneInv
  <2>2. CASE pending' = Flushed
    BY <2>2, EntryFacts DEF Flushed
  <2> QED
    BY <2>1, <2>2
<1>4. \A w \in deleted \ raced : /\ w \notin wallets' /\ pending'[V4(w)] = {NoFile}
                                /\ pending'[V3(w)] = {NoFile}
  <2>1. \A w \in deleted \ raced : /\ w \notin wallets' /\ pending[V4(w)] = {NoFile} /\ pending[V3(w)] = {NoFile}
                                  /\ V4(w) \in Entries /\ V3(w) \in Entries
    BY SMT, NotGone, EntryFacts DEF FilesInv, GoneInv, SafetyInv, TypeOK
  <2> QED
    BY <1>1, <2>1
<1>5. GoneInv'
  BY <1>3, <1>4, UiGoes DEF SafetyInv, FilesInv, GoneInv
<1>6. t = "ui" => BoundInv' /\ SourceInv'
  <2>1. t = "ui" => /\ task'["startup"] = task["startup"]
                    /\ task["startup"] # Idle => V4(task["startup"].w) \in Entries
    BY TaskFields, EntryFacts DEF SafetyInv, TypeOK, OnlyTask, Threads
  <2> QED
    BY <1>1, <2>1 DEF FilesInv, BoundInv, SourceInv, Startup
<1> QED
  BY <1>2, <1>5, <1>6, ReplaceKept

\* The steps at which a thread claims something of a file.
Claiming == {"import_v3", "verify", "undo", "cleanup", "temp", "rename", "sync"}

\* A step at which thread t claims nothing of a file.
LEMMA PlainClaims ==
    ASSUME SourceInv, NEW t \in Threads, task[t] # Idle, Goes(t), raced \subseteq raced',
           task'[t] # Idle => /\ task'[t].at \notin Claiming
                              /\ \A w \in task'[t].todo : dir[V3(w)] # NoFile => dir'[V3(w)] # NoFile
    PROVE  ReplaceInv(t)' /\ (t = "startup" => BoundInv' /\ SourceInv')
<1>1. task'[t] # Idle /\ task'[t].op = "migrate_v3" =>
          task'[t].at = "needs" /\ task[t].op = "migrate_v3" /\ task'[t].todo \subseteq task[t].todo
  BY SMT DEF Goes, TaskOf, StepsOf, Writing, Claiming
<1>2. t = "startup" => SourceInv'
  BY <1>1 DEF SourceInv, Startup
<1> QED
  BY <1>2 DEF ReplaceInv, BoundInv, Claiming, Startup

\* A quiet step to a place where nothing is claimed.
LEMMA PlainFiles ==
    ASSUME Safe, FilesInv, NEW t \in Threads, task[t] # Idle, OnlyTask(t), Goes(t),
           dir' = dir, (pending' = pending /\ task[t].at # "sync") \/ pending' = Flushed,
           deleted' = deleted, raced' = raced, wallets' \subseteq wallets \union {task[t].w},
           task'[t] # Idle => task'[t].at \notin Claiming
    PROVE  FilesInv'
BY QuietFiles, PlainClaims DEF FilesInv, Threads

\* Finish(t) leaves thread t where it claims nothing.
LEMMA FinishPlain ==
    ASSUME Safe, NEW t \in Threads, task[t] # Idle, Finish(t)
    PROVE  /\ OnlyTask(t) /\ Goes(t)
           /\ task'[t] # Idle => task'[t].at \notin Claiming /\ task'[t].todo \subseteq task[t].todo \ {task[t].w}
<1>. SafetyInv
  BY DEF Safe
<1>1. TaskOf(t, task[t]) /\ OnlyTask(t) /\ Ended(t) /\ Goes(t)
  BY FinishTask, Going DEF SafetyInv, TypeOK
<1> QED
  BY SMT, <1>1, StepOps DEF Ended, FirstStep, Claiming

\* An operation that ends, or a loop that turns to its next wallet.
LEMMA FinishFiles ==
    ASSUME Safe, FilesInv, NEW t \in Threads, task[t] # Idle, Finish(t),
           dir' = dir, (pending' = pending /\ task[t].at # "sync") \/ pending' = Flushed,
           deleted' = deleted, raced' = raced, wallets' \subseteq wallets \union {task[t].w}
    PROVE  FilesInv'
BY FinishPlain, PlainFiles

\* A move inside an operation to a step that claims nothing.
LEMMA GotoFiles ==
    ASSUME Safe, FilesInv, NEW t \in Threads, task[t] # Idle,
           NEW step, Goto(t, step), step \in StepsOf[task[t].op], step \notin Claiming,
           dir' = dir, (pending' = pending /\ task[t].at # "sync") \/ pending' = Flushed,
           deleted' = deleted, raced' = raced, wallets' \subseteq wallets \union {task[t].w}
    PROVE  FilesInv'
<1>. SafetyInv
  BY DEF Safe
<1>1. OnlyTask(t) /\ Goes(t) /\ task'[t].at = step
  BY GotoTask, Going DEF SafetyInv, TypeOK
<1> QED
  BY <1>1, PlainFiles

-----------------------------------------------------------------------------
(* The steps that touch no file.                                           *)

\* The steps of import_wallet, migrate_to_shared_password and setup_chains that
\* only read the files, or only change the password store or a wallet row.
LEMMA PlainSteps ==
    ASSUME Safe, FilesInv, NEW t \in Threads,
           \/ GetPassword(t) \/ StoreWallet(t) \/ Exists(t) \/ OpensWithShared(t)
           \/ ConfirmShared(t) \/ DeleteWalletPassword(t) \/ AddAccounts(t)
    PROVE  FilesInv'
<1>. SafetyInv
  BY DEF Safe
<1>1. PICK step \in {"password", "store", "exists", "opens", "confirm", "forget", "derive"} : At(t, step)
  BY DEF GetPassword, StoreWallet, Exists, OpensWithShared, ConfirmShared, DeleteWalletPassword,
         AddAccounts, Free
<1>2. /\ dir' = dir /\ pending' = pending /\ deleted' = deleted /\ raced' = raced
      /\ wallets' \subseteq wallets \union {task[t].w} /\ task[t] # Idle /\ task[t].at # "sync"
  BY <1>1, Doing DEF GetPassword, StoreWallet, Exists, OpensWithShared, ConfirmShared,
                     DeleteWalletPassword, AddAccounts, disk, kept, history
<1>3. \/ Finish(t)
      \/ \E next \in {"create", "opens", "forget", "change", "store"} :
             Goto(t, next) /\ next \in StepsOf[task[t].op]
  <2>1. CASE GetPassword(t)
    BY SMT, <2>1, Doing DEF GetPassword, StepsOf
  <2>2. CASE StoreWallet(t) \/ DeleteWalletPassword(t)
    BY <2>2 DEF StoreWallet, DeleteWalletPassword
  <2>3. CASE Exists(t) \/ OpensWithShared(t) \/ ConfirmShared(t)
    BY SMT, <2>3, Doing DEF Exists, OpensWithShared, ConfirmShared, Free, StepsOf
  <2>4. CASE AddAccounts(t)
    BY SMT, <2>4, Doing DEF AddAccounts, Free, StepsOf
  <2> QED
    BY <2>1, <2>2, <2>3, <2>4
<1> QED
  BY <1>2, <1>3, FinishFiles, GotoFiles DEF Claiming

\* A move of the task inside the same operation; SafetyInv' gives its type.
LEMMA SameGoes ==
    ASSUME Safe', NEW t \in Threads, task'[t].op = task[t].op, task'[t].todo = task[t].todo
    PROVE  Goes(t)
BY DEF Safe, SafetyInv, Goes, TypeOK

\* import_wallet asks whether wallets are stored.
LEMMA HasStoredWalletsFiles ==
    ASSUME Safe, FilesInv, Safe', NEW t \in Threads, HasStoredWallets(t)
    PROVE  FilesInv'
<1>. SafetyInv
  BY DEF Safe
<1>1. PICK create : Become(t, [task[t] EXCEPT !.at = "password", !.create = create])
  BY DEF HasStoredWallets
<1>2. /\ OnlyTask(t) /\ task'[t] = [task[t] EXCEPT !.at = "password", !.create = create]
      /\ task[t] # Idle /\ task[t] \in Tasks /\ task[t].at = "has_stored"
  BY ZenonT(30), <1>1, BecomeTask, Doing DEF HasStoredWallets, Free
<1>3. task'[t].op = task[t].op /\ task'[t].todo = task[t].todo /\ task'[t].at = "password"
  BY <1>2 DEF Tasks
<1> QED
  BY <1>2, <1>3, SameGoes, PlainFiles DEF HasStoredWallets, disk, kept, history, Claiming

\* delete_wallet removes the row: by now both removals are durable.
LEMMA DeleteRowFiles ==
    ASSUME Safe, FilesInv, NEW t \in Threads, DeleteRow(t)
    PROVE  FilesInv'
<1>. SafetyInv
  BY DEF Safe
<1>1. PICK w \in Wallets : /\ w = task[t].w /\ task[t] # Idle /\ TaskOf(t, task[t]) /\ task[t].at = "delete_row"
                           /\ t = "ui" /\ task[t].op = "delete"
  BY SMT, Doing DEF DeleteRow
<1>2. /\ dir' = dir /\ pending' = pending /\ raced' = raced
      /\ wallets' = wallets \ {w} /\ deleted' = deleted \union {w}
      /\ OnlyTask(t) /\ task'[t] = Idle
  BY <1>1, FinishTask DEF DeleteRow, disk, Ended
<1>3. w \notin raced => pending[V4(w)] = {NoFile} /\ pending[V3(w)] = {NoFile}
  <2>1. w \notin raced => dir[V4(w)] = NoFile /\ pending[V3(w)] = {NoFile} /\ dir[V3(w)] \in pending[V3(w)]
    BY <1>1, EntryFacts DEF SafetyInv, DeleteInv, TypeOK, Ui
  <2>2. SyncingOn(w) => w \in raced
    <3>1. ASSUME NEW u \in Threads, task[u] # Idle, task[u].at = "sync", task[u].w = w PROVE w \in raced
      BY ZenonT(60), <1>1, <3>1, Meeting DEF SafetyInv, TypeOK, TaskOf
    <3> QED
      BY <3>1 DEF SyncingOn
  <2> QED
    BY ZenonT(60), <2>1, <2>2 DEF FilesInv, GoneInv
<1>4. StageInv' /\ \A x \in Wallets : \A g : Staged(x, g) => Staged(x, g)'
  BY <1>2, StageKept DEF FilesInv
<1>5. GoneInv'
  BY <1>1, <1>2, <1>3, SyncFrame DEF FilesInv, GoneInv, Ui
<1>6. BoundInv' /\ SourceInv' /\ ReplaceInv(t)'
  BY <1>1, <1>2 DEF FilesInv, BoundInv, SourceInv, ReplaceInv, OnlyTask, Startup, Threads
<1> QED
  BY <1>2, <1>4, <1>5, <1>6, ReplaceKept DEF FilesInv

\* write_new_file writes its temporary file and goes on to the rename.
LEMMA WriteTempFiles ==
    ASSUME Safe, FilesInv, NEW t \in Threads, WriteTemp(t)
    PROVE  FilesInv'
<1>1. /\ task[t] # Idle /\ TaskOf(t, task[t]) /\ task[t].at = "temp" /\ task[t].w \in Wallets
      /\ "rename" \in StepsOf[task[t].op]
  BY SMT, Doing DEF WriteTemp, StepsOf, Writing
<1>2. /\ OnlyTask(t) /\ Goes(t) /\ task'[t] # Idle /\ Same(task[t], task'[t])
      /\ task'[t].at = "rename" /\ task'[t].file = task[t].file
      /\ dir' = dir /\ pending' = pending /\ deleted' = deleted /\ raced' = raced /\ wallets' = wallets
  BY <1>1, GotoTask, Going, TaskFields DEF WriteTemp, kept, history
<1>3. /\ StageInv' /\ GoneInv' /\ (t = "ui" => BoundInv' /\ SourceInv')
      /\ \A u \in Threads \ {t} : ReplaceInv(u)'
      /\ \A w \in Wallets : \A g : Staged(w, g) => Staged(w, g)'
  BY <1>1, <1>2, QuietFiles
<1>4. ReplaceInv(t)'
  BY <1>1, <1>2, <1>3 DEF FilesInv, ReplaceInv, Same
<1>5. t = "startup" => BoundInv' /\ SourceInv'
  BY <1>1, <1>2 DEF FilesInv, BoundInv, SourceInv, Startup, Same
<1> QED
  BY <1>3, <1>4, <1>5 DEF FilesInv, Threads

\* migrate_v3 takes up a wallet whose v3 file is there.
LEMMA NeedsMigrationFiles ==
    ASSUME Safe, FilesInv, Safe', NEW t \in Threads, NeedsMigration(t)
    PROVE  FilesInv'
<1>. SafetyInv
  BY DEF Safe
<1>1. /\ task[t] # Idle /\ task[t].at = "needs" /\ task[t] \in Tasks
      /\ t = "startup" /\ task[t].op = "migrate_v3"
      /\ dir' = dir /\ pending' = pending /\ deleted' = deleted /\ raced' = raced /\ wallets' = wallets
  BY Doing DEF NeedsMigration, disk, kept, history
<1>2. CASE Finish(t)
  BY <1>1, <1>2, FinishFiles
<1>3. ASSUME NEW pw, Become(t, [task[t] EXCEPT !.at = "import_v3", !.pw = pw]),
             Android => dir[V3(task[t].w)] # NoFile
      PROVE  FilesInv'
  <2>1. OnlyTask(t) /\ task'[t] = [task[t] EXCEPT !.at = "import_v3", !.pw = pw]
    BY <1>3, BecomeTask
  <2>2. Same(task[t], task'[t]) /\ task'[t].at = "import_v3"
    BY <1>1, <2>1 DEF Tasks, Same
  <2>3. StageInv' /\ GoneInv' /\ \A u \in Threads \ {t} : ReplaceInv(u)'
    BY <1>1, <2>1, <2>2, SameGoes, QuietFiles DEF Same
  <2>4. ReplaceInv(t)' /\ BoundInv' /\ SourceInv'
    BY <1>1, <1>3, <2>2 DEF FilesInv, ReplaceInv, BoundInv, SourceInv, Startup, Same
  <2> QED
    BY <2>3, <2>4 DEF FilesInv
<1> QED
  BY <1>2, <1>3 DEF NeedsMigration

\* migrate_v3 moves to a step that claims something of the v4 file.
LEMMA BoundGoto ==
    ASSUME Safe, FilesInv, NEW t \in Threads, task[t] # Idle, task[t].op = "migrate_v3",
           task[t].at # "needs", NEW step \in {"verify", "undo", "cleanup"}, Goto(t, step),
           step # "cleanup" /\ task[t].w \notin raced /\ dir[V4(task[t].w)].kind = "ok"
               => dir[V4(task[t].w)].pw = task[t].pw,
           step = "cleanup" => /\ pending' = pending
                               /\ \A g \in pending[V4(task[t].w)] : g.kind = "ok" => Accepts(task[t].w, g.secret),
           dir' = dir, (pending' = pending /\ task[t].at # "sync") \/ pending' = Flushed,
           UNCHANGED <<kept, history>>
    PROVE  FilesInv'
<1>. SafetyInv
  BY DEF Safe
<1>1. /\ OnlyTask(t) /\ Goes(t) /\ Same(task[t], task'[t]) /\ task'[t].at = step /\ task'[t].pw = task[t].pw
      /\ deleted' = deleted /\ raced' = raced /\ wallets' = wallets
  BY SMT, GotoTask, Going DEF SafetyInv, TypeOK, StepsOf, kept, history
<1>2. StageInv' /\ GoneInv' /\ (t = "ui" => BoundInv' /\ SourceInv') /\ \A u \in Threads \ {t} : ReplaceInv(u)'
  BY <1>1, QuietFiles
<1>3. ReplaceInv(t)' /\ (t = "startup" => BoundInv' /\ SourceInv')
  BY ZenonT(60), <1>1 DEF FilesInv, ReplaceInv, BoundInv, SourceInv, Startup, Same
<1> QED
  BY <1>2, <1>3 DEF FilesInv, Threads

\* verify_migrated_secret: only a file that derives the id lets the v3 file go.
LEMMA VerifyMigratedSecretFiles ==
    ASSUME Safe, FilesInv, NEW t \in Threads, VerifyMigratedSecret(t)
    PROVE  FilesInv'
<1>1. PICK w \in Wallets : /\ w = task[t].w /\ task[t] # Idle /\ task[t].at = "verify" /\ lock = Nobody
                           /\ t = "startup" /\ task[t].op = "migrate_v3"
                           /\ dir' = dir /\ pending' = pending /\ UNCHANGED <<kept, history>>
  BY Doing DEF VerifyMigratedSecret, Free, disk
<1>2. w \notin raced /\ dir[V4(w)].kind = "ok" => dir[V4(w)].pw = task[t].pw
  BY <1>1 DEF FilesInv, BoundInv, Startup
<1>3. CASE Opens(dir[V4(w)], task[t].pw) /\ Accepts(w, dir[V4(w)].secret)
  <2>1. Goto(t, "cleanup") /\ pending[V4(w)] = {dir[V4(w)]}
    BY <1>1, <1>3, Settled DEF VerifyMigratedSecret, Opens
  <2> QED
    BY <1>1, <1>3, <2>1, BoundGoto
<1>4. CASE Goto(t, "undo")
  BY <1>1, <1>2, <1>4, BoundGoto
<1> QED
  BY <1>1, <1>3, <1>4 DEF VerifyMigratedSecret

-----------------------------------------------------------------------------
(* The steps that start a write or change an entry.                        *)

\* What a thread knows when it is about to write a file.
LEMMA WriteFiles ==
    ASSUME Safe, SourceInv, NEW t \in Threads, task[t] # Idle, NEW w, w = task[t].w,
           task[t].at \in {"import_v3", "create", "change"},
           NEW file \in File, NEW then, then \in StepsOf[task[t].op], StartWrite(t, file, then),
           dir'[V4(w)].kind = "ok" => task[t].op = "share" /\ file = Sealed(Shared, dir'[V4(w)].secret),
           w \notin raced => Staged(w, file)',
           raced' = raced, \A x \in Wallets : dir'[V3(x)] = dir[V3(x)]
    PROVE  /\ OnlyTask(t) /\ Goes(t) /\ ReplaceInv(t)'
           /\ t = "startup" => BoundInv' /\ SourceInv'
<1>. SafetyInv
  BY DEF Safe
<1>1. TaskOf(t, task[t]) /\ task[t].todo \subseteq Wallets /\ "temp" \in StepsOf[task[t].op]
  BY SMT, TaskFields, StepOps DEF SafetyInv, TypeOK, StepsOf, Writing
<1>2. /\ OnlyTask(t) /\ Goes(t) /\ Same(task[t], task'[t])
      /\ task'[t].at = "temp" /\ task'[t].file = file
  BY <1>1, WriteTask, Going
<1>3. ReplaceInv(t)'
  BY <1>2 DEF ReplaceInv, Same, Staged
<1>4. t = "startup" => BoundInv' /\ SourceInv'
  BY <1>1, <1>2 DEF BoundInv, SourceInv, Startup, Same
<1> QED
  BY <1>2, <1>3, <1>4

\* import_wallet writes a new file only where there is none.
LEMMA CreateStoreFiles ==
    ASSUME Safe, FilesInv, NEW t \in Threads, CreateStore(t)
    PROVE  FilesInv'
<1>1. PICK w \in Wallets :
         /\ w = task[t].w /\ task[t] # Idle /\ task[t].at = "create" /\ t = "ui" /\ task[t].op = "import"
         /\ dir' = dir /\ pending' = pending /\ deleted' = deleted /\ raced' = raced /\ wallets' = wallets
         /\ "store" \in StepsOf[task[t].op]
  BY SMT, Doing DEF CreateStore, Free, disk, kept, history, StepsOf
<1>2. CASE dir[V4(w)] = NoFile
  <2>1. PICK file \in File : /\ file = Sealed(Shared, w) /\ file.secret = w /\ dir'[V4(w)].kind # "ok"
                             /\ StartWrite(t, file, "store")
    BY SMT, <1>1, <1>2, FileFacts DEF CreateStore, Passwords, Secrets
  <2>2. Staged(w, file)'
    BY <2>1 DEF Staged, Accepts
  <2>3. OnlyTask(t) /\ Goes(t) /\ ReplaceInv(t)'
    BY <1>1, <2>1, <2>2, WriteFiles DEF FilesInv
  <2> QED
    BY <1>1, <2>3, QuietFiles DEF FilesInv
<1>3. CASE Goto(t, "store") \/ Finish(t)
  BY <1>1, <1>3, FinishFiles, GotoFiles DEF Claiming
<1> QED
  BY <1>1, <1>2, <1>3 DEF CreateStore

\* change_password keeps the secret of the file it re-encrypts.
LEMMA ChangePasswordFiles ==
    ASSUME Safe, FilesInv, NEW t \in Threads, ChangePassword(t)
    PROVE  FilesInv'
<1>. SafetyInv
  BY DEF Safe
<1>1. PICK w \in Wallets :
         /\ w = task[t].w /\ task[t] # Idle /\ task[t].at = "change" /\ t = "startup" /\ task[t].op = "share"
         /\ dir' = dir /\ pending' = pending /\ deleted' = deleted /\ raced' = raced /\ wallets' = wallets
         /\ "confirm" \in StepsOf[task[t].op]
  BY SMT, Doing DEF ChangePassword, Free, disk, kept, history, StepsOf
<1>2. CASE Opens(dir[V4(w)], w)
  <2>1. dir[V4(w)] \in File /\ dir[V4(w)] \in pending[V4(w)] /\ dir[V4(w)].kind = "ok"
    BY <1>1, <1>2, EntryFacts DEF SafetyInv, TypeOK, Opens
  <2>2. PICK file \in File : /\ file = Sealed(Shared, dir[V4(w)].secret) /\ file.secret = dir[V4(w)].secret
                             /\ StartWrite(t, file, "confirm")
    BY SMT, <1>1, <1>2, <2>1, FileFacts DEF ChangePassword, Passwords
  <2>3. w \notin raced => Staged(w, file)'
    BY <1>1, <2>1, <2>2 DEF FilesInv, StageInv, Staged
  <2>4. OnlyTask(t) /\ Goes(t) /\ ReplaceInv(t)' /\ BoundInv' /\ SourceInv'
    BY <1>1, <2>2, <2>3, WriteFiles DEF FilesInv
  <2> QED
    BY <1>1, <2>4, QuietFiles DEF FilesInv
<1>3. CASE Finish(t)
  BY <1>1, <1>3, FinishFiles
<1> QED
  BY <1>1, <1>2, <1>3 DEF ChangePassword

\* A thread changes an entry of its wallet: what the files owe is kept, and so
\* is what the other thread knows.
LEMMA PutFiles ==
    ASSUME Safe, FilesInv, NEW t \in Threads, task[t] # Idle, OnlyTask(t), Goes(t),
           task[t].at # "sync", NEW w \in Wallets, w = task[t].w,
           NEW f \in {V4(w), V3(w)}, NEW file \in File, PutEffect(f, file),
           f = V3(w) \/ lock \in {Nobody, t},
           deleted' = deleted, raced' = raced, wallets' = wallets,
           w \notin raced =>
               /\ f = V4(w) => Staged(w, file)
               /\ f = V3(w) => \A g \in pending[V4(w)] : g.kind = "ok" => Accepts(w, g.secret)
               /\ dir'[V4(w)] = NoFile => dir'[V3(w)] # NoFile \/ SyncingOn(w)'
    PROVE  /\ StageInv' /\ GoneInv' /\ (t = "ui" => BoundInv' /\ SourceInv')
           /\ \A u \in Threads \ {t} : ReplaceInv(u)'
<1>. SafetyInv
  BY DEF Safe
<1>1. \A x \in Wallets \ {w} : /\ dir'[V4(x)] = dir[V4(x)] /\ pending'[V4(x)] = pending[V4(x)]
                               /\ dir'[V3(x)] = dir[V3(x)] /\ pending'[V3(x)] = pending[V3(x)]
  BY PutOther
<1>2. /\ \A x \in Wallets \ {w} : \A g : Staged(x, g) => Staged(x, g)'
      /\ w \notin raced => \A g \in pending'[V4(w)] : Staged(w, g)'
  BY SMT, <1>1, PutOther DEF FilesInv, StageInv, Staged
<1>3. StageInv'
  BY <1>1, <1>2 DEF FilesInv, StageInv
<1>4. GoneInv'
  <2>1. /\ \A x \in Wallets : SyncingOn(x) => SyncingOn(x)'
        /\ w \notin deleted \ raced /\ deleted \subseteq Wallets
        /\ Ui' # Idle => Ui # Idle /\ Ui'.w = Ui.w
    BY SyncFrame, NotGone, UiGoes DEF SafetyInv, TypeOK
  <2> QED
    BY <1>1, <2>1 DEF FilesInv, GoneInv
<1>5. ASSUME NEW u \in Threads \ {t}, task[u] # Idle
      PROVE  /\ task'[u] = task[u] /\ task[u].w \in task[u].todo /\ task[u].todo \subseteq Wallets
             /\ w \in task[u].todo => w \in raced
  BY <1>5, Meeting, TaskFields DEF OnlyTask, SafetyInv, TypeOK, TaskOf
<1>6. t = "ui" => BoundInv' /\ SourceInv'
  <2>1. t = "ui" => task'["startup"] = task["startup"]
    BY DEF OnlyTask, Threads
  <2>2. t = "ui" /\ Startup # Idle => /\ Startup.w \in Startup.todo /\ Startup.todo \subseteq Wallets
                                      /\ (w \in Startup.todo => w \in raced)
    BY <1>5 DEF Startup, Threads
  <2> QED
    BY SMT, <1>1, <2>1, <2>2 DEF FilesInv, BoundInv, SourceInv, Startup
<1>7. ASSUME NEW u \in Threads \ {t} PROVE ReplaceInv(u)'
  <2>1. task'[u] = task[u]
    BY DEF OnlyTask
  <2>2. SUFFICES ASSUME task[u] # Idle, task[u].at \in {"temp", "rename"} PROVE ReplaceInv(u)'
    BY <2>1 DEF ReplaceInv
  <2>3. PICK x \in Wallets, g \in {task[u].file} : x = task[u].w /\ g = task[u].file /\ (x = w => x \in raced)
    BY <1>5, <2>2
  <2>4. dir'[V4(x)] = dir[V4(x)]
    <3>1. lock = u
      BY <2>2 DEF SafetyInv, TypeOK, Writing
    <3> QED
      BY <1>1, <3>1, PutOther DEF Threads, Nobody
  <2>5. x \notin raced => Staged(x, g)'
    BY <1>2, <2>2, <2>3 DEF FilesInv, ReplaceInv
  <2> QED
    BY <2>1, <2>2, <2>3, <2>4, <2>5 DEF FilesInv, ReplaceInv, Staged
<1> QED
  BY <1>3, <1>4, <1>6, <1>7

\* A removal under the lock, which goes on to the directory sync.
LEMMA RemoveFiles ==
    ASSUME Safe, FilesInv, NEW t \in Threads, task[t] # Idle, lock = Nobody,
           NEW w \in Wallets, w = task[t].w, NEW f \in {V4(w), V3(w)}, Put(f, NoFile),
           NEW then \in {"done", "delete_v3", "delete_row"},
           then \in StepsOf[task[t].op] \union {"done"}, "sync" \in StepsOf[task[t].op],
           Become(t, [task[t] EXCEPT !.at = "sync", !.then = then]),
           UNCHANGED <<kept, history>>, t = "startup" => f = V4(w) /\ task[t].at # "needs",
           w \notin raced /\ f = V3(w) => \A g \in pending[V4(w)] : g.kind = "ok" => Accepts(w, g.secret)
    PROVE  FilesInv'
<1>. SafetyInv
  BY DEF Safe
<1>1. TaskOf(t, task[t]) /\ task[t].todo \subseteq Wallets /\ task[t].at # "sync"
  BY TaskFields, Settled DEF SafetyInv, TypeOK, Syncing
<1>2. PutEffect(f, NoFile) /\ NoFile \in File /\ Staged(w, NoFile)
  BY SMT, EntryFacts, FileFacts, PutEntry DEF Staged
<1>3. /\ OnlyTask(t) /\ TaskOf(t, task'[t]) /\ Same(task[t], task'[t])
      /\ task'[t].at = "sync" /\ task'[t].then = then
  BY <1>1, SyncTask
<1>4. /\ Goes(t) /\ task'[t] # Idle /\ SyncingOn(w)'
      /\ deleted' = deleted /\ raced' = raced /\ wallets' = wallets
  BY <1>3, Going, TaskFields DEF Same, SyncingOn, kept, history
<1>5. /\ StageInv' /\ GoneInv' /\ (t = "ui" => BoundInv' /\ SourceInv')
      /\ \A u \in Threads \ {t} : ReplaceInv(u)'
  BY <1>1, <1>2, <1>3, <1>4, PutFiles
<1>6. t = "startup" => \A x \in Wallets : dir'[V3(x)] = dir[V3(x)]
  BY <1>2, PutOther
<1>7. ReplaceInv(t)' /\ (t = "startup" => BoundInv' /\ SourceInv')
  BY SMT, <1>1, <1>3, <1>4, <1>6 DEF FilesInv, ReplaceInv, BoundInv, SourceInv, Startup, Same
<1> QED
  BY <1>5, <1>7 DEF FilesInv, Threads

\* The staged v4 file is deleted; the v3 file stays.
LEMMA UndoMigrationFiles ==
    ASSUME Safe, FilesInv, NEW t \in Threads, UndoMigration(t)
    PROVE  FilesInv'
<1>1. PICK w \in Wallets : /\ w = task[t].w /\ task[t] # Idle /\ task[t].at = "undo" /\ lock = Nobody
                           /\ "sync" \in StepsOf[task[t].op] /\ V4(w) # V3(w)
  BY SMT, Doing, EntryFacts DEF UndoMigration, Free, StepsOf, Writing
<1>2. CASE dir[V4(w)] = NoFile
  BY <1>1, <1>2, FinishFiles DEF UndoMigration, Remove, kept, history
<1>3. CASE Put(V4(w), NoFile) /\ Become(t, [task[t] EXCEPT !.at = "sync", !.then = "done"])
  BY <1>1, <1>3, RemoveFiles DEF UndoMigration
<1> QED
  BY <1>1, <1>2, <1>3 DEF UndoMigration, Remove

\* The two removals of delete_wallet.
LEMMA DeleteFiles ==
    ASSUME Safe, FilesInv, NEW t \in Threads, DeleteV4(t) \/ DeleteV3(t)
    PROVE  FilesInv'
<1>. SafetyInv
  BY DEF Safe
<1>1. PICK w \in Wallets :
         /\ w = task[t].w /\ task[t] # Idle /\ task[t].at \in {"delete_v4", "delete_v3"} /\ lock = Nobody
         /\ t = "ui" /\ task[t].op = "delete" /\ t # "startup" /\ V4(w) # V3(w)
         /\ {"sync", "delete_v3", "delete_row"} \subseteq StepsOf[task[t].op]
         /\ UNCHANGED <<kept, history>> /\ wallets' = wallets /\ deleted' = deleted /\ raced' = raced
  BY SMT, Doing, EntryFacts DEF DeleteV4, DeleteV3, Free, StepsOf, kept, history
<1>2. ASSUME NEW step \in {"delete_v3", "delete_row"}, Goto(t, step), dir' = dir, pending' = pending
      PROVE  FilesInv'
  BY <1>1, <1>2, GotoFiles DEF Claiming
<1>3. CASE DeleteV4(t)
  <2>1. CASE Put(V4(w), NoFile) /\ Become(t, [task[t] EXCEPT !.at = "sync", !.then = "delete_v3"])
    BY <1>1, <2>1, RemoveFiles
  <2> QED
    BY <1>1, <1>2, <1>3, <2>1 DEF DeleteV4, Remove
<1>4. CASE DeleteV3(t)
  <2>1. CASE Put(V3(w), NoFile) /\ Become(t, [task[t] EXCEPT !.at = "sync", !.then = "delete_row"])
    <3>1. w \notin raced => \A g \in pending[V4(w)] : g.kind # "ok"
      BY <1>1, <1>4, FileFacts DEF SafetyInv, DeleteInv, DeleteV3, Free, At, Ui
    <3> QED
      BY <1>1, <2>1, <3>1, RemoveFiles
  <2> QED
    BY <1>1, <1>2, <1>4, <2>1 DEF DeleteV3, Remove
<1> QED
  BY <1>3, <1>4

\* The v3 file goes only when the v4 file holds a secret that derives the id.
LEMMA RemoveV3Files ==
    ASSUME Safe, FilesInv, NEW t \in Threads, RemoveV3(t)
    PROVE  FilesInv'
<1>. SafetyInv
  BY DEF Safe
<1>1. PICK w \in Wallets :
         /\ w = task[t].w /\ task[t] # Idle /\ task[t].at = "cleanup" /\ t = "startup" /\ task[t].op = "migrate_v3"
         /\ Finish(t) /\ deleted' = deleted /\ raced' = raced /\ wallets' = wallets
  BY Doing DEF RemoveV3, kept, history
<1>2. CASE dir[V3(w)] = NoFile
  BY <1>1, <1>2, FinishFiles DEF RemoveV3
<1>3. CASE Put(V3(w), NoFile)
  <2>1. PutEffect(V3(w), NoFile) /\ NoFile \in File /\ NoFile.kind # "ok"
    BY <1>1, <1>3, PutEntry, EntryFacts, FileFacts
  <2>2. /\ OnlyTask(t) /\ Goes(t)
        /\ task'[t] # Idle => task'[t].at \notin Claiming /\ w \notin task'[t].todo /\ task'[t].todo \subseteq Wallets
    BY ZenonT(60), <1>1, FinishPlain, Doing DEF RemoveV3
  <2>3. w \notin raced => /\ \A g \in pending[V4(w)] : g.kind = "ok" => Accepts(w, g.secret)
                          /\ dir[V4(w)].kind = "ok"
    BY <1>1 DEF SafetyInv, MigrateInv, FilesInv, BoundInv, Startup
  <2>4. /\ dir'[V4(w)] = dir[V4(w)] /\ V4(w) # V3(w)
        /\ \A x \in Wallets \ {w} : dir'[V3(x)] = dir[V3(x)]
    BY <1>1, <2>1, PutOther
  <2>5. StageInv' /\ GoneInv' /\ \A u \in Threads \ {t} : ReplaceInv(u)'
    BY <1>1, <2>1, <2>2, <2>3, <2>4, PutFiles
  <2>6. ReplaceInv(t)' /\ BoundInv' /\ SourceInv'
    BY <1>1, <2>2, <2>4, PlainClaims DEF FilesInv
  <2> QED
    BY <2>5, <2>6 DEF FilesInv
<1> QED
  BY <1>1, <1>2, <1>3 DEF RemoveV3

\* import_v3 writes only where no readable v4 file stands, and what it writes
\* is the secret of the v3 file.
LEMMA ImportV3Files ==
    ASSUME Safe, FilesInv, NEW t \in Threads, ImportV3(t)
    PROVE  FilesInv'
<1>. SafetyInv
  BY DEF Safe
<1>1. PICK w \in Wallets, pw \in Passwords :
         /\ w = task[t].w /\ pw = task[t].pw /\ w \in task[t].todo /\ task[t].todo \subseteq Wallets
         /\ task[t] # Idle /\ task[t].at = "import_v3" /\ lock = Nobody
         /\ t = "startup" /\ task[t].op = "migrate_v3" /\ "verify" \in StepsOf[task[t].op]
         /\ UNCHANGED <<kept, history>> /\ deleted' = deleted /\ raced' = raced /\ wallets' = wallets
  BY SMT, Doing DEF ImportV3, Free, StepsOf, kept, history
<1>2. CASE ~Replaceable(dir[V4(w)], pw)
  <2>1. /\ dir' = dir /\ pending' = pending
        /\ (Goto(t, "verify") /\ dir[V4(w)].pw = pw) \/ Finish(t)
    BY <1>1, <1>2 DEF ImportV3, Opens
  <2> QED
    BY <1>1, <2>1, BoundGoto, FinishFiles
<1>3. CASE Replaceable(dir[V4(w)], pw)
  <2>1. /\ dir[V4(w)].kind # "ok" /\ NoFile \in File /\ NoFile.kind # "ok" /\ V4(w) \in Entries /\ V4(w) # V3(w)
        /\ Staged(w, NoFile)
    BY SMT, <1>1, <1>3, FileFacts, EntryFacts DEF Replaceable, Staged
  <2>2. (dir' = dir /\ pending' = pending) \/ PutEffect(V4(w), NoFile)
    BY <1>1, <1>3, <2>1, PutEntry DEF ImportV3
  <2>3. /\ dir'[V4(w)].kind # "ok"
        /\ \A x \in Wallets : dir'[V3(x)] = dir[V3(x)] /\ pending'[V3(x)] = pending[V3(x)]
    BY SMT, <1>1, <2>1, <2>2, PutOther
  <2>4. w \notin raced => dir'[V3(w)] # NoFile
    BY <1>1, <2>3 DEF FilesInv, SourceInv, Startup
  <2>5. ASSUME OnlyTask(t), Goes(t)
        PROVE  StageInv' /\ GoneInv' /\ \A u \in Threads \ {t} : ReplaceInv(u)'
    <3>1. CASE dir' = dir /\ pending' = pending
      BY <1>1, <2>5, <3>1, QuietFiles
    <3>2. CASE PutEffect(V4(w), NoFile)
      BY <1>1, <2>1, <2>4, <2>5, <3>2, PutFiles
    <3> QED
      BY <2>2, <3>1, <3>2
  <2>6. CASE Opens(dir[V3(w)], pw)
    <3>1. dir[V3(w)] \in File /\ dir[V3(w)].kind = "ok" /\ pending[V3(w)] = {dir[V3(w)]}
      BY <1>1, <2>6, EntryFacts, FileFacts DEF SafetyInv, TypeOK, DiskInv, Opens
    <3>2. PICK file \in File : file.secret = dir[V3(w)].secret /\ StartWrite(t, file, "verify")
      BY SMT, <1>1, <1>3, <2>6, <3>1, FileFacts DEF ImportV3
    <3>3. Staged(w, file)'
      BY <1>1, <2>3, <3>1, <3>2 DEF Staged
    <3>4. OnlyTask(t) /\ Goes(t) /\ ReplaceInv(t)' /\ BoundInv' /\ SourceInv'
      BY <1>1, <2>3, <3>2, <3>3, WriteFiles DEF FilesInv
    <3> QED
      BY <2>5, <3>4 DEF FilesInv
  <2>7. CASE Finish(t)
    <3>1. /\ OnlyTask(t) /\ Goes(t)
          /\ task'[t] # Idle => task'[t].at \notin Claiming /\ task'[t].todo \subseteq Wallets
      BY <1>1, <2>7, FinishPlain
    <3> QED
      BY <1>1, <2>3, <2>5, <3>1, PlainClaims DEF FilesInv
  <2> QED
    BY <1>1, <1>3, <2>6, <2>7 DEF ImportV3
<1> QED
  BY <1>2, <1>3

\* import_v3 removes a corrupt v4 file and cannot read the v3 file.
LEMMA ClearedFiles ==
    ASSUME Safe, FilesInv, NEW t \in Threads, task[t] # Idle, task[t].at = "import_v3", lock = Nobody,
           dir[V4(task[t].w)] = CorruptFile, Put(V4(task[t].w), NoFile), Finish(t), UNCHANGED <<kept, history>>
    PROVE  FilesInv'
<1>. SafetyInv
  BY DEF Safe
<1>1. PICK w \in Wallets :
         /\ w = task[t].w /\ w \in task[t].todo /\ t = "startup" /\ task[t].op = "migrate_v3"
         /\ deleted' = deleted /\ raced' = raced /\ wallets' = wallets
  BY TaskFields, StepOps DEF SafetyInv, TypeOK, TaskOf, kept, history
<1>2. /\ PutEffect(V4(w), NoFile) /\ NoFile \in File /\ Staged(w, NoFile) /\ V4(w) # V3(w)
      /\ \A x \in Wallets : dir'[V3(x)] = dir[V3(x)]
  <2>1. PutEffect(V4(w), NoFile) /\ NoFile \in File /\ NoFile.kind # "ok"
    BY <1>1, PutEntry, EntryFacts, FileFacts
  <2> QED
    BY <2>1, PutOther DEF Staged
<1>3. w \notin raced => dir'[V3(w)] # NoFile
  BY <1>1, <1>2 DEF FilesInv, SourceInv, Startup
<1>4. /\ OnlyTask(t) /\ Goes(t)
      /\ task'[t] # Idle => task'[t].at \notin Claiming /\ task'[t].todo \subseteq Wallets
  BY <1>1, FinishPlain, TaskFields DEF SafetyInv, TypeOK
<1>5. StageInv' /\ GoneInv' /\ \A u \in Threads \ {t} : ReplaceInv(u)'
  BY <1>1, <1>2, <1>3, <1>4, PutFiles
<1>6. ReplaceInv(t)' /\ BoundInv' /\ SourceInv'
  BY <1>1, <1>2, <1>4, PlainClaims DEF FilesInv
<1> QED
  BY <1>5, <1>6 DEF FilesInv

\* The rename of write_new_file.
LEMMA RenameFiles ==
    ASSUME Safe, FilesInv, NEW t \in Threads, Rename(t)
    PROVE  FilesInv'
<1>. SafetyInv
  BY DEF Safe
<1>1. PICK w \in Wallets, file \in File :
         /\ w = task[t].w /\ file = task[t].file /\ task[t] # Idle /\ TaskOf(t, task[t]) /\ task[t].at = "rename"
         /\ task[t].todo \subseteq Wallets /\ lock = t /\ "sync" \in StepsOf[task[t].op]
         /\ deleted' = deleted /\ raced' = raced /\ wallets' = wallets
  BY SMT, Doing DEF Rename, StepsOf, Writing, kept, history
<1>2. /\ OnlyTask(t) /\ TaskOf(t, task'[t]) /\ Same(task[t], task'[t]) /\ task'[t].at = "sync"
      /\ task'[t].pw = task[t].pw /\ task'[t].then = task[t].then
  BY <1>1, GotoTask DEF Rename
<1>3. Goes(t) /\ SyncingOn(w)'
  BY <1>1, <1>2, Going, TaskFields DEF SyncingOn, Same
<1>4. PutEffect(V4(w), file)
  BY <1>1, PutEntry, EntryFacts DEF Rename
<1>5. dir'[V4(w)] = file /\ V4(w) # V3(w) /\ \A x \in Wallets : dir'[V3(x)] = dir[V3(x)]
  BY <1>4, PutOther
<1>6. w \notin raced => Staged(w, file)
  BY <1>1 DEF FilesInv, ReplaceInv
<1>7. /\ StageInv' /\ GoneInv' /\ (t = "ui" => BoundInv' /\ SourceInv')
      /\ \A u \in Threads \ {t} : ReplaceInv(u)'
  BY <1>1, <1>2, <1>3, <1>4, <1>5, <1>6, PutFiles
<1>8. t = "startup" => BoundInv'
  <2>1. t = "startup" /\ task[t].then = "verify" => file.pw = task[t].pw
    BY SMT, <1>1, StepOps DEF SafetyInv, ShareInv, MigrateInv, Startup, Writing, Opens, TaskOf, StepsOf
  <2> QED
    BY <1>1, <1>2, <1>5, <2>1 DEF BoundInv, Startup, Same
<1>9. ReplaceInv(t)' /\ (t = "startup" => SourceInv')
  BY SMT, <1>1, <1>2, <1>5 DEF FilesInv, ReplaceInv, SourceInv, Startup, Same
<1> QED
  BY <1>7, <1>8, <1>9 DEF FilesInv, Threads

\* The directory sync: the operation ends or goes on, migrate_v3 to the
\* verification of the file it has just written.
LEMMA SyncDirectoryFiles ==
    ASSUME Safe, FilesInv, NEW t \in Threads, SyncDirectory(t)
    PROVE  FilesInv'
<1>. SafetyInv
  BY DEF Safe
<1>1. /\ task[t] # Idle /\ TaskOf(t, task[t]) /\ task[t].at = "sync" /\ UNCHANGED <<kept, history>>
      /\ dir' = dir /\ pending' = Flushed /\ deleted' = deleted /\ raced' = raced /\ wallets' = wallets
  BY Doing DEF SyncDirectory, kept, history
<1>2. CASE task[t].then = "done"
  BY <1>1, <1>2, FinishFiles DEF SyncDirectory
<1>3. CASE task[t].then # "done" /\ task[t].op = "migrate_v3"
  <2>1. /\ task[t].then = "verify"
        /\ task[t].w \notin raced /\ dir[V4(task[t].w)].kind = "ok" => dir[V4(task[t].w)].pw = task[t].pw
    BY SMT, <1>1, <1>3, StepOps DEF SafetyInv, MigrateInv, FilesInv, BoundInv, Startup
  <2> QED
    BY ZenonT(60), <1>1, <1>3, <2>1, BoundGoto DEF SyncDirectory
<1>4. CASE task[t].then # "done" /\ task[t].op # "migrate_v3"
  <2>1. task[t].then \in StepsOf[task[t].op]
    BY <1>1, <1>4 DEF TaskOf
  <2>2. task[t].then \in {"store", "delete_v3", "delete_row", "confirm"}
    <3>1. CASE t = "ui"
      BY <1>1, <3>1 DEF SafetyInv, ImportInv, DeleteInv, Ui, Writing, TaskOf
    <3>2. CASE t = "startup"
      BY SMT, <1>1, <1>4, <3>2 DEF SafetyInv, ShareInv, Startup, Writing, TaskOf, StepsOf
    <3> QED
      BY <3>1, <3>2 DEF Threads
  <2> QED
    BY <1>1, <1>4, <2>1, <2>2, GotoFiles DEF SyncDirectory, Claiming
<1> QED
  BY <1>2, <1>3, <1>4

-----------------------------------------------------------------------------
(* Faults, and the begin of the operations.                                *)

\* A failed file operation ends and leaves no unsynced entry behind, but that
\* import_v3 may have removed a corrupt file, and verify and opens_with go on.
LEMMA IoErrorFiles ==
    ASSUME Safe, FilesInv, ~LateFlush, NEW t \in Threads, IoError(t)
    PROVE  FilesInv'
<1>. SafetyInv
  BY DEF Safe
<1>1. /\ task[t] # Idle /\ TaskOf(t, task[t]) /\ UNCHANGED <<kept, history>>
      /\ deleted' = deleted /\ raced' = raced /\ wallets' = wallets
  BY SMT DEF IoError, Idle, kept, history, SafetyInv, TypeOK
<1>2. CASE WriteError(t)
  <2>1. (pending' = pending /\ task[t].at # "sync") \/ pending' = Flushed
    BY SMT, <1>2 DEF WriteError, LeftUnsynced
  <2> QED
    BY <1>1, <1>2, <2>1, FinishFiles DEF WriteError
<1>3. CASE RemoveError(t)
  BY <1>1, <1>3, FinishFiles DEF RemoveError, disk
<1>4. CASE ReadError(t)
  <2>1. CASE task[t].at # "sync" /\ Finish(t) /\ UNCHANGED <<dir, pending>>
    BY <1>1, <2>1, FinishFiles
  <2>2. CASE /\ task[t].at = "import_v3" /\ dir[V4(task[t].w)] = CorruptFile
             /\ Put(V4(task[t].w), NoFile) /\ Finish(t)
    BY <1>1, <1>4, <2>2, ClearedFiles DEF ReadError
  <2>3. CASE task[t].at = "verify" /\ Goto(t, "undo") /\ UNCHANGED <<dir, pending>>
    <3>1. /\ task[t].op = "migrate_v3" /\ t = "startup"
          /\ task[t].w \notin raced /\ dir[V4(task[t].w)].kind = "ok" => dir[V4(task[t].w)].pw = task[t].pw
      BY ZenonT(30), <1>1, <2>3, StepOps DEF FilesInv, BoundInv, Startup
    <3> QED
      BY <1>1, <2>3, <3>1, BoundGoto
  <2>4. CASE task[t].at = "opens" /\ Goto(t, "change") /\ UNCHANGED <<dir, pending>>
    <3>1. "change" \in StepsOf[task[t].op]
      BY SMT, <1>1, <2>4, StepOps DEF StepsOf
    <3> QED
      BY <1>1, <2>4, <3>1, GotoFiles DEF Claiming
  <2> QED
    BY <1>4, <2>1, <2>2, <2>3, <2>4 DEF ReadError
<1> QED
  BY <1>2, <1>3, <1>4 DEF IoError

\* Nothing is at work: only what the files owe is left to show.
LEMMA RestFiles ==
    ASSUME StageInv', GoneInv', task'["ui"] = Idle, task'["startup"] = Idle
    PROVE  FilesInv'
BY DEF FilesInv, BoundInv, SourceInv, ReplaceInv, Startup, Threads

\* The app is killed or the device loses power: each entry is left in one of its
\* versions.
LEMMA RestartFiles ==
    ASSUME Safe, FilesInv, ~LateFlush, AppKilled \/ PowerLoss
    PROVE  FilesInv'
<1>. SafetyInv
  BY DEF Safe
<1>1. /\ task'["ui"] = Idle /\ task'["startup"] = Idle
      /\ deleted' = deleted /\ raced' = raced /\ wallets' = wallets
  BY DEF AppKilled, PowerLoss, Threads, kept, history
<1>2. \A f \in Entries : pending'[f] = {dir'[f]} /\ dir'[f] \in pending[f]
  BY SMT DEF AppKilled, PowerLoss, LeftUnsynced, Flushed, SafetyInv, TypeOK
<1>3. StageInv'
  BY <1>1, <1>2, StageKept DEF FilesInv
<1>4. GoneInv'
  <2>1. deleted \subseteq Wallets
    BY DEF SafetyInv, TypeOK
  <2> QED
    BY <1>1, <1>2, <2>1, EntryFacts DEF FilesInv, GoneInv, Ui
<1> QED
  BY <1>1, <1>3, <1>4, RestFiles

\* A damaged v4 file is not readable, and its wallet is not deleted.
LEMMA DamageFiles ==
    ASSUME Safe, FilesInv, NEW w \in Wallets, Damage(w)
    PROVE  FilesInv'
<1>. SafetyInv
  BY DEF Safe
<1>1. /\ task' = task /\ task'["ui"] = Idle /\ task'["startup"] = Idle
      /\ deleted' = deleted /\ raced' = raced /\ wallets' = wallets
  BY DEF Damage, Threads, kept, history
<1>2. /\ dir'[V4(w)] = CorruptFile /\ pending'[V4(w)] = {CorruptFile}
      /\ \A f \in Entries \ {V4(w)} : dir'[f] = dir[f] /\ pending'[f] = pending[f]
  BY EntryFacts DEF Damage, SafetyInv, TypeOK
<1>3. /\ \A x \in Wallets : /\ pending'[V3(x)] = pending[V3(x)] /\ dir'[V3(x)] = dir[V3(x)]
                            /\ x # w => pending'[V4(x)] = pending[V4(x)] /\ dir'[V4(x)] = dir[V4(x)]
      /\ CorruptFile.kind # "ok" /\ CorruptFile # NoFile
  BY <1>2, EntryFacts DEF CorruptFile, NoFile
<1>4. StageInv'
  <2>1. \A x \in Wallets : \A g : Staged(x, g) => Staged(x, g)'
    BY <1>3 DEF Staged
  <2>2. Staged(w, CorruptFile)
    BY <1>3 DEF Staged
  <2> QED
    BY ZenonT(60), <1>1, <1>2, <1>3, <2>1, <2>2 DEF FilesInv, StageInv
<1>5. GoneInv'
  <2>1. w \notin deleted \ raced
    <3>1. dir[V3(w)] # NoFile /\ dir[V3(w)] \in pending[V3(w)]
      BY EntryFacts, FileFacts DEF Damage, SafetyInv, TypeOK
    <3> QED
      BY <3>1 DEF FilesInv, GoneInv
  <2>2. deleted \subseteq Wallets /\ \A x : ~SyncingOn(x)
    BY DEF SafetyInv, TypeOK, SyncingOn, Damage
  <2>3. \A x \in Wallets \ raced : dir'[V4(x)] = NoFile => pending'[V4(x)] = {NoFile} \/ dir'[V3(x)] # NoFile
    BY <1>2, <1>3, <2>2 DEF FilesInv, GoneInv
  <2>4. \A x \in deleted \ raced : x \notin wallets /\ pending'[V4(x)] = {NoFile} /\ pending'[V3(x)] = {NoFile}
    BY <1>3, <2>1, <2>2 DEF FilesInv, GoneInv
  <2> QED
    BY <1>1, <2>3, <2>4 DEF GoneInv, Ui
<1> QED
  BY <1>1, <1>4, <1>5, RestFiles

\* An operation begins: at its first step it claims nothing of a file.
LEMMA BeginFiles ==
    ASSUME Safe, FilesInv, NEW t \in Threads, task[t] = Idle, NEW tk, TaskOf(t, tk), Become(t, tk),
           tk.at \notin Claiming, raced \subseteq raced', dir' = dir, pending' = pending,
           wallets' = wallets, deleted' \subseteq deleted,
           t = "ui" => tk.w \notin deleted' \ raced',
           tk.op = "migrate_v3" => tk.at = "needs" /\ (Android \/ \A w \in tk.todo : dir[V3(w)] # NoFile)
    PROVE  FilesInv'
<1>1. OnlyTask(t) /\ task'[t] = tk
  BY BecomeTask
<1>2. StageInv' /\ \A w \in Wallets : \A g : Staged(w, g) => Staged(w, g)'
  BY StageKept DEF FilesInv
<1>3. GoneInv'
  <2>1. \A w \in Wallets : SyncingOn(w) => SyncingOn(w)'
    BY <1>1 DEF OnlyTask, SyncingOn
  <2>2. Ui' # Idle => Ui'.w \notin deleted' \ raced'
    BY <1>1 DEF FilesInv, GoneInv, Ui, OnlyTask, Threads
  <2> QED
    BY <2>1, <2>2 DEF FilesInv, GoneInv
<1>4. BoundInv' /\ ReplaceInv(t)'
  BY <1>1 DEF FilesInv, BoundInv, ReplaceInv, Startup, OnlyTask, Threads, Claiming
<1>5. SourceInv'
  BY <1>1 DEF FilesInv, SourceInv, Startup, OnlyTask, Threads
<1> QED
  BY <1>1, <1>2, <1>3, <1>4, <1>5, ReplaceKept DEF FilesInv

\* A step that changes neither the files nor a thread.
LEMMA StillFiles ==
    ASSUME FilesInv, UNCHANGED <<dir, pending, task, wallets, deleted, raced>>
    PROVE  FilesInv'
<1>1. StageInv' /\ GoneInv'
  BY SMT DEF FilesInv, StageInv, Staged, GoneInv, SyncingOn, Ui
<1>2. BoundInv' /\ SourceInv' /\ \A t \in Threads : ReplaceInv(t)'
  BY DEF FilesInv, BoundInv, SourceInv, ReplaceInv, Staged, Startup
<1> QED
  BY <1>1, <1>2 DEF FilesInv

\* The maintenance loops start; the v3 files that iOS has just found are there.
LEMMA StartLoopsFiles ==
    ASSUME Safe, FilesInv, NEW t \in Threads, StartMigrateV3(t) \/ StartShare(t) \/ StartSetup(t)
    PROVE  FilesInv'
<1>. SafetyInv
  BY DEF Safe
<1>1. PICK op \in {"migrate_v3", "share", "setup"}, todo \in SUBSET wallets :
         /\ BeginLoop("startup", op, todo)
         /\ op = "migrate_v3" => Android \/ \A w \in todo : dir[V3(w)] # NoFile
  <2>1. CASE StartMigrateV3(t)
    BY <2>1 DEF StartMigrateV3
  <2>2. CASE StartShare(t)
    BY <2>2 DEF StartShare
  <2>3. CASE StartSetup(t)
    BY SMT, <2>3 DEF StartSetup
  <2> QED
    BY <2>1, <2>2, <2>3
<1>2. dir' = dir /\ pending' = pending /\ wallets' = wallets /\ deleted' = deleted
  BY DEF StartMigrateV3, StartShare, StartSetup, disk, kept
<1>3. CASE todo = {}
  BY <1>1, <1>2, <1>3, StillFiles DEF BeginLoop
<1>4. CASE todo # {}
  <2>. DEFINE tk(w) == [Task(op, FirstStep[op], w) EXCEPT !.todo = todo]
  <2>1. PICK w \in todo : Begin("startup", tk(w))
    BY <1>1, <1>4 DEF BeginLoop
  <2>2. /\ FirstStep[op] \in StepsOf[op] /\ FirstStep[op] \in Steps /\ op \in Ops /\ FirstStep[op] \notin Claiming
        /\ (op = "migrate_v3" => FirstStep[op] = "needs") /\ "startup" \in Threads
        /\ w \in Wallets /\ todo \subseteq Wallets
    BY SMT DEF FirstStep, StepsOf, Steps, Ops, Claiming, Threads, SafetyInv, TypeOK
  <2>3. TaskOf("startup", tk(w)) /\ tk(w).op = op /\ tk(w).at = FirstStep[op] /\ tk(w).todo = todo
    BY SMT, <2>2, NewTask
  <2>. HIDE DEF tk
  <2>4. Become("startup", tk(w)) /\ raced \subseteq raced' /\ task["startup"] = Idle
    BY <2>1 DEF Begin, CanBegin, Threads
  <2> QED
    BY <1>1, <1>2, <2>2, <2>3, <2>4, BeginFiles
<1> QED
  BY <1>3, <1>4

\* The user starts an import, after which the wallet is not a deleted one, or
\* the deletion of a wallet that has a row.
LEMMA StartUiFiles ==
    ASSUME Safe, FilesInv, NEW t \in Threads, NEW w \in Wallets, StartImport(t, w) \/ StartDelete(t, w)
    PROVE  FilesInv'
<1>1. PICK op \in {"import", "delete"}, step \in {"has_stored", "delete_v4"} :
         /\ step = (IF op = "import" THEN "has_stored" ELSE "delete_v4")
         /\ Begin("ui", Task(op, step, w))
         /\ deleted' \subseteq deleted /\ w \notin deleted' \ raced
  BY DEF StartImport, StartDelete, FilesInv, GoneInv
<1>. DEFINE tk == Task(op, step, w)
<1>2. TaskOf("ui", tk) /\ tk.op = op /\ tk.at = step /\ tk.w = w
  BY SMT, <1>1, NewUiTask
<1>3. Begin("ui", tk)
  BY <1>1
<1>. HIDE DEF tk
<1>4. /\ Become("ui", tk) /\ raced \subseteq raced' /\ task["ui"] = Idle /\ "ui" \in Threads
      /\ dir' = dir /\ pending' = pending /\ wallets' = wallets
  BY <1>3 DEF Begin, CanBegin, Threads, StartImport, StartDelete, disk, kept
<1> QED
  BY <1>1, <1>2, <1>4, BeginFiles DEF Claiming

=============================================================================
