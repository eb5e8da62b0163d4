-------------------------- MODULE Keystore_proofs ---------------------------
(***************************************************************************)
(* The theorems on the module Keystore: SafetyInv and FilesInv are         *)
(* inductive, and with them no wallet is lost, a deletion leaves no file,  *)
(* an unbound secret is only staged, and only a keyholder replaces a file. *)
(***************************************************************************)
EXTENDS KeystoreFiles_proofs

\* Most leaves are first-order; those that need arithmetic or records name SMT.
\* Kept is expanded throughout.
USE Zenon
USE DEF Kept

-----------------------------------------------------------------------------
(* The steps that change an entry.                                         *)

\* Thread t changes an entry of its wallet.  The other thread, if it handles the
\* same wallet, claims nothing of it: the wallet is not kept.
LEMMA PutOthers ==
    ASSUME Safe, NEW t \in Threads, task[t] # Idle, OnlyTask(t),
           NEW w \in Wallets, w = task[t].w, NEW f \in {V4(w), V3(w)}, NEW file \in File, PutEffect(f, file),
           f = V3(w) \/ lock \in {Nobody, t},
           UNCHANGED <<kept, owned, raced>>
    PROVE  /\ t = "ui" => Claims("startup")'
           /\ t = "startup" => Claims("ui")'
<1>. SafetyInv
  BY DEF Safe
<1>1. /\ \A u \in Threads : task[u] # Idle => TaskOf(u, task[u]) /\ task[u].w \in Wallets /\ task[u].w \in task[u].todo
      /\ shared' = shared /\ legacy' = legacy /\ owned' = owned /\ raced' = raced
  BY TaskFields DEF SafetyInv, TypeOK, TaskOf, kept
<1>2. \A x \in Wallets \ {w} : /\ dir'[V4(x)] = dir[V4(x)] /\ pending'[V4(x)] = pending[V4(x)]
                               /\ dir'[V3(x)] = dir[V3(x)] /\ pending'[V3(x)] = pending[V3(x)]
  BY PutOther
<1>3. ASSUME t = "ui" PROVE MigrateInv' /\ ShareInv'
  <2>1. /\ task'["startup"] = task["startup"] /\ w \notin Kept
        /\ Startup # Idle => Startup.w \in Wallets /\ (Startup.w = w => w \in raced)
    BY <1>1, <1>3, StepOps, ZenonT(30) DEF SafetyInv, RaceInv, Ui, Startup, OnlyTask, Threads
  <2>2. CASE Startup # Idle /\ Startup.w = w
    BY <1>1, <1>3, <2>1, <2>2 DEF SafetyInv, MigrateInv, ShareInv, Startup, Held
  <2>3. CASE Startup # Idle => Startup.w # w
    <3>1. Startup # Idle =>
            /\ dir'[V4(Startup.w)] = dir[V4(Startup.w)] /\ pending'[V4(Startup.w)] = pending[V4(Startup.w)]
            /\ dir'[V3(Startup.w)] = dir[V3(Startup.w)] /\ pending'[V3(Startup.w)] = pending[V3(Startup.w)]
      BY <1>2, <2>1, <2>3
    <3> QED
      BY <1>1, <1>3, <2>1, <3>1, ZenonT(30) DEF SafetyInv, MigrateInv, ShareInv, Startup, Held, AllRecover, Recovers
  <2> QED
    BY <1>3, <2>2, <2>3
<1>4. ASSUME t = "startup" PROVE ImportInv' /\ DeleteInv'
  <2>1. /\ task'["ui"] = task["ui"]
        /\ Ui # Idle => Ui.w \in Wallets /\ (Ui.at = "sync" => lock = "ui") /\ Ui.op \in {"import", "delete"}
    BY <1>1, <1>4, StepOps DEF SafetyInv, TypeOK, Ui, OnlyTask, Threads, Writing
  <2>2. CASE Ui # Idle /\ Ui.w = w
    <3>1. w \in raced /\ (Ui.at = "sync" => dir'[V4(w)] = dir[V4(w)])
      BY <1>1, <1>4, <2>1, <2>2, PutOther DEF SafetyInv, RaceInv, Startup, Nobody
    <3> QED
      BY <1>1, <1>4, <2>1, <2>2, <3>1 DEF SafetyInv, ImportInv, DeleteInv, Ui
  <2>3. CASE Ui # Idle => Ui.w # w
    <3>1. Ui # Idle =>
            /\ dir'[V4(Ui.w)] = dir[V4(Ui.w)] /\ pending'[V4(Ui.w)] = pending[V4(Ui.w)]
            /\ dir'[V3(Ui.w)] = dir[V3(Ui.w)] /\ pending'[V3(Ui.w)] = pending[V3(Ui.w)]
      BY <1>2, <2>1, <2>3
    <3> QED
      BY <1>1, <1>4, <2>1, <3>1 DEF SafetyInv, ImportInv, DeleteInv, Ui
  <2> QED
    BY <1>4, <2>2, <2>3
<1> QED
  BY <1>3, <1>4 DEF Claims, Threads

\* The other wallets keep what OwnedInv says of them.
LEMMA OwnedOthers ==
    ASSUME Safe, NEW w \in Wallets, NEW f \in {V4(w), V3(w)}, NEW file \in File, PutEffect(f, file),
           UNCHANGED <<kept, owned, raced>>,
           w \in Kept => /\ file.kind = "ok" => Accepts(w, file.secret) /\ file.pw \in {w, Shared}
                         /\ AllRecover(w, V4(w))' \/ AllRecover(w, V3(w))'
    PROVE  OwnedInv'
<1>. SafetyInv
  BY DEF Safe
<1>1. Kept' = Kept /\ Kept \subseteq Wallets
  BY DEF SafetyInv, TypeOK
<1>2. ASSUME NEW x \in Kept, x # w
      PROVE  /\ \A g \in OnDisk(x)' : g.kind = "ok" => Accepts(x, g.secret) /\ g.pw \in {x, Shared}
             /\ AllRecover(x, V4(x))' \/ AllRecover(x, V3(x))'
  <2>1. pending'[V4(x)] = pending[V4(x)] /\ pending'[V3(x)] = pending[V3(x)]
    BY <1>1, <1>2, PutOther
  <2> QED
    BY <1>2, <2>1 DEF SafetyInv, OwnedInv, OnDisk, AllRecover, Recovers, Held, kept
<1>3. w \in Kept => \A g \in OnDisk(w)' : g.kind = "ok" => Accepts(w, g.secret) /\ g.pw \in {w, Shared}
  <2>1. OnDisk(w)' \subseteq OnDisk(w) \union {file}
    BY EntryFacts DEF OnDisk, PutEffect
  <2> QED
    BY <2>1 DEF SafetyInv, OwnedInv
<1> QED
  BY <1>1, <1>2, <1>3 DEF OwnedInv

\* Thread t changes an entry of its wallet w: what is left to show is that the
\* new version is one the disk may hold and recover, and what thread t claims.
LEMMA PutStep ==
    ASSUME Safe, NEW t \in Threads, task[t] # Idle, task[t].at # "sync",
           OnlyTask(t), Goes(t), LockStep(t),
           NEW w \in Wallets, w = task[t].w, NEW f \in {V4(w), V3(w)}, NEW file \in File, PutEffect(f, file),
           f = V3(w) => file = NoFile,
           f = V4(w) => lock \in {Nobody, t} /\ (SyncingOn(w)' \/ pending'[V4(w)] \subseteq {NoFile, CorruptFile}),
           w \notin raced /\ dir'[V3(w)] = NoFile =>
              pending'[V3(w)] = {NoFile} \/ dir'[V4(w)].kind = "ok" \/ Syncing',
           w \in wallets \union raced \/ file \in {NoFile, Sealed(Shared, w)},
           Opens(file, Shared) => shared,
           w \in Kept => /\ file.kind = "ok" => Accepts(w, file.secret) /\ file.pw \in {w, Shared}
                         /\ AllRecover(w, V4(w))' \/ AllRecover(w, V3(w))',
           tmp' \subseteq Wallets, faults' \in 0 .. MaxFaults, UNCHANGED <<kept, stage, history>>,
           Claims(t)'
    PROVE  Safe'
<1>. SafetyInv
  BY DEF Safe
<1>1. /\ shared' = shared /\ legacy' = legacy /\ wallets' = wallets /\ owned' = owned /\ raced' = raced
      /\ deleted' = deleted
  BY DEF kept, history
<1>2. f \in Entries /\ \A g \in Entries : dir'[g] \in pending'[g]
  BY ZenonT(60), EntryFacts DEF PutEffect, SafetyInv, TypeOK
<1>3. TypeOK'
  BY SMT, <1>1, <1>2, TypeFrame DEF SafetyInv, TypeOK, PutEffect
<1>4. RaceInv' /\ OwnedInv'
  BY <1>1, RaceFrame, OwnedOthers
<1>5. PasswordInv'
  BY ZenonT(60), <1>1, <1>2 DEF SafetyInv, PasswordInv, PutEffect, TypeOK
<1>6. DiskInv'
  <2>1. /\ \A x \in Wallets : SyncingOn(x) => SyncingOn(x)'
        /\ Syncing => Syncing'
    BY SyncFrame
  <2>2. \A x \in Wallets \ {w} : /\ dir'[V4(x)] = dir[V4(x)] /\ pending'[V4(x)] = pending[V4(x)]
                                 /\ dir'[V3(x)] = dir[V3(x)] /\ pending'[V3(x)] = pending[V3(x)]
    BY PutOther
  <2>3. CASE f = V4(w)
    <3>1. /\ dir'[V3(w)] = dir[V3(w)] /\ pending'[V3(w)] = pending[V3(w)]
          /\ pending'[V4(w)] = pending[V4(w)] \union {file}
      BY ZenonT(60), <2>3, PutOther
    <3> QED
      BY SMT, <1>1, <2>1, <2>2, <2>3, <3>1 DEF SafetyInv, DiskInv
  <2>4. CASE f = V3(w)
    <3>1. /\ dir'[V4(w)] = dir[V4(w)] /\ pending'[V4(w)] = pending[V4(w)]
          /\ dir'[V3(w)] = NoFile /\ pending'[V3(w)] = pending[V3(w)] \union {NoFile}
      BY SMTT(60), <2>4, PutOther DEF PutEffect
    <3> QED
      BY SMTT(60), <1>1, <2>1, <2>2, <3>1 DEF SafetyInv, DiskInv
  <2> QED
    BY <2>3, <2>4
<1>7. (t = "ui" => Claims("startup")') /\ (t = "startup" => Claims("ui")')
  BY <1>1, PutOthers
<1> QED
  BY <1>3, <1>4, <1>5, <1>6, <1>7, SafeAgain DEF Claims, Threads

\* A removal under the lock: a kept wallet loses only its v4 file, and only when
\* its v3 file recovers it.
LEMMA RemoveStep ==
    ASSUME Safe, NEW t \in Threads, task[t] # Idle, lock = Nobody,
           NEW w \in Wallets, w = task[t].w,
           NEW f \in {V4(w), V3(w)}, Put(f, NoFile), lock' = t,
           w \in Kept => f = V4(w) /\ AllRecover(w, V3(w)),
           NEW then, then \in StepsOf[task[t].op] \union {"done"}, "sync" \in StepsOf[task[t].op],
           Become(t, [task[t] EXCEPT !.at = "sync", !.then = then]),
           UNCHANGED <<tmp, kept, stage, faults, history>>,
           Claims(t)'
    PROVE  Safe'
<1>. SafetyInv
  BY DEF Safe
<1>1. /\ PutEffect(f, NoFile) /\ NoFile \in File /\ ~Opens(NoFile, Shared) /\ tmp' \subseteq Wallets
      /\ faults' \in 0 .. MaxFaults
  BY SMT, PutEntry, EntryFacts, FileFacts DEF SafetyInv, TypeOK, Opens
<1>2. OnlyTask(t) /\ Goes(t) /\ task'[t] # Idle /\ task'[t].at = "sync" /\ task'[t].w = w
  <2>1. OnlyTask(t) /\ TaskOf(t, task'[t]) /\ Same(task[t], task'[t]) /\ task'[t].at = "sync"
    BY SyncTask DEF SafetyInv, TypeOK
  <2> QED
    BY <2>1, Going, TaskFields DEF Same
<1>3. LockStep(t) /\ SyncingOn(w)' /\ Syncing' /\ task[t].at # "sync"
  BY <1>2, Settled DEF LockStep, Writing, SyncingOn, Syncing
<1>4. w \in Kept => AllRecover(w, V3(w))' /\ NoFile.kind # "ok"
  <2>1. w \in Kept => pending'[V3(w)] = pending[V3(w)]
    BY <1>1, PutOther
  <2> QED
    BY <2>1, FileFacts DEF AllRecover, Recovers, Held, kept
<1> QED
  BY <1>1, <1>2, <1>3, <1>4, PutStep

\* The v3 file from which migrate_v3 makes the v4 file of a kept wallet recovers
\* the wallet, at every step from import_v3 on.
LEMMA SourceRecovers ==
    ASSUME Safe, SourceInv, Startup # Idle, Startup.op = "migrate_v3", Startup.at # "needs",
           Startup.w \in Kept
    PROVE  AllRecover(Startup.w, V3(Startup.w))
<1>. SafetyInv
  BY DEF Safe
<1>1. PICK w \in Wallets : w = Startup.w /\ w \in Startup.todo
  BY DEF SafetyInv, TypeOK, TaskOf, Tasks, Startup, Threads
<1>2. dir[V3(w)] # NoFile /\ Held(Own(w))
  BY <1>1 DEF SourceInv, SafetyInv, MigrateInv
<1>3. pending[V3(w)] = {dir[V3(w)]} /\ dir[V3(w)].kind = "ok" /\ dir[V3(w)].pw = Own(w)
  BY <1>2 DEF SafetyInv, DiskInv
<1>4. Accepts(w, dir[V3(w)].secret)
  BY <1>1, <1>3 DEF SafetyInv, OwnedInv, OnDisk
<1> QED
  BY <1>1, <1>2, <1>3, <1>4 DEF AllRecover, Recovers

\* A migrated file that fails its check is deleted again (migrate_wallet's error
\* path): the v3 file it was made from still recovers the secret.
LEMMA UndoMigrationStep ==
    ASSUME Safe, SourceInv, NEW t \in Threads, UndoMigration(t)
    PROVE  Safe'
<1>. SafetyInv
  BY DEF Safe
<1>1. PICK w \in Wallets :
         /\ w = task[t].w /\ task[t] # Idle /\ TaskOf(t, task[t]) /\ task[t].at = "undo" /\ lock = Nobody
         /\ t = "startup" /\ task[t].op = "migrate_v3" /\ task[t].at \notin Writing
         /\ "sync" \in StepsOf[task[t].op] /\ Remove(t, V4(w), "done")
         /\ UNCHANGED <<tmp, kept, stage, faults, history>>
  BY SMT, Doing DEF UndoMigration, Free, StepsOf, Writing
<1>2. Held(task[t].pw) /\ task[t].pw = Own(w) /\ (w \in Kept => AllRecover(w, V3(w)))
  BY <1>1, SourceRecovers DEF SafetyInv, MigrateInv, Startup
<1>3. CASE Finish(t) /\ UNCHANGED <<dir, pending, lock>>
  BY <1>1, <1>3, QuietFinish DEF disk
<1>4. CASE /\ Put(V4(w), NoFile) /\ lock' = t
           /\ Become(t, [task[t] EXCEPT !.at = "sync", !.then = "done"])
  <2>1. Same(task[t], task'[t]) /\ task'[t].at = "sync" /\ task'[t].pw = task[t].pw /\ task'[t].then = "done"
    BY <1>1, <1>4, SyncTask
  <2>2. MigrateInv' /\ ShareInv'
    BY <1>1, <1>2, <2>1 DEF MigrateInv, ShareInv, Startup, Same, Held, kept, history
  <2> QED
    BY <1>1, <1>2, <1>4, <2>2, RemoveStep DEF Claims
<1> QED
  BY ZenonT(60), <1>1, <1>3, <1>4 DEF Remove

\* delete_wallet's first removal: the wallet is no longer owned, so its v4 file
\* may go whatever else is on the disk.
LEMMA DeleteV4Step ==
    ASSUME Safe, NEW t \in Threads, DeleteV4(t)
    PROVE  Safe'
<1>. SafetyInv
  BY DEF Safe
<1>1. PICK w \in Wallets :
         /\ w = task[t].w /\ task[t] # Idle /\ TaskOf(t, task[t]) /\ task[t].at = "delete_v4" /\ lock = Nobody
         /\ t = "ui" /\ task[t].op = "delete" /\ task[t].at \notin Writing
         /\ {"sync", "delete_v3"} \subseteq StepsOf[task[t].op] /\ "delete_v3" \notin Writing
         /\ Remove(t, V4(w), "delete_v3") /\ UNCHANGED <<tmp, kept, stage, faults, history>>
  BY SMT, Doing DEF DeleteV4, Free, StepsOf, Writing
<1>2. w \notin Kept
  BY <1>1 DEF SafetyInv, RaceInv, Ui
<1>3. CASE dir[V4(w)] = NoFile
  <2>1. Goto(t, "delete_v3") /\ UNCHANGED <<dir, pending, lock>>
    BY <1>1, <1>3 DEF Remove
  <2>2. Same(task[t], task'[t]) /\ task'[t].at = "delete_v3"
    BY <1>1, <2>1, GotoTask
  <2>3. pending[V4(w)] \subseteq {NoFile, CorruptFile}
    BY <1>1, <1>3, Settled, FileFacts
  <2>4. ImportInv' /\ DeleteInv'
    BY <1>1, <1>3, <2>1, <2>2, <2>3 DEF ImportInv, DeleteInv, Ui, Same
  <2> QED
    BY <1>1, <2>1, <2>4, QuietGoto DEF SafetyInv, TypeOK, kept, disk, Claims
<1>4. CASE dir[V4(w)] # NoFile
  <2>1. /\ Put(V4(w), NoFile) /\ lock' = t
        /\ Become(t, [task[t] EXCEPT !.at = "sync", !.then = "delete_v3"])
    BY <1>1, <1>4 DEF Remove
  <2>2. Same(task[t], task'[t]) /\ task'[t].at = "sync" /\ task'[t].then = "delete_v3"
    BY <1>1, <2>1, SyncTask
  <2>3. ImportInv' /\ DeleteInv'
    <3>1. dir'[V4(w)] = NoFile
      BY SMT, <1>1, <2>1, PutEntry, EntryFacts, FileFacts DEF PutEffect
    <3> QED
      BY <1>1, <2>2, <3>1 DEF ImportInv, DeleteInv, Ui, Same
  <2> QED
    BY <1>1, <1>2, <2>1, <2>3, RemoveStep DEF Claims
<1> QED
  BY <1>3, <1>4

\* delete_wallet's second removal, of the v3 file.
LEMMA DeleteV3Step ==
    ASSUME Safe, NEW t \in Threads, DeleteV3(t)
    PROVE  Safe'
<1>. SafetyInv
  BY DEF Safe
<1>1. PICK w \in Wallets :
         /\ w = task[t].w /\ task[t] # Idle /\ TaskOf(t, task[t]) /\ task[t].at = "delete_v3" /\ lock = Nobody
         /\ t = "ui" /\ task[t].op = "delete" /\ task[t].at \notin Writing
         /\ {"sync", "delete_row"} \subseteq StepsOf[task[t].op] /\ "delete_row" \notin Writing
         /\ Remove(t, V3(w), "delete_row") /\ UNCHANGED <<tmp, kept, stage, faults, history>>
  BY SMT, Doing DEF DeleteV3, Free, StepsOf, Writing
<1>2. w \notin Kept /\ (w \notin raced => dir[V4(w)] = NoFile /\ pending[V4(w)] \subseteq {NoFile, CorruptFile})
  BY <1>1 DEF SafetyInv, RaceInv, DeleteInv, Ui
<1>3. CASE dir[V3(w)] = NoFile
  <2>1. Goto(t, "delete_row") /\ UNCHANGED <<dir, pending, lock>>
    BY <1>1, <1>3 DEF Remove
  <2>2. Same(task[t], task'[t]) /\ task'[t].at = "delete_row"
    BY <1>1, <2>1, GotoTask
  <2>3. w \notin raced => pending[V3(w)] = {NoFile}
    BY <1>1, <1>2, <1>3, Settled, FileFacts DEF SafetyInv, DiskInv
  <2>4. ImportInv' /\ DeleteInv'
    BY <1>1, <1>2, <2>1, <2>2, <2>3 DEF ImportInv, DeleteInv, Ui, Same, history
  <2> QED
    BY <1>1, <2>1, <2>4, QuietGoto DEF SafetyInv, TypeOK, kept, disk, Claims
<1>4. CASE dir[V3(w)] # NoFile
  <2>1. /\ Put(V3(w), NoFile) /\ lock' = t
        /\ Become(t, [task[t] EXCEPT !.at = "sync", !.then = "delete_row"])
    BY <1>1, <1>4 DEF Remove
  <2>2. Same(task[t], task'[t]) /\ task'[t].at = "sync" /\ task'[t].then = "delete_row"
    BY <1>1, <2>1, SyncTask
  <2>3. ImportInv' /\ DeleteInv'
    <3>1. dir'[V3(w)] = NoFile /\ dir'[V4(w)] = dir[V4(w)]
      BY SMT, <1>1, <2>1, PutEntry, EntryFacts, FileFacts DEF PutEffect
    <3> QED
      BY <1>1, <1>2, <2>2, <3>1 DEF ImportInv, DeleteInv, Ui, Same, history
  <2> QED
    BY <1>1, <1>2, <2>1, <2>3, RemoveStep DEF Claims
<1> QED
  BY <1>3, <1>4

\* The v3 file is removed once the v4 file is verified, outside the lock and
\* without a sync: each outcome leaves a file that recovers the secret.
LEMMA RemoveV3Step ==
    ASSUME Safe, NEW t \in Threads, RemoveV3(t)
    PROVE  Safe'
<1>. SafetyInv
  BY DEF Safe
<1>1. PICK w \in Wallets :
         /\ w = task[t].w /\ task[t] # Idle /\ TaskOf(t, task[t]) /\ task[t].at = "cleanup"
         /\ t = "startup" /\ task[t].op = "migrate_v3" /\ task[t].at \notin Writing /\ w \in task[t].todo
         /\ IF dir[V3(w)] = NoFile THEN UNCHANGED <<dir, pending>> ELSE Put(V3(w), NoFile)
         /\ Finish(t) /\ UNCHANGED <<tmp, kept, lock, stage, faults, history>>
  BY SMT, Doing DEF RemoveV3, Writing
<1>2. CASE dir[V3(w)] = NoFile
  BY <1>1, <1>2, QuietFinish DEF disk
<1>3. CASE dir[V3(w)] # NoFile
  <2>1. /\ PutEffect(V3(w), NoFile) /\ NoFile \in File /\ NoFile.kind # "ok" /\ ~Opens(NoFile, Shared)
        /\ tmp' \subseteq Wallets /\ faults' \in 0 .. MaxFaults
    BY <1>1, <1>3, PutEntry, EntryFacts, FileFacts DEF SafetyInv, TypeOK, Opens
  <2>2. OnlyTask(t) /\ Ended(t) /\ Goes(t)
    BY ZenonT(60), <1>1, FinishTask, Going
  <2>3. LockStep(t)
    BY SMT, <1>1, <2>2 DEF LockStep, Ended, FirstStep, Writing
  <2>4. Claims(t)'
    BY <1>1, <2>2, EndedFrame DEF kept
  <2>5. /\ w \notin raced => dir'[V4(w)].kind = "ok" /\ w \in wallets
        /\ w \in Kept => AllRecover(w, V4(w))'
    <3>1. /\ w \notin raced => dir[V4(w)].kind = "ok" /\ w \in wallets
          /\ w \in Kept => AllRecover(w, V4(w))
      BY <1>1 DEF SafetyInv, MigrateInv, RaceInv, Startup
    <3>2. dir'[V4(w)] = dir[V4(w)] /\ pending'[V4(w)] = pending[V4(w)]
      BY <2>1, PutOther
    <3> QED
      BY <1>1, <3>1, <3>2 DEF AllRecover, Recovers, Held, kept
  <2>6. V3(w) # V4(w) /\ task[t].at # "sync"
    BY <1>1, EntryFacts
  <2> QED
    BY <1>1, <2>1, <2>2, <2>3, <2>4, <2>5, <2>6, PutStep
<1> QED
  BY <1>2, <1>3

\* The rename of write_atomic, over whatever stood under the name: the file that
\* is replaced could not be recovered, or the new one recovers what it held.
LEMMA RenameStep ==
    ASSUME Safe, NEW t \in Threads, Rename(t)
    PROVE  Safe'
<1>. SafetyInv
  BY DEF Safe
<1>1. PICK w \in Wallets, file \in File :
         /\ w = task[t].w /\ file = task[t].file /\ task[t] # Idle /\ TaskOf(t, task[t])
         /\ task[t].at = "rename" /\ w \in task[t].todo /\ lock = t
         /\ task[t].op \in {"migrate_v3", "import", "share"} /\ "sync" \in StepsOf[task[t].op]
         /\ Put(V4(w), file) /\ Goto(t, "sync") /\ tmp' \subseteq Wallets /\ faults' \in 0 .. MaxFaults
         /\ UNCHANGED <<kept, lock, stage, faults, history>>
  BY SMT, Doing DEF Rename, SafetyInv, TypeOK, StepsOf, Writing
<1>2. PutEffect(V4(w), file) /\ V4(w) \in Entries
  BY <1>1, PutEntry, EntryFacts
<1>3. /\ OnlyTask(t) /\ TaskOf(t, task'[t]) /\ Same(task[t], task'[t]) /\ task'[t].at = "sync"
      /\ task'[t].pw = task[t].pw /\ task'[t].then = task[t].then /\ task'[t].w = w
  BY <1>1, GotoTask DEF Same
<1>4. Goes(t) /\ LockStep(t) /\ SyncingOn(w)' /\ Syncing' /\ task'[t] # Idle
  BY <1>1, <1>3, Going, TaskFields DEF LockStep, Writing, SyncingOn, Syncing
<1>5. /\ shared' = shared /\ legacy' = legacy /\ wallets' = wallets /\ owned' = owned /\ raced' = raced
      /\ pending'[V3(w)] = pending[V3(w)] /\ pending'[V4(w)] = pending[V4(w)] \union {file}
      /\ dir'[V4(w)] = file /\ V4(w) # V3(w) /\ task[t].at # "sync"
  BY ZenonT(60), <1>1, <1>2, PutOther DEF kept, history
<1>6. CASE task[t].op = "import"
  <2>1. t = "ui" /\ w \notin Kept /\ shared /\ file = Sealed(Shared, w) /\ task[t].then = "store"
    BY <1>1, <1>6, StepOps DEF SafetyInv, RaceInv, ImportInv, Ui, Writing
  <2>2. Claims(t)'
    BY ZenonT(60), <1>1, <1>3, <1>5, <1>6, <2>1 DEF Claims, ImportInv, DeleteInv, Ui, Same
  <2> QED
    BY <1>1, <1>2, <1>3, <1>4, <1>5, <2>1, <2>2, PutStep
<1>7. CASE task[t].op # "import"
  <2>1. t = "startup" /\ w \in wallets \union raced
    BY ZenonT(60), <1>1, <1>7, StepOps DEF SafetyInv, RaceInv, Startup
  <2>2. /\ Opens(file, Shared) => shared
        /\ w \in Kept => /\ file.kind = "ok" /\ Accepts(w, file.secret) /\ file.pw \in {w, Shared}
                         /\ Held(file.pw)
    <3>1. CASE task[t].op = "migrate_v3"
      BY <1>1, <2>1, <3>1 DEF SafetyInv, MigrateInv, Startup, Opens, Held, Own
    <3>2. CASE task[t].op = "share"
      BY <1>1, <2>1, <3>2 DEF SafetyInv, ShareInv, Startup, Opens, Held
    <3> QED
      BY <1>1, <1>7, <3>1, <3>2
  <2>3. /\ w \in Kept /\ AllRecover(w, V3(w)) => AllRecover(w, V3(w))'
        /\ w \in Kept /\ AllRecover(w, V4(w)) => AllRecover(w, V4(w))'
    BY <1>5, <2>2 DEF AllRecover, Recovers, Held
  <2>4. w \in Kept => AllRecover(w, V4(w))' \/ AllRecover(w, V3(w))'
    BY <2>3 DEF SafetyInv, OwnedInv
  <2>5. ShareInv'
    BY <1>1, <1>3, <1>5, <2>1 DEF SafetyInv, ShareInv, Startup, Same, Writing
  <2>6. MigrateInv'
    <3>1. task[t].op = "migrate_v3" =>
             Held(task[t].pw) /\ task[t].pw = Own(w) /\ task[t].then = "verify"
      BY <1>1, <2>1, ZenonT(30) DEF SafetyInv, MigrateInv, Startup
    <3> QED
      BY <1>3, <1>5, <2>1, <3>1 DEF MigrateInv, Startup, Same, Held
  <2> QED
    BY <1>1, <1>2, <1>3, <1>4, <1>5, <2>1, <2>2, <2>4, <2>5, <2>6, PutStep DEF Claims
<1> QED
  BY <1>6, <1>7

-----------------------------------------------------------------------------
(* import_v3.                                                              *)

\* Without a readable v4 file it is the v3 file that recovers an owned wallet.
LEMMA V3Recovers ==
    ASSUME Safe, NEW w \in Wallets, w \in Kept, dir[V4(w)].kind # "ok"
    PROVE  AllRecover(w, V3(w))
<1>. SafetyInv
  BY DEF Safe
<1>1. dir[V4(w)] \in pending[V4(w)]
  BY EntryFacts DEF SafetyInv, TypeOK
<1> QED
  BY <1>1 DEF SafetyInv, OwnedInv, AllRecover, Recovers

\* import_v3 removes a corrupt v4 file; what the task does then is a parameter.
LEMMA ClearedStep ==
    ASSUME Safe, NEW t \in Threads, task[t] # Idle, lock = Nobody, t = "startup",
           NEW w \in Wallets, w = task[t].w, dir[V4(w)] = CorruptFile, Put(V4(w), NoFile),
           OnlyTask(t), Goes(t), LockStep(t),
           faults' \in 0 .. MaxFaults, UNCHANGED <<tmp, kept, stage, history>>,
           Claims(t)'
    PROVE  Safe'
<1>. SafetyInv
  BY DEF Safe
<1>1. /\ PutEffect(V4(w), NoFile) /\ NoFile \in File /\ NoFile.kind # "ok" /\ ~Opens(NoFile, Shared)
      /\ CorruptFile.kind # "ok" /\ tmp' \subseteq Wallets
  BY PutEntry, EntryFacts, FileFacts DEF SafetyInv, TypeOK, Opens
<1>2. /\ pending'[V3(w)] = pending[V3(w)] /\ dir'[V3(w)] = dir[V3(w)]
      /\ pending'[V4(w)] = pending[V4(w)] \union {NoFile} /\ V4(w) # V3(w)
  BY <1>1, PutOther
<1>3. pending'[V4(w)] \subseteq {NoFile, CorruptFile} /\ ~Syncing /\ task[t].at # "sync"
  BY <1>1, <1>2, Settled DEF Syncing
<1>4. w \notin raced /\ dir'[V3(w)] = NoFile => pending'[V3(w)] = {NoFile}
  BY <1>1, <1>2, <1>3 DEF SafetyInv, DiskInv
<1>5. w \in Kept => AllRecover(w, V3(w))'
  <2>1. w \in Kept => AllRecover(w, V3(w))
    BY <1>1, V3Recovers
  <2> QED
    BY <1>2, <2>1 DEF AllRecover, Recovers, Held, kept
<1> QED
  BY <1>1, <1>2, <1>3, <1>4, <1>5, PutStep DEF Claims

\* import_v3 removes a corrupt v4 file and fails on the v3 file.
LEMMA ClearedFinish ==
    ASSUME Safe, NEW t \in Threads, task[t] # Idle, task[t].at = "import_v3", lock = Nobody,
           dir[V4(task[t].w)] = CorruptFile, Put(V4(task[t].w), NoFile), Finish(t),
           faults' \in 0 .. MaxFaults, UNCHANGED <<tmp, kept, lock, stage, history>>
    PROVE  Safe'
<1>. SafetyInv
  BY DEF Safe
<1>1. /\ TaskOf(t, task[t]) /\ t = "startup" /\ task[t].op = "migrate_v3" /\ task[t].w \in Wallets
      /\ OnlyTask(t) /\ Ended(t) /\ Goes(t)
  <2>1. TaskOf(t, task[t])
    BY DEF SafetyInv, TypeOK
  <2>2. OnlyTask(t) /\ Ended(t) /\ Goes(t)
    BY <2>1, FinishTask, Going
  <2> QED
    BY <2>1, <2>2, TaskFields, StepOps
<1>2. LockStep(t)
  BY SMT, <1>1 DEF LockStep, Ended, FirstStep, Writing
<1>3. Claims(t)'
  BY <1>1, EndedFrame DEF kept
<1> QED
  BY <1>1, <1>2, <1>3, ClearedStep

\* migrate_wallet reads the v3 file and starts the write of its v4 form.
LEMMA ImportV3Step ==
    ASSUME Safe, NEW t \in Threads, ImportV3(t)
    PROVE  Safe'
<1>. SafetyInv
  BY DEF Safe
<1>1. PICK w \in Wallets, pw \in Passwords :
         /\ w = task[t].w /\ pw = task[t].pw /\ task[t] # Idle /\ TaskOf(t, task[t])
         /\ task[t].at = "import_v3" /\ lock = Nobody /\ task[t].at \notin Writing
         /\ t = "startup" /\ task[t].op = "migrate_v3"
         /\ {"verify", "temp"} \subseteq StepsOf[task[t].op] /\ "verify" \notin Writing
         /\ UNCHANGED <<tmp, kept, stage, faults, history>>
  BY SMT, Doing DEF ImportV3, Free, StepsOf, Writing
<1>. DEFINE v4 == dir[V4(w)]
            v3 == dir[V3(w)]
            file == Sealed(pw, v3.secret)
<1>2. Held(pw) /\ pw = Own(w)
  BY <1>1 DEF SafetyInv, MigrateInv, Startup
<1>3. v4 \in File /\ v3 \in File /\ v3 \in pending[V3(w)] /\ faults' \in 0 .. MaxFaults
  BY <1>1, EntryFacts DEF SafetyInv, TypeOK
<1>4. CASE Opens(v4, pw) /\ Goto(t, "verify") /\ UNCHANGED <<dir, pending, lock>>
  <2>1. Same(task[t], task'[t]) /\ task'[t].at = "verify" /\ task'[t].pw = task[t].pw
    BY <1>1, <1>4, GotoTask
  <2>2. MigrateInv' /\ ShareInv'
    BY <1>1, <1>2, <1>4, <2>1 DEF MigrateInv, ShareInv, Startup, Same, Held, kept, history
  <2> QED
    BY <1>1, <1>4, <2>2, QuietGoto DEF SafetyInv, TypeOK, kept, disk, Claims
<1>5. CASE Finish(t) /\ UNCHANGED <<dir, pending, lock>>
  BY <1>1, <1>5, QuietFinish DEF disk
<1>6. CASE /\ v4 \in {NoFile, CorruptFile} /\ Opens(v3, pw) /\ StartWrite(t, file, "verify")
           /\ IF v4 = NoFile THEN UNCHANGED <<dir, pending>> ELSE Put(V4(w), NoFile)
  <2>1. file \in File /\ Opens(file, pw) /\ file.secret = v3.secret
    BY <1>3, <1>6, FileFacts DEF Opens
  <2>. HIDE DEF file
  <2>2. /\ OnlyTask(t) /\ TaskOf(t, task'[t]) /\ Same(task[t], task'[t])
        /\ task'[t].at = "temp" /\ task'[t].pw = pw
        /\ task'[t].file = file /\ task'[t].then = "verify"
    BY SMT, <1>1, <1>6, <2>1, WriteTask
  <2>3. Goes(t) /\ LockStep(t)
    BY <1>1, <1>6, <2>2, Going, TaskFields DEF LockStep, StartWrite, Writing
  <2>4. w \in Kept => Accepts(w, v3.secret)
    BY <1>3, <1>6 DEF SafetyInv, OwnedInv, OnDisk, Opens
  <2>5. MigrateInv' /\ ShareInv'
    BY <1>1, <1>2, <2>1, <2>2, <2>4 DEF MigrateInv, ShareInv, Startup, Same, Held, kept, history
  <2>6. CASE v4 = NoFile
    BY <1>1, <1>6, <2>1, <2>5, <2>6, WriteStep DEF disk, Claims
  <2>7. CASE v4 = CorruptFile
    <3>1. Put(V4(w), NoFile)
      BY SMT, <1>6, <2>7 DEF NoFile, CorruptFile
    <3> QED
      BY <1>1, <1>3, <2>2, <2>3, <2>5, <2>7, <3>1, ClearedStep DEF Claims
  <2> QED
    BY <1>6, <2>6, <2>7
<1>7. CASE v4 = CorruptFile /\ Put(V4(w), NoFile) /\ Finish(t) /\ UNCHANGED lock
  BY <1>1, <1>3, <1>7, ClearedFinish
<1> QED
  BY <1>1, <1>4, <1>5, <1>6, <1>7 DEF ImportV3, Replaceable

-----------------------------------------------------------------------------
(* The sync of the directory and the I/O errors.                           *)

\* The directory is settled as it stands: what is left to show is what thread t
\* claims.
LEMMA FlushStep ==
    ASSUME Safe, NEW t \in Threads, task[t] # Idle, OnlyTask(t), Goes(t), LockStep(t),
           dir' = dir, pending' = Flushed, tmp' \subseteq Wallets, faults' \in 0 .. MaxFaults,
           UNCHANGED <<kept, stage, history>>,
           Claims(t)'
    PROVE  Safe'
<1>. SafetyInv
  BY DEF Safe
<1>1. \A f \in Entries : pending'[f] = {dir[f]} /\ dir[f] \in pending[f]
  BY DEF SafetyInv, TypeOK, Flushed
<1>2. /\ shared' = shared /\ legacy' = legacy /\ wallets' = wallets /\ owned' = owned /\ raced' = raced
      /\ deleted' = deleted
  BY DEF kept, history
<1>3. /\ pending' \in [Entries -> SUBSET File] /\ \A f \in Entries : dir'[f] \in pending'[f]
      /\ PasswordInv' /\ DiskInv' /\ OwnedInv'
  BY <1>1, <1>2, SettleFrame DEF Flushed, SafetyInv, TypeOK
<1>4. TypeOK' /\ RaceInv'
  BY <1>2, <1>3, TypeFrame, RaceFrame DEF SafetyInv, TypeOK
<1>5. \A w \in Wallets : /\ pending'[V4(w)] = {dir[V4(w)]} /\ dir[V4(w)] \in pending[V4(w)]
                         /\ pending'[V3(w)] = {dir[V3(w)]} /\ dir[V3(w)] \in pending[V3(w)]
  BY <1>1, EntryFacts
<1>6. \A u \in Threads \ {t} : task'[u] = task[u] /\ (task[u] # Idle => task[u].w \in Wallets)
  BY TaskFields DEF OnlyTask, SafetyInv, TypeOK
<1>7. t = "ui" => MigrateInv' /\ ShareInv'
  <2>1. t = "ui" => task'["startup"] = task["startup"] /\ (Startup # Idle => Startup.w \in Wallets)
    BY <1>6 DEF Startup, Threads
  <2> QED
    BY <1>2, <1>5, <2>1, ZenonT(40) DEF SafetyInv, MigrateInv, ShareInv, Startup, AllRecover, Recovers, Held
<1>8. t = "startup" => ImportInv' /\ DeleteInv'
  <2>1. t = "startup" => task'["ui"] = task["ui"] /\ (Ui # Idle => Ui.w \in Wallets)
    BY <1>6 DEF Ui, Threads
  <2> QED
    BY <1>2, <1>5, <2>1, ZenonT(40) DEF SafetyInv, ImportInv, DeleteInv, Ui
<1> QED
  BY <1>3, <1>4, <1>7, <1>8, SafeAgain DEF Claims, Threads

\* sync_directory: the rename or the removal before it becomes durable, and the
\* operation goes on to what it does next.
LEMMA SyncDirectoryStep ==
    ASSUME Safe, NEW t \in Threads, SyncDirectory(t)
    PROVE  Safe'
<1>. SafetyInv
  BY DEF Safe
<1>0. PICK w, then : w = task[t].w /\ then = task[t].then
  OBVIOUS
<1>1. /\ w \in Wallets /\ w = task[t].w /\ then = task[t].then /\ task[t] # Idle /\ TaskOf(t, task[t])
      /\ task[t].at = "sync" /\ lock = t /\ lock' = Nobody /\ pending' = Flushed /\ dir' = dir
      /\ tmp' \subseteq Wallets /\ faults' \in 0 .. MaxFaults /\ UNCHANGED <<kept, stage, history>>
  <2>1. task[t] # Idle /\ TaskOf(t, task[t]) /\ task[t].at = "sync" /\ task[t].w \in Wallets
    BY Doing DEF SyncDirectory
  <2>2. lock = t /\ tmp \subseteq Wallets /\ faults \in 0 .. MaxFaults
    BY <2>1 DEF SafetyInv, TypeOK, Writing
  <2> QED
    BY <1>0, <2>1, <2>2 DEF SyncDirectory
<1>2. CASE then = "done" /\ Finish(t)
  <2>1. OnlyTask(t) /\ Ended(t) /\ Goes(t)
    BY <1>1, <1>2, FinishTask, Going
  <2>2. LockStep(t)
    BY SMT, <1>1, <2>1, StepOps DEF LockStep, Ended, FirstStep, Writing
  <2>3. Claims(t)'
    BY <1>1, <2>1, EndedFrame DEF kept
  <2> QED
    BY <1>1, <2>1, <2>2, <2>3, FlushStep
<1>3. CASE then # "done" /\ Goto(t, then)
  <2>1. then \in StepsOf[task[t].op] /\ then \notin Writing
    <3>1. then \in StepsOf[task[t].op] /\ task[t].op \in Ops
      BY <1>1, <1>3, TaskFields DEF TaskOf
    <3>2. t = "startup" /\ task[t].op \in {"migrate_v3", "share"} => then \in {"verify", "confirm"}
      BY <1>1, <1>3 DEF SafetyInv, MigrateInv, ShareInv, Startup, Writing
    <3>3. t = "ui" => then \in {"store", "delete_v3", "delete_row"}
      BY <1>1, StepOps DEF SafetyInv, ImportInv, DeleteInv, Ui, Writing
    <3>4. t = "startup" => task[t].op \in {"migrate_v3", "share"}
      BY SMT, <1>1 DEF TaskOf, StepsOf
    <3> QED
      BY <3>1, <3>2, <3>3, <3>4 DEF Threads, Writing
  <2>2. /\ OnlyTask(t) /\ TaskOf(t, task'[t]) /\ Same(task[t], task'[t])
        /\ task'[t].at = then /\ task'[t].pw = task[t].pw
    BY <1>1, <1>3, <2>1, GotoTask
  <2>3. Goes(t) /\ LockStep(t)
    BY <1>1, <2>1, <2>2, Going, TaskFields DEF LockStep
  <2>4. pending'[V4(w)] = {dir[V4(w)]} /\ dir[V4(w)] \in pending[V4(w)] /\ pending'[V3(w)] = {dir[V3(w)]}
    BY <1>1, EntryFacts DEF SafetyInv, TypeOK, Flushed
  <2>5. t = "startup" => MigrateInv'
    BY <1>1, <1>3, <2>2, ZenonT(40) DEF SafetyInv, MigrateInv, Startup, Same, Held, kept, history
  <2>6. t = "startup" => ShareInv'
    BY <1>1, <2>2, ZenonT(40) DEF SafetyInv, ShareInv, Startup, Same, Writing, kept, history
  <2>7. t = "ui" => ImportInv'
    BY <1>1, <2>2, <2>4, ZenonT(40) DEF SafetyInv, ImportInv, Ui, Same, Writing, kept, history
  <2>8. t = "ui" => DeleteInv'
    BY SMT, <1>1, <2>2, <2>4 DEF SafetyInv, DeleteInv, Ui, Same, history
  <2> QED
    BY <1>1, <2>2, <2>3, <2>5, <2>6, <2>7, <2>8, FlushStep DEF Claims
<1> QED
  BY <1>0, <1>2, <1>3 DEF SyncDirectory

\* A write that fails ends, with the temporary file removed and the lock
\* released; what it renamed or removed is durable.
LEMMA WriteErrorStep ==
    ASSUME Safe, ~LateFlush, NEW t \in Threads, task[t] # Idle, WriteError(t),
           faults' \in 0 .. MaxFaults, UNCHANGED <<kept, stage, history>>
    PROVE  Safe'
<1>. SafetyInv
  BY DEF Safe
<1>1. /\ TaskOf(t, task[t]) /\ tmp' \subseteq Wallets /\ dir' = dir
      /\ task[t].at = "sync" => pending' = Flushed
      /\ task[t].at # "sync" => pending' = pending
  BY SMT DEF WriteError, LeftUnsynced, SafetyInv, TypeOK
<1>2. OnlyTask(t) /\ Ended(t) /\ Goes(t)
  BY <1>1, FinishTask, Going DEF WriteError
<1>3. LockStep(t) /\ (task'[t] # Idle => task'[t].at # "sync")
  BY SMT, <1>1, <1>2, StepOps DEF LockStep, Ended, FirstStep, Writing, WriteError, SafetyInv, TypeOK
<1>4. Claims(t)'
  BY <1>1, <1>2, EndedFrame DEF kept
<1>5. CASE task[t].at = "sync"
  BY <1>1, <1>2, <1>3, <1>4, <1>5, FlushStep
<1>6. CASE task[t].at # "sync"
  BY <1>1, <1>2, <1>3, <1>4, <1>6, QuietStep DEF kept, SafetyInv, TypeOK
<1> QED
  BY <1>5, <1>6

\* A file operation fails: the operation ends where it stands, but for the
\* verification, which goes on to delete the v4 file, and opens_with.
LEMMA IoErrorStep ==
    ASSUME Safe, ~LateFlush, NEW t \in Threads, IoError(t)
    PROVE  Safe'
<1>. SafetyInv
  BY DEF Safe
<1>1. task[t] # Idle /\ faults' \in 0 .. MaxFaults /\ UNCHANGED <<kept, stage, history>>
  BY SMT, WalletsAssumption DEF IoError, Fault, Idle, SafetyInv, TypeOK
<1>2. CASE WriteError(t)
  BY <1>1, <1>2, WriteErrorStep
<1>3. CASE RemoveError(t)
  BY <1>1, <1>3, FailedStep DEF RemoveError, Writing
<1>4. CASE ReadError(t)
  <2>1. CASE task[t].at \notin Writing /\ Finish(t) /\ UNCHANGED <<disk, lock>>
    BY <1>1, <2>1, FailedStep
  <2>2. CASE /\ task[t].at = "import_v3" /\ dir[V4(task[t].w)] = CorruptFile
             /\ Put(V4(task[t].w), NoFile) /\ Finish(t)
    BY <1>1, <1>4, <2>2, ClearedFinish DEF ReadError
  <2>3. CASE task[t].at = "verify" /\ Goto(t, "undo") /\ UNCHANGED <<disk, lock>>
    BY <1>1, <2>3, VerifiedStep
  <2>4. CASE task[t].at = "opens" /\ Goto(t, "change") /\ UNCHANGED <<disk, lock>>
    BY <1>1, <2>4, UnreadableStep
  <2> QED
    BY <1>4, <2>1, <2>2, <2>3, <2>4 DEF ReadError, Writing, disk
<1> QED
  BY <1>2, <1>3, <1>4 DEF IoError

-----------------------------------------------------------------------------
(* The first invariant.                                                    *)

\* SafetyInv is inductive relative to SourceInv when a killed or failed operation
\* leaves no unsynced entry behind (~LateFlush; keystore_late_flush shows that it
\* is needed).
LEMMA NextSafety ==
    ASSUME Safe, SourceInv, ~LateFlush, [Next]_vars
    PROVE  Safe'
<1>1. ASSUME NEW t \in Threads, Step(t)
      PROVE  Safe'
  BY <1>1, WriteTempStep, RenameStep, SyncDirectoryStep, NeedsMigrationStep, ImportV3Step,
     VerifyMigratedSecretStep, UndoMigrationStep, RemoveV3Step, HasStoredWalletsStep,
     GetPasswordStep, CreateStoreStep, StoreWalletStep, DeleteV4Step, DeleteV3Step,
     DeleteRowStep, ShareSteps, ChangePasswordStep, DeleteWalletPasswordStep, AddAccountsStep DEF Step
<1>2. ASSUME NEW t \in Threads, NEW w \in Wallets, StartImport(t, w) \/ StartDelete(t, w)
      PROVE  Safe'
  BY <1>2, StartUiStep
<1>3. CASE UNCHANGED vars
  BY <1>3, StutterStep
<1> QED
  BY <1>1, <1>2, <1>3, IoErrorStep, StartLoopsStep, AppKilledStep, PowerLossStep, DamageStep DEF Next

-----------------------------------------------------------------------------
(* The invariant, and the steps that change a readable v4 file.            *)

\* FilesInv holds at the first launch.
LEMMA InitFiles ==
    ASSUME Init
    PROVE  FilesInv
<1>1. /\ task["ui"] = Idle /\ task["startup"] = Idle /\ deleted = {} /\ raced = {}
      /\ \A w \in Wallets : /\ pending[V4(w)] = {dir[V4(w)]} /\ pending[V3(w)] = {dir[V3(w)]}
                            /\ dir[V4(w)].kind = "ok" => dir[V4(w)].secret = w
  BY InitialDisk, EntryFacts DEF Init, InitialPair
<1>2. StageInv
  BY <1>1, ZenonT(60) DEF StageInv, Staged, Accepts
<1>3. GoneInv
  BY <1>1 DEF GoneInv, Ui
<1>4. \A t \in Threads : ReplaceInv(t)
  BY <1>1 DEF ReplaceInv, Threads
<1> QED
  BY <1>1, <1>2, <1>3, <1>4 DEF FilesInv, BoundInv, SourceInv, Startup

\* FilesInv is inductive on top of SafetyInv.
LEMMA NextFiles ==
    ASSUME Safe, FilesInv, ~LateFlush, [Next]_vars, Safe'
    PROVE  FilesInv'
<1>1. ASSUME NEW t \in Threads, Step(t)
      PROVE  FilesInv'
  BY <1>1, PlainSteps, WriteTempFiles, RenameFiles, SyncDirectoryFiles, NeedsMigrationFiles, ImportV3Files,
     VerifyMigratedSecretFiles, UndoMigrationFiles, RemoveV3Files, HasStoredWalletsFiles, CreateStoreFiles,
     DeleteFiles, DeleteRowFiles, ChangePasswordFiles DEF Step
<1>2. ASSUME NEW t \in Threads, NEW w \in Wallets, StartImport(t, w) \/ StartDelete(t, w)
      PROVE  FilesInv'
  BY <1>2, StartUiFiles
<1>3. CASE UNCHANGED vars
  BY <1>3, StillFiles DEF vars, disk, kept, history
<1> QED
  BY <1>1, <1>2, <1>3, IoErrorFiles, StartLoopsFiles, RestartFiles, DamageFiles DEF Next

\* A step that changes a v4 file and is no fault is the rename of a write, a
\* removal, or the replacement of import_v3.
LEMMA Changing ==
    ASSUME Safe, Next, faults' = faults, dir' # dir
    PROVE  \E t \in Threads : \/ Rename(t) \/ ImportV3(t) \/ UndoMigration(t) \/ RemoveV3(t)
                              \/ DeleteV4(t) \/ DeleteV3(t)
<1>1. ~Fault
  BY SMT DEF Fault, Safe, SafetyInv, TypeOK
<1>2. ASSUME NEW t \in Threads, Step(t)
      PROVE  \/ Rename(t) \/ ImportV3(t) \/ UndoMigration(t) \/ RemoveV3(t) \/ DeleteV4(t) \/ DeleteV3(t)
             \/ dir' = dir
  BY <1>2 DEF Step, WriteTemp, SyncDirectory, NeedsMigration, VerifyMigratedSecret, HasStoredWallets,
     GetPassword, CreateStore, StoreWallet, DeleteRow, Exists, OpensWithShared, ChangePassword,
     ConfirmShared, DeleteWalletPassword, AddAccounts, disk
<1>3. \A t \in Threads : StartMigrateV3(t) \/ StartShare(t) \/ StartSetup(t) => dir' = dir
  BY DEF StartMigrateV3, StartShare, StartSetup, disk
<1>4. \A t \in Threads, w \in Wallets : StartImport(t, w) \/ StartDelete(t, w) => dir' = dir
  BY DEF StartImport, StartDelete, disk
<1>5. ~AppKilled /\ ~PowerLoss /\ (\A w \in Wallets : ~Damage(w)) /\ \A t \in Threads : ~IoError(t)
  BY <1>1 DEF AppKilled, PowerLoss, Damage, IoError
<1> QED
  BY <1>2, <1>3, <1>4, <1>5 DEF Next

\* Who replaces or removes the readable v4 file of wallet w.
Keyholder(w) ==
    \E t \in Threads :
        /\ task[t] # Idle /\ task[t].w = w
        /\ \/ task[t].op = "delete"
           \/ task[t].op = "migrate_v3" /\ task[t].pw = dir[V4(w)].pw
           \/ task[t].op = "share" /\ dir'[V4(w)] = Sealed(Shared, dir[V4(w)].secret)

\* Of the steps of Changing, those on a readable v4 file belong to a keyholder.
LEMMA KeyholderStep ==
    ASSUME Safe, FilesInv, Next, faults' = faults,
           NEW w \in Wallets \ raced, dir[V4(w)].kind = "ok", dir'[V4(w)] # dir[V4(w)]
    PROVE  Keyholder(w)
<1>. SafetyInv
  BY DEF Safe
<1>1. PICK t \in Threads : \/ Rename(t) \/ ImportV3(t) \/ UndoMigration(t) \/ RemoveV3(t)
                           \/ DeleteV4(t) \/ DeleteV3(t)
  BY ZenonT(30), Changing DEF SafetyInv
<1>2. PICK x \in Wallets, file \in File :
         /\ x = task[t].w /\ file = task[t].file /\ task[t] # Idle /\ NoFile \in File
         /\ V4(x) \in Entries /\ V3(x) \in Entries
  BY SMT, <1>1, Doing, FileFacts, EntryFacts
     DEF Rename, ImportV3, UndoMigration, RemoveV3, DeleteV4, DeleteV3, Free
<1>3. ASSUME NEW g \in File, Put(V3(x), g)
      PROVE  FALSE
  BY <1>2, <1>3, PutEntry, EntryFacts, ZenonT(60) DEF PutEffect
<1>4. ASSUME NEW g \in File, Put(V4(x), g)
      PROVE  w = x /\ dir'[V4(x)] = g
  BY <1>2, <1>4, PutEntry, EntryFacts, ZenonT(60) DEF PutEffect
<1>5. CASE Rename(t)
  <2>1. w = x /\ dir'[V4(w)] = file
    BY <1>2, <1>4, <1>5 DEF Rename
  <2> QED
    BY <1>2, <1>5, <2>1 DEF Rename, At, FilesInv, ReplaceInv, Keyholder
<1>6. CASE ImportV3(t)
  <2>1. Put(V4(x), NoFile) /\ dir[V4(x)].kind # "ok"
    BY <1>2, <1>6, FileFacts DEF ImportV3, Replaceable
  <2> QED
    BY <1>2, <1>4, <2>1
<1>7. CASE UndoMigration(t)
  <2>1. w = x /\ task[t].at = "undo" /\ t = "startup" /\ task[t].op = "migrate_v3"
    BY <1>2, <1>4, <1>7, Doing DEF UndoMigration, Remove, Free
  <2> QED
    BY <1>2, <2>1 DEF FilesInv, BoundInv, Startup, Keyholder
<1>8. CASE DeleteV4(t)
  <2>1. w = x /\ task[t].op = "delete"
    BY SMT, <1>2, <1>4, <1>8, Doing DEF DeleteV4, Remove, Free
  <2> QED
    BY <1>2, <2>1 DEF Keyholder
<1>9. CASE RemoveV3(t) \/ DeleteV3(t)
  BY <1>2, <1>3, <1>9 DEF RemoveV3, DeleteV3, Remove
<1> QED
  BY <1>1, <1>5, <1>6, <1>7, <1>8, <1>9


-----------------------------------------------------------------------------
(* The theorems.                                                           *)

\* The conjuncts of SafetyInv and of FilesInv hold in every reachable state, for
\* any set of wallets, either platform and any number of faults.  Neither part is
\* inductive alone: a migration that cannot verify the v4 file removes it, and it
\* is SourceInv that says that the v3 file is still there.
THEOREM Invariance == ASSUME ~LateFlush PROVE Spec => [](SafetyInv /\ FilesInv)
<1>1. Init => SafetyInv /\ FilesInv
  BY InitSafety, InitFiles DEF Safe
<1>2. SafetyInv /\ FilesInv /\ [Next]_vars => (SafetyInv /\ FilesInv)'
  <2>. SUFFICES ASSUME SafetyInv, FilesInv, [Next]_vars PROVE SafetyInv' /\ FilesInv'
    OBVIOUS
  <2>1. SafetyInv'
    BY NextSafety DEF Safe, FilesInv
  <2> QED
    BY <2>1, NextFiles DEF Safe
<1> QED
  BY <1>1, <1>2, PTL DEF Spec

\* Every variable keeps its type, and the queue lock is held exactly while a
\* thread is inside write_new_file or a removal of FileKeystore.
THEOREM TypeCorrect == ASSUME ~LateFlush PROVE Spec => []TypeOK
<1>1. SafetyInv => TypeOK
  BY DEF SafetyInv
<1> QED
  BY <1>1, Invariance, PTL

\* A wallet the user has is recoverable in every state, unless it was once deleted
\* while the maintenance had it on its list: no crash, power loss, I/O error
\* (reads included) or interleaving of migrate_v3, migrate_to_shared_password,
\* import_wallet, delete_wallet and setup_chains leaves it without a file that
\* derives its id under a password that is kept.
THEOREM Recoverable == ASSUME ~LateFlush PROVE Spec => []SecretRecoverable
<1>1. SafetyInv => SecretRecoverable
  <2>. SUFFICES ASSUME SafetyInv, NEW w \in Kept
                PROVE  Recovers(w, dir[V4(w)]) \/ Recovers(w, dir[V3(w)])
    BY DEF SecretRecoverable, CanRecover
  <2>1. dir[V4(w)] \in pending[V4(w)] /\ dir[V3(w)] \in pending[V3(w)]
    BY EntryFacts DEF SafetyInv, TypeOK
  <2> QED
    BY <2>1 DEF SafetyInv, OwnedInv, AllRecover
<1> QED
  BY <1>1, Invariance, PTL

\* When delete_wallet has returned, neither FileKeystore::delete nor delete_v3 has
\* left a file of the wallet, and no power loss brings one back: a wallet that the
\* start-up maintenance was not handling when it was deleted is gone for good.
THEOREM DeletedForGood == ASSUME ~LateFlush PROVE Spec => []DeletedLeavesNoFile
<1>1. SafetyInv /\ FilesInv => DeletedLeavesNoFile
  BY DEF FilesInv, GoneInv, DeletedLeavesNoFile
<1> QED
  BY <1>1, Invariance, PTL

\* A v4 file whose secret does not derive the wallet id stands beside the v3 file
\* it was made from: migrate_v3 deletes the v3 file only after
\* verify_migrated_secret, whatever fails or is killed in between.
THEOREM OnlyStagedUnbound == ASSUME ~LateFlush PROVE Spec => []UnboundIsStaged
<1>1. SafetyInv /\ FilesInv => UnboundIsStaged
  <2>. SUFFICES ASSUME SafetyInv, FilesInv, NEW w \in Wallets \ raced, dir[V4(w)].kind = "ok",
                       ~Accepts(w, dir[V4(w)].secret), NEW f \in pending[V3(w)]
                PROVE  f.kind = "ok" /\ f.secret = dir[V4(w)].secret
    BY DEF UnboundIsStaged
  <2>1. dir[V4(w)] \in pending[V4(w)]
    BY EntryFacts DEF SafetyInv, TypeOK
  <2> QED
    BY <2>1 DEF FilesInv, StageInv, Staged
<1> QED
  BY <1>1, Invariance, PTL

\* "Wrong password never overwrites an existing v4 file": every step that is no
\* fault and changes a readable v4 file belongs to delete_wallet, to a migration
\* that holds the password of the file, or to the re-encryption of its secret.
THEOREM KeyholderReplaces == ASSUME ~LateFlush PROVE Spec => OnlyKeyholderReplaces
<1>. DEFINE Replaces ==
        \A w \in Wallets \ raced :
            LET f == dir[V4(w)]
            IN  f.kind = "ok" /\ dir'[V4(w)] # f /\ faults' = faults
                  => \E t \in Threads :
                        /\ task[t] # Idle /\ task[t].w = w
                        /\ \/ task[t].op = "delete"
                           \/ task[t].op = "migrate_v3" /\ task[t].pw = f.pw
                           \/ task[t].op = "share" /\ dir'[V4(w)] = Sealed(Shared, f.secret)
<1>1. SafetyInv /\ FilesInv /\ [Next]_vars => [Replaces]_vars
  <2>. SUFFICES ASSUME SafetyInv, FilesInv, Next PROVE Replaces
    OBVIOUS
  <2> QED
    BY KeyholderStep DEF Safe, Keyholder
<1> QED
  BY <1>1, Invariance, PTL DEF Spec, OnlyKeyholderReplaces

=============================================================================
