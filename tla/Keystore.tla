------------------------------ MODULE Keystore ------------------------------
(***************************************************************************)
(* The secret files of the wallet app: FileKeystore (crates/gem_keystore), *)
(* GemKeystore (gemstone/src/keystore) and the GemWalletService operations *)
(* that create, migrate, re-encrypt and delete them, run by the two apps   *)
(* on two threads: the start-up maintenance and the user interface.        *)
(*                                                                         *)
(* A directory entry is abstracted to what decides recovery: is the file   *)
(* there, does it parse, which password opens it, and does its secret      *)
(* derive the wallet's id.  The legacy password of wallet w is written w,  *)
(* and so is the secret that derives w's id.  pending[f] holds every       *)
(* version of entry f that a power loss may leave behind: a rename or a    *)
(* removal is certain only after sync_directory.                           *)
(***************************************************************************)
EXTENDS Naturals, FiniteSets

CONSTANTS
    Wallets,        \* the ids of the wallets that keep a secret
    Shared,         \* the app-wide password
    Foreign,        \* a secret that derives no wallet id of the app
    LegacySolana,   \* single Solana wallets, whose old phrase derives another id
    Android,        \* TRUE: per-wallet legacy passwords; FALSE: the iOS app
    Concurrent,     \* TRUE: maintenance and user interface run side by side
    LateFlush,      \* FALSE: what a killed or failed operation left unsynced
                    \* is on disk before anything else happens to it
    MaxFaults       \* bound on kills, power losses, I/O errors and damages

ASSUME WalletsAssumption ==
    /\ IsFiniteSet(Wallets)
    /\ Shared \notin Wallets
    /\ Foreign \notin Wallets
    /\ LegacySolana \subseteq Wallets
    /\ {Android, Concurrent, LateFlush} \subseteq BOOLEAN
    /\ MaxFaults \in Nat

Passwords == Wallets \union {Shared}
Secrets == Wallets \union {Foreign}

NoFile == [kind |-> "none"]
CorruptFile == [kind |-> "corrupt"]
Sealed(pw, s) == [kind |-> "ok", pw |-> pw, secret |-> s]
File == {NoFile, CorruptFile}
          \union [kind : {"ok"}, pw : Passwords, secret : Secrets]

V4(w) == <<"v4", w>>
V3(w) == <<"v3", w>>
Own(w) == IF Android THEN w ELSE Shared     \* the password of w's v3 file
Entries == {"v4", "v3"} \X Wallets

Threads == {"startup", "ui"}
Nobody == "nobody"

VARIABLES
    dir,        \* [Entries -> File]: the directory the processes see
    pending,    \* [Entries -> SUBSET File]: what a power loss may leave
    tmp,        \* wallets with a temporary file left in the directory
    shared,     \* the password store holds the app-wide password
    legacy,     \* wallets with a legacy entry in the password store
    wallets,    \* wallet rows of the app database
    lock,       \* holder of the process-global queue lock
    task,       \* what each thread is executing
    stage,      \* the maintenance of a launch: migrate, then share, then setup
    faults,     \* faults so far
    owned,      \* history: wallets the user has and did not ask to delete
    deleted,    \* history: wallets whose delete_wallet returned
    raced       \* history: wallets deleted while the maintenance handled them

vars == <<dir, pending, tmp, shared, legacy, wallets, lock, task, stage, faults, owned, deleted, raced>>
disk == <<dir, pending, tmp>>
kept == <<shared, legacy, wallets>>
history == <<owned, deleted, raced>>

Idle == [op |-> "idle"]
Writing == {"temp", "rename", "sync"}
StepsOf == [migrate_v3 |-> {"needs", "import_v3", "verify", "undo", "cleanup"} \union Writing,
            import     |-> {"has_stored", "password", "create", "store"} \union Writing,
            delete     |-> {"delete_v4", "delete_v3", "delete_row", "sync"},
            share      |-> {"exists", "opens", "change", "confirm", "forget"} \union Writing,
            setup      |-> {"derive", "store"}]
Ops == {"migrate_v3", "import", "delete", "share", "setup"}
Steps == {"needs", "import_v3", "verify", "undo", "cleanup",
          "has_stored", "password", "create", "store",
          "delete_v4", "delete_v3", "delete_row",
          "exists", "opens", "change", "confirm", "forget", "derive",
          "temp", "rename", "sync", "done"}

-----------------------------------------------------------------------------
(* The directory and the lock.                                             *)

Opens(f, pw) == f.kind = "ok" /\ f.pw = pw
Accepts(w, s) == s = w \/ w \in LegacySolana

At(t, step) == task[t].op # "idle" /\ task[t].at = step
Free(t, step) == At(t, step) /\ lock = Nobody
Become(t, tk) == task' = [task EXCEPT ![t] = tk]
Goto(t, step) == Become(t, [task[t] EXCEPT !.at = step])

\* An operation on one wallet ends, with success or an error: the loops over
\* wallets go on with those still to do, the other operations return.
FirstStep == [migrate_v3 |-> "needs", share |-> "exists", setup |-> "derive"]
NextTasks(tk) ==
    IF tk.todo = {tk.w}
    THEN {Idle}
    ELSE {[tk EXCEPT !.todo = @ \ {tk.w}, !.w = w, !.at = FirstStep[tk.op]] :
             w \in tk.todo \ {tk.w}}
Finish(t) == \E tk \in NextTasks(task[t]) : Become(t, tk)

Put(f, file) ==
    /\ dir' = [dir EXCEPT ![f] = file]
    /\ pending' = [pending EXCEPT ![f] = @ \union {file}]

Flushed == [f \in Entries |-> {dir[f]}]

\* Mutant of WriteTemp: the name of the temporary file carries no fresh id, so
\* that the file left by a killed write makes every later one fail.
WriteTempFixedName(t) ==
    /\ At(t, "temp")
    /\ tmp' = tmp \union {task[t].w}
    /\ IF task[t].w \in tmp THEN Finish(t) /\ lock' = Nobody ELSE Goto(t, "rename") /\ UNCHANGED lock
    /\ UNCHANGED <<dir, pending, kept, stage, faults, history>>

\* write_new_file: the temporary file is created, written and synced ...
WriteTemp(t) ==
    /\ At(t, "temp")
    /\ tmp' = tmp \union {task[t].w}
    /\ Goto(t, "rename")
    /\ UNCHANGED <<dir, pending, kept, lock, stage, faults, history>>

\* Mutant of Rename: the directory is not synced after the rename.
RenameUnsynced(t) ==
    /\ At(t, "rename")
    /\ Put(V4(task[t].w), task[t].file)
    /\ tmp' = tmp \ {task[t].w}
    /\ lock' = Nobody
    /\ Goto(t, task[t].then)
    /\ UNCHANGED <<kept, stage, faults, history>>

\* ... renamed over the target ...
Rename(t) ==
    /\ At(t, "rename")
    /\ Put(V4(task[t].w), task[t].file)
    /\ tmp' = tmp \ {task[t].w}
    /\ Goto(t, "sync")
    /\ UNCHANGED <<kept, lock, stage, faults, history>>

\* ... and the directory is synced.  The removals end the same way.
SyncDirectory(t) ==
    /\ At(t, "sync")
    /\ pending' = Flushed
    /\ lock' = Nobody
    /\ IF task[t].then = "done" THEN Finish(t) ELSE Goto(t, task[t].then)
    /\ UNCHANGED <<dir, tmp, kept, stage, faults, history>>

\* Mutant of StartWrite: the queue lock is not taken.
StartWriteUnlocked(t, file, then) ==
    /\ UNCHANGED lock
    /\ Become(t, [task[t] EXCEPT !.at = "temp", !.file = file, !.then = then])

\* The lock is taken and a sealed file is about to be written, after which the
\* operation goes on at step then.
StartWrite(t, file, then) ==
    /\ lock' = t
    /\ Become(t, [task[t] EXCEPT !.at = "temp", !.file = file, !.then = then])

\* FileKeystore::delete and delete_v3: the entry is removed and, when there was
\* one, the directory is synced; the operation goes on at step then.
Remove(t, f, then) ==
    IF dir[f] = NoFile
    THEN /\ IF then = "done" THEN Finish(t) ELSE Goto(t, then)
         /\ UNCHANGED <<dir, pending, lock>>
    ELSE /\ Put(f, NoFile)
         /\ lock' = t
         /\ Become(t, [task[t] EXCEPT !.at = "sync", !.then = then])

Task(op, step, w) ==
    [op |-> op, at |-> step, w |-> w, pw |-> Shared, file |-> NoFile,
     then |-> "done", todo |-> {w}, create |-> FALSE]

CanBegin(t) == IF Concurrent THEN task[t] = Idle ELSE \A u \in Threads : task[u] = Idle
Races(t, tk) ==
    {w \in tk.todo : \E u \in Threads \ {t} :
        /\ task[u] # Idle /\ w \in task[u].todo
        /\ "delete" \in {tk.op, task[u].op}}
Begin(t, tk) ==
    /\ CanBegin(t)
    /\ Become(t, tk)
    /\ raced' = raced \union Races(t, tk)

\* A loop over the wallets of todo, in any order.
BeginLoop(t, op, todo) ==
    IF todo = {}
    THEN CanBegin(t) /\ UNCHANGED <<task, raced>>
    ELSE \E w \in todo : Begin(t, [Task(op, FirstStep[op], w) EXCEPT !.todo = todo])

-----------------------------------------------------------------------------
(* migrate_v3: one wallet of the start-up migration.                       *)

\* Every launch migrates the wallets of the database: those whose v3 file is
\* found at the start (iOS) or when their turn comes (Android) ...
StartMigrateV3(t) ==
    /\ t = "startup" /\ stage = "migrate"
    /\ stage' = "share"
    /\ BeginLoop(t, "migrate_v3",
                 IF Android THEN wallets ELSE {w \in wallets : dir[V3(w)] # NoFile})
    /\ UNCHANGED <<disk, kept, lock, faults, owned, deleted>>

\* ... with the wallet's own password (Android) or the app-wide one (iOS).
NeedsMigration(t) ==
    /\ At(t, "needs")
    /\ LET w == task[t].w
       IN  IF IF Android THEN dir[V3(w)] # NoFile /\ w \in legacy ELSE shared
           THEN Become(t, [task[t] EXCEPT !.at = "import_v3", !.pw = Own(w)])
           ELSE Finish(t)
    /\ UNCHANGED <<disk, kept, lock, stage, faults, history>>

\* Mutant of Replaceable: a file that does not open counts as corrupt.
ReplaceableUnopened(f, pw) == ~Opens(f, pw)

\* Only CorruptFile, never AuthenticationFailed, lets import_v3 write.
Replaceable(f, pw) == f \in {NoFile, CorruptFile}

\* An existing v4 file that opens is kept; a wrong password is an error; a
\* corrupt file is removed and rebuilt from the v3 file.
ImportV3(t) ==
    /\ Free(t, "import_v3")
    /\ LET w == task[t].w
           pw == task[t].pw
           v4 == dir[V4(w)]
           v3 == dir[V3(w)]
       IN  \/ /\ ~Replaceable(v4, pw)
              /\ IF Opens(v4, pw) THEN Goto(t, "verify") ELSE Finish(t)
              /\ UNCHANGED <<dir, pending, lock>>
           \/ /\ Replaceable(v4, pw)
              /\ IF v4 = NoFile THEN UNCHANGED <<dir, pending>> ELSE Put(V4(w), NoFile)
              /\ IF Opens(v3, pw)
                 THEN StartWrite(t, Sealed(pw, v3.secret), "verify")
                 ELSE Finish(t) /\ UNCHANGED lock
    /\ UNCHANGED <<tmp, kept, stage, faults, history>>

\* Mutant of VerifyMigratedSecret: the secret is decrypted but not bound.
VerifyUnbound(t) ==
    /\ Free(t, "verify")
    /\ Goto(t, IF Opens(dir[V4(task[t].w)], task[t].pw) THEN "cleanup" ELSE "undo")
    /\ UNCHANGED <<disk, kept, lock, stage, faults, history>>

\* verify_migrated_secret: the stored secret must derive the wallet id.
VerifyMigratedSecret(t) ==
    /\ Free(t, "verify")
    /\ LET w == task[t].w
           v4 == dir[V4(w)]
       IN  IF Opens(v4, task[t].pw) /\ Accepts(w, v4.secret)
           THEN Goto(t, "cleanup")
           ELSE Goto(t, "undo")
    /\ UNCHANGED <<disk, kept, lock, stage, faults, history>>

\* The binding failed: the staged v4 file is deleted and the v3 file kept.
UndoMigration(t) ==
    /\ Free(t, "undo")
    /\ Remove(t, V4(task[t].w), "done")
    /\ UNCHANGED <<tmp, kept, stage, faults, history>>

\* The binding holds: the v3 file is removed, without the lock and unsynced.
RemoveV3(t) ==
    /\ At(t, "cleanup")
    /\ IF dir[V3(task[t].w)] = NoFile
       THEN UNCHANGED <<dir, pending>>
       ELSE Put(V3(task[t].w), NoFile)
    /\ Finish(t)
    /\ UNCHANGED <<tmp, kept, lock, stage, faults, history>>

-----------------------------------------------------------------------------
(* import_wallet.                                                          *)

StartImport(t, w) ==
    /\ t = "ui"
    /\ w \notin wallets
    /\ Begin(t, Task("import", "has_stored", w))
    /\ deleted' = deleted \ {w}
    /\ UNCHANGED <<disk, kept, lock, stage, faults, owned>>

HasStoredWallets(t) ==
    /\ Free(t, "has_stored")
    /\ Become(t, [task[t] EXCEPT !.at = "password",
                                 !.create = \A w \in Wallets : dir[V4(w)] = NoFile])
    /\ UNCHANGED <<disk, kept, lock, stage, faults, history>>

GetPassword(t) ==
    /\ At(t, "password")
    /\ IF shared \/ task[t].create
       THEN shared' = TRUE /\ Goto(t, "create")
       ELSE Finish(t) /\ UNCHANGED shared
    /\ UNCHANGED <<disk, legacy, wallets, lock, stage, faults, history>>

\* import_payload_unlocked: an existing file is only verified, never replaced.
CreateStore(t) ==
    /\ Free(t, "create")
    /\ LET w == task[t].w
           v4 == dir[V4(w)]
       IN  IF v4 = NoFile
           THEN StartWrite(t, Sealed(Shared, w), "store")
           ELSE /\ IF Opens(v4, Shared) THEN Goto(t, "store") ELSE Finish(t)
                /\ UNCHANGED lock
    /\ UNCHANGED <<disk, kept, stage, faults, history>>

StoreWallet(t) ==
    /\ At(t, "store")
    /\ wallets' = wallets \union {task[t].w}
    /\ owned' = IF task[t].op = "import" THEN owned \union {task[t].w} ELSE owned
    /\ Finish(t)
    /\ UNCHANGED <<disk, shared, legacy, lock, stage, faults, deleted, raced>>

-----------------------------------------------------------------------------
(* delete_wallet: the v4 file, any v3 file, then the wallet row.           *)

StartDelete(t, w) ==
    /\ t = "ui"
    /\ w \in wallets
    /\ Begin(t, Task("delete", "delete_v4", w))
    /\ owned' = owned \ {w}
    /\ UNCHANGED <<disk, kept, lock, stage, faults, deleted>>

DeleteV4(t) ==
    /\ Free(t, "delete_v4")
    /\ Remove(t, V4(task[t].w), "delete_v3")
    /\ UNCHANGED <<tmp, kept, stage, faults, history>>

\* Mutant of DeleteV3: only the v4 file is deleted.
DeleteV3Skipped(t) ==
    /\ Free(t, "delete_v3")
    /\ Goto(t, "delete_row")
    /\ UNCHANGED <<disk, kept, lock, stage, faults, history>>

DeleteV3(t) ==
    /\ Free(t, "delete_v3")
    /\ Remove(t, V3(task[t].w), "delete_row")
    /\ UNCHANGED <<tmp, kept, stage, faults, history>>

DeleteRow(t) ==
    /\ At(t, "delete_row")
    /\ wallets' = wallets \ {task[t].w}
    /\ deleted' = deleted \union {task[t].w}
    /\ Finish(t)
    /\ UNCHANGED <<disk, shared, legacy, lock, stage, faults, owned, raced>>

-----------------------------------------------------------------------------
(* migrate_to_shared_password: every wallet row with a legacy password.    *)

StartShare(t) ==
    /\ t = "startup" /\ stage = "share"
    /\ stage' = "setup"
    /\ BeginLoop(t, "share", wallets \intersect legacy)
    /\ shared' = (shared \/ wallets \intersect legacy # {})
    /\ UNCHANGED <<disk, legacy, wallets, lock, faults, owned, deleted>>

Exists(t) ==
    /\ Free(t, "exists")
    /\ IF dir[V4(task[t].w)].kind = "ok" THEN Goto(t, "opens") ELSE Finish(t)
    /\ UNCHANGED <<disk, kept, lock, stage, faults, history>>

OpensWithShared(t) ==
    /\ Free(t, "opens")
    /\ Goto(t, IF Opens(dir[V4(task[t].w)], Shared) THEN "forget" ELSE "change")
    /\ UNCHANGED <<disk, kept, lock, stage, faults, history>>

ChangePassword(t) ==
    /\ Free(t, "change")
    /\ LET w == task[t].w
           v4 == dir[V4(w)]
       IN  IF Opens(v4, w)
           THEN StartWrite(t, Sealed(Shared, v4.secret), "confirm")
           ELSE Finish(t) /\ UNCHANGED lock
    /\ UNCHANGED <<disk, kept, stage, faults, history>>

ConfirmShared(t) ==
    /\ Free(t, "confirm")
    /\ IF Opens(dir[V4(task[t].w)], Shared) THEN Goto(t, "forget") ELSE Finish(t)
    /\ UNCHANGED <<disk, kept, lock, stage, faults, history>>

DeleteWalletPassword(t) ==
    /\ At(t, "forget")
    /\ legacy' = legacy \ {task[t].w}
    /\ Finish(t)
    /\ UNCHANGED <<disk, shared, wallets, lock, stage, faults, history>>

-----------------------------------------------------------------------------
(* setup_chains: the wallets that miss chains get new accounts.            *)

StartSetup(t) ==
    /\ t = "startup" /\ stage = "setup"
    /\ stage' = "migrate"
    /\ \E todo \in SUBSET {w \in wallets : dir[V4(w)].kind = "ok"} :
          BeginLoop(t, "setup", IF shared THEN todo ELSE {})
    /\ UNCHANGED <<disk, kept, lock, faults, owned, deleted>>

AddAccounts(t) ==
    /\ Free(t, "derive")
    /\ IF Opens(dir[V4(task[t].w)], Shared) THEN Goto(t, "store") ELSE Finish(t)
    /\ UNCHANGED <<disk, kept, lock, stage, faults, history>>

-----------------------------------------------------------------------------
(* Faults.                                                                 *)

Fault == faults < MaxFaults /\ faults' = faults + 1

\* Whether what was renamed or removed without a sync may still be undone.
LeftUnsynced == pending' = IF LateFlush THEN pending ELSE Flushed

\* write_new_file fails: its temporary file is removed and the error returned.
\* At the sync the rename or the removal is in place: the sync fails, or it
\* succeeds and reading the new file back (get_meta_unlocked) fails.
WriteError(t) ==
    /\ task[t].at \in Writing
    /\ tmp' = IF task[t].at = "rename" THEN tmp \ {task[t].w} ELSE tmp
    /\ IF task[t].at = "sync" THEN LeftUnsynced \/ pending' = Flushed ELSE UNCHANGED pending
    /\ lock' = Nobody
    /\ Finish(t)
    /\ UNCHANGED dir

\* A removal fails and leaves the entry where it was.
RemoveError(t) ==
    /\ task[t].at \in {"undo", "cleanup", "delete_v4", "delete_v3"}
    /\ task[t].at # "cleanup" => lock = Nobody
    /\ Finish(t)
    /\ UNCHANGED <<disk, lock>>

\* A file or the directory cannot be read.  Most operations return the error.
\* migrate_v3 deletes the v4 file that it cannot verify, opens_with takes the
\* password for a wrong one, and import_v3 may have removed a corrupt v4 file
\* when it fails to read the v3 file.
ReadError(t) ==
    /\ lock = Nobody
    /\ \/ /\ task[t].at \in {"import_v3", "has_stored", "create", "exists", "change", "confirm", "derive"}
          /\ Finish(t)
          /\ UNCHANGED <<dir, pending>>
       \/ /\ task[t].at = "import_v3" /\ dir[V4(task[t].w)] = CorruptFile
          /\ Put(V4(task[t].w), NoFile)
          /\ Finish(t)
       \/ /\ task[t].at = "verify" /\ Goto(t, "undo")
          /\ UNCHANGED <<dir, pending>>
       \/ /\ task[t].at = "opens" /\ Goto(t, "change")
          /\ UNCHANGED <<dir, pending>>
    /\ UNCHANGED <<tmp, lock>>

\* A file operation fails.
IoError(t) ==
    /\ Fault
    /\ task[t].op # "idle"
    /\ WriteError(t) \/ RemoveError(t) \/ ReadError(t)
    /\ UNCHANGED <<kept, stage, history>>

\* The system kills the app: nothing the kernel holds is lost.
AppKilled ==
    /\ Fault
    /\ \E t \in Threads : task[t] # Idle
    /\ LeftUnsynced
    /\ task' = [t \in Threads |-> Idle]
    /\ lock' = Nobody
    /\ stage' = "migrate"
    /\ UNCHANGED <<dir, tmp, kept, history>>

\* The device loses power: an unsynced entry comes back in any version.
PowerLoss ==
    /\ Fault
    /\ dir' \in {d \in [Entries -> UNION {pending[f] : f \in Entries}] :
                    \A f \in Entries : d[f] \in pending[f]}
    /\ pending' = [f \in Entries |-> {dir'[f]}]
    /\ task' = [t \in Threads |-> Idle]
    /\ lock' = Nobody
    /\ stage' = "migrate"
    /\ UNCHANGED <<tmp, kept, history>>

\* The disk damages a v4 file whose v3 original is still there.
Damage(w) ==
    /\ Fault
    /\ lock = Nobody
    /\ dir[V4(w)].kind = "ok" /\ dir[V3(w)].kind = "ok" /\ dir[V3(w)].pw = dir[V4(w)].pw
    /\ pending[V3(w)] = {dir[V3(w)]}
    /\ \A t \in Threads : task[t] = Idle
    /\ dir' = [dir EXCEPT ![V4(w)] = CorruptFile]
    /\ pending' = [pending EXCEPT ![V4(w)] = {CorruptFile}]
    /\ UNCHANGED <<tmp, kept, lock, task, stage, history>>

-----------------------------------------------------------------------------
\* A wallet starts absent, with a v3 file whose secret derives its id or not,
\* or with a v4 file, each under a password the password store holds.
InitialFiles(w) ==
    {<<NoFile, NoFile>>, <<Sealed(Own(w), w), NoFile>>, <<Sealed(Shared, w), NoFile>>,
     <<NoFile, Sealed(Own(w), w)>>, <<NoFile, Sealed(Own(w), Foreign)>>}

Init ==
    /\ \E start \in [Wallets -> UNION {InitialFiles(w) : w \in Wallets}] :
          /\ \A w \in Wallets : start[w] \in InitialFiles(w)
          /\ dir = [f \in Entries |-> start[f[2]][IF f[1] = "v4" THEN 1 ELSE 2]]
    /\ pending = Flushed
    /\ tmp = {}
    /\ shared = \E f \in Entries : Opens(dir[f], Shared)
    /\ legacy = {w \in Wallets : Opens(dir[V4(w)], w) \/ Opens(dir[V3(w)], w)}
    /\ wallets = {w \in Wallets : dir[V4(w)] # NoFile \/ dir[V3(w)] # NoFile}
    /\ owned = {w \in Wallets : \E f \in {V4(w), V3(w)} :
                                   dir[f].kind = "ok" /\ Accepts(w, dir[f].secret)}
    /\ deleted = {} /\ raced = {}
    /\ lock = Nobody
    /\ task = [t \in Threads |-> Idle]
    /\ stage = "migrate"
    /\ faults = 0

Step(t) ==
    \/ WriteTemp(t) \/ Rename(t) \/ SyncDirectory(t)
    \/ NeedsMigration(t) \/ ImportV3(t) \/ VerifyMigratedSecret(t) \/ UndoMigration(t) \/ RemoveV3(t)
    \/ HasStoredWallets(t) \/ GetPassword(t) \/ CreateStore(t) \/ StoreWallet(t)
    \/ DeleteV4(t) \/ DeleteV3(t) \/ DeleteRow(t)
    \/ Exists(t) \/ OpensWithShared(t) \/ ChangePassword(t) \/ ConfirmShared(t)
    \/ DeleteWalletPassword(t) \/ AddAccounts(t)

Next ==
    \/ \E t \in Threads : Step(t) \/ IoError(t)
    \/ \E t \in Threads : StartMigrateV3(t) \/ StartShare(t) \/ StartSetup(t)
    \/ \E t \in Threads, w \in Wallets : StartImport(t, w) \/ StartDelete(t, w)
    \/ AppKilled \/ PowerLoss \/ \E w \in Wallets : Damage(w)

Spec == Init /\ [][Next]_vars

\* Fairness: a thread that runs an operation goes on with it, the queue lock
\* does not starve it, and the maintenance of a launch runs to its end.
FairSpec ==
    /\ Spec
    /\ \A t \in Threads : SF_vars(Step(t))
    /\ WF_vars(StartMigrateV3("startup"))
    /\ WF_vars(StartShare("startup"))
    /\ WF_vars(StartSetup("startup"))

-----------------------------------------------------------------------------
(* Properties.                                                             *)

Tasks == [op : Ops, at : Steps, w : Wallets, pw : Passwords, file : File,
          then : Steps, todo : SUBSET Wallets, create : BOOLEAN]

\* A task that thread t can be executing.
TaskOf(t, tk) ==
    /\ tk \in Tasks
    /\ tk.op \in IF t = "ui" THEN {"import", "delete"} ELSE {"migrate_v3", "share", "setup"}
    /\ tk.at \in StepsOf[tk.op]
    /\ tk.then \in StepsOf[tk.op] \union {"done"}
    /\ tk.w \in tk.todo
    /\ t = "ui" => tk.todo = {tk.w}

\* Every variable keeps its type, each thread runs its own operations on the
\* wallets of its list, and the queue lock is held exactly during a write or a
\* removal.
TypeOK ==
    /\ dir \in [Entries -> File]
    /\ pending \in [Entries -> SUBSET File]
    /\ \A f \in Entries : dir[f] \in pending[f]
    /\ shared \in BOOLEAN
    /\ {tmp, legacy, wallets, owned, deleted, raced} \subseteq SUBSET Wallets
    /\ lock \in Threads \union {Nobody}
    /\ stage \in {"migrate", "share", "setup"}
    /\ faults \in 0 .. MaxFaults
    /\ DOMAIN task = Threads
    /\ \A t \in Threads : task[t] # Idle => TaskOf(t, task[t])
    /\ \A t \in Threads : lock = t <=> (task[t] # Idle /\ task[t].at \in Writing)

Held(pw) == IF pw = Shared THEN shared ELSE pw \in legacy
Recovers(w, f) == f.kind = "ok" /\ Accepts(w, f.secret) /\ Held(f.pw)

CanRecover(w) == Recovers(w, dir[V4(w)]) \/ Recovers(w, dir[V3(w)])

\* The wallets the user has, but for those that were deleted while a loop of the
\* maintenance still had them on its list: of these nothing is claimed, also
\* when they are imported again (see OwnedRecoverable).
Kept == owned \ raced

\* A kept wallet can be recovered at every moment: some file on disk holds its
\* secret under a password that the password store still has, whatever was
\* interrupted, failed (reads included) or lost power.
SecretRecoverable == \A w \in Kept : CanRecover(w)

\* When a migration cannot be verified, "the staged v4 file is deleted, the v3 file
\* is preserved" (docs/KEYSTORE_V4.md): SecretRecoverable for every wallet the user
\* has, one that was deleted during its migration and imported again included.
OwnedRecoverable == \A w \in owned : CanRecover(w)

\* When delete_wallet has returned, no v4 and no v3 file of the wallet is left,
\* and no power loss brings one back (unless the maintenance was handling the
\* wallet when it was deleted, see DeletedIsGone).
DeletedLeavesNoFile ==
    \A w \in deleted \ raced : pending[V4(w)] = {NoFile} /\ pending[V3(w)] = {NoFile}

\* A v4 file whose secret does not derive the wallet id is only ever staged: the
\* v3 file it was made from is still there, so migrate_v3 never makes an unbound
\* secret the wallet's only copy.  A wallet that was deleted while the
\* maintenance handled it is left out: there the v3 file may be gone.
UnboundIsStaged ==
    \A w \in Wallets \ raced :
        dir[V4(w)].kind = "ok" /\ ~Accepts(w, dir[V4(w)].secret)
            => \A f \in pending[V3(w)] : f.kind = "ok" /\ f.secret = dir[V4(w)].secret

\* "Wrong password never overwrites an existing v4 file": a readable v4 file is
\* replaced or removed only by a fault, by delete_wallet, or by an operation
\* that holds the password that opens it; re-encryption keeps its secret.  A
\* wallet that was deleted while the maintenance handled it is left out: there
\* UndoMigration removes a file that was sealed with another password.
OnlyKeyholderReplaces ==
    [][\A w \in Wallets \ raced :
          LET f == dir[V4(w)]
          IN  f.kind = "ok" /\ dir'[V4(w)] # f /\ faults' = faults
                => \E t \in Threads :
                      /\ task[t] # Idle /\ task[t].w = w
                      /\ \/ task[t].op = "delete"
                         \/ task[t].op = "migrate_v3" /\ task[t].pw = f.pw
                         \/ task[t].op = "share" /\ dir'[V4(w)] = Sealed(Shared, f.secret)]_vars

\* Once the faults stop, every kept wallet ends in a v4 file that the app-wide
\* password opens, and stays so: no interruption strands a migration.
EventuallyShared == <>[](\A w \in Kept : Opens(dir[V4(w)], Shared))

\* "removes every on-disk copy ... before deleting wallet metadata, so no secret
\* is orphaned": the unconditional form of DeletedLeavesNoFile.
DeletedIsGone == \A w \in deleted : dir[V4(w)] = NoFile /\ dir[V3(w)] = NoFile

-----------------------------------------------------------------------------
(* The inductive invariant behind SecretRecoverable, proved in             *)
(* Keystore_proofs.  Ui and Startup are the two tasks.                     *)

Ui == task["ui"]
Startup == task["startup"]
SyncingOn(w) == \E t \in Threads : task[t] # Idle /\ task[t].at = "sync" /\ task[t].w = w
Syncing == \E t \in Threads : task[t] # Idle /\ task[t].at = "sync"
OnDisk(w) == pending[V4(w)] \union pending[V3(w)]
AllRecover(w, f) == \A g \in pending[f] : Recovers(w, g)

\* Who may be at work on a wallet at the same time: once the maintenance has
\* overlapped a deletion the wallet is in raced, and nothing is claimed of it.
RaceInv ==
    /\ Startup # Idle => Startup.todo \ raced \subseteq wallets
    /\ Ui # Idle => Ui.w \notin Kept
    /\ Ui # Idle /\ Ui.op = "delete" /\ Startup # Idle /\ Ui.w \in Startup.todo => Ui.w \in raced
    /\ Ui # Idle /\ Ui.op = "import" /\ Ui.w \notin raced =>
          Ui.w \notin wallets /\ (Startup # Idle => Ui.w \notin Startup.todo)
    /\ Kept \subseteq wallets

\* A file sealed with the app-wide password exists only after that password.
PasswordInv ==
    \A f \in Entries : \A g \in pending[f] : Opens(g, Shared) => shared

\* Which entries may be unsynced, and what is left of a wallet without a row.
DiskInv ==
    /\ \A w \in Wallets :
          /\ \/ SyncingOn(w)
             \/ dir[V4(w)].kind = "ok" /\ pending[V4(w)] = {dir[V4(w)]}
             \/ pending[V4(w)] \subseteq {NoFile, CorruptFile}
          /\ dir[V3(w)] # NoFile => pending[V3(w)] = {dir[V3(w)]}
          /\ \A g \in pending[V3(w)] : g = NoFile \/ (g.kind = "ok" /\ g.pw = Own(w))
    /\ \A w \in Wallets \ raced :
          dir[V3(w)] = NoFile => pending[V3(w)] = {NoFile} \/ dir[V4(w)].kind = "ok" \/ Syncing
    /\ \A w \in Wallets \ (wallets \union raced) :
          /\ pending[V3(w)] = {NoFile}
          /\ pending[V4(w)] \subseteq {NoFile, CorruptFile, Sealed(Shared, w)}

\* What each operation on a kept wallet knows of its files.
MigrateInv ==
    Startup # Idle /\ Startup.op = "migrate_v3" =>
        /\ Startup.at # "needs" => Held(Startup.pw) /\ Startup.pw = Own(Startup.w)
        /\ Startup.at \in {"temp", "rename"} =>
              Startup.then = "verify" /\ Opens(Startup.file, Startup.pw)
        /\ Startup.at = "cleanup" /\ Startup.w \notin raced => dir[V4(Startup.w)].kind = "ok"
        /\ Startup.at = "sync" => Startup.then \in {"verify", "done"}
        /\ Startup.w \in Kept =>
              /\ Startup.at \in {"temp", "rename"} => Accepts(Startup.w, Startup.file.secret)
              /\ Startup.at = "cleanup" => AllRecover(Startup.w, V4(Startup.w))

ShareInv ==
    Startup # Idle /\ Startup.op = "share" =>
        /\ shared
        /\ Startup.at \in Writing => Startup.then = "confirm"
        /\ Startup.w \in Kept =>
              /\ Startup.at \in {"temp", "rename"} =>
                    Opens(Startup.file, Shared) /\ Accepts(Startup.w, Startup.file.secret)
              /\ Startup.at = "forget" => \A g \in pending[V4(Startup.w)] : Opens(g, Shared)

ImportInv ==
    Ui # Idle /\ Ui.op = "import" =>
        /\ Ui.at \notin {"has_stored", "password"} => shared
        /\ Ui.at \in Writing => Ui.then = "store"
        /\ Ui.at \in {"temp", "rename"} => Ui.file = Sealed(Shared, Ui.w)
        /\ Ui.at = "sync" => dir[V4(Ui.w)] = Sealed(Shared, Ui.w)
        /\ Ui.at = "store" /\ Ui.w \notin raced => pending[V4(Ui.w)] = {Sealed(Shared, Ui.w)}

DeleteInv ==
    Ui # Idle /\ Ui.op = "delete" =>
        /\ Ui.at = "sync" => Ui.then \in {"delete_v3", "delete_row"}
        /\ Ui.w \notin raced =>
              /\ Ui.at # "delete_v4" => dir[V4(Ui.w)] = NoFile
              /\ Ui.at = "sync" /\ Ui.then = "delete_row" => dir[V3(Ui.w)] = NoFile
              /\ Ui.at \in {"delete_v3", "delete_row"} =>
                    pending[V4(Ui.w)] \subseteq {NoFile, CorruptFile}
              /\ Ui.at = "delete_row" => pending[V3(Ui.w)] = {NoFile}

\* A kept wallet has only files that derive its id, under its passwords, and every
\* version of its v4 entry, or every version of its v3 entry, recovers it.
OwnedInv ==
    \A w \in Kept :
        /\ \A g \in OnDisk(w) : g.kind = "ok" => Accepts(w, g.secret) /\ g.pw \in {w, Shared}
        /\ AllRecover(w, V4(w)) \/ AllRecover(w, V3(w))

SafetyInv ==
    /\ TypeOK /\ RaceInv /\ PasswordInv /\ DiskInv
    /\ MigrateInv /\ ShareInv /\ ImportInv /\ DeleteInv /\ OwnedInv

-----------------------------------------------------------------------------
(* The second inductive invariant, on top of SafetyInv: what the files and *)
(* the threads at work on them owe each other.  It is proved in            *)
(* Keystore_proofs and gives DeletedLeavesNoFile, UnboundIsStaged and      *)
(* OnlyKeyholderReplaces.                                                  *)

\* The secret of v4 file g derives w's id, or is that of the v3 file, whatever
\* a power loss leaves of it.
Staged(w, g) ==
    g.kind = "ok" /\ ~Accepts(w, g.secret) =>
        \A f \in pending[V3(w)] : f.kind = "ok" /\ f.secret = g.secret

StageInv == \A w \in Wallets \ raced : \A g \in pending[V4(w)] : Staged(w, g)

\* An unsynced removal of a v4 file comes with a v3 file, whose removal by
\* delete_wallet syncs the directory; a deleted wallet is out of every loop.
GoneInv ==
    /\ \A w \in Wallets \ raced :
          dir[V4(w)] = NoFile => pending[V4(w)] = {NoFile} \/ dir[V3(w)] # NoFile \/ SyncingOn(w)
    /\ \A w \in deleted \ raced :
          w \notin wallets /\ pending[V4(w)] = {NoFile} /\ pending[V3(w)] = {NoFile}
    /\ Ui # Idle => Ui.w \notin deleted \ raced

\* A file about to be renamed replaces no readable file, or re-encrypts it.
ReplaceInv(t) ==
    task[t] # Idle /\ task[t].at \in {"temp", "rename"} =>
        /\ dir[V4(task[t].w)].kind = "ok" =>
              task[t].op = "share" /\ task[t].file = Sealed(Shared, dir[V4(task[t].w)].secret)
        /\ task[t].w \notin raced => Staged(task[t].w, task[t].file)

\* migrate_v3 verifies and undoes only a file it can open, and removes a v3
\* file only when every version of the v4 file derives the id.
BoundInv ==
    Startup # Idle /\ Startup.w \notin raced =>
        /\ \/ Startup.at \in {"verify", "undo"}
           \/ Startup.at = "sync" /\ Startup.then = "verify"
           => (dir[V4(Startup.w)].kind = "ok" => dir[V4(Startup.w)].pw = Startup.pw)
        /\ Startup.at = "cleanup" =>
              \A g \in pending[V4(Startup.w)] : g.kind = "ok" => Accepts(Startup.w, g.secret)

\* The v3 files that put a wallet on the list of migrate_v3 are still there, so
\* that every step up to the cleanup may delete the v4 file.
SourceInv ==
    Startup # Idle /\ Startup.op = "migrate_v3" =>
        \A w \in Startup.todo \ raced :
            ~Android \/ (w = Startup.w /\ Startup.at # "needs") => dir[V3(w)] # NoFile

FilesInv ==
    /\ StageInv /\ GoneInv /\ BoundInv /\ SourceInv
    /\ \A t \in Threads : ReplaceInv(t)
=============================================================================
