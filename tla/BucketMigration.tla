-------------------------- MODULE BucketMigration --------------------------
(***************************************************************************)
(* The boot of the server over a bucket in the v1 layout.  Every instance  *)
(* boots through EnsureMigrations: it reads the history, and either serves,*)
(* waits for the instance that holds the cache lock, or takes the lock and *)
(* applies what is pending.  The lock is a key with a TTL that names no    *)
(* owner.  The one migration that changes anything moves the files of each *)
(* v1 update under {appId}/: object by object in a cloud bucket, directory *)
(* by directory on disk.                                                   *)
(***************************************************************************)
EXTENDS Integers, FiniteSets, Sequences, SequencesExt

CONSTANTS
    Instances,   \* server processes
    V1Updates,   \* the updates of the v1 layout, one per branch
    Files,       \* the files of an update, "check" its marker
    MaxFaults    \* bound on the crashes and the failed requests

VARIABLES
    local,       \* whether the bucket is a directory
    collides,    \* whether a v1 branch is named like the app
    root,        \* the v1 objects at the root of the bucket
    scoped,      \* the v1 objects under {appId}/
    history,     \* the object .migrationhistory
    locked,      \* whether the cache has the key migration-lock
    instance,    \* the boot of each instance
    faults       \* the crashes and failed requests so far

migrationVars == <<local, collides, root, scoped, history, locked, instance, faults>>

-----------------------------------------------------------------------------
\* All: the registered migrations in the order of their timestamps.
Registered == <<"persist_uuid", "scope_under_appid">>

V1Objects == V1Updates \X Files
IsMarker(key) == key[2] = "check"

Booting == [pc |-> "boot", pending |-> <<>>, keys |-> {}, copied |-> {}, seen |-> <<>>]

\* Pending: what the history does not name, in order.
Pending == SelectSeq(Registered, LAMBDA m : ~Contains(history, m))

MigrationInit ==
    /\ local \in BOOLEAN
    /\ collides \in BOOLEAN
    /\ root = V1Objects
    /\ scoped = {}
    /\ history = <<>>
    /\ locked = FALSE
    /\ instance = [i \in Instances |-> Booting]
    /\ faults = 0

Migrating == {"next", "assets", "markers", "record", "write"}

At(i, pc) == instance[i].pc = pc
Goes(i, pc) == instance' = [instance EXCEPT ![i].pc = pc]
UnchangedBucket == UNCHANGED <<local, collides, root, scoped, history>>

-----------------------------------------------------------------------------
(* EnsureMigrations.                                                       *)

\* Nothing is pending: the boot goes on and the router replaces bootHandler.
StartServing(i) ==
    /\ At(i, "boot") /\ Pending = <<>>
    /\ Goes(i, "serving")
    /\ UnchangedBucket /\ UNCHANGED <<locked, faults>>

\* Something is: the lock is tried next.
FindPending(i) ==
    /\ At(i, "boot") /\ Pending # <<>>
    /\ Goes(i, "lock")
    /\ UnchangedBucket /\ UNCHANGED <<locked, faults>>

\* Another instance has the lock: wait, then read the history again.
HoldBoot(i) ==
    /\ At(i, "lock") /\ locked
    /\ Goes(i, "boot")
    /\ UnchangedBucket /\ UNCHANGED <<locked, faults>>

\* TryLock, then RunMigrations reads the history once more.
TryMigrationLock(i) ==
    /\ At(i, "lock") /\ ~locked
    /\ locked' = TRUE
    /\ instance' = [instance EXCEPT ![i] = [Booting EXCEPT !.pc = "next", !.pending = Pending]]
    /\ UnchangedBucket /\ UNCHANGED faults

\* The ticker sets the key again, whoever holds it by now.
RenewLock(i) ==
    /\ instance[i].pc \in Migrating
    /\ ~locked
    /\ locked' = TRUE
    /\ UnchangedBucket /\ UNCHANGED <<instance, faults>>

\* The TTL runs out: the holder is gone, is paused, or cannot reach the cache.
MigrationLockExpires ==
    /\ locked
    /\ locked' = FALSE
    /\ UnchangedBucket /\ UNCHANGED <<instance, faults>>

\* All migrations are applied and recorded; the key is deleted.
FinishMigrations(i) ==
    /\ At(i, "next") /\ instance[i].pending = <<>>
    /\ locked' = FALSE
    /\ instance' = [instance EXCEPT ![i] = [Booting EXCEPT !.pc = "serving"]]
    /\ UnchangedBucket /\ UNCHANGED faults

\* The migration returns an error: the key is deleted, the process exits and boots again.
ExitWithError(i) ==
    /\ locked' = FALSE
    /\ instance' = [instance EXCEPT ![i] = Booting]
    /\ UnchangedBucket

\* A request to the bucket fails.
FailMigrations(i) ==
    /\ instance[i].pc \in Migrating /\ faults < MaxFaults
    /\ ExitWithError(i)
    /\ faults' = faults + 1

\* The process dies where it is, and boots again.
CrashInstance(i) ==
    /\ instance[i] # Booting /\ faults < MaxFaults
    /\ instance' = [instance EXCEPT ![i] = Booting]
    /\ faults' = faults + 1
    /\ UnchangedBucket /\ UNCHANGED locked

-----------------------------------------------------------------------------
(* The migrations.                                                         *)

\* persist_uuid has nothing to do.
NoOpUp(i) ==
    /\ At(i, "next") /\ instance[i].pending # <<>>
    /\ Head(instance[i].pending) = "persist_uuid"
    /\ Goes(i, "record")
    /\ UnchangedBucket /\ UNCHANGED <<locked, faults>>

\* Mutant: only the updates whose marker has moved already are confirmed.
KeysOfMovedUpdates == {key \in root : \E m \in scoped : IsMarker(m) /\ m[1] = key[1]}

\* The keys of the updates whose marker is at the root.
KeysToMove == {key \in root : \E m \in root : IsMarker(m) /\ m[1] = key[1]}

\* moveRootKeysUnder lists the keys; a branch named like the app refuses the move.
ListRoot(i) ==
    /\ At(i, "next") /\ instance[i].pending # <<>>
    /\ Head(instance[i].pending) = "scope_under_appid"
    /\ ~collides
    /\ instance' = [instance EXCEPT ![i].pc = "assets", ![i].keys = KeysToMove]
    /\ UnchangedBucket /\ UNCHANGED <<locked, faults>>

\* It does.
RefuseCollision(i) ==
    /\ At(i, "next") /\ instance[i].pending # <<>>
    /\ Head(instance[i].pending) = "scope_under_appid"
    /\ collides
    /\ ExitWithError(i) /\ UNCHANGED faults

\* Other files first, all of them; then the markers.
Movable(i) == {key \in instance[i].keys : IsMarker(key) <=> At(i, "markers")}

\* objectStore.Copy.
CopyKey(i, key) ==
    /\ ~local
    /\ instance[i].pc \in {"assets", "markers"}
    /\ key \in Movable(i) \cap root
    /\ scoped' = scoped \cup {key}
    /\ instance' = [instance EXCEPT ![i].keys = @ \ {key}, ![i].copied = @ \cup {key}]
    /\ UNCHANGED <<local, collides, root, history, locked, faults>>

\* The key, or the directory, is gone: another instance moved it.
SourceGone(i) ==
    /\ instance[i].pc \in {"assets", "markers"}
    /\ Movable(i) \ root # {}
    /\ ExitWithError(i) /\ UNCHANGED faults

\* objectStore.Delete of a copied key, gone or not.
DeleteKey(i, key) ==
    /\ key \in instance[i].copied
    /\ root' = root \ {key}
    /\ instance' = [instance EXCEPT ![i].copied = @ \ {key}]
    /\ UNCHANGED <<local, collides, scoped, history, locked, faults>>

\* moveLocalRootEntriesUnder: one rename moves a branch, markers and all.
RenameBranch(i, u) ==
    LET dir == {u} \X Files IN
    /\ local
    /\ At(i, "assets") /\ dir \subseteq instance[i].keys \cap root
    /\ root' = root \ dir
    /\ scoped' = scoped \cup dir
    /\ instance' = [instance EXCEPT ![i].keys = @ \ dir]
    /\ UNCHANGED <<local, collides, history, locked, faults>>

\* g.Wait, then the markers, then gm.Wait.
WaitForMoves(i) ==
    /\ instance[i].copied = {} /\ Movable(i) = {}
    /\ \/ At(i, "assets") /\ Goes(i, "markers")
       \/ At(i, "markers") /\ Goes(i, "record")
    /\ UnchangedBucket /\ UNCHANGED <<locked, faults>>

\* Record reads the history.
ReadHistory(i) ==
    /\ At(i, "record")
    /\ instance' = [instance EXCEPT ![i].pc = "write", ![i].seen = history]
    /\ UnchangedBucket /\ UNCHANGED <<locked, faults>>

\* It writes it back with the migration added, and goes to the next one.
WriteHistory(i) ==
    LET m == Head(instance[i].pending)
        seen == instance[i].seen
    IN /\ At(i, "write")
       /\ history' = IF Contains(seen, m) THEN history ELSE Append(seen, m)
       /\ instance' = [instance EXCEPT ![i] =
                             [Booting EXCEPT !.pc = "next", !.pending = Tail(instance[i].pending)]]
       /\ UNCHANGED <<local, collides, root, scoped, locked, faults>>

MigrationStep(i) ==
    \/ StartServing(i) \/ FindPending(i) \/ HoldBoot(i) \/ TryMigrationLock(i)
    \/ NoOpUp(i) \/ RefuseCollision(i) \/ ListRoot(i) \/ SourceGone(i) \/ WaitForMoves(i)
    \/ ReadHistory(i) \/ WriteHistory(i) \/ FinishMigrations(i)
    \/ \E key \in V1Objects : CopyKey(i, key) \/ DeleteKey(i, key)
    \/ \E u \in V1Updates : RenameBranch(i, u)

MigrationNext ==
    \/ \E i \in Instances : MigrationStep(i) \/ RenewLock(i) \/ FailMigrations(i) \/ CrashInstance(i)
    \/ MigrationLockExpires

\* The orchestrator restarts what exits, and a key nobody renews runs out.
MigrationFairness ==
    /\ WF_migrationVars(MigrationLockExpires)
    /\ \A i \in Instances : WF_migrationVars(MigrationStep(i))

MigrationSpec == MigrationInit /\ [][MigrationNext]_migrationVars /\ MigrationFairness

-----------------------------------------------------------------------------
MigrationTypeOK ==
    /\ local \in BOOLEAN /\ collides \in BOOLEAN /\ locked \in BOOLEAN
    /\ root \subseteq V1Objects /\ scoped \subseteq V1Objects
    /\ \E n \in 0..Len(Registered) : history = SubSeq(Registered, 1, n)
    /\ \A i \in Instances :
          /\ instance[i].pc \in {"boot", "lock", "next", "assets", "markers", "record", "write", "serving"}
          /\ IsSuffix(instance[i].pending, Registered)
          /\ instance[i].keys \subseteq V1Objects /\ instance[i].copied \subseteq scoped

\* A migration interrupted anywhere, by its own failure or by another instance that runs
\* it too, loses no file and leaves none behind that the retry would not find: a file is
\* at its old key or at its new one, and as long as one of an update is at its old key,
\* its marker is (markers move last).
RetryFindsTheRest ==
    /\ root \cup scoped = V1Objects
    /\ \A key \in root : \E m \in root : IsMarker(m) /\ m[1] = key[1]

\* "instead of skipping ahead and serving from a half-migrated bucket"
\* (EnsureMigrations): nothing is left at the old keys once the migration is recorded,
\* or an instance serves.
ServesMigratedBucket ==
    Contains(history, "scope_under_appid") \/ (\E i \in Instances : At(i, "serving"))
        => root = {} /\ scoped = V1Objects

\* "The move is idempotent, so a run interrupted anywhere converges on retry": every file
\* ends under the app, unless a branch is named like it.
MigrationConverges == <>[](collides \/ root = {})
=============================================================================
