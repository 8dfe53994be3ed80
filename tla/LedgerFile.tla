------------------------------ MODULE LedgerFile ------------------------------
(***************************************************************************)
(* The file protocol of SQLiteMemoryLedger (src/humanlike_agent/memory.py):*)
(* a lock file, an image that is only ever replaced as a whole, and        *)
(* temporary images that a crash can leave behind.  Threads of several     *)
(* processes read and write; I/O fails, processes die, power is lost.      *)
(*                                                                         *)
(* A file is an inode; the directory maps names to inodes.  Directory      *)
(* changes reach the disk in order but not at once: a power loss leaves    *)
(* any directory passed through since the last fsync of the directory.     *)
(* The bytes of an inode that was not synced are torn after a power loss.  *)
(*                                                                         *)
(* The image is a set of items: a write puts or erases one.  Ownership,    *)
(* mode and link checks guard against other users and always pass here.    *)
(***************************************************************************)
EXTENDS Naturals, FiniteSets

CONSTANTS Threads, Processes, ProcessOf,
          Items,
          Kinds,        \* the kinds of call made
          Inodes,       \* enough for every file that can exist at once
          MaxOrphans,   \* 64 in the code
          Leftovers,    \* orphans a restored directory may start with
          MaxFaults,    \* bound on I/O errors, crashes and power losses
          Absent, Torn, Nobody

ASSUME ProcessOfAssumption == ProcessOf \in [Threads -> Processes]
ASSUME LedgerBounds == {MaxOrphans, Leftovers, MaxFaults} \subseteq Nat
ASSUME KindsOfCall == "read" \in Kinds /\ Kinds \subseteq {"put", "erase", "keep", "read"}
ASSUME DistinctNames ==
    /\ Absent \notin Inodes /\ Nobody \notin Threads
    /\ \A items \in SUBSET Items : Torn # items
ASSUME DiskIsFinite == IsFiniteSet(Inodes)

VARIABLES dir,      \* the directory processes see
          disk,     \* the directory as of its last fsync
          passed,   \* directories passed through since
          data,     \* the items in the bytes of each inode
          torn,     \* inodes that may hold only part of their bytes
          synced,   \* inodes whose bytes are on disk
          local,    \* holder of each process's lock for this path
          flock,    \* who holds the advisory lock, and how
          pc, job, saw, base, mine, result,   \* per thread
          gone,     \* history: items whose erasure was answered "saved"
          faults

vars == <<dir, disk, passed, data, torn, synced, local, flock, pc, job, saw, base,
          mine, result, gone, faults>>

names == <<dir, disk, passed>>
files == <<names, data, torn, synced>>
locks == <<local, flock>>
memory == <<saw, base, mine>>

Contents == SUBSET Items
Directory == [lock : BOOLEAN, image : Inodes \cup {Absent}, temps : SUBSET Inodes]
Jobs == [kind : Kinds, item : Items]
Labels == {"idle", "stat_image", "stat_lock", "open_lock", "flock", "load", "clean",
           "clean_sync", "apply", "create", "write", "sync", "replace", "sync_dir",
           "undo", "unlock", "leave"}
Results == [kind : {"none", "read", "lock_missing", "corrupt", "unchanged", "saved",
                    "failed"},
            seen : Contents]

TypeOK ==
    /\ dir \in Directory /\ disk \in Directory /\ passed \subseteq Directory
    /\ data \in [Inodes -> Contents] /\ torn \subseteq Inodes /\ synced \subseteq Inodes
    /\ local \in [Processes -> Threads \cup {Nobody}]
    /\ flock \in [exclusive : Threads \cup {Nobody}, shared : SUBSET Threads]
    /\ pc \in [Threads -> Labels]
    /\ job \in [Threads -> Jobs]
    /\ saw \in [Threads -> BOOLEAN]
    /\ base \in [Threads -> Contents]
    /\ mine \in [Threads -> Inodes \cup {Absent}]
    /\ result \in [Threads -> Results]
    /\ gone \subseteq Items
    /\ faults \in 0 .. MaxFaults

Bytes(d) ==
    IF d.image = Absent THEN {} ELSE IF d.image \in torn THEN Torn ELSE data[d.image]

None == [kind |-> "none", seen |-> {}]

Init ==
    /\ \E left \in SUBSET Inodes :
          /\ Cardinality(left) <= Leftovers
          /\ dir = [lock |-> FALSE, image |-> Absent, temps |-> left]
          /\ data = [n \in Inodes |-> IF n \in left THEN Items ELSE {}]
          /\ synced = left
    /\ disk = dir /\ passed = {}
    /\ torn = {}
    /\ local = [p \in Processes |-> Nobody]
    /\ flock = [exclusive |-> Nobody, shared |-> {}]
    /\ pc = [t \in Threads |-> "idle"]
    /\ \E x \in Items : job = [t \in Threads |-> [kind |-> "read", item |-> x]]
    /\ saw = [t \in Threads |-> FALSE]
    /\ base = [t \in Threads |-> {}]
    /\ mine = [t \in Threads |-> Absent]
    /\ result = [t \in Threads |-> None]
    /\ gone = {}
    /\ faults = 0

Reading(t) == job[t].kind = "read"
At(t, label) == pc[t] = label
Goto(t, label) == pc' = [pc EXCEPT ![t] = label]
Answer(t, kind, seen) == result' = [result EXCEPT ![t] = [kind |-> kind, seen |-> seen]]
Ends(t, kind) == Answer(t, kind, {})

\* A directory change that is not yet on disk.
Change(d) == dir' = d /\ passed' = passed \cup {dir} /\ UNCHANGED disk
SyncDirectory == disk' = dir /\ passed' = {} /\ UNCHANGED dir

-----------------------------------------------------------------------------
(* Entering: _read_image_bytes and the head of _write_snapshot *)

Enter(t, j) ==
    /\ At(t, "idle")
    /\ local[ProcessOf[t]] = Nobody
    /\ local' = [local EXCEPT ![ProcessOf[t]] = t]
    /\ job' = [job EXCEPT ![t] = j]
    /\ Ends(t, "none")
    /\ Goto(t, "stat_image")
    /\ UNCHANGED <<files, flock, memory, gone, faults>>

StatImage(t) ==
    /\ At(t, "stat_image")
    /\ saw' = [saw EXCEPT ![t] = dir.image # Absent]
    /\ IF Reading(t) /\ dir.image = Absent
       THEN Answer(t, "read", {}) /\ Goto(t, "leave")
       ELSE Goto(t, "stat_lock") /\ UNCHANGED result
    /\ UNCHANGED <<files, locks, job, base, mine, gone, faults>>

\* An image without its lock is an error.
StatLock(t) ==
    /\ At(t, "stat_lock")
    /\ IF saw[t] /\ ~dir.lock
       THEN Ends(t, "lock_missing") /\ Goto(t, "leave")
       ELSE /\ Goto(t, IF Reading(t) THEN "flock" ELSE "open_lock")
            /\ UNCHANGED result
    /\ UNCHANGED <<files, locks, job, memory, gone, faults>>

\* _create_or_open_lock: O_EXCL lets one creator win, the others open its file.
OpenLockOwned(t) ==
    /\ At(t, "open_lock")
    /\ IF dir.lock THEN UNCHANGED names
       ELSE Change([dir EXCEPT !.lock = t])
    /\ Goto(t, "flock")
    /\ UNCHANGED <<data, torn, synced, locks, job, memory, result, gone, faults>>

OpenLock(t) ==
    /\ At(t, "open_lock")
    /\ IF dir.lock THEN UNCHANGED names
       ELSE Change([dir EXCEPT !.lock = TRUE])
    /\ Goto(t, "flock")
    /\ UNCHANGED <<data, torn, synced, locks, job, memory, result, gone, faults>>

GrantableToAll(t) == TRUE

Grantable(t) ==
    /\ flock.exclusive = Nobody
    /\ Reading(t) \/ flock.shared = {}

Flock(t) ==
    /\ At(t, "flock")
    /\ Grantable(t)
    /\ flock' = IF Reading(t) THEN [flock EXCEPT !.shared = @ \cup {t}]
                ELSE [flock EXCEPT !.exclusive = t]
    /\ Goto(t, "load")
    /\ UNCHANGED <<files, local, job, memory, result, gone, faults>>

\* The deadline passes while somebody else holds the lock.
FlockGivenUp(t) ==
    /\ At(t, "flock")
    /\ ~Grantable(t)
    /\ Ends(t, "failed")
    /\ Goto(t, "idle")
    /\ UNCHANGED <<files, locks, job, memory, gone, faults>>

FlockTimeout(t) ==
    /\ At(t, "flock")
    /\ ~Grantable(t)
    /\ Ends(t, "failed")
    /\ Goto(t, "leave")
    /\ UNCHANGED <<files, locks, job, memory, gone, faults>>

\* The image is opened and read; a reader is done, a writer starts from it.
Load(t) ==
    /\ At(t, "load")
    /\ IF Bytes(dir) = Torn
       THEN Ends(t, "corrupt") /\ Goto(t, "unlock") /\ UNCHANGED base
       ELSE IF Reading(t)
       THEN Answer(t, "read", Bytes(dir)) /\ Goto(t, "unlock") /\ UNCHANGED base
       ELSE /\ base' = [base EXCEPT ![t] = Bytes(dir)]
            /\ Goto(t, "clean")
            /\ UNCHANGED result
    /\ UNCHANGED <<files, locks, job, saw, mine, gone, faults>>

-----------------------------------------------------------------------------
(* _cleanup_orphan_temps *)

CleanSkipped(t) ==
    /\ At(t, "clean")
    /\ Goto(t, "apply")
    /\ UNCHANGED <<files, locks, job, memory, result, gone, faults>>

CleanDone(t) ==
    /\ At(t, "clean")
    /\ dir.temps = {}
    /\ Goto(t, "apply")
    /\ UNCHANGED <<files, locks, job, memory, result, gone, faults>>

TooManyOrphans(t) ==
    /\ At(t, "clean")
    /\ Cardinality(dir.temps) > MaxOrphans
    /\ Ends(t, "failed")
    /\ Goto(t, "unlock")
    /\ UNCHANGED <<files, locks, job, memory, gone, faults>>

MayClean(t, n) ==
    /\ At(t, "clean")
    /\ Cardinality(dir.temps) <= MaxOrphans
    /\ n \in dir.temps

\* Truncate the orphan and sync it.
Scrub(t, n) ==
    /\ MayClean(t, n)
    /\ data[n] # {} \/ n \notin synced
    /\ data' = [data EXCEPT ![n] = {}]
    /\ torn' = torn \ {n}
    /\ synced' = synced \cup {n}
    /\ UNCHANGED <<names, locks, pc, job, memory, result, gone, faults>>

Unlink(t, n) ==
    /\ MayClean(t, n)
    /\ data[n] = {} /\ n \in synced
    /\ Change([dir EXCEPT !.temps = @ \ {n}])
    /\ Goto(t, "clean_sync")
    /\ UNCHANGED <<data, torn, synced, locks, job, memory, result, gone, faults>>

CleanSync(t) ==
    /\ At(t, "clean_sync")
    /\ SyncDirectory
    /\ Goto(t, "clean")
    /\ UNCHANGED <<data, torn, synced, locks, job, memory, result, gone, faults>>

-----------------------------------------------------------------------------
(* The transaction and _persist_snapshot *)

\* A transaction that rolls back or finds nothing to change persists nothing.
Apply(t) ==
    /\ At(t, "apply")
    /\ IF job[t].kind = "keep"
       THEN Ends(t, "unchanged") /\ Goto(t, "unlock")
       ELSE Goto(t, "create") /\ UNCHANGED result
    /\ UNCHANGED <<files, locks, job, memory, gone, faults>>

NewBytes(t) ==
    IF job[t].kind = "put" THEN base[t] \cup {job[t].item} ELSE base[t] \ {job[t].item}

InUse == UNION {d.temps \cup {d.image} : d \in passed \cup {dir, disk}}

\* A new name, any part of the bytes written so far.
CreateTemp(t) ==
    /\ At(t, "create")
    /\ \E n \in Inodes \ InUse :
          /\ Change([dir EXCEPT !.temps = @ \cup {n}])
          /\ data' = [data EXCEPT ![n] = NewBytes(t)]
          /\ torn' = torn \cup {n}
          /\ synced' = synced \ {n}
          /\ mine' = [mine EXCEPT ![t] = n]
    /\ gone' = IF job[t].kind = "put" THEN gone \ {job[t].item} ELSE gone
    /\ Goto(t, "write")
    /\ UNCHANGED <<locks, job, saw, base, result, faults>>

WriteTemp(t) ==
    /\ At(t, "write")
    /\ torn' = torn \ {mine[t]}
    /\ Goto(t, "sync")
    /\ UNCHANGED <<names, data, synced, locks, job, memory, result, gone, faults>>

SyncTempSkipped(t) ==
    /\ At(t, "sync")
    /\ Goto(t, "replace")
    /\ UNCHANGED <<files, locks, job, memory, result, gone, faults>>

SyncTemp(t) ==
    /\ At(t, "sync")
    /\ synced' = synced \cup {mine[t]}
    /\ Goto(t, "replace")
    /\ UNCHANGED <<names, data, torn, locks, job, memory, result, gone, faults>>

Replace(t) ==
    /\ At(t, "replace")
    /\ Change([dir EXCEPT !.image = mine[t], !.temps = @ \ {mine[t]}])
    /\ Goto(t, "sync_dir")
    /\ UNCHANGED <<data, torn, synced, locks, job, memory, result, gone, faults>>

SyncDirSkipped(t) ==
    /\ At(t, "sync_dir")
    /\ UNCHANGED names
    /\ Ends(t, "saved")
    /\ gone' = IF job[t].kind = "erase" THEN gone \cup {job[t].item} ELSE gone
    /\ Goto(t, "unlock")
    /\ UNCHANGED <<data, torn, synced, locks, job, memory, faults>>

SyncDir(t) ==
    /\ At(t, "sync_dir")
    /\ SyncDirectory
    /\ Ends(t, "saved")
    /\ gone' = IF job[t].kind = "erase" THEN gone \cup {job[t].item} ELSE gone
    /\ Goto(t, "unlock")
    /\ UNCHANGED <<data, torn, synced, locks, job, memory, faults>>

-----------------------------------------------------------------------------
(* Failing and leaving *)

Fault == faults < MaxFaults /\ faults' = faults + 1

\* An I/O error while persisting: the temporary image is removed.
PersistFails(t) ==
    /\ pc[t] \in {"write", "sync", "replace", "sync_dir"}
    /\ Fault
    /\ Goto(t, "undo")
    /\ UNCHANGED <<files, locks, job, memory, result, gone>>

\* Unlink our temporary image unless it is already the image, or fail to.
Undo(t) ==
    /\ At(t, "undo")
    /\ \/ /\ mine[t] \in dir.temps
          /\ Change([dir EXCEPT !.temps = @ \ {mine[t]}])
          /\ UNCHANGED faults
       \/ mine[t] \notin dir.temps /\ UNCHANGED <<names, faults>>
       \/ mine[t] \in dir.temps /\ Fault /\ UNCHANGED names
    /\ Ends(t, "failed")
    /\ Goto(t, "unlock")
    /\ UNCHANGED <<data, torn, synced, locks, job, memory, gone>>

\* An error before there is a temporary image, or a transaction that raises.
FailsEarly(t) ==
    /\ pc[t] \in {"load", "clean", "clean_sync", "apply", "create"}
    /\ Fault
    /\ Ends(t, "failed")
    /\ Goto(t, "unlock")
    /\ UNCHANGED <<files, locks, job, memory, gone>>

UnlockAndUnlink(t) ==
    /\ At(t, "unlock")
    /\ flock' = [exclusive |-> IF flock.exclusive = t THEN Nobody ELSE flock.exclusive,
                 shared |-> flock.shared \ {t}]
    /\ Change([dir EXCEPT !.lock = FALSE])
    /\ Goto(t, "leave")
    /\ UNCHANGED <<data, torn, synced, local, job, memory, result, gone, faults>>

Unlock(t) ==
    /\ At(t, "unlock")
    /\ flock' = [exclusive |-> IF flock.exclusive = t THEN Nobody ELSE flock.exclusive,
                 shared |-> flock.shared \ {t}]
    /\ Goto(t, "leave")
    /\ UNCHANGED <<files, local, job, memory, result, gone, faults>>

Leave(t) ==
    /\ At(t, "leave")
    /\ local' = [local EXCEPT ![ProcessOf[t]] = Nobody]
    /\ Goto(t, "idle")
    /\ saw' = [saw EXCEPT ![t] = FALSE]
    /\ base' = [base EXCEPT ![t] = {}]
    /\ mine' = [mine EXCEPT ![t] = Absent]
    /\ UNCHANGED <<files, flock, job, result, gone, faults>>

Dies(dead) ==
    /\ local' = [p \in Processes |-> IF local[p] \in dead THEN Nobody ELSE local[p]]
    /\ flock' = [exclusive |-> IF flock.exclusive \in dead THEN Nobody ELSE flock.exclusive,
                 shared |-> flock.shared \ dead]
    /\ pc' = [t \in Threads |-> IF t \in dead THEN "idle" ELSE pc[t]]
    /\ saw' = [t \in Threads |-> t \notin dead /\ saw[t]]
    /\ base' = [t \in Threads |-> IF t \in dead THEN {} ELSE base[t]]
    /\ mine' = [t \in Threads |-> IF t \in dead THEN Absent ELSE mine[t]]
    /\ result' = [t \in Threads |-> IF t \in dead THEN None ELSE result[t]]
    /\ UNCHANGED <<job, gone>>

\* The kernel drops a dead process's locks; its files stay.
ProcessCrash(p) ==
    /\ Fault
    /\ \E t \in Threads : ProcessOf[t] = p /\ ~At(t, "idle")
    /\ Dies({t \in Threads : ProcessOf[t] = p})
    /\ UNCHANGED files

PowerLoss ==
    /\ Fault
    /\ \E d \in passed \cup {dir, disk} : dir' = d /\ disk' = d
    /\ passed' = {}
    /\ torn' = torn \cup (Inodes \ synced)
    /\ Dies(Threads)
    /\ UNCHANGED <<data, synced>>

-----------------------------------------------------------------------------
\* Steps a thread takes on its own once it has the process's lock.
Proceed(t) ==
    \/ StatImage(t) \/ StatLock(t) \/ OpenLock(t) \/ Flock(t) \/ FlockTimeout(t) \/ Load(t)
    \/ CleanDone(t) \/ TooManyOrphans(t) \/ CleanSync(t)
    \/ \E n \in Inodes : Scrub(t, n) \/ Unlink(t, n)
    \/ Apply(t) \/ CreateTemp(t) \/ WriteTemp(t) \/ SyncTemp(t) \/ Replace(t) \/ SyncDir(t)
    \/ Undo(t) \/ Unlock(t) \/ Leave(t)

Next ==
    \/ \E t \in Threads : \/ \E j \in Jobs : Enter(t, j)
                          \/ Proceed(t)
                          \/ PersistFails(t)
                          \/ FailsEarly(t)
    \/ \E p \in Processes : ProcessCrash(p)
    \/ PowerLoss

Spec == Init /\ [][Next]_vars
FairSpec == Spec /\ \A t \in Threads : WF_vars(Proceed(t))

-----------------------------------------------------------------------------
(* Properties *)

\* Whatever crashes or loses power when, the image is whole: no call ever
\* reports it corrupt.
ImageNeverTorn ==
    TypeOK /\ Bytes(dir) # Torn /\ \A t \in Threads : result[t].kind # "corrupt"

\* Each writer scrubs what earlier ones left before it adds a file of its own,
\* so temporary images never pile up towards the limit that locks everyone out:
\* there are never more than one, or than a restored directory came with.
AtMostOneTemp == Cardinality(dir.temps) <= IF Leftovers > 1 THEN Leftovers ELSE 1

\* Because the image is looked up before the lock, a first write by another
\* process in between never makes the missing-lock error appear.
NoFalseAlarm == \A t \in Threads : result[t].kind # "lock_missing"

\* Once an erasure is answered "saved", no file that exists, or that a power
\* loss could bring back, holds the item, until it is put again.
ErasedEverywhere ==
    \A x \in gone : \A d \in passed \cup {dir, disk} :
        \A n \in (d.temps \cup {d.image}) \ {Absent} :
            x \notin data[n]

\* The promise of AtomicLedger, with the replacement of the image as the
\* moment an update takes effect.
Abstract == INSTANCE AtomicLedger WITH
    value <- Bytes(dir),
    possible <- {Bytes(d) : d \in passed \cup {dir, disk}},
    did <- {t \in Threads : At(t, "sync_dir")}
RefinesAtomicLedger == Abstract!Spec

\* A thread that got hold of the process's lock always lets go of it: it
\* finishes, fails, or times out waiting for the other processes.
CallsReturn == \A t \in Threads : (local[ProcessOf[t]] = t) ~> (local[ProcessOf[t]] # t)
=============================================================================
